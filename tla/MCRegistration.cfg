SPECIFICATION Spec
CONSTANTS
    Locations = {"MyComputer", "Desktop"}
    Servers = {dll1, dll2}
    NoServer = NoServer
INVARIANTS
    TypeOK
    RegisteredIsWhole
PROPERTIES
    EntryPublishedLast
    ForeignServerKept
