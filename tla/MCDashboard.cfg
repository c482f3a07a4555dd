SPECIFICATION DashboardSpec
CONSTANTS
    share = share
    volume = volume
    document = document
    terminal = terminal
    setting = setting
    Label = Label
    None = None
    DriveOrder <- MCDriveOrder
    NetworkDrives = {share}
    Files = {document}
    TerminalIds = {terminal}
    Catalog = {setting}
    Widths <- MCWidths
INVARIANTS
    DashboardTypeOK
    CardsFit
    RefusedOnlyIfGone
