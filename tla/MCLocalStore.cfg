SPECIFICATION Spec
CONSTANTS
    Keys = {"heroCollapsed", "metricRefreshMode"}
    Values = {"default", "chosen"}
    Defaults <- MCDefaults
    Snapshots = {"s1", "s2"}
INVARIANTS
    TypeOK
    NeverTorn
    AnswerMatchesFile
PROPERTIES
    OthersSurvive
