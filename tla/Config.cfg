SPECIFICATION FairSpec
CONSTANTS
    h1 = h1
    h2 = h2
    Saves = {h1, h2}
    Keys = {"host", "poll", "password", "redis"}
    Values = {"new", "0"}
    Forms <- AllForms
    Pods = {"pod1"}
    Fatal <- ZeroFatal
    Unset = Unset
    Retries = 2
    MaxEdits = 1
INVARIANTS
    TypeOK
    PodsReadWhatWasSaved
PROPERTIES
    SavesKeepOthers
    SavesReachPods
CHECK_DEADLOCK FALSE
