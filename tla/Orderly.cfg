SPECIFICATION Spec
CONSTANTS
    Versions = {1, 2}
    Workers = {w1, w2}
    Data = {good, bad}
    BadTars = {bad}
    Channels = {"PROD", "BETA"}
    MaxUploads = 3
    MaxEvents = 1
    Ops = {"upload", "recall", "promote", "restore", "delete"}
    Exclusive = {"restore", "delete"}
    Env = {"fail", "die"}
    NoData = NoData
    NoChannel = NoChannel
SYMMETRY Symmetry
CHECK_DEADLOCK FALSE
INVARIANTS
    ServesWhatWasAnnounced NoOlderSurvives PlainDeleted
PROPERTIES
    RecalledStays RestoredAlone
