SPECIFICATION Spec
CONSTANTS
    Versions = {1}
    Workers = {w1, w2}
    Data = {good, other, bad}
    BadTars = {bad}
    Channels = {"PROD"}
    MaxUploads = 2
    MaxEvents = 2
    Ops = {"upload", "multipart", "recall", "toggle", "delete"}
    Exclusive = {"restore", "delete"}
    Env = {"reput", "dup", "fail", "die"}
    NoData = NoData
    NoChannel = NoChannel
SYMMETRY Symmetry
CHECK_DEADLOCK FALSE
INVARIANTS
    TypeOK
PROPERTIES
    AwaitedIsAnnounced
