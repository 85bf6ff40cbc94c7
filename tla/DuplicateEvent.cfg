SPECIFICATION Spec
CONSTANTS
    Versions = {1}
    Workers = {w1, w2}
    Data = {good, bad}
    BadTars = {bad}
    Channels = {"PROD", "BETA"}
    MaxUploads = 1
    MaxEvents = 1
    Ops = {"upload"}
    Exclusive = {"restore", "delete"}
    Env = {"dup"}
    NoData = NoData
    NoChannel = NoChannel
SYMMETRY Symmetry
CHECK_DEADLOCK FALSE
PROPERTIES
    ActiveNotQuarantined
