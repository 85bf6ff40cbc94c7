SPECIFICATION Spec
CONSTANTS
    Devices = {d1}
    Versions = {1}
    ConsentIds = {c1, c2}
    Workers = {w1, w2}
    MaxSec = 0
    MaxCrash = 1
    MapReady = {d1}
    Mirroring = {}
    Telling = {d1}
    Ops = {"accept", "deploy"}
    Env = {"overlap", "delay", "sameSecond", "dup", "loss", "late", "reorder"}
    Reports = {"SUCCEEDED", "REJECTED"}
    NoJob = NoJob
    NoDev = NoDev
    NoCons = NoCons
SYMMETRY Symmetry
CHECK_DEADLOCK FALSE
INVARIANTS
    AcceptedHasJob PendingHasJob RowHasJob JobOfOneConsent Backed SuccessIsReal
