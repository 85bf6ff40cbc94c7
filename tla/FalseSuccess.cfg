SPECIFICATION Spec
CONSTANTS
    Devices = {d1}
    Versions = {1}
    ConsentIds = {c1}
    Workers = {w1}
    MaxSec = 0
    MaxCrash = 0
    MapReady = {d1}
    Mirroring = {}
    Telling = {d1}
    Ops = {"accept", "stale"}
    Env = {"loss"}
    Reports = {"FAILED"}
    NoJob = NoJob
    NoDev = NoDev
    NoCons = NoCons
SYMMETRY Symmetry
CHECK_DEADLOCK FALSE
INVARIANTS
    SuccessIsReal
