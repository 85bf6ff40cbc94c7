SPECIFICATION Spec
CONSTANTS
    Devices = {d1}
    Versions = {1}
    ConsentIds = {c1, c2}
    Workers = {w1, w2}
    MaxSec = 1
    MaxCrash = 0
    MapReady = {d1}
    Mirroring = {}
    Telling = {d1}
    Ops = {"accept"}
    Env = {"overlap"}
    Reports = {"SUCCEEDED"}
    NoJob = NoJob
    NoDev = NoDev
    NoCons = NoCons
SYMMETRY Symmetry
CHECK_DEADLOCK FALSE
PROPERTIES
    OneUpdateAtATime
