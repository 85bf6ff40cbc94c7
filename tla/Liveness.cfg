SPECIFICATION FairSpec
CONSTANTS
    Devices = {d1}
    Versions = {1}
    ConsentIds = {c1}
    Workers = {w1}
    MaxSec = 0
    MaxCrash = 1
    MapReady = {}
    Mirroring = {}
    Telling = {d1}
    Ops = {"accept", "stale", "abort", "recall"}
    Env = {"delay", "loss", "progress", "late"}
    Reports = {"SUCCEEDED"}
    NoJob = NoJob
    NoDev = NoDev
    NoCons = NoCons
CHECK_DEADLOCK FALSE
PROPERTIES
    RowsSettle
