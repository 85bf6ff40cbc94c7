SPECIFICATION Spec
CONSTANTS
    Devices = {d1, d2}
    Versions = {1}
    ConsentIds = {c1, c2}
    Workers = {w1, w2}
    MaxSec = 1
    MaxCrash = 0
    MapReady = {}
    Mirroring = {d1, d2}
    Telling = {d1, d2}
    Ops = {"accept", "deploy", "abort", "recall"}
    Env = {"console", "delay"}
    Reports = {"FAILED"}
    NoJob = NoJob
    NoDev = NoDev
    NoCons = NoCons
SYMMETRY Symmetry
CHECK_DEADLOCK FALSE
INVARIANTS
    TypeOK RecalledNotQueued AbortedOffersNothing
PROPERTIES
    NeverRequeued
