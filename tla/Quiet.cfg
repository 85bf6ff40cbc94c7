SPECIFICATION Spec
CONSTANTS
    Devices = {d1}
    Versions = {1, 2}
    ConsentIds = {c1, c2, c3}
    Workers = {w1}
    MaxSec = 1
    MaxCrash = 0
    MapReady = {d1}
    Mirroring = {d1}
    Telling = {d1}
    Ops = {"accept", "deploy", "decline"}
    Env = {"restart", "progress", "reorder"}
    Reports = {"SUCCEEDED", "FAILED"}
    NoJob = NoJob
    NoDev = NoDev
    NoCons = NoCons
SYMMETRY Symmetry
CHECK_DEADLOCK FALSE
INVARIANTS
    ConsentBehindEveryJob ReportClearsPending OfferCanBeTaken LiveUpdateIsShown
PROPERTIES
    OneUpdateAtATime
