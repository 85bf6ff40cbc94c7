SPECIFICATION Spec
CONSTANTS
    Threads = {t1, t2}
    MaxJobs = 2
    Firmware = {1, 2}
    MaxBackups = 1
    MaxTries = 1
    MaxCrashes = 0
    MaxNotices = 2
    Drops = FALSE
    NoThread = NoThread
SYMMETRY Symmetry
CHECK_DEADLOCK FALSE
PROPERTIES
    NeverInstallsPartial
