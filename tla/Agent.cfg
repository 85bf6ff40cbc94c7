SPECIFICATION FairSpec
CONSTANTS
    Threads = {t1}
    MaxJobs = 2
    Firmware = {2}
    MaxBackups = 2
    MaxTries = 2
    MaxCrashes = 2
    MaxNotices = 1
    Drops = TRUE
    NoThread = NoThread
CHECK_DEADLOCK FALSE
INVARIANTS
    TypeOK SoundCopySurvives ServiceBack
PROPERTIES
    SucceededIsInstalled RolledBackIsTrue JobsEnd
