SPECIFICATION Spec
CONSTANTS
    Devices = {d1, d2, d3}
    Workers = {w1, w2}
    Instances = {i1}
    CanaryMax = 1
    MaxMaster = 2
    MaxKeys = 2
    NoDev = NoDev
SYMMETRY Symmetry
CHECK_DEADLOCK FALSE
INVARIANTS
    TypeOK CanaryBounded OneGroup JobOpens
