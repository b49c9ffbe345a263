SPECIFICATION Spec
CONSTANTS
    MaxRun = 2
    Full = {2}
    Urls = {u1, u2}
    Datasets = {"element_locations"}
    Executors = {w1, c1}
    Commands = {c1}
    BatchSize = 2
    MaxRows = 1
    Admission = 1
    Retries = 1
    Faults = 1
CHECK_DEADLOCK FALSE
INVARIANTS
    TypeOK
    NewestLocationsKept
