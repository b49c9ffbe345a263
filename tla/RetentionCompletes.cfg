SPECIFICATION FairSpec
CONSTANTS
    MaxRun = 2
    Full = {2}
    Urls = {u1, u2}
    Datasets = {"url_links"}
    Executors = {w1}
    Commands = {}
    BatchSize = 2
    MaxRows = 1
    Admission = 1
    Retries = 0
    Faults = 1
CHECK_DEADLOCK FALSE
INVARIANT
    EvidenceKept
PROPERTY
    OperationsSucceed
