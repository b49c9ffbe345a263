SPECIFICATION FairSpec
CONSTANTS
    Tasks = {t1}
    Targets = {"implemented", "in_progress", "closed"}
    Rendered = {}
    MaxVerification = 2
    Workers = {w1, w2}
    Tickets = {k1, k2}
    Requests = {r1, r2}
    NoTicket = NoTicket
    Admission = 1
    MaxRetries = 2
    MaxAttempts = 2
    MaxFaults = 1
CHECK_DEADLOCK FALSE
INVARIANTS TypeOK TaskShowsActive 
PROPERTIES  VerificationDecided
