SPECIFICATION Spec
CONSTANTS
    j1 = j1
    j2 = j2
    s1 = s1
    s2 = s2
    Jobs = {j1, j2}
    Sites = {s1, s2}
    SiteOf <- OneSite
    Workers = {w1, w2}
    Tickets = {t1, t2, t3}
    Requests = {r1, r2}
    NoJob = NoJob
    NoTicket = NoTicket
    Admission = 1
    QueueLimit = 2
    MaxRetries = 1
    Operators = 1
    Events = {"pause", "cancel", "fail"}
SYMMETRY Symmetry
CHECK_DEADLOCK FALSE
INVARIANTS
    TypeOK
    NoLostJob
    
