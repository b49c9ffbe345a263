SPECIFICATION Spec
CONSTANTS
    Worlds <- MCWorlds
    Queues <- MCQueues
    Backlog = 1
    Questions = {q1, q2}
    Freshness = 1
    Month = 2
    Properties = {"p1", "p2"}
    HistoryDays = 4
    RecentDays = 2
    Urls = {"a", "b"}
    Tokens = 2
INVARIANTS
    TypeOK
    AnswersPaid
    
    CrawlIsProven
    

    
    
CHECK_DEADLOCK FALSE
