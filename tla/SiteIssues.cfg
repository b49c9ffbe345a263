SPECIFICATION Spec
CONSTANTS
    Pages <- MCPages
    Url <- MCUrl
    Answer <- MCAnswer
    Least <- MCLeast
    ClusterSize <- MCClusterSize
    Worlds <- MCWorlds
    Maxima = {2, 9}
    Decisions = {"in_progress", "accepted_risk"}
    StopPoints = {5, 18}
INVARIANTS TypeOK ChangesAreReal
PROPERTIES SettledAfterCrawl GroupsFollowMembers NotVerifiedAtOnce
CHECK_DEADLOCK FALSE
