SPECIFICATION Spec
CONSTANTS
    People = {"root", "ann", "bob"}
    Root = "root"
    Clients = {"acme", "bolt"}
    Websites = {"shop", "blog", "site"}
    OwnerOf <- MCOwnerOf
    Worlds <- MCWorlds
INVARIANTS TypeOK AppointedBySuperuser DeletedStaysDeleted
CHECK_DEADLOCK FALSE
