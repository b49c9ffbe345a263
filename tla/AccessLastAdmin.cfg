SPECIFICATION Spec
CONSTANTS
    People = {"root", "ann", "bob"}
    Root = "root"
    Clients = {"acme", "bolt"}
    Websites = {"shop", "blog", "site"}
    OwnerOf <- MCOwnerOf
    Worlds <- MCRaces
PROPERTY AdminKept
CHECK_DEADLOCK FALSE
