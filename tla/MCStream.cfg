SPECIFICATION FairSpec
CONSTANTS
    MaxEvents = 4
    MaxConnections = 3
    Setups <- CalmAndBusy
INVARIANTS OncePerConnection
PROPERTIES ImplementsFeed
CHECK_DEADLOCK FALSE
