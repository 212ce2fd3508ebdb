\* Two notifications, one e-mail worker, two partitions.
SPECIFICATION FairSpec
CONSTANTS
    NoMsg = NoMsg
    Notifs = {n1, n2}
    Channels = {"email"}
    Partitions = {1, 2}
    ChannelOf <- AllEmail
    Recipient <- AllReachable
    MaxAttempts = 1
    ProviderErrors = TRUE
    ProducerRetries = TRUE
    ReadTimeouts = FALSE
    Stops = {"crash", "signal"}
    MaxPerPartition = 2
    MaxDBErrors = 0
    MaxStarts = 2
    MaxMishaps = 1
    MaxServerStarts = 1
INVARIANTS
    TypeOK
    ForeignKeyHolds
    InOrderPerPartition
PROPERTIES
    MissedOnlyBeforeFirstCommit
    
CHECK_DEADLOCK FALSE
