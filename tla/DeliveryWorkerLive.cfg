\* No database error, one signal at any point of any turn, providers that may
\* refuse every attempt, a user no push provider can reach.
SPECIFICATION FairSpec
CONSTANTS
    n1 = n1
    n2 = n2
    NoMsg = NoMsg
    Notifs = {n1, n2}
    Channels = {"ios", "email"}
    Partitions = {1}
    ChannelOf <- EmailOnly
    Recipient <- PartlyReachable
    MaxAttempts = 3
    ProviderErrors = TRUE
    ProducerRetries = FALSE
    ReadTimeouts = TRUE
    Stops = {"signal"}
    MaxPerPartition = 2
    MaxDBErrors = 0
    MaxStarts = 1
PROPERTIES
    EventuallySettled
    ShutdownEnds
CHECK_DEADLOCK FALSE
