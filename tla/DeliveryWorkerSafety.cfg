\* Two channels over one partition: every failed call, every way to stop,
\* a token the APNs sender cannot slice.
SPECIFICATION Spec
CONSTANTS
    n1 = n1
    n2 = n2
    NoMsg = NoMsg
    Notifs = {n1, n2}
    Channels = {"ios", "email"}
    Partitions = {1}
    ChannelOf <- EmailOnly
    Recipient <- ReachableAndShort
    MaxAttempts = 2
    ProviderErrors = TRUE
    ProducerRetries = TRUE
    ReadTimeouts = TRUE
    Stops = {"crash", "signal"}
    MaxPerPartition = 2
    MaxDBErrors = 1
    MaxStarts = 2
INVARIANTS
    TypeOK
    PersistBeforeSend
    SentIsTrue
    OneSendPerRow
    RepeatOnlyIfUnmarked
PROPERTIES
    KeepsLedger
CHECK_DEADLOCK FALSE
