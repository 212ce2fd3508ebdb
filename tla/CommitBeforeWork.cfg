\* One channel, one message, one crash.
SPECIFICATION Spec
CONSTANTS
    n1 = n1
    n2 = n2
    NoMsg = NoMsg
    Notifs = {n1}
    Channels = {"email"}
    Partitions = {1}
    ChannelOf <- EmailOnly
    Recipient <- AllReachable
    MaxAttempts = 3
    ProviderErrors = FALSE
    ProducerRetries = FALSE
    ReadTimeouts = FALSE
    Stops = {"crash"}
    MaxPerPartition = 1
    MaxDBErrors = 0
    MaxStarts = 1
INVARIANTS
    CommittedIsRecorded
CHECK_DEADLOCK FALSE
