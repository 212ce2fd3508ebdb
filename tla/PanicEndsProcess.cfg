\* An e-mail notification to a user with a five-character device token.
SPECIFICATION Spec
CONSTANTS
    n1 = n1
    n2 = n2
    NoMsg = NoMsg
    Notifs = {n1}
    Channels = {"ios", "email"}
    Partitions = {1}
    ChannelOf <- EmailOnly
    Recipient <- AllShortToken
    MaxAttempts = 3
    ProviderErrors = FALSE
    ProducerRetries = FALSE
    ReadTimeouts = FALSE
    Stops = {}
    MaxPerPartition = 1
    MaxDBErrors = 0
    MaxStarts = 1
PROPERTIES
    RunsUntilCancelled
CHECK_DEADLOCK FALSE
