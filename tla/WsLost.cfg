SPECIFICATION Spec
CONSTANTS
    block = block
    confirmed = confirmed
    blockTopic = blockTopic
    addrTopic = addrTopic
    Channels <- MCChannels
    BlockChannel = block
    Topics <- MCTopics
    ChannelOf <- MCChannelOf
    ResubOrder <- MCResubOrder
    Handlers = {h1, h2}
    Callers = {c1}
    Messages = {m1}
    MaxConns = 1
    NoTopic = NoTopic

CHECK_DEADLOCK FALSE
INVARIANTS NoLostSubscription
