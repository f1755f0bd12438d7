SPECIFICATION Spec
CONSTANTS
    block = block
    confirmed = confirmed
    blockTopic = blockTopic
    addrTopic = addrTopic
    Channels <- MCChannels
    BlockChannel = block
    Topics <- MCTopics
    ChannelOf <- MCChannelOf
    ResubOrder <- MCResubOrder
    Handlers = {h1, h2}
    Callers = {c1, c2}
    Messages = {m1, m2}
    MaxConns = 2
    NoTopic = NoTopic
SYMMETRY Symmetry
CHECK_DEADLOCK FALSE
INVARIANTS TypeOK TopicRegistered NoIdleSubscription
