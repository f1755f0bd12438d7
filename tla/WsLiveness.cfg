SPECIFICATION FairSpec
CONSTANTS
    block = block
    confirmed = confirmed
    blockTopic = blockTopic
    addrTopic = addrTopic
    Channels <- MCChannels
    BlockChannel = block
    Topics = {addrTopic}
    ChannelOf <- MCAddrChannelOf
    ResubOrder <- MCResubOrder
    Handlers = {h1, h2}
    Callers = {c1}
    Messages = {m1, m2}
    MaxConns = 1
    NoTopic = NoTopic

CHECK_DEADLOCK FALSE
PROPERTIES IdleSubscriptionEnds
