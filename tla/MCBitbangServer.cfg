SPECIFICATION MCSpec
CONSTANTS
    WireCapacity = 4
    ReplyCapacity = 3
    Window = 3
    Backlog = 2
    MaxCommands = 6
INVARIANTS
    TypeOK
    RepliesAnswerReads
    StreamIsAccounted
    AbortOnlyWithoutClient
PROPERTIES
    ChannelIsImplemented
    EveryReadIsAnswered
    QuitStops
