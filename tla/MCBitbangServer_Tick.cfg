SPECIFICATION MCSpec
CONSTANTS
    WireCapacity = 3
    ReplyCapacity = 2
    Window = 2
    Backlog = 2
    MaxCommands = 5
PROPERTIES
    TickReturns
