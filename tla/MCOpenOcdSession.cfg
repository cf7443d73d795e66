SPECIFICATION MCSpec
CONSTANTS
    IrLen = 5
    Width <- MCWidth
    DmiAddressBits = 7
    IR_IDCODE <- MCIdcode
    IR_DTMCS <- MCDtmcs
    IR_DMI <- MCDmi
    PowerOn <- MCPowerOn
    ShiftModulus = 256
    PinWrites <- MCPinWrites
    Scans <- MCScans
    ProgramCounters <- MCProgramCounters
    RegisterFiles <- MCRegisterFiles
    LoadedProgram <- MCLoadedProgram
    MemoryWords <- MCMemoryWords
    WideWords <- MCWideWords
    MaxMoves = 3
    MaxScans = 3
    MaxPauses = 1
    MaxJobs = 5
    ExaminedBits = 300
INVARIANTS
    TypeOK
    ClientKnowsState
    ReadsBackOverTheWire
PROPERTIES
    PortIsImplemented
    DmiAnswersHaveShape
