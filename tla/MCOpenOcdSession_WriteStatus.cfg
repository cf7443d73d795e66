SPECIFICATION MCSpec
CONSTANTS
    IrLen = 5
    Width <- MCWidth
    DmiAddressBits = 7
    IR_IDCODE <- MCIdcode
    IR_DTMCS <- MCDtmcs
    IR_DMI <- MCDmi
    PowerOn <- MCPowerOn
    ShiftModulus = 256
    PinWrites <- MCPinWrites
    Scans <- MCScans
    ProgramCounters <- MCProgramCounters
    RegisterFiles <- MCRegisterFiles
    LoadedProgram <- MCLoadedProgram
    MemoryWords <- MCMemoryWords
    WideWords <- MCWideWords
    MaxMoves = 1
    MaxScans = 2
    MaxPauses = 0
    MaxJobs = 3
    ExaminedBits = 40
INVARIANT
    CompletedWriteReadsSuccess
