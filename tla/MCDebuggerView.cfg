SPECIFICATION MCSpec
CONSTANTS
    NoWord = NoWord
    Scans <- MCScans
    ProgramCounters <- MCProgramCounters
    RegisterFiles <- MCRegisterFiles
    LoadedProgram <- MCLoadedProgram
    MemoryWords <- MCMemoryWords
    MaxScans = 4
    MaxBlockScans = 7
INVARIANTS
    TypeOK
    RepliesAreCurrent
    ReadReturnsWritten
    StepsAreRequested
    DpcFollowsHart
    WalkReadsConsecutively
    MemoryReadsAgree
