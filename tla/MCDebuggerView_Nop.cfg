SPECIFICATION MCSpec
CONSTANTS
    NoWord = NoWord
    Scans <- MCScans
    ProgramCounters <- MCProgramCounters
    RegisterFiles <- MCRegisterFiles
    LoadedProgram <- MCLoadedProgram
    MemoryWords <- MCMemoryWords
    MaxScans = 3
    MaxBlockScans = 0
PROPERTY
    NopExecutesNothing
