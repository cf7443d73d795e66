SPECIFICATION MCSpec
CONSTANTS
    IrLen = 2
    Width <- MCWidth
    DmiAddressBits = 1
    IR_IDCODE <- MCIdcode
    IR_DTMCS <- MCDtmcs
    IR_DMI <- MCDmi
    PowerOn <- MCPowerOn
    ShiftModulus = 5
    PinWrites <- MCPinWrites
    MaxScans = 2
    MaxFalls = 6
    MaxOnes = 6
INVARIANTS
    TypeOK
    FiveOnesReset
    ScanConservesBits
    FullScanExchanges
    ScanKeepsItsRegister
PROPERTIES
    UpdateCommitsScan
    InstructionCommitsScan
