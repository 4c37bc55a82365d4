SPECIFICATION Spec
CONSTANTS
    Blocks <- MCBlocks
    Programs <- MCPrograms
    ParamRegs = {1}
    VRegs <- MCVRegs
    OverlapNums = {2, 28}
    ManyPreds = 1
    CallerRegs = {10}
    CalleeRegs = {20}
    SpillRegs <- MCSpillRegs
    Modes = {"normal", "fast", "all"}
    doCalleeToSpill = TRUE
INVARIANTS
    LivenessIsExact
    BlocksAreOrdered
    CodeIsRight
    RegistersAreKept
CHECK_DEADLOCK FALSE
