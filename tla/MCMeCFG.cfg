SPECIFICATION Spec
CONSTANTS
    NumStmts = 5
    NumBlocks = 4
    Programs <- MCPrograms
INVARIANTS GraphIsConsistent ProgramIsPreserved ReadyForSSA
