SPECIFICATION Spec
CONSTANTS
    Hierarchies <- MCHierarchies
    ProgramsOf <- MCProgramsOf
    Bodies <- OtherFieldBodies
    Families <- NoFamilies
INVARIANTS BoundCallsAreRight
CHECK_DEADLOCK FALSE
