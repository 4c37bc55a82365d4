SPECIFICATION Spec
CONSTANTS
    Hierarchies <- MCHierarchies
    ProgramsOf <- MCProgramsOf
    Bodies <- AllBodies
    Families <- BothFamilies
INVARIANTS CandidatesAreRight ClassMethodsAreCallees FinalTypesAreRight SeenCallsAreRight
CHECK_DEADLOCK FALSE
