SPECIFICATION Spec
CONSTANTS
    Functions <- MCFunctions
    Programs <- MCPrograms
    MaxBudget = 16
INVARIANTS ComponentsAreCycles CalleesAreCompiledFirst BehavesTheSame OnlyRecursionIsLeft
CHECK_DEADLOCK FALSE
