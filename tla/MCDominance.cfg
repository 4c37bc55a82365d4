SPECIFICATION Spec
CONSTANTS
    NumBlocks = 6
    MoreExits <- OneMore
    Blocks <- MCBlocks
    Graphs <- MCGraphs
INVARIANTS TreeIsRight FrontiersAreRight
PROPERTY Terminates
