SPECIFICATION Spec
CONSTANTS
    Blocks <- MCBlocks
    Programs <- MCPrograms
    Stmts <- NewStmts
    Shapes <- AllShapes
INVARIANTS RenamingIsSound StoreStaysDefined ReadsAgree
