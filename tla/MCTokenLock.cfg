SPECIFICATION Spec
CONSTANTS
    t1 = t1
    t2 = t2
    t3 = t3
    t4 = t4
    x1 = x1
    x2 = x2
    x3 = x3
    None = None
    Token <- Tokens
    Old <- OldTokens
    Txn <- Txns
SYMMETRY Symmetry
INVARIANT NoDeadlock
PROPERTY ImplementsTable
