SPECIFICATION Spec
CONSTANTS
    Null = Null
    Conds <- MCConds
    Stmts <- MCPlainStmts
    MaxSteps = 3
    MaxRows = 1
INVARIANTS ReadOnlyRejectsWrites
