SPECIFICATION Spec
CONSTANTS
    Null = Null
    Conds <- MCConds
    Stmts <- MCStmts
    MaxSteps = 3
    MaxRows = 1
INVARIANTS TypeOK CursorGrammar CallsMatchAnswer ReadOnlyKept
PROPERTIES BatchPromised
