----------------------------- MODULE MCExecutor -----------------------------
(* Conditions and statements small enough for TLC. *)
EXTENDS Executor

Leaf(type, step) == [type |-> type, step |-> step, conds |-> <<>>]
Node(type, conds) == [type |-> type, step |-> Null, conds |-> conds]

\* A step of the batch, the last or one past its end, and a missing step.
MCLeaves ==
    {Leaf("ok", 0), Leaf("error", 0), Leaf("error", 1), Leaf("ok", 2),
     Leaf("ok", Null), Leaf("is_autocommit", Null)}

\* One level of connectives, in both orders because evaluation stops early.
MCPairs ==
    {Node(t, <<c, d>>) : t \in {"and", "or"},
                         c \in {Leaf("ok", 0), Leaf("ok", Null)},
                         d \in {Leaf("error", 1), Leaf("ok", Null)}}
        \cup {Node(t, <<Leaf("error", 1), Leaf("ok", Null)>>) : t \in {"and", "or"}}

\* Negations, of connectives for a second level; and empty connectives.
MCConds ==
    MCLeaves \cup MCPairs
        \cup {Node("not", <<c>>) : c \in {Leaf("ok", 0), Leaf("error", Null)} \cup MCPairs}
        \cup {Leaf("error", Null)}
        \cup {Node(t, <<>>) : t \in {"not", "and", "or"}}

Stmt(known, text, args, rows) ==
    [known |-> known, text |-> text, args |-> args, rows |-> rows]

\* No comment hides a write.
MCPlainStmts ==
    {Stmt(TRUE, <<"read">>, TRUE, TRUE),
     Stmt(TRUE, <<"line", "block", "write">>, TRUE, FALSE),
     Stmt(TRUE, <<"block", "open">>, TRUE, FALSE),
     Stmt(TRUE, <<"read">>, FALSE, FALSE),
     Stmt(FALSE, <<"read">>, TRUE, TRUE)}

MCStmts ==
    MCPlainStmts \cup
    {Stmt(TRUE, <<"block", "line", "write">>, TRUE, TRUE),
     Stmt(TRUE, <<"begin">>, TRUE, FALSE),
     Stmt(TRUE, <<"line", "end">>, TRUE, TRUE)}

=============================================================================
