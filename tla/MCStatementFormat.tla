------------------------- MODULE MCStatementFormat -------------------------
(***************************************************************************)
(* Code blocks of up to three statements: lets with a pattern of one or   *)
(* two leaves, with and without `: Ty`, an expression of one or two        *)
(* leaves; items; expressions with and without `;`. Tokens are numbered   *)
(* in source order across the block.                                      *)
(***************************************************************************)
EXTENDS StatementFormat

\* Leaves o+1..o+n.
Run(o, n) == [i \in 1..n |-> o + i]

\* A let from token o+1: let, pattern, [colon, ty], =, expr, ;.
LetAt(o, np, hasTy, ne) ==
    LET t == IF hasTy THEN 2 ELSE 0
        eq == o + 1 + np + t + 1
    IN [k |-> "let", letTok |-> o + 1, pattern |-> Run(o + 1, np),
        ty |-> IF hasTy THEN [colon |-> o + np + 2, ty |-> <<o + np + 3>>] ELSE None,
        eq |-> eq, expr |-> Run(eq, ne), semi |-> eq + ne + 1, last |-> eq + ne + 1]

ItemAt(o, n) == [k |-> "item", item |-> Run(o, n), last |-> o + n]

ExprAt(o, n, semi) ==
    [k |-> "expr", expr |-> Run(o, n), semi |-> IF semi THEN o + n + 1 ELSE None,
     last |-> o + n + (IF semi THEN 1 ELSE 0)]

\* Every statement that can start after token o.
StatementsAt(o) ==
    {LetAt(o, np, ty, ne) : np \in 1..2, ty \in BOOLEAN, ne \in 1..2}
    \cup {ItemAt(o, n) : n \in 1..2}
    \cup {ExprAt(o, n, semi) : n \in 1..2, semi \in BOOLEAN}

RECURSIVE BlocksAfter(_, _)
\* The blocks of at most n statements whose first token follows token o.
BlocksAfter(o, n) ==
    {<<>>} \cup
    IF n = 0 THEN {}
    ELSE UNION {{<<s>> \o b : b \in BlocksAfter(s.last, n - 1)} : s \in StatementsAt(o)}

MCBlocks == BlocksAfter(0, 3)

=============================================================================
