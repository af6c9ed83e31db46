--------------------------- MODULE MCReturnPaths ---------------------------
(***************************************************************************)
(* Model-checking instance of ReturnPaths.  The programs are every module  *)
(* built from a bounded grammar:                                           *)
(*   - fn f() -> u64 { B } where B has at most two statements, each a leaf *)
(*     statement, a while loop whose body has at most two leaf statements, *)
(*     or a nested fn g() -> u64 whose body is at most one return or      *)
(*     expression (at most one g per body, so names are distinct);         *)
(*   - impl T { fn m() -> u64 { L } } with L at most two leaf statements;  *)
(*   - fn f() with an unresolved or unit return type, and a stray jump at  *)
(*     module level;                                                       *)
(*   - a loop nested two deep followed by an expression;                   *)
(*   - a loop whose body declares fn g() -> u64 with at most one return,   *)
(*     break or continue: connect_typed_fn_decl resets the jump targets,   *)
(*     so a jump in g is stray although g sits inside a loop.              *)
(* The leaf statements are return, expression, pass-through, break and     *)
(* continue.                                                               *)
(***************************************************************************)
EXTENDS ReturnPaths

Blocks(S, n) == UNION {[1..k -> S] : k \in 0..n}

Leaves == {Ret, Expr, Pass, Brk, Cont}

Loops == {While(b) : b \in Blocks(Leaves, 2)}

Nested == {Fn("g", "u64", b) : b \in Blocks({Ret, Expr}, 1)}

Bodies(S) ==
    Blocks(S, 2)
    \cup {<<g>> : g \in Nested}
    \cup {<<g, s>> : g \in Nested, s \in S}
    \cup {<<s, g>> : g \in Nested, s \in S}

\* Loops nested two deep: the inner loop's final leaves become return nodes
\* of the outer body, which get "loop repeats" edges back to the outer
\* entry, so the graph has a cycle the rover search keeps going round.
NestedLoops == {While(<<While(b)>>) : b \in Blocks({Ret, Brk}, 1)}

\* A fn declared in a loop body, itself holding a jump or a return.
FnInLoop == {Fn("g", "u64", b) : b \in Blocks({Ret, Brk, Cont}, 1)}

MCPrograms ==
    {<< Fn("f", "u64", b) >> : b \in Bodies(Leaves \cup Loops)}
    \cup {<< Fn("f", "u64", <<l, Expr>>) >> : l \in NestedLoops}
    \cup {<< Fn("f", "u64", <<While(<<g>>)>>) >> : g \in FnInLoop}
    \cup {<< Impl("T", << Fn("m", "u64", b) >>) >> : b \in Blocks(Leaves, 2)}
    \cup {<< Fn("f", t, b) >> : t \in {"unit", "unresolved"}, b \in Blocks({Ret, Expr}, 1)}
    \cup {<< s, Fn("f", "u64", <<Ret>>) >> : s \in {Brk, Cont}}

\* Two impls of different traits that each define a method m: the second
\* connect_typed_fn_decl's insert_function replaces the first entry.
MCSameNamePrograms ==
    {<< Impl("T", << Fn("m", "u64", b1) >>), Impl("U", << Fn("m", "u64", b2) >>) >> :
        b1, b2 \in Blocks({Ret, Expr}, 1)}

\* Both ways a non-returning function escapes the analysis: a loop, and a
\* method hidden by a same-named method of another impl.
MCUnflaggedPrograms == MCPrograms \cup MCSameNamePrograms

=============================================================================
