------------------------------ MODULE TypedAst ------------------------------
(***************************************************************************)
(* The typed syntax tree the return-path builder walks, abstracted to the  *)
(* control it has (TypedAstNodeContent and TypedDeclaration, see           *)
(* connect_node / connect_declaration in analyze_return_paths.rs), and a   *)
(* reference semantics of that tree against which the builder and the     *)
(* analyzer are checked.                                                   *)
(*                                                                         *)
(* A statement is a record [k, body, name, ret]:                           *)
(*   "ret"      ReturnStatement or ImplicitReturnExpression                *)
(*   "expr"     Expression, VariableDeclaration, ConstantDeclaration,      *)
(*              Reassignment, StorageReassignment                          *)
(*   "pass"     SideEffect, Trait/Abi/Struct/Enum/Storage declarations,    *)
(*              GenericTypeForFunctionScope, ErrorRecovery                 *)
(*   "break", "continue"                                                   *)
(*   "while"    WhileLoop with its body                                    *)
(*   "fn"       FunctionDeclaration: name, declared return type, body      *)
(*   "impl"     ImplTrait: trait name in name, its methods ("fn") in body  *)
(* A return type is "unit", "u64" or "unresolved" (resolve_type fails).    *)
(***************************************************************************)
EXTENDS Naturals, Sequences

Mk(k, body, name, ret) == [k |-> k, body |-> body, name |-> name, ret |-> ret]

Ret         == Mk("ret", <<>>, "", "unit")
Expr        == Mk("expr", <<>>, "", "unit")
Pass        == Mk("pass", <<>>, "", "unit")
Brk         == Mk("break", <<>>, "", "unit")
Cont        == Mk("continue", <<>>, "", "unit")
While(b)    == Mk("while", b, "", "unit")
Fn(n, t, b) == Mk("fn", b, n, t)
Impl(n, ms) == Mk("impl", ms, n, "unit")

-----------------------------------------------------------------------------
(* Reference semantics: the ways a statement can complete.  "normal" falls *)
(* through to the next statement, "ret" returns from the function, "brk"   *)
(* and "cont" leave the innermost loop.  A while loop may run its body     *)
(* zero times, and it completes normally when its body breaks; a nested    *)
(* declaration completes normally.                                         *)

RECURSIVE BlockOutcomes(_)

StmtOutcomes(s) ==
    CASE s.k = "ret"      -> {"ret"}
      [] s.k = "break"    -> {"brk"}
      [] s.k = "continue" -> {"cont"}
      [] s.k = "while"    -> {"normal"} \cup (BlockOutcomes(s.body) \cap {"ret"})
      [] OTHER            -> {"normal"}

BlockOutcomes(b) ==
    IF b = <<>> THEN {"normal"}
    ELSE LET o == StmtOutcomes(Head(b))
         IN IF "normal" \in o THEN (o \ {"normal"}) \cup BlockOutcomes(Tail(b))
                              ELSE o

\* Control can fall off the end of a function body.
FallsOffEnd(body) == "normal" \in BlockOutcomes(body)

\* The first break/continue outside any loop, in source order ("" if none);
\* a function body starts outside any loop.
RECURSIVE StrayJump(_, _)
StrayJump(b, inLoop) ==
    IF b = <<>> THEN ""
    ELSE LET s == Head(b)
             here == CASE s.k \in {"break", "continue"} /\ ~inLoop -> s.k
                       [] s.k = "while" -> StrayJump(s.body, TRUE)
                       [] s.k \in {"fn", "impl"} -> StrayJump(s.body, FALSE)
                       [] OTHER -> ""
         IN IF here # "" THEN here ELSE StrayJump(Tail(b), inLoop)

\* Every function declaration of a statement sequence, nested ones included.
RECURSIVE FnDecls(_)
FnDecls(b) ==
    IF b = <<>> THEN {}
    ELSE LET s == Head(b)
         IN (IF s.k = "fn" THEN {s} ELSE {})
            \cup (IF s.k \in {"fn", "impl", "while"} THEN FnDecls(s.body) ELSE {})
            \cup FnDecls(Tail(b))

\* The body contains a statement of kind k (at any depth, nested
\* declarations included).
RECURSIVE HasStmt(_, _)
HasStmt(b, k) ==
    b # <<>> /\ (Head(b).k = k \/ HasStmt(Head(b).body, k) \/ HasStmt(Tail(b), k))

=============================================================================
