------------------------- MODULE MCFunctionParameter -------------------------
(***************************************************************************)
(* Every parameter list of up to three parameters over two names, a known *)
(* type, Self, a type parameter T and an unknown type, with either        *)
(* mutability, checked in an empty namespace or one where x is already an *)
(* outer constant; copy_types then maps T to u64.                          *)
(***************************************************************************)
EXTENDS FunctionParameter

Param == [name : {"x", "y"}, ty : {"u64", "Self", "T", "Unknown"}, mut : BOOLEAN]

MCFunctions == UNION {[1..k -> Param] : k \in 0..3}

MCScopes == {<<>>, "x" :> [kind |-> "Constant", ty |-> "u64", mutable |-> FALSE]}

MCTypeMapping == "T" :> "u64"

=============================================================================
