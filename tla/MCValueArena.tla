--------------------------- MODULE MCValueArena ---------------------------
(***************************************************************************)
(* Model-checking instance of ValueArena: one type, two metadata sources,  *)
(* three values and a metadata table that may grow by one merged entry:    *)
(* enough for a value to get metadata twice, for a merged entry to be      *)
(* attached to a second value, and for a BinaryOp to name the same operand *)
(* twice.  The type plays no part in the properties.                       *)
(***************************************************************************)
EXTENDS ValueArena

CONSTANTS u64, m1, m2

MCTypes == {u64}
MCSources == <<m1, m2>>

=============================================================================
