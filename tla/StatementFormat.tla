--------------------------- MODULE StatementFormat ---------------------------
(***************************************************************************)
(* The formatter's statements (src/sway-fmt-v2/src/utils/statement.rs):    *)
(* Format for Statement and StatementLet, which write a statement's text,  *)
(* and LeafSpans for both, which list the byte spans of its leaf tokens.  *)
(* The comment handling of the formatter places each comment between the  *)
(* leaves that surround it in the source, so the leaves must come out in  *)
(* source order, and the text must write them in that same order.         *)
(*                                                                         *)
(* A token is its position in the source (its span); layout is a string.  *)
(* The parts whose formatting lives outside src/ (pattern, type,          *)
(* expression, item) are sequences of their leaf tokens, which their own   *)
(* Format writes, and their own LeafSpans lists, in source order.          *)
(***************************************************************************)
EXTENDS Naturals, Sequences, SequencesExt

CONSTANTS
    Blocks,     \* the statement sequences of a code block
    None,
    Indent, Space, Newline  \* the layout format writes besides tokens

VARIABLES
    block,      \* the statements being formatted (never changes)
    fmtNext,    \* the next statement to format
    formatted,  \* formatted_code: tokens and layout written so far
    spanNext,   \* the next statement whose leaf spans are collected
    spans       \* the ByteSpans collected so far

vars == <<block, fmtNext, formatted, spanNext, spans>>

Layout == {Indent, Space, Newline}
IsToken(x) == x \notin Layout

\* The `: Ty` of a let, if any: the colon token and the type's leaves.
TyLeaves(s) == IF s.ty = None THEN <<>> ELSE <<s.ty.colon>> \o s.ty.ty

\* StatementLet::format: indent and `let `, the pattern, `: Ty` with a space
\* after the colon, ` = `, the expression, `;` and a newline.
FormatLet(s) ==
    <<Indent, s.letTok, Space>> \o s.pattern
    \o (IF s.ty = None THEN <<>> ELSE <<s.ty.colon, Space>> \o s.ty.ty)
    \o <<Space, s.eq, Space>> \o s.expr \o <<s.semi, Newline>>

\* Seeded fault: the `;` slot of an expression is written even when empty.
FormatStatementSemiAlways(s) ==
    CASE s.k = "let"  -> FormatLet(s)
      [] s.k = "item" -> s.item
      [] OTHER        -> s.expr \o <<s.semi>>

\* Statement::format: a let, an item, or an expression and its optional `;`.
FormatStatement(s) ==
    CASE s.k = "let"  -> FormatLet(s)
      [] s.k = "item" -> s.item
      [] OTHER        -> s.expr \o (IF s.semi = None THEN <<>> ELSE <<s.semi>>)

\* Seeded fault: the `: Ty` spans are pushed after the `=` token.
LeafSpansLetTyLate(s) ==
    <<s.letTok>> \o s.pattern \o <<s.eq>> \o TyLeaves(s) \o s.expr \o <<s.semi>>

\* StatementLet::leaf_spans: let, the pattern's, the colon and the type's,
\* =, the expression's, and ;.
LeafSpansLet(s) ==
    <<s.letTok>> \o s.pattern \o TyLeaves(s) \o <<s.eq>> \o s.expr \o <<s.semi>>

\* Statement::leaf_spans.
LeafSpansStatement(s) ==
    CASE s.k = "let"  -> LeafSpansLet(s)
      [] s.k = "item" -> s.item
      [] OTHER        -> s.expr \o (IF s.semi = None THEN <<>> ELSE <<s.semi>>)

Init ==
    /\ block \in Blocks
    /\ fmtNext = 1
    /\ formatted = <<>>
    /\ spanNext = 1
    /\ spans = <<>>

\* The code block's formatter calls format on its next statement.
Format ==
    /\ fmtNext <= Len(block)
    /\ formatted' = formatted \o FormatStatement(block[fmtNext])
    /\ fmtNext' = fmtNext + 1
    /\ UNCHANGED <<block, spanNext, spans>>

\* The comment handling collects the leaf spans of the next statement.
LeafSpans ==
    /\ spanNext <= Len(block)
    /\ spans' = spans \o LeafSpansStatement(block[spanNext])
    /\ spanNext' = spanNext + 1
    /\ UNCHANGED <<block, fmtNext, formatted>>

\* Both passes are over the block.
Formatted ==
    /\ fmtNext > Len(block)
    /\ spanNext > Len(block)
    /\ UNCHANGED vars

Next == Format \/ LeafSpans \/ Formatted

Spec == Init /\ [][Next]_vars

-----------------------------------------------------------------------------
(* Properties                                                              *)

TypeOK ==
    /\ \A j \in DOMAIN block : block[j].k \in {"let", "item", "expr"}
    /\ fmtNext \in 1..Len(block) + 1
    /\ spanNext \in 1..Len(block) + 1
    /\ \A i \in DOMAIN formatted : formatted[i] \in Nat \cup Layout
    /\ \A i \in DOMAIN spans : spans[i] \in Nat

\* The source's tokens of the first n statements, in source order (a
\* statement's field last is the position of its last token).
SourceTokens(n) == [i \in 1..(IF n = 0 THEN 0 ELSE block[n].last) |-> i]

\* The leaves run in source order in both passes: the leaf spans of the
\* statements handled so far are exactly their tokens in source order, and
\* the tokens written to formatted_code are exactly those tokens in that
\* order, so every comment the comment handling anchors between two leaves
\* falls between the same two tokens of the formatted text.
LeavesInSourceOrder ==
    /\ spans = SourceTokens(spanNext - 1)
    /\ SelectSeq(formatted, IsToken) = SourceTokens(fmtNext - 1)

=============================================================================
