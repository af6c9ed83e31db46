------------------------------ MODULE SwayParse ------------------------------
(***************************************************************************)
(* The recursive-descent parser of sway-parse for module headers, items,   *)
(* function signatures and arguments, traits and patterns                  *)
(* (src/sway-parse/src/module.rs, item/mod.rs, item/item_trait.rs,         *)
(* pattern.rs).                                                            *)
(*                                                                         *)
(* The input is the lexer's token tree: a token is [t, inner], where t is  *)
(* a keyword or punctuation, "ident", "path" (a path of several segments), *)
(* "lit" (a literal) or "ty" (a type), and a delimited group "()", "{}"    *)
(* or "<>" carries its tokens in inner.  Names are all "ident": no         *)
(* property tells two names apart.                                         *)
(*                                                                         *)
(* A parse function is an operator from a token sequence to a ParseResult: *)
(* Ok(v, rest) or Fail(kind), the ParseErrorKind emitted before the Err    *)
(* is propagated by ?.  Module::parse_to_end is the state machine: its     *)
(* steps are the module kind, each dependency, each item.                  *)
(***************************************************************************)
EXTENDS Naturals, Sequences, SequencesExt

CONSTANTS
    Programs,   \* the modules whose printed token trees are parsed
    None        \* Option::None

VARIABLES
    program,    \* the module that was printed (never changes)
    toks,       \* the tokens not consumed yet
    phase,      \* "kind", "deps", "items", then "done" or "failed"
    kind,       \* Module.kind, once parsed
    deps,       \* number of dependencies parsed
    items,      \* the items parsed so far
    err         \* the ParseErrorKind of a failed parse, or None

vars == <<program, toks, phase, kind, deps, items, err>>

T(k) == [t |-> k, inner |-> <<>>]
G(k, s) == [t |-> k, inner |-> s]

-----------------------------------------------------------------------------
(* The Parser primitives (outside these files)                             *)

Ok(v, rest) == [ok |-> TRUE, v |-> v, rest |-> rest]
Fail(e) == [ok |-> FALSE, err |-> e]

\* r? followed by the rest of the parse function F(value, rest).
Then(r, F(_, _)) == LET x == r IN IF x.ok THEN F(x.v, x.rest) ELSE x

\* parser.peek::<K>() and peek2::<K1, K2>()
Peek(ts, k) == ts # <<>> /\ ts[1].t = k
Peek2(ts, k1, k2) == Len(ts) >= 2 /\ ts[1].t = k1 /\ ts[2].t = k2

\* parser.parse::<K>() of a token that must come next.
Expect(ts, k) == IF Peek(ts, k) THEN Ok(k, Tail(ts)) ELSE Fail("Expected")

\* An optional k followed by a required k2 (-> Ty, where clause).
OptThen(ts, k, k2) ==
    IF Peek(ts, k) THEN Then(Expect(Tail(ts), k2), LAMBDA x, r : Ok(TRUE, r))
    ELSE Ok(FALSE, ts)

\* PathExpr: a single identifier or a path of several segments.
ExpectPath(ts) ==
    IF Peek(ts, "ident") \/ Peek(ts, "path") THEN Ok(ts[1].t, Tail(ts)) ELSE Fail("Expected")

\* Parens / Braces: the group must come next; its content is parsed to
\* the end by P.
ParseGroup(ts, k, P(_)) ==
    IF Peek(ts, k) THEN Then(P(ts[1].inner), LAMBDA v, r : Ok(v, Tail(ts)))
    ELSE Fail("Expected")

PVar(m) == [p |-> "var", mut |-> m]

-----------------------------------------------------------------------------
(* The parse functions                                                     *)

RECURSIVE ParsePunctuated(_, _), ParseVec(_, _), ParseElem(_, _), ParsePattern(_),
          TraitSuffixes(_, _)

\* Punctuated<T, CommaToken>::parse_to_end: value_separator_pairs, the
\* values each followed by a comma, and final_value_opt, a last value with
\* no comma after it.
ParsePunctuated(ts, what) ==
    IF ts = <<>> THEN Ok([pairs |-> <<>>, final |-> None], ts)
    ELSE Then(ParseElem(ts, what), LAMBDA e, r :
           IF r = <<>> THEN Ok([pairs |-> <<>>, final |-> e], r)
           ELSE Then(Expect(r, ","), LAMBDA c, r2 :
                  Then(ParsePunctuated(r2, what), LAMBDA pu, r3 :
                       Ok([pu EXCEPT !.pairs = <<e>> \o @], r3))))

\* The values of a Punctuated, in order.
Values(pu) == pu.pairs \o (IF pu.final = None THEN <<>> ELSE <<pu.final>>)

\* A Punctuated whose values are all that is used.
ParseList(ts, what) == Then(ParsePunctuated(ts, what), LAMBDA pu, r : Ok(Values(pu), r))

\* A struct pattern's fields: the values, and whether a comma ends them.
StructPattern(path, pu) ==
    [p |-> "struct", path |-> path, fields |-> Values(pu),
     trailing |-> pu.final = None /\ pu.pairs # <<>>]

\* Vec<T>::parse_to_end: elements until the tokens run out.
ParseVec(ts, what) ==
    IF ts = <<>> THEN Ok(<<>>, ts)
    ELSE Then(ParseElem(ts, what), LAMBDA e, r :
           Then(ParseVec(r, what), LAMBDA es, r2 : Ok(<<e>> \o es, r2)))

\* PatternStructField::parse: a rest pattern "..", or a field name with an
\* optional ": pattern".
ParseStructField(ts) ==
    IF Peek(ts, "..") THEN Ok([rest |-> TRUE], Tail(ts))
    ELSE Then(Expect(ts, "ident"), LAMBDA n, r :
           IF Peek(r, ":")
           THEN Then(ParsePattern(Tail(r)), LAMBDA p, r2 : Ok([rest |-> FALSE, pat |-> p], r2))
           ELSE Ok([rest |-> FALSE, pat |-> None], r))

\* Seeded fault: a struct pattern is accepted with a rest field.
PatternAfterPathNoRestCheck(path, ts) ==
    CASE Peek(ts, "()") ->
           Then(ParseList(ts[1].inner, "pattern"), LAMBDA as, r :
                Ok([p |-> "ctor", path |-> path, args |-> as], Tail(ts)))
      [] Peek(ts, "{}") ->
           Then(ParsePunctuated(ts[1].inner, "field"), LAMBDA pu, r :
                Ok(StructPattern(path, pu), Tail(ts)))
      [] path = "ident" -> Ok(PVar(FALSE), ts)
      [] OTHER -> Ok([p |-> "const", path |-> path], ts)

\* Pattern::parse after the path: a constructor's arguments, a struct's
\* fields (a rest field among value_separator_pairs, that is, followed by a
\* comma, is UnexpectedRestPattern), else a variable when
\* the path is a single identifier and a constant otherwise.
PatternAfterPath(path, ts) ==
    CASE Peek(ts, "()") ->
           Then(ParseList(ts[1].inner, "pattern"), LAMBDA as, r :
                Ok([p |-> "ctor", path |-> path, args |-> as], Tail(ts)))
      [] Peek(ts, "{}") ->
           Then(ParsePunctuated(ts[1].inner, "field"), LAMBDA pu, r :
                IF \E i \in DOMAIN pu.pairs : pu.pairs[i].rest THEN Fail("UnexpectedRestPattern")
                ELSE Ok(StructPattern(path, pu), Tail(ts)))
      [] path = "ident" -> Ok(PVar(FALSE), ts)
      [] OTHER -> Ok([p |-> "const", path |-> path], ts)

\* Seeded fault: the mut of a binding pattern is consumed but not kept.
ParsePatternMutDropped(ts) ==
    CASE Peek(ts, "mut") ->
           Then(Expect(Tail(ts), "ident"), LAMBDA n, r : Ok(PVar(FALSE), r))
      [] \E l \in {"true", "false", "lit"} : Peek(ts, l) ->
           Ok([p |-> "lit", lit |-> ts[1].t], Tail(ts))
      [] Peek(ts, "()") ->
           Then(ParseList(ts[1].inner, "pattern"), LAMBDA ps, r :
                Ok([p |-> "tuple", elems |-> ps], Tail(ts)))
      [] Peek(ts, "_") -> Ok([p |-> "wild"], Tail(ts))
      [] OTHER -> Then(ExpectPath(ts), LAMBDA path, r : PatternAfterPath(path, r))

\* Pattern::parse: mut binding, true, false, literal, tuple, wildcard, and
\* otherwise a path.
ParsePattern(ts) ==
    CASE Peek(ts, "mut") ->
           Then(Expect(Tail(ts), "ident"), LAMBDA n, r : Ok(PVar(TRUE), r))
      [] \E l \in {"true", "false", "lit"} : Peek(ts, l) ->
           Ok([p |-> "lit", lit |-> ts[1].t], Tail(ts))
      [] Peek(ts, "()") ->
           Then(ParseList(ts[1].inner, "pattern"), LAMBDA ps, r :
                Ok([p |-> "tuple", elems |-> ps], Tail(ts)))
      [] Peek(ts, "_") -> Ok([p |-> "wild"], Tail(ts))
      [] OTHER -> Then(ExpectPath(ts), LAMBDA path, r : PatternAfterPath(path, r))

\* FnArg::parse: pattern, colon, type.
ParseFnArg(ts) ==
    Then(ParsePattern(ts), LAMBDA p, r :
    Then(Expect(r, ":"), LAMBDA c, r2 :
    Then(Expect(r2, "ty"), LAMBDA ty, r3 : Ok(p, r3))))

\* FnArgs::parse_to_end: a leading mut is taken as mutable_self before
\* self is looked for; without self the rest is parsed as Static.
ParseFnArgs(ts) ==
    LET m == Peek(ts, "mut")
        r == IF m THEN Tail(ts) ELSE ts
    IN CASE Peek(r, "self") /\ Peek(Tail(r), ",") ->
              Then(ParseList(Tail(Tail(r)), "fnarg"), LAMBDA as, x :
                   Ok([static |-> FALSE, mutSelf |-> m, args |-> as], x))
         [] Peek(r, "self") /\ Tail(r) = <<>> ->
              Ok([static |-> FALSE, mutSelf |-> m, args |-> None], <<>>)
         [] Peek(r, "self") -> Fail("ExpectedCommaOrCloseParenInFnArgs")
         [] OTHER ->
              Then(ParseList(r, "fnarg"), LAMBDA as, x : Ok([static |-> TRUE, args |-> as], x))

\* FnSignature::parse: visibility, fn, name, generics, arguments, return
\* type, where clause.
ParseFnSignature(ts) ==
    LET vis == Peek(ts, "pub")
    IN Then(Expect(IF vis THEN Tail(ts) ELSE ts, "fn"), LAMBDA f, r1 :
       Then(Expect(r1, "ident"), LAMBDA n, r2 :
       LET gen == Peek(r2, "<>")
       IN Then(ParseGroup(IF gen THEN Tail(r2) ELSE r2, "()", ParseFnArgs), LAMBDA as, r3 :
          Then(OptThen(r3, "->", "ty"), LAMBDA ret, r4 :
          Then(OptThen(r4, "where", "ty"), LAMBDA wh, r5 :
               Ok([vis |-> vis, generics |-> gen, args |-> as, ret |-> ret, where |-> wh], r5))))))

\* Traits::parse: a prefix path, then "+ path" while a + can be taken;
\* the value is the number of traits.
TraitSuffixes(ts, n) ==
    IF Peek(ts, "+")
    THEN Then(ExpectPath(Tail(ts)), LAMBDA p, r : TraitSuffixes(r, n + 1))
    ELSE Ok(n, ts)

ParseTraits(ts) == Then(ExpectPath(ts), LAMBDA p, r : TraitSuffixes(r, 1))

\* ItemFn::parse: a signature and a braced body (the body's content is not
\* modelled).
ParseItemFn(ts) ==
    Then(ParseFnSignature(ts), LAMBDA s, r :
         IF Peek(r, "{}") THEN Ok([k |-> "fn", sig |-> s], Tail(r)) ELSE Fail("Expected"))

AnyVisible(sigs) == \E i \in DOMAIN sigs : sigs[i].vis

\* ItemTrait::parse: visibility, trait, name, optional ": Traits", the
\* braced signatures (each followed by ;), then optional braced
\* definitions; a visibility qualifier on any signature of either list is
\* UnnecessaryVisibilityQualifier, checked after that list is parsed.
ParseItemTrait(ts) ==
    LET vis == Peek(ts, "pub")
    IN Then(Expect(IF vis THEN Tail(ts) ELSE ts, "trait"), LAMBDA t, r1 :
       Then(Expect(r1, "ident"), LAMBDA n, r2 :
       Then(IF Peek(r2, ":") THEN ParseTraits(Tail(r2)) ELSE Ok(0, r2), LAMBDA sup, r3 :
       Then(ParseGroup(r3, "{}", LAMBDA x : ParseVec(x, "sig;")), LAMBDA sigs, r4 :
       IF AnyVisible(sigs) THEN Fail("UnnecessaryVisibilityQualifier")
       ELSE Then(IF Peek(r4, "{}") THEN ParseGroup(r4, "{}", LAMBDA x : ParseVec(x, "itemfn"))
                 ELSE Ok(None, r4), LAMBDA defs, r5 :
            IF defs # None /\ AnyVisible([i \in DOMAIN defs |-> defs[i].sig])
            THEN Fail("UnnecessaryVisibilityQualifier")
            ELSE Ok([k |-> "trait", vis |-> vis, supers |-> sup,
                     items |-> sigs, defs |-> defs], r5))))))

\* The other item kinds (use, struct, enum, impl, abi, const, storage are
\* a keyword, a name and a braced body; break and continue a keyword and ;).
ParseOtherItem(ts, kw) ==
    LET vis == Peek(ts, "pub")
    IN Then(Expect(IF vis THEN Tail(ts) ELSE ts, kw), LAMBDA x, r1 :
       IF kw \in {"break", "continue"}
       THEN Then(Expect(r1, ";"), LAMBDA s, r2 : Ok([k |-> kw, vis |-> vis], r2))
       ELSE Then(Expect(r1, "ident"), LAMBDA n, r2 :
            IF Peek(r2, "{}") THEN Ok([k |-> kw, vis |-> vis], Tail(r2)) ELSE Fail("Expected")))

\* The arms of ItemKind::parse in order: the keyword, and whether the arm
\* also accepts it after pub.
ItemRules ==
    << [kw |-> "use", pub |-> TRUE], [kw |-> "struct", pub |-> TRUE],
       [kw |-> "enum", pub |-> TRUE], [kw |-> "fn", pub |-> TRUE],
       [kw |-> "trait", pub |-> TRUE], [kw |-> "impl", pub |-> FALSE],
       [kw |-> "abi", pub |-> FALSE], [kw |-> "const", pub |-> TRUE],
       [kw |-> "storage", pub |-> FALSE], [kw |-> "break", pub |-> FALSE],
       [kw |-> "continue", pub |-> FALSE] >>

\* ItemKind::parse: the first arm whose keyword (or pub keyword) is
\* peeked; none is ExpectedAnItem.
ParseItemKind(ts) ==
    LET i == SelectInSeq(ItemRules, LAMBDA rl : Peek(ts, rl.kw) \/ (rl.pub /\ Peek2(ts, "pub", rl.kw)))
    IN CASE i = 0                      -> Fail("ExpectedAnItem")
         [] ItemRules[i].kw = "fn"     -> ParseItemFn(ts)
         [] ItemRules[i].kw = "trait"  -> ParseItemTrait(ts)
         [] OTHER                      -> ParseOtherItem(ts, ItemRules[i].kw)

ParseElem(ts, what) ==
    CASE what = "pattern" -> ParsePattern(ts)
      [] what = "field"   -> ParseStructField(ts)
      [] what = "fnarg"   -> ParseFnArg(ts)
      [] what = "sig;"    -> Then(ParseFnSignature(ts), LAMBDA s, r :
                                  Then(Expect(r, ";"), LAMBDA x, r2 : Ok(s, r2)))
      [] what = "itemfn"  -> ParseItemFn(ts)

ModuleKinds == {"script", "contract", "predicate", "library"}

\* Seeded fault: no ExpectedModuleKind arm; any first token is the kind.
ParseModuleKindAny(ts) ==
    CASE Peek(ts, "library") ->
           Then(Expect(Tail(ts), "ident"), LAMBDA n, r : Ok("library", r))
      [] ts # <<>> -> Ok(ts[1].t, Tail(ts))
      [] OTHER -> Fail("ExpectedModuleKind")

\* ModuleKind::parse: script, contract, predicate, or library and its name.
ParseModuleKind(ts) ==
    CASE \E mk \in ModuleKinds \ {"library"} : Peek(ts, mk) -> Ok(ts[1].t, Tail(ts))
      [] Peek(ts, "library") ->
           Then(Expect(Tail(ts), "ident"), LAMBDA n, r : Ok("library", r))
      [] OTHER -> Fail("ExpectedModuleKind")

-----------------------------------------------------------------------------
(* Module::parse_to_end                                                    *)

(* The printer: the token tree of a module AST, the reference that the     *)
(* parser must invert.                                                     *)

Opt(b, s) == IF b THEN s ELSE <<>>

\* Elements joined by separator tokens.
Joined(ss, sep) == FlattenSeq([i \in DOMAIN ss |-> Opt(i > 1, sep) \o ss[i]])

RECURSIVE Render(_)
Render(pt) ==
    CASE pt.p = "var"    -> Opt(pt.mut, <<T("mut")>>) \o <<T("ident")>>
      [] pt.p = "lit"    -> <<T(pt.lit)>>
      [] pt.p = "wild"   -> <<T("_")>>
      [] pt.p = "const"  -> <<T(pt.path)>>
      [] pt.p = "tuple"  -> <<G("()", Joined([i \in DOMAIN pt.elems |-> Render(pt.elems[i])], <<T(",")>>))>>
      [] pt.p = "ctor"   -> <<T(pt.path), G("()", Joined([i \in DOMAIN pt.args |-> Render(pt.args[i])], <<T(",")>>))>>
      [] pt.p = "struct" ->
           <<T(pt.path), G("{}", Joined([i \in DOMAIN pt.fields |->
                 IF pt.fields[i].rest THEN <<T("..")>>
                 ELSE <<T("ident")>> \o IF pt.fields[i].pat = None THEN <<>>
                                        ELSE <<T(":")>> \o Render(pt.fields[i].pat)], <<T(",")>>)
                                \o Opt(pt.trailing, <<T(",")>>))>>

RenderArgs(as) == Joined([i \in DOMAIN as |-> Render(as[i]) \o <<T(":"), T("ty")>>], <<T(",")>>)

RenderSig(sg) ==
    Opt(sg.vis, <<T("pub")>>) \o <<T("fn"), T("ident")>> \o Opt(sg.generics, <<G("<>", <<>>)>>)
    \o <<G("()", IF sg.args.static THEN RenderArgs(sg.args.args)
                 ELSE Opt(sg.args.mutSelf, <<T("mut")>>) \o <<T("self")>>
                      \o IF sg.args.args = None THEN <<>> ELSE <<T(",")>> \o RenderArgs(sg.args.args))>>
    \o Opt(sg.ret, <<T("->"), T("ty")>>) \o Opt(sg.where, <<T("where"), T("ty")>>)

RenderFn(sg) == RenderSig(sg) \o <<G("{}", <<>>)>>

RenderItem(it) ==
    CASE it.k = "fn" -> RenderFn(it.sig)
      [] it.k = "trait" ->
           Opt(it.vis, <<T("pub")>>) \o <<T("trait"), T("ident")>>
           \o Opt(it.supers > 0, <<T(":")>> \o Joined([i \in 1..it.supers |-> <<T("ident")>>], <<T("+")>>))
           \o <<G("{}", FlattenSeq([i \in DOMAIN it.items |-> RenderSig(it.items[i]) \o <<T(";")>>]))>>
           \o IF it.defs = None THEN <<>>
              ELSE <<G("{}", FlattenSeq([i \in DOMAIN it.defs |-> RenderFn(it.defs[i].sig)]))>>
      [] it.k \in {"break", "continue"} -> Opt(it.vis, <<T("pub")>>) \o <<T(it.k), T(";")>>
      [] OTHER -> Opt(it.vis, <<T("pub")>>) \o <<T(it.k), T("ident"), G("{}", <<>>)>>

\* A module with kind None has no header.
RenderModule(m) ==
    Opt(m.kind # None, <<T(m.kind)>> \o Opt(m.kind = "library", <<T("ident")>>) \o <<T(";")>>)
    \o FlattenSeq([i \in 1..m.deps |-> <<T("dep"), T("ident"), T(";")>>])
    \o FlattenSeq([i \in DOMAIN m.items |-> RenderItem(m.items[i])])

Init ==
    /\ program \in Programs
    /\ toks = RenderModule(program)
    /\ phase = "kind"
    /\ kind = None
    /\ deps = 0
    /\ items = <<>>
    /\ err = None

\* Apply the result of one parse call (the new value of one variable): Set
\* it, or on failure keep the old value and record the error.
Step(r, Set(_), old, next) ==
    IF r.ok THEN /\ Set(r.v) /\ toks' = r.rest /\ phase' = next /\ UNCHANGED err
    ELSE /\ Set(old) /\ phase' = "failed" /\ err' = r.err /\ UNCHANGED toks

\* let kind = parser.parse()?; let semicolon_token = parser.parse()?;
ParseHeader ==
    /\ phase = "kind"
    /\ Step(Then(ParseModuleKind(toks), LAMBDA mk, r : Then(Expect(r, ";"), LAMBDA x, r2 : Ok(mk, r2))),
            LAMBDA v : kind' = v, kind, "deps")
    /\ UNCHANGED <<program, deps, items>>

\* One iteration of while let Some(..) = parser.peek::<DepToken>(): a
\* Dependency is dep, a path and ;.
ParseDependency ==
    /\ phase = "deps"
    /\ Peek(toks, "dep")
    /\ Step(Then(ExpectPath(Tail(toks)), LAMBDA pth, r :
              Then(Expect(r, ";"), LAMBDA x, r2 : Ok(deps + 1, r2))),
            LAMBDA v : deps' = v, deps, "deps")
    /\ UNCHANGED <<program, kind, items>>

\* The dependency loop exits when no dep token is peeked.
DependenciesDone ==
    /\ phase = "deps"
    /\ ~Peek(toks, "dep")
    /\ phase' = "items"
    /\ UNCHANGED <<program, toks, kind, deps, items, err>>

\* One element of parser.parse_to_end::<Vec<Item>>() (an Item is its
\* attributes, not modelled, and an ItemKind).
ParseItem ==
    /\ phase = "items"
    /\ toks # <<>>
    /\ Step(Then(ParseItemKind(toks), LAMBDA it, r : Ok(Append(items, it), r)),
            LAMBDA v : items' = v, items, "items")
    /\ UNCHANGED <<program, kind, deps>>

\* The tokens are exhausted: Ok((module, consumed)).
ItemsDone ==
    /\ phase = "items"
    /\ toks = <<>>
    /\ phase' = "done"
    /\ UNCHANGED <<program, toks, kind, deps, items, err>>

\* The parse has returned; the compiler moves on.
Finished ==
    /\ phase \in {"done", "failed"}
    /\ UNCHANGED vars

Next == ParseHeader \/ ParseDependency \/ DependenciesDone \/ ParseItem \/ ItemsDone \/ Finished

Spec == Init /\ [][Next]_vars

-----------------------------------------------------------------------------
(* Properties                                                              *)

ErrorKinds == {"Expected", "ExpectedModuleKind", "ExpectedAnItem",
               "ExpectedCommaOrCloseParenInFnArgs",
               "UnnecessaryVisibilityQualifier", "UnexpectedRestPattern"}

TypeOK ==
    /\ program \in Programs
    /\ phase \in {"kind", "deps", "items", "done", "failed"}
    /\ kind \in ModuleKinds \cup {None}
    /\ deps \in Nat
    /\ err \in ErrorKinds \cup {None}
    /\ (phase = "failed") = (err # None)
    \* the parser only ever consumes a prefix of its input
    /\ IsSuffix(toks, RenderModule(program))

\* Every signature of a module: fn items, trait signatures and definitions.
Sigs(m) ==
    UNION {CASE it.k = "fn" -> {it.sig}
             [] it.k = "trait" -> Range(it.items) \cup
                                  (IF it.defs = None THEN {} ELSE {d.sig : d \in Range(it.defs)})
             [] OTHER -> {} : it \in Range(m.items)}

ArgPatterns(sg) == IF sg.args.args = None THEN {} ELSE Range(sg.args.args)

\* A rest field that a comma follows in the printed text, at any depth.
RECURSIVE RestBeforeComma(_)
RestBeforeComma(pt) ==
    CASE pt.p \in {"tuple", "ctor"} ->
           \E q \in Range(IF pt.p = "tuple" THEN pt.elems ELSE pt.args) : RestBeforeComma(q)
      [] pt.p = "struct" ->
           \E i \in DOMAIN pt.fields :
              IF pt.fields[i].rest THEN i < Len(pt.fields) \/ pt.trailing
              ELSE pt.fields[i].pat # None /\ RestBeforeComma(pt.fields[i].pat)
      [] OTHER -> FALSE

SigRest(sg) == \E pt \in ArgPatterns(sg) : RestBeforeComma(pt)

\* The error of a list of signatures of a trait: a misplaced rest in any
\* of them, and only then pub on any of them.
SigListError(sigs) ==
    CASE \E sg \in Range(sigs) : SigRest(sg) -> "UnexpectedRestPattern"
      [] \E sg \in Range(sigs) : sg.vis      -> "UnnecessaryVisibilityQualifier"
      [] OTHER                               -> None

\* The error of one item: pub on an item kind that does not take it, a
\* misplaced rest in a fn's arguments, or the error of a trait's
\* signatures and then of its definitions.
ItemError(it) ==
    CASE it.k \in {"impl", "abi", "storage", "break", "continue"} /\ it.vis -> "ExpectedAnItem"
      [] it.k = "fn" /\ SigRest(it.sig) -> "UnexpectedRestPattern"
      [] it.k = "trait" /\ SigListError(it.items) # None -> SigListError(it.items)
      [] it.k = "trait" /\ it.defs # None ->
           SigListError([i \in DOMAIN it.defs |-> it.defs[i].sig])
      [] OTHER -> None

\* The error a module's text should be rejected with: no header, else the
\* error of its first item that has one; None when it has none.
FirstError(m) ==
    LET errs == [i \in DOMAIN m.items |-> ItemError(m.items[i])]
        i == SelectInSeq(errs, LAMBDA e : e # None)
    IN CASE m.kind = None -> "ExpectedModuleKind"
         [] i > 0         -> errs[i]
         [] OTHER         -> None

\* A static function whose first argument is a mut binding: FnArgs takes
\* that mut as mutable_self before it looks for self.
MutFirstArg(m) ==
    \E sg \in Sigs(m) : sg.args.static /\ sg.args.args # <<>> /\ sg.args.args[1] = PVar(TRUE)

Parsed == [kind |-> kind, deps |-> deps, items |-> items]

\* Module::parse_to_end inverts the printer: the token tree of a module
\* without errors parses back to that module, whatever its items,
\* signatures, arguments and patterns.
RoundTrip ==
    phase = "done" => FirstError(program) = None /\ Parsed = program

\* The same for every module except those with a static function whose
\* first argument is mut (RoundTrip fails on those).
RoundTripUnlessMutFirst ==
    phase = "done" /\ ~MutFirstArg(program) => Parsed = program

\* A module is rejected exactly when its text has an error, and with the
\* error that comes first: the header, then item by item; in a trait, a
\* misplaced rest in any signature of a braced list before pub on any of
\* them (the visibility check runs after the whole list is parsed). A rest
\* field is misplaced exactly when a comma follows it. So the trait
\* visibility check, the rest check and the ItemKind and ModuleKind
\* fallbacks are neither skipped, misfired nor reordered.
RejectsExactlyInvalid ==
    /\ phase = "done" => FirstError(program) = None
    /\ phase = "failed" => err = FirstError(program)





=============================================================================
