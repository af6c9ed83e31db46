---------------------------- MODULE MCSwayParse ----------------------------
(***************************************************************************)
(* Bounded modules for SwayParse: every module kind (and none), zero or    *)
(* one dependency, and one or two items drawn from fn items over a set of  *)
(* argument lists that covers every Pattern arm, self forms, signature     *)
(* flags, traits with super traits, signatures and definitions (with and  *)
(* without pub), and the other item kinds with and without pub.           *)
(***************************************************************************)
EXTENDS SwayParse

F == FALSE

\* Patterns: every arm of Pattern::parse once, nested groups one deep, and
\* rest fields alone, last, first, before a trailing comma and inside a
\* field.
Wild == [p |-> "wild"]
RestField == [rest |-> TRUE]
NameField == [rest |-> F, pat |-> None]
StructPat(path, fs) == [p |-> "struct", path |-> path, fields |-> fs, trailing |-> F]
RestPat == StructPat("ident", <<RestField>>)
\* `ident { .., ident }`: the rest is one of the value_separator_pairs.
BadRestPat == StructPat("ident", <<RestField, NameField>>)

MCPatterns ==
    {PVar(FALSE), PVar(TRUE), Wild, [p |-> "const", path |-> "path"]}
    \cup {[p |-> "lit", lit |-> l] : l \in {"true", "false", "lit"}}
    \cup {[p |-> "tuple", elems |-> es] : es \in {<<>>, <<PVar(TRUE), Wild>>}}
    \cup {[p |-> "ctor", path |-> "ident", args |-> <<>>],
          [p |-> "ctor", path |-> "path", args |-> <<PVar(TRUE)>>]}
    \cup {StructPat("ident", <<>>),
          StructPat("path", <<NameField, [rest |-> F, pat |-> PVar(TRUE)]>>),
          [StructPat("path", <<NameField>>) EXCEPT !.trailing = TRUE],
          RestPat, BadRestPat,
          StructPat("ident", <<NameField, RestField>>),
          [RestPat EXCEPT !.trailing = TRUE],
          StructPat("ident", <<[rest |-> F, pat |-> BadRestPat]>>)}

Static(as) == [static |-> TRUE, args |-> as]

MCArgs ==
    {Static(<<>>), Static(<<PVar(F), PVar(TRUE)>>), Static(<<PVar(TRUE), PVar(F)>>)}
    \cup {Static(<<pt>>) : pt \in MCPatterns}
    \cup {[static |-> F, mutSelf |-> m, args |-> as] :
            m \in BOOLEAN, as \in {None, <<>>, <<PVar(TRUE)>>, <<BadRestPat>>}}

Sig(v, g, as, r, w) == [vis |-> v, generics |-> g, args |-> as, ret |-> r, where |-> w]
Plain(as) == Sig(F, F, as, F, F)
PubSig == Sig(TRUE, F, Static(<<>>), F, F)
FnItem(sg) == [k |-> "fn", sig |-> sg]

FnItems ==
    {FnItem(Plain(as)) : as \in MCArgs}
    \cup {FnItem(Sig(v, g, Static(<<PVar(F)>>), r, w)) : v, g, r, w \in BOOLEAN}

TraitItems ==
    {[k |-> "trait", vis |-> v, supers |-> n, items |-> is, defs |-> ds] :
        v \in BOOLEAN, n \in 0..2,
        is \in {<<>>, <<Plain(Static(<<>>))>>, <<Plain(Static(<<>>)), PubSig>>,
                <<PubSig, Plain(Static(<<BadRestPat>>))>>,
                <<Plain(Static(<<RestPat>>)), PubSig>>},
        ds \in {None, <<>>, <<FnItem(Plain(Static(<<>>)))>>, <<FnItem(PubSig)>>,
                <<FnItem(Plain(Static(<<PVar(TRUE)>>)))>>,
                <<FnItem(Plain(Static(<<BadRestPat>>)))>>}}

OtherItems ==
    {[k |-> kw, vis |-> v] : kw \in {"use", "struct", "enum", "impl", "abi", "const",
                                      "storage", "break", "continue"}, v \in BOOLEAN}

\* Pairs of items: the item loop runs twice, and an error in the second
\* item is reported after the first is parsed.
PairItems ==
    {FnItem(Plain(Static(<<>>))), FnItem(Plain(Static(<<BadRestPat>>))),
     [k |-> "impl", vis |-> TRUE], [k |-> "struct", vis |-> TRUE]}

MCPrograms ==
    {[kind |-> mk, deps |-> d, items |-> <<it>>] :
        mk \in ModuleKinds \cup {None}, d \in 0..1, it \in FnItems \cup TraitItems \cup OtherItems}
    \cup {[kind |-> mk, deps |-> 2, items |-> is] :
        mk \in {"script", "library"},
        is \in {<<>>} \cup {<<a, b>> : a, b \in PairItems}}

=============================================================================
