------------------------ MODULE MCStorageOnlyTypes ------------------------
(***************************************************************************)
(* Model-checking instance of StorageOnlyTypes.  Types: u64, a storage map *)
(* and a tuple (u64, storage map).  Each module has one or two top-level   *)
(* nodes: a function with one parameter and a body of at most one          *)
(* statement, an impl with such a method, a struct, a storage declaration, *)
(* a constant, a side effect or an unchecked declaration.  A statement is  *)
(* a variable, an expression with a code block inside, a sub-expression, a *)
(* while loop around a variable, an asm expression whose register          *)
(* initializer is such a block, or a storage reassignment of such a block. *)
(***************************************************************************)
EXTENDS StorageOnlyTypes

U64 == [n |-> "u64", args |-> <<>>]
Map == [n |-> "StorageMap", args |-> <<>>]
Pair == [n |-> "tuple", args |-> <<U64, Map>>]
Tys == {U64, Map, Pair}

Leaf == [k |-> "leaf"]
Var(t) == [k |-> "var", ty |-> t, e |-> Leaf]
Block(b) == [k |-> "block", body |-> b]
ExprNode(ks) == [k |-> "node", kids |-> ks]
FnDecl(ps, b) == [k |-> "fn", params |-> ps, body |-> b]

Stmts ==
    {Var(t) : t \in Tys}
    \cup {[k |-> "expr", e |-> Block(<<Var(t)>>)] : t \in Tys}
    \cup {[k |-> "expr", e |-> ExprNode(<<Leaf, Block(<<Var(t)>>)>>)] : t \in Tys}
    \cup {[k |-> "while", e |-> Leaf, body |-> <<Var(t)>>] : t \in Tys}
    \cup {[k |-> "expr", e |-> [k |-> "asm", inits |-> <<Block(<<Var(t)>>)>>]] : t \in Tys}
    \cup {[k |-> "sreassign", rhs |-> Block(<<Var(t)>>)] : t \in Tys}

Fns == {FnDecl(<<p>>, b) : p \in Tys, b \in {<<>>} \cup {<<s>> : s \in Stmts}}

TopNodes ==
    Fns
    \cup {[k |-> "impl", methods |-> <<f>>] : f \in Fns}
    \cup {[k |-> "fields", fields |-> <<t>>] : t \in Tys}
    \cup {[k |-> "storage", fields |-> <<t>>] : t \in Tys}
    \cup {Var(t) : t \in Tys}
    \cup {[k |-> "side"], [k |-> "nocheck"]}

Small == {[k |-> "storage", fields |-> <<t>>] : t \in Tys} \cup {Var(Map), [k |-> "side"]}

MCModules ==
    {<<x>> : x \in TopNodes} \cup {<<x, y>> : x \in Small, y \in TopNodes}

=============================================================================
