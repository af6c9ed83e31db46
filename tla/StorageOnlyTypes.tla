-------------------------- MODULE StorageOnlyTypes --------------------------
(***************************************************************************)
(* The storage-only-type validator of sway-core                            *)
(* (src/sway-core/src/semantic_analysis/storage_only_types.rs): a walk of  *)
(* the typed tree that reports every storage-only type used outside a      *)
(* storage declaration.  The walk is pure, so it is modelled by recursive  *)
(* operators; the state machine is the caller, which validates the         *)
(* module's nodes one by one (validate_decls_for_storage_only_types_in_ast) *)
(* and collects the errors.                                                *)
(*                                                                         *)
(* A type is [n, args]: "u64", "StorageMap" (storage-only) or "tuple".     *)
(* A span is the kind of place a type is written at: "var" (the name of a  *)
(* variable, constant or reassignment), "param" (a function parameter),    *)
(* "mparam" (a parameter of an impl method), "field" (struct field or enum *)
(* variant), "sfield" (storage field).  An error is [span, ty].            *)
(*                                                                         *)
(* Tree nodes (TypedAstNodeContent, TypedDeclaration, TypedExpression):    *)
(*   [k |-> "expr", e]            Return / Expression / ImplicitReturn      *)
(*   [k |-> "while", e, body]     WhileLoop: condition and body             *)
(*   [k |-> "side"]               SideEffect                                *)
(*   [k |-> "var", ty, e]         Variable/Constant decl, Reassignment      *)
(*   [k |-> "fn", params, body]   FunctionDeclaration; params: seq of types *)
(*   [k |-> "impl", methods]      ImplTrait: seq of "fn" records            *)
(*   [k |-> "fields", fields]     Struct / Enum declaration: seq of types   *)
(*   [k |-> "storage", fields]    StorageDeclaration: seq of types          *)
(*   [k |-> "sreassign", rhs]     StorageReassignment: the assigned value   *)
(*   [k |-> "nocheck"]            Abi, Trait, generic, ErrorRecovery,       *)
(*                                Break, Continue                           *)
(* Expressions: [k |-> "leaf"] (Literal, VariableExpression,               *)
(* FunctionParameter, StorageAccess, AbiName), [k |-> "asm", inits]        *)
(* (AsmExpression: its register initializers), [k |-> "node", kids]       *)
(* (every other variant with sub-expressions) and [k |-> "block", body]    *)
(* (CodeBlock).                                                            *)
(***************************************************************************)
EXTENDS Naturals, Sequences, FiniteSets

CONSTANT Modules   \* the module node sequences given to the validator

VARIABLES
    module,    \* the module's nodes (never changes)
    pending,   \* module nodes not validated yet
    errors     \* the InvalidStorageOnlyTypeDecl errors collected

vars == <<module, pending, errors>>

-----------------------------------------------------------------------------
(* The type engine (not part of this file of the repository)               *)

\* TypeInfo::extract_nested_types: the type itself and every type nested
\* in it.
RECURSIVE NestedTypes(_)
NestedTypes(t) == {t} \cup UNION {NestedTypes(t.args[i]) : i \in DOMAIN t.args}

\* is_type_info_storage_only
IsStorageOnly(t) == t.n = "StorageMap"

-----------------------------------------------------------------------------
(* The walk                                                                *)

\* Seeded fault: the error names the declared type, not the nested one.
CheckTypeOuter(ty, span, ignoreSelf) ==
    {[span |-> span, ty |-> ty] :
        t \in {x \in NestedTypes(ty) : ~(ignoreSelf /\ x = ty) /\ IsStorageOnly(x)}}

\* Seeded fault: ignore_self is not honoured.
CheckTypeNoIgnore(ty, span, ignoreSelf) ==
    {[span |-> span, ty |-> t] : t \in {x \in NestedTypes(ty) : IsStorageOnly(x)}}

\* check_type: one error per nested storage-only type, the type itself
\* skipped when ignore_self.
CheckType(ty, span, ignoreSelf) ==
    {[span |-> span, ty |-> t] :
        t \in {x \in NestedTypes(ty) : ~(ignoreSelf /\ x = ty) /\ IsStorageOnly(x)}}

\* check_type over a list of types, accumulating the errors.
CheckTypes(tys, span, ignoreSelf) ==
    UNION {CheckType(tys[i], span, ignoreSelf) : i \in DOMAIN tys}

RECURSIVE AstNodeValidate(_), ExprValidate(_), DeclValidate(_), CodeBlockValidate(_)

\* validate_decls_for_storage_only_types_in_codeblock: every node of the
\* block, errors accumulated.
CodeBlockValidate(cb) == UNION {AstNodeValidate(cb[i]) : i \in DOMAIN cb}

\* Seeded fault: code blocks inside expressions are not entered.
ExprValidateNoBlocks(e) ==
    CASE e.k \in {"leaf", "asm"} -> {}
      [] e.k = "node"  -> UNION {ExprValidate(e.kids[i]) : i \in DOMAIN e.kids}
      [] e.k = "block" -> {}

\* expr_validate: leaves and AsmExpression (its register initializers
\* included) are not inspected, every other variant validates all its
\* sub-expressions, a code block validates its nodes.
ExprValidate(e) ==
    CASE e.k \in {"leaf", "asm"} -> {}
      [] e.k = "node"  -> UNION {ExprValidate(e.kids[i]) : i \in DOMAIN e.kids}
      [] e.k = "block" -> CodeBlockValidate(e.body)

\* decl_validate
DeclValidate(d) ==
    CASE d.k = "var"     -> CheckType(d.ty, "var", FALSE) \cup ExprValidate(d.e)
      [] d.k = "fn"      -> CodeBlockValidate(d.body) \cup CheckTypes(d.params, "param", FALSE)
      [] d.k = "impl"    -> UNION {CodeBlockValidate(d.methods[i].body) : i \in DOMAIN d.methods}
      [] d.k = "fields"  -> CheckTypes(d.fields, "field", FALSE)
      [] d.k = "storage" -> CheckTypes(d.fields, "sfield", TRUE)
      [] d.k \in {"sreassign", "nocheck"} -> {}

\* ast_node_validate
AstNodeValidate(x) ==
    CASE x.k = "expr"  -> ExprValidate(x.e)
      [] x.k = "while" -> ExprValidate(x.e) \cup CodeBlockValidate(x.body)
      [] x.k = "side"  -> {}
      [] OTHER         -> DeclValidate(x)

-----------------------------------------------------------------------------
(* The caller: one module node validated per step                          *)

Init ==
    /\ module \in Modules
    /\ pending = module
    /\ errors = {}

\* validate_decls_for_storage_only_types_in_ast on the next module node.
ValidateAst ==
    /\ pending # <<>>
    /\ errors' = errors \cup AstNodeValidate(Head(pending))
    /\ pending' = Tail(pending)
    /\ UNCHANGED module

\* Every node has been validated.
Validated ==
    /\ pending = <<>>
    /\ UNCHANGED vars

Next == ValidateAst \/ Validated

Spec == Init /\ [][Next]_vars

-----------------------------------------------------------------------------
(* Reference: where a storage-only type may not be written                 *)

\* Every node of a statement sequence, at any depth: an impl's methods are
\* functions whose parameters are "mparam". With all, also the nodes under
\* asm register initializers and a storage reassignment's value.
RECURSIVE NodesIn(_, _)
NodesIn(b, all) ==
    UNION {
      LET x == b[i]
          Sub(f) == IF f \in DOMAIN x THEN x[f] ELSE <<>>
          kids == (IF "e" \in DOMAIN x THEN <<x.e>> ELSE <<>>) \o Sub("kids") \o Sub("body")
                  \o (IF all THEN Sub("inits") \o (IF "rhs" \in DOMAIN x THEN <<x.rhs>> ELSE <<>>)
                      ELSE <<>>)
          methodBodies == IF x.k = "impl"
                          THEN UNION {NodesIn(x.methods[j].body, all) : j \in DOMAIN x.methods}
                          ELSE {}
      IN {x} \cup NodesIn(kids, all) \cup methodBodies
      : i \in DOMAIN b}

\* Every place a type is written among the nodes ns: [ty, span].
Positions(ns) ==
    UNION {
      CASE x.k = "var"     -> {[ty |-> x.ty, span |-> "var"]}
        [] x.k = "fn"      -> {[ty |-> x.params[i], span |-> "param"] : i \in DOMAIN x.params}
        [] x.k = "impl"    -> UNION {{[ty |-> x.methods[j].params[i], span |-> "mparam"] :
                                          i \in DOMAIN x.methods[j].params} :
                                      j \in DOMAIN x.methods}
        [] x.k = "fields"  -> {[ty |-> x.fields[i], span |-> "field"] : i \in DOMAIN x.fields}
        [] x.k = "storage" -> {[ty |-> x.fields[i], span |-> "sfield"] : i \in DOMAIN x.fields}
        [] OTHER           -> {}
      : x \in ns}

\* A storage-only type may be written only as the type of a storage field
\* itself (spec 4.3); everywhere else, also nested, it is an error.
ExpectedAt(ns) ==
    UNION {{[span |-> p.span, ty |-> t] :
              t \in {x \in NestedTypes(p.ty) :
                        IsStorageOnly(x) /\ ~(p.span = "sfield" /\ x = p.ty)}}
           : p \in Positions(ns)}

Expected(b) == ExpectedAt(NodesIn(b, TRUE))

-----------------------------------------------------------------------------
(* Properties                                                              *)

TypeOK ==
    /\ pending \in Seq(UNION {{module[i]} : i \in DOMAIN module})
    /\ errors \subseteq [span : {"var", "param", "field", "sfield"},
                         ty : {t \in UNION {NestedTypes(p.ty) : p \in Positions(NodesIn(module, TRUE))} :
                                  IsStorageOnly(t)}]

\* Every error reported names a storage-only type written where it is not
\* allowed: a storage field's own type is never reported (check_type's
\* ignore_self), whatever the nesting of the walk.
ValidationSound ==
    pending = <<>> => errors \subseteq Expected(module)

\* Every storage-only type written outside storage is reported, in any
\* expression, code block, loop, field or function parameter, leaving out
\* the three places the walk never enters: the parameters of impl methods
\* (decl_validate's ImplTrait arm), asm register initializers (the
\* AsmExpression arm of expr_validate) and the value of a storage
\* reassignment (the StorageReassignment arm).
ValidationCompleteWhereWalked ==
    pending = <<>> =>
        {e \in ExpectedAt(NodesIn(module, FALSE)) : e.span # "mparam"} \subseteq errors

\* Every storage-only type written outside storage is reported, the
\* parameters of impl methods, asm register initializers and storage
\* reassignments included (spec 4.3: function parameters, and a traversal
\* exhaustive over every expression and declaration variant).
ValidationExact ==
    pending = <<>> => errors = Expected(module)

=============================================================================
