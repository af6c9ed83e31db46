-------------------------- MODULE FunctionParameter --------------------------
(***************************************************************************)
(* TypedFunctionParameter::type_check (src/sway-core/src/semantic_analysis *)
(* /ast_node/declaration/function/function_parameter.rs), called by the   *)
(* function declaration's type check once per parameter, in order, on the *)
(* function's namespace.  Each call resolves the parameter's type (Self    *)
(* becomes the self type; an unknown type is an error and ErrorRecovery),  *)
(* inserts the parameter as a variable declaration into the namespace and  *)
(* returns the typed parameter.  Later, monomorphization applies a type   *)
(* mapping to the typed parameters with copy_types.                        *)
(***************************************************************************)
EXTENDS Naturals, Sequences, SequencesExt

CONSTANTS
    Functions,   \* the parameter lists: sequences of [name, ty, mut]
    Scopes,      \* the namespaces a function may start from: name -> symbol
    KnownTypes,  \* the types that resolve to themselves
    SelfType,    \* ctx.self_type
    Generics,    \* the type parameters in scope: they resolve to themselves
    TypeMapping, \* the TypeMapping of copy_types: type parameter -> type
    None

VARIABLES
    params,      \* the parameter list being checked (never changes)
    outer,       \* the namespace before the parameters (never changes)
    todo,        \* the parameters not checked yet
    symbols,     \* ctx.namespace: name -> symbol
    typed,       \* the TypedFunctionParameters returned so far
    errors,      \* the CompileErrors pushed by check!
    copied       \* copy_types has been applied to the typed parameters

vars == <<params, outer, todo, symbols, typed, errors, copied>>

ErrorRecovery == "ErrorRecovery"

\* Seeded fault: resolve_type without the self type; Self resolves to itself.
ResolveTypeNoSelf(ty) ==
    CASE ty \in KnownTypes \cup Generics \cup {"Self"} -> ty
      [] OTHER                         -> None

\* ctx.resolve_type_with_self: Self is the self type, a known type itself,
\* anything else None (an error).
ResolveTypeWithSelf(ty) ==
    CASE ty = "Self"         -> SelfType
      [] ty \in KnownTypes \cup Generics -> ty
      [] OTHER               -> None

Init ==
    /\ params \in Functions
    /\ todo = params
    /\ outer \in Scopes
    /\ symbols = outer
    /\ typed = <<>>
    /\ errors = <<>>
    /\ copied = FALSE

\* Seeded fault: insert_symbol keeps an existing symbol of the same name.
InsertSymbolKeep(ns, name, decl) ==
    IF name \in DOMAIN ns THEN ns ELSE ns @@ (name :> decl)

\* namespace.insert_symbol: the new declaration replaces any of that name.
InsertSymbol(ns, name, decl) == (name :> decl) @@ ns

\* type_check of the next parameter: check! falls back to ErrorRecovery and
\* records the error; the parameter becomes a VariableDeclaration of kind
\* FunctionParameter with its mutability; the typed parameter is returned.
TypeCheck ==
    /\ todo # <<>>
    /\ LET p == Head(todo)
           r == ResolveTypeWithSelf(p.ty)
           tyId == IF r = None THEN ErrorRecovery ELSE r
       IN /\ errors' = IF r = None THEN Append(errors, p.name) ELSE errors
          /\ symbols' = InsertSymbol(symbols, p.name,
                            [kind |-> "FunctionParameter", ty |-> tyId, mutable |-> p.mut])
          /\ typed' = Append(typed, [name |-> p.name, is_mutable |-> p.mut, type_id |-> tyId])
    /\ todo' = Tail(todo)
    /\ UNCHANGED <<params, outer, copied>>

\* Every parameter is checked: the function's body is checked next.
Checked ==
    /\ todo = <<>>
    /\ UNCHANGED vars

\* TypeId::update_type: a type the mapping names becomes its image.
UpdateType(ty) == IF ty \in DOMAIN TypeMapping THEN TypeMapping[ty] ELSE ty

\* copy_types on each typed parameter of the checked function: its type_id
\* is updated in place (the namespace entries made by type_check are not).
CopyTypes ==
    /\ todo = <<>>
    /\ ~copied
    /\ typed' = [i \in DOMAIN typed |-> [typed[i] EXCEPT !.type_id = UpdateType(@)]]
    /\ copied' = TRUE
    /\ UNCHANGED <<params, outer, todo, symbols, errors>>

\* PartialEq for TypedFunctionParameter: name, looked-up type and
\* mutability; the type's span is ignored.
ParamEq(a, b) ==
    /\ a.name = b.name
    /\ a.type_id = b.type_id
    /\ a.is_mutable = b.is_mutable

Next == TypeCheck \/ CopyTypes \/ Checked

Spec == Init /\ [][Next]_vars

-----------------------------------------------------------------------------
(* Properties                                                              *)

TypeOK ==
    /\ params \in Functions
    /\ IsSuffix(todo, params)
    /\ Len(typed) + Len(todo) = Len(params)
    /\ copied \in BOOLEAN
    /\ \A i \in DOMAIN typed :
          typed[i].type_id \in KnownTypes \cup Generics \cup Range(TypeMapping) \cup {SelfType, ErrorRecovery}

\* Once every parameter is checked, the scope the body sees binds each
\* parameter name to the last parameter of that name (a later parameter
\* shadows an earlier one and any outer symbol), with that parameter's
\* type and mutability, and leaves every other outer symbol untouched.
ScopeAfterParams ==
    todo = <<>> /\ ~copied =>
        /\ DOMAIN symbols = DOMAIN outer \cup {p.name : p \in Range(params)}
        /\ \A n \in DOMAIN symbols :
            LET last == SelectLastInSeq(typed, LAMBDA t : t.name = n)
            IN IF last = 0 THEN symbols[n] = outer[n]
               ELSE symbols[n] = [kind |-> "FunctionParameter", ty |-> typed[last].type_id,
                                  mutable |-> typed[last].is_mutable]

=============================================================================
