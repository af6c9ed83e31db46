----------------------------- MODULE ValueArena -----------------------------
(***************************************************************************)
(* The IR value arena of sway-ir (src/sway-ir/src/value.rs): Values are    *)
(* handles into context.values, a generational arena from which nothing is *)
(* removed in this code, so a handle is the position of its content.  The  *)
(* content is a ValueDatum (Argument, Constant or Instruction) and an      *)
(* optional MetadataIndex.                                                 *)
(*                                                                         *)
(* The metadata table (context.metadata) is kept as the sequence of the    *)
(* provenance sets of its entries: entry i of the initial table is the one *)
(* source Sources[i]; metadata::combine appends a list entry.  combine and *)
(* Instruction::replace_value live outside this file's source and are      *)
(* modelled from their documented behaviour (union of the two lists;      *)
(* every occurrence of the old operand replaced).                          *)
(*                                                                         *)
(* An instruction is [op, args]: op is one of "br" (Branch, no Value       *)
(* operand), "cbr" (ConditionalBranch on a condition), "ret" (Ret of a     *)
(* value), "binop" (BinaryOp of two values); args are operand handles.     *)
(***************************************************************************)
EXTENDS Naturals, Sequences, SequencesExt, FiniteSets

LOCAL INSTANCE Graphs

CONSTANTS
    Types,       \* the IR types an argument or constant may have
    Sources,     \* the initial metadata entries, as a sequence of sources
    None,        \* Option::None
    MaxValues,   \* bound on the number of values inserted
    MaxMetadata  \* bound on the length of the metadata table

VARIABLES
    values,      \* context.values: handle -> ValueContent.value
    metadata,    \* handle -> ValueContent.metadata (an index or None)
    mdTable,     \* context.metadata: index -> set of sources it covers
    attached     \* ghost: handle -> sources ever attached to it

vars == <<values, metadata, mdTable, attached>>

Arity == [br |-> 0, cbr |-> 1, ret |-> 1, binop |-> 2]
Ops == DOMAIN Arity

Handles == DOMAIN values

-----------------------------------------------------------------------------
(* Helpers from outside value.rs                                           *)

\* metadata::combine: None is the identity; two indices are merged into a
\* new list entry of the table.
CombinedTable(a, b) ==
    IF a = None \/ b = None THEN mdTable
    ELSE Append(mdTable, mdTable[a] \cup mdTable[b])

CombinedIndex(a, b) ==
    CASE a = None -> b
      [] b = None -> a
      [] OTHER    -> Len(mdTable) + 1

\* Instruction::replace_value: every operand equal to old becomes new.
ReplaceValue(args, old, new) ==
    [i \in DOMAIN args |-> IF args[i] = old THEN new ELSE args[i]]

-----------------------------------------------------------------------------
(* Queries of value.rs                                                     *)

\* get_metadata
GetMetadata(v) == metadata[v]

\* is_constant
IsConstant(v) == values[v].kind = "const"

\* is_terminator: an instruction that is a Branch, ConditionalBranch or Ret.
IsTerminator(v) == values[v].kind = "ins" /\ values[v].op \in {"br", "cbr", "ret"}

\* get_type: arguments and constants carry their type; a BinaryOp has the
\* type of its first operand and the terminators have none.
RECURSIVE GetType(_)
GetType(v) ==
    CASE values[v].kind \in {"arg", "const"} -> values[v].ty
      [] values[v].op = "binop"              -> GetType(values[v].args[1])
      [] OTHER                               -> None

-----------------------------------------------------------------------------
(* Actions                                                                 *)

Init ==
    /\ values = <<>>
    /\ metadata = <<>>
    /\ mdTable = [i \in DOMAIN Sources |-> {Sources[i]}]
    /\ attached = <<>>

\* context.values.insert(content) with no metadata.
Insert(content) ==
    /\ Len(values) < MaxValues
    /\ values' = Append(values, content)
    /\ metadata' = Append(metadata, None)
    /\ attached' = Append(attached, {})
    /\ UNCHANGED mdTable

\* new_argument
NewArgument(ty) == Insert([kind |-> "arg", ty |-> ty, op |-> "", args |-> <<>>])

\* new_constant
NewConstant(ty) == Insert([kind |-> "const", ty |-> ty, op |-> "", args |-> <<>>])

\* new_instruction, its operands taken from the values already inserted.
NewInstruction(op, args) == Insert([kind |-> "ins", ty |-> None, op |-> op, args |-> args])

\* Seeded fault: the new metadata replace the old ones.
AddMetadatumOverwrite(v, md) ==
    /\ md # None
    /\ metadata' = [metadata EXCEPT ![v] = md]
    /\ attached' = [attached EXCEPT ![v] = @ \cup mdTable[md]]
    /\ UNCHANGED <<values, mdTable>>

\* Seeded fault: the merged index is used but its entry never inserted.
AddMetadatumNoInsert(v, md) ==
    /\ md # None
    /\ Len(CombinedTable(metadata[v], md)) <= MaxMetadata
    /\ metadata' = [metadata EXCEPT ![v] = CombinedIndex(metadata[v], md)]
    /\ attached' = [attached EXCEPT ![v] = @ \cup mdTable[md]]
    /\ UNCHANGED <<values, mdTable>>

\* add_metadatum: a no-op for None; otherwise the value's metadata becomes
\* combine(orig_md, md_idx).
AddMetadatum(v, md) ==
    /\ md # None
    /\ Len(CombinedTable(metadata[v], md)) <= MaxMetadata
    /\ mdTable' = CombinedTable(metadata[v], md)
    /\ metadata' = [metadata EXCEPT ![v] = CombinedIndex(metadata[v], md)]
    /\ attached' = [attached EXCEPT ![v] = @ \cup mdTable[md]]
    /\ UNCHANGED values

\* replace_instruction_value: a no-op unless the value is an instruction,
\* whose operands equal to old become new.
ReplaceInstructionValue(v, old, new) ==
    /\ values[v].kind = "ins"
    /\ values' = [values EXCEPT ![v].args = ReplaceValue(@, old, new)]
    /\ UNCHANGED <<metadata, mdTable, attached>>

Next ==
    \/ \E ty \in Types : NewArgument(ty) \/ NewConstant(ty)
    \/ \E op \in Ops : \E args \in [1..Arity[op] -> Handles] : NewInstruction(op, args)
    \/ \E v \in Handles, md \in DOMAIN mdTable : AddMetadatum(v, md)
    \/ \E v, old, new \in Handles : ReplaceInstructionValue(v, old, new)

Spec == Init /\ [][Next]_vars

-----------------------------------------------------------------------------
(* Properties                                                              *)

Content == [kind : {"arg", "const"}, ty : Types, op : {""}, args : {<<>>}]
           \cup [kind : {"ins"}, ty : {None}, op : Ops, args : Seq(Handles)]

TypeOK ==
    /\ values \in Seq(Content)
    /\ \A v \in Handles : Len(values[v].args) = IF values[v].kind = "ins"
                                               THEN Arity[values[v].op] ELSE 0
    /\ metadata \in [Handles -> DOMAIN mdTable \cup {None}]
    /\ mdTable \in Seq(SUBSET Range(Sources))
    /\ attached \in [Handles -> SUBSET Range(Sources)]

\* Metadata attached to a value is merged, never overwritten: after any
\* sequence of add_metadatum calls, on this value or on others that extend
\* the shared table, the value's metadata covers exactly the sources ever
\* attached to it (spec: attaching A then B reflects both).
ProvenanceKept ==
    \A v \in Handles :
        attached[v] = IF metadata[v] = None THEN {} ELSE mdTable[metadata[v]]

\* The edges get_type follows: a BinaryOp to its first operand.
TypeChain ==
    [node |-> Handles,
     edge |-> {<<v, values[v].args[1]>> : v \in {w \in Handles : values[w].kind = "ins"
                                                                 /\ values[w].op = "binop"}}]

\* get_type answers for every value: following BinaryOp first operands
\* from any value ends at an argument, a constant or a terminator, after
\* any sequence of new_instruction and replace_instruction_value calls
\* (spec: operands are rewritten to other existing Values).
GetTypeTerminates == IsDag(TypeChain)

=============================================================================
