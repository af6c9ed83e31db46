# TLA+ models of the sway compiler core

This directory holds TLA+ models of the static-correctness and IR layer of the
sway compiler in `src/`. There is one module for each component, an MC module
for each model checked, and a `.cfg` file for each run. `PROJECT.json` lists
the components, runs, seeded faults, the source lines each definition models,
the findings and the hazards.

## 1. The system

| Part | Source | State it keeps |
|---|---|---|
| CFG builder | `sway-core/.../analyze_return_paths.rs` (`construct_return_path_graph`, `connect_node`, `connect_declaration`, `connect_impl_trait`, `connect_typed_fn_decl`, `depth_first_insertion_code_block`) | a petgraph graph (append-only nodes and edges, parallel edges allowed), the current leaf set, the return nodes of each block, break/continue targets |
| Function / trait namespace | same file (`insert_function`, `insert_trait_methods`) | name → {entry, exit, return type}; trait → methods |
| Return-path analyzer | same file (`analyze_return_paths`, `ensure_all_paths_reach_exit`) | per function: the rover vector, `max_iterations` (50), the error list |
| Storage-only validator | `sway-core/.../storage_only_types.rs` | none: a pure recursive walk that returns errors |
| IR value arena | `sway-ir/src/value.rs` | `context.values` (an arena of `ValueContent`), `context.metadata` |
| Function parameter check | `.../function/function_parameter.rs` (`TypedFunctionParameter::type_check`) | the function's namespace, the typed parameters, the errors |
| Parser | `sway-parse/src/{module.rs,item/mod.rs,item/item_trait.rs,pattern.rs}` | a token cursor over the lexer's token trees |
| `forc run` | `forc/src/ops/forc_run.rs` (`run`, `try_send_tx`, `send_tx`, the transaction helpers) | the step of an async command; on the node: whether the transaction was committed |
| Formatter | `sway-fmt-v2/.../statement.rs` (`Format` and `LeafSpans` for `Statement` and `StatementLet`) | the text written so far (`formatted_code`); the leaf spans the comment pass collects |

**How the parts interact.** The builder walks the typed tree and produces the
graph and the namespace. The analyzer then iterates over the namespace (a
`HashMap`, so the order is unspecified). For each function it searches the
graph from the entry toward the exit, one round of rovers at a time.

The parser turns the token trees into the untyped AST that type checking
(which includes `type_check` of each function parameter, inserting it into the
function's namespace) turns into the typed tree. The validator walks the typed
tree on its own and accumulates errors. The arena
is filled by IR lowering and later rewritten in place by optimisation passes.
`forc run` builds a script through the whole pipeline, wraps it in a
transaction and sends it to a node.

The compiler runs on a single thread and never waits. Its only nondeterminism
is the `HashMap` order and the inputs. `forc run` is one async task that
awaits each call to the node in turn; the node's answers are its
nondeterminism.

**What is hard to test.**

- The builder threads leaf sets and return-node lists through a recursion. A
  mistake there shows up only as a wrong edge somewhere in a nested program.
- The analyzer's result depends on:
  - petgraph's neighbour order (the most recently added edge comes first);
  - the rule that stops the search when the *first* rover is the exit;
  - the 50-round cap;
  - an early `return` on a spanless dead end.
- The arena's metadata merge and operand rewrite have to keep provenance and
  occurrences across long call sequences.
- `forc run` can fail at every call to the node, including after the node
  has committed the transaction.

## 2. Modules

| Module | Models | State ↔ code |
|---|---|---|
| `TypedAst` | the typed tree, abstracted to its control: return, expression, pass-through, break, continue, while, fn, impl | also a reference semantics (`BlockOutcomes`, `FallsOffEnd`, `StrayJump`) that the properties compare against |
| `CfgBuilder` | the builder | The recursion becomes an explicit `stack` of activations: a block frame is a call of `depth_first_insertion_code_block`, an impl frame is `connect_impl_trait`. `nodes` is in `add_node` order, with kind program/method/org. `edges` is the sequence of `add_edge` calls. `fnNs` and `traitNs` are the namespace; `failure` is the `Err` of a stray jump. Each arm of `connect_node`/`connect_declaration` is one action. Code that runs after a recursive call (`WhileBodyDone`, `FnBodyDone`, `ImplEnd`, `ModuleDone`) is its own action. |
| `ReturnPaths` | the analyzer, extending `CfgBuilder` | `StartFunction` picks any unanalysed namespace entry. `Round` is one iteration of the `while` loop: the exit filter, dead-end reports, the Internal abort, next rovers and the decrement. `FinishFunction` is the loop condition failing. |
| `StorageOnlyTypes` | the validator | `AstNodeValidate`, `ExprValidate`, `DeclValidate`, `CodeBlockValidate` and `CheckType` are recursive operators, one per function. The state machine is the caller validating module nodes one by one. `Expected` is a reference built from every position where a type is written. |
| `SwayParse` | the parser | Each parse function is an operator from a token sequence to `Ok(value, rest)` or `Fail(kind)`; `Then` is the `?` operator. `Module::parse_to_end` is the state machine: `ParseHeader` (kind and `;`), `ParseDependency` (one iteration of the `dep` loop), `DependenciesDone`, `ParseItem` (one `ItemKind`), `ItemsDone`. `RenderModule`, a printer, is the reference the parser must invert. |
| `FunctionParameter` | `type_check` | `TypeCheck` is one call, on the next parameter in `todo`: type resolution with `Self`, the `ErrorRecovery` fallback of `check!`, `insert_symbol`, the returned typed parameter. `outer` is a ghost copy of the namespace before the parameters. |
| `ForcRun` | `forc_run.rs` | `pc` is the step of `run` (one action per step that can fail or panic: `ResolvePath`, `LoadManifest`, `DecodeData`, `Build`, `MakeTx`, `ClientNew`, `Health`, `Send`, `Receipts`). `tx` is the transaction that `CreateTx` assembles from `GetTxInputsAndOutputs`, with the `u8` `input_index` computed as `i % 256`. `calls` records the calls to the node and their outcomes. `committed` is the node's state. `FormatHexData` and `HexDecode` work on the data's characters. |
| `StatementFormat` | `statement.rs` | `FormatStatement`/`FormatLet` are what `format` writes: tokens, and the indent, spaces and newline as model values. `LeafSpansStatement`/`LeafSpansLet` are the lists `leaf_spans` returns. A token is its source position, so a span is a number. The pattern, type, expression and item are sequences of their leaf tokens, written and listed in source order by their own code, which is outside `src/`. `Format` is the block's formatter formatting its next statement; `LeafSpans` is the comment pass collecting the next statement's spans. The two passes are separate, so the model lets either run ahead. |
| `ValueArena` | `value.rs` | `values`/`metadata` are the arena indexed by handle. `mdTable` is the metadata table, each entry a set of sources. `attached` is a ghost. There is one action per mutating method; the queries are operators. |

`metadata::combine`, `Instruction::replace_value`, `Instruction::get_type`,
the instruction arities, `extract_nested_types`, `Namespace::insert_symbol`, the
`Parser` primitives, `Punctuated`/`Vec` parsing, `ItemFn` and the other item
kinds' parsers live outside `src/`. They are modelled from the spec and
marked `spec_modelled` in the map.

**Abstractions.**

- **Rovers without repeats.** The rover vector is kept without repetitions, in
  order of first occurrence. The loop reads only the first rover, membership,
  and the order of first occurrences, and a repeated rover has the same
  neighbours. What this loses is the count of identical reports within one
  round: errors are a set, and `dupError` records a report repeated in a later
  round.
- **Tokens.** Names are all one `ident` token, types one `ty` token,
  generics one `<>` group; attributes and function bodies are left out. No
  parser property tells two names apart.
- **The node and the build.** Each call to the node answers with success or
  failure, chosen freely. A submit whose answer failed may still have
  committed the transaction. Receipts exist only for a transaction the node
  ran. The build is one step that succeeds or fails. Gas parameters, receipt
  contents and their printing are left out: `print_receipt_output` cannot fail
  on a list of receipts.
- **Spans and payloads.** Spans are the node or the kind of position. Types are
  `u64`, `StorageMap` and tuples.

## 3. Runs

There are twelve runs, seven of which pass. Each property of a passing run has a seeded fault in
its module (`PROJECT.json` "mutants") that the run detects.

**`return_paths`** (`MCReturnPaths.cfg`, pass, 27,240 states)

Checks these properties:

- `TypeOK`;
- `StructuralErrorExact`: the build fails exactly on the first stray
  break/continue, with its kind;
- `BuiltReachable`: every non-marker node is reachable from its function's
  entry;
- `FallthroughFlaggedLoopFree`: every loop-free non-unit function that can
  fall off its end gets an error;
- `Termination`, under weak fairness. Weak fairness is justified because the
  compiler is single-threaded and never blocks.

Bounds:

- `fn f() -> u64` with bodies of at most two statements. Each statement is one
  of:
  - a leaf statement;
  - a loop with up to two leaf statements;
  - a nested `fn g`.
- A `fn g` declared inside a `while`, whose body is a single return, break or
  continue. `connect_typed_fn_decl` resets the loop targets, so the break and
  continue in `g` are stray even though they sit inside a loop.
- Loops nested two deep followed by a statement. Their graph has a cycle that
  the search goes round until `max_iterations` runs out.
- An impl with one method of up to two statements.
- Unit and unresolved return types.
- Stray jumps at module level.

Every arm of the builder, both Round disjuncts and every error kind occur.

**`diagnostics_contract`** (violation, `DiagnosticsAsSpecified`)

The property is the spec's diagnostic contract for the analyzer, in five
conjuncts:
- every function that can fall off its end is flagged (`FallthroughFlagged`);
- no error for a function that always returns;
- only "path does not return" errors;
- one error per dead end;
- every error lies in its own function's body.

The programs are those of `return_paths` plus `MCSameNamePrograms`, two impls
that both define `m`. Each conjunct is broken by a different behaviour of the
code (findings 1–6). Each conjunct is violated when checked on its own, and
`FallthroughFlagged` on `MCSameNamePrograms` alone fails after 143 states.
TLC's shortest trace is finding 1: `fn f() -> u64 { while c {} }` gets no
error.

**`storage_only`** (`MCStorageOnlyTypes.cfg`, pass)

Checks these properties:

- `ValidationSound`: no error outside `Expected`. This includes the storage
  field's own type being exempt (`ignore_self`) while types nested in it are
  still reported.
- `ValidationCompleteWhereWalked`: every storage-only type written anywhere
  the walk enters is reported. That covers expressions, code blocks inside
  expressions, loops, fields and function parameters. Three places are left
  out, and are named in the property: impl method parameters, asm register
  initializers and the value of a storage reassignment. The walk never enters
  them (see `validator_skips`).

Bounds: modules of up to two nodes. They use vars, fns with parameters,
fields, storage, impls, and function bodies whose one statement is one of:
- a var;
- a code block inside an expression or a sub-expression;
- a while loop;
- an asm expression whose register initializer is a code block;
- a storage reassignment of a code block.

The types are `u64`, `StorageMap` and a pair containing a `StorageMap`. The
model's asm expression has its initializers and the storage reassignment has
its value, so the reference `Expected` counts the types written there, as
spec 4.3 requires.

**`validator_skips`** (violation, `ValidationExact`)

Spec 4.3's exhaustive traversal is broken in three places (findings 7, 11
and 12):
- impl method parameters are never checked;
- `AsmExpression` is a no-op leaf (`:46`), so its register initializers are
  never walked;
- `StorageReassignment` is a no-op (`:234`), so the value assigned is never
  walked.

Each violates `ValidationExact` when checked on its own.

**`value_arena`** (`MCValueArena.cfg`, pass, 90,253 states)

Checks these properties:

- `ProvenanceKept`: a value's metadata covers exactly the sources ever
  attached to it.

Bounds: three values, two metadata sources and one merged table entry. A
BinaryOp can name one operand twice.

`CHECK_DEADLOCK FALSE` is set because the arena is a library: its caller may
stop at any point, and here the bounds also stop it.

**`self_operand_get_type`** (violation, `GetTypeTerminates`)

`GetTypeTerminates` says the graph of BinaryOp first operands, which
`get_type` follows, stays acyclic. `replace_instruction_value(v, old, v)`
breaks it.

**`parse_round_trip`** (`MCSwayParse.cfg`, pass, 10,756 states)

Checks these properties:

- `TypeOK`, which includes: the parser only ever consumes a prefix of its input.
- `RoundTripUnlessMutFirst`: a module printed by `RenderModule` parses back to
  itself. This excludes static functions whose first argument is `mut`.
- `RejectsExactlyInvalid`: the parse fails exactly when the text has an error,
  and with the first one (`FirstError`). The errors are:
  - no header;
  - `pub` on impl, abi, storage, break or continue;
  - `pub` on a trait signature or definition;
  - a rest field `..` that a comma follows.

  They are ordered header first, then item by item. Within a trait's braced
  list, a misplaced rest in any signature comes before `pub` on any of them,
  because `item_trait.rs:21` checks visibility only after the whole list is
  parsed. `pattern.rs:47-50` searches only `value_separator_pairs`, the values
  a comma follows. So `S { .. }` and `S { a, .. }` parse, while `S { .., a }`
  and `S { .., }` are rejected. `ParsePunctuated` keeps those pairs apart
  from the `final_value_opt`. A struct pattern records whether its field list
  ends with a comma, so the printer can print that comma back.

Bounds:
- Every module kind, and no header at all.
- Zero to two dependencies.
- One item from each of these sets:
  - fn items over argument lists covering every `Pattern` arm, including
    nested tuple, constructor and struct patterns. Rest fields appear alone,
    last, first, before a trailing comma, and nested;
  - every `self` form;
  - all 16 combinations of the signature flags (pub, generics, return type,
    where);
  - traits with 0–2 super traits, and signatures and definitions with and
    without `pub`. These include a `pub` signature followed by one with a
    misplaced rest, and the reverse;
  - the other item kinds, with and without `pub`.
- Pairs of items, so that an error can come in a second item.

**`mut_first_arg_dropped`** (violation, `RoundTrip`)

`fn f(mut x: ty) {}` parses as `fn f(x: ty) {}`.

**`function_parameters`** (`MCFunctionParameter.cfg`, pass, 43,108 states)

Checks these properties:

- `TypeOK`, which includes: every typed parameter's type is a known type, the
  self type, or `ErrorRecovery`.
- `ScopeAfterParams`: once all parameters are checked, the body's scope binds
  each parameter name to the last parameter of that name, with its type and
  mutability. Every other outer symbol is untouched.

Bounds: every list of up to three parameters over two names. Each parameter's
type is a known type, `Self`, the type parameter `T` or an unknown type, and
each parameter is mutable or not. The namespace starts empty or with an outer
constant `x`. `copy_types` maps `T` to `u64`.

**`forc_run`** (`MCForcRun.cfg`, pass, 4,662 states)

Checks these properties:

- `TypeOK`.
- `NodeEffectsAsReported`: whatever the node answers, the following hold.
  - A dry run never reaches the node, and `--simulate` never commits.
  - After a failed health check nothing else is sent.
  - Receipts are asked for only right after an accepted submit or node dry run
    (the `and_then`).
  - `Ok` with receipts means the node ran the transaction.
  - A commit always follows a passing health check.
  - A committed transaction is reported as an error only when the node's
    answer to the submit or to the receipts query failed. This is the partial
    failure a user who re-runs the command would hit.
- `PanicsOnlyOnMalformedInput`: `run` panics only when the `--data` text is
  not hex pairs after at most one `0x`, or a contract id is malformed. A run
  that returns `Ok` carries the decoded data.

Bounds, chosen to cover every branch of the code:
- a project, no project, no working directory, a contract project;
- `--data`: absent, `0x`, with and without `0x`, `0x0x`, odd length, a
  non-hex digit;
- zero, one or two contracts, or a malformed one;
- every `--dry-run`/`--simulate` pair;
- a node url from the flag (well-formed or malformed), from the manifest, or
  the default.

The run's Done step stutters, so deadlock is checked.

**`many_contracts`** (violation, `OutputsNameTheirInput`)

The inputs are 0, 256 and 257 distinct contracts, so the `u8` boundary is
crossed. With 257 contracts, output 256 names input 0.

**`statement_format`** (`MCStatementFormat.cfg`, pass, 45,725 states)

- Blocks hold up to three statements, numbered in source order:
  - lets whose pattern and expression each have one or two leaves, with and
    without `: Ty`;
  - items of one or two leaves;
  - expressions with and without `;`.
  That is every arm and every `if let` of the four functions, in every
  order of neighbours.
- `LeavesInSourceOrder`: at every point of both passes, the spans collected
  are exactly the source tokens of the statements handled so far, in order.
  The tokens written to `formatted_code` are the same sequence.
  - The comment pass places a comment between the two leaves around it, so a
    walk that disagrees with the other misplaces comments. That happens only
    for the statement shape where the two disagree.
  - It holds.
  - Seeded faults the run catches: `leaf_spans` pushing `: Ty` after `=`, and
    `format` writing an expression's absent `;` (`TypeOK`).
- The `Formatted` step stutters once both passes are over, so deadlock is
  checked.

## 4. Findings

1. **While-loop result tuple swapped** (`analyze_return_paths.rs:155`).
   - `depth_first_insertion_code_block` returns `(return_nodes, leaves)`, but
     the while arm binds it as `(l_leaves, inner_returns)`.
   - The body's last leaves are therefore wired to the function exit. The loop
     entry's first neighbour is then the exit, and the search stops at once.
   - As a result, `fn f() -> u64 { while c {} }` and the spec's
     `while false { return 1; }` are not flagged.
2. **Fallthrough after a final loop reported as Internal.** For
   `fn f() -> u64 { while c { x; } }` the spanless loop exit is a dead end, so
   the error is `Internal`, not "path does not return".
3. **Code after `return` flagged** (`:376`). A return leaves the leaf set
   unchanged, so in `{ return 1; x; }` the `x` is a flagged dead end.
4. **Dead ends re-reported.** There is no visited set, so a dead end reached in
   two rounds is reported twice.
5. **Nested fn errors land in the outer function.** A nested fn is wired from
   the outer leaves, so the outer search reports the inner body's dead ends.
6. **Same-named methods hide each other** (`:356`).
   - `insert_function` keys the namespace by bare name, so the second impl's
     `m` replaces the first's entry.
   - `impl T { fn m() -> u64 {} }` is therefore never analysed. The spec keeps
     one entry per function or method.
7. **Impl method parameters not validated** (`storage_only_types.rs:192`).
8. **An instruction can become its own operand** (`value.rs:109`, `:134`).
   - `replace_instruction_value` accepts the instruction itself as the new
     value, and `get_type` then recurses without end.
   - The spec only says operands are rewritten to "other existing Values".
9. **`mut` of a static function's first argument dropped**
   (`sway-parse/src/item/mod.rs:92`).
   - `FnArgs::parse_to_end` takes a leading `mut` as `mutable_self`, then finds
     no `self` and parses the rest as `Static`.
   - The binding becomes immutable, while `Pattern::parse` keeps `mut`
     everywhere else.
10. **`input_index` wraps at 256 contracts** (`forc_run.rs:158`).
    - `construct_output_from_contract` writes `idx as u8`. With 257
      `--contract` flags, output 256 names input 0: input 0 has two contract
      outputs and input 256 has none.
    - The code's comment calls this "probably safe", and nothing rejects the
      257th contract.
11. **Asm register initializers not validated** (`storage_only_types.rs:46`).
    `AsmExpression` sits among the no-op leaves, so a code block in a register
    initializer can declare a `StorageMap` variable without an error.
12. **Storage reassignment values not validated** (`storage_only_types.rs:234`).
    `StorageReassignment` is a no-op, so the value assigned to a storage field
    is never walked.

## 5. Not modelled

- **The formatter's other parts.** The formatter modules for patterns, types,
  expressions and items, the `Indent` rendering and the comment pass itself are
  outside `src/`. `statement.rs` is modelled up to the leaf tokens of those
  parts. Whitespace is three model values; the `Shape`'s indent width is not
  modelled.
- **The node, `FuelClient` and `forc_build`.** These lie outside the
  repository. The model's node answers every call; the code sets no timeout,
  so a node that never answers hangs `forc run`. That hazard has no property,
  since whether it can happen depends on the client.
- **`Value::get_instruction_mut`** hands a pass a mutable instruction. What a
  pass writes through it is the pass's code, outside `src/`. The arena only
  keeps the value an instruction.
- **The type engine.** `resolve_type` failing, which makes `check_type` panic
  at `storage_only_types.rs:120`, lies outside `src/`: in the models, types
  always resolve or fall back as the calling code says.
- **Parser detail outside `src/`.** Attributes, generics, where clauses, types
  and item bodies are single tokens. Names are not told apart.
  `TypeField::parse` (`item/mod.rs:75`) is reached only from the struct and
  enum parsers, which are outside `src/`. The attribute tests of `item/mod.rs`
  exercise the attribute parser, which is also outside `src/`.
- **`TypedFunctionParameter::is_self`** is a query on the name.
- **The rewrite of operands and an abstract arena contract.** The rewrite of
  every occurrence is `Instruction::replace_value`, outside `src/`;
  `value.rs` only picks out instructions. A property about it, or a
  refinement of the arena to an abstract contract, would check only the
  model's own rendering of that helper and the append-only shape of the
  arena. Metadata merging, the one part `value.rs` decides, is checked by
  `ProvenanceKept`.
- **`copy_types` against a monomorphic check.** `copy_types` is one
  `update_type` per parameter (outside `src/`). Comparing it with checking
  already-substituted parameters would restate that call.
- **The parser and the function-parameter check are not composed.** The parser
  abstracts names away, and shadowing needs them. The `mut` drop is shown at
  the parser alone.
