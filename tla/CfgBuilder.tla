----------------------------- MODULE CfgBuilder -----------------------------
(***************************************************************************)
(* The return-path control-flow graph builder of sway-core:                *)
(* ControlFlowGraph::construct_return_path_graph and the functions it      *)
(* calls (connect_node, connect_declaration, connect_impl_trait,           *)
(* connect_typed_fn_decl, depth_first_insertion_code_block) in             *)
(* src/sway-core/src/control_flow_analysis/analyze_return_paths.rs.        *)
(*                                                                         *)
(* The recursion of the code is an explicit stack of frames.  A block      *)
(* frame is one activation of depth_first_insertion_code_block (or the     *)
(* module-level loop): the statements still to connect, the current leaf   *)
(* set, the return nodes collected so far and the break/continue targets.  *)
(* Its ctx says which caller resumes when the block ends: the module loop  *)
(* ("top"), the while-loop arm of connect_node ("while") or                *)
(* connect_typed_fn_decl ("fn").  An impl frame is one activation of       *)
(* connect_impl_trait.  Each action is one arm of connect_node or          *)
(* connect_declaration, or the code that runs after a recursive call       *)
(* returns.                                                                *)
(*                                                                         *)
(* Graph nodes are 1..Len(nodes), numbered in the order graph.add_node     *)
(* creates them; edges is the sequence of graph.add_edge calls, so the     *)
(* order and multiplicity of parallel edges are kept (the analyzer's       *)
(* neighbour order depends on them).  A node's kind is what                *)
(* ControlFlowGraphNode variant it is: a ProgramNode or MethodDeclaration  *)
(* carries a span, an OrganizationalDominator (loop exit, fn exit) does    *)
(* not.  The field owner is a ghost: the entry node of the function whose  *)
(* body created the node (0 at module level).                              *)
(***************************************************************************)
EXTENDS Naturals, Sequences, SequencesExt, FiniteSets, TLC, TypedAst

CONSTANTS
    Programs,   \* the typed module node sequences the builder is given
    None        \* Option::None for break_to_node / continue_to_node

VARIABLES
    program,    \* the module nodes being compiled (never changes)
    phase,      \* "build", then "built" or "failed" (later phases: ReturnPaths)
    stack,      \* the activations of the recursive builder, innermost last
    nodes,      \* graph nodes: [kind, owner]
    edges,      \* graph edges <<from, to>> in insertion order
    fnNs,       \* namespace.function_namespace: name -> FunctionNamespaceEntry
    traitNs,    \* namespace.trait_namespace: trait -> set of <<method, node>>
    failure     \* the CompileError of a failed build, or None

builderVars == <<program, phase, stack, nodes, edges, fnNs, traitNs, failure>>

NodeKinds == {"program", "method", "org"}

-----------------------------------------------------------------------------
(* Helpers                                                                 *)

Top == stack[Len(stack)]
Cur == Head(Top.stmts)
NewNode == Len(nodes) + 1
SetTop(f) == [stack EXCEPT ![Len(stack)] = f]

\* One add_edge(leaf, n) per current leaf, in leaf order.
EdgesFrom(ls, n) == [i \in 1..Len(ls) |-> <<ls[i], n>>]

\* Seeded fault: the unresolved return type is kept as it is.
ResolveReturnTypeKept(t) == t

\* resolve_type(..).unwrap_or_else(|_| TypeInfo::Tuple(Vec::new())):
\* an unresolved return type becomes unit.
ResolveReturnType(t) == IF t = "unresolved" THEN "unit" ELSE t

\* A block activation of depth_first_insertion_code_block.
BlockFrame(stmts, leaves, brk, cont, owner, ctx, entry, exit, name, ret) ==
    [t |-> "block", stmts |-> stmts, leaves |-> leaves, rets |-> <<>>,
     brk |-> brk, cont |-> cont, owner |-> owner, ctx |-> ctx,
     entry |-> entry, exit |-> exit, name |-> name, ret |-> ret]

\* The next statement of the innermost block is of kind k.
NextIs(k) ==
    /\ phase = "build"
    /\ Top.t = "block"
    /\ Top.stmts # <<>>
    /\ Cur.k = k

-----------------------------------------------------------------------------
(* Initial state: construct_return_path_graph starts with an empty graph   *)
(* and an empty leaf set, no break/continue target.                        *)

BuildInit ==
    /\ program \in Programs
    /\ phase = "build"
    /\ stack = << BlockFrame(program, <<>>, None, None, 0, "top", 0, 0, "", "unit") >>
    /\ nodes = <<>>
    /\ edges = <<>>
    /\ fnNs = [x \in {} |-> 0]
    /\ traitNs = [x \in {} |-> {}]
    /\ failure = None

-----------------------------------------------------------------------------
(* Actions: the arms of connect_node / connect_declaration                 *)

\* ReturnStatement | ImplicitReturnExpression: a node wired from every leaf,
\* reported as a return; the caller keeps its leaves.
ConnectReturn ==
    /\ NextIs("ret")
    /\ nodes' = Append(nodes, [kind |-> "program", owner |-> Top.owner])
    /\ edges' = edges \o EdgesFrom(Top.leaves, NewNode)
    /\ stack' = SetTop([Top EXCEPT !.stmts = Tail(@), !.rets = Append(@, NewNode)])
    /\ UNCHANGED <<program, phase, fnNs, traitNs, failure>>

\* Seeded fault: the loop body is connected without break/continue targets.
ConnectWhileNoTargets ==
    /\ NextIs("while")
    /\ LET w == NewNode
           x == NewNode + 1
       IN /\ nodes' = nodes \o << [kind |-> "program", owner |-> Top.owner],
                                  [kind |-> "org", owner |-> Top.owner] >>
          /\ edges' = edges \o EdgesFrom(Top.leaves, w) \o << <<w, x>> >>
          /\ stack' = Append(SetTop([Top EXCEPT !.stmts = Tail(@)]),
                             BlockFrame(Cur.body, <<w>>, None, None, Top.owner,
                                        "while", w, x, "", "unit"))
    /\ UNCHANGED <<program, phase, fnNs, traitNs, failure>>

\* WhileLoop: entry and exit nodes, leaves -> entry, entry -> exit, then the
\* body is connected with break -> exit and continue -> entry.
ConnectWhile ==
    /\ NextIs("while")
    /\ LET w == NewNode
           x == NewNode + 1
       IN /\ nodes' = nodes \o << [kind |-> "program", owner |-> Top.owner],
                                  [kind |-> "org", owner |-> Top.owner] >>
          /\ edges' = edges \o EdgesFrom(Top.leaves, w) \o << <<w, x>> >>
          /\ stack' = Append(SetTop([Top EXCEPT !.stmts = Tail(@)]),
                             BlockFrame(Cur.body, <<w>>, x, w, Top.owner,
                                        "while", w, x, "", "unit"))
    /\ UNCHANGED <<program, phase, fnNs, traitNs, failure>>

\* Expression, and the declarations VariableDeclaration, ConstantDeclaration,
\* Reassignment and StorageReassignment: one node that becomes the only leaf.
ConnectStep ==
    /\ NextIs("expr")
    /\ nodes' = Append(nodes, [kind |-> "program", owner |-> Top.owner])
    /\ edges' = edges \o EdgesFrom(Top.leaves, NewNode)
    /\ stack' = SetTop([Top EXCEPT !.stmts = Tail(@), !.leaves = <<NewNode>>])
    /\ UNCHANGED <<program, phase, fnNs, traitNs, failure>>

\* SideEffect, the structural declarations (trait, abi, struct, enum,
\* storage, generic type) and ErrorRecovery: the leaves pass through.
ConnectPassThrough ==
    /\ NextIs("pass")
    /\ stack' = SetTop([Top EXCEPT !.stmts = Tail(@)])
    /\ UNCHANGED <<program, phase, nodes, edges, fnNs, traitNs, failure>>

\* Seeded fault: the function body starts from no leaf instead of its entry.
ConnectFnDeclNoEntryLeaf ==
    /\ NextIs("fn")
    /\ LET d == NewNode
           e == NewNode + 1
       IN /\ nodes' = nodes \o << [kind |-> "program", owner |-> Top.owner],
                                  [kind |-> "org", owner |-> d] >>
          /\ edges' = edges \o EdgesFrom(Top.leaves, d)
          /\ stack' = Append(SetTop([Top EXCEPT !.stmts = Tail(@)]),
                             BlockFrame(Cur.body, <<>>, None, None, d,
                                        "fn", d, e, Cur.name, Cur.ret))
    /\ UNCHANGED <<program, phase, fnNs, traitNs, failure>>

\* FunctionDeclaration: a node wired from the leaves, which are returned
\* unchanged; connect_typed_fn_decl adds the fn exit node and connects the
\* body from the declaration node with no break/continue target.
ConnectFnDecl ==
    /\ NextIs("fn")
    /\ LET d == NewNode
           e == NewNode + 1
       IN /\ nodes' = nodes \o << [kind |-> "program", owner |-> Top.owner],
                                  [kind |-> "org", owner |-> d] >>
          /\ edges' = edges \o EdgesFrom(Top.leaves, d)
          /\ stack' = Append(SetTop([Top EXCEPT !.stmts = Tail(@)]),
                             BlockFrame(Cur.body, <<d>>, None, None, d,
                                        "fn", d, e, Cur.name, Cur.ret))
    /\ UNCHANGED <<program, phase, fnNs, traitNs, failure>>

\* ImplTrait: a node wired from the leaves, which are returned unchanged;
\* connect_impl_trait then connects the methods one by one.
ConnectImplTrait ==
    /\ NextIs("impl")
    /\ nodes' = Append(nodes, [kind |-> "program", owner |-> Top.owner])
    /\ edges' = edges \o EdgesFrom(Top.leaves, NewNode)
    /\ stack' = Append(SetTop([Top EXCEPT !.stmts = Tail(@)]),
                       [t |-> "impl", node |-> NewNode, methods |-> Cur.body,
                        acc |-> {}, trait |-> Cur.name, owner |-> Top.owner])
    /\ UNCHANGED <<program, phase, fnNs, traitNs, failure>>

\* Break / Continue: a node wired from the leaves, then an edge to the
\* target, which becomes the only leaf; without a target the whole build
\* fails with BreakOutsideLoop / ContinueOutsideLoop at the statement.
ConnectJump(k, target, err) ==
    /\ NextIs(k)
    /\ nodes' = Append(nodes, [kind |-> "program", owner |-> Top.owner])
    /\ \/ /\ target # None
          /\ edges' = edges \o EdgesFrom(Top.leaves, NewNode) \o << <<NewNode, target>> >>
          /\ stack' = SetTop([Top EXCEPT !.stmts = Tail(@), !.leaves = <<target>>])
          /\ UNCHANGED <<phase, failure>>
       \/ /\ target = None
          /\ edges' = edges \o EdgesFrom(Top.leaves, NewNode)
          /\ phase' = "failed"
          /\ failure' = [kind |-> err, node |-> NewNode]
          /\ UNCHANGED stack
    /\ UNCHANGED <<program, fnNs, traitNs>>

ConnectBreak == ConnectJump("break", Top.brk, "BreakOutsideLoop")
ConnectContinue == ConnectJump("continue", Top.cont, "ContinueOutsideLoop")

-----------------------------------------------------------------------------
(* Actions: the code that runs when a recursive call returns               *)

\* connect_impl_trait, one loop iteration: a MethodDeclaration node, an
\* edge from the impl node, then connect_typed_fn_decl for the method.
ImplMethod ==
    /\ phase = "build"
    /\ Top.t = "impl"
    /\ Top.methods # <<>>
    /\ LET m == NewNode
           e == NewNode + 1
           fd == Head(Top.methods)
       IN /\ nodes' = nodes \o << [kind |-> "method", owner |-> Top.owner],
                                  [kind |-> "org", owner |-> m] >>
          /\ edges' = Append(edges, <<Top.node, m>>)
          /\ stack' = Append(SetTop([Top EXCEPT !.methods = Tail(@),
                                                !.acc = @ \cup {<<fd.name, m>>}]),
                             BlockFrame(fd.body, <<m>>, None, None, m,
                                        "fn", m, e, fd.name, fd.ret))
    /\ UNCHANGED <<program, phase, fnNs, traitNs, failure>>

\* connect_impl_trait after the loop: insert_trait_methods adds the
\* (method, node) pairs under the trait.
ImplEnd ==
    /\ phase = "build"
    /\ Top.t = "impl"
    /\ Top.methods = <<>>
    /\ traitNs' = [t \in DOMAIN traitNs \cup {Top.trait} |->
                     (IF t \in DOMAIN traitNs THEN traitNs[t] ELSE {})
                     \cup (IF t = Top.trait THEN Top.acc ELSE {})]
    /\ stack' = Front(stack)
    /\ UNCHANGED <<program, phase, nodes, edges, fnNs, failure>>

\* The body of a block has no statement left.
BlockDone(ctx) ==
    /\ phase = "build"
    /\ Top.t = "block"
    /\ Top.stmts = <<>>
    /\ Top.ctx = ctx

\* The while-loop arm after its body.  The code binds the result of
\* depth_first_insertion_code_block, which is (return_nodes, leaves), as
\* (l_leaves, inner_returns): the body's return nodes get the "loop
\* repeats" edges to the entry and then edges to the exit, and the body's
\* final leaves are passed up as return nodes.  The loop exit becomes the
\* only leaf.
WhileBodyDone ==
    /\ BlockDone("while")
    /\ LET body == Top
           parent == stack[Len(stack) - 1]
       IN /\ edges' = edges \o EdgesFrom(body.rets, body.entry)
                            \o EdgesFrom(body.rets, body.exit)
          /\ stack' = [Front(stack) EXCEPT ![Len(stack) - 1] =
                          [parent EXCEPT !.leaves = <<body.exit>>,
                                         !.rets = @ \o body.leaves]]
    /\ UNCHANGED <<program, phase, nodes, fnNs, traitNs, failure>>

\* connect_typed_fn_decl after the body: an edge from every return node to
\* the fn exit, then insert_function(name, entry) into the namespace.
FnBodyDone ==
    /\ BlockDone("fn")
    /\ edges' = edges \o EdgesFrom(Top.rets, Top.exit)
    /\ fnNs' = (Top.name :> [entry |-> Top.entry, exit |-> Top.exit,
                             ret |-> ResolveReturnType(Top.ret)]) @@ fnNs
    /\ stack' = Front(stack)
    /\ UNCHANGED <<program, phase, nodes, traitNs, failure>>

\* construct_return_path_graph after its loop: Ok(graph).
ModuleDone ==
    /\ BlockDone("top")
    /\ phase' = "built"
    /\ stack' = <<>>
    /\ UNCHANGED <<program, nodes, edges, fnNs, traitNs, failure>>

BuildNext ==
    \/ ConnectReturn
    \/ ConnectWhile
    \/ ConnectStep
    \/ ConnectPassThrough
    \/ ConnectFnDecl
    \/ ConnectImplTrait
    \/ ConnectBreak
    \/ ConnectContinue
    \/ ImplMethod
    \/ ImplEnd
    \/ WhileBodyDone
    \/ FnBodyDone
    \/ ModuleDone

-----------------------------------------------------------------------------
(* Graph queries                                                           *)

\* Nodes reachable from the set of nodes vs (vs included).
RECURSIVE ReachFrom(_, _)
ReachFrom(vs, seen) ==
    LET next == {edges[i][2] : i \in {j \in DOMAIN edges : edges[j][1] \in vs}} \ seen
    IN IF next = {} THEN seen ELSE ReachFrom(next, seen \cup next)

Reachable(n) == ReachFrom({n}, {n})

=============================================================================
