---------------------------- MODULE ReturnPaths ----------------------------
(***************************************************************************)
(* The return-path analysis of sway-core: the graph of CfgBuilder, then    *)
(* ControlFlowGraph::analyze_return_paths, which runs                      *)
(* ensure_all_paths_reach_exit for every entry of the function namespace   *)
(* (analyze_return_paths.rs).                                              *)
(*                                                                         *)
(* ensure_all_paths_reach_exit keeps a Vec of "rovers".  Each round of its *)
(* while loop is one Round step.  The Vec can hold the same node many      *)
(* times (parallel edges, paths that join); it is kept here without        *)
(* repetitions, in order of first occurrence.  This loses nothing the loop *)
(* reads: the first rover, which rovers are present and the order of their *)
(* first occurrences are the same, because a later copy of a rover has the *)
(* same neighbours as its first copy.  What it loses is how many times a   *)
(* dead end is reported within one round; errors is therefore a set, and   *)
(* dupError records that an error already reported was reported again in a *)
(* later round.                                                            *)
(*                                                                         *)
(* function_namespace is a HashMap: the order in which its entries are     *)
(* visited is unspecified, so the next function is chosen freely.          *)
(***************************************************************************)
EXTENDS CfgBuilder

CONSTANT MaxIterations   \* let mut max_iterations = 50

VARIABLES
    analyzed,   \* names of the namespace entries already visited
    cur,        \* the function being analyzed, or None
    rovers,     \* the rovers, without repetitions
    iters,      \* max_iterations
    errors,     \* the CompileErrors reported: [fn, kind, node]
    dupError    \* an error was reported a second time

vars == <<builderVars, analyzed, cur, rovers, iters, errors, dupError>>
analysisVars == <<analyzed, cur, rovers, iters, errors, dupError>>

-----------------------------------------------------------------------------
(* Helpers                                                                 *)

\* neighbors_directed(n, Outgoing): petgraph lists the targets of the
\* outgoing edges most recently added first, one per edge.
Neighbors(n) ==
    LET out == SelectSeq(edges, LAMBDA e : e[1] = n)
    IN [i \in 1..Len(out) |-> out[Len(out) + 1 - i][2]]

\* The sequence without repetitions, in order of first occurrence.
Dedup(s) ==
    LET firsts == {i \in DOMAIN s : \A j \in 1..(i - 1) : s[j] # s[i]}
        rank(i) == Cardinality({j \in firsts : j <= i})
    IN [k \in 1..Cardinality(firsts) |-> s[CHOOSE i \in firsts : rank(i) = k]]

\* last_discovered_span: ProgramNode and MethodDeclaration have a span.
HasSpan(n) == nodes[n].kind \in {"program", "method"}

ExitOf(f) == fnNs[f].exit

\* Seeded fault: the negation of is_unit() is lost.
DeadEndUnitOnly(r) == Neighbors(r) = <<>> /\ fnNs[cur].ret = "unit"

\* A rover with no outgoing neighbour in a function whose return type is
\* not unit.
DeadEnd(r) == Neighbors(r) = <<>> /\ fnNs[cur].ret # "unit"

\* The condition of the while loop of ensure_all_paths_reach_exit.
Searching ==
    /\ rovers # <<>>
    /\ rovers[1] # ExitOf(cur)
    /\ iters > 0

-----------------------------------------------------------------------------
(* Actions                                                                 *)

InitAnalysis ==
    /\ analyzed = {}
    /\ cur = None
    /\ rovers = <<>>
    /\ iters = 0
    /\ errors = {}
    /\ dupError = FALSE

\* analyze_return_paths takes the next namespace entry and
\* ensure_all_paths_reach_exit starts with the entry point as only rover.
StartFunction ==
    /\ phase = "built"
    /\ cur = None
    /\ \E f \in DOMAIN fnNs \ analyzed :
          /\ cur' = f
          /\ analyzed' = analyzed \cup {f}
          /\ rovers' = <<fnNs[f].entry>>
          /\ iters' = MaxIterations
    /\ UNCHANGED <<builderVars, errors, dupError>>

\* Seeded fault: max_iterations is never decremented.
RoundNoDecrement ==
    /\ phase = "built"
    /\ cur # None
    /\ Searching
    /\ LET live == SelectSeq(rovers, LAMBDA r : r # ExitOf(cur))
           stop == SelectInSeq(live, LAMBDA r : DeadEnd(r) /\ ~HasSpan(r))
           seen == IF stop = 0 THEN live ELSE SubSeq(live, 1, stop - 1)
           found == {[fn |-> cur, kind |-> "PathDoesNotReturn", node |-> seen[i]] :
                        i \in {j \in DOMAIN seen : DeadEnd(seen[j])}}
                    \cup (IF stop = 0 THEN {}
                          ELSE {[fn |-> cur, kind |-> "Internal", node |-> 0]})
       IN /\ errors' = errors \cup found
          /\ dupError' = (dupError \/ found \cap errors # {})
          /\ \/ /\ stop = 0
                /\ rovers' = Dedup(FlattenSeq([i \in DOMAIN live |-> Neighbors(live[i])]))
                /\ iters' = iters
                /\ UNCHANGED cur
             \/ /\ stop # 0
                /\ cur' = None
                /\ UNCHANGED <<rovers, iters>>
    /\ UNCHANGED <<builderVars, analyzed>>

\* One round of the loop: drop the rovers at the exit; for each remaining
\* rover in order report a dead end at its span, or, for a dead end without
\* a span, push an Internal error and return from the function at once;
\* the next rovers are the neighbours of all the remaining rovers.
Round ==
    /\ phase = "built"
    /\ cur # None
    /\ Searching
    /\ LET live == SelectSeq(rovers, LAMBDA r : r # ExitOf(cur))
           stop == SelectInSeq(live, LAMBDA r : DeadEnd(r) /\ ~HasSpan(r))
           seen == IF stop = 0 THEN live ELSE SubSeq(live, 1, stop - 1)
           found == {[fn |-> cur, kind |-> "PathDoesNotReturn", node |-> seen[i]] :
                        i \in {j \in DOMAIN seen : DeadEnd(seen[j])}}
                    \cup (IF stop = 0 THEN {}
                          ELSE {[fn |-> cur, kind |-> "Internal", node |-> 0]})
       IN /\ errors' = errors \cup found
          /\ dupError' = (dupError \/ found \cap errors # {})
          /\ \/ /\ stop = 0
                /\ rovers' = Dedup(FlattenSeq([i \in DOMAIN live |-> Neighbors(live[i])]))
                /\ iters' = iters - 1
                /\ UNCHANGED cur
             \/ /\ stop # 0
                /\ cur' = None
                /\ UNCHANGED <<rovers, iters>>
    /\ UNCHANGED <<builderVars, analyzed>>

\* The loop condition fails: ensure_all_paths_reach_exit returns its errors.
FinishFunction ==
    /\ phase = "built"
    /\ cur # None
    /\ ~Searching
    /\ cur' = None
    /\ UNCHANGED <<builderVars, analyzed, rovers, iters, errors, dupError>>

\* Every namespace entry has been visited.
AnalysisDone ==
    /\ phase = "built"
    /\ cur = None
    /\ analyzed = DOMAIN fnNs
    /\ phase' = "done"
    /\ UNCHANGED <<program, stack, nodes, edges, fnNs, traitNs, failure, analysisVars>>

\* The compilation has stopped: the analysis is done or the build failed.
Finished ==
    /\ phase \in {"done", "failed"}
    /\ UNCHANGED vars

-----------------------------------------------------------------------------
(* Specification                                                           *)

Init == BuildInit /\ InitAnalysis

Next ==
    \/ BuildNext /\ UNCHANGED analysisVars
    \/ StartFunction
    \/ Round
    \/ FinishFunction
    \/ AnalysisDone
    \/ Finished

\* The compiler is single-threaded and never waits: whenever a step of it
\* is possible it is eventually taken.
Spec == Init /\ [][Next]_vars /\ WF_vars(Next)

-----------------------------------------------------------------------------
(* Properties                                                              *)

TypeOK ==
    /\ phase \in {"build", "built", "failed", "done"}
    /\ nodes \in Seq([kind : NodeKinds, owner : Nat])
    /\ \A i \in DOMAIN edges : edges[i] \in (DOMAIN nodes) \X (DOMAIN nodes)
    /\ \A f \in DOMAIN fnNs :
          fnNs[f] \in [entry : DOMAIN nodes, exit : DOMAIN nodes, ret : {"unit", "u64"}]
    /\ cur \in DOMAIN fnNs \cup {None}
    /\ analyzed \subseteq DOMAIN fnNs
    /\ iters \in 0..MaxIterations
    /\ errors \subseteq [fn : DOMAIN fnNs, kind : {"PathDoesNotReturn", "Internal"},
                         node : DOMAIN nodes \cup {0}]
    /\ failure \in {None} \cup [kind : {"BreakOutsideLoop", "ContinueOutsideLoop"},
                                node : DOMAIN nodes]

\* The graph is built exactly when the program has no break or continue
\* outside a loop, and otherwise the build fails on the first such jump in
\* source order, with its kind (connect_declaration's Break/Continue arms
\* and the break/continue targets each caller passes down).
StructuralErrorExact ==
    /\ phase \in {"built", "done"} => StrayJump(program, FALSE) = ""
    /\ phase = "failed" =>
          failure.kind = IF StrayJump(program, FALSE) = "break"
                         THEN "BreakOutsideLoop" ELSE "ContinueOutsideLoop"

\* Every node of the graph that is not an organizational marker can be
\* reached from the entry of the function whose body it belongs to
\* (spec, data model invariants): the leaf sets threaded through
\* connect_node never lose a control point.
BuiltReachable ==
    phase = "built" /\ cur = None /\ analyzed = {} =>
        \A o \in {nodes[n].owner : n \in DOMAIN nodes} \ {0} :
            LET r == Reachable(o)
            IN \A n \in DOMAIN nodes :
                  nodes[n].owner = o /\ nodes[n].kind # "org" => n \in r

\* Every function with a non-unit return type whose body can fall off its
\* end without returning gets at least one error, for bodies without a
\* loop: the leaf sets of connect_node and the rover search of
\* ensure_all_paths_reach_exit agree on straight-line code and nested
\* declarations.
FallthroughFlaggedLoopFree ==
    phase = "done" =>
        \A d \in FnDecls(program) :
            ResolveReturnType(d.ret) # "unit" /\ ~HasStmt(d.body, "while") /\ FallsOffEnd(d.body)
                => \E e \in errors : e.fn = d.name

\* The same for every body, loops included (spec: the fallthrough after
\* while false { return 1; } must be flagged; a loop may run zero times).
FallthroughFlagged ==
    phase = "done" =>
        \A d \in FnDecls(program) :
            ResolveReturnType(d.ret) # "unit" /\ FallsOffEnd(d.body)
                => \E e \in errors : e.fn = d.name

\* The diagnostics are those of the analyzer's contract (spec 4.2 and its
\* testable properties), in five parts that different code paths break:
\* every function that can fall off its end gets an error (FallthroughFlagged);
\* a function whose every path returns gets no error; every error is a
\* path that does not return (Internal is reserved for a builder defect);
\* a dead end is reported once, however many rounds reach it; and an
\* error of a function is anchored in that function's own body (the rover
\* search never walks into the graph of a nested function).
DiagnosticsAsSpecified ==
    /\ FallthroughFlagged
    /\ phase = "done" =>
          \A d \in FnDecls(program) :
              ~FallsOffEnd(d.body) => \A e \in errors : e.fn # d.name
    /\ \A e \in errors : e.kind = "PathDoesNotReturn"
    /\ ~dupError
    /\ \A e \in errors :
          e.kind = "PathDoesNotReturn" =>
              e.node = fnNs[e.fn].entry \/ nodes[e.node].owner = fnNs[e.fn].entry

\* The analysis of every program terminates: the build fails or every
\* namespace entry is analyzed (the max_iterations bound on cyclic graphs).
Termination == <>(phase \in {"done", "failed"})

=============================================================================
