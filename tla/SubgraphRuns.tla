------------------------------ MODULE SubgraphRuns ------------------------------
(***************************************************************************)
(* The frontiers of a run of a compiled graph with subgraphs: the routing   *)
(* half of execute_internal, normalize_frontier, resolve_transition and the *)
(* check of a saved frontier, crates/group-agent-core/src/runtime.rs.       *)
(*                                                                         *)
(* GraphRuntime models what the nodes of a frontier do; here they are one    *)
(* step, after which their routers read the new state.  Routers are          *)
(* functions of the state: until the state changes again an item's router    *)
(* gives the answer it gave before.                                        *)
(*                                                                         *)
(* Abstracted: SubgraphStarted and SubgraphCompleted are emitted after the   *)
(* save; here they take effect when normalize_frontier collects them, and    *)
(* open holds the scopes they leave open.  Only the last save is kept.       *)
(***************************************************************************)
EXTENDS StateGraph

CONSTANTS
  Library,      \* the programs that build graphs, those of mounted graphs first
  MaxSteps,     \* the budget of a call
  MaxRestarts   \* bound on the calls that start from the saved frontier

(* A program is a sequence of builder calls; what it mounts was compiled before.   *)
CallsOf(n) == UNION {ToSet(program) : program \in Library[n]}

Mountable(n) ==
  {Child(p) : p \in {q \in UNION {Library[m] : m \in 1..(n - 1)} : Accepts(Build(q))}}

ASSUME LibraryAssumption ==
  /\ MaxSteps \in Nat
  /\ Len(Library) \in Nat /\ DOMAIN Library = 1..Len(Library)
  /\ \A n \in DOMAIN Library :
       /\ \A program \in Library[n] : Len(program) \in Nat /\ DOMAIN program = 1..Len(program)
       /\ \A c \in CallsOf(n) :
            /\ c.call \in {"node", "subgraph", "edge"} \cup SingleKinds
            /\ c.call \in {"node", "subgraph"} => c.id \in STRING
            /\ c.call = "subgraph" => c.child \in Mountable(n)

VARIABLES
  draft, graph,  \* what was declared and what it compiled to
  pc,            \* "normalize", "boundary", "loop" or "done"
  frontier,      \* indices of compiled items
  answers,       \* item |-> what its router selected in this state
  steps,
  open,          \* scopes started and not completed
  saved,         \* {} or the last checkpoint's frontier, as paths
  restarts,
  result

vars == <<draft, graph, pc, frontier, answers, steps, open, saved, restarts, result>>

ItemAt(i) == graph.items[i]

(* A node's own graph, or the graph a mount is declared in.                   *)
GraphPathOf(i) == Front(ItemAt(i).path)

ScopesOf(path) == [n \in 1..Len(path) |-> SubSeq(path, 1, n)]

--------------------------------------------------------------------------------
(* Transitions.  Fault stands for a router that fails or answers with no, a    *)
(* repeated or an undeclared target.                                        *)

Fault == {"fault"}

RouterAnswers(i) ==
  LET t == ItemAt(i).next IN
  CASE t.shape = "cond" -> {{target} : target \in DOMAIN t.to} \cup {Fault}
    [] t.shape = "condFan" -> ((SUBSET DOMAIN t.to) \ {{}}) \cup {Fault}
    [] OTHER -> {DOMAIN t.to}

(* The answers of the routers of a set of items in the current state: old is    *)
(* what they have answered in this state already.                            *)
Answers(items, old) ==
  {a \in [items -> UNION {RouterAnswers(i) : i \in items}] :
     \A i \in items : /\ a[i] \in RouterAnswers(i)
                      /\ i \in DOMAIN old => a[i] = old[i]}

Faulty(a) == \E i \in DOMAIN a : a[i] = Fault

(* sort_unstable and dedup.                                                *)
Canonical(indices) ==
  CHOOSE f \in [1..Cardinality(indices) -> indices] :
    \A i, j \in DOMAIN f : i < j => f[i] < f[j]

TargetsOf(a) == UNION {{ItemAt(i).next.to[target] : target \in a[i]} : i \in DOMAIN a}

(* Mutant of OrExit: a finished child ends the run.                           *)
OrNothing(indices, scope) == Canonical(indices \ {0})

(* Mutant of OrExit: the first branch to end ends its siblings.                *)
OrExitAtFirstEnd(indices, scope) ==
  Canonical(IF 0 \in indices
            THEN {x.exit : x \in {y \in graph.exits : y.scope = scope}}
            ELSE indices)

(* When no branch goes on, a mounted scope is left through its exit.           *)
OrExit(indices, scope) ==
  Canonical(IF indices \subseteq {0}
            THEN {x.exit : x \in {y \in graph.exits : y.scope = scope}}
            ELSE indices \ {0})

--------------------------------------------------------------------------------
Init ==
  /\ \E n \in DOMAIN Library : \E calls \in Library[n] : draft = Build(calls)
  /\ Accepts(draft)
  /\ graph = Compile(draft)
  /\ pc = "normalize"
  /\ frontier = IF graph.entry = 0 THEN <<>> ELSE <<graph.entry>>
  /\ answers = <<>> /\ steps = 0 /\ open = <<>> /\ saved = {} /\ restarts = 0
  /\ result = "none"

Fail(reason) ==
  /\ pc' = "done" /\ result' = reason
  /\ UNCHANGED <<draft, graph, frontier, answers, steps, open, saved, restarts>>

(* normalize_frontier, one turn of its loop per step.                         *)
AtKind(kind) == pc = "normalize" /\ Len(frontier) = 1 /\ ItemAt(frontier[1]).kind = kind

EnterSubgraph ==
  LET i == frontier[1] IN
  /\ AtKind("enter")
  /\ open' = Append(open, ItemAt(i).scope)
  /\ frontier' = Canonical(TargetsOf([x \in {i} |-> DOMAIN ItemAt(i).next.to]) \ {0})
  /\ UNCHANGED <<draft, graph, pc, answers, steps, saved, restarts, result>>

(* Completed closes a scope wherever it is open: that it is always the innermost *)
(* is for a property to say.                                                *)
Close(scope) ==
  IF scope \notin ToSet(open) THEN open
  ELSE RemoveAt(open, CHOOSE n \in DOMAIN open : open[n] = scope)

ExitSubgraph ==
  LET i == frontier[1] IN
  /\ AtKind("exit")
  /\ \E a \in Answers({i}, answers) :
       IF Faulty(a) THEN Fail("RouteFailed")
       ELSE /\ answers' = a @@ answers
            /\ open' = Close(ItemAt(i).scope)
            /\ frontier' = OrExit(TargetsOf(a), GraphPathOf(i))
            /\ UNCHANGED <<draft, graph, pc, steps, saved, restarts, result>>

Stable ==
  /\ pc = "normalize"
  /\ ~ AtKind("enter") /\ ~ AtKind("exit")
  /\ pc' = "boundary"
  /\ UNCHANGED <<draft, graph, frontier, answers, steps, open, saved, restarts, result>>

(* A superstep ends by saving the next frontier; entering the graph saves none.  *)
PathsOf(f) == [k \in DOMAIN f |-> ItemAt(f[k]).path]

Boundary ==
  /\ pc = "boundary"
  /\ saved' = IF steps > 0 THEN {PathsOf(frontier)} ELSE saved
  /\ pc' = IF frontier = <<>> THEN "done" ELSE "loop"
  /\ result' = IF frontier = <<>> THEN "Completed" ELSE result
  /\ UNCHANGED <<draft, graph, frontier, answers, steps, open, restarts>>

(* Mutant of StepsAfter: a node that runs alone is not counted.                *)
StepsAfterParallel == IF Len(frontier) = 1 THEN steps ELSE steps + Len(frontier)

StepsAfter == steps + Len(frontier)

(* The nodes of the frontier run, their updates are applied and their routers    *)
(* select the next frontier.                                                *)
Superstep ==
  /\ pc = "loop"
  /\ IF StepsAfter > MaxSteps THEN Fail("MaxStepsExceeded")
     ELSE \E a \in Answers(ToSet(frontier), <<>>) :
            IF Faulty(a) THEN Fail("RouteFailed")
            ELSE /\ answers' = a
                 /\ steps' = StepsAfter
                 /\ frontier' = OrExit(TargetsOf(a), ItemAt(frontier[1]).scope)
                 /\ pc' = "normalize"
                 /\ UNCHANGED <<draft, graph, open, saved, restarts, result>>

--------------------------------------------------------------------------------
(* A later call starts from the saved frontier: resume, replay or fork.         *)

IndexOf(path) == {i \in DOMAIN graph.items : ItemAt(i).kind = "node" /\ ItemAt(i).path = path}

(* validate_and_resolve_checkpoint_frontier: known nodes, none twice, of one     *)
(* graph, in compiled order.                                                *)
FrontierAccepted(paths) ==
  /\ \A k \in DOMAIN paths : IndexOf(paths[k]) # {}
  /\ IsInjective(paths)
  /\ \A k \in DOMAIN paths : Front(paths[k]) = Front(paths[1])
  /\ \A k \in 1..(Len(paths) - 1) :
       \A i \in IndexOf(paths[k]) : \A j \in IndexOf(paths[k + 1]) : i <= j

Resolve(paths) == [k \in DOMAIN paths |-> CHOOSE i \in IndexOf(paths[k]) : TRUE]

(* SubgraphStarted for every scope around the frontier.                       *)
Reopened(path) == ScopesOf(path)

(* The earlier call may have been cut off anywhere, or have ended. The new one  *)
(* stands for a resume, a fork and a replay. A replay saves nothing, the model  *)
(* lets it: there are more frontiers to restart from than in the code.          *)
Restart ==
  /\ restarts < MaxRestarts
  /\ \E paths \in saved :
       /\ paths # <<>>
       /\ restarts' = restarts + 1
       /\ IF FrontierAccepted(paths)
          THEN /\ frontier' = Resolve(paths)
               /\ open' = Reopened(Front(paths[1]))
               /\ pc' = "loop" /\ result' = "none" /\ steps' = 0 /\ answers' = <<>>
               /\ UNCHANGED <<draft, graph, saved>>
          ELSE /\ pc' = "done" /\ result' = "Refused"
               /\ UNCHANGED <<draft, graph, frontier, answers, steps, open, saved>>

Run == EnterSubgraph \/ ExitSubgraph \/ Stable \/ Boundary \/ Superstep

Next == Run \/ Restart

Spec == Init /\ [][Next]_vars

(* The executor keeps polling the run; none of these steps awaits anything but   *)
(* nodes and the store, and those are taken to return.                        *)
FairSpec == Spec /\ WF_vars(Run)

--------------------------------------------------------------------------------
(* Properties.                                                             *)

(* However the routers answer, a frontier that leaves normalize_frontier holds  *)
(* nodes only, so node_at never meets a mount: compile's search over pairs of   *)
(* items finds every way a mount could come to run beside another item, though  *)
(* it never looks at frontiers of more than two.                             *)
FrontiersHoldNodes ==
  pc \in {"boundary", "loop"} =>
    \A k \in DOMAIN frontier : ItemAt(frontier[k]).kind = "node"

(* A frontier a run saves is one the same graph accepts and resolves to the      *)
(* items the run would have gone on with.                                    *)
SavedFrontiersResolve ==
  \A paths \in saved : paths # <<>> =>
    /\ FrontierAccepted(paths)
    /\ pc = "loop" => Resolve(paths) = frontier \/ steps = 0

(* Every frontier a run goes on with, or leaves for a restart, can be run.      *)
FrontiersRunnable == FrontiersHoldNodes /\ SavedFrontiersResolve

(* The scopes whose start was announced and whose completion was not are those   *)
(* around what runs next, outermost first: the boundaries nest, through empty,   *)
(* nested and looping mounts and across restarts, and none is open at the end.    *)
CurrentScope ==
  IF frontier = <<>> THEN <<>>
  ELSE IF ItemAt(frontier[1]).kind = "exit" THEN ItemAt(frontier[1]).scope
  ELSE GraphPathOf(frontier[1])

ScopesNest == result # "Refused" => open = ScopesOf(CurrentScope)

ActiveIds(paths) == {Last(paths[k]) : k \in DOMAIN paths}

(* The flattened graph runs as the nested declared graphs read: items, renumbered *)
(* and below their mounts' paths, are followed in the order NestedGraph allows.   *)
Nested == INSTANCE NestedGraph WITH
  tree <- draft,
  scope <- CurrentScope,
  active <- {Last(ItemAt(i).path) : i \in {j \in ToSet(frontier) : ItemAt(j).kind # "exit"}},
  restart <- {[scope |-> IF p = <<>> THEN <<>> ELSE Front(p[1]), active |-> ActiveIds(p)] : p \in saved}

ImplementsNestedGraph == Nested!Spec

(* Every run ends: loops are cut off by the step budget.                       *)
LoopsBounded == []<>(pc = "done")

================================================================================
