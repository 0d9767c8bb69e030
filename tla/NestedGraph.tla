------------------------------ MODULE NestedGraph -------------------------------
(***************************************************************************)
(* What a graph with mounted subgraphs promises, read off the declared      *)
(* graphs: a run is in one scope, the path of the mounts it is inside of,   *)
(* and has a set of active items of that scope's graph.  A mount is active  *)
(* alone; it is entered through the child's START edge and left, along its  *)
(* own transition, once nothing of the child is active.  END ends only the  *)
(* branch that selected it.                                                *)
(***************************************************************************)
EXTENDS StateGraph

VARIABLES
  tree,     \* the declared graph, with the declared graphs it mounts
  scope,    \* the mounts the run is inside of, outermost first
  active,   \* the items of the innermost graph that are to run
  restart   \* where a later call may start: {} or {[scope, active]}

vars == <<tree, scope, active, restart>>

Inner == DraftAt(tree, scope)

EntryItems(d) == Successors(d, START) \ {END}

(* The sets of items an item may be left for.                                *)
LeftFor(d, id) ==
  LET all == Successors(d, id) IN
  CASE id \in DOMAIN d.cond -> {{target} \ {END} : target \in all}
    [] id \in DOMAIN d.condFan -> {c \ {END} : c \in (SUBSET all) \ {{}}}
    [] OTHER -> {all \ {END}}

Init ==
  /\ scope = <<>> /\ restart = {}
  /\ active = EntryItems(tree)

(* The active nodes run together and each selects where its branch goes on.     *)
NodesRun ==
  /\ active # {} /\ active \cap Mounts(Inner) = {}
  /\ \E pick \in [active -> SUBSET Ids(Inner)] :
       /\ \A id \in active : pick[id] \in LeftFor(Inner, id)
       /\ active' = UNION {pick[id] : id \in active}
  /\ UNCHANGED <<tree, scope, restart>>

Enter ==
  /\ \E id \in Mounts(Inner) :
       /\ active = {id}
       /\ scope' = Append(scope, id)
       /\ active' = EntryItems(ItemOf(Inner, id).draft)
  /\ UNCHANGED <<tree, restart>>

Leave ==
  /\ active = {} /\ scope # <<>>
  /\ scope' = Front(scope)
  /\ active' \in LeftFor(DraftAt(tree, Front(scope)), Last(scope))
  /\ UNCHANGED <<tree, restart>>

Mark ==
  /\ restart' = {[scope |-> scope, active |-> active]}
  /\ UNCHANGED <<tree, scope, active>>

GoBack ==
  /\ \E c \in restart : scope' = c.scope /\ active' = c.active
  /\ UNCHANGED <<tree, restart>>

Next == NodesRun \/ Enter \/ Leave \/ Mark \/ GoBack

Spec == Init /\ [][Next]_vars

================================================================================
