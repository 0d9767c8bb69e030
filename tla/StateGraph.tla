------------------------------- MODULE StateGraph -------------------------------
(***************************************************************************)
(* Building and compiling a graph: crates/group-agent-core/src/graph.rs.    *)
(*                                                                         *)
(* A draft is what the calls of an application have built: its items in     *)
(* the order of their registration and its edges by kind.  A refused call   *)
(* leaves the draft as it was.  Compiling validates the draft and flattens  *)
(* mounted graphs, which are already compiled, into one sequence of items:  *)
(* a mount becomes an item that enters the child and one that leaves it.    *)
(*                                                                         *)
(* Abstracted: a router is its whitelist; the errors of a refused call or   *)
(* compilation are not told apart; versions are left to DurableRuns.        *)
(***************************************************************************)
EXTENDS Naturals, FiniteSets, SequencesExt

START == "START"
END == "END"
Reserved == {START, END}

(* A compiled graph: items, the exit item of every mounted scope, and the     *)
(* entry (0: the graph is empty).                                           *)
NoGraph == [items |-> <<>>, exits |-> {}, entry |-> 0]

(* Edges that a source may have once: source |-> targets.                   *)
SingleKinds == {"fan", "cond", "condFan"}

NewDraft == [items |-> <<>>, fixed |-> <<>>,
             fan |-> <<>>, cond |-> <<>>, condFan |-> <<>>]

Ids(d) == {d.items[i].id : i \in DOMAIN d.items}

Mounts(d) == {d.items[i].id : i \in {j \in DOMAIN d.items : d.items[j].mount}}

ItemOf(d, id) == d.items[CHOOSE i \in DOMAIN d.items : d.items[i].id = id]

--------------------------------------------------------------------------------
(* The builder's calls.                                                    *)

InsertItem(d, item) ==
  IF item.id \in Reserved \cup Ids(d) THEN d
  ELSE [d EXCEPT !.items = Append(@, item)]

AddNode(d, id) ==
  InsertItem(d, [id |-> id, mount |-> FALSE, graph |-> NoGraph, draft |-> NewDraft])

(* draft is the text the child was compiled from: only properties look at it. *)
AddSubgraph(d, id, child) ==
  InsertItem(d, [id |-> id, mount |-> TRUE, graph |-> child.graph, draft |-> child.draft])

AddEdge(d, from, to) == [d EXCEPT !.fixed = Append(@, <<from, to>>)]

(* add_fan_out, add_conditional_edges and add_conditional_fan_out.           *)
AddTargets(d, kind, source, targets) ==
  IF source \in DOMAIN d[kind] \/ targets = <<>> \/ ~ IsInjective(targets) THEN d
  ELSE [d EXCEPT ![kind] = @ @@ (source :> targets)]

Call(d, c) ==
  CASE c.call = "node" -> AddNode(d, c.id)
    [] c.call = "subgraph" -> AddSubgraph(d, c.id, c.child)
    [] c.call = "edge" -> AddEdge(d, c.from, c.to)
    [] OTHER -> AddTargets(d, c.call, c.from, c.to)

Build(calls) ==
  LET draft[n \in 0..Len(calls)] == IF n = 0 THEN NewDraft ELSE Call(draft[n - 1], calls[n])
  IN draft[Len(calls)]

--------------------------------------------------------------------------------
(* Validation.                                                             *)

FixedFrom(d, id) == {i \in DOMAIN d.fixed : d.fixed[i][1] = id}

(* aggregate_edges.                                                        *)
EndpointsKnown(d) ==
  /\ \A i \in DOMAIN d.fixed :
       /\ d.fixed[i][1] \in Ids(d) \cup {START}
       /\ d.fixed[i][2] \in Ids(d) \cup {END}
  /\ \A kind \in SingleKinds : \A source \in DOMAIN d[kind] :
       /\ source \in Ids(d)
       /\ ToSet(d[kind][source]) \subseteq Ids(d) \cup {END}
       /\ kind = "condFan" => ToSet(d[kind][source]) \cap Mounts(d) = {}

KindsOf(d, id) ==
  {kind \in SingleKinds : id \in DOMAIN d[kind]}
  \cup (IF FixedFrom(d, id) = {} THEN {} ELSE {"fixed"})

(* validate_edge_shapes, and the outgoing edge validate_reachability wants.     *)
OneTransitionEach(d) ==
  /\ Cardinality(FixedFrom(d, START)) = 1
  /\ \A id \in Ids(d) : /\ Cardinality(FixedFrom(d, id)) <= 1
                        /\ Cardinality(KindsOf(d, id)) = 1

(* The targets an item may be left for, END included.                        *)
Successors(d, id) ==
  {d.fixed[i][2] : i \in FixedFrom(d, id)}
  \cup UNION {ToSet(d[kind][id]) : kind \in KindsOf(d, id) \ {"fixed"}}

(* validate_reachability: a depth-first search finds what rounds of steps do.  *)
Reachable(d) ==
  LET rounds[n \in 0..(Len(d.items) + 1)] ==
        IF n = 0 THEN {START}
        ELSE LET before == rounds[n - 1] IN
             before \cup UNION {Successors(d, id) : id \in before}
  IN rounds[Len(d.items) + 1]

AllReachable(d) == Ids(d) \cup {END} \subseteq Reachable(d)

(* transition_alternatives: a router chooses one of its targets, a fan-out is   *)
(* taken to select all of them.                                             *)
Alternatives(d, id) ==
  IF id \in DOMAIN d.cond
  THEN {{target} \ {END} : target \in ToSet(d.cond[id])}
  ELSE {Successors(d, id) \ {END}}

Pairs(ids) == {p \in SUBSET (ids \ {END}) : Cardinality(p) = 2}

(* Where the work list starts: the targets of one fan-out.                    *)
FanOutPairs(d) ==
  UNION {UNION {Pairs(ToSet(d[kind][source])) : source \in DOMAIN d[kind]} :
           kind \in {"fan", "condFan"}}

(* Mutant of CoScheduled: only the fan-outs themselves are looked at.          *)
CoScheduledAtOnce(d) == FanOutPairs(d)

(* The pairs that two alternatives of a queued pair bring into one frontier.   *)
PairsAfter(d, p) ==
  UNION {Pairs(UNION {choice[a] : a \in p}) :
           choice \in {c \in [p -> SUBSET Ids(d)] : \A a \in p : c[a] \in Alternatives(d, a)}}

(* What the work list has queued once it is empty: the least set of pairs that   *)
(* holds the fan-outs' and, with a pair, those after it.                       *)
CoScheduled(d) ==
  LET closed == {q \in SUBSET Pairs(Ids(d)) :
                   FanOutPairs(d) \subseteq q /\ \A p \in q : PairsAfter(d, p) \subseteq q}
  IN {p \in Pairs(Ids(d)) : \A q \in closed : p \in q}

(* validate_subgraph_frontiers: nothing runs beside a mount.                  *)
MountsRunAlone(d) == \A p \in CoScheduled(d) : p \cap Mounts(d) = {}

Accepts(d) ==
  /\ EndpointsKnown(d) /\ OneTransitionEach(d) /\ AllReachable(d)
  /\ Mounts(d) # {} => MountsRunAlone(d)

--------------------------------------------------------------------------------
(* Flattening.                                                             *)

(* An index of an item in its own graph, where a mount takes two places.       *)
OwnIndex(d, i) == i + Cardinality({j \in 1..(i - 1) : d.items[j].mount})

OwnSize(d) == OwnIndex(d, Len(d.items) + 1) - 1

EntryOf(d, id) ==
  IF id = END THEN 0
  ELSE OwnIndex(d, CHOOSE i \in DOMAIN d.items : d.items[i].id = id)

(* Where the items of the i-th item's child begin, less one.                  *)
ChildBase(d, i) ==
  LET base[k \in 1..(Len(d.items) + 1)] ==
        IF k = 1 THEN OwnSize(d) ELSE base[k - 1] + Len(d.items[k - 1].graph.items)
  IN base[i]

(* A compiled transition: its shape, and the index of every target.           *)
Transition(shape, to) == [shape |-> shape, to |-> to]

CompileTransition(d, id) ==
  Transition(CHOOSE kind \in KindsOf(d, id) : TRUE,
             [target \in Successors(d, id) |-> EntryOf(d, target)])

Shift(index, base) == IF index = 0 THEN 0 ELSE index + base

Remap(t, base) == [t EXCEPT !.to = [target \in DOMAIN @ |-> Shift(@[target], base)]]

(* append_graph: the child's items, renumbered and below the mount's path.      *)
AppendGraph(g, prefix, base) ==
  [items |-> [k \in DOMAIN g.items |->
                [g.items[k] EXCEPT !.scope = prefix \o @, !.path = prefix \o @,
                                   !.next = Remap(@, base)]],
   exits |-> {[scope |-> prefix \o x.scope, exit |-> x.exit + base] : x \in g.exits}]

(* An empty child is left as soon as it is entered.                           *)
EnterTarget(child, base, exit) ==
  IF child.entry = 0 THEN exit ELSE child.entry + base

(* The items a declared item contributes: path names the node or the mount,      *)
(* scope the graph it belongs to or, for a mount's two items, the child.        *)
OwnItems(d, i) ==
  LET item == d.items[i]
      next == CompileTransition(d, item.id)
      exit == OwnIndex(d, i) + 1
      enter == EnterTarget(item.graph, ChildBase(d, i), exit)
      Item(kind, scope, t) ==
        [kind |-> kind, path |-> <<item.id>>, scope |-> scope, next |-> t]
  IN IF item.mount
     THEN <<Item("enter", <<item.id>>, Transition("fixed", [target \in {item.id} |-> enter])),
            Item("exit", <<item.id>>, next)>>
     ELSE <<Item("node", <<>>, next)>>

ChildOf(d, i) == AppendGraph(d.items[i].graph, <<d.items[i].id>>, ChildBase(d, i))

Flatten(d) ==
  [items |-> FlattenSeq([i \in DOMAIN d.items |-> OwnItems(d, i)])
             \o FlattenSeq([i \in DOMAIN d.items |-> ChildOf(d, i).items]),
   exits |-> {[scope |-> <<d.items[i].id>>, exit |-> OwnIndex(d, i) + 1] :
                i \in {j \in DOMAIN d.items : d.items[j].mount}}
             \cup UNION {ChildOf(d, i).exits : i \in DOMAIN d.items},
   entry |-> EntryOf(d, d.fixed[CHOOSE i \in FixedFrom(d, START) : TRUE][2])]

Compile(d) == Flatten(d)

(* The draft that a path of mounts leads to.                                 *)
DraftAt(d, path) ==
  LET at[n \in 0..Len(path)] == IF n = 0 THEN d ELSE ItemOf(at[n - 1], path[n]).draft
  IN at[Len(path)]

(* What an application mounts.                                              *)
Child(calls) == [graph |-> Compile(Build(calls)), draft |-> Build(calls)]

================================================================================
