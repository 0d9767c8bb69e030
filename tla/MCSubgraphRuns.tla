----------------------------- MODULE MCSubgraphRuns -----------------------------
(***************************************************************************)
(* Applications for TLC: a root graph of two nodes and a mount, with every  *)
(* combination of a few transitions, over children that are empty, loop,    *)
(* fan out or mount others themselves; some calls are refused.              *)
(***************************************************************************)
EXTENDS SubgraphRuns

Node(id) == [call |-> "node", id |-> id]
Mount(id, child) == [call |-> "subgraph", id |-> id, child |-> child]
Edge(from, to) == [call |-> "edge", from |-> from, to |-> to]
Targets(kind, from, to) == [call |-> kind, from |-> from, to |-> to]

Empty == <<Edge(START, END)>>

Loop ==
  <<Node("w"), Edge(START, "w"), Targets("cond", "w", <<"w", END>>)>>

Fan ==
  <<Node("c"), Node("l"), Node("r"), Edge(START, "c"),
    Targets("condFan", "c", <<"r", "l", END>>), Edge("l", END), Edge("r", END)>>

(* A mount whose last item is an empty mount, so that two scopes end at once.   *)
Deep ==
  <<Mount("f", Child(Fan)), Mount("e", Child(Empty)),
    Edge(START, "f"), Targets("cond", "f", <<"e", END>>), Edge("e", END)>>

(* A node that only reaches the mount later is what the search for pairs is for. *)
OfFirst ==
  {Edge("a", "m"), Targets("fan", "a", <<"b", "a">>), Targets("fan", "a", <<"m", "b">>),
   Targets("fan", "a", <<"b", END>>), Targets("condFan", "a", <<"b", "a", END>>)}

OfSecond ==
  {Edge("b", END), Edge("b", "m"), Targets("cond", "b", <<"m", "a">>),
   Targets("cond", "b", <<"b", END>>)}

OfMount ==
  {Edge("m", END), Edge("m", "a"), Targets("fan", "m", <<"b", "a">>),
   Targets("cond", "m", <<"b", END>>)}

Looping == {Edge("m", "m"), Targets("cond", "m", <<"m", "b", END>>)}

Roots(children, ofMount) ==
  {<<Node("a"), Mount("m", Child(child)), Node("b"), Node("a"), Edge(START, entry), x, y, z>> :
     child \in children, entry \in {"a", "m"},
     x \in OfFirst, y \in OfSecond, z \in ofMount}

(* Drafts with the faults compile looks for, and a call the builder refuses.    *)
Odd ==
  {<<Node("a"), Edge(START, "a"), Edge("a", "z")>>,
   <<Node("a"), Edge(START, "a"), Edge("a", END), Targets("fan", "a", <<"a", END>>)>>,
   <<Node("a"), Node("b"), Edge(START, "a"), Edge("a", END), Edge("b", END)>>,
   <<Node("a"), Edge(START, "a"), Edge("a", "a")>>,
   <<Node("a"), Mount("m", Child(Fan)), Edge(START, "a"), Edge("m", END),
     Targets("condFan", "a", <<"m", END>>)>>,
   <<Node(END), Edge(START, END)>>,
   <<Mount("m", Child(Deep)), Mount("m", Child(Fan)), Edge(START, "m"), Edge("m", END)>>,
   <<Node("a"), Edge(START, "a"), Targets("fan", "a", <<"a", "a">>),
     Targets("cond", "a", <<"a", END>>), Targets("cond", "a", <<END>>)>>}

(* Mounts in a loop have a child that runs a node.                            *)
BoundedLibrary ==
  <<{Empty, Loop, Fan}, {Deep},
    Roots({Empty, Loop, Fan, Deep}, OfMount) \cup Roots({Loop}, Looping) \cup Odd>>

(* The mount in the loop is empty.                                           *)
EmptyLoops == <<{Empty}, Roots({Empty}, Looping)>>

================================================================================
