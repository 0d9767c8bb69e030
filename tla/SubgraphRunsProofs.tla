--------------------------- MODULE SubgraphRunsProofs ---------------------------
(***************************************************************************)
(* Proofs about SubgraphRuns, for every library of graphs that mount one    *)
(* another, however deep, every graph compile accepts of it, every answer   *)
(* of the routers and any budget.                                          *)
(*                                                                         *)
(* The argument.  A run relies on its graph being WellFormed: transitions   *)
(* stay in their graph, a mounted graph has one exit, paths name nodes, and *)
(* some relation between nodes of one graph (Beside) holds the pairs that   *)
(* may share a frontier and is closed under what their routers select.      *)
(* With that, a frontier of pairwise companions is followed by one, and     *)
(* the scopes that are open are those around it (RunInv).                   *)
(*                                                                         *)
(* That compile's graphs are well-formed is an induction over mounts.  The  *)
(* relation of a graph is what compile's search over pairs has found in its *)
(* draft (CoScheduled), together with the relations of its children, moved  *)
(* to where their items lie (MayMeet): pairs are enough, however wide the   *)
(* frontiers are.  The builder keeps a draft good (GoodDraft), compiling a  *)
(* good and accepted draft gives a well-formed graph (CompiledWellFormed),  *)
(* and a library mounts only what it compiled before (LibraryGood).         *)
(*                                                                         *)
(* That a run implements NestedGraph needs more than well-formedness: the   *)
(* compiled graph has to say what the declared graphs say.  Mirrors states  *)
(* it for every path of mounts: an item lies where the path leads, and its  *)
(* transition selects the items that its draft names.  It is shown along    *)
(* the same induction over mounts, and then carried through each step.      *)
(***************************************************************************)
EXTENDS SubgraphRuns, FiniteSetTheorems, SequenceTheorems, WellFoundedInduction, TLAPS

--------------------------------------------------------------------------------
(* Compiled graphs.                                                        *)

(* The path of an item: never empty.                                         *)
Paths == Seq(STRING) \ {<<>>}

Shapes == SingleKinds \cup {"fixed"}

(* What a transition may select in a graph of n items; 0 is END.             *)
Targets(n) == UNION {[D -> 0..n] : D \in SUBSET (STRING \cup {END})}

CompiledItems(n) ==
  [kind : {"node", "enter", "exit"}, path : Paths, scope : Seq(STRING),
   next : [shape : Shapes, to : Targets(n)]]

(* The types of a compiled graph.                                            *)
Typed(g) ==
  /\ g.items \in Seq(CompiledItems(Len(g.items)))
  /\ g.entry \in 0..Len(g.items)
  /\ g.exits \subseteq [scope : Paths, exit : 1..Len(g.items)]

(* The graph an item is a part of.                                           *)
Home(g, i) == Front(g.items[i].path)

(* A node's scope is its graph; a mount's two items have the mount's own.    *)
Placed(g) ==
  \A i \in 1..Len(g.items) :
    g.items[i].scope = IF g.items[i].kind = "node" THEN Home(g, i) ELSE g.items[i].path

(* A transition stays in its graph; entering a mount leads into the child or to   *)
(* the mount's exit.                                                        *)
Confined(g) ==
  /\ g.entry # 0 => g.items[g.entry].kind # "exit" /\ Home(g, g.entry) = <<>>
  /\ \A i \in 1..Len(g.items) : LET to == g.items[i].next.to IN
       /\ g.items[i].kind # "enter" =>
            \A t \in DOMAIN to : to[t] # 0 =>
              g.items[to[t]].kind # "exit" /\ Home(g, to[t]) = Home(g, i)
       /\ g.items[i].kind = "enter" =>
            \E j \in 1..Len(g.items) :
              /\ \E t \in STRING : to = [s \in {t} |-> j]
              /\ IF g.items[j].kind = "exit" THEN g.items[j].path = g.items[i].path
                 ELSE Home(g, j) = g.items[i].path

(* A mounted graph has one exit.                                             *)
Exited(g) ==
  /\ \A x \in g.exits : g.items[x.exit].kind = "exit" /\ g.items[x.exit].path = x.scope
  /\ \A x, y \in g.exits : x.scope = y.scope => x = y
  /\ \A i \in 1..Len(g.items) : Home(g, i) # <<>> => \E x \in g.exits : x.scope = Home(g, i)

(* A path names one node: what resolving a saved frontier relies on.         *)
Named(g) ==
  \A i, j \in 1..Len(g.items) :
    g.items[i].kind = "node" /\ g.items[j].kind = "node" /\ g.items[i].path = g.items[j].path
      => i = j

(* Pairs of items that may run in one frontier: nodes of one graph, closed under  *)
(* what their transitions select.                                            *)
Beside(g, co) ==
  /\ \A p \in co :
       /\ g.items[p[1]].kind = "node" /\ g.items[p[2]].kind = "node"
       /\ Home(g, p[1]) = Home(g, p[2])
       /\ LET one == g.items[p[1]].next.to
              two == g.items[p[2]].next.to
          IN \A t \in DOMAIN one, u \in DOMAIN two :
               one[t] # 0 /\ two[u] # 0 /\ one[t] # two[u] => <<one[t], two[u]>> \in co
  /\ \A i \in 1..Len(g.items) : LET to == g.items[i].next.to IN
       \A t, u \in DOMAIN to : to[t] # 0 /\ to[u] # 0 /\ to[t] # to[u] =>
         /\ g.items[i].next.shape # "fixed"
         /\ g.items[i].next.shape # "cond" => <<to[t], to[u]>> \in co

PairsOf(g) == (1..Len(g.items)) \X (1..Len(g.items))

(* What a run relies on of its graph, whatever it was compiled from.         *)
WellFormed(g) ==
  /\ Typed(g) /\ Placed(g) /\ Confined(g) /\ Exited(g) /\ Named(g)
  /\ \E co \in SUBSET PairsOf(g) : Beside(g, co)

(* One such relation.                                                        *)
Company(g) == CHOOSE co \in SUBSET PairsOf(g) : Beside(g, co)

--------------------------------------------------------------------------------
(* Runs.                                                                   *)

(* A frontier, of items that may be there together.                            *)
Onward(f) ==
  /\ f \in Seq(1..Len(graph.items))
  /\ \A k, l \in 1..Len(f) : k < l => f[k] < f[l]
  /\ \A k, l \in 1..Len(f) : k # l => <<f[k], f[l]>> \in Company(graph)

NodesOnly(f) == \A k \in 1..Len(f) : ItemAt(f[k]).kind = "node"

(* The inductive invariant of a run.                                         *)
RunInv ==
  /\ WellFormed(graph)
  /\ pc \in {"normalize", "boundary", "loop", "done"}
  /\ steps \in Nat
  /\ Onward(frontier)
  /\ pc \in {"boundary", "loop"} => NodesOnly(frontier)
  /\ pc = "loop" => frontier # <<>>
  /\ result # "Refused"
  /\ open = ScopesOf(CurrentScope)
  /\ saved = {} \/ \E h : Onward(h) /\ NodesOnly(h) /\ saved = {PathsOf(h)}
  /\ pc = "loop" /\ steps > 0 => saved = {PathsOf(frontier)}

--------------------------------------------------------------------------------
(* Scopes.                                                                 *)

(* The prefixes of a sequence.                                               *)
LEMMA PrefixIs ==
  ASSUME NEW S, NEW s \in Seq(S), NEW n \in 0..Len(s)
  PROVE  /\ SubSeq(s, 1, n) \in Seq(S) /\ Len(SubSeq(s, 1, n)) = n
         /\ \A k \in 1..n : SubSeq(s, 1, n)[k] = s[k]
<1>1. Len(s) \in Nat /\ \A i \in 1..n : s[i] \in S
  BY LenProperties
<1> QED BY <1>1, SubSeqProperties

(* A path and the graph it lies in.                                          *)
LEMMA FrontIs ==
  ASSUME NEW p \in Paths
  PROVE  /\ Front(p) \in Seq(STRING) /\ Len(p) \in Nat \ {0} /\ Len(Front(p)) = Len(p) - 1
         /\ \A n \in 1..(Len(p) - 1) : Front(p)[n] = p[n]
         /\ \A n \in 1..(Len(p) - 1) : SubSeq(Front(p), 1, n) = SubSeq(p, 1, n)
         /\ SubSeq(p, 1, Len(p)) = p
<1>1. p \in Seq(STRING) /\ p # <<>> /\ Len(p) \in Nat /\ Len(p) # 0
  BY EmptySeq DEF Paths
<1>2. /\ Front(p) \in Seq(STRING) /\ Len(Front(p)) = Len(p) - 1
      /\ \A n \in 1..(Len(p) - 1) : Front(p)[n] = p[n]
  <2>1. Len(p) - 1 \in 0..Len(p)
    BY <1>1
  <2> QED BY <1>1, <2>1, PrefixIs DEF Front
<1>3. ASSUME NEW n \in 1..(Len(p) - 1) PROVE SubSeq(Front(p), 1, n) = SubSeq(p, 1, n)
  <2>1. n \in 0..Len(p) /\ n \in 0..Len(Front(p))
    BY <1>1, <1>2
  <2>2. /\ SubSeq(p, 1, n) \in Seq(STRING) /\ Len(SubSeq(p, 1, n)) = n
        /\ \A k \in 1..n : SubSeq(p, 1, n)[k] = p[k]
    BY <1>1, <2>1, PrefixIs
  <2>3. /\ SubSeq(Front(p), 1, n) \in Seq(STRING) /\ Len(SubSeq(Front(p), 1, n)) = n
        /\ \A k \in 1..n : SubSeq(Front(p), 1, n)[k] = Front(p)[k]
    BY <1>2, <2>1, PrefixIs
  <2>4. \A k \in 1..n : SubSeq(Front(p), 1, n)[k] = SubSeq(p, 1, n)[k]
    BY <1>1, <1>2, <2>2, <2>3
  <2> QED BY <2>2, <2>3, <2>4, SeqEqual
<1>4. SubSeq(p, 1, Len(p)) = p
  BY <1>1, SubSeqFull
<1> QED BY <1>1, <1>2, <1>3, <1>4

(* One scope more.                                                          *)
LEMMA ScopesGrow ==
  ASSUME NEW p \in Paths
  PROVE  /\ Append(ScopesOf(Front(p)), p) = ScopesOf(p)
         /\ ScopesOf(p) \in Seq(Seq(STRING)) /\ Len(ScopesOf(p)) = Len(p)
         /\ ScopesOf(p)[Len(p)] = p
         /\ \A n \in 1..Len(p) : ScopesOf(p)[n] = p => n = Len(p)
         /\ SubSeq(ScopesOf(p), 1, Len(p) - 1) = ScopesOf(Front(p))
<1>1. /\ p \in Seq(STRING) /\ Front(p) \in Seq(STRING) /\ Len(p) \in Nat /\ Len(p) # 0
      /\ Len(Front(p)) = Len(p) - 1
      /\ \A n \in 1..(Len(p) - 1) : SubSeq(Front(p), 1, n) = SubSeq(p, 1, n)
      /\ SubSeq(p, 1, Len(p)) = p
  BY FrontIs DEF Paths
<1> DEFINE outer == ScopesOf(Front(p))
           inner == ScopesOf(p)
<1>2. /\ outer \in Seq(Seq(STRING)) /\ Len(outer) = Len(p) - 1
      /\ \A n \in 1..(Len(p) - 1) : outer[n] = SubSeq(p, 1, n)
  <2>1. \A n \in 1..(Len(p) - 1) : SubSeq(p, 1, n) \in Seq(STRING)
    BY <1>1
  <2>2. outer = [n \in 1..(Len(p) - 1) |-> SubSeq(p, 1, n)]
    BY <1>1 DEF ScopesOf
  <2> QED BY <2>1, <2>2, <1>1
<1>3. /\ inner \in Seq(Seq(STRING)) /\ Len(inner) = Len(p)
      /\ \A n \in 1..Len(p) : inner[n] = SubSeq(p, 1, n)
  <2>1. \A n \in 1..Len(p) : SubSeq(p, 1, n) \in Seq(STRING)
    BY <1>1
  <2>2. inner = [n \in 1..Len(p) |-> SubSeq(p, 1, n)]
    BY DEF ScopesOf
  <2> QED BY <2>1, <2>2, <1>1
<1> HIDE DEF outer, inner
<1>4. Append(outer, p) = inner
  <2> DEFINE more == Append(outer, p)
  <2>1. /\ more \in Seq(Seq(STRING)) /\ Len(more) = Len(p)
        /\ \A n \in 1..(Len(p) - 1) : more[n] = outer[n]
        /\ more[Len(p)] = p
    BY <1>1, <1>2, AppendProperties
  <2> HIDE DEF more
  <2>2. ASSUME NEW n \in 1..Len(p) PROVE more[n] = inner[n]
    <3>1. CASE n = Len(p)
      BY <3>1, <2>1, <1>1, <1>3
    <3>2. CASE n # Len(p)
      <4>1. n \in 1..(Len(p) - 1)
        BY <3>2, <1>1
      <4> QED BY <4>1, <2>1, <1>2, <1>3
    <3> QED BY <3>1, <3>2
  <2>3. more = inner
    BY <2>1, <2>2, <1>3, SeqEqual
  <2> QED BY <2>3 DEF more
<1>5. inner[Len(p)] = p
  BY <1>1, <1>3
<1>6. ASSUME NEW n \in 1..Len(p), inner[n] = p PROVE n = Len(p)
  <2>1. Len(SubSeq(p, 1, n)) = n
    BY <1>1, PrefixIs
  <2> QED BY <2>1, <1>3, <1>6
<1>7. SubSeq(inner, 1, Len(p) - 1) = outer
  <2> DEFINE less == SubSeq(inner, 1, Len(p) - 1)
  <2>1. /\ less \in Seq(Seq(STRING)) /\ Len(less) = Len(p) - 1
        /\ \A n \in 1..(Len(p) - 1) : less[n] = inner[n]
    <3>1. Len(p) - 1 \in 0..Len(inner)
      BY <1>1, <1>3
    <3> QED BY <3>1, <1>3, PrefixIs
  <2> HIDE DEF less
  <2>2. ASSUME NEW n \in 1..(Len(p) - 1) PROVE less[n] = outer[n]
    <3>1. n \in 1..Len(p)
      BY <1>1
    <3> QED BY <3>1, <1>2, <1>3, <2>1
  <2>3. less = outer
    BY <2>1, <2>2, <1>2, SeqEqual
  <2> QED BY <2>3 DEF less
<1> QED BY <1>3, <1>4, <1>5, <1>6, <1>7 DEF outer, inner

(* The innermost scope is the one that closes.                                 *)
LEMMA ScopesShrink ==
  ASSUME NEW p \in Paths, open = ScopesOf(p)
  PROVE  Close(p) = ScopesOf(Front(p))
<1> DEFINE s == ScopesOf(p)
<1>1. /\ s \in Seq(Seq(STRING)) /\ Len(s) = Len(p) /\ s[Len(p)] = p /\ Len(p) \in Nat \ {0}
      /\ \A n \in 1..Len(p) : s[n] = p => n = Len(p)
      /\ SubSeq(s, 1, Len(p) - 1) = ScopesOf(Front(p))
  BY ScopesGrow, FrontIs
<1> HIDE DEF s
<1>2. p \in ToSet(s) /\ (CHOOSE n \in DOMAIN s : s[n] = p) = Len(p)
  <2>1. DOMAIN s = 1..Len(p) /\ Len(p) \in 1..Len(p)
    BY <1>1
  <2> QED BY <2>1, <1>1 DEF ToSet
<1>3. Close(p) = RemoveAt(s, Len(p))
  BY <1>2 DEF Close, s
<1>4. SubSeq(s, Len(p) + 1, Len(s)) = <<>>
  BY <1>1, SubSeqEmpty
<1>5. SubSeq(s, 1, Len(p) - 1) \in Seq(Seq(STRING))
  BY <1>1, PrefixIs
<1>6. SubSeq(s, 1, Len(p) - 1) \o <<>> = SubSeq(s, 1, Len(p) - 1)
  BY <1>5, ConcatEmptySeq
<1> QED BY <1>1, <1>3, <1>4, <1>6 DEF RemoveAt

--------------------------------------------------------------------------------
(* Increasing sequences.                                                    *)

(* Every set of naturals that is not empty has a least element.             *)
LEMMA LeastNumber ==
  ASSUME NEW S \in SUBSET Nat, S # {}
  PROVE  \E m \in S : \A k \in S : m <= k
<1>1. \E R : IsWellFoundedOn(R, Nat) /\ \A x, y \in Nat : x < y => <<x, y>> \in R
  <2>1. \A x, y \in Nat : x < y => <<x, y>> \in OpToRel(<, Nat)
    BY DEF OpToRel
  <2>2. IsWellFoundedOn(OpToRel(<, Nat), Nat)
    BY NatLessThanWellFounded
  <2> HIDE DEF OpToRel
  <2> QED BY <2>1, <2>2, Zenon
<1>2. PICK R : IsWellFoundedOn(R, Nat) /\ \A x, y \in Nat : x < y => <<x, y>> \in R
  BY <1>1
<1>3. PICK m \in S : \A k \in S : ~ (<<k, m>> \in R)
  <2>1. S \subseteq Nat
    OBVIOUS
  <2>2. IsWellFoundedOn(R, Nat)
    BY <1>2
  <2>3. \E m \in S : \A k \in S : ~ (<<k, m>> \in R)
    BY <2>1, <2>2, WFMin, ZenonT(30)
  <2> QED BY <2>3
<1>4. ASSUME NEW k \in S PROVE m <= k
  <2>1. m \in Nat /\ k \in Nat
    OBVIOUS
  <2>2. ~ (k < m)
    BY <2>1, <1>2, <1>3, Zenon
  <2> QED BY <2>1, <2>2
<1> QED BY <1>4

(* A sequence that lists f in increasing order.                               *)
Sorts(s, f) ==
  /\ s \in [1..Cardinality(f) -> f]
  /\ \A i, j \in 1..Cardinality(f) : i < j => s[i] < s[j]

(* Every finite set of numbers can be sorted: otherwise take a smallest one that   *)
(* cannot, and put its least element before the others.                        *)
LEMMA SortedExists ==
  ASSUME NEW f \in SUBSET Nat, IsFiniteSet(f)
  PROVE  \E s : Sorts(s, f)
<1> DEFINE Bad == {n \in Nat : \E g \in SUBSET Nat : /\ IsFiniteSet(g) /\ Cardinality(g) = n
                                                      /\ ~ \E s : Sorts(s, g)}
<1> SUFFICES ASSUME Bad # {} PROVE FALSE
  <2>1. Cardinality(f) \in Nat
    BY FS_CardinalityType
  <2> QED BY <2>1
<1>1. PICK n \in Bad : \A k \in Bad : n <= k
  <2>1. Bad \in SUBSET Nat
    OBVIOUS
  <2> HIDE DEF Bad
  <2> QED BY <2>1, LeastNumber
<1>2. PICK g \in SUBSET Nat : IsFiniteSet(g) /\ Cardinality(g) = n /\ ~ \E s : Sorts(s, g)
  OBVIOUS
<1>3. g # {}
  <2>1. Cardinality({}) = 0
    BY FS_EmptySet
  <2>2. [i \in 1..0 |-> 0] \in [1..0 -> {}] /\ ~ \E i \in 1..0 : TRUE
    OBVIOUS
  <2>3. Sorts([i \in 1..0 |-> 0], {})
    BY <2>1, <2>2 DEF Sorts
  <2> QED BY <1>2, <2>3
<1>4. PICK m \in g : \A k \in g : m <= k
  BY <1>3, LeastNumber
<1>5. /\ IsFiniteSet(g \ {m}) /\ Cardinality(g \ {m}) = n - 1 /\ n - 1 \in Nat
  <2>1. IsFiniteSet(g \ {m}) /\ Cardinality(g \ {m}) = Cardinality(g) - 1
    BY <1>2, FS_RemoveElement
  <2>2. Cardinality(g \ {m}) \in Nat
    BY <2>1, FS_CardinalityType
  <2> QED BY <1>2, <2>1, <2>2
<1>6. PICK s : Sorts(s, g \ {m})
  <2>1. n - 1 \notin Bad
    BY <1>1, <1>5
  <2> QED BY <2>1, <1>5
<1> DEFINE h == [i \in 1..n |-> IF i = 1 THEN m ELSE s[i - 1]]
<1>7. /\ s \in [1..(n - 1) -> g \ {m}]
      /\ \A i, j \in 1..(n - 1) : i < j => s[i] < s[j]
  BY <1>5, <1>6 DEF Sorts
<1>8. \A i \in 1..n : i # 1 => i - 1 \in 1..(n - 1)
  BY <1>5
<1>9. h \in [1..n -> g]
  BY <1>7, <1>8
<1>10. ASSUME NEW i \in 1..n, NEW j \in 1..n, i < j PROVE h[i] < h[j]
  <2>1. j # 1 /\ h[j] = s[j - 1] /\ s[j - 1] \in g \ {m}
    BY <1>7, <1>8, <1>10
  <2>2. CASE i = 1
    <3>1. h[i] = m /\ m <= s[j - 1] /\ m # s[j - 1] /\ m \in Nat /\ s[j - 1] \in Nat
      BY <2>1, <2>2, <1>4, <1>5
    <3> HIDE DEF h
    <3> QED BY <2>1, <3>1
  <2>3. CASE i # 1
    <3>1. h[i] = s[i - 1] /\ i - 1 < j - 1 /\ i - 1 \in 1..(n - 1) /\ j - 1 \in 1..(n - 1)
      BY <2>1, <2>3, <1>8, <1>10
    <3> QED BY <2>1, <3>1, <1>7
  <2> QED BY <2>2, <2>3
<1> HIDE DEF h
<1>11. Sorts(h, g)
  BY <1>2, <1>9, <1>10 DEF Sorts
<1> QED BY <1>2, <1>11

(* Canonical lists its set in increasing order, without repetition.          *)
LEMMA CanonicalIs ==
  ASSUME NEW n \in Nat, NEW S \in SUBSET (0..n)
  PROVE  /\ Canonical(S) \in Seq(S)
         /\ \A k, l \in 1..Len(Canonical(S)) : k < l => Canonical(S)[k] < Canonical(S)[l]
         /\ S = {} => Canonical(S) = <<>>
         /\ S # {} => Canonical(S) # <<>>
         /\ \A x : S = {x} => Canonical(S) = <<x>>
<1>1. IsFiniteSet(S) /\ Cardinality(S) \in Nat /\ S \in SUBSET Nat
  <2>1. IsFiniteSet(0..n)
    BY FS_Interval
  <2>2. IsFiniteSet(S)
    BY <2>1, FS_Subset
  <2> QED BY <2>2, FS_CardinalityType
<1>2. PICK s : Sorts(s, S)
  BY <1>1, SortedExists
<1>3. /\ s \in [1..Cardinality(S) -> S]
      /\ \A i, j \in DOMAIN s : i < j => s[i] < s[j]
  BY <1>2 DEF Sorts
<1> DEFINE c == Canonical(S)
<1>4. /\ c \in [1..Cardinality(S) -> S]
      /\ \A i, j \in DOMAIN c : i < j => c[i] < c[j]
  BY <1>3 DEF Canonical
<1> HIDE DEF c
<1>5. c \in Seq(S) /\ Len(c) = Cardinality(S) /\ DOMAIN c = 1..Cardinality(S)
  BY <1>1, <1>4
<1>6. S = {} <=> Cardinality(S) = 0
  BY <1>1, FS_EmptySet
<1>7. S = {} => c = <<>>
  BY <1>5, <1>6
<1>8. S # {} => c # <<>>
  <2>1. Len(c) # 0 => c # <<>>
    BY <1>5
  <2> QED BY <2>1, <1>5, <1>6
<1>9. ASSUME NEW x, S = {x} PROVE c = <<x>>
  <2>1. Cardinality(S) = 1
    BY <1>9, FS_Singleton
  <2>2. c \in [1..1 -> {x}]
    BY <2>1, <1>4, <1>9
  <2>3. c = [k \in 1..1 |-> x]
    BY <2>2
  <2> QED BY <2>3
<1> QED BY <1>4, <1>5, <1>7, <1>8, <1>9 DEF c

--------------------------------------------------------------------------------
(* Routing.                                                                *)

(* A well-formed graph has such a relation.                                  *)
LEMMA CompanyIs ==
  ASSUME NEW g, WellFormed(g)
  PROVE  Company(g) \in SUBSET PairsOf(g) /\ Beside(g, Company(g))
BY DEF WellFormed, Company

(* The types of an item's parts.                                             *)
LEMMA ItemIs ==
  ASSUME NEW g, Typed(g), NEW i \in 1..Len(g.items)
  PROVE  /\ Len(g.items) \in Nat
         /\ g.items[i].kind \in {"node", "enter", "exit"} /\ g.items[i].path \in Paths
         /\ g.items[i].scope \in Seq(STRING) /\ g.items[i].next.shape \in Shapes
         /\ \A t \in DOMAIN g.items[i].next.to : g.items[i].next.to[t] \in 0..Len(g.items)
         /\ Home(g, i) \in Seq(STRING)
<1>1. g.items \in Seq(CompiledItems(Len(g.items)))
  BY DEF Typed
<1>2. Len(g.items) \in Nat /\ g.items[i] \in CompiledItems(Len(g.items))
  BY <1>1
<1>3. g.items[i].path \in Paths
  BY <1>2 DEF CompiledItems
<1>4. Home(g, i) \in Seq(STRING)
  BY <1>3, FrontIs DEF Home
<1>5. g.items[i].next.to \in Targets(Len(g.items))
  BY <1>2 DEF CompiledItems
<1>6. \A t \in DOMAIN g.items[i].next.to : g.items[i].next.to[t] \in 0..Len(g.items)
  BY <1>5 DEF Targets
<1> QED BY <1>2, <1>3, <1>4, <1>6 DEF CompiledItems

(* What an answer that is not a fault selects.                                *)
LEMMA AnswerIs ==
  ASSUME NEW items, NEW old, NEW a \in Answers(items, old), ~ Faulty(a)
  PROVE  /\ DOMAIN a = items
         /\ \A i \in items : /\ a[i] \subseteq DOMAIN ItemAt(i).next.to
                             /\ ItemAt(i).next.shape = "cond" => \A t, u \in a[i] : t = u
<1>1. DOMAIN a = items /\ \A i \in items : a[i] \in RouterAnswers(i)
  BY DEF Answers
<1>2. ASSUME NEW i \in items
      PROVE  /\ a[i] \subseteq DOMAIN ItemAt(i).next.to
             /\ ItemAt(i).next.shape = "cond" => \A t, u \in a[i] : t = u
  <2>1. a[i] # Fault /\ a[i] \in RouterAnswers(i)
    BY <1>1 DEF Faulty
  <2> QED BY <2>1 DEF RouterAnswers
<1> QED BY <1>1, <1>2

(* The items selected together stay in the graph and may run together.           *)
Together(targets, home) ==
  /\ targets \in SUBSET (0..Len(graph.items))
  /\ \A x \in targets : x # 0 => ItemAt(x).kind # "exit" /\ Home(graph, x) = home
  /\ \A x, y \in targets : x # 0 /\ y # 0 /\ x # y => <<x, y>> \in Company(graph)

(* What the routers of a frontier select may run together, in the same graph.*)
LEMMA Selected ==
  ASSUME WellFormed(graph), NEW items \in SUBSET (1..Len(graph.items)), NEW home,
         \A i \in items : ItemAt(i).kind # "enter" /\ Home(graph, i) = home,
         \A i, j \in items : i # j => <<i, j>> \in Company(graph),
         NEW old, NEW a \in Answers(items, old), ~ Faulty(a)
  PROVE  Together(TargetsOf(a), home)
<1>1. /\ DOMAIN a = items
      /\ \A i \in items : /\ a[i] \subseteq DOMAIN ItemAt(i).next.to
                          /\ ItemAt(i).next.shape = "cond" => \A t, u \in a[i] : t = u
  BY AnswerIs
<1>2. \A x \in TargetsOf(a) : \E i \in items : \E t \in a[i] : x = ItemAt(i).next.to[t]
  BY <1>1 DEF TargetsOf
<1>3. Typed(graph) /\ Confined(graph) /\ Beside(graph, Company(graph))
  BY CompanyIs DEF WellFormed
<1>4. ASSUME NEW i \in items, NEW t \in a[i]
      PROVE  /\ t \in DOMAIN ItemAt(i).next.to
             /\ ItemAt(i).next.to[t] \in 0..Len(graph.items)
             /\ ItemAt(i).next.to[t] # 0 =>
                  /\ ItemAt(ItemAt(i).next.to[t]).kind # "exit"
                  /\ Home(graph, ItemAt(i).next.to[t]) = home
  <2>1. t \in DOMAIN ItemAt(i).next.to /\ ItemAt(i).next.to[t] \in 0..Len(graph.items)
    BY <1>1, <1>3, ItemIs DEF ItemAt
  <2> QED BY <2>1, <1>3 DEF Confined, ItemAt
<1>5. ASSUME NEW x \in TargetsOf(a), NEW y \in TargetsOf(a), x # 0, y # 0, x # y
      PROVE  <<x, y>> \in Company(graph)
  <2>6. PICK i \in items : \E t \in a[i] : x = ItemAt(i).next.to[t]
    BY <1>2
  <2>7. PICK j \in items : \E u \in a[j] : y = ItemAt(j).next.to[u]
    BY <1>2
  <2>1. PICK t \in a[i] : x = ItemAt(i).next.to[t]
    BY <2>6
  <2>2. PICK u \in a[j] : y = ItemAt(j).next.to[u]
    BY <2>7
  <2>3. t \in DOMAIN ItemAt(i).next.to /\ u \in DOMAIN ItemAt(j).next.to
    BY <1>4
  <2>4. CASE i # j
    <3>1. <<i, j>> \in Company(graph)
      BY <2>4
    <3>2. \A p \in Company(graph) :
            LET one == graph.items[p[1]].next.to
                two == graph.items[p[2]].next.to
            IN \A s \in DOMAIN one, v \in DOMAIN two :
                 one[s] # 0 /\ two[v] # 0 /\ one[s] # two[v] => <<one[s], two[v]>> \in Company(graph)
      BY <1>3 DEF Beside
    <3> QED BY <3>1, <3>2, <2>1, <2>2, <2>3, <1>5 DEF ItemAt
  <2>5. CASE i = j
    <3>1. ItemAt(i).next.shape \in Shapes
      BY <1>3, ItemIs DEF ItemAt
    <3>2. ItemAt(i).next.shape # "cond"
      BY <1>1, <2>1, <2>2, <2>5, <1>5
    <3>3. LET to == graph.items[i].next.to IN
          \A s, v \in DOMAIN to : to[s] # 0 /\ to[v] # 0 /\ to[s] # to[v] =>
            /\ graph.items[i].next.shape # "fixed"
            /\ graph.items[i].next.shape # "cond" => <<to[s], to[v]>> \in Company(graph)
      BY <1>3 DEF Beside
    <3> QED BY <3>1, <3>2, <3>3, <2>1, <2>2, <2>3, <2>5, <1>5 DEF ItemAt, Shapes
  <2> QED BY <2>4, <2>5
<1> QED BY <1>2, <1>4, <1>5 DEF Together

(* The scope of what runs next, as CurrentScope tells it.                        *)
ScopeOf(f) ==
  IF f = <<>> THEN <<>>
  ELSE IF ItemAt(f[1]).kind = "exit" THEN ItemAt(f[1]).scope
  ELSE Home(graph, f[1])

(* An item alone is a frontier.                                              *)
LEMMA SingleOnward ==
  ASSUME NEW i \in 1..Len(graph.items)
  PROVE  Onward(<<i>>)
BY DEF Onward

(* So is none at all.                                                        *)
LEMMA EmptyOnward == Onward(<<>>) /\ ScopeOf(<<>>) = <<>>
BY DEF Onward, ScopeOf

(* Where a finished frontier or a left mount leads is a frontier of the same graph, *)
(* or that graph's exit.                                                     *)
LEMMA Proceeds ==
  ASSUME WellFormed(graph), NEW home \in Seq(STRING), NEW targets, Together(targets, home),
         home # <<>> => \E i \in 1..Len(graph.items) : Home(graph, i) = home
  PROVE  Onward(OrExit(targets, home)) /\ ScopeOf(OrExit(targets, home)) = home
<1> DEFINE n == Len(graph.items)
<1>1. n \in Nat /\ Typed(graph) /\ Exited(graph) /\ Placed(graph)
  BY DEF WellFormed, Typed
<1>2. CASE targets \subseteq {0}
  <2> DEFINE ways == {y \in graph.exits : y.scope = home}
  <2>1. OrExit(targets, home) = Canonical({x.exit : x \in ways})
    BY <1>2 DEF OrExit
  <2>2. CASE home = <<>>
    <3>1. ways = {}
      BY <2>2, <1>1 DEF Typed, Paths
    <3>2. {x.exit : x \in ways} = {} /\ {} \in SUBSET (0..n)
      BY <3>1
    <3>3. Canonical({}) = <<>>
      BY <1>1, <3>2, CanonicalIs
    <3> QED BY <2>1, <2>2, <3>2, <3>3, EmptyOnward
  <2>3. CASE home # <<>>
    <3>1. PICK x \in graph.exits : x.scope = home
      BY <2>3, <1>1 DEF Exited
    <3>2. ways = {x}
      BY <3>1, <1>1 DEF Exited
    <3>3. x.exit \in 1..n /\ ItemAt(x.exit).kind = "exit" /\ ItemAt(x.exit).path = home
      BY <3>1, <1>1 DEF Typed, Exited, ItemAt
    <3>4. {y.exit : y \in ways} = {x.exit} /\ {x.exit} \in SUBSET (0..n)
      BY <3>2, <3>3
    <3>5. Canonical({x.exit}) = <<x.exit>>
      BY <1>1, <3>4, CanonicalIs
    <3>6. ItemAt(x.exit).scope = home
      BY <3>3, <1>1 DEF Placed, ItemAt
    <3>7. ScopeOf(<<x.exit>>) = home
      BY <3>3, <3>6 DEF ScopeOf
    <3> QED BY <2>1, <3>3, <3>4, <3>5, <3>7, SingleOnward
  <2> QED BY <2>2, <2>3
<1>3. CASE ~ (targets \subseteq {0})
  <2> DEFINE S == targets \ {0}
             f == Canonical(S)
  <2>1. OrExit(targets, home) = f
    BY <1>3 DEF OrExit
  <2>2. S \in SUBSET (0..n) /\ S # {}
    BY <1>3 DEF Together
  <2>3. /\ f \in Seq(S) /\ f # <<>>
        /\ \A k, l \in 1..Len(f) : k < l => f[k] < f[l]
    BY <1>1, <2>2, CanonicalIs
  <2> HIDE DEF f
  <2>4. Len(f) \in Nat /\ Len(f) # 0 /\ \A k \in 1..Len(f) : f[k] \in S
    BY <2>3, EmptySeq
  <2>5. f \in Seq(1..n)
    <3>1. S \subseteq 1..n
      BY <2>2
    <3> QED BY <2>3, <3>1
  <2>6. ASSUME NEW k \in 1..Len(f), NEW l \in 1..Len(f), k # l
        PROVE  <<f[k], f[l]>> \in Company(graph)
    <3>1. f[k] \in Nat /\ f[l] \in Nat /\ f[k] \in S /\ f[l] \in S
      BY <2>4, <2>2
    <3>2. f[k] # f[l]
      BY <3>1, <2>3, <2>4, <2>6
    <3> QED BY <3>1, <3>2 DEF Together
  <2>7. Onward(f)
    BY <2>3, <2>5, <2>6 DEF Onward
  <2>8. ScopeOf(f) = home
    <3>1. f[1] \in S
      BY <2>4
    <3> QED BY <3>1, <2>3 DEF Together, ScopeOf
  <2> QED BY <2>1, <2>7, <2>8
<1> QED BY <1>2, <1>3

--------------------------------------------------------------------------------
(* Saved frontiers.                                                         *)

(* The paths of a frontier of nodes lead back to it.                           *)
LEMMA PathsResolve ==
  ASSUME WellFormed(graph), NEW h, Onward(h), NodesOnly(h), h # <<>>
  PROVE  /\ FrontierAccepted(PathsOf(h)) /\ Resolve(PathsOf(h)) = h
         /\ PathsOf(h) # <<>> /\ Front(PathsOf(h)[1]) = ScopeOf(h)
<1> DEFINE n == Len(graph.items)
           p == PathsOf(h)
<1>1. /\ n \in Nat /\ h \in Seq(1..n) /\ Len(h) \in Nat /\ Len(h) # 0 /\ DOMAIN h = 1..Len(h)
      /\ \A k \in 1..Len(h) : h[k] \in 1..n
      /\ \A k, l \in 1..Len(h) : k < l => h[k] < h[l]
      /\ \A k \in 1..Len(h) : ItemAt(h[k]).kind = "node"
  BY EmptySeq DEF WellFormed, Typed, Onward, NodesOnly
<1>2. DOMAIN p = 1..Len(h) /\ \A k \in 1..Len(h) : p[k] = ItemAt(h[k]).path
  BY <1>1 DEF PathsOf
<1>3. Typed(graph) /\ Named(graph) /\ Beside(graph, Company(graph))
  BY CompanyIs DEF WellFormed
<1> HIDE DEF p
<1>4. ASSUME NEW k \in 1..Len(h) PROVE IndexOf(p[k]) = {h[k]}
  <2>1. DOMAIN graph.items = 1..n
    BY <1>3 DEF Typed
  <2> DEFINE path == p[k]
  <2>2. path = graph.items[h[k]].path /\ h[k] \in 1..n /\ graph.items[h[k]].kind = "node"
    BY <1>1, <1>2 DEF ItemAt
  <2>3. IndexOf(path) = {i \in 1..n : graph.items[i].kind = "node" /\ graph.items[i].path = path}
    BY <2>1 DEF IndexOf, ItemAt
  <2> HIDE DEF path
  <2>4. \A i \in 1..n : graph.items[i].kind = "node" /\ graph.items[i].path = path => i = h[k]
    BY <2>2, <1>3 DEF Named
  <2>5. IndexOf(path) = {h[k]}
    BY <2>2, <2>3, <2>4
  <2> QED BY <2>5 DEF path
<1>5. \A k, l \in 1..Len(h) : k # l => h[k] # h[l]
  BY <1>1
<1>6. IsInjective(p)
  <2>1. ASSUME NEW k \in 1..Len(h), NEW l \in 1..Len(h), p[k] = p[l] PROVE k = l
    <3>1. {h[k]} = {h[l]}
      BY <2>1, <1>4
    <3> QED BY <3>1, <1>5
  <2> QED BY <2>1, <1>2 DEF IsInjective
<1>7. ASSUME NEW k \in 1..Len(h) PROVE Front(p[k]) = Front(p[1])
  <2>1. 1 \in 1..Len(h)
    BY <1>1
  <2>2. CASE k = 1
    BY <2>2
  <2>3. CASE k # 1
    <3>1. <<h[k], h[1]>> \in Company(graph)
      BY <2>1, <2>3 DEF Onward
    <3>2. Home(graph, h[k]) = Home(graph, h[1])
      BY <3>1, <1>3 DEF Beside
    <3> QED BY <3>2, <2>1, <1>2 DEF Home, ItemAt
  <2> QED BY <2>2, <2>3
<1>8. Len(p) = Len(h)
  BY <1>1, <1>2
<1>9. FrontierAccepted(p)
  <2>1. ASSUME NEW k \in 1..(Len(p) - 1)
        PROVE  \A i \in IndexOf(p[k]) : \A j \in IndexOf(p[k + 1]) : i <= j
    <3>1. k \in 1..Len(h) /\ k + 1 \in 1..Len(h) /\ k < k + 1
      BY <1>1, <1>8
    <3>2. h[k] < h[k + 1] /\ h[k] \in 1..n /\ h[k + 1] \in 1..n
      BY <3>1, <1>1
    <3>3. IndexOf(p[k]) = {h[k]} /\ IndexOf(p[k + 1]) = {h[k + 1]}
      BY <3>1, <1>4
    <3> HIDE DEF n
    <3>4. h[k] <= h[k + 1]
      BY <3>2, <1>1
    <3> QED BY <3>3, <3>4
  <2> QED BY <2>1, <1>2, <1>4, <1>6, <1>7 DEF FrontierAccepted
<1>10. Resolve(p) = h
  <2>1. \A k \in 1..Len(h) : (CHOOSE i \in IndexOf(p[k]) : TRUE) = h[k]
    BY <1>4
  <2>2. Resolve(p) = [k \in 1..Len(h) |-> h[k]]
    BY <2>1, <1>2 DEF Resolve
  <2>3. h = [k \in 1..Len(h) |-> h[k]]
    BY <1>1
  <2> QED BY <2>2, <2>3
<1>11. p # <<>>
  BY <1>1, <1>8
<1>12. Front(p[1]) = ScopeOf(h)
  <2>1. 1 \in 1..Len(h)
    BY <1>1
  <2> QED BY <2>1, <1>1, <1>2 DEF ScopeOf, Home, ItemAt
<1> QED BY <1>9, <1>10, <1>11, <1>12 DEF p

--------------------------------------------------------------------------------
(* Every step of a run.                                                      *)

(* A step that leads to a frontier, with the scopes around it open.          *)
LEMMA StepsTo ==
  ASSUME RunInv, graph' = graph, NEW f, frontier' = f, Onward(f),
         pc' \in {"normalize", "boundary", "loop", "done"}, steps' \in Nat,
         pc' \in {"boundary", "loop"} => NodesOnly(f), pc' = "loop" => f # <<>>,
         result' # "Refused", open' = ScopesOf(ScopeOf(f)),
         saved' = {} \/ \E h : Onward(h) /\ NodesOnly(h) /\ saved' = {PathsOf(h)},
         pc' = "loop" /\ steps' > 0 => saved' = {PathsOf(f)}
  PROVE  RunInv'
<1>1. WellFormed(graph)'
  <2>1. WellFormed(graph)
    BY DEF RunInv
  <2>2. WellFormed(graph)' <=> WellFormed(graph')
    OBVIOUS
  <2> QED BY <2>1
<1>2. \A h : (Onward(h)' <=> Onward(h)) /\ (NodesOnly(h)' <=> NodesOnly(h))
  BY DEF Onward, NodesOnly, ItemAt
<1>3. \A h : PathsOf(h)' = PathsOf(h)
  BY DEF PathsOf, ItemAt
<1>4. CurrentScope' = ScopeOf(f)
  BY DEF CurrentScope, ScopeOf, GraphPathOf, Home, ItemAt
<1>5. /\ Onward(frontier)' /\ (pc' \in {"boundary", "loop"} => NodesOnly(frontier)')
      /\ pc' = "loop" => frontier' # <<>>
  BY DEF Onward, NodesOnly, ItemAt
<1>6. PathsOf(frontier)' = PathsOf(f)
  BY DEF PathsOf, ItemAt
<1>7. (open = ScopesOf(CurrentScope))'
  BY <1>4 DEF ScopesOf
<1>8. (saved = {} \/ \E h : Onward(h) /\ NodesOnly(h) /\ saved = {PathsOf(h)})'
  BY <1>2, <1>3
<1>9. (pc = "loop" /\ steps > 0 => saved = {PathsOf(frontier)})'
  BY <1>6
<1> QED BY <1>1, <1>5, <1>7, <1>8, <1>9 DEF RunInv

(* The parts of the invariant that every step needs.                         *)
LEMMA RunFacts ==
  ASSUME RunInv
  PROVE  /\ WellFormed(graph) /\ Onward(frontier) /\ open = ScopesOf(ScopeOf(frontier))
         /\ Typed(graph) /\ Confined(graph) /\ Placed(graph) /\ Beside(graph, Company(graph))
         /\ saved = {} \/ \E h : Onward(h) /\ NodesOnly(h) /\ saved = {PathsOf(h)}
         /\ frontier \in Seq(1..Len(graph.items)) /\ Len(graph.items) \in Nat
         /\ Len(frontier) \in Nat /\ (Len(frontier) = 0 => frontier = <<>>)
         /\ \A k \in 1..Len(frontier) : frontier[k] \in 1..Len(graph.items)
         /\ steps \in Nat
<1>1. WellFormed(graph) /\ Onward(frontier) /\ steps \in Nat
  BY DEF RunInv
<1>2. CurrentScope = ScopeOf(frontier)
  BY DEF CurrentScope, ScopeOf, GraphPathOf, Home, ItemAt
<1>3. Typed(graph) /\ Confined(graph) /\ Placed(graph) /\ Beside(graph, Company(graph))
  BY <1>1, CompanyIs DEF WellFormed
<1>4. /\ frontier \in Seq(1..Len(graph.items)) /\ Len(graph.items) \in Nat
      /\ Len(frontier) \in Nat /\ (Len(frontier) = 0 => frontier = <<>>)
      /\ \A k \in 1..Len(frontier) : frontier[k] \in 1..Len(graph.items)
  <2>1. frontier \in Seq(1..Len(graph.items)) /\ Len(graph.items) \in Nat
    BY <1>1, <1>3 DEF Onward, Typed
  <2> QED BY <2>1, EmptySeq
<1> QED BY <1>1, <1>2, <1>3, <1>4 DEF RunInv

(* A run that fails stays where it is.                                         *)
LEMMA FailStep ==
  ASSUME RunInv, NEW reason, reason # "Refused", Fail(reason)
  PROVE  RunInv'
<1>1. PICK f : f = frontier
  OBVIOUS
<1>2. Onward(f) /\ open = ScopesOf(ScopeOf(f)) /\ steps \in Nat
  BY <1>1, RunFacts
<1>3. /\ graph' = graph /\ frontier' = f /\ pc' = "done" /\ steps' = steps /\ open' = open
      /\ saved' = saved /\ result' = reason
  BY <1>1 DEF Fail
<1> QED BY <1>2, <1>3, StepsTo, RunFacts

(* Entering a mount leads below it, or to its exit.                          *)
LEMMA EnterLeads ==
  ASSUME RunInv, EnterSubgraph, NEW i, i = frontier[1]
  PROVE  \E j \in 1..Len(graph.items) :
           /\ frontier' = <<j>>
           /\ \E t \in STRING : ItemAt(i).next.to = [s \in {t} |-> j]
           /\ IF ItemAt(j).kind = "exit" THEN ItemAt(j).path = ItemAt(i).path
              ELSE Home(graph, j) = ItemAt(i).path
<1>1. /\ Len(frontier) = 1 /\ ItemAt(i).kind = "enter"
      /\ frontier' = Canonical(TargetsOf([x \in {i} |-> DOMAIN ItemAt(i).next.to]) \ {0})
  BY DEF EnterSubgraph, AtKind
<1>2. i \in 1..Len(graph.items) /\ Confined(graph)
  BY <1>1, RunFacts
<1>4. PICK j \in 1..Len(graph.items) :
        /\ \E t \in STRING : ItemAt(i).next.to = [s \in {t} |-> j]
        /\ IF ItemAt(j).kind = "exit" THEN ItemAt(j).path = ItemAt(i).path
           ELSE Home(graph, j) = ItemAt(i).path
  BY <1>1, <1>2 DEF Confined, ItemAt
<1>5. TargetsOf([x \in {i} |-> DOMAIN ItemAt(i).next.to]) \ {0} = {j}
  <2> DEFINE a == [x \in {i} |-> DOMAIN ItemAt(i).next.to]
  <2>1. DOMAIN a = {i} /\ a[i] = DOMAIN ItemAt(i).next.to
    OBVIOUS
  <2>2. TargetsOf(a) = {ItemAt(i).next.to[t] : t \in DOMAIN ItemAt(i).next.to}
    BY <2>1 DEF TargetsOf
  <2>3. {ItemAt(i).next.to[t] : t \in DOMAIN ItemAt(i).next.to} = {j}
    BY <1>4
  <2>4. j # 0
    BY <1>2, RunFacts
  <2> QED BY <2>2, <2>3, <2>4
<1>6. frontier' = <<j>>
  <2>1. {j} \in SUBSET (0..Len(graph.items)) /\ Len(graph.items) \in Nat
    BY RunFacts
  <2>2. Canonical({j}) = <<j>>
    BY <2>1, CanonicalIs
  <2> QED BY <2>2, <1>1, <1>5
<1> QED BY <1>4, <1>6

(* Leaving a mount leads to a frontier of the graph it is declared in.       *)
LEMMA ExitLeads ==
  ASSUME RunInv, AtKind("exit"), NEW i, i = frontier[1], NEW a \in Answers({i}, answers), ~ Faulty(a)
  PROVE  LET f == OrExit(TargetsOf(a), GraphPathOf(i)) IN
         Onward(f) /\ ScopeOf(f) = Home(graph, i) /\ GraphPathOf(i) = Home(graph, i)
<1>1. Len(frontier) = 1 /\ ItemAt(i).kind = "exit"
  BY DEF AtKind
<1>2. i \in 1..Len(graph.items) /\ WellFormed(graph) /\ Typed(graph)
  BY <1>1, RunFacts
<1>3. Home(graph, i) \in Seq(STRING) /\ GraphPathOf(i) = Home(graph, i)
  BY <1>2, ItemIs DEF ItemAt, GraphPathOf, Home
<1>4. PICK home : home = Home(graph, i)
  OBVIOUS
<1>5. Together(TargetsOf(a), home)
  <2>1. {i} \in SUBSET (1..Len(graph.items))
    BY <1>2
  <2>2. \A x \in {i} : ItemAt(x).kind # "enter" /\ Home(graph, x) = home
    BY <1>1, <1>4
  <2>3. \A x, y \in {i} : x # y => <<x, y>> \in Company(graph)
    OBVIOUS
  <2> QED BY <2>1, <2>2, <2>3, <1>2, Selected
<1>6. PICK f : f = OrExit(TargetsOf(a), home)
  OBVIOUS
<1>7. Onward(f) /\ ScopeOf(f) = home
  BY <1>2, <1>3, <1>4, <1>5, <1>6, Proceeds
<1> QED BY <1>3, <1>4, <1>6, <1>7

(* The nodes of a frontier are of one graph.                                 *)
LEMMA NodesTogether ==
  ASSUME RunInv, pc = "loop", NEW i, i = frontier[1], NEW items, items = ToSet(frontier)
  PROVE  /\ i \in items /\ items \in SUBSET (1..Len(graph.items))
         /\ \A x \in items : ItemAt(x).kind = "node" /\ Home(graph, x) = Home(graph, i)
         /\ \A x, y \in items : x # y => <<x, y>> \in Company(graph)
         /\ ItemAt(i).scope = Home(graph, i) /\ Home(graph, i) \in Seq(STRING)
<1>1. frontier # <<>>
  BY DEF RunInv
<1>2. /\ i \in 1..Len(graph.items) /\ 1 \in 1..Len(frontier)
      /\ \A k \in 1..Len(frontier) : /\ frontier[k] \in 1..Len(graph.items)
                                    /\ ItemAt(frontier[k]).kind = "node"
  BY <1>1, RunFacts DEF RunInv, NodesOnly
<1>3. PICK home : home = Home(graph, i)
  OBVIOUS
<1>4. ItemAt(i).scope = home /\ home \in Seq(STRING)
  BY <1>2, <1>3, RunFacts, ItemIs DEF Placed, ItemAt
<1>5. \A x : x \in items <=> \E k \in 1..Len(frontier) : x = frontier[k]
  <2>1. DOMAIN frontier = 1..Len(frontier)
    BY RunFacts
  <2> QED BY <2>1 DEF ToSet
<1>6. \A k, l \in 1..Len(frontier) : k # l => <<frontier[k], frontier[l]>> \in Company(graph)
  BY RunFacts DEF Onward
<1>7. items \in SUBSET (1..Len(graph.items)) /\ i \in items
  BY <1>2, <1>5
<1>8. ASSUME NEW x \in items PROVE ItemAt(x).kind = "node" /\ Home(graph, x) = home
  <2>1. PICK k \in 1..Len(frontier) : x = frontier[k]
    BY <1>5
  <2>2. ItemAt(x).kind = "node"
    BY <2>1, <1>2
  <2>3. CASE k = 1
    BY <2>1, <2>2, <2>3, <1>3
  <2>4. CASE k # 1
    <3>1. <<x, i>> \in Company(graph)
      BY <2>1, <2>4, <1>2, <1>6
    <3> QED BY <3>1, <2>2, <1>3, RunFacts DEF Beside
  <2> QED BY <2>3, <2>4
<1>9. \A x, y \in items : x # y => <<x, y>> \in Company(graph)
  BY <1>5, <1>6
<1> QED BY <1>3, <1>4, <1>7, <1>8, <1>9

(* What they select is a frontier of the same graph.                         *)
LEMMA SuperstepLeads ==
  ASSUME RunInv, pc = "loop", NEW a \in Answers(ToSet(frontier), <<>>), ~ Faulty(a)
  PROVE  LET f == OrExit(TargetsOf(a), ItemAt(frontier[1]).scope) IN
         Onward(f) /\ ScopeOf(f) = Home(graph, frontier[1])
<1>1. PICK i, items : i = frontier[1] /\ items = ToSet(frontier)
  OBVIOUS
<1>2. PICK home : home = Home(graph, i)
  OBVIOUS
<1>3. /\ i \in items /\ items \in SUBSET (1..Len(graph.items))
      /\ \A x \in items : ItemAt(x).kind = "node" /\ Home(graph, x) = home
      /\ \A x, y \in items : x # y => <<x, y>> \in Company(graph)
      /\ ItemAt(i).scope = home /\ home \in Seq(STRING)
  BY <1>1, <1>2, NodesTogether
<1>4. \A x \in items : ItemAt(x).kind # "enter" /\ Home(graph, x) = home
  BY <1>3
<1>5. Together(TargetsOf(a), home)
  BY <1>1, <1>3, <1>4, RunFacts, Selected
<1>6. PICK f : f = OrExit(TargetsOf(a), home)
  OBVIOUS
<1>7. i \in 1..Len(graph.items) /\ Home(graph, i) = home
  BY <1>2, <1>3
<1>8. Onward(f) /\ ScopeOf(f) = home
  BY <1>3, <1>5, <1>6, <1>7, RunFacts, Proceeds
<1> QED BY <1>1, <1>2, <1>3, <1>6, <1>8

(* Entering a mount opens its scope and leads below it, or to its exit.      *)
LEMMA EnterStep ==
  ASSUME RunInv, EnterSubgraph
  PROVE  RunInv'
<1> DEFINE i == frontier[1]
<1>1. /\ pc = "normalize" /\ Len(frontier) = 1 /\ ItemAt(i).kind = "enter"
      /\ open' = Append(open, ItemAt(i).scope)
      /\ graph' = graph /\ pc' = pc /\ steps' = steps /\ saved' = saved /\ result' = result
  BY DEF EnterSubgraph, AtKind
<1>2. i \in 1..Len(graph.items) /\ Typed(graph) /\ Placed(graph)
  BY <1>1, RunFacts
<1>3. ItemAt(i).path \in Paths /\ ItemAt(i).scope = ItemAt(i).path
  BY <1>1, <1>2, ItemIs DEF Placed, ItemAt
<1>4. PICK j \in 1..Len(graph.items) :
        /\ frontier' = <<j>>
        /\ IF ItemAt(j).kind = "exit" THEN ItemAt(j).path = ItemAt(i).path
           ELSE Home(graph, j) = ItemAt(i).path
  BY EnterLeads
<1>5. Onward(<<j>>)
  BY SingleOnward
<1>6. ScopeOf(<<j>>) = ItemAt(i).path
  <2>1. ItemAt(j).kind = "exit" => ItemAt(j).scope = ItemAt(j).path
    BY <1>2 DEF Placed, ItemAt
  <2> QED BY <2>1, <1>4 DEF ScopeOf
<1>7. open' = ScopesOf(ItemAt(i).path)
  <2>1. frontier # <<>>
    <3>1. Len(frontier) = 1
      BY <1>1
    <3> QED BY <3>1, EmptySeq
  <2>2. open = ScopesOf(Front(ItemAt(i).path))
    BY <1>1, <2>1, RunFacts DEF ScopeOf, Home, ItemAt
  <2> QED BY <2>2, <1>1, <1>3, ScopesGrow
<1>8. result # "Refused" /\ pc' \notin {"boundary", "loop"} /\ steps \in Nat
  BY <1>1 DEF RunInv
<1> QED BY <1>1, <1>4, <1>5, <1>6, <1>7, <1>8, StepsTo, RunFacts

(* Leaving a mount closes the innermost scope, which is the mount's.         *)
LEMMA ExitStep ==
  ASSUME RunInv, ExitSubgraph
  PROVE  RunInv'
<1>1. PICK i : i = frontier[1]
  OBVIOUS
<1>2. /\ pc = "normalize" /\ Len(frontier) = 1 /\ ItemAt(i).kind = "exit" /\ AtKind("exit")
  BY <1>1 DEF ExitSubgraph, AtKind
<1>3. PICK a \in Answers({i}, answers) :
        IF Faulty(a) THEN Fail("RouteFailed")
        ELSE /\ open' = Close(ItemAt(i).scope)
             /\ frontier' = OrExit(TargetsOf(a), GraphPathOf(i))
             /\ graph' = graph /\ pc' = pc /\ steps' = steps /\ saved' = saved /\ result' = result
  BY <1>1 DEF ExitSubgraph
<1>4. CASE Faulty(a)
  BY <1>3, <1>4, FailStep
<1>5. CASE ~ Faulty(a)
  <2>1. /\ i \in 1..Len(graph.items) /\ WellFormed(graph) /\ Typed(graph) /\ Placed(graph)
    BY <1>1, <1>2, RunFacts
  <2>2. /\ ItemAt(i).path \in Paths /\ ItemAt(i).scope = ItemAt(i).path
        /\ Home(graph, i) \in Seq(STRING) /\ GraphPathOf(i) = Home(graph, i)
        /\ Home(graph, i) = Front(ItemAt(i).path)
    BY <1>2, <2>1, ItemIs DEF Placed, ItemAt, GraphPathOf, Home
  <2>3. PICK home : home = Home(graph, i)
    OBVIOUS
  <2>5. PICK f : f = OrExit(TargetsOf(a), home)
    OBVIOUS
  <2>6. Onward(f) /\ ScopeOf(f) = home
    BY <1>1, <1>2, <1>5, <2>2, <2>3, <2>5, ExitLeads
  <2>7. open' = ScopesOf(home)
    <3>1. frontier # <<>>
      <4>1. Len(frontier) = 1
        BY <1>2
      <4> QED BY <4>1, EmptySeq
    <3>2. open = ScopesOf(ItemAt(i).path)
      BY <3>1, <1>1, <1>2, <2>2, RunFacts DEF ScopeOf
    <3>3. PICK p \in Paths : p = ItemAt(i).path
      BY <2>2
    <3>4. Close(p) = ScopesOf(Front(p))
      BY <3>2, <3>3, ScopesShrink
    <3> QED BY <3>3, <3>4, <2>2, <2>3, <1>3, <1>5
  <2>8. frontier' = f /\ graph' = graph /\ pc' = pc /\ steps' = steps /\ saved' = saved
        /\ result' = result
    BY <1>3, <1>5, <2>2, <2>3, <2>5
  <2>9. result # "Refused" /\ pc' \notin {"boundary", "loop"} /\ steps \in Nat
    BY <1>2, <2>8 DEF RunInv
  <2> QED BY <1>2, <2>6, <2>7, <2>8, <2>9, StepsTo, RunFacts
<1> QED BY <1>4, <1>5

(* A frontier that is neither is of nodes: more than one item run together   *)
(* only if they are nodes.                                                   *)
LEMMA StableStep ==
  ASSUME RunInv, Stable
  PROVE  RunInv'
<1>1. PICK f : f = frontier
  OBVIOUS
<1>2. /\ ~ AtKind("enter") /\ ~ AtKind("exit") /\ pc = "normalize" /\ pc' = "boundary"
      /\ graph' = graph /\ frontier' = f /\ steps' = steps /\ open' = open
      /\ saved' = saved /\ result' = result
  BY <1>1 DEF Stable
<1>3. /\ Onward(f) /\ open = ScopesOf(ScopeOf(f)) /\ f \in Seq(1..Len(graph.items))
      /\ Len(f) \in Nat /\ Typed(graph) /\ Beside(graph, Company(graph))
      /\ \A k \in 1..Len(f) : f[k] \in 1..Len(graph.items)
  BY <1>1, RunFacts
<1>4. NodesOnly(f)
  <2> SUFFICES ASSUME NEW k \in 1..Len(f) PROVE ItemAt(f[k]).kind = "node"
    BY DEF NodesOnly
  <2>1. CASE Len(f) = 1
    <3>1. k = 1 /\ ItemAt(f[1]).kind \in {"node", "enter", "exit"}
      BY <2>1, <1>3, ItemIs DEF ItemAt
    <3> QED BY <3>1, <2>1, <1>1, <1>2 DEF AtKind
  <2>2. CASE Len(f) # 1
    <3>1. PICK l \in 1..Len(f) : l # k
      <4>2. PICK n \in Nat : n = Len(f)
        BY <1>3
      <4>3. n >= 1 /\ n # 1
        BY <4>2, <2>2
      <4>1. 1 \in 1..n /\ 2 \in 1..n
        BY <4>3
      <4> QED BY <4>1, <4>2
    <3>2. <<f[k], f[l]>> \in Company(graph)
      BY <3>1, <1>3 DEF Onward
    <3> QED BY <3>2, <1>3 DEF Beside, ItemAt
  <2> QED BY <2>1, <2>2
<1>5. result # "Refused" /\ steps \in Nat
  BY DEF RunInv
<1> QED BY <1>2, <1>3, <1>4, <1>5, StepsTo, RunFacts

(* A boundary saves the frontier it is about to run.                         *)
LEMMA BoundaryStep ==
  ASSUME RunInv, Boundary
  PROVE  RunInv'
<1>1. PICK f : f = frontier
  OBVIOUS
<1>2. /\ pc = "boundary" /\ saved' = (IF steps > 0 THEN {PathsOf(f)} ELSE saved)
      /\ pc' = (IF f = <<>> THEN "done" ELSE "loop")
      /\ result' = (IF f = <<>> THEN "Completed" ELSE result)
      /\ graph' = graph /\ frontier' = f /\ steps' = steps /\ open' = open
  BY <1>1 DEF Boundary
<1>3. Onward(f) /\ open = ScopesOf(ScopeOf(f)) /\ NodesOnly(f)
  BY <1>1, <1>2, RunFacts DEF RunInv
<1>4. result # "Refused" /\ steps \in Nat
  BY DEF RunInv
<1>5. saved' = {} \/ \E h : Onward(h) /\ NodesOnly(h) /\ saved' = {PathsOf(h)}
  BY <1>2, <1>3, RunFacts
<1> QED BY <1>2, <1>3, <1>4, <1>5, StepsTo

(* The nodes of a frontier share a graph, and what they select stays there.  *)
LEMMA SuperstepStep ==
  ASSUME RunInv, Superstep, frontier # <<>>
  PROVE  RunInv'
<1>1. PICK items : items = ToSet(frontier)
  OBVIOUS
<1>2. pc = "loop"
  BY DEF Superstep
<1>3. CASE StepsAfter > MaxSteps
  <2>1. Fail("MaxStepsExceeded")
    BY <1>3 DEF Superstep
  <2> QED BY <2>1, FailStep
<1>4. CASE ~ (StepsAfter > MaxSteps)
  <2>1. PICK a \in Answers(items, <<>>) :
          IF Faulty(a) THEN Fail("RouteFailed")
          ELSE /\ steps' = StepsAfter /\ pc' = "normalize"
               /\ frontier' = OrExit(TargetsOf(a), ItemAt(frontier[1]).scope)
               /\ graph' = graph /\ open' = open /\ saved' = saved /\ result' = result
    BY <1>1, <1>4 DEF Superstep
  <2>2. CASE Faulty(a)
    BY <2>1, <2>2, FailStep
  <2>3. CASE ~ Faulty(a)
    <3>1. PICK i, home, f : /\ i = frontier[1] /\ home = Home(graph, i)
                            /\ f = OrExit(TargetsOf(a), ItemAt(frontier[1]).scope)
      OBVIOUS
    <3>2. Onward(f) /\ ScopeOf(f) = home
      BY <1>1, <1>2, <2>3, <3>1, SuperstepLeads
    <3>3. /\ frontier' = f /\ steps' = StepsAfter /\ pc' = "normalize" /\ graph' = graph
          /\ open' = open /\ saved' = saved /\ result' = result
      BY <2>1, <2>3, <3>1
    <3>4. open' = ScopesOf(home)
      <4>1. i \in items /\ \A x \in items : ItemAt(x).kind = "node"
        BY <1>1, <1>2, <3>1, NodesTogether
      <4>2. ScopeOf(frontier) = home
        BY <3>1, <4>1 DEF ScopeOf
      <4> QED BY <4>2, <3>3, RunFacts
    <3>5. steps' \in Nat
      BY <3>3, RunFacts DEF StepsAfter
    <3>6. result # "Refused"
      BY DEF RunInv
    <3> QED BY <3>2, <3>3, <3>4, <3>5, <3>6, StepsTo, RunFacts
  <2> QED BY <2>2, <2>3
<1> QED BY <1>3, <1>4

(* A restart resolves what was saved to the items it was saved from.         *)
LEMMA RestartStep ==
  ASSUME RunInv, Restart
  PROVE  RunInv'
<1>1. PICK paths \in saved :
        /\ paths # <<>>
        /\ IF FrontierAccepted(paths)
           THEN /\ frontier' = Resolve(paths) /\ open' = Reopened(Front(paths[1]))
                /\ pc' = "loop" /\ result' = "none" /\ steps' = 0
                /\ graph' = graph /\ saved' = saved
           ELSE TRUE
  BY DEF Restart
<1>2. PICK h : Onward(h) /\ NodesOnly(h) /\ saved = {PathsOf(h)}
  BY <1>1, RunFacts
<1>3. paths = PathsOf(h)
  BY <1>1, <1>2
<1>4. h # <<>>
  BY <1>1, <1>3 DEF PathsOf
<1>5. FrontierAccepted(paths) /\ Resolve(paths) = h /\ Front(paths[1]) = ScopeOf(h)
  BY <1>2, <1>3, <1>4, RunFacts, PathsResolve
<1>6. /\ frontier' = h /\ open' = ScopesOf(ScopeOf(h)) /\ pc' = "loop" /\ result' = "none"
      /\ steps' = 0 /\ graph' = graph /\ saved' = saved
  BY <1>1, <1>5 DEF Reopened
<1> QED BY <1>2, <1>4, <1>6, StepsTo, RunFacts

(* Every step of a run keeps the invariant.                                  *)
LEMMA RunStep ==
  ASSUME RunInv, [Next]_vars
  PROVE  RunInv'
<1>1. CASE EnterSubgraph
  BY <1>1, EnterStep
<1>2. CASE ExitSubgraph
  BY <1>2, ExitStep
<1>3. CASE Stable
  BY <1>3, StableStep
<1>4. CASE Boundary
  BY <1>4, BoundaryStep
<1>5. CASE Superstep
  <2>1. frontier # <<>>
    BY <1>5 DEF RunInv, Superstep
  <2> QED BY <2>1, <1>5, SuperstepStep
<1>6. CASE Restart
  BY <1>6, RestartStep
<1>7. CASE UNCHANGED vars
  <2>1. PICK f : f = frontier
    OBVIOUS
  <2>2. Onward(f) /\ open = ScopesOf(ScopeOf(f))
    BY <2>1, RunFacts
  <2>3. /\ graph' = graph /\ frontier' = f /\ pc' = pc /\ steps' = steps /\ open' = open
        /\ saved' = saved /\ result' = result
    BY <2>1, <1>7 DEF vars
  <2>4. /\ pc \in {"normalize", "boundary", "loop", "done"} /\ steps \in Nat
        /\ result # "Refused" /\ (pc \in {"boundary", "loop"} => NodesOnly(f))
        /\ (pc = "loop" => f # <<>>) /\ (pc = "loop" /\ steps > 0 => saved = {PathsOf(f)})
    BY <2>1 DEF RunInv
  <2> QED BY <2>2, <2>3, <2>4, StepsTo, RunFacts
<1> QED BY <1>1, <1>2, <1>3, <1>4, <1>5, <1>6, <1>7 DEF Next, Run

(* The invariant gives both properties.                                      *)
LEMMA RunInvHolds ==
  ASSUME RunInv
  PROVE  FrontiersRunnable /\ ScopesNest
<1>1. FrontiersHoldNodes
  <2>1. DOMAIN frontier = 1..Len(frontier)
    BY RunFacts
  <2> QED BY <2>1 DEF FrontiersHoldNodes, RunInv, NodesOnly
<1>2. SavedFrontiersResolve
  <2> SUFFICES ASSUME NEW paths \in saved, paths # <<>>
               PROVE  /\ FrontierAccepted(paths)
                      /\ pc = "loop" => Resolve(paths) = frontier \/ steps = 0
    BY DEF SavedFrontiersResolve
  <2>1. PICK h : Onward(h) /\ NodesOnly(h) /\ saved = {PathsOf(h)}
    BY RunFacts
  <2>2. paths = PathsOf(h) /\ h # <<>>
    BY <2>1 DEF PathsOf
  <2>3. FrontierAccepted(paths) /\ Resolve(paths) = h
    BY <2>1, <2>2, RunFacts, PathsResolve
  <2>4. ASSUME pc = "loop", steps > 0 PROVE Resolve(paths) = frontier
    <3>1. PICK f : f = frontier
      OBVIOUS
    <3>2. Onward(f) /\ NodesOnly(f) /\ saved = {PathsOf(f)}
      BY <2>4, <3>1 DEF RunInv
    <3>3. paths = PathsOf(f) /\ f # <<>>
      BY <3>2 DEF PathsOf
    <3> QED BY <3>1, <3>2, <3>3, RunFacts, PathsResolve
  <2> QED BY <2>3, <2>4, RunFacts
<1> QED BY <1>1, <1>2 DEF FrontiersRunnable, ScopesNest, RunInv

--------------------------------------------------------------------------------
(* Where things are in a flattened graph.                                      *)

(* The sums, and the sequences, that recursion builds up exist.                   *)
Sums(g, n, start, step) ==
  g = [k \in 1..n |-> IF k = 1 THEN start ELSE g[k - 1] + step[k - 1]]

(* The running totals of n - 1 steps exist, for any n.                        *)
LEMMA SumsExist ==
  ASSUME NEW n \in Nat, NEW start \in Nat, NEW step, \A k \in 1..(n - 1) : step[k] \in Nat
  PROVE  \A m \in 0..n : \E g : Sums(g, m, start, step)
<1> DEFINE Bad == {m \in 0..n : ~ \E g : Sums(g, m, start, step)}
<1> SUFFICES ASSUME Bad # {} PROVE FALSE
  OBVIOUS
<1>1. PICK m \in Bad : \A k \in Bad : m <= k
  <2>1. Bad \in SUBSET Nat
    OBVIOUS
  <2> HIDE DEF Bad
  <2> QED BY <2>1, LeastNumber
<1>2. m # 0
  <2>1. Sums([k \in 1..0 |-> start], 0, start, step)
    BY DEF Sums
  <2> QED BY <2>1
<1>3. PICK g : Sums(g, m - 1, start, step)
  <2>1. m - 1 \in 0..n /\ m - 1 \notin Bad
    BY <1>1, <1>2
  <2> QED BY <2>1
<1> DEFINE f == [k \in 1..m |-> IF k = m THEN IF m = 1 THEN start ELSE g[m - 1] + step[m - 1] ELSE g[k]]
<1>4. \A k \in 1..m : f[k] = IF k = 1 THEN start ELSE f[k - 1] + step[k - 1]
  <2>1. \A k \in 1..(m - 1) : g[k] = IF k = 1 THEN start ELSE g[k - 1] + step[k - 1]
    BY <1>3 DEF Sums
  <2>2. m \in Nat /\ m >= 1
    BY <1>2
  <2> SUFFICES ASSUME NEW k \in 1..m
               PROVE  f[k] = IF k = 1 THEN start ELSE f[k - 1] + step[k - 1]
    OBVIOUS
  <2>3. CASE k = m
    <3>1. k # 1 => k - 1 \in 1..m /\ k - 1 # m
      BY <2>2, <2>3
    <3> QED BY <2>3, <3>1
  <2>4. CASE k # m
    <3>1. k \in 1..(m - 1) /\ (k # 1 => k - 1 \in 1..m /\ k - 1 # m)
      BY <2>2, <2>4
    <3> QED BY <2>1, <2>4, <3>1
  <2> QED BY <2>3, <2>4
<1>5. f = [k \in 1..m |-> IF k = 1 THEN start ELSE f[k - 1] + step[k - 1]]
  <2>1. f = [k \in 1..m |-> f[k]]
    OBVIOUS
  <2> HIDE DEF f
  <2> QED BY <1>4, <2>1
<1>6. Sums(f, m, start, step)
  BY <1>5 DEF Sums
<1> QED BY <1>6

(* The places a list of items takes: a mount's takes two.                       *)
LEMMA OwnIndexSteps ==
  ASSUME NEW d, NEW i \in Nat \ {0}
  PROVE  /\ OwnIndex(d, i) \in Nat \ {0} /\ OwnIndex(d, 1) = 1
         /\ OwnIndex(d, i + 1) = OwnIndex(d, i) + (IF d.items[i].mount THEN 2 ELSE 1)
<1> DEFINE M(n) == {j \in 1..(n - 1) : d.items[j].mount}
<1>1. ASSUME NEW n \in Nat PROVE IsFiniteSet(M(n)) /\ Cardinality(M(n)) \in Nat
  <2>1. IsFiniteSet(1..(n - 1))
    BY FS_Interval
  <2>2. IsFiniteSet(M(n))
    BY <2>1, FS_Subset
  <2> QED BY <2>2, FS_CardinalityType
<1>2. M(1) = {} /\ Cardinality(M(1)) = 0
  BY FS_EmptySet
<1>3. M(i + 1) = IF d.items[i].mount THEN M(i) \cup {i} ELSE M(i)
  <2>1. \A j : j \in 1..(i + 1 - 1) <=> j \in 1..(i - 1) \/ j = i
    OBVIOUS
  <2>2. M(i + 1) = {j \in 1..(i + 1 - 1) : d.items[j].mount}
    OBVIOUS
  <2> QED BY <2>1, <2>2
<1>4. i \notin M(i)
  OBVIOUS
<1>5. d.items[i].mount => Cardinality(M(i) \cup {i}) = Cardinality(M(i)) + 1
  BY <1>1, <1>4, FS_AddElement
<1>6. \A n : OwnIndex(d, n) = n + Cardinality(M(n))
  BY DEF OwnIndex
<1> HIDE DEF M
<1> QED BY <1>1, <1>2, <1>3, <1>5, <1>6

(* The children are laid out one after the other, behind the graph's own     *)
(* items.                                                                    *)
LEMMA ChildBaseSteps ==
  ASSUME NEW d, Len(d.items) \in Nat, \A k \in 1..Len(d.items) : Len(d.items[k].graph.items) \in Nat
  PROVE  /\ ChildBase(d, 1) = OwnSize(d)
         /\ \A k \in 1..Len(d.items) :
              ChildBase(d, k + 1) = ChildBase(d, k) + Len(d.items[k].graph.items)
<1> DEFINE n == Len(d.items) + 1
           step == [k \in 1..Len(d.items) |-> Len(d.items[k].graph.items)]
           base == CHOOSE g : g = [k \in 1..n |-> IF k = 1 THEN OwnSize(d)
                                                  ELSE g[k - 1] + Len(d.items[k - 1].graph.items)]
<1>1. n \in Nat /\ OwnSize(d) \in Nat /\ \A k \in 1..(n - 1) : step[k] \in Nat
  <2>1. n \in Nat \ {0}
    OBVIOUS
  <2>2. OwnIndex(d, n) \in Nat \ {0}
    BY <2>1, OwnIndexSteps
  <2> QED BY <2>1, <2>2 DEF OwnSize
<1>2. PICK h : Sums(h, n, OwnSize(d), step)
  <2> HIDE DEF step, n
  <2>1. n \in 0..n
    BY <1>1
  <2> QED BY <2>1, <1>1, SumsExist
<1>3. h = [k \in 1..n |-> IF k = 1 THEN OwnSize(d) ELSE h[k - 1] + Len(d.items[k - 1].graph.items)]
  <2>1. \A k \in 1..n : k # 1 => step[k - 1] = Len(d.items[k - 1].graph.items)
    BY <1>1
  <2> QED BY <2>1, <1>2 DEF Sums
<1>4. base = [k \in 1..n |-> IF k = 1 THEN OwnSize(d) ELSE base[k - 1] + Len(d.items[k - 1].graph.items)]
  BY <1>3
<1>5. \A k : ChildBase(d, k) = base[k]
  BY DEF ChildBase
<1> HIDE DEF base
<1>6. ASSUME NEW k \in 1..Len(d.items)
      PROVE  base[k + 1] = base[k] + Len(d.items[k].graph.items)
  <2>1. k + 1 \in 1..n /\ k + 1 # 1 /\ k + 1 - 1 = k
    OBVIOUS
  <2> QED BY <2>1, <1>4
<1>7. base[1] = OwnSize(d)
  <2>1. 1 \in 1..n
    OBVIOUS
  <2> QED BY <2>1, <1>4
<1> QED BY <1>5, <1>6, <1>7

(* g strings the first n sequences together.                                 *)
Chained(g, n, seqs) ==
  g = [i \in 1..n |-> IF i = 1 THEN seqs[i] ELSE g[i - 1] \o seqs[i]]

(* The concatenations of the first n sequences exist, for any n.              *)
LEMMA ChainsExist ==
  ASSUME NEW n \in Nat, NEW seqs
  PROVE  \E g : Chained(g, n, seqs)
<1> DEFINE Bad == {m \in Nat : ~ \E g : Chained(g, m, seqs)}
<1> SUFFICES ASSUME Bad # {} PROVE FALSE
  OBVIOUS
<1>1. PICK m \in Bad : \A k \in Bad : m <= k
  <2>1. Bad \in SUBSET Nat
    OBVIOUS
  <2> HIDE DEF Bad
  <2> QED BY <2>1, LeastNumber
<1>2. m # 0
  <2>1. Chained([i \in 1..0 |-> seqs[i]], 0, seqs)
    BY DEF Chained
  <2> QED BY <2>1
<1>3. PICK g : Chained(g, m - 1, seqs)
  <2>1. m - 1 \in Nat /\ m - 1 \notin Bad
    BY <1>1, <1>2
  <2> QED BY <2>1
<1> DEFINE f == [i \in 1..m |-> IF i = m THEN IF m = 1 THEN seqs[m] ELSE g[m - 1] \o seqs[m]
                                ELSE g[i]]
<1>4. \A i \in 1..m : f[i] = IF i = 1 THEN seqs[i] ELSE f[i - 1] \o seqs[i]
  <2>1. \A i \in 1..(m - 1) : g[i] = IF i = 1 THEN seqs[i] ELSE g[i - 1] \o seqs[i]
    BY <1>3 DEF Chained
  <2>2. m \in Nat /\ m >= 1
    BY <1>2
  <2> SUFFICES ASSUME NEW i \in 1..m
               PROVE  f[i] = IF i = 1 THEN seqs[i] ELSE f[i - 1] \o seqs[i]
    OBVIOUS
  <2>3. CASE i = m
    <3>1. i # 1 => i - 1 \in 1..m /\ i - 1 # m
      BY <2>2, <2>3
    <3> QED BY <2>3, <3>1
  <2>4. CASE i # m
    <3>1. i \in 1..(m - 1) /\ (i # 1 => i - 1 \in 1..m /\ i - 1 # m)
      BY <2>2, <2>4
    <3> QED BY <2>1, <2>4, <3>1
  <2> QED BY <2>3, <2>4
<1>5. f = [i \in 1..m |-> IF i = 1 THEN seqs[i] ELSE f[i - 1] \o seqs[i]]
  <2>1. f = [i \in 1..m |-> f[i]]
    OBVIOUS
  <2> HIDE DEF f
  <2> QED BY <1>4, <2>1
<1>6. Chained(f, m, seqs)
  BY <1>5 DEF Chained
<1> QED BY <1>6

(* What the first m sequences make, one after the other.                        *)
Strung(s, S, m, seqs, off) ==
  /\ s \in Seq(S) /\ Len(s) = off[m + 1]
  /\ \A i \in 1..m : \A k \in 1..Len(seqs[i]) : /\ off[i] + k \in 1..Len(s)
                                                /\ s[off[i] + k] = seqs[i][k]
  /\ \A x \in 1..Len(s) : \E i \in 1..m : \E k \in 1..Len(seqs[i]) : x = off[i] + k

(* One sequence more.                                                        *)
LEMMA StrungStep ==
  ASSUME NEW S, NEW m \in Nat, NEW seqs, NEW off, NEW s, NEW t \in Seq(S), seqs[m + 1] = t,
         off[m + 1] \in Nat, off[m + 2] = off[m + 1] + Len(t),
         \A i \in 1..m : off[i] \in Nat,
         Strung(s, S, m, seqs, off)
  PROVE  Strung(s \o t, S, m + 1, seqs, off)
<1> DEFINE u == s \o t
<1>1. /\ s \in Seq(S) /\ Len(s) = off[m + 1] /\ Len(s) \in Nat /\ Len(t) \in Nat
      /\ \A i \in 1..m : \A k \in 1..Len(seqs[i]) : /\ off[i] + k \in 1..Len(s)
                                                    /\ s[off[i] + k] = seqs[i][k]
      /\ \A x \in 1..Len(s) : \E i \in 1..m : \E k \in 1..Len(seqs[i]) : x = off[i] + k
  BY DEF Strung
<1>2. /\ u \in Seq(S) /\ Len(u) = Len(s) + Len(t)
      /\ \A x \in 1..(Len(s) + Len(t)) : u[x] = IF x <= Len(s) THEN s[x] ELSE t[x - Len(s)]
  <2>1. s \in Seq(S) /\ t \in Seq(S)
    BY <1>1
  <2> QED BY <2>1, ConcatProperties
<1> HIDE DEF u
<1>3. ASSUME NEW i \in 1..(m + 1), NEW k \in 1..Len(seqs[i])
      PROVE  off[i] + k \in 1..Len(u) /\ u[off[i] + k] = seqs[i][k]
  <2>1. CASE i = m + 1
    <3>1. off[i] + k = Len(s) + k /\ k \in 1..Len(t) /\ seqs[i][k] = t[k]
      BY <2>1, <1>1
    <3>2. Len(s) + k \in 1..(Len(s) + Len(t)) /\ ~ (Len(s) + k <= Len(s)) /\ Len(s) + k - Len(s) = k
      <4>1. PICK a \in Nat, b \in Nat : a = Len(s) /\ b = Len(t)
        BY <1>1
      <4>2. k \in 1..b
        BY <3>1, <4>1
      <4>3. a + k \in 1..(a + b) /\ ~ (a + k <= a) /\ a + k - a = k
        BY <4>1, <4>2
      <4> QED BY <4>1, <4>3
    <3>3. u[Len(s) + k] = t[Len(s) + k - Len(s)]
      BY <3>2, <1>2
    <3> QED BY <3>1, <3>2, <3>3, <1>2
  <2>2. CASE i # m + 1
    <3>1. i \in 1..m
      BY <2>2
    <3>2. off[i] + k \in 1..Len(s) /\ s[off[i] + k] = seqs[i][k]
      BY <3>1, <1>1
    <3>3. off[i] + k \in 1..(Len(s) + Len(t)) /\ off[i] + k <= Len(s)
      BY <3>2, <1>1
    <3> QED BY <3>2, <3>3, <1>2
  <2> QED BY <2>1, <2>2
<1>4. ASSUME NEW x \in 1..Len(u)
      PROVE  \E i \in 1..(m + 1) : \E k \in 1..Len(seqs[i]) : x = off[i] + k
  <2>1. CASE x <= Len(s)
    <3>1. x \in 1..Len(s)
      BY <2>1, <1>1, <1>2
    <3>2. PICK i \in 1..m : \E k \in 1..Len(seqs[i]) : x = off[i] + k
      BY <3>1, <1>1
    <3>3. i \in 1..(m + 1)
      OBVIOUS
    <3> QED BY <3>2, <3>3
  <2>2. CASE ~ (x <= Len(s))
    <3> DEFINE k == x - Len(s)
    <3>1. k \in 1..Len(t) /\ x = off[m + 1] + k /\ m + 1 \in 1..(m + 1)
      BY <2>2, <1>1, <1>2
    <3> HIDE DEF k
    <3> QED BY <3>1
  <2> QED BY <2>1, <2>2
<1>5. Len(u) = off[m + 2]
  BY <1>1, <1>2
<1>6. m + 1 + 1 = m + 2
  OBVIOUS
<1>7. Strung(u, S, m + 1, seqs, off)
  BY <1>2, <1>3, <1>4, <1>5, <1>6 DEF Strung
<1> QED BY <1>7 DEF u

(* FlattenSeq puts the sequences one after the other.                        *)
LEMMA FlattenIs ==
  ASSUME NEW S, NEW n \in Nat, NEW seqs \in [1..n -> Seq(S)], NEW off, off[1] = 0,
         \A i \in 1..n : off[i + 1] = off[i] + Len(seqs[i])
  PROVE  Strung(FlattenSeq(seqs), S, n, seqs, off) /\ \A i \in 1..(n + 1) : off[i] \in Nat
<1>1. \A i \in 1..(n + 1) : off[i] \in Nat
  <2> DEFINE Bad == {i \in 1..(n + 1) : off[i] \notin Nat}
  <2> SUFFICES ASSUME Bad # {} PROVE FALSE
    OBVIOUS
  <2>1. PICK m \in Bad : \A k \in Bad : m <= k
    <3>1. Bad \in SUBSET Nat
      OBVIOUS
    <3> HIDE DEF Bad
    <3> QED BY <3>1, LeastNumber
  <2>2. m # 1
    OBVIOUS
  <2>3. m - 1 \in 1..n /\ m - 1 \notin Bad /\ m - 1 + 1 = m /\ m - 1 \in 1..(n + 1)
    BY <2>1, <2>2
  <2>4. off[m - 1] \in Nat /\ off[m] = off[m - 1] + Len(seqs[m - 1]) /\ Len(seqs[m - 1]) \in Nat
    BY <2>3
  <2> QED BY <2>4
<1>2. Len(seqs) = n
  OBVIOUS
<1>3. CASE n = 0
  <2>1. FlattenSeq(seqs) = seqs
    BY <1>2, <1>3 DEF FlattenSeq
  <2>2. seqs = <<>>
    BY <1>3
  <2>3. Strung(<<>>, S, 0, seqs, off)
    BY DEF Strung
  <2> QED BY <2>1, <2>2, <2>3, <1>1, <1>3
<1>4. CASE n # 0
  <2> DEFINE chain == CHOOSE g : g = [i \in 1..n |-> IF i = 1 THEN seqs[i] ELSE g[i - 1] \o seqs[i]]
  <2>1. Chained(chain, n, seqs)
    BY ChainsExist DEF Chained
  <2>2. FlattenSeq(seqs) = chain[n]
    BY <1>2, <1>4 DEF FlattenSeq
  <2> HIDE DEF chain
  <2>3. \A i \in 1..n : chain[i] = IF i = 1 THEN seqs[i] ELSE chain[i - 1] \o seqs[i]
    BY <2>1 DEF Chained
  <2> DEFINE Bad == {m \in 1..n : ~ Strung(chain[m], S, m, seqs, off)}
  <2>4. Bad = {}
    <3> SUFFICES ASSUME Bad # {} PROVE FALSE
      OBVIOUS
    <3>1. PICK m \in Bad : \A k \in Bad : m <= k
      <4>1. Bad \in SUBSET Nat
        OBVIOUS
      <4> HIDE DEF Bad
      <4> QED BY <4>1, LeastNumber
    <3>2. m \in 1..n /\ ~ Strung(chain[m], S, m, seqs, off)
      BY <3>1
    <3>3. CASE m = 1
      <4>1. chain[1] = seqs[1] /\ seqs[1] \in Seq(S)
        BY <3>2, <3>3, <2>3
      <4>2. <<>> \o seqs[1] = seqs[1] /\ <<>> \in Seq(S) /\ Len(<<>>) = 0
        BY <4>1, ConcatEmptySeq
      <4>6. Len(<<>>) = off[0 + 1]
        BY <4>2
      <4>3. Strung(<<>>, S, 0, seqs, off)
        BY <4>2, <4>6 DEF Strung
      <4>4. off[1] \in Nat /\ off[2] = off[1] + Len(seqs[1])
        <5>1. 1 \in 1..n /\ 1 + 1 = 2 /\ 1 \in 1..(n + 1)
          BY <1>4
        <5> QED BY <5>1, <1>1
      <4>5. Strung(<<>> \o seqs[1], S, 0 + 1, seqs, off)
        <5>1. 0 + 1 = 1 /\ 0 + 2 = 2
          OBVIOUS
        <5>2. off[0 + 1] \in Nat /\ off[0 + 2] = off[0 + 1] + Len(seqs[1]) /\ seqs[0 + 1] = seqs[1]
              /\ \A i \in 1..0 : off[i] \in Nat
          BY <5>1, <4>4
        <5> QED BY <5>2, <4>1, <4>3, StrungStep
      <4> QED BY <4>1, <4>2, <4>5, <3>2, <3>3
    <3>4. CASE m # 1
      <4>1. PICK q \in 1..(n - 1) : m = q + 1
        <5>1. m - 1 \in 1..(n - 1) /\ m = (m - 1) + 1
          BY <3>2, <3>4
        <5> QED BY <5>1
      <4>2. /\ q \in 1..n /\ q \in Nat /\ q \notin Bad /\ q + 1 \in 1..n /\ q + 1 # 1 /\ q + 1 - 1 = q
            /\ q + 1 \in 1..(n + 1) /\ q + 1 + 1 = q + 2
        BY <4>1, <3>1
      <4>3. Strung(chain[q], S, q, seqs, off)
        BY <4>2
      <4>4. chain[q + 1] = chain[q] \o seqs[q + 1] /\ seqs[q + 1] \in Seq(S)
        <5>1. PICK w \in 1..n : w = q + 1 /\ w # 1 /\ w - 1 = q
          BY <4>2
        <5>2. chain[w] = chain[w - 1] \o seqs[w] /\ seqs[w] \in Seq(S)
          BY <5>1, <2>3
        <5> QED BY <5>1, <5>2
      <4>5. off[q + 1] \in Nat /\ off[q + 2] = off[q + 1] + Len(seqs[q + 1])
        BY <4>2, <1>1
      <4>6. \A i \in 1..q : off[i] \in Nat
        BY <4>2, <1>1
      <4> HIDE DEF Bad
      <4>7. Strung(chain[q] \o seqs[q + 1], S, q + 1, seqs, off)
        BY <4>2, <4>3, <4>4, <4>5, <4>6, StrungStep
      <4> QED BY <4>1, <4>4, <4>7, <3>2
    <3> QED BY <3>3, <3>4
  <2>5. n \in 1..n
    BY <1>4
  <2> QED BY <2>2, <2>4, <2>5, <1>1
<1> QED BY <1>3, <1>4

--------------------------------------------------------------------------------
(* Paths below a mount.                                                      *)

(* An element in front of a sequence.                                        *)
LEMMA ConsIs ==
  ASSUME NEW S, NEW e \in S, NEW p \in Seq(S)
  PROVE  /\ <<e>> \o p \in Seq(S) /\ (<<e>> \o p)[1] = e /\ Len(<<e>> \o p) = Len(p) + 1
         /\ \A k \in 1..Len(p) : (<<e>> \o p)[k + 1] = p[k]
<1> DEFINE u == <<e>> \o p
<1>1. <<e>> \in Seq(S) /\ Len(<<e>>) = 1 /\ <<e>>[1] = e /\ Len(p) \in Nat
  OBVIOUS
<1>2. /\ u \in Seq(S) /\ Len(u) = 1 + Len(p)
      /\ \A i \in 1..(1 + Len(p)) : u[i] = IF i <= 1 THEN <<e>>[i] ELSE p[i - 1]
  BY <1>1, ConcatProperties
<1> HIDE DEF u
<1>3. u[1] = e
  <2>1. 1 \in 1..(1 + Len(p))
    BY <1>1
  <2> QED BY <2>1, <1>1, <1>2
<1>4. ASSUME NEW k \in 1..Len(p) PROVE u[k + 1] = p[k]
  <2>1. k + 1 \in 1..(1 + Len(p)) /\ ~ (k + 1 <= 1) /\ k + 1 - 1 = k
    BY <1>1
  <2> QED BY <2>1, <1>2
<1> QED BY <1>1, <1>2, <1>3, <1>4 DEF u

(* An element alone.                                                         *)
LEMMA ConsEmpty ==
  ASSUME NEW S, NEW e \in S
  PROVE  /\ <<e>> \o <<>> = <<e>> /\ <<e>> \in Seq(S) \ {<<>>} /\ Front(<<e>>) = <<>>
         /\ <<>> \in Seq(S) /\ Len(<<e>>) = 1
<1>1. <<e>> \in Seq(S) /\ Len(<<e>>) = 1
  OBVIOUS
<1>2. <<e>> \o <<>> = <<e>>
  BY <1>1, ConcatEmptySeq
<1>3. Front(<<e>>) = <<>>
  BY <1>1, SubSeqEmpty DEF Front
<1>4. <<e>> # <<>>
  OBVIOUS
<1> QED BY <1>1, <1>2, <1>3, <1>4

(* A path below a mount.                                                     *)
LEMMA Below ==
  ASSUME NEW id \in STRING, NEW p \in Seq(STRING)
  PROVE  /\ <<id>> \o p \in Paths /\ (<<id>> \o p)[1] = id /\ Len(<<id>> \o p) = Len(p) + 1
         /\ \A k \in 1..Len(p) : (<<id>> \o p)[k + 1] = p[k]
<1> DEFINE u == <<id>> \o p
<1>1. /\ u \in Seq(STRING) /\ u[1] = id /\ Len(u) = Len(p) + 1
      /\ \A k \in 1..Len(p) : u[k + 1] = p[k]
  <2>1. u \in Seq(STRING)
    BY ConsIs
  <2>2. u[1] = id
    BY ConsIs
  <2>3. Len(u) = Len(p) + 1
    BY ConsIs
  <2>4. \A k \in 1..Len(p) : u[k + 1] = p[k]
    BY ConsIs
  <2> QED BY <2>1, <2>2, <2>3, <2>4
<1>2. u # <<>>
  <2>1. Len(p) \in Nat
    OBVIOUS
  <2> HIDE DEF u
  <2> QED BY <1>1, <2>1
<1> QED BY <1>1, <1>2 DEF Paths

(* The mount and the rest of a path are told apart.                          *)
LEMMA BelowInjective ==
  ASSUME NEW id \in STRING, NEW p \in Seq(STRING), NEW other \in STRING, NEW q \in Seq(STRING),
         <<id>> \o p = <<other>> \o q
  PROVE  id = other /\ p = q
<1>1. PICK u : u = <<id>> \o p
  OBVIOUS
<1>2. u[1] = id /\ Len(u) = Len(p) + 1 /\ \A k \in 1..Len(p) : u[k + 1] = p[k]
  BY <1>1, Below
<1>3. u[1] = other /\ Len(u) = Len(q) + 1 /\ \A k \in 1..Len(q) : u[k + 1] = q[k]
  <2>1. u = <<other>> \o q
    BY <1>1
  <2> QED BY <2>1, Below
<1>4. Len(p) \in Nat /\ Len(q) \in Nat
  OBVIOUS
<1>5. id = other /\ Len(p) = Len(q)
  BY <1>2, <1>3, <1>4
<1>6. \A k \in 1..Len(p) : p[k] = q[k]
  BY <1>2, <1>3, <1>5
<1> QED BY <1>5, <1>6, SeqEqual

(* The path of a mount or node of the graph itself.                          *)
LEMMA BelowEmpty ==
  ASSUME NEW id \in STRING
  PROVE  /\ <<id>> \o <<>> = <<id>> /\ <<id>> \in Paths /\ Front(<<id>>) = <<>> /\ <<>> \in Seq(STRING)
         /\ Len(<<id>>) = 1
BY ConsEmpty DEF Paths

(* Mounting a graph moves the graphs of its items below the mount.           *)
LEMMA BelowFront ==
  ASSUME NEW id \in STRING, NEW p \in Paths
  PROVE  /\ Front(<<id>> \o p) = <<id>> \o Front(p) /\ Front(p) \in Seq(STRING)
         /\ <<id>> \o p \in Paths /\ \A other \in STRING : <<id>> \o p # <<other>>
<1> DEFINE u == <<id>> \o p
<1>1. p \in Seq(STRING) /\ Front(p) \in Seq(STRING) /\ Len(p) \in Nat \ {0} /\ Len(Front(p)) = Len(p) - 1
      /\ \A n \in 1..(Len(p) - 1) : Front(p)[n] = p[n]
  BY FrontIs DEF Paths
<1>2. /\ u \in Paths /\ u[1] = id /\ Len(u) = Len(p) + 1
      /\ \A k \in 1..Len(p) : u[k + 1] = p[k]
  BY <1>1, Below
<1>3. /\ <<id>> \o Front(p) \in Seq(STRING) /\ (<<id>> \o Front(p))[1] = id
      /\ Len(<<id>> \o Front(p)) = Len(Front(p)) + 1
      /\ \A k \in 1..Len(Front(p)) : (<<id>> \o Front(p))[k + 1] = Front(p)[k]
  BY <1>1, Below DEF Paths
<1> HIDE DEF u
<1>4. /\ Front(u) \in Seq(STRING) /\ Len(Front(u)) = Len(p)
      /\ \A n \in 1..Len(p) : Front(u)[n] = u[n]
  <2>1. Len(u) - 1 = Len(p)
    BY <1>1, <1>2
  <2> QED BY <1>2, <2>1, FrontIs
<1>5. ASSUME NEW n \in 1..Len(p) PROVE Front(u)[n] = (<<id>> \o Front(p))[n]
  <2>1. CASE n = 1
    BY <2>1, <1>2, <1>3, <1>4
  <2>2. CASE n # 1
    <3>1. PICK k \in 1..(Len(p) - 1) : n = k + 1
      <4>1. n - 1 \in 1..(Len(p) - 1) /\ n = n - 1 + 1
        BY <2>2, <1>1
      <4> QED BY <4>1
    <3>2. k \in 1..Len(p) /\ k \in 1..Len(Front(p))
      BY <1>1
    <3>3. u[k + 1] = p[k] /\ (<<id>> \o Front(p))[k + 1] = Front(p)[k] /\ Front(p)[k] = p[k]
      BY <3>2, <1>1, <1>2, <1>3
    <3> QED BY <3>1, <3>3, <1>4
  <2> QED BY <2>1, <2>2
<1>6. Len(<<id>> \o Front(p)) = Len(p)
  BY <1>1, <1>3
<1>7. Front(u) = <<id>> \o Front(p)
  BY <1>3, <1>4, <1>5, <1>6, SeqEqual
<1>8. \A other \in STRING : u # <<other>>
  <2> SUFFICES ASSUME NEW other \in STRING, u = <<other>> PROVE FALSE
    OBVIOUS
  <2>1. Len(u) = 1
    BY BelowEmpty
  <2>2. Len(u) = Len(p) + 1 /\ Len(p) \in Nat \ {0}
    BY <1>1, <1>2
  <2> QED BY <2>1, <2>2
<1> QED BY <1>1, <1>2, <1>7, <1>8 DEF u

--------------------------------------------------------------------------------
(* Drafts.                                                                 *)

(* The items a draft begins with.                                            *)
Begins(d) == Successors(d, START) \ {END}

(* How a transition reads that leads to items of its own graph.              *)
Follows(text, g, id, next) ==
  /\ DOMAIN next.to = Successors(text, id)
  /\ next.shape = "cond" <=> id \in DOMAIN text.cond
  /\ next.shape = "condFan" <=> id \in DOMAIN text.condFan
  /\ \A t \in DOMAIN next.to :
       IF t = END THEN next.to[t] = 0
       ELSE next.to[t] # 0 /\ Last(g.items[next.to[t]].path) = t

(* How the one reads that leads into a mount.                                *)
Opens(text, g, id, next) ==
  \A t \in DOMAIN next.to :
    Begins(ItemOf(text, id).draft) =
      IF g.items[next.to[t]].kind = "exit" THEN {} ELSE {Last(g.items[next.to[t]].path)}

(* An item of a compiled graph and how it reads in the text of its own graph.       *)
Reads(text, g, i) ==
  LET id == Last(g.items[i].path)
      next == g.items[i].next
  IN /\ id \in Ids(text)
     /\ g.items[i].kind # "node" <=> id \in Mounts(text)
     /\ IF g.items[i].kind = "enter" THEN Opens(text, g, id, next) ELSE Follows(text, g, id, next)

(* A compiled graph reads as its draft does, and as the drafts it mounts do.        *)
Mirrors(d, g) ==
  /\ \A i \in 1..Len(g.items) : Reads(DraftAt(d, Home(g, i)), g, i)
  /\ Begins(d) = IF g.entry = 0 THEN {} ELSE {Last(g.items[g.entry].path)}

(* The fields of a draft.                                                    *)
DraftFields == {"items", "fixed", "fan", "cond", "condFan"}

(* What the builder's calls maintain.                                         *)
GoodDraft(d) ==
  /\ DOMAIN d = DraftFields
  /\ \E S : d.items \in Seq(S)
  /\ \E S : d.fixed \in Seq(S)
  /\ \A i \in 1..Len(d.items) :
       /\ d.items[i].id \in STRING \ Reserved /\ d.items[i].mount \in BOOLEAN
       /\ WellFormed(d.items[i].graph)
       /\ ~ d.items[i].mount => Len(d.items[i].graph.items) = 0
       /\ d.items[i].mount => Mirrors(d.items[i].draft, d.items[i].graph)
  /\ \A i, j \in 1..Len(d.items) : d.items[i].id = d.items[j].id => i = j

(* The items of a draft and where they are found.                            *)
LEMMA DraftIs ==
  ASSUME NEW d, GoodDraft(d)
  PROVE  /\ Len(d.items) \in Nat /\ DOMAIN d.items = 1..Len(d.items)
         /\ IsFiniteSet(DOMAIN d.fixed)
         /\ Ids(d) = {d.items[i].id : i \in 1..Len(d.items)} /\ Ids(d) \subseteq STRING
         /\ END \notin Ids(d)
         /\ EntryOf(d, END) = 0
         /\ \A i \in 1..Len(d.items) :
              /\ d.items[i].id \in Ids(d) /\ EntryOf(d, d.items[i].id) = OwnIndex(d, i)
              /\ Len(d.items[i].graph.items) \in Nat
<1>1. Len(d.items) \in Nat /\ DOMAIN d.items = 1..Len(d.items)
  <2>1. PICK S : d.items \in Seq(S)
    BY DEF GoodDraft
  <2> QED BY <2>1
<1>2. IsFiniteSet(DOMAIN d.fixed)
  <2>1. PICK S : d.fixed \in Seq(S)
    BY DEF GoodDraft
  <2>2. DOMAIN d.fixed = 1..Len(d.fixed) /\ Len(d.fixed) \in Nat
    BY <2>1
  <2> QED BY <2>2, FS_Interval
<1>3. Ids(d) = {d.items[i].id : i \in 1..Len(d.items)}
  BY <1>1 DEF Ids
<1>4. \A i \in 1..Len(d.items) : d.items[i].id \in STRING /\ d.items[i].id # END
  BY DEF GoodDraft, Reserved
<1>5. Ids(d) \subseteq STRING /\ END \notin Ids(d)
  BY <1>3, <1>4
<1>6. EntryOf(d, END) = 0
  BY DEF EntryOf
<1>7. ASSUME NEW i \in 1..Len(d.items)
      PROVE  /\ d.items[i].id \in Ids(d) /\ EntryOf(d, d.items[i].id) = OwnIndex(d, i)
             /\ Len(d.items[i].graph.items) \in Nat
  <2>1. d.items[i].id \in Ids(d)
    BY <1>3
  <2>2. (CHOOSE j \in DOMAIN d.items : d.items[j].id = d.items[i].id) = i
    BY <1>1 DEF GoodDraft
  <2>3. EntryOf(d, d.items[i].id) = OwnIndex(d, i)
    BY <2>2, <1>4 DEF EntryOf
  <2>4. Len(d.items[i].graph.items) \in Nat
    BY DEF GoodDraft, WellFormed, Typed
  <2> QED BY <2>1, <2>3, <2>4
<1> QED BY <1>1, <1>2, <1>3, <1>5, <1>6, <1>7

(* The kinds of edges are finitely many.                                     *)
LEMMA KindsAre ==
  ASSUME NEW d, NEW id
  PROVE  IsFiniteSet(KindsOf(d, id)) /\ KindsOf(d, id) \subseteq Shapes
<1>1. KindsOf(d, id) \subseteq {"fan", "cond", "condFan", "fixed"}
  BY DEF KindsOf, SingleKinds
<1>2. {"fan", "cond", "condFan", "fixed"} = ((({} \cup {"fan"}) \cup {"cond"}) \cup {"condFan"}) \cup {"fixed"}
  OBVIOUS
<1>3. IsFiniteSet({} \cup {"fan"})
  BY FS_EmptySet, FS_AddElement
<1>4. IsFiniteSet(({} \cup {"fan"}) \cup {"cond"})
  BY <1>3, FS_AddElement
<1>5. IsFiniteSet((({} \cup {"fan"}) \cup {"cond"}) \cup {"condFan"})
  BY <1>4, FS_AddElement
<1>6. IsFiniteSet({"fan", "cond", "condFan", "fixed"})
  BY <1>2, <1>5, FS_AddElement
<1> QED BY <1>1, <1>6, FS_Subset DEF Shapes, SingleKinds

(* An accepted item has one kind of transition; the targets are its own.           *)
LEMMA TransitionIs ==
  ASSUME NEW d, GoodDraft(d), Accepts(d), NEW id \in Ids(d)
  PROVE  \E kind \in Shapes :
           /\ KindsOf(d, id) = {kind} /\ CompileTransition(d, id).shape = kind
           /\ kind = "fixed" => \A t, u \in Successors(d, id) : t = u
           /\ kind # "fixed" => /\ id \in DOMAIN d[kind]
                                /\ Successors(d, id) = ToSet(d[kind][id])
           /\ Successors(d, id) \subseteq Ids(d) \cup {END}
           /\ kind \in {"cond"} <=> id \in DOMAIN d.cond
<1>1. /\ Cardinality(KindsOf(d, id)) = 1 /\ Cardinality(FixedFrom(d, id)) <= 1
      /\ EndpointsKnown(d)
  BY DEF Accepts, OneTransitionEach
<1>2. PICK kind : KindsOf(d, id) = {kind}
  BY <1>1, KindsAre, FS_Singleton
<1>3. kind \in Shapes
  BY <1>2, KindsAre
<1>4. CompileTransition(d, id).shape = kind
  BY <1>2 DEF CompileTransition, Transition
<1>5. \A i, j \in FixedFrom(d, id) : i = j
  <2>1. IsFiniteSet(FixedFrom(d, id))
    BY DraftIs, FS_Subset DEF FixedFrom
  <2>2. Cardinality(FixedFrom(d, id)) \in Nat
    BY <2>1, FS_CardinalityType
  <2>3. CASE Cardinality(FixedFrom(d, id)) = 0
    BY <2>1, <2>3, FS_EmptySet
  <2>4. CASE Cardinality(FixedFrom(d, id)) = 1
    <3>1. \E i : FixedFrom(d, id) = {i}
      BY <2>1, <2>4, FS_Singleton
    <3> QED BY <3>1
  <2> QED BY <1>1, <2>2, <2>3, <2>4
<1>6. kind = "fixed" => Successors(d, id) = {d.fixed[i][2] : i \in FixedFrom(d, id)}
  <2>1. kind = "fixed" => KindsOf(d, id) \ {"fixed"} = {}
    BY <1>2
  <2> QED BY <2>1 DEF Successors
<1>7. ASSUME kind # "fixed"
      PROVE  id \in DOMAIN d[kind] /\ Successors(d, id) = ToSet(d[kind][id]) /\ kind \in SingleKinds
  <2>1. FixedFrom(d, id) = {}
    BY <1>2, <1>7 DEF KindsOf, SingleKinds
  <2>2. KindsOf(d, id) \ {"fixed"} = {kind}
    BY <1>2, <1>7
  <2>3. Successors(d, id) = ToSet(d[kind][id])
    BY <2>1, <2>2 DEF Successors
  <2>4. kind \in SingleKinds /\ id \in DOMAIN d[kind]
    BY <1>2, <1>7 DEF KindsOf
  <2> QED BY <2>3, <2>4
<1>8. Successors(d, id) \subseteq Ids(d) \cup {END}
  <2>1. CASE kind = "fixed"
    <3>1. \A i \in DOMAIN d.fixed : d.fixed[i][2] \in Ids(d) \cup {END}
      BY <1>1 DEF EndpointsKnown
    <3> QED BY <3>1, <2>1, <1>6 DEF FixedFrom
  <2>2. CASE kind # "fixed"
    <3>1. \A k \in SingleKinds : \A source \in DOMAIN d[k] : ToSet(d[k][source]) \subseteq Ids(d) \cup {END}
      BY <1>1 DEF EndpointsKnown
    <3> QED BY <3>1, <2>2, <1>7
  <2> QED BY <2>1, <2>2
<1>9. kind = "cond" <=> id \in DOMAIN d.cond
  <2>1. "cond" \in KindsOf(d, id) <=> id \in DOMAIN d["cond"]
    BY DEF KindsOf, SingleKinds
  <2> QED BY <2>1, <1>2
<1> QED BY <1>2, <1>3, <1>4, <1>5, <1>6, <1>7, <1>8, <1>9

(* A compiled transition has the declared targets, each with its item.       *)
LEMMA CompiledTransition ==
  ASSUME NEW d, GoodDraft(d), Accepts(d), NEW id \in Ids(d)
  PROVE  /\ DOMAIN CompileTransition(d, id).to = Successors(d, id)
         /\ \A t \in Successors(d, id) : CompileTransition(d, id).to[t] = EntryOf(d, t)
         /\ CompileTransition(d, id).shape \in Shapes
         /\ CompileTransition(d, id)
              = [shape |-> CompileTransition(d, id).shape, to |-> CompileTransition(d, id).to]
BY TransitionIs DEF CompileTransition, Transition

--------------------------------------------------------------------------------
(* The pairs compile finds.                                                  *)

(* Two different items are a pair.                                           *)
LEMMA PairIs ==
  ASSUME NEW ids, NEW t \in ids, NEW u \in ids, t # u, t # END, u # END
  PROVE  {t, u} \in Pairs(ids)
<1>1. IsFiniteSet({t}) /\ Cardinality({t}) = 1
  BY FS_Singleton
<1>2. Cardinality({t} \cup {u}) = 2
  BY <1>1, FS_AddElement
<1>3. {t} \cup {u} = {t, u}
  OBVIOUS
<1> QED BY <1>2, <1>3 DEF Pairs

(* The targets of a fan-out are co-scheduled.                                *)
LEMMA FanOutsCoScheduled ==
  ASSUME NEW d, GoodDraft(d), Accepts(d)
  PROVE  FanOutPairs(d) \subseteq CoScheduled(d)
<1>1. FanOutPairs(d) \subseteq Pairs(Ids(d))
  <2> SUFFICES ASSUME NEW p \in FanOutPairs(d) PROVE p \in Pairs(Ids(d))
    OBVIOUS
  <2>1. PICK kind \in {"fan", "condFan"} : \E source \in DOMAIN d[kind] : p \in Pairs(ToSet(d[kind][source]))
    BY DEF FanOutPairs
  <2>2. PICK source \in DOMAIN d[kind] : p \in Pairs(ToSet(d[kind][source]))
    BY <2>1
  <2>3. ToSet(d[kind][source]) \subseteq Ids(d) \cup {END}
    BY DEF Accepts, EndpointsKnown, SingleKinds
  <2> QED BY <2>2, <2>3 DEF Pairs
<1> QED BY <1>1 DEF CoScheduled

(* With a pair, those it brings together are co-scheduled.                   *)
LEMMA AfterCoScheduled ==
  ASSUME NEW d, NEW p \in CoScheduled(d)
  PROVE  PairsAfter(d, p) \subseteq CoScheduled(d)
<1>1. PairsAfter(d, p) \subseteq Pairs(Ids(d))
  <2> SUFFICES ASSUME NEW q \in PairsAfter(d, p) PROVE q \in Pairs(Ids(d))
    OBVIOUS
  <2>1. PICK choice \in [p -> SUBSET Ids(d)] : q \in Pairs(UNION {choice[a] : a \in p})
    BY DEF PairsAfter
  <2>2. UNION {choice[a] : a \in p} \subseteq Ids(d)
    OBVIOUS
  <2> QED BY <2>1, <2>2 DEF Pairs
<1> QED BY <1>1 DEF CoScheduled

(* An item may be left for any of its targets.                                 *)
LEMMA SomeAlternative ==
  ASSUME NEW d, GoodDraft(d), Accepts(d), NEW id \in Ids(d), NEW t \in Successors(d, id), t # END
  PROVE  \E a \in Alternatives(d, id) : t \in a /\ a \subseteq Ids(d)
<1>1. PICK kind \in Shapes :
           /\ kind # "fixed" => id \in DOMAIN d[kind] /\ Successors(d, id) = ToSet(d[kind][id])
           /\ Successors(d, id) \subseteq Ids(d) \cup {END}
           /\ kind \in {"cond"} <=> id \in DOMAIN d.cond
  BY TransitionIs
<1>2. CASE id \in DOMAIN d.cond
  <2>1. kind = "cond"
    BY <1>1, <1>2
  <2>2. Successors(d, id) = ToSet(d.cond[id])
    BY <1>1, <2>1
  <2>3. Alternatives(d, id) = {{target} \ {END} : target \in ToSet(d.cond[id])}
    BY <1>2 DEF Alternatives
  <2>4. {t} \ {END} \in Alternatives(d, id)
    BY <2>2, <2>3
  <2> QED BY <2>4, <1>1
<1>3. CASE id \notin DOMAIN d.cond
  <2>1. Alternatives(d, id) = {Successors(d, id) \ {END}}
    BY <1>3 DEF Alternatives
  <2> QED BY <2>1, <1>1
<1> QED BY <1>2, <1>3

(* What two co-scheduled items select is co-scheduled.                       *)
LEMMA TargetsCoScheduled ==
  ASSUME NEW d, GoodDraft(d), Accepts(d), NEW a \in Ids(d), NEW b \in Ids(d),
         {a, b} \in CoScheduled(d), a # b,
         NEW t \in Successors(d, a), NEW u \in Successors(d, b), t # END, u # END, t # u
  PROVE  {t, u} \in CoScheduled(d)
<1>1. PICK x \in Alternatives(d, a) : t \in x /\ x \subseteq Ids(d)
  BY SomeAlternative
<1>2. PICK y \in Alternatives(d, b) : u \in y /\ y \subseteq Ids(d)
  BY SomeAlternative
<1> DEFINE p == {a, b}
           choice == [c \in p |-> IF c = a THEN x ELSE y]
           all == UNION {choice[c] : c \in p}
<1>3. choice \in [p -> SUBSET Ids(d)] /\ \A c \in p : choice[c] \in Alternatives(d, c)
  BY <1>1, <1>2
<1>4. t \in all /\ u \in all
  <2>1. choice[a] = x /\ choice[b] = y
    OBVIOUS
  <2> QED BY <2>1, <1>1, <1>2
<1> HIDE DEF choice
<1>5. {t, u} \in Pairs(all)
  <2> HIDE DEF all
  <2> QED BY <1>4, PairIs
<1>6. {t, u} \in PairsAfter(d, p)
  <2> DEFINE choices == {c \in [p -> SUBSET Ids(d)] : \A e \in p : c[e] \in Alternatives(d, e)}
  <2>1. choice \in choices
    BY <1>3
  <2>2. PairsAfter(d, p) = UNION {Pairs(UNION {c[e] : e \in p}) : c \in choices}
    BY DEF PairsAfter
  <2> HIDE DEF choices, p
  <2>3. Pairs(all) \in {Pairs(UNION {c[e] : e \in p}) : c \in choices}
    BY <2>1
  <2> HIDE DEF all
  <2> QED BY <1>5, <2>2, <2>3
<1> QED BY <1>6, AfterCoScheduled

(* Two targets of one item that may be selected together.                         *)
LEMMA SelectedTogether ==
  ASSUME NEW d, GoodDraft(d), Accepts(d), NEW id \in Ids(d),
         NEW t \in Successors(d, id), NEW u \in Successors(d, id), t # END, u # END, t # u
  PROVE  /\ CompileTransition(d, id).shape # "fixed"
         /\ CompileTransition(d, id).shape # "cond" => {t, u} \in CoScheduled(d)
<1>1. PICK kind \in Shapes :
           /\ CompileTransition(d, id).shape = kind
           /\ kind = "fixed" => \A x, y \in Successors(d, id) : x = y
           /\ kind # "fixed" => /\ id \in DOMAIN d[kind]
                                /\ Successors(d, id) = ToSet(d[kind][id])
  BY TransitionIs
<1>2. kind # "fixed"
  BY <1>1
<1>3. ASSUME kind # "cond" PROVE {t, u} \in CoScheduled(d)
  <2>1. kind \in {"fan", "condFan"}
    BY <1>2, <1>3 DEF Shapes, SingleKinds
  <2>2. {t, u} \in Pairs(ToSet(d[kind][id]))
    BY <1>1, <1>2, PairIs
  <2>3. {t, u} \in FanOutPairs(d)
    BY <1>1, <1>2, <2>1, <2>2 DEF FanOutPairs
  <2> QED BY <2>3, FanOutsCoScheduled
<1> QED BY <1>1, <1>2, <1>3

(* compile has found no mount in a pair.                                     *)
LEMMA MountsAlone ==
  ASSUME NEW d, GoodDraft(d), Accepts(d), NEW i \in 1..Len(d.items), NEW p \in CoScheduled(d),
         d.items[i].id \in p
  PROVE  ~ d.items[i].mount
<1> SUFFICES ASSUME d.items[i].mount PROVE FALSE
  OBVIOUS
<1>1. d.items[i].id \in Mounts(d)
  BY DraftIs DEF Mounts
<1>2. MountsRunAlone(d)
  BY <1>1 DEF Accepts
<1> QED BY <1>1, <1>2 DEF MountsRunAlone

--------------------------------------------------------------------------------
(* The layout of a compiled graph.                                             *)

(* Offsets that never shrink lie between the first and the last.             *)
LEMMA OffsetsGrow ==
  ASSUME NEW n \in Nat, NEW off, \A i \in 1..(n + 1) : off[i] \in Nat,
         \A i \in 1..n : off[i] <= off[i + 1]
  PROVE  \A i \in 1..(n + 1) : off[1] <= off[i] /\ off[i] <= off[n + 1]
<1>1. ASSUME NEW i \in 1..(n + 1) PROVE off[1] <= off[i]
  <2> DEFINE Bad == {k \in 1..(n + 1) : ~ (off[1] <= off[k])}
  <2> SUFFICES ASSUME Bad # {} PROVE FALSE
    OBVIOUS
  <2>1. PICK m \in Bad : \A k \in Bad : m <= k
    <3>1. Bad \in SUBSET Nat
      OBVIOUS
    <3> HIDE DEF Bad
    <3> QED BY <3>1, LeastNumber
  <2>2. off[1] \in Nat /\ m # 1
    OBVIOUS
  <2>3. PICK q \in 1..n : m = q + 1
    <3>1. m - 1 \in 1..n /\ m = m - 1 + 1
      BY <2>2
    <3> QED BY <3>1
  <2>4. q \in 1..(n + 1) /\ q + 1 \in 1..(n + 1) /\ q \notin Bad
    BY <2>1, <2>3
  <2>5. off[1] <= off[q] /\ off[q] <= off[q + 1] /\ off[q] \in Nat /\ off[q + 1] \in Nat
    BY <2>4
  <2> QED BY <2>2, <2>3, <2>5
<1>2. ASSUME NEW i \in 1..(n + 1) PROVE off[i] <= off[n + 1]
  <2> DEFINE Bad == {k \in 0..n : ~ (off[n + 1 - k] <= off[n + 1])}
  <2>1. Bad = {}
    <3> SUFFICES ASSUME Bad # {} PROVE FALSE
      OBVIOUS
    <3>1. PICK m \in Bad : \A k \in Bad : m <= k
      <4>1. Bad \in SUBSET Nat
        OBVIOUS
      <4> HIDE DEF Bad
      <4> QED BY <4>1, LeastNumber
    <3>2. n + 1 - 0 = n + 1 /\ off[n + 1] \in Nat /\ m # 0
      OBVIOUS
    <3>3. PICK q \in 0..(n - 1) : m = q + 1
      <4>1. m - 1 \in 0..(n - 1) /\ m = m - 1 + 1
        BY <3>2
      <4> QED BY <4>1
    <3>4. PICK r \in 1..n : r = n + 1 - m
      <4>1. n + 1 - m \in 1..n
        BY <3>3
      <4> QED BY <4>1
    <3>5. r + 1 = n + 1 - q /\ r + 1 \in 1..(n + 1) /\ r \in 1..(n + 1) /\ q \in 0..n /\ q \notin Bad
      BY <3>1, <3>3, <3>4
    <3>6. off[r + 1] <= off[n + 1]
      BY <3>5
    <3>7. off[r] <= off[r + 1] /\ off[r] \in Nat /\ off[r + 1] \in Nat
      BY <3>5
    <3>8. ~ (off[r] <= off[n + 1])
      BY <3>4
    <3> QED BY <3>2, <3>6, <3>7, <3>8
  <2>2. n + 1 - i \in 0..n /\ n + 1 - (n + 1 - i) = i
    OBVIOUS
  <2> QED BY <2>1, <2>2
<1> QED BY <1>1, <1>2

(* The number of items of a compiled graph.                                  *)
Total(d) == ChildBase(d, Len(d.items) + 1)

(* Where the items of a draft and of its children lie.                       *)
LEMMA PlacesAre ==
  ASSUME NEW d, GoodDraft(d)
  PROVE  /\ OwnSize(d) \in Nat /\ Total(d) \in Nat /\ OwnSize(d) <= Total(d)
         /\ \A i \in 1..Len(d.items) :
              /\ OwnIndex(d, i) \in 1..OwnSize(d)
              /\ d.items[i].mount => OwnIndex(d, i) + 1 \in 1..OwnSize(d)
              /\ ChildBase(d, i) \in Nat /\ OwnSize(d) <= ChildBase(d, i)
              /\ ChildBase(d, i) + Len(d.items[i].graph.items) <= Total(d)
<1>1. PICK n \in Nat : n = Len(d.items)
  BY DraftIs
<1>2. \A i \in 1..n : Len(d.items[i].graph.items) \in Nat
  BY <1>1, DraftIs
<1> DEFINE own == [i \in 1..(n + 1) |-> OwnIndex(d, i)]
           base == [i \in 1..(n + 1) |-> ChildBase(d, i)]
<1>3. /\ \A i \in 1..(n + 1) : own[i] = OwnIndex(d, i) /\ own[i] \in Nat \ {0}
      /\ \A i \in 1..n : own[i + 1] = own[i] + (IF d.items[i].mount THEN 2 ELSE 1)
  <2>1. \A i \in 1..(n + 1) : own[i] = OwnIndex(d, i) /\ own[i] \in Nat \ {0}
    BY OwnIndexSteps
  <2>2. ASSUME NEW i \in 1..n PROVE own[i + 1] = own[i] + (IF d.items[i].mount THEN 2 ELSE 1)
    <3>1. i \in 1..(n + 1) /\ i + 1 \in 1..(n + 1) /\ i \in Nat \ {0}
      OBVIOUS
    <3>2. OwnIndex(d, i + 1) = OwnIndex(d, i) + (IF d.items[i].mount THEN 2 ELSE 1)
      BY <3>1, OwnIndexSteps
    <3> QED BY <3>1, <3>2
  <2> QED BY <2>1, <2>2
<1>4. /\ base[1] = OwnSize(d) /\ base[n + 1] = Total(d)
      /\ \A i \in 1..n : base[i] = ChildBase(d, i)
      /\ \A i \in 1..n : base[i + 1] = base[i] + Len(d.items[i].graph.items)
  <2>1. /\ ChildBase(d, 1) = OwnSize(d)
        /\ \A k \in 1..n : ChildBase(d, k + 1) = ChildBase(d, k) + Len(d.items[k].graph.items)
    BY <1>1, <1>2, ChildBaseSteps
  <2>2. 1 \in 1..(n + 1) /\ n + 1 \in 1..(n + 1) /\ \A i \in 1..n : i \in 1..(n + 1) /\ i + 1 \in 1..(n + 1)
    OBVIOUS
  <2>3. base[1] = OwnSize(d) /\ base[n + 1] = Total(d)
    BY <2>1, <2>2, <1>1 DEF Total
  <2> QED BY <2>1, <2>2, <2>3
<1>5. OwnSize(d) = own[n + 1] - 1 /\ OwnSize(d) \in Nat
  <2>1. n + 1 \in 1..(n + 1)
    OBVIOUS
  <2>2. own[n + 1] = OwnIndex(d, n + 1) /\ own[n + 1] \in Nat \ {0}
    BY <2>1, <1>3
  <2> QED BY <2>2, <1>1 DEF OwnSize
<1> HIDE DEF own, base
<1>6. ASSUME NEW i \in 1..n
      PROVE  own[i] \in 1..OwnSize(d) /\ (d.items[i].mount => own[i] + 1 \in 1..OwnSize(d))
  <2>1. \A k \in 1..n : own[k] <= own[k + 1]
    <3> SUFFICES ASSUME NEW k \in 1..n PROVE own[k] <= own[k + 1]
      OBVIOUS
    <3>1. k \in 1..(n + 1)
      OBVIOUS
    <3> QED BY <3>1, <1>3
  <2>2. \A k \in 1..(n + 1) : own[k] <= own[n + 1]
    <3>1. \A k \in 1..(n + 1) : own[k] \in Nat
      BY <1>3
    <3> QED BY <3>1, <2>1, OffsetsGrow
  <2>3. i \in 1..(n + 1) /\ i + 1 \in 1..(n + 1) /\ n + 1 \in 1..(n + 1)
    OBVIOUS
  <2>4. own[i] \in Nat \ {0} /\ own[n + 1] \in Nat \ {0} /\ own[i + 1] <= own[n + 1]
        /\ own[i + 1] = own[i] + (IF d.items[i].mount THEN 2 ELSE 1)
    BY <2>2, <2>3, <1>3
  <2> QED BY <2>4, <1>5
<1>7. \A i \in 1..(n + 1) : base[i] \in Nat
  <2> DEFINE Bad == {i \in 1..(n + 1) : base[i] \notin Nat}
  <2> SUFFICES ASSUME Bad # {} PROVE FALSE
    OBVIOUS
  <2>1. PICK m \in Bad : \A k \in Bad : m <= k
    <3>1. Bad \in SUBSET Nat
      OBVIOUS
    <3> HIDE DEF Bad
    <3> QED BY <3>1, LeastNumber
  <2>2. m # 1
    BY <1>4, <1>5
  <2>3. PICK q \in 1..n : m = q + 1
    <3>1. m - 1 \in 1..n /\ m = m - 1 + 1
      BY <2>2
    <3> QED BY <3>1
  <2>4. q \in 1..(n + 1) /\ q \notin Bad
    BY <2>1, <2>3
  <2>5. base[q] \in Nat /\ base[q + 1] = base[q] + Len(d.items[q].graph.items)
    BY <2>4, <1>4
  <2>6. Len(d.items[q].graph.items) \in Nat
    BY <1>2
  <2>7. base[q + 1] \in Nat
    <3>1. PICK a \in Nat, b \in Nat : a = base[q] /\ b = Len(d.items[q].graph.items)
      BY <2>5, <2>6
    <3>2. base[q + 1] = a + b
      BY <2>5, <3>1
    <3> QED BY <3>2
  <2>8. base[m] \notin Nat
    BY <2>1
  <2> QED BY <2>3, <2>7, <2>8
<1>8. \A i \in 1..n : base[i] <= base[i + 1]
  <2> SUFFICES ASSUME NEW k \in 1..n PROVE base[k] <= base[k + 1]
    OBVIOUS
  <2>1. k \in 1..(n + 1)
    OBVIOUS
  <2>2. base[k] \in Nat /\ Len(d.items[k].graph.items) \in Nat
    BY <2>1, <1>2, <1>7
  <2>3. base[k + 1] = base[k] + Len(d.items[k].graph.items)
    BY <1>4
  <2> QED BY <2>2, <2>3
<1>9. \A i \in 1..(n + 1) : base[1] <= base[i] /\ base[i] <= base[n + 1]
  BY <1>7, <1>8, OffsetsGrow
<1>10. ASSUME NEW i \in 1..n
       PROVE  /\ ChildBase(d, i) \in Nat /\ OwnSize(d) <= ChildBase(d, i)
              /\ ChildBase(d, i) + Len(d.items[i].graph.items) <= Total(d)
  <2>1. i \in 1..(n + 1) /\ i + 1 \in 1..(n + 1)
    OBVIOUS
  <2>2. base[i] \in Nat /\ base[1] <= base[i] /\ base[i + 1] <= base[n + 1]
    BY <2>1, <1>7, <1>9
  <2> QED BY <2>2, <1>4
<1>11. Total(d) \in Nat /\ OwnSize(d) <= Total(d)
  <2>1. n + 1 \in 1..(n + 1)
    OBVIOUS
  <2> QED BY <2>1, <1>4, <1>7, <1>9
<1>12. \A i \in 1..n : own[i] = OwnIndex(d, i)
  <2>1. \A i \in 1..n : i \in 1..(n + 1)
    OBVIOUS
  <2> QED BY <2>1, <1>3
<1> QED BY <1>1, <1>5, <1>6, <1>10, <1>11, <1>12

(* A target's item is one of the graph's own.                                *)
LEMMA EntryIs ==
  ASSUME NEW d, GoodDraft(d), NEW t \in Ids(d) \cup {END}
  PROVE  /\ t \in STRING \cup {END} /\ EntryOf(d, t) \in 0..OwnSize(d)
         /\ t = END => EntryOf(d, t) = 0
         /\ t # END => \E j \in 1..Len(d.items) : d.items[j].id = t /\ EntryOf(d, t) = OwnIndex(d, j)
<1>1. CASE t = END
  <2> QED BY <1>1, DraftIs, PlacesAre
<1>2. CASE t # END
  <2>1. PICK j \in 1..Len(d.items) : t = d.items[j].id
    BY <1>2, DraftIs
  <2>2. EntryOf(d, t) = OwnIndex(d, j) /\ t \in STRING
    BY <2>1, DraftIs
  <2>3. OwnIndex(d, j) \in 0..OwnSize(d)
    BY PlacesAre
  <2> QED BY <1>2, <2>1, <2>2, <2>3
<1> QED BY <1>1, <1>2

(* The type of a compiled transition.                                        *)
LEMMA TransitionTyped ==
  ASSUME NEW d, GoodDraft(d), Accepts(d), NEW id \in Ids(d)
  PROVE  CompileTransition(d, id) \in [shape : Shapes, to : Targets(Total(d))]
<1> DEFINE to == CompileTransition(d, id).to
<1>1. /\ DOMAIN to = Successors(d, id) /\ \A t \in Successors(d, id) : to[t] = EntryOf(d, t)
      /\ CompileTransition(d, id).shape \in Shapes
      /\ CompileTransition(d, id) = [shape |-> CompileTransition(d, id).shape, to |-> to]
  BY CompiledTransition
<1>2. to = [t \in Successors(d, id) |-> EntryOf(d, t)]
  BY DEF CompileTransition, Transition
<1> HIDE DEF to
<1>3. Successors(d, id) \subseteq Ids(d) \cup {END}
  BY TransitionIs
<1>4. OwnSize(d) \in Nat /\ Total(d) \in Nat /\ OwnSize(d) <= Total(d)
  BY PlacesAre
<1>5. ASSUME NEW t \in Successors(d, id) PROVE t \in STRING \cup {END} /\ EntryOf(d, t) \in 0..Total(d)
  <2>1. t \in STRING \cup {END} /\ EntryOf(d, t) \in 0..OwnSize(d)
    BY <1>3, EntryIs
  <2>2. PICK e : e = EntryOf(d, t)
    OBVIOUS
  <2>3. PICK a \in Nat, b \in Nat : a = OwnSize(d) /\ b = Total(d)
    BY <1>4
  <2>4. e \in 0..a /\ a <= b
    BY <2>1, <2>2, <2>3, <1>4
  <2>5. e \in 0..b
    BY <2>4
  <2> QED BY <2>1, <2>2, <2>3, <2>5
<1>6. Successors(d, id) \in SUBSET (STRING \cup {END}) /\ to \in [Successors(d, id) -> 0..Total(d)]
  BY <1>2, <1>5
<1>7. to \in Targets(Total(d))
  BY <1>6 DEF Targets
<1> QED BY <1>1, <1>7

(* The items a node or a mount contributes.                                    *)
LEMMA OwnItemsAre ==
  ASSUME NEW d, GoodDraft(d), Accepts(d), NEW i \in 1..Len(d.items)
  PROVE  LET item == d.items[i]
             next == CompileTransition(d, item.id)
             own == OwnItems(d, i)
             enter == EnterTarget(item.graph, ChildBase(d, i), OwnIndex(d, i) + 1)
         IN /\ own \in Seq(CompiledItems(Total(d)))
            /\ Len(own) = IF item.mount THEN 2 ELSE 1
            /\ ~ item.mount => own[1] = [kind |-> "node", path |-> <<item.id>>, scope |-> <<>>, next |-> next]
            /\ item.mount =>
                 /\ own[1] = [kind |-> "enter", path |-> <<item.id>>, scope |-> <<item.id>>,
                              next |-> [shape |-> "fixed", to |-> [s \in {item.id} |-> enter]]]
                 /\ own[2] = [kind |-> "exit", path |-> <<item.id>>, scope |-> <<item.id>>, next |-> next]
<1> DEFINE item == d.items[i]
           next == CompileTransition(d, item.id)
           own == OwnItems(d, i)
           enter == EnterTarget(item.graph, ChildBase(d, i), OwnIndex(d, i) + 1)
           one == [kind |-> "node", path |-> <<item.id>>, scope |-> <<>>, next |-> next]
           in == [kind |-> "enter", path |-> <<item.id>>, scope |-> <<item.id>>,
                  next |-> [shape |-> "fixed", to |-> [s \in {item.id} |-> enter]]]
           out == [kind |-> "exit", path |-> <<item.id>>, scope |-> <<item.id>>, next |-> next]
<1>1. item.id \in STRING /\ item.id \in Ids(d) /\ item.mount \in BOOLEAN
  BY DraftIs DEF GoodDraft
<1>2. next \in [shape : Shapes, to : Targets(Total(d))]
  BY <1>1, TransitionTyped
<1>3. <<item.id>> \in Paths /\ <<item.id>> \in Seq(STRING) /\ <<>> \in Seq(STRING)
  BY <1>1, BelowEmpty DEF Paths
<1>4. own = IF item.mount THEN <<in, out>> ELSE <<one>>
  BY DEF OwnItems, Transition
<1>5. item.mount => enter \in 0..Total(d)
  <2> SUFFICES ASSUME item.mount PROVE enter \in 0..Total(d)
    OBVIOUS
  <2>1. /\ OwnSize(d) \in Nat /\ Total(d) \in Nat /\ OwnSize(d) <= Total(d)
        /\ OwnIndex(d, i) + 1 \in 1..OwnSize(d)
        /\ ChildBase(d, i) \in Nat
        /\ ChildBase(d, i) + Len(item.graph.items) <= Total(d)
    BY PlacesAre
  <2>2. item.graph.entry \in 0..Len(item.graph.items) /\ Len(item.graph.items) \in Nat
    BY DEF GoodDraft, WellFormed, Typed
  <2>3. CASE item.graph.entry = 0
    BY <2>1, <2>3 DEF EnterTarget
  <2>4. CASE item.graph.entry # 0
    <3>1. enter = item.graph.entry + ChildBase(d, i)
      BY <2>4 DEF EnterTarget
    <3>2. PICK a, b, c, e :
                a = item.graph.entry /\ b = ChildBase(d, i) /\ c = Len(item.graph.items) /\ e = Total(d)
      OBVIOUS
    <3>3. a \in 0..c /\ b + c <= e /\ b \in Nat /\ c \in Nat /\ e \in Nat
      BY <2>1, <2>2, <3>2
    <3>4. a + b \in 0..e
      BY <3>3
    <3> QED BY <3>1, <3>2, <3>4
  <2> QED BY <2>3, <2>4
<1> HIDE DEF own, item, next, enter
<1>6. one \in CompiledItems(Total(d)) /\ out \in CompiledItems(Total(d))
  BY <1>2, <1>3 DEF CompiledItems
<1>7. item.mount => in \in CompiledItems(Total(d))
  <2> SUFFICES ASSUME item.mount PROVE in \in CompiledItems(Total(d))
    OBVIOUS
  <2>1. {item.id} \in SUBSET (STRING \cup {END}) /\ [s \in {item.id} |-> enter] \in [{item.id} -> 0..Total(d)]
    BY <1>1, <1>5
  <2>2. [s \in {item.id} |-> enter] \in Targets(Total(d))
    BY <2>1 DEF Targets
  <2> QED BY <2>2, <1>3 DEF CompiledItems, Shapes
<1> HIDE DEF one, in, out
<1>8. own \in Seq(CompiledItems(Total(d)))
  BY <1>1, <1>4, <1>6, <1>7
<1>9. Len(own) = IF item.mount THEN 2 ELSE 1
  BY <1>1, <1>4
<1>10. (~ item.mount => own[1] = one) /\ (item.mount => own[1] = in /\ own[2] = out)
  BY <1>1, <1>4
<1> QED BY <1>8, <1>9, <1>10 DEF one, in, out, own, item, next, enter

(* b is item c of a graph mounted as id, renumbered and below its mount.              *)
Lowered(b, c, id, base) ==
  /\ b.kind = c.kind
  /\ b.path = <<id>> \o c.path
  /\ b.scope = <<id>> \o c.scope
  /\ b.next.shape = c.next.shape
  /\ b.next.to = [t \in DOMAIN c.next.to |-> Shift(c.next.to[t], base)]

(* The items of a child, renumbered and below its mount.                           *)
LEMMA ChildItemsAre ==
  ASSUME NEW d, GoodDraft(d), NEW i \in 1..Len(d.items)
  PROVE  /\ ChildOf(d, i).items \in Seq(CompiledItems(Total(d)))
         /\ Len(ChildOf(d, i).items) = Len(d.items[i].graph.items)
         /\ \A k \in 1..Len(d.items[i].graph.items) :
              Lowered(ChildOf(d, i).items[k], d.items[i].graph.items[k], d.items[i].id, ChildBase(d, i))
<1> DEFINE g == d.items[i].graph
           base == ChildBase(d, i)
           id == d.items[i].id
           below == ChildOf(d, i).items
<1>1. /\ base \in Nat /\ Total(d) \in Nat /\ base + Len(g.items) <= Total(d) /\ id \in STRING
      /\ g.items \in Seq(CompiledItems(Len(g.items))) /\ Len(g.items) \in Nat
      /\ DOMAIN g.items = 1..Len(g.items)
  <2>1. g.items \in Seq(CompiledItems(Len(g.items))) /\ id \in STRING
    BY DEF GoodDraft, WellFormed, Typed
  <2>2. Len(g.items) \in Nat /\ DOMAIN g.items = 1..Len(g.items)
    BY <2>1
  <2> QED BY <2>1, <2>2, PlacesAre
<1>2. below = [k \in DOMAIN g.items |->
                [g.items[k] EXCEPT !.scope = <<id>> \o @, !.path = <<id>> \o @,
                                   !.next = Remap(@, base)]]
  BY DEF ChildOf, AppendGraph
<1> HIDE DEF g, base, id, below
<1>3. ASSUME NEW k \in 1..Len(g.items)
      PROVE  /\ below[k].kind = g.items[k].kind
             /\ below[k].path = <<id>> \o g.items[k].path
             /\ below[k].scope = <<id>> \o g.items[k].scope
             /\ below[k].next.shape = g.items[k].next.shape
             /\ below[k].next.to = [t \in DOMAIN g.items[k].next.to |-> Shift(g.items[k].next.to[t], base)]
             /\ below[k] \in CompiledItems(Total(d))
  <2>1. PICK c : c = g.items[k]
    OBVIOUS
  <2>2. c \in CompiledItems(Len(g.items))
    BY <1>1, <2>1
  <2>3. PICK kind \in {"node", "enter", "exit"}, path \in Paths, scope \in Seq(STRING),
             shape \in Shapes, to \in Targets(Len(g.items)) :
          c = [kind |-> kind, path |-> path, scope |-> scope, next |-> [shape |-> shape, to |-> to]]
    <3>1. /\ c = [kind |-> c.kind, path |-> c.path, scope |-> c.scope, next |-> c.next]
          /\ c.kind \in {"node", "enter", "exit"} /\ c.path \in Paths /\ c.scope \in Seq(STRING)
          /\ c.next \in [shape : Shapes, to : Targets(Len(g.items))]
      BY <2>2 DEF CompiledItems
    <3>2. c.next = [shape |-> c.next.shape, to |-> c.next.to] /\ c.next.shape \in Shapes
          /\ c.next.to \in Targets(Len(g.items))
      BY <3>1
    <3> QED BY <3>1, <3>2
  <2> DEFINE moved == [t \in DOMAIN to |-> Shift(to[t], base)]
             new == [kind |-> kind, path |-> <<id>> \o path, scope |-> <<id>> \o scope,
                     next |-> [shape |-> shape, to |-> moved]]
  <2>4. below[k] = [c EXCEPT !.scope = <<id>> \o @, !.path = <<id>> \o @, !.next = Remap(@, base)]
    BY <1>1, <1>2, <2>1
  <2>5. Remap([shape |-> shape, to |-> to], base) = [shape |-> shape, to |-> moved]
    BY DEF Remap
  <2>6. below[k] = new
    BY <2>3, <2>4, <2>5
  <2>7. moved \in Targets(Total(d))
    <3>1. PICK D \in SUBSET (STRING \cup {END}) : to \in [D -> 0..Len(g.items)]
      BY DEF Targets
    <3>2. \A t \in D : Shift(to[t], base) \in 0..Total(d)
      <4> SUFFICES ASSUME NEW t \in D PROVE Shift(to[t], base) \in 0..Total(d)
        OBVIOUS
      <4>1. PICK x \in 0..Len(g.items) : x = to[t]
        BY <3>1
      <4>2. Shift(x, base) \in 0..Total(d)
        BY <1>1 DEF Shift
      <4> QED BY <4>1, <4>2
    <3>3. moved \in [D -> 0..Total(d)]
      BY <3>1, <3>2
    <3> QED BY <3>3 DEF Targets
  <2>8. <<id>> \o path \in Paths /\ <<id>> \o scope \in Seq(STRING)
    <3>1. path \in Seq(STRING)
      BY DEF Paths
    <3> QED BY <3>1, <1>1, Below DEF Paths
  <2>9. new \in CompiledItems(Total(d))
    <3> HIDE DEF moved
    <3> QED BY <2>7, <2>8 DEF CompiledItems
  <2>10. c.kind = kind /\ c.path = path /\ c.scope = scope /\ c.next.shape = shape /\ c.next.to = to
    BY <2>3
  <2> QED BY <2>1, <2>6, <2>9, <2>10
<1>4. below \in [1..Len(g.items) -> CompiledItems(Total(d))]
  <2>1. DOMAIN below = 1..Len(g.items) /\ below = [k \in DOMAIN below |-> below[k]]
    BY <1>1, <1>2
  <2> QED BY <2>1, <1>3
<1>5. below \in Seq(CompiledItems(Total(d))) /\ Len(below) = Len(g.items)
  BY <1>1, <1>4
<1>6. \A k \in 1..Len(g.items) : Lowered(below[k], g.items[k], id, base)
  BY <1>3 DEF Lowered
<1> QED BY <1>5, <1>6 DEF g, base, id, below

(* Every item of a compiled graph is an item's own or one of a child's.             *)
LEMMA LayoutIs ==
  ASSUME NEW d, GoodDraft(d), Accepts(d)
  PROVE  LET s == Compile(d).items IN
         /\ s \in Seq(CompiledItems(Total(d))) /\ Len(s) = Total(d)
         /\ \A i \in 1..Len(d.items) :
              /\ s[OwnIndex(d, i)] = OwnItems(d, i)[1]
              /\ d.items[i].mount => s[OwnIndex(d, i) + 1] = OwnItems(d, i)[2]
              /\ \A k \in 1..Len(d.items[i].graph.items) :
                   /\ ChildBase(d, i) + k \in 1..Total(d)
                   /\ s[ChildBase(d, i) + k] = ChildOf(d, i).items[k]
         /\ \A x \in 1..Total(d) : \E i \in 1..Len(d.items) :
              \/ x = OwnIndex(d, i)
              \/ d.items[i].mount /\ x = OwnIndex(d, i) + 1
              \/ \E k \in 1..Len(d.items[i].graph.items) : x = ChildBase(d, i) + k
<1>1. PICK n \in Nat : n = Len(d.items) /\ DOMAIN d.items = 1..n
  BY DraftIs
<1>2. PICK S : S = CompiledItems(Total(d))
  OBVIOUS
<1>3. PICK mine : mine = [i \in 1..n |-> OwnItems(d, i)]
  OBVIOUS
<1>4. PICK theirs : theirs = [i \in 1..n |-> ChildOf(d, i).items]
  OBVIOUS
<1>5. \A i \in 1..n : /\ mine[i] = OwnItems(d, i) /\ mine[i] \in Seq(S)
                      /\ Len(mine[i]) = IF d.items[i].mount THEN 2 ELSE 1
  <2> SUFFICES ASSUME NEW i \in 1..n
               PROVE  /\ mine[i] = OwnItems(d, i) /\ mine[i] \in Seq(S)
                      /\ Len(mine[i]) = IF d.items[i].mount THEN 2 ELSE 1
    OBVIOUS
  <2>1. /\ OwnItems(d, i) \in Seq(S)
        /\ Len(OwnItems(d, i)) = IF d.items[i].mount THEN 2 ELSE 1
    BY <1>1, <1>2, OwnItemsAre
  <2> QED BY <2>1, <1>3
<1>6. \A i \in 1..n : /\ theirs[i] = ChildOf(d, i).items /\ theirs[i] \in Seq(S)
                      /\ Len(theirs[i]) = Len(d.items[i].graph.items)
  <2> SUFFICES ASSUME NEW i \in 1..n
               PROVE  /\ theirs[i] = ChildOf(d, i).items /\ theirs[i] \in Seq(S)
                      /\ Len(theirs[i]) = Len(d.items[i].graph.items)
    OBVIOUS
  <2>1. /\ ChildOf(d, i).items \in Seq(S)
        /\ Len(ChildOf(d, i).items) = Len(d.items[i].graph.items)
    BY <1>1, <1>2, ChildItemsAre
  <2> QED BY <2>1, <1>4
<1>7. mine \in [1..n -> Seq(S)] /\ theirs \in [1..n -> Seq(S)]
  BY <1>3, <1>4, <1>5, <1>6
<1> DEFINE ownOff == [i \in 1..(n + 1) |-> OwnIndex(d, i) - 1]
           childOff == [i \in 1..(n + 1) |-> ChildBase(d, i) - OwnSize(d)]
<1>8. /\ \A i \in 1..(n + 1) : ownOff[i] = OwnIndex(d, i) - 1 /\ OwnIndex(d, i) \in Nat \ {0}
      /\ ownOff[1] = 0 /\ ownOff[n + 1] = OwnSize(d)
      /\ \A i \in 1..n : ownOff[i + 1] = ownOff[i] + Len(mine[i])
  <2>1. \A i \in 1..(n + 1) : ownOff[i] = OwnIndex(d, i) - 1 /\ OwnIndex(d, i) \in Nat \ {0}
    BY OwnIndexSteps
  <2>2. 1 \in 1..(n + 1) /\ n + 1 \in 1..(n + 1) /\ 1 \in Nat \ {0}
    OBVIOUS
  <2>3. OwnIndex(d, 1) = 1
    BY <2>2, OwnIndexSteps
  <2>4. ownOff[1] = 0 /\ ownOff[n + 1] = OwnSize(d)
    BY <2>1, <2>2, <2>3, <1>1 DEF OwnSize
  <2>5. ASSUME NEW i \in 1..n PROVE ownOff[i + 1] = ownOff[i] + Len(mine[i])
    <3>1. i \in 1..(n + 1) /\ i + 1 \in 1..(n + 1) /\ i \in Nat \ {0}
      OBVIOUS
    <3>5. OwnIndex(d, i + 1) = OwnIndex(d, i) + (IF d.items[i].mount THEN 2 ELSE 1)
      BY <3>1, OwnIndexSteps
    <3>2. OwnIndex(d, i + 1) = OwnIndex(d, i) + Len(mine[i]) /\ Len(mine[i]) \in Nat
      <4>1. Len(mine[i]) = IF d.items[i].mount THEN 2 ELSE 1
        BY <1>5
      <4> QED BY <3>5, <4>1
    <3>3. PICK a \in Nat, b, c \in Nat : a = OwnIndex(d, i) /\ b = OwnIndex(d, i + 1) /\ c = Len(mine[i])
      BY <3>1, <3>2, <2>1
    <3>4. b = a + c /\ b - 1 = (a - 1) + c
      BY <3>2, <3>3
    <3> QED BY <3>1, <3>3, <3>4, <2>1
  <2> QED BY <2>1, <2>4, <2>5
<1>9. /\ \A i \in 1..(n + 1) : childOff[i] = ChildBase(d, i) - OwnSize(d)
      /\ \A i \in 1..n : ChildBase(d, i) \in Nat
      /\ OwnSize(d) \in Nat /\ Total(d) \in Nat
      /\ childOff[1] = 0 /\ childOff[n + 1] = Total(d) - OwnSize(d)
      /\ \A i \in 1..n : childOff[i + 1] = childOff[i] + Len(theirs[i])
  <2>1. \A i \in 1..(n + 1) : childOff[i] = ChildBase(d, i) - OwnSize(d)
    OBVIOUS
  <2>2. 1 \in 1..(n + 1) /\ n + 1 \in 1..(n + 1)
    OBVIOUS
  <2>3. /\ ChildBase(d, 1) = OwnSize(d)
        /\ \A k \in 1..n : ChildBase(d, k + 1) = ChildBase(d, k) + Len(d.items[k].graph.items)
    BY <1>1, DraftIs, ChildBaseSteps
  <2>4. /\ OwnSize(d) \in Nat /\ Total(d) \in Nat
        /\ \A i \in 1..n : ChildBase(d, i) \in Nat /\ Len(d.items[i].graph.items) \in Nat
    BY <1>1, PlacesAre, DraftIs
  <2>5. childOff[1] = 0 /\ childOff[n + 1] = Total(d) - OwnSize(d)
    BY <2>1, <2>2, <2>3, <2>4, <1>1 DEF Total
  <2>6. ASSUME NEW i \in 1..n PROVE childOff[i + 1] = childOff[i] + Len(theirs[i])
    <3>1. i \in 1..(n + 1) /\ i + 1 \in 1..(n + 1)
      OBVIOUS
    <3>2. ChildBase(d, i + 1) = ChildBase(d, i) + Len(theirs[i]) /\ Len(theirs[i]) \in Nat
      BY <2>3, <2>4, <1>6
    <3>3. PICK a \in Nat, b, c \in Nat, e \in Nat :
            a = ChildBase(d, i) /\ b = ChildBase(d, i + 1) /\ c = Len(theirs[i]) /\ e = OwnSize(d)
      BY <3>2, <2>4
    <3>4. b = a + c /\ b - e = (a - e) + c
      BY <3>2, <3>3
    <3> QED BY <3>1, <3>3, <3>4, <2>1
  <2> QED BY <2>1, <2>4, <2>5, <2>6
<1> HIDE DEF ownOff, childOff
<1>10. PICK left : left = FlattenSeq(mine)
  OBVIOUS
<1>11. PICK right : right = FlattenSeq(theirs)
  OBVIOUS
<1>12. Strung(left, S, n, mine, ownOff)
  BY <1>7, <1>8, <1>10, FlattenIs
<1>13. Strung(right, S, n, theirs, childOff)
  BY <1>7, <1>9, <1>11, FlattenIs
<1>14. PICK o \in Nat : o = OwnSize(d)
  BY <1>9
<1>15. PICK r \in Nat : r = Total(d) - o
  BY <1>9, <1>14, PlacesAre
<1>16. /\ left \in Seq(S) /\ Len(left) = o
       /\ \A i \in 1..n : \A k \in 1..Len(mine[i]) : /\ ownOff[i] + k \in 1..o
                                                     /\ left[ownOff[i] + k] = mine[i][k]
       /\ \A x \in 1..o : \E i \in 1..n : \E k \in 1..Len(mine[i]) : x = ownOff[i] + k
  BY <1>8, <1>12, <1>14 DEF Strung
<1>17. /\ right \in Seq(S) /\ Len(right) = r
       /\ \A i \in 1..n : \A k \in 1..Len(theirs[i]) : /\ childOff[i] + k \in 1..r
                                                       /\ right[childOff[i] + k] = theirs[i][k]
       /\ \A x \in 1..r : \E i \in 1..n : \E k \in 1..Len(theirs[i]) : x = childOff[i] + k
  BY <1>9, <1>13, <1>14, <1>15 DEF Strung
<1>18. PICK s : s = left \o right
  OBVIOUS
<1>19. /\ s \in Seq(S) /\ Len(s) = o + r
       /\ \A x \in 1..(o + r) : s[x] = IF x <= o THEN left[x] ELSE right[x - o]
  BY <1>16, <1>17, <1>18, ConcatProperties
<1>20. s = Compile(d).items
  <2>1. Compile(d).items = FlattenSeq([i \in DOMAIN d.items |-> OwnItems(d, i)])
                           \o FlattenSeq([i \in DOMAIN d.items |-> ChildOf(d, i).items])
    BY DEF Compile, Flatten
  <2> QED BY <2>1, <1>1, <1>3, <1>4, <1>10, <1>11, <1>18
<1>21. o + r = Total(d)
  BY <1>9, <1>14, <1>15
<1>22. ASSUME NEW i \in 1..n
       PROVE  /\ s[OwnIndex(d, i)] = OwnItems(d, i)[1]
              /\ d.items[i].mount => s[OwnIndex(d, i) + 1] = OwnItems(d, i)[2]
  <2>1. PICK a \in Nat \ {0} : a = OwnIndex(d, i) /\ ownOff[i] = a - 1
    <3>1. i \in 1..(n + 1)
      OBVIOUS
    <3> QED BY <3>1, <1>8
  <2>2. ASSUME NEW k \in 1..Len(mine[i]) PROVE s[a - 1 + k] = OwnItems(d, i)[k]
    <3>1. PICK x : x = a - 1 + k
      OBVIOUS
    <3>2. x \in 1..o /\ left[x] = mine[i][k]
      BY <3>1, <2>1, <1>16
    <3>3. x \in 1..(o + r) /\ x <= o
      BY <3>2
    <3> QED BY <3>1, <3>2, <3>3, <1>5, <1>19
  <2>3. 1 \in 1..Len(mine[i]) /\ (d.items[i].mount => 2 \in 1..Len(mine[i]))
    BY <1>5
  <2>4. a - 1 + 1 = a /\ a - 1 + 2 = a + 1
    OBVIOUS
  <2>5. s[a] = OwnItems(d, i)[1]
    BY <2>2, <2>3, <2>4
  <2>6. d.items[i].mount => s[a + 1] = OwnItems(d, i)[2]
    BY <2>2, <2>3, <2>4
  <2> QED BY <2>1, <2>5, <2>6
<1>23. ASSUME NEW i \in 1..n, NEW k \in 1..Len(d.items[i].graph.items)
       PROVE  /\ ChildBase(d, i) + k \in 1..(o + r)
              /\ s[ChildBase(d, i) + k] = ChildOf(d, i).items[k]
  <2>1. PICK b \in Nat : b = ChildBase(d, i) /\ childOff[i] = b - o
    <3>1. i \in 1..(n + 1)
      OBVIOUS
    <3> QED BY <3>1, <1>9, <1>14
  <2>2. k \in 1..Len(theirs[i]) /\ k \in Nat
    <3>1. Len(theirs[i]) = Len(d.items[i].graph.items) /\ Len(theirs[i]) \in Nat
      BY <1>6
    <3> QED BY <3>1
  <2>3. PICK x \in 1..r : x = b - o + k
    BY <2>1, <2>2, <1>17
  <2>4. right[x] = theirs[i][k]
    BY <2>1, <2>2, <2>3, <1>17
  <2>5. b + k = o + x /\ o + x \in 1..(o + r) /\ ~ (o + x <= o) /\ o + x - o = x
    BY <2>2, <2>3, <2>4
  <2>6. s[o + x] = right[x]
    <3>1. PICK w \in 1..(o + r) : w = o + x
      OBVIOUS
    <3>2. ~ (w <= o) /\ w - o = x
      BY <3>1
    <3>3. s[w] = right[w - o]
      BY <3>2, <1>19
    <3> QED BY <3>1, <3>2, <3>3
  <2> QED BY <2>1, <2>4, <2>5, <2>6, <1>6
<1>24. ASSUME NEW x \in 1..(o + r)
       PROVE  \E i \in 1..n : \/ x = OwnIndex(d, i)
                              \/ d.items[i].mount /\ x = OwnIndex(d, i) + 1
                              \/ \E k \in 1..Len(d.items[i].graph.items) : x = ChildBase(d, i) + k
  <2>1. CASE x <= o
    <3>1. x \in 1..o
      BY <2>1
    <3>2. PICK i \in 1..n : \E k \in 1..Len(mine[i]) : x = ownOff[i] + k
      BY <3>1, <1>16
    <3>3. PICK k \in 1..Len(mine[i]) : x = ownOff[i] + k
      BY <3>2
    <3>4. PICK a \in Nat \ {0} : a = OwnIndex(d, i) /\ ownOff[i] = a - 1
      <4>1. i \in 1..(n + 1)
        OBVIOUS
      <4> QED BY <4>1, <1>8
    <3>5. CASE d.items[i].mount
      <4>1. k = 1 \/ k = 2
        BY <3>5, <1>5
      <4>2. x = a \/ x = a + 1
        BY <4>1, <3>3, <3>4
      <4> QED BY <4>2, <3>4, <3>5
    <3>6. CASE ~ d.items[i].mount
      <4>1. k = 1
        BY <3>6, <1>5
      <4>2. x = a
        BY <4>1, <3>3, <3>4
      <4> QED BY <4>2, <3>4
    <3> QED BY <3>5, <3>6
  <2>2. CASE ~ (x <= o)
    <3>1. PICK y \in 1..r : x = y + o
      <4>1. x - o \in 1..r /\ x = (x - o) + o
        BY <2>2
      <4> QED BY <4>1
    <3>2. PICK i \in 1..n : \E k \in 1..Len(theirs[i]) : y = childOff[i] + k
      BY <1>17
    <3>3. PICK k \in 1..Len(theirs[i]) : y = childOff[i] + k
      BY <3>2
    <3>4. PICK b \in Nat : b = ChildBase(d, i) /\ childOff[i] = b - o
      <4>1. i \in 1..(n + 1)
        OBVIOUS
      <4> QED BY <4>1, <1>9, <1>14
    <3>5. Len(theirs[i]) \in Nat /\ Len(theirs[i]) = Len(d.items[i].graph.items)
      BY <1>6
    <3>6. x = b + k /\ k \in 1..Len(d.items[i].graph.items)
      BY <3>1, <3>3, <3>4, <3>5
    <3> QED BY <3>4, <3>6
  <2> QED BY <2>1, <2>2
<1>25. s \in Seq(CompiledItems(Total(d))) /\ Len(s) = Total(d)
  BY <1>2, <1>19, <1>21
<1>26. \A i \in 1..Len(d.items) :
         /\ s[OwnIndex(d, i)] = OwnItems(d, i)[1]
         /\ d.items[i].mount => s[OwnIndex(d, i) + 1] = OwnItems(d, i)[2]
         /\ \A k \in 1..Len(d.items[i].graph.items) :
              /\ ChildBase(d, i) + k \in 1..Total(d)
              /\ s[ChildBase(d, i) + k] = ChildOf(d, i).items[k]
  BY <1>1, <1>21, <1>22, <1>23, Zenon
<1>27. \A x \in 1..Total(d) : \E i \in 1..Len(d.items) :
         \/ x = OwnIndex(d, i)
         \/ d.items[i].mount /\ x = OwnIndex(d, i) + 1
         \/ \E k \in 1..Len(d.items[i].graph.items) : x = ChildBase(d, i) + k
  BY <1>1, <1>21, <1>24, Zenon
<1> QED BY <1>20, <1>25, <1>26, <1>27, Zenon

(* The item of a node, or the one that enters a mount.                            *)
First(d, g, i, x) ==
  /\ x \in 1..Len(g.items)
  /\ g.items[x].path = <<d.items[i].id>> /\ Home(g, x) = <<>>
  /\ d.items[i].mount \in BOOLEAN
  /\ ~ d.items[i].mount => /\ g.items[x].kind = "node" /\ g.items[x].scope = <<>>
                           /\ g.items[x].next = CompileTransition(d, d.items[i].id)
  /\ d.items[i].mount =>
       /\ g.items[x].kind = "enter" /\ g.items[x].scope = <<d.items[i].id>>
       /\ g.items[x].next.shape = "fixed"
       /\ g.items[x].next.to = [s \in {d.items[i].id} |->
                                  EnterTarget(d.items[i].graph, ChildBase(d, i), x + 1)]

(* A declared item is compiled at its own index.                             *)
LEMMA FirstPart ==
  ASSUME NEW d, GoodDraft(d), Accepts(d), NEW g, g = Compile(d), NEW i \in 1..Len(d.items)
  PROVE  First(d, g, i, OwnIndex(d, i))
<1>1. PICK n \in Nat : n = Total(d)
  BY PlacesAre
<1>2. PICK y : y = g.items[OwnIndex(d, i)]
  OBVIOUS
<1>3. y = OwnItems(d, i)[1] /\ Len(g.items) = n
  BY <1>1, <1>2, LayoutIs
<1>4. OwnIndex(d, i) \in 1..n
  <2>1. PICK a, b \in Nat : a = OwnIndex(d, i) /\ b = OwnSize(d)
    BY PlacesAre
  <2>2. a \in 1..b /\ b <= n
    BY <2>1, <1>1, PlacesAre
  <2>3. a \in 1..n
    BY <2>2
  <2> QED BY <2>1, <2>3
<1>5. /\ ~ d.items[i].mount =>
           y = [kind |-> "node", path |-> <<d.items[i].id>>, scope |-> <<>>,
                next |-> CompileTransition(d, d.items[i].id)]
      /\ d.items[i].mount =>
           y = [kind |-> "enter", path |-> <<d.items[i].id>>, scope |-> <<d.items[i].id>>,
                next |-> [shape |-> "fixed",
                          to |-> [s \in {d.items[i].id} |->
                                    EnterTarget(d.items[i].graph, ChildBase(d, i), OwnIndex(d, i) + 1)]]]
  BY <1>3, OwnItemsAre
<1>6. d.items[i].mount \in BOOLEAN /\ d.items[i].id \in STRING
  BY DEF GoodDraft
<1>7. y.path = <<d.items[i].id>>
  BY <1>5, <1>6
<1>8. Front(y.path) = <<>>
  BY <1>6, <1>7, BelowEmpty
<1>9. ~ d.items[i].mount => /\ y.kind = "node" /\ y.scope = <<>>
                            /\ y.next = CompileTransition(d, d.items[i].id)
  BY <1>5
<1>10. d.items[i].mount =>
         /\ y.kind = "enter" /\ y.scope = <<d.items[i].id>>
         /\ y.next.shape = "fixed"
         /\ y.next.to = [s \in {d.items[i].id} |-> EnterTarget(d.items[i].graph, ChildBase(d, i), OwnIndex(d, i) + 1)]
  BY <1>5
<1> QED BY <1>2, <1>3, <1>4, <1>6, <1>7, <1>8, <1>9, <1>10 DEF Home, First

(* The item that leaves a mount.                                                *)
Leaves(d, g, i, x) ==
  /\ x \in 1..Len(g.items) /\ g.items[x].kind = "exit"
  /\ g.items[x].path = <<d.items[i].id>> /\ Home(g, x) = <<>> /\ g.items[x].scope = <<d.items[i].id>>
  /\ g.items[x].next = CompileTransition(d, d.items[i].id)

(* A mount's second item comes right after.                                  *)
LEMMA LastPart ==
  ASSUME NEW d, GoodDraft(d), Accepts(d), NEW g, g = Compile(d), NEW i \in 1..Len(d.items),
         d.items[i].mount
  PROVE  Leaves(d, g, i, OwnIndex(d, i) + 1)
<1>1. PICK n \in Nat : n = Total(d)
  BY PlacesAre
<1>2. PICK y : y = g.items[OwnIndex(d, i) + 1]
  OBVIOUS
<1>3. y = OwnItems(d, i)[2] /\ Len(g.items) = n
  BY <1>1, <1>2, LayoutIs
<1>4. OwnIndex(d, i) + 1 \in 1..n
  <2>1. PICK a, b \in Nat : a = OwnIndex(d, i) /\ b = OwnSize(d)
    BY PlacesAre
  <2>2. a + 1 \in 1..b /\ b <= n
    BY <2>1, <1>1, PlacesAre
  <2>3. a + 1 \in 1..n
    BY <2>2
  <2> QED BY <2>1, <2>3
<1>5. y = [kind |-> "exit", path |-> <<d.items[i].id>>, scope |-> <<d.items[i].id>>,
           next |-> CompileTransition(d, d.items[i].id)]
  BY <1>3, OwnItemsAre
<1>6. d.items[i].id \in STRING
  BY DEF GoodDraft
<1>7. Front(<<d.items[i].id>>) = <<>>
  BY <1>6, BelowEmpty
<1> QED BY <1>2, <1>3, <1>4, <1>5, <1>7 DEF Home, Leaves

(* A child's item.                                                            *)
Inner(d, g, i, k, x) ==
  /\ x \in 1..Len(g.items)
  /\ Lowered(g.items[x], d.items[i].graph.items[k], d.items[i].id, ChildBase(d, i))
  /\ Home(g, x) = <<d.items[i].id>> \o Home(d.items[i].graph, k)
  /\ d.items[i].id \in STRING
  /\ d.items[i].graph.items[k].path \in Paths
  /\ Home(d.items[i].graph, k) \in Seq(STRING)

(* A child's items come at its base.                                         *)
LEMMA ChildPart ==
  ASSUME NEW d, GoodDraft(d), Accepts(d), NEW g, g = Compile(d), NEW i \in 1..Len(d.items),
         NEW k \in 1..Len(d.items[i].graph.items)
  PROVE  Inner(d, g, i, k, ChildBase(d, i) + k)
<1>1. PICK n \in Nat : n = Total(d)
  BY PlacesAre
<1>2. PICK y : y = g.items[ChildBase(d, i) + k]
  OBVIOUS
<1>3. y = ChildOf(d, i).items[k] /\ Len(g.items) = n /\ ChildBase(d, i) + k \in 1..n
  BY <1>1, <1>2, LayoutIs
<1>4. Lowered(y, d.items[i].graph.items[k], d.items[i].id, ChildBase(d, i))
  BY <1>3, ChildItemsAre
<1>5. d.items[i].id \in STRING /\ Typed(d.items[i].graph)
  BY DEF GoodDraft, WellFormed
<1>6. PICK c : c = d.items[i].graph.items[k]
  OBVIOUS
<1>7. c \in CompiledItems(Len(d.items[i].graph.items))
  BY <1>5, <1>6 DEF Typed
<1>8. c.path \in Paths
  BY <1>7 DEF CompiledItems
<1>9. /\ Front(<<d.items[i].id>> \o c.path) = <<d.items[i].id>> \o Front(c.path)
      /\ Front(c.path) \in Seq(STRING)
  BY <1>5, <1>8, BelowFront
<1>10. y.path = <<d.items[i].id>> \o c.path
  BY <1>4, <1>6 DEF Lowered
<1>11. /\ Home(g, ChildBase(d, i) + k) = <<d.items[i].id>> \o Home(d.items[i].graph, k)
       /\ Home(d.items[i].graph, k) \in Seq(STRING)
  BY <1>2, <1>6, <1>9, <1>10 DEF Home
<1> QED BY <1>2, <1>3, <1>4, <1>5, <1>6, <1>8, <1>11 DEF Inner

(* There are no others.                                                        *)
LEMMA PartsAre ==
  ASSUME NEW d, GoodDraft(d), Accepts(d), NEW g, g = Compile(d), NEW x \in 1..Len(g.items)
  PROVE  \E i \in 1..Len(d.items) :
           \/ x = OwnIndex(d, i)
           \/ d.items[i].mount /\ x = OwnIndex(d, i) + 1
           \/ \E k \in 1..Len(d.items[i].graph.items) : x = ChildBase(d, i) + k
<1>1. Len(g.items) = Total(d)
  BY LayoutIs
<1>2. x \in 1..Total(d)
  BY <1>1
<1> QED BY <1>2, LayoutIs

(* Every item has the scope its kind asks for.                               *)
LEMMA CompiledPlaced ==
  ASSUME NEW d, GoodDraft(d), Accepts(d), NEW g, g = Compile(d)
  PROVE  Placed(g)
<1> SUFFICES ASSUME NEW x \in 1..Len(g.items)
             PROVE  g.items[x].scope = IF g.items[x].kind = "node" THEN Home(g, x) ELSE g.items[x].path
  BY DEF Placed
<1>1. PICK i \in 1..Len(d.items) :
        \/ x = OwnIndex(d, i)
        \/ d.items[i].mount /\ x = OwnIndex(d, i) + 1
        \/ \E k \in 1..Len(d.items[i].graph.items) : x = ChildBase(d, i) + k
  BY PartsAre
<1>2. CASE x = OwnIndex(d, i)
  <2>1. First(d, g, i, x)
    BY <1>2, FirstPart
  <2> QED BY <2>1 DEF First
<1>3. CASE d.items[i].mount /\ x = OwnIndex(d, i) + 1
  <2>1. Leaves(d, g, i, x)
    BY <1>3, LastPart
  <2> QED BY <2>1 DEF Leaves
<1>4. CASE \E k \in 1..Len(d.items[i].graph.items) : x = ChildBase(d, i) + k
  <2>1. PICK k \in 1..Len(d.items[i].graph.items) : x = ChildBase(d, i) + k
    BY <1>4
  <2>2. Inner(d, g, i, k, x)
    BY <2>1, ChildPart
  <2>3. PICK c : c = d.items[i].graph.items[k]
    OBVIOUS
  <2>4. /\ g.items[x].kind = c.kind /\ g.items[x].path = <<d.items[i].id>> \o c.path
        /\ Home(g, x) = <<d.items[i].id>> \o Home(d.items[i].graph, k)
        /\ g.items[x].scope = <<d.items[i].id>> \o c.scope
    BY <2>2, <2>3 DEF Inner, Lowered
  <2>5. c.scope = IF c.kind = "node" THEN Home(d.items[i].graph, k) ELSE c.path
    BY <2>3 DEF GoodDraft, WellFormed, Placed
  <2> QED BY <2>4, <2>5
<1> QED BY <1>1, <1>2, <1>3, <1>4

(* A compiled graph holds nothing else.                                      *)
LEMMA EveryPart ==
  ASSUME NEW d, GoodDraft(d), Accepts(d), NEW g, g = Compile(d), NEW x \in 1..Len(g.items)
  PROVE  \E i \in 1..Len(d.items) :
           \/ x = OwnIndex(d, i) /\ First(d, g, i, x)
           \/ d.items[i].mount /\ x = OwnIndex(d, i) + 1 /\ Leaves(d, g, i, x)
           \/ \E k \in 1..Len(d.items[i].graph.items) : x = ChildBase(d, i) + k /\ Inner(d, g, i, k, x)
<1>1. PICK i \in 1..Len(d.items) :
        \/ x = OwnIndex(d, i)
        \/ d.items[i].mount /\ x = OwnIndex(d, i) + 1
        \/ \E k \in 1..Len(d.items[i].graph.items) : x = ChildBase(d, i) + k
  BY PartsAre
<1>2. CASE x = OwnIndex(d, i)
  <2>1. First(d, g, i, x)
    BY <1>2, FirstPart
  <2> QED BY <1>2, <2>1
<1>3. CASE d.items[i].mount /\ x = OwnIndex(d, i) + 1
  <2>1. Leaves(d, g, i, x)
    BY <1>3, LastPart
  <2> QED BY <1>3, <2>1
<1>4. CASE \E k \in 1..Len(d.items[i].graph.items) : x = ChildBase(d, i) + k
  <2>1. PICK k \in 1..Len(d.items[i].graph.items) : x = ChildBase(d, i) + k
    BY <1>4
  <2>2. Inner(d, g, i, k, x)
    BY <2>1, ChildPart
  <2> QED BY <2>1, <2>2
<1> QED BY <1>1, <1>2, <1>3, <1>4

(* An item's own transition leads to the first item of what is declared.             *)
LEMMA OwnTargets ==
  ASSUME NEW d, GoodDraft(d), Accepts(d), NEW id \in Ids(d),
         NEW t \in DOMAIN CompileTransition(d, id).to, CompileTransition(d, id).to[t] # 0
  PROVE  /\ t \in Successors(d, id) /\ t # END
         /\ \E j \in 1..Len(d.items) :
              d.items[j].id = t /\ CompileTransition(d, id).to[t] = OwnIndex(d, j)
<1>1. t \in Successors(d, id) /\ CompileTransition(d, id).to[t] = EntryOf(d, t)
  BY CompiledTransition
<1>2. t \in Ids(d) \cup {END}
  BY <1>1, TransitionIs
<1>3. t # END
  BY <1>1, <1>2, EntryIs
<1>4. \E j \in 1..Len(d.items) : d.items[j].id = t /\ EntryOf(d, t) = OwnIndex(d, j)
  BY <1>2, <1>3, EntryIs
<1> QED BY <1>1, <1>3, <1>4

(* The entry is the item START leads to, or END.                             *)
LEMMA EntryOfCompiled ==
  ASSUME NEW d, GoodDraft(d), Accepts(d), NEW g, g = Compile(d)
  PROVE  \E t \in Ids(d) \cup {END} : g.entry = EntryOf(d, t)
<1> DEFINE k == CHOOSE i \in FixedFrom(d, START) : TRUE
<1>1. Cardinality(FixedFrom(d, START)) = 1 /\ EndpointsKnown(d)
  BY DEF Accepts, OneTransitionEach
<1>2. FixedFrom(d, START) # {}
  BY <1>1, FS_EmptySet
<1>3. k \in DOMAIN d.fixed
  BY <1>2 DEF FixedFrom
<1>4. d.fixed[k][2] \in Ids(d) \cup {END}
  BY <1>1, <1>3 DEF EndpointsKnown
<1>5. g.entry = EntryOf(d, d.fixed[k][2])
  BY DEF Compile, Flatten
<1> QED BY <1>4, <1>5

(* The exits of a compiled graph: its mounts' and their graphs'.                      *)
OuterExit(d, i, x) ==
  d.items[i].mount /\ x = [scope |-> <<d.items[i].id>>, exit |-> OwnIndex(d, i) + 1]

InnerExit(d, i, y, x) ==
  /\ y \in d.items[i].graph.exits
  /\ x = [scope |-> <<d.items[i].id>> \o y.scope, exit |-> y.exit + ChildBase(d, i)]

(* Nothing else is an exit.                                                  *)
LEMMA ExitsAre ==
  ASSUME NEW d, GoodDraft(d), NEW g, g = Compile(d), NEW x
  PROVE  x \in g.exits <=> \E i \in 1..Len(d.items) : OuterExit(d, i, x) \/ \E y : InnerExit(d, i, y, x)
<1>1. DOMAIN d.items = 1..Len(d.items)
  BY DraftIs
<1>2. g.exits = {[scope |-> <<d.items[i].id>>, exit |-> OwnIndex(d, i) + 1] :
                   i \in {j \in DOMAIN d.items : d.items[j].mount}}
                \cup UNION {ChildOf(d, i).exits : i \in DOMAIN d.items}
  BY DEF Compile, Flatten
<1>3. \A i : ChildOf(d, i).exits =
               {[scope |-> <<d.items[i].id>> \o y.scope, exit |-> y.exit + ChildBase(d, i)] :
                  y \in d.items[i].graph.exits}
  BY DEF ChildOf, AppendGraph
<1>4. \A i : x \in ChildOf(d, i).exits <=> \E y : InnerExit(d, i, y, x)
  BY <1>3 DEF InnerExit
<1>5. x \in {[scope |-> <<d.items[i].id>>, exit |-> OwnIndex(d, i) + 1] :
               i \in {j \in DOMAIN d.items : d.items[j].mount}}
      <=> \E i \in 1..Len(d.items) : OuterExit(d, i, x)
  BY <1>1 DEF OuterExit
<1> DEFINE outer == {[scope |-> <<d.items[i].id>>, exit |-> OwnIndex(d, i) + 1] :
                       i \in {j \in DOMAIN d.items : d.items[j].mount}}
           inner == UNION {ChildOf(d, i).exits : i \in DOMAIN d.items}
<1>6. x \in inner <=> \E i \in 1..Len(d.items) : x \in ChildOf(d, i).exits
  BY <1>1
<1>9. g.exits = outer \cup inner
  BY <1>2, Zenon
<1> HIDE DEF inner, outer
<1>7. x \in g.exits <=> x \in inner \/ x \in outer
  BY <1>9
<1>8. x \in outer <=> \E i \in 1..Len(d.items) : OuterExit(d, i, x)
  BY <1>5 DEF outer
<1> QED BY <1>4, <1>6, <1>7, <1>8

(* An exit of a child, moved below the mount.                                *)
LEMMA InnerExitIs ==
  ASSUME NEW d, GoodDraft(d), NEW i \in 1..Len(d.items), NEW y, NEW x, InnerExit(d, i, y, x)
  PROVE  /\ y.scope \in Paths /\ y.exit \in 1..Len(d.items[i].graph.items)
         /\ x.scope = <<d.items[i].id>> \o y.scope /\ x.exit = ChildBase(d, i) + y.exit
         /\ d.items[i].id \in STRING
         /\ x = [scope |-> x.scope, exit |-> x.exit]
         /\ d.items[i].graph.items[y.exit].kind = "exit" /\ d.items[i].graph.items[y.exit].path = y.scope
<1>1. Typed(d.items[i].graph) /\ Exited(d.items[i].graph) /\ d.items[i].id \in STRING
  BY DEF GoodDraft, WellFormed
<1>2. y \in d.items[i].graph.exits
  BY DEF InnerExit
<1>3. y.scope \in Paths /\ y.exit \in 1..Len(d.items[i].graph.items)
  BY <1>1, <1>2 DEF Typed
<1>4. x.scope = <<d.items[i].id>> \o y.scope /\ x.exit = y.exit + ChildBase(d, i)
      /\ x = [scope |-> x.scope, exit |-> x.exit]
  BY DEF InnerExit
<1>5. d.items[i].graph.items[y.exit].kind = "exit" /\ d.items[i].graph.items[y.exit].path = y.scope
  BY <1>1, <1>2 DEF Exited
<1>6. y.exit + ChildBase(d, i) = ChildBase(d, i) + y.exit
  <2>1. ChildBase(d, i) \in Nat /\ Len(d.items[i].graph.items) \in Nat
    BY PlacesAre, DraftIs
  <2>2. PICK a, b \in Nat : a = y.exit /\ b = ChildBase(d, i)
    BY <1>3, <2>1
  <2> QED BY <2>2
<1> QED BY <1>1, <1>3, <1>4, <1>5, <1>6

(* A compiled graph has the types of one.                                    *)
LEMMA CompiledTyped ==
  ASSUME NEW d, GoodDraft(d), Accepts(d), NEW g, g = Compile(d)
  PROVE  Typed(g)
<1>1. g.items \in Seq(CompiledItems(Total(d))) /\ Len(g.items) = Total(d)
  BY LayoutIs
<1>2. PICK n \in Nat, o \in Nat : n = Total(d) /\ o = OwnSize(d) /\ o <= n
  BY PlacesAre
<1>3. g.entry \in 0..n
  <2>1. PICK t \in Ids(d) \cup {END} : g.entry = EntryOf(d, t)
    BY EntryOfCompiled
  <2>2. EntryOf(d, t) \in 0..o
    BY <1>2, EntryIs
  <2>3. PICK e \in 0..o : e = EntryOf(d, t)
    BY <2>2
  <2>4. e \in 0..n
    BY <1>2
  <2> QED BY <2>1, <2>3, <2>4
<1>4. ASSUME NEW x \in g.exits PROVE x \in [scope : Paths, exit : 1..n]
  <2>1. PICK i \in 1..Len(d.items) : OuterExit(d, i, x) \/ \E y : InnerExit(d, i, y, x)
    BY ExitsAre
  <2>2. CASE OuterExit(d, i, x)
    <3>1. d.items[i].mount /\ x = [scope |-> <<d.items[i].id>>, exit |-> OwnIndex(d, i) + 1]
      BY <2>2 DEF OuterExit
    <3>2. Leaves(d, g, i, OwnIndex(d, i) + 1)
      BY <3>1, LastPart
    <3>3. OwnIndex(d, i) + 1 \in 1..n
      BY <3>2, <1>1, <1>2 DEF Leaves
    <3>4. <<d.items[i].id>> \in Paths
      BY BelowEmpty DEF GoodDraft
    <3> QED BY <3>1, <3>3, <3>4
  <2>3. CASE \E y : InnerExit(d, i, y, x)
    <3>1. PICK y : InnerExit(d, i, y, x)
      BY <2>3
    <3>2. /\ y.scope \in Paths /\ y.exit \in 1..Len(d.items[i].graph.items)
          /\ x.scope = <<d.items[i].id>> \o y.scope /\ x.exit = ChildBase(d, i) + y.exit
          /\ x = [scope |-> x.scope, exit |-> x.exit] /\ d.items[i].id \in STRING
      BY <3>1, InnerExitIs
    <3>3. Inner(d, g, i, y.exit, ChildBase(d, i) + y.exit)
      BY <3>2, ChildPart
    <3>4. x.exit \in 1..n
      BY <3>2, <3>3, <1>1, <1>2 DEF Inner
    <3>5. <<d.items[i].id>> \o y.scope \in Paths
      BY <3>2, BelowFront
    <3>6. x.scope \in Paths
      BY <3>2, <3>5
    <3>7. [scope |-> x.scope, exit |-> x.exit] \in [scope : Paths, exit : 1..n]
      BY <3>4, <3>6
    <3> QED BY <3>2, <3>7
  <2> QED BY <2>1, <2>2, <2>3
<1> QED BY <1>1, <1>2, <1>3, <1>4 DEF Typed

(* A transition in the graph itself.                                              *)
LEMMA OwnConfined ==
  ASSUME NEW d, GoodDraft(d), Accepts(d), NEW g, g = Compile(d), NEW i \in 1..Len(d.items),
         NEW t \in DOMAIN CompileTransition(d, d.items[i].id).to,
         CompileTransition(d, d.items[i].id).to[t] # 0
  PROVE  /\ g.items[CompileTransition(d, d.items[i].id).to[t]].kind # "exit"
         /\ Home(g, CompileTransition(d, d.items[i].id).to[t]) = <<>>
<1>1. d.items[i].id \in Ids(d)
  BY DraftIs
<1>2. PICK j \in 1..Len(d.items) : CompileTransition(d, d.items[i].id).to[t] = OwnIndex(d, j)
  BY <1>1, OwnTargets
<1>3. First(d, g, j, OwnIndex(d, j))
  BY FirstPart
<1>4. g.items[OwnIndex(d, j)].kind # "exit" /\ Home(g, OwnIndex(d, j)) = <<>>
  BY <1>3 DEF First
<1> QED BY <1>2, <1>4

(* An item's transition stays in its graph, or enters a mount.               *)
ConfinedAt(g, x) ==
  LET to == g.items[x].next.to IN
  /\ g.items[x].kind # "enter" =>
       \A t \in DOMAIN to : to[t] # 0 =>
         g.items[to[t]].kind # "exit" /\ Home(g, to[t]) = Home(g, x)
  /\ g.items[x].kind = "enter" =>
       \E j \in 1..Len(g.items) :
         /\ \E t \in STRING : to = [s \in {t} |-> j]
         /\ IF g.items[j].kind = "exit" THEN g.items[j].path = g.items[x].path
            ELSE Home(g, j) = g.items[x].path

(* Entering a mount leads to its child's entry, or to its exit if the child  *)
(* is empty.                                                                 *)
LEMMA EnterConfined ==
  ASSUME NEW d, GoodDraft(d), Accepts(d), NEW g, g = Compile(d), NEW i \in 1..Len(d.items),
         d.items[i].mount, First(d, g, i, OwnIndex(d, i))
  PROVE  ConfinedAt(g, OwnIndex(d, i))
<1>1. PICK x, c, b, id : /\ x = OwnIndex(d, i) /\ c = d.items[i].graph /\ b = ChildBase(d, i)
                         /\ id = d.items[i].id
  OBVIOUS
<1>2. /\ g.items[x].kind = "enter" /\ g.items[x].path = <<id>>
      /\ g.items[x].next.to = [s \in {id} |-> EnterTarget(c, b, x + 1)]
  BY <1>1 DEF First
<1>3. id \in STRING /\ Typed(c) /\ Confined(c)
  BY <1>1 DEF GoodDraft, WellFormed
<1>4. PICK j : j = EnterTarget(c, b, x + 1)
  OBVIOUS
<1>5. /\ j \in 1..Len(g.items)
      /\ IF g.items[j].kind = "exit" THEN g.items[j].path = <<id>> ELSE Home(g, j) = <<id>>
  <2>1. CASE c.entry = 0
    <3>1. Leaves(d, g, i, OwnIndex(d, i) + 1)
      BY LastPart
    <3>2. j = x + 1
      BY <2>1, <1>4 DEF EnterTarget
    <3> QED BY <3>1, <3>2, <1>1 DEF Leaves
  <2>2. CASE c.entry # 0
    <3>1. c.entry \in 0..Len(c.items) /\ Len(c.items) \in Nat /\ b \in Nat
      BY <1>1, <1>3, PlacesAre, DraftIs DEF Typed
    <3>2. PICK e \in 1..Len(c.items) : e = c.entry
      BY <2>2, <3>1
    <3>3. j = b + e
      <4>1. j = c.entry + b
        BY <2>2, <1>4 DEF EnterTarget
      <4>2. PICK a1 \in Nat, a2 \in Nat : a1 = e /\ a2 = b
        BY <3>1
      <4>3. a1 + a2 = a2 + a1
        OBVIOUS
      <4> QED BY <4>1, <4>2, <4>3, <3>2
    <3>4. e \in 1..Len(d.items[i].graph.items)
      BY <1>1
    <3>5. Inner(d, g, i, e, ChildBase(d, i) + e)
      BY <3>4, ChildPart
    <3>6. Inner(d, g, i, e, j)
      BY <3>3, <3>5, <1>1
    <3>7. c.items[e].kind # "exit" /\ Home(c, e) = <<>>
      BY <2>2, <3>2, <1>3 DEF Confined
    <3>8. j \in 1..Len(g.items) /\ g.items[j].kind = c.items[e].kind /\ Home(g, j) = <<id>> \o Home(c, e)
      BY <3>6, <1>1 DEF Inner, Lowered
    <3>9. <<id>> \o <<>> = <<id>>
      BY <1>3, BelowEmpty
    <3> QED BY <3>7, <3>8, <3>9
  <2> QED BY <2>1, <2>2
<1>6. g.items[x].next.to = [s \in {id} |-> j]
  BY <1>2, <1>4
<1>7. ConfinedAt(g, x)
  BY <1>2, <1>3, <1>5, <1>6 DEF ConfinedAt
<1> QED BY <1>1, <1>7

(* A child's transitions stay in the child.                                  *)
LEMMA InnerConfined ==
  ASSUME NEW d, GoodDraft(d), Accepts(d), NEW g, g = Compile(d), NEW i \in 1..Len(d.items),
         NEW k \in 1..Len(d.items[i].graph.items)
  PROVE  ConfinedAt(g, ChildBase(d, i) + k)
<1>1. PICK n, b, c, id, x :
         /\ n \in Nat /\ b \in Nat
         /\ c = d.items[i].graph /\ b = ChildBase(d, i) /\ id = d.items[i].id
         /\ n = Len(c.items) /\ x = b + k
  BY PlacesAre, DraftIs
<1>2. Inner(d, g, i, k, x)
  BY <1>1, ChildPart
<1>3. id \in STRING /\ Typed(c) /\ Confined(c) /\ k \in 1..n
  BY <1>1 DEF GoodDraft, WellFormed
<1>4. PICK to : to = c.items[k].next.to
  OBVIOUS
<1>5. /\ x \in 1..Len(g.items) /\ g.items[x].kind = c.items[k].kind
      /\ g.items[x].path = <<id>> \o c.items[k].path
      /\ g.items[x].next.to = [t \in DOMAIN to |-> Shift(to[t], b)]
      /\ Home(g, x) = <<id>> \o Home(c, k)
  BY <1>1, <1>2, <1>4 DEF Inner, Lowered
<1>6. ASSUME NEW j \in 1..n
      PROVE  /\ Shift(j, b) \in 1..Len(g.items) /\ g.items[Shift(j, b)].kind = c.items[j].kind
             /\ g.items[Shift(j, b)].path = <<id>> \o c.items[j].path
             /\ Home(g, Shift(j, b)) = <<id>> \o Home(c, j)
  <2>1. j \in 1..Len(d.items[i].graph.items)
    BY <1>1
  <2>2. Inner(d, g, i, j, b + j)
    BY <2>1, <1>1, ChildPart
  <2>3. Shift(j, b) = b + j
    BY <1>1 DEF Shift
  <2> QED BY <2>2, <2>3, <1>1 DEF Inner, Lowered
<1>7. /\ c.items[k].kind # "enter" =>
           \A t \in DOMAIN to : to[t] # 0 =>
             c.items[to[t]].kind # "exit" /\ Home(c, to[t]) = Home(c, k)
      /\ c.items[k].kind = "enter" =>
           \E j \in 1..n :
             /\ \E t \in STRING : to = [s \in {t} |-> j]
             /\ IF c.items[j].kind = "exit" THEN c.items[j].path = c.items[k].path
                ELSE Home(c, j) = c.items[k].path
  BY <1>1, <1>3, <1>4 DEF Confined
<1>8. \A t \in DOMAIN to : to[t] \in 0..n
  <2>1. c.items[k] \in CompiledItems(n)
    BY <1>1, <1>3 DEF Typed
  <2>2. to \in Targets(n)
    BY <2>1, <1>4 DEF CompiledItems
  <2> QED BY <2>2 DEF Targets
<1>9. CASE c.items[k].kind # "enter"
  <2> SUFFICES ASSUME NEW t \in DOMAIN to, Shift(to[t], b) # 0
               PROVE  g.items[Shift(to[t], b)].kind # "exit" /\ Home(g, Shift(to[t], b)) = Home(g, x)
    <3>1. g.items[x].kind # "enter" /\ DOMAIN g.items[x].next.to = DOMAIN to
          /\ \A t \in DOMAIN to : g.items[x].next.to[t] = Shift(to[t], b)
      BY <1>5, <1>9
    <3> QED BY <3>1, <1>1 DEF ConfinedAt
  <2>1. to[t] # 0
    BY DEF Shift
  <2>2. PICK j \in 1..n : j = to[t]
    BY <2>1, <1>8
  <2>3. c.items[j].kind # "exit" /\ Home(c, j) = Home(c, k)
    BY <2>1, <2>2, <1>7, <1>9
  <2> QED BY <2>2, <2>3, <1>5, <1>6
<1>10. CASE c.items[k].kind = "enter"
  <2>1. PICK j \in 1..n :
             /\ \E t \in STRING : to = [s \in {t} |-> j]
             /\ IF c.items[j].kind = "exit" THEN c.items[j].path = c.items[k].path
                ELSE Home(c, j) = c.items[k].path
    BY <1>7, <1>10
  <2>2. PICK t \in STRING : to = [s \in {t} |-> j]
    BY <2>1
  <2>3. g.items[x].next.to = [s \in {t} |-> Shift(j, b)]
    BY <2>2, <1>5
  <2>4. PICK y \in 1..Len(g.items) : y = Shift(j, b)
    BY <1>6
  <2>5. IF g.items[y].kind = "exit" THEN g.items[y].path = g.items[x].path
        ELSE Home(g, y) = g.items[x].path
    BY <2>1, <2>4, <1>5, <1>6
  <2>6. \E s \in STRING : g.items[x].next.to = [w \in {s} |-> y]
    BY <2>3, <2>4
  <2> QED BY <2>5, <2>6, <1>1, <1>5, <1>10 DEF ConfinedAt
<1> QED BY <1>9, <1>10

(* Every transition of a compiled graph is confined.                         *)
LEMMA CompiledConfined ==
  ASSUME NEW d, GoodDraft(d), Accepts(d), NEW g, g = Compile(d)
  PROVE  Confined(g)
<1>1. ASSUME NEW x \in 1..Len(g.items) PROVE ConfinedAt(g, x)
  <2>1. PICK i \in 1..Len(d.items) :
           \/ x = OwnIndex(d, i) /\ First(d, g, i, x)
           \/ d.items[i].mount /\ x = OwnIndex(d, i) + 1 /\ Leaves(d, g, i, x)
           \/ \E k \in 1..Len(d.items[i].graph.items) : x = ChildBase(d, i) + k /\ Inner(d, g, i, k, x)
    BY EveryPart
  <2>2. ASSUME g.items[x].next = CompileTransition(d, d.items[i].id), Home(g, x) = <<>>,
               g.items[x].kind # "enter"
        PROVE  ConfinedAt(g, x)
    <3> SUFFICES ASSUME NEW t \in DOMAIN CompileTransition(d, d.items[i].id).to,
                        CompileTransition(d, d.items[i].id).to[t] # 0
                 PROVE  /\ g.items[CompileTransition(d, d.items[i].id).to[t]].kind # "exit"
                        /\ Home(g, CompileTransition(d, d.items[i].id).to[t]) = <<>>
      BY <2>2 DEF ConfinedAt
    <3> QED BY OwnConfined
  <2>3. CASE x = OwnIndex(d, i) /\ First(d, g, i, x)
    <3>1. d.items[i].mount \in BOOLEAN
      BY <2>3 DEF First
    <3>2. CASE d.items[i].mount
      BY <2>3, <3>2, EnterConfined
    <3>3. CASE ~ d.items[i].mount
      BY <2>2, <2>3, <3>3 DEF First
    <3> QED BY <3>1, <3>2, <3>3
  <2>4. CASE d.items[i].mount /\ x = OwnIndex(d, i) + 1 /\ Leaves(d, g, i, x)
    BY <2>2, <2>4 DEF Leaves
  <2>5. CASE \E k \in 1..Len(d.items[i].graph.items) : x = ChildBase(d, i) + k /\ Inner(d, g, i, k, x)
    BY <2>5, InnerConfined
  <2> QED BY <2>1, <2>3, <2>4, <2>5
<1>2. ASSUME g.entry # 0 PROVE g.items[g.entry].kind # "exit" /\ Home(g, g.entry) = <<>>
  <2>1. PICK t \in Ids(d) \cup {END} : g.entry = EntryOf(d, t)
    BY EntryOfCompiled
  <2>2. PICK j \in 1..Len(d.items) : g.entry = OwnIndex(d, j)
    BY <2>1, <1>2, EntryIs
  <2>3. First(d, g, j, g.entry)
    BY <2>2, FirstPart
  <2> QED BY <2>3 DEF First
<1> QED BY <1>1, <1>2 DEF Confined, ConfinedAt

(* Identifiers are used once.                                                    *)
LEMMA NotBelow ==
  ASSUME NEW id \in STRING, NEW other \in STRING, NEW p \in Paths, <<other>> = <<id>> \o p
  PROVE  FALSE
BY BelowFront

(* No two items of a draft have the same name.                               *)
LEMMA SameName ==
  ASSUME NEW d, GoodDraft(d), NEW i \in 1..Len(d.items), NEW j \in 1..Len(d.items),
         <<d.items[i].id>> = <<d.items[j].id>>
  PROVE  i = j
<1>1. d.items[i].id = d.items[j].id
  <2>1. \A e : <<e>>[1] = e
    OBVIOUS
  <2> QED BY <2>1
<1> QED BY <1>1 DEF GoodDraft

(* u is p, below the mount of the i-th item.                                      *)
PathBelow(u, d, i, p) == u = <<d.items[i].id>> \o p

(* Nor do items of different mounts have the same path.                      *)
LEMMA SamePath ==
  ASSUME NEW d, GoodDraft(d), NEW i \in 1..Len(d.items), NEW j \in 1..Len(d.items),
         NEW p \in Seq(STRING), NEW q \in Seq(STRING), NEW u,
         PathBelow(u, d, i, p), PathBelow(u, d, j, q)
  PROVE  i = j /\ p = q
<1>1. PICK one \in STRING, other \in STRING : one = d.items[i].id /\ other = d.items[j].id
  BY DEF GoodDraft
<1>2. <<one>> \o p = <<other>> \o q
  BY <1>1 DEF PathBelow
<1>3. one = other
  BY <1>2, BelowInjective
<1>4. p = q
  BY <1>2, BelowInjective
<1>5. i = j
  BY <1>1, <1>3 DEF GoodDraft
<1> QED BY <1>4, <1>5

(* Every mounted graph of a compiled graph has one exit.                     *)
LEMMA CompiledExited ==
  ASSUME NEW d, GoodDraft(d), Accepts(d), NEW g, g = Compile(d)
  PROVE  Exited(g)
<1>1. ASSUME NEW x \in g.exits
      PROVE  g.items[x.exit].kind = "exit" /\ g.items[x.exit].path = x.scope
  <2>1. PICK i \in 1..Len(d.items) : OuterExit(d, i, x) \/ \E y : InnerExit(d, i, y, x)
    BY ExitsAre
  <2>2. CASE OuterExit(d, i, x)
    <3>1. d.items[i].mount /\ x.scope = <<d.items[i].id>> /\ x.exit = OwnIndex(d, i) + 1
      BY <2>2 DEF OuterExit
    <3>2. Leaves(d, g, i, x.exit)
      BY <3>1, LastPart
    <3> QED BY <3>1, <3>2 DEF Leaves
  <2>3. CASE \E y : InnerExit(d, i, y, x)
    <3>1. PICK y : InnerExit(d, i, y, x)
      BY <2>3
    <3>2. /\ y.scope \in Paths /\ y.exit \in 1..Len(d.items[i].graph.items)
          /\ x.scope = <<d.items[i].id>> \o y.scope /\ x.exit = ChildBase(d, i) + y.exit
          /\ d.items[i].graph.items[y.exit].kind = "exit"
          /\ d.items[i].graph.items[y.exit].path = y.scope
      BY <3>1, InnerExitIs
    <3>3. Inner(d, g, i, y.exit, x.exit)
      BY <3>2, ChildPart
    <3> QED BY <3>2, <3>3 DEF Inner, Lowered
  <2> QED BY <2>1, <2>2, <2>3
<1>2. ASSUME NEW x \in g.exits, NEW z \in g.exits, x.scope = z.scope PROVE x = z
  <2>1. PICK i \in 1..Len(d.items) : OuterExit(d, i, x) \/ \E y : InnerExit(d, i, y, x)
    BY ExitsAre
  <2>2. PICK j \in 1..Len(d.items) : OuterExit(d, j, z) \/ \E y : InnerExit(d, j, y, z)
    BY ExitsAre
  <2>3. d.items[i].id \in STRING /\ d.items[j].id \in STRING
    BY DEF GoodDraft
  <2>4. CASE OuterExit(d, i, x) /\ OuterExit(d, j, z)
    <3>1. i = j
      BY <2>4, <1>2, SameName DEF OuterExit
    <3> QED BY <3>1, <2>4 DEF OuterExit
  <2>5. ASSUME OuterExit(d, i, x), NEW y, InnerExit(d, j, y, z) PROVE FALSE
    <3>1. y.scope \in Paths /\ z.scope = <<d.items[j].id>> \o y.scope
      BY <2>5, InnerExitIs
    <3>2. x.scope = <<d.items[i].id>>
      BY <2>5 DEF OuterExit
    <3>3. <<d.items[i].id>> = <<d.items[j].id>> \o y.scope
      BY <3>1, <3>2, <1>2
    <3> QED BY <3>1, <3>3, <2>3, NotBelow
  <2>6. ASSUME OuterExit(d, j, z), NEW y, InnerExit(d, i, y, x) PROVE FALSE
    <3>1. y.scope \in Paths /\ x.scope = <<d.items[i].id>> \o y.scope
      BY <2>6, InnerExitIs
    <3>2. z.scope = <<d.items[j].id>>
      BY <2>6 DEF OuterExit
    <3>3. <<d.items[j].id>> = <<d.items[i].id>> \o y.scope
      BY <3>1, <3>2, <1>2
    <3> QED BY <3>1, <3>3, <2>3, NotBelow
  <2>7. ASSUME NEW y, InnerExit(d, i, y, x), NEW w, InnerExit(d, j, w, z) PROVE x = z
    <3>1. y.scope \in Paths /\ x.scope = <<d.items[i].id>> \o y.scope
      BY <2>7, InnerExitIs
    <3>2. w.scope \in Paths /\ z.scope = <<d.items[j].id>> \o w.scope
      BY <2>7, InnerExitIs
    <3>3. i = j /\ y.scope = w.scope
      <4>0. PICK u : u = x.scope
        OBVIOUS
      <4>1. PICK p \in Seq(STRING), q \in Seq(STRING) :
              p = y.scope /\ q = w.scope /\ u = x.scope
        BY <3>1, <3>2, <4>0 DEF Paths
      <4>2. PathBelow(u, d, i, p)
        BY <3>1, <4>1 DEF PathBelow
      <4>3. PathBelow(u, d, j, q)
        BY <3>2, <1>2, <4>1 DEF PathBelow
      <4>4. i = j
        BY <4>2, <4>3, SamePath
      <4>5. p = q
        BY <4>2, <4>3, SamePath
      <4> QED BY <4>1, <4>4, <4>5
    <3>4. y \in d.items[i].graph.exits /\ w \in d.items[i].graph.exits
      BY <3>3, <2>7 DEF InnerExit
    <3>5. Exited(d.items[i].graph)
      BY DEF GoodDraft, WellFormed
    <3>6. y = w
      BY <3>3, <3>4, <3>5 DEF Exited
    <3> QED BY <3>3, <3>6, <2>7 DEF InnerExit
  <2> QED BY <2>1, <2>2, <2>4, <2>5, <2>6, <2>7
<1>3. ASSUME NEW x \in 1..Len(g.items), Home(g, x) # <<>>
      PROVE  \E z \in g.exits : z.scope = Home(g, x)
  <2>1. PICK i \in 1..Len(d.items) :
           \/ x = OwnIndex(d, i) /\ First(d, g, i, x)
           \/ d.items[i].mount /\ x = OwnIndex(d, i) + 1 /\ Leaves(d, g, i, x)
           \/ \E k \in 1..Len(d.items[i].graph.items) : x = ChildBase(d, i) + k /\ Inner(d, g, i, k, x)
    BY EveryPart
  <2>2. PICK k \in 1..Len(d.items[i].graph.items) : Inner(d, g, i, k, x)
    BY <2>1, <1>3 DEF First, Leaves
  <2>3. /\ d.items[i].id \in STRING /\ Home(g, x) = <<d.items[i].id>> \o Home(d.items[i].graph, k)
    BY <2>2 DEF Inner
  <2>4. CASE Home(d.items[i].graph, k) = <<>>
    <3>1. Home(g, x) = <<d.items[i].id>>
      BY <2>3, <2>4, BelowEmpty
    <3>2. d.items[i].mount
      BY DraftIs DEF GoodDraft
    <3> DEFINE z == [scope |-> <<d.items[i].id>>, exit |-> OwnIndex(d, i) + 1]
    <3>3. OuterExit(d, i, z)
      BY <3>2 DEF OuterExit
    <3>4. z.scope = <<d.items[i].id>>
      OBVIOUS
    <3> HIDE DEF z
    <3>5. z \in g.exits
      BY <3>3, ExitsAre
    <3> QED BY <3>1, <3>4, <3>5
  <2>5. CASE Home(d.items[i].graph, k) # <<>>
    <3>1. Exited(d.items[i].graph)
      BY DEF GoodDraft, WellFormed
    <3>2. PICK y \in d.items[i].graph.exits : y.scope = Home(d.items[i].graph, k)
      BY <3>1, <2>5 DEF Exited
    <3> DEFINE z == [scope |-> <<d.items[i].id>> \o y.scope, exit |-> y.exit + ChildBase(d, i)]
    <3>3. InnerExit(d, i, y, z) /\ z.scope = <<d.items[i].id>> \o y.scope
      BY DEF InnerExit
    <3> HIDE DEF z
    <3>4. z \in g.exits
      BY <3>3, ExitsAre
    <3> QED BY <3>2, <3>3, <3>4, <2>3
  <2> QED BY <2>4, <2>5
<1> QED BY <1>1, <1>2, <1>3 DEF Exited

(* The nodes of a compiled graph have different paths.                       *)
LEMMA CompiledNamed ==
  ASSUME NEW d, GoodDraft(d), Accepts(d), NEW g, g = Compile(d)
  PROVE  Named(g)
<1> SUFFICES ASSUME NEW x \in 1..Len(g.items), NEW z \in 1..Len(g.items),
                    g.items[x].kind = "node", g.items[z].kind = "node",
                    g.items[x].path = g.items[z].path
             PROVE  x = z
  BY DEF Named
<1>1. PICK i \in 1..Len(d.items) :
         \/ x = OwnIndex(d, i) /\ First(d, g, i, x)
         \/ d.items[i].mount /\ x = OwnIndex(d, i) + 1 /\ Leaves(d, g, i, x)
         \/ \E k \in 1..Len(d.items[i].graph.items) : x = ChildBase(d, i) + k /\ Inner(d, g, i, k, x)
  BY EveryPart
<1>2. PICK j \in 1..Len(d.items) :
         \/ z = OwnIndex(d, j) /\ First(d, g, j, z)
         \/ d.items[j].mount /\ z = OwnIndex(d, j) + 1 /\ Leaves(d, g, j, z)
         \/ \E k \in 1..Len(d.items[j].graph.items) : z = ChildBase(d, j) + k /\ Inner(d, g, j, k, z)
  BY EveryPart
<1>3. ~ Leaves(d, g, i, x) /\ ~ Leaves(d, g, j, z)
  BY DEF Leaves
<1>4. d.items[i].id \in STRING /\ d.items[j].id \in STRING
  BY DEF GoodDraft
<1>5. ASSUME x = OwnIndex(d, i), First(d, g, i, x), z = OwnIndex(d, j), First(d, g, j, z) PROVE x = z
  <2>1. i = j
    BY <1>5, SameName DEF First
  <2> QED BY <2>1, <1>5
<1>6. ASSUME First(d, g, i, x), NEW k \in 1..Len(d.items[j].graph.items), Inner(d, g, j, k, z) PROVE FALSE
  <2>1. PICK p \in Paths : p = d.items[j].graph.items[k].path
    BY <1>6 DEF Inner
  <2>2. g.items[z].path = <<d.items[j].id>> \o p /\ g.items[x].path = <<d.items[i].id>>
    BY <1>6, <2>1 DEF Inner, Lowered, First
  <2>3. <<d.items[i].id>> = <<d.items[j].id>> \o p
    BY <2>2
  <2> QED BY <2>3, <1>4, NotBelow
<1>7. ASSUME First(d, g, j, z), NEW k \in 1..Len(d.items[i].graph.items), Inner(d, g, i, k, x) PROVE FALSE
  <2>1. PICK p \in Paths : p = d.items[i].graph.items[k].path
    BY <1>7 DEF Inner
  <2>2. g.items[x].path = <<d.items[i].id>> \o p /\ g.items[z].path = <<d.items[j].id>>
    BY <1>7, <2>1 DEF Inner, Lowered, First
  <2>3. <<d.items[j].id>> = <<d.items[i].id>> \o p
    BY <2>2
  <2> QED BY <2>3, <1>4, NotBelow
<1>8. ASSUME NEW k \in 1..Len(d.items[i].graph.items), x = ChildBase(d, i) + k, Inner(d, g, i, k, x),
             NEW l \in 1..Len(d.items[j].graph.items), z = ChildBase(d, j) + l, Inner(d, g, j, l, z)
      PROVE  x = z
  <2>0. PICK u : u = g.items[x].path
    OBVIOUS
  <2>1. PICK p \in Seq(STRING), q \in Seq(STRING) :
          /\ p = d.items[i].graph.items[k].path
          /\ q = d.items[j].graph.items[l].path
          /\ u = g.items[x].path
    BY <1>8, <2>0 DEF Inner, Paths
  <2>2. PathBelow(u, d, i, p) /\ PathBelow(u, d, j, q)
    BY <1>8, <2>1 DEF Inner, Lowered, PathBelow
  <2>3. i = j /\ p = q
    <3>1. i = j
      BY <2>2, SamePath
    <3>2. p = q
      BY <2>2, SamePath
    <3> QED BY <3>1, <3>2
  <2>4. /\ d.items[i].graph.items[k].kind = "node" /\ d.items[i].graph.items[l].kind = "node"
        /\ d.items[i].graph.items[k].path = d.items[i].graph.items[l].path
    BY <1>8, <2>1, <2>3 DEF Inner, Lowered
  <2>5. Named(d.items[i].graph) /\ l \in 1..Len(d.items[i].graph.items)
    BY <1>8, <2>3 DEF GoodDraft, WellFormed
  <2>6. k = l
    BY <2>4, <2>5 DEF Named
  <2> QED BY <2>3, <2>6, <1>8
<1> QED BY <1>1, <1>2, <1>3, <1>5, <1>6, <1>7, <1>8

(* Pairs of a compiled graph's items that may run together: what compile found in    *)
(* the draft, and what it found in the graphs mounted there.                         *)
OwnPair(d, x, z) ==
  \E i, j \in 1..Len(d.items) :
    /\ {d.items[i].id, d.items[j].id} \in CoScheduled(d)
    /\ i # j /\ x = OwnIndex(d, i) /\ z = OwnIndex(d, j)

InnerPair(d, x, z) ==
  \E i \in 1..Len(d.items) : \E p \in Company(d.items[i].graph) :
    x = ChildBase(d, i) + p[1] /\ z = ChildBase(d, i) + p[2]

MayMeet(d, x, z) == OwnPair(d, x, z) \/ InnerPair(d, x, z)

(* A transition leads to an item.                                                 *)
Leads(t, target, y) == target \in DOMAIN t.to /\ t.to[target] = y /\ y # 0

(* Two nodes of one graph.                                                   *)
SameGraph(g, x, z) ==
  /\ x \in 1..Len(g.items) /\ z \in 1..Len(g.items)
  /\ g.items[x].kind = "node" /\ g.items[z].kind = "node" /\ Home(g, x) = Home(g, z)

(* A transition of the draft leads to an item of the draft.                  *)
LEMMA OwnLeads ==
  ASSUME NEW d, GoodDraft(d), Accepts(d), NEW a \in Ids(d), NEW t, NEW x,
         Leads(CompileTransition(d, a), t, x)
  PROVE  /\ t \in Successors(d, a) /\ t # END
         /\ \E j \in 1..Len(d.items) : d.items[j].id = t /\ x = OwnIndex(d, j)
<1>1. t \in DOMAIN CompileTransition(d, a).to /\ CompileTransition(d, a).to[t] # 0
      /\ x = CompileTransition(d, a).to[t]
  BY DEF Leads
<1> QED BY <1>1, OwnTargets

(* Two targets of own transitions.                                               *)
LEMMA OwnPairIs ==
  ASSUME NEW d, GoodDraft(d), Accepts(d), NEW a \in Ids(d), NEW t, NEW x,
         Leads(CompileTransition(d, a), t, x),
         NEW b \in Ids(d), NEW u, NEW z, Leads(CompileTransition(d, b), u, z), x # z
  PROVE  t # u /\ ({t, u} \in CoScheduled(d) => OwnPair(d, x, z))
<1>1. PICK i \in 1..Len(d.items) : d.items[i].id = t /\ x = OwnIndex(d, i)
  BY OwnLeads
<1>2. PICK j \in 1..Len(d.items) : d.items[j].id = u /\ z = OwnIndex(d, j)
  BY OwnLeads
<1>3. i # j
  BY <1>1, <1>2
<1>4. t # u
  BY <1>1, <1>2, <1>3 DEF GoodDraft
<1>5. {t, u} \in CoScheduled(d) => OwnPair(d, x, z)
  BY <1>1, <1>2, <1>3 DEF OwnPair
<1> QED BY <1>4, <1>5

(* Co-scheduled items are nodes, and what they select is co-scheduled.       *)
LEMMA OwnBeside ==
  ASSUME NEW d, GoodDraft(d), Accepts(d), NEW g, g = Compile(d), NEW x, NEW z, OwnPair(d, x, z)
  PROVE  /\ SameGraph(g, x, z)
         /\ \A t, u, v, w : Leads(g.items[x].next, t, v) /\ Leads(g.items[z].next, u, w) /\ v # w
                              => MayMeet(d, v, w)
<1>1. PICK i, j \in 1..Len(d.items) :
        /\ {d.items[i].id, d.items[j].id} \in CoScheduled(d)
        /\ i # j /\ x = OwnIndex(d, i) /\ z = OwnIndex(d, j)
  BY DEF OwnPair
<1>2. PICK a, b : a = d.items[i].id /\ b = d.items[j].id
  OBVIOUS
<1>3. {a, b} \in CoScheduled(d) /\ a # b /\ a \in Ids(d) /\ b \in Ids(d)
  <2>1. a # b
    BY <1>1, <1>2 DEF GoodDraft
  <2> QED BY <2>1, <1>1, <1>2, DraftIs
<1>4. ~ d.items[i].mount /\ ~ d.items[j].mount
  <2>1. ~ d.items[i].mount
    <3>1. d.items[i].id \in {d.items[i].id, d.items[j].id}
      OBVIOUS
    <3> QED BY <3>1, <1>1, MountsAlone
  <2>2. ~ d.items[j].mount
    <3>1. d.items[j].id \in {d.items[i].id, d.items[j].id}
      OBVIOUS
    <3> QED BY <3>1, <1>1, MountsAlone
  <2> QED BY <2>1, <2>2
<1>5. First(d, g, i, x) /\ First(d, g, j, z)
  <2>1. First(d, g, i, OwnIndex(d, i))
    BY FirstPart
  <2>2. First(d, g, j, OwnIndex(d, j))
    BY FirstPart
  <2> QED BY <2>1, <2>2, <1>1
<1>6. SameGraph(g, x, z)
  BY <1>2, <1>4, <1>5 DEF First, SameGraph
<1>7. g.items[x].next = CompileTransition(d, a) /\ g.items[z].next = CompileTransition(d, b)
  BY <1>2, <1>4, <1>5 DEF First
<1>8. ASSUME NEW t, NEW v, Leads(CompileTransition(d, a), t, v),
             NEW u, NEW w, Leads(CompileTransition(d, b), u, w), v # w
      PROVE  MayMeet(d, v, w)
  <2>1. t \in Successors(d, a) /\ t # END
    BY <1>3, <1>8, OwnLeads
  <2>2. u \in Successors(d, b) /\ u # END
    BY <1>3, <1>8, OwnLeads
  <2>3. t # u
    BY <1>3, <1>8, OwnPairIs
  <2>4. {t, u} \in CoScheduled(d)
    BY <2>1, <2>2, <2>3, <1>3, TargetsCoScheduled
  <2>5. OwnPair(d, v, w)
    BY <2>4, <1>3, <1>8, OwnPairIs
  <2> QED BY <2>5 DEF MayMeet
<1> QED BY <1>6, <1>7, <1>8

(* A child comes with a relation of its own.                                 *)
LEMMA ChildCompany ==
  ASSUME NEW d, GoodDraft(d), NEW i \in 1..Len(d.items)
  PROVE  /\ Company(d.items[i].graph) \in SUBSET PairsOf(d.items[i].graph)
         /\ Beside(d.items[i].graph, Company(d.items[i].graph))
<1>1. WellFormed(d.items[i].graph)
  BY DEF GoodDraft
<1> QED BY <1>1, CompanyIs

(* A target of a child's item.                                                     *)
LeadsBelow(d, i, k, t, y) ==
  \E e \in 1..Len(d.items[i].graph.items) :
    Leads(d.items[i].graph.items[k].next, t, e) /\ y = ChildBase(d, i) + e

(* A child's item leads to an item of the child.                             *)
LEMMA InnerLeads ==
  ASSUME NEW d, GoodDraft(d), NEW g, NEW i \in 1..Len(d.items),
         NEW k \in 1..Len(d.items[i].graph.items), NEW x, Inner(d, g, i, k, x),
         NEW t, NEW y, NEW next, next = g.items[x].next, Leads(next, t, y)
  PROVE  LeadsBelow(d, i, k, t, y)
<1>1. PICK c, b : c = d.items[i].graph /\ b = ChildBase(d, i)
  OBVIOUS
<1>2. PICK to : to = c.items[k].next.to
  OBVIOUS
<1>3. g.items[x].next.to = [s \in DOMAIN to |-> Shift(to[s], b)]
  BY <1>1, <1>2 DEF Inner, Lowered
<1>4. Typed(c) /\ b \in Nat /\ Len(c.items) \in Nat
  BY <1>1, PlacesAre, DraftIs DEF GoodDraft, WellFormed
<1>5. t \in DOMAIN to /\ to[t] \in 0..Len(c.items) /\ y = Shift(to[t], b) /\ y # 0
  <2>1. c.items[k] \in CompiledItems(Len(c.items))
    BY <1>1, <1>4 DEF Typed
  <2>2. to \in Targets(Len(c.items))
    BY <2>1, <1>2 DEF CompiledItems
  <2>3. t \in DOMAIN to /\ y = Shift(to[t], b) /\ y # 0
    BY <1>3 DEF Leads
  <2> QED BY <2>2, <2>3 DEF Targets
<1>6. PICK e \in 0..Len(c.items) : e = to[t]
  BY <1>5
<1>7. e # 0 /\ Shift(e, b) = b + e
  BY <1>4, <1>5, <1>6 DEF Shift
<1>8. e \in 1..Len(c.items) /\ y = b + e
  BY <1>4, <1>5, <1>6, <1>7
<1>9. Leads(c.items[k].next, t, e)
  BY <1>2, <1>5, <1>6, <1>7 DEF Leads
<1> QED BY <1>1, <1>8, <1>9 DEF LeadsBelow

(* What the first part of Beside says of a pair.                             *)
LEMMA BesideIs ==
  ASSUME NEW g, NEW co, Beside(g, co), NEW p \in co
  PROVE  /\ g.items[p[1]].kind = "node" /\ g.items[p[2]].kind = "node"
         /\ Home(g, p[1]) = Home(g, p[2])
         /\ \A t, u, v, w : Leads(g.items[p[1]].next, t, v) /\ Leads(g.items[p[2]].next, u, w) /\ v # w
                              => <<v, w>> \in co
<1>1. PICK one, two : one = g.items[p[1]].next.to /\ two = g.items[p[2]].next.to
  OBVIOUS
<1>2. /\ g.items[p[1]].kind = "node" /\ g.items[p[2]].kind = "node"
      /\ Home(g, p[1]) = Home(g, p[2])
      /\ \A t \in DOMAIN one, u \in DOMAIN two :
           one[t] # 0 /\ two[u] # 0 /\ one[t] # two[u] => <<one[t], two[u]>> \in co
  <2>1. \A q \in co :
          /\ g.items[q[1]].kind = "node" /\ g.items[q[2]].kind = "node"
          /\ Home(g, q[1]) = Home(g, q[2])
          /\ \A t \in DOMAIN g.items[q[1]].next.to, u \in DOMAIN g.items[q[2]].next.to :
               g.items[q[1]].next.to[t] # 0 /\ g.items[q[2]].next.to[u] # 0
               /\ g.items[q[1]].next.to[t] # g.items[q[2]].next.to[u]
                 => <<g.items[q[1]].next.to[t], g.items[q[2]].next.to[u]>> \in co
    BY Zenon DEF Beside
  <2> QED BY <2>1, <1>1
<1>3. \A t, u, v, w : Leads(g.items[p[1]].next, t, v) /\ Leads(g.items[p[2]].next, u, w) /\ v # w
                        => <<v, w>> \in co
  BY <1>1, <1>2 DEF Leads
<1> QED BY <1>2, <1>3

(* A pair of a child is one of the whole graph.                              *)
LEMMA InnerPairIs ==
  ASSUME NEW d, NEW i \in 1..Len(d.items), NEW k, NEW l, <<k, l>> \in Company(d.items[i].graph)
  PROVE  InnerPair(d, ChildBase(d, i) + k, ChildBase(d, i) + l)
<1>1. PICK p \in Company(d.items[i].graph) : p[1] = k /\ p[2] = l
  <2>1. <<k, l>>[1] = k /\ <<k, l>>[2] = l
    OBVIOUS
  <2> QED BY <2>1
<1> QED BY <1>1 DEF InnerPair

(* What a child's pair selects is a child's pair.                            *)
LEMMA InnerBeside ==
  ASSUME NEW d, GoodDraft(d), Accepts(d), NEW g, g = Compile(d), NEW x, NEW z, InnerPair(d, x, z)
  PROVE  /\ SameGraph(g, x, z)
         /\ \A t, u, v, w : Leads(g.items[x].next, t, v) /\ Leads(g.items[z].next, u, w) /\ v # w
                              => MayMeet(d, v, w)
<1>1. PICK i \in 1..Len(d.items) : \E p \in Company(d.items[i].graph) :
        x = ChildBase(d, i) + p[1] /\ z = ChildBase(d, i) + p[2]
  BY DEF InnerPair
<1>2. PICK p \in Company(d.items[i].graph) : x = ChildBase(d, i) + p[1] /\ z = ChildBase(d, i) + p[2]
  BY <1>1
<1>3. /\ Company(d.items[i].graph) \in SUBSET PairsOf(d.items[i].graph)
      /\ Beside(d.items[i].graph, Company(d.items[i].graph))
  BY ChildCompany
<1>4. PICK k \in 1..Len(d.items[i].graph.items), l \in 1..Len(d.items[i].graph.items) : k = p[1] /\ l = p[2]
  BY <1>3 DEF PairsOf
<1>5. Inner(d, g, i, k, x) /\ Inner(d, g, i, l, z)
  <2>1. Inner(d, g, i, k, ChildBase(d, i) + k)
    BY ChildPart
  <2>2. Inner(d, g, i, l, ChildBase(d, i) + l)
    BY ChildPart
  <2> QED BY <2>1, <2>2, <1>2, <1>4
<1>6. PICK c : c = d.items[i].graph
  OBVIOUS
<1>7. /\ c.items[k].kind = "node" /\ c.items[l].kind = "node" /\ Home(c, k) = Home(c, l)
      /\ \A t, u, v, w : Leads(c.items[k].next, t, v) /\ Leads(c.items[l].next, u, w) /\ v # w
                           => <<v, w>> \in Company(c)
  <2>1. Beside(c, Company(c)) /\ p \in Company(c)
    BY <1>3, <1>6
  <2>2. /\ c.items[p[1]].kind = "node" /\ c.items[p[2]].kind = "node" /\ Home(c, p[1]) = Home(c, p[2])
        /\ \A t, u, v, w : Leads(c.items[p[1]].next, t, v) /\ Leads(c.items[p[2]].next, u, w) /\ v # w
                             => <<v, w>> \in Company(c)
    BY <2>1, BesideIs
  <2> QED BY <2>2, <1>4
<1>8. SameGraph(g, x, z)
  BY <1>5, <1>6, <1>7 DEF Inner, Lowered, SameGraph
<1>9. ASSUME NEW t, NEW u, NEW v, NEW w,
             Leads(g.items[x].next, t, v), Leads(g.items[z].next, u, w), v # w
      PROVE  MayMeet(d, v, w)
  <2>6. LeadsBelow(d, i, k, t, v)
    BY <1>5, <1>9, InnerLeads
  <2>7. LeadsBelow(d, i, l, u, w)
    BY <1>5, <1>9, InnerLeads
  <2>1. PICK e : Leads(d.items[i].graph.items[k].next, t, e) /\ v = ChildBase(d, i) + e
    BY <2>6 DEF LeadsBelow
  <2>2. PICK f : Leads(d.items[i].graph.items[l].next, u, f) /\ w = ChildBase(d, i) + f
    BY <2>7 DEF LeadsBelow
  <2>3. e # f
    BY <2>1, <2>2, <1>9
  <2>4. <<e, f>> \in Company(d.items[i].graph)
    BY <2>1, <2>2, <2>3, <1>6, <1>7
  <2>5. InnerPair(d, v, w)
    BY <2>1, <2>2, <2>4, InnerPairIs
  <2> QED BY <2>5 DEF MayMeet
<1> QED BY <1>8, <1>9

(* What one item's transition may select together.                                 *)
Selects(next, v, w, together) ==
  next.shape # "fixed" /\ (next.shape # "cond" => together)

(* Several targets of one transition may meet, unless a router chooses       *)
(* between them.                                                             *)
LEMMA OneSelects ==
  ASSUME NEW d, GoodDraft(d), Accepts(d), NEW g, g = Compile(d), NEW x \in 1..Len(g.items),
         NEW t, NEW u, NEW v, NEW w,
         Leads(g.items[x].next, t, v), Leads(g.items[x].next, u, w), v # w
  PROVE  Selects(g.items[x].next, v, w, MayMeet(d, v, w))
<1>1. PICK i \in 1..Len(d.items) :
         \/ x = OwnIndex(d, i) /\ First(d, g, i, x)
         \/ d.items[i].mount /\ x = OwnIndex(d, i) + 1 /\ Leaves(d, g, i, x)
         \/ \E k \in 1..Len(d.items[i].graph.items) : x = ChildBase(d, i) + k /\ Inner(d, g, i, k, x)
  BY EveryPart
<1>2. ASSUME g.items[x].next = CompileTransition(d, d.items[i].id)
      PROVE  Selects(g.items[x].next, v, w, MayMeet(d, v, w))
  <2>1. PICK a \in Ids(d) : a = d.items[i].id
    BY DraftIs
  <2>2. Leads(CompileTransition(d, a), t, v) /\ Leads(CompileTransition(d, a), u, w)
    BY <2>1, <1>2
  <2>3. t \in Successors(d, a) /\ t # END
    BY <2>2, OwnLeads
  <2>4. u \in Successors(d, a) /\ u # END
    BY <2>2, OwnLeads
  <2>5. t # u
    <3> SUFFICES ASSUME t = u PROVE FALSE
      OBVIOUS
    <3>1. CompileTransition(d, a).to[t] = v /\ CompileTransition(d, a).to[u] = w
      BY <2>2 DEF Leads
    <3> QED BY <3>1
  <2>6. /\ CompileTransition(d, a).shape # "fixed"
        /\ CompileTransition(d, a).shape # "cond" => {t, u} \in CoScheduled(d)
    BY <2>3, <2>4, <2>5, SelectedTogether
  <2>7. {t, u} \in CoScheduled(d) => OwnPair(d, v, w)
    BY <2>2, OwnPairIs
  <2>8. g.items[x].next.shape = CompileTransition(d, a).shape
    BY <2>1, <1>2
  <2> QED BY <2>6, <2>7, <2>8 DEF Selects, MayMeet
<1>3. CASE First(d, g, i, x)
  <2>1. CASE d.items[i].mount
    <3>1. DOMAIN g.items[x].next.to = {d.items[i].id}
      BY <1>3, <2>1 DEF First
    <3>2. t = u
      BY <3>1 DEF Leads
    <3> QED BY <3>2 DEF Leads
  <2>2. CASE ~ d.items[i].mount
    BY <1>2, <1>3, <2>2 DEF First
  <2> QED BY <2>1, <2>2
<1>4. CASE Leaves(d, g, i, x)
  BY <1>2, <1>4 DEF Leaves
<1>5. ASSUME NEW k \in 1..Len(d.items[i].graph.items), Inner(d, g, i, k, x)
      PROVE  Selects(g.items[x].next, v, w, MayMeet(d, v, w))
  <2>10. LeadsBelow(d, i, k, t, v)
    BY <1>5, InnerLeads
  <2>11. LeadsBelow(d, i, k, u, w)
    BY <1>5, InnerLeads
  <2>1. PICK e : Leads(d.items[i].graph.items[k].next, t, e) /\ v = ChildBase(d, i) + e
    BY <2>10 DEF LeadsBelow
  <2>2. PICK f : Leads(d.items[i].graph.items[k].next, u, f) /\ w = ChildBase(d, i) + f
    BY <2>11 DEF LeadsBelow
  <2>3. e # f
    BY <2>1, <2>2
  <2>4. PICK c : c = d.items[i].graph
    OBVIOUS
  <2>5. Beside(c, Company(c)) /\ k \in 1..Len(c.items)
    BY <2>4, ChildCompany
  <2>6. \A s, r \in DOMAIN c.items[k].next.to :
          c.items[k].next.to[s] # 0 /\ c.items[k].next.to[r] # 0
          /\ c.items[k].next.to[s] # c.items[k].next.to[r] =>
            /\ c.items[k].next.shape # "fixed"
            /\ c.items[k].next.shape # "cond" =>
                 <<c.items[k].next.to[s], c.items[k].next.to[r]>> \in Company(c)
    BY <2>5 DEF Beside
  <2>7. Selects(c.items[k].next, e, f, <<e, f>> \in Company(c))
    BY <2>1, <2>2, <2>3, <2>4, <2>6 DEF Leads, Selects
  <2>8. <<e, f>> \in Company(c) => InnerPair(d, v, w)
    BY <2>1, <2>2, <2>4, InnerPairIs
  <2>9. g.items[x].next.shape = c.items[k].next.shape
    BY <1>5, <2>4 DEF Inner, Lowered
  <2> QED BY <2>7, <2>8, <2>9 DEF Selects, MayMeet
<1> QED BY <1>1, <1>3, <1>4, <1>5

(* The relation MayMeet is what WellFormed asks for.                         *)
LEMMA CompiledBeside ==
  ASSUME NEW d, GoodDraft(d), Accepts(d), NEW g, g = Compile(d)
  PROVE  \E co \in SUBSET PairsOf(g) : Beside(g, co)
<1> DEFINE co == {p \in PairsOf(g) : MayMeet(d, p[1], p[2])}
<1>1. ASSUME NEW x, NEW z, MayMeet(d, x, z)
      PROVE  /\ SameGraph(g, x, z) /\ <<x, z>> \in co
             /\ \A t, u, v, w : Leads(g.items[x].next, t, v) /\ Leads(g.items[z].next, u, w) /\ v # w
                                  => MayMeet(d, v, w)
  <2>1. /\ SameGraph(g, x, z)
        /\ \A t, u, v, w : Leads(g.items[x].next, t, v) /\ Leads(g.items[z].next, u, w) /\ v # w
                             => MayMeet(d, v, w)
    <3>1. CASE OwnPair(d, x, z)
      BY <3>1, OwnBeside
    <3>2. CASE InnerPair(d, x, z)
      BY <3>2, InnerBeside
    <3> QED BY <3>1, <3>2, <1>1 DEF MayMeet
  <2>2. <<x, z>> \in PairsOf(g) /\ <<x, z>>[1] = x /\ <<x, z>>[2] = z
    BY <2>1 DEF SameGraph, PairsOf
  <2>3. <<x, z>> \in co
    BY <2>2, <1>1
  <2> QED BY <2>1, <2>3
<1>2. \A p \in co : MayMeet(d, p[1], p[2])
  OBVIOUS
<1>3. co \in SUBSET PairsOf(g)
  OBVIOUS
<1> HIDE DEF co
<1>4. ASSUME NEW p \in co
      PROVE  /\ g.items[p[1]].kind = "node" /\ g.items[p[2]].kind = "node"
             /\ Home(g, p[1]) = Home(g, p[2])
             /\ LET one == g.items[p[1]].next.to
                    two == g.items[p[2]].next.to
                IN \A t \in DOMAIN one, u \in DOMAIN two :
                     one[t] # 0 /\ two[u] # 0 /\ one[t] # two[u] => <<one[t], two[u]>> \in co
  <2>1. PICK x, z : x = p[1] /\ z = p[2]
    OBVIOUS
  <2>2. MayMeet(d, x, z)
    BY <2>1, <1>2
  <2>3. SameGraph(g, x, z)
    BY <2>2, <1>1
  <2>4. ASSUME NEW t \in DOMAIN g.items[x].next.to, NEW u \in DOMAIN g.items[z].next.to,
               g.items[x].next.to[t] # 0, g.items[z].next.to[u] # 0,
               g.items[x].next.to[t] # g.items[z].next.to[u]
        PROVE  <<g.items[x].next.to[t], g.items[z].next.to[u]>> \in co
    <3>1. PICK v, w : v = g.items[x].next.to[t] /\ w = g.items[z].next.to[u]
      OBVIOUS
    <3>2. Leads(g.items[x].next, t, v) /\ Leads(g.items[z].next, u, w) /\ v # w
      BY <3>1, <2>4 DEF Leads
    <3>3. MayMeet(d, v, w)
      BY <3>2, <2>2, <1>1
    <3>4. <<v, w>> \in co
      BY <3>3, <1>1
    <3> QED BY <3>1, <3>4
  <2> QED BY <2>1, <2>3, <2>4 DEF SameGraph
<1>5. ASSUME NEW x \in 1..Len(g.items), NEW t \in DOMAIN g.items[x].next.to,
             NEW u \in DOMAIN g.items[x].next.to,
             g.items[x].next.to[t] # 0, g.items[x].next.to[u] # 0,
             g.items[x].next.to[t] # g.items[x].next.to[u]
      PROVE  /\ g.items[x].next.shape # "fixed"
             /\ g.items[x].next.shape # "cond" =>
                  <<g.items[x].next.to[t], g.items[x].next.to[u]>> \in co
  <2>1. PICK v, w : v = g.items[x].next.to[t] /\ w = g.items[x].next.to[u]
    OBVIOUS
  <2>2. Leads(g.items[x].next, t, v) /\ Leads(g.items[x].next, u, w) /\ v # w
    BY <2>1, <1>5 DEF Leads
  <2>3. Selects(g.items[x].next, v, w, MayMeet(d, v, w))
    BY <2>2, OneSelects
  <2>4. MayMeet(d, v, w) => <<v, w>> \in co
    BY <1>1
  <2> QED BY <2>1, <2>3, <2>4 DEF Selects
<1>6. Beside(g, co)
  BY <1>4, <1>5 DEF Beside
<1> QED BY <1>3, <1>6

(* Compiling an accepted draft gives a well-formed graph.                    *)
LEMMA CompiledWellFormed ==
  ASSUME NEW d, GoodDraft(d), Accepts(d)
  PROVE  WellFormed(Compile(d))
<1>1. PICK g : g = Compile(d)
  OBVIOUS
<1>2. Typed(g) /\ Placed(g) /\ Confined(g) /\ Exited(g) /\ Named(g)
  BY <1>1, CompiledTyped, CompiledPlaced, CompiledConfined, CompiledExited, CompiledNamed
<1>3. \E co \in SUBSET PairsOf(g) : Beside(g, co)
  BY <1>1, CompiledBeside
<1> QED BY <1>1, <1>2, <1>3 DEF WellFormed

(* A node comes with the empty graph.                                        *)
LEMMA NoGraphWellFormed == WellFormed(NoGraph) /\ Len(NoGraph.items) = 0
<1>1. NoGraph.items = <<>> /\ NoGraph.exits = {} /\ NoGraph.entry = 0 /\ Len(NoGraph.items) = 0
  BY DEF NoGraph
<1>2. <<>> \in Seq(CompiledItems(0))
  OBVIOUS
<1>3. Typed(NoGraph)
  BY <1>1, <1>2 DEF Typed
<1>4. Placed(NoGraph)
  BY <1>1 DEF Placed
<1>5. Confined(NoGraph)
  BY <1>1 DEF Confined
<1>6. Exited(NoGraph)
  BY <1>1 DEF Exited
<1>7. Named(NoGraph)
  BY <1>1 DEF Named
<1>8. Beside(NoGraph, {})
  BY <1>1 DEF Beside
<1> QED BY <1>1, <1>3, <1>4, <1>5, <1>6, <1>7, <1>8 DEF WellFormed

--------------------------------------------------------------------------------
(* What a compiled graph reads as.                                           *)

(* f is the recursion of DraftAt.                                            *)
Descends(f, n, d, path) == f = [k \in 0..n |-> IF k = 0 THEN d ELSE ItemOf(f[k - 1], path[k]).draft]

(* The recursion of DraftAt defines a draft at every depth.                  *)
LEMMA DescendExists ==
  ASSUME NEW n \in Nat, NEW d, NEW path
  PROVE  \E f : Descends(f, n, d, path)
<1> DEFINE Bad == {m \in Nat : ~ \E f : Descends(f, m, d, path)}
<1> SUFFICES ASSUME Bad # {} PROVE FALSE
  OBVIOUS
<1>1. PICK m \in Bad : \A k \in Bad : m <= k
  <2>1. Bad \in SUBSET Nat
    OBVIOUS
  <2> HIDE DEF Bad
  <2> QED BY <2>1, LeastNumber
<1>2. m # 0
  <2>1. Descends([k \in 0..0 |-> d], 0, d, path)
    BY DEF Descends
  <2> QED BY <2>1
<1>3. PICK g : Descends(g, m - 1, d, path)
  <2>1. m - 1 \in Nat /\ m - 1 \notin Bad
    BY <1>1, <1>2
  <2> QED BY <2>1
<1> DEFINE f == [k \in 0..m |-> IF k = m THEN ItemOf(g[m - 1], path[m]).draft ELSE g[k]]
<1>4. \A k \in 0..m : f[k] = IF k = 0 THEN d ELSE ItemOf(f[k - 1], path[k]).draft
  <2>1. \A k \in 0..(m - 1) : g[k] = IF k = 0 THEN d ELSE ItemOf(g[k - 1], path[k]).draft
    BY <1>3 DEF Descends
  <2>2. m \in Nat /\ m >= 1
    BY <1>2
  <2> SUFFICES ASSUME NEW k \in 0..m
               PROVE  f[k] = IF k = 0 THEN d ELSE ItemOf(f[k - 1], path[k]).draft
    OBVIOUS
  <2>3. CASE k = m
    <3>1. k # 0 /\ k - 1 \in 0..m /\ k - 1 # m
      BY <2>2, <2>3
    <3> QED BY <2>3, <3>1
  <2>4. CASE k # m
    <3>1. k \in 0..(m - 1) /\ (k # 0 => k - 1 \in 0..m /\ k - 1 # m)
      BY <2>2, <2>4
    <3> QED BY <2>1, <2>4, <3>1
  <2> QED BY <2>3, <2>4
<1>5. f = [k \in 0..m |-> IF k = 0 THEN d ELSE ItemOf(f[k - 1], path[k]).draft]
  <2>1. f = [k \in 0..m |-> f[k]]
    OBVIOUS
  <2> HIDE DEF f
  <2> QED BY <1>4, <2>1
<1>6. Descends(f, m, d, path)
  BY <1>5 DEF Descends
<1> QED BY <1>6

(* The drafts on the way to the one a path leads to.                         *)
LEMMA DescendsTo ==
  ASSUME NEW d, NEW path, Len(path) \in Nat
  PROVE  \E f : /\ f[0] = d /\ DraftAt(d, path) = f[Len(path)]
                /\ \A k \in 1..Len(path) : f[k] = ItemOf(f[k - 1], path[k]).draft
<1> DEFINE at == CHOOSE f : f = [n \in 0..Len(path) |-> IF n = 0 THEN d ELSE ItemOf(f[n - 1], path[n]).draft]
<1>1. Descends(at, Len(path), d, path)
  <2>1. PICK g : Descends(g, Len(path), d, path)
    BY DescendExists
  <2>2. \E f : f = [n \in 0..Len(path) |-> IF n = 0 THEN d ELSE ItemOf(f[n - 1], path[n]).draft]
    BY <2>1, Zenon DEF Descends
  <2>3. at = [n \in 0..Len(path) |-> IF n = 0 THEN d ELSE ItemOf(at[n - 1], path[n]).draft]
    BY <2>2, Zenon
  <2> HIDE DEF at
  <2> QED BY <2>3, Zenon DEF Descends
<1>2. DraftAt(d, path) = at[Len(path)]
  BY DEF DraftAt
<1> HIDE DEF at
<1>3. \A k \in 0..Len(path) : at[k] = IF k = 0 THEN d ELSE ItemOf(at[k - 1], path[k]).draft
  BY <1>1 DEF Descends
<1>4. \A k \in 1..Len(path) : at[k] = ItemOf(at[k - 1], path[k]).draft
  <2> SUFFICES ASSUME NEW k \in 1..Len(path) PROVE at[k] = ItemOf(at[k - 1], path[k]).draft
    OBVIOUS
  <2>1. k \in 0..Len(path) /\ k # 0
    OBVIOUS
  <2> QED BY <2>1, <1>3
<1>5. at[0] = d
  BY <1>3
<1> QED BY <1>2, <1>4, <1>5

(* Outside every mount a draft is itself.                                    *)
LEMMA DraftAtEmpty ==
  ASSUME NEW d
  PROVE  DraftAt(d, <<>>) = d
<1>1. Len(<<>>) = 0
  OBVIOUS
<1>2. PICK f : f[0] = d /\ DraftAt(d, <<>>) = f[Len(<<>>)]
  BY <1>1, DescendsTo
<1> QED BY <1>1, <1>2

(* Below a mount a path leads where it leads in what is mounted.             *)
LEMMA DraftAtBelow ==
  ASSUME NEW d, NEW id \in STRING, NEW p \in Seq(STRING)
  PROVE  DraftAt(d, <<id>> \o p) = DraftAt(ItemOf(d, id).draft, p)
<1>1. PICK u : u = <<id>> \o p
  OBVIOUS
<1>2. PICK n \in Nat : n = Len(p)
  OBVIOUS
<1>3. u[1] = id /\ Len(u) = n + 1 /\ \A k \in 1..n : u[k + 1] = p[k]
  BY <1>1, <1>2, Below
<1>4. PICK e : e = ItemOf(d, id).draft
  OBVIOUS
<1>5. PICK f : /\ f[0] = d /\ DraftAt(d, u) = f[n + 1]
               /\ \A k \in 1..(n + 1) : f[k] = ItemOf(f[k - 1], u[k]).draft
  <2>1. Len(u) \in Nat
    BY <1>3
  <2>2. \E f : /\ f[0] = d /\ DraftAt(d, u) = f[Len(u)]
               /\ \A k \in 1..Len(u) : f[k] = ItemOf(f[k - 1], u[k]).draft
    BY <2>1, DescendsTo
  <2> QED BY <2>2, <1>3
<1>6. PICK g : /\ g[0] = e /\ DraftAt(e, p) = g[n]
               /\ \A k \in 1..n : g[k] = ItemOf(g[k - 1], p[k]).draft
  BY <1>2, DescendsTo
<1> DEFINE Bad == {k \in 0..n : f[k + 1] # g[k]}
<1>7. Bad = {}
  <2> SUFFICES ASSUME Bad # {} PROVE FALSE
    OBVIOUS
  <2>1. PICK m \in Bad : \A k \in Bad : m <= k
    <3>1. Bad \in SUBSET Nat
      OBVIOUS
    <3> HIDE DEF Bad
    <3> QED BY <3>1, LeastNumber
  <2>2. m # 0
    <3>1. f[1] = ItemOf(f[0], u[1]).draft
      <4>1. 1 \in 1..(n + 1) /\ 1 - 1 = 0
        OBVIOUS
      <4> QED BY <4>1, <1>5
    <3> QED BY <3>1, <1>3, <1>4, <1>5, <1>6
  <2>3. PICK k \in 0..(n - 1) : m = k + 1
    <3>1. m - 1 \in 0..(n - 1) /\ m = m - 1 + 1
      BY <2>2
    <3> QED BY <3>1
  <2>4. k \notin Bad /\ k \in 0..n
    BY <2>1, <2>3
  <2>5. f[k + 1] = g[k]
    BY <2>4
  <2>6. f[m + 1] = ItemOf(f[k + 1], u[m + 1]).draft
    <3>1. m + 1 \in 1..(n + 1) /\ m + 1 - 1 = k + 1
      BY <2>3
    <3> QED BY <3>1, <1>5
  <2>7. g[m] = ItemOf(g[k], p[m]).draft /\ u[m + 1] = p[m]
    <3>1. m \in 1..n /\ m - 1 = k
      BY <2>3
    <3> QED BY <3>1, <1>3, <1>6
  <2> QED BY <2>1, <2>5, <2>6, <2>7
<1>8. f[n + 1] = g[n]
  BY <1>7
<1> QED BY <1>1, <1>4, <1>5, <1>6, <1>8

(* A path ends below a mount as it does in what is mounted.                  *)
LEMMA LastIs ==
  ASSUME NEW id \in STRING
  PROVE  Last(<<id>>) = id /\ \A p \in Paths : Last(<<id>> \o p) = Last(p)
<1>1. Last(<<id>>) = id
  BY DEF Last
<1>2. ASSUME NEW p \in Paths PROVE Last(<<id>> \o p) = Last(p)
  <2>1. p \in Seq(STRING) /\ Len(p) \in Nat /\ Len(p) # 0
    BY EmptySeq DEF Paths
  <2>2. Len(p) \in 1..Len(p)
    BY <2>1
  <2>3. PICK u : u = <<id>> \o p
    OBVIOUS
  <2>4. Len(u) = Len(p) + 1 /\ u[Len(p) + 1] = p[Len(p)]
    BY <2>1, <2>2, <2>3, Below
  <2> QED BY <2>3, <2>4 DEF Last
<1> QED BY <1>1, <1>2

(* An item of a draft is found by its name.                                  *)
LEMMA ItemOfIs ==
  ASSUME NEW d, GoodDraft(d), NEW i \in 1..Len(d.items)
  PROVE  /\ ItemOf(d, d.items[i].id) = d.items[i]
         /\ d.items[i].id \in Mounts(d) <=> d.items[i].mount
<1>1. DOMAIN d.items = 1..Len(d.items)
  BY DraftIs
<1>2. \A j \in 1..Len(d.items) : d.items[j].id = d.items[i].id => j = i
  BY DEF GoodDraft
<1>3. (CHOOSE j \in DOMAIN d.items : d.items[j].id = d.items[i].id) = i
  BY <1>1, <1>2
<1>4. ItemOf(d, d.items[i].id) = d.items[i]
  BY <1>3 DEF ItemOf
<1>5. d.items[i].id \in Mounts(d) <=> d.items[i].mount
  BY <1>1, <1>2 DEF Mounts
<1> QED BY <1>4, <1>5

(* Whether an accepted item is left along a conditional transition.          *)
LEMMA ShapeIs ==
  ASSUME NEW d, GoodDraft(d), Accepts(d), NEW id \in Ids(d)
  PROVE  /\ CompileTransition(d, id).shape = "cond" <=> id \in DOMAIN d.cond
         /\ CompileTransition(d, id).shape = "condFan" <=> id \in DOMAIN d.condFan
<1>1. PICK kind \in Shapes : KindsOf(d, id) = {kind} /\ CompileTransition(d, id).shape = kind
  BY TransitionIs
<1>2. "cond" \in KindsOf(d, id) <=> id \in DOMAIN d["cond"]
  BY DEF KindsOf, SingleKinds
<1>3. "condFan" \in KindsOf(d, id) <=> id \in DOMAIN d["condFan"]
  BY DEF KindsOf, SingleKinds
<1> QED BY <1>1, <1>2, <1>3

(* A compiled transition leads to the items that bear its targets' names.    *)
LEMMA OwnFollows ==
  ASSUME NEW d, GoodDraft(d), Accepts(d), NEW g, g = Compile(d), NEW id \in Ids(d)
  PROVE  Follows(d, g, id, CompileTransition(d, id))
<1>1. PICK next : next = CompileTransition(d, id)
  OBVIOUS
<1>2. /\ DOMAIN next.to = Successors(d, id)
      /\ \A t \in Successors(d, id) : next.to[t] = EntryOf(d, t)
  BY <1>1, CompiledTransition
<1>3. /\ next.shape = "cond" <=> id \in DOMAIN d.cond
      /\ next.shape = "condFan" <=> id \in DOMAIN d.condFan
  BY <1>1, ShapeIs
<1>4. ASSUME NEW t \in Successors(d, id)
      PROVE  IF t = END THEN next.to[t] = 0
             ELSE next.to[t] # 0 /\ Last(g.items[next.to[t]].path) = t
  <2>1. t \in Ids(d) \cup {END} /\ next.to[t] = EntryOf(d, t)
    BY <1>2, TransitionIs
  <2>2. CASE t = END
    BY <2>1, <2>2, EntryIs
  <2>3. CASE t # END
    <3>1. PICK j \in 1..Len(d.items) : d.items[j].id = t /\ EntryOf(d, t) = OwnIndex(d, j)
      BY <2>1, <2>3, EntryIs
    <3>2. First(d, g, j, OwnIndex(d, j))
      BY FirstPart
    <3>3. g.items[next.to[t]].path = <<t>> /\ next.to[t] \in 1..Len(g.items)
      BY <2>1, <3>1, <3>2 DEF First
    <3>4. Last(<<t>>) = t
      BY DEF Last
    <3> QED BY <2>3, <3>3, <3>4
  <2> QED BY <2>2, <2>3
<1> QED BY <1>1, <1>2, <1>3, <1>4 DEF Follows

(* A node, or the item that leaves a mount, reads as it is declared.         *)
LEMMA OwnReads ==
  ASSUME NEW d, GoodDraft(d), Accepts(d), NEW g, g = Compile(d), NEW i \in 1..Len(d.items), NEW x,
         g.items[x].kind # "enter", g.items[x].path = <<d.items[i].id>>,
         g.items[x].next = CompileTransition(d, d.items[i].id),
         g.items[x].kind # "node" <=> d.items[i].mount
  PROVE  Reads(d, g, x)
<1>1. PICK id \in Ids(d) : id = d.items[i].id
  BY DraftIs
<1>2. Last(g.items[x].path) = id
  BY <1>1 DEF Last
<1>3. id \in Mounts(d) <=> d.items[i].mount
  BY <1>1, ItemOfIs
<1>4. Follows(d, g, id, g.items[x].next)
  BY <1>1, OwnFollows
<1> QED BY <1>1, <1>2, <1>3, <1>4 DEF Reads

(* Entering a mount leads to what its child begins with.                     *)
LEMMA EnterReads ==
  ASSUME NEW d, GoodDraft(d), Accepts(d), NEW g, g = Compile(d), NEW i \in 1..Len(d.items),
         d.items[i].mount
  PROVE  Reads(d, g, OwnIndex(d, i))
<1>1. PICK x, c, b, id, e : /\ x = OwnIndex(d, i) /\ c = d.items[i].graph /\ b = ChildBase(d, i)
                            /\ id = d.items[i].id /\ e = d.items[i].draft
  OBVIOUS
<1>2. First(d, g, i, x)
  BY <1>1, FirstPart
<1>3. /\ g.items[x].kind = "enter" /\ g.items[x].path = <<id>>
      /\ g.items[x].next.to = [s \in {id} |-> EnterTarget(c, b, x + 1)]
  BY <1>1, <1>2 DEF First
<1>4. id \in Ids(d) /\ id \in Mounts(d) /\ ItemOf(d, id).draft = e
  BY <1>1, ItemOfIs, DraftIs
<1>5. id \in STRING /\ Typed(c) /\ Confined(c)
  BY <1>1 DEF GoodDraft, WellFormed
<1>6. Begins(e) = IF c.entry = 0 THEN {} ELSE {Last(c.items[c.entry].path)}
  BY <1>1 DEF GoodDraft, Mirrors
<1>7. PICK j : j = EnterTarget(c, b, x + 1)
  OBVIOUS
<1>8. Begins(e) = IF g.items[j].kind = "exit" THEN {} ELSE {Last(g.items[j].path)}
  <2>1. CASE c.entry = 0
    <3>1. Leaves(d, g, i, x + 1)
      BY <1>1, LastPart
    <3>2. j = x + 1
      BY <2>1, <1>7 DEF EnterTarget
    <3> QED BY <2>1, <3>1, <3>2, <1>6 DEF Leaves
  <2>2. CASE c.entry # 0
    <3>1. c.entry \in 0..Len(c.items) /\ Len(c.items) \in Nat /\ b \in Nat
      BY <1>1, <1>5, PlacesAre, DraftIs DEF Typed
    <3>2. PICK k \in 1..Len(c.items) : k = c.entry
      BY <2>2, <3>1
    <3>3. j = b + k
      <4>1. j = c.entry + b
        BY <2>2, <1>7 DEF EnterTarget
      <4>2. PICK a1 \in Nat, a2 \in Nat : a1 = k /\ a2 = b
        BY <3>1
      <4>3. a1 + a2 = a2 + a1
        OBVIOUS
      <4> QED BY <4>1, <4>2, <4>3, <3>2
    <3>4. k \in 1..Len(d.items[i].graph.items)
      BY <1>1
    <3>5. Inner(d, g, i, k, j)
      <4>1. Inner(d, g, i, k, ChildBase(d, i) + k)
        BY <3>4, ChildPart
      <4> QED BY <4>1, <3>3, <1>1
    <3>6. c.items[k].kind # "exit"
      BY <2>2, <3>2, <1>5 DEF Confined
    <3>7. /\ g.items[j].kind = c.items[k].kind /\ g.items[j].path = <<id>> \o c.items[k].path
          /\ c.items[k].path \in Paths
      BY <3>5, <1>1 DEF Inner, Lowered
    <3>8. Last(g.items[j].path) = Last(c.items[k].path)
      BY <3>7, <1>5, LastIs
    <3> QED BY <2>2, <3>2, <3>6, <3>7, <3>8, <1>6
  <2> QED BY <2>1, <2>2
<1>9. Last(g.items[x].path) = id
  BY <1>3, <1>5, LastIs
<1>10. Opens(d, g, id, g.items[x].next)
  BY <1>3, <1>4, <1>7, <1>8 DEF Opens
<1>11. Reads(d, g, x)
  BY <1>3, <1>4, <1>9, <1>10 DEF Reads
<1> QED BY <1>1, <1>11

(* A child's item reads in the child as it did before it was mounted.        *)
LEMMA InnerReads ==
  ASSUME NEW d, GoodDraft(d), Accepts(d), NEW g, g = Compile(d), NEW i \in 1..Len(d.items),
         NEW k \in 1..Len(d.items[i].graph.items), NEW text, Reads(text, d.items[i].graph, k)
  PROVE  Reads(text, g, ChildBase(d, i) + k)
<1>1. PICK n, b, c, id, x :
         /\ n \in Nat /\ b \in Nat
         /\ c = d.items[i].graph /\ b = ChildBase(d, i) /\ id = d.items[i].id
         /\ n = Len(c.items) /\ x = b + k
  BY PlacesAre, DraftIs
<1>2. Inner(d, g, i, k, x)
  BY <1>1, ChildPart
<1>3. id \in STRING /\ Typed(c) /\ Confined(c) /\ k \in 1..n
  BY <1>1 DEF GoodDraft, WellFormed
<1>4. PICK to : to = c.items[k].next.to
  OBVIOUS
<1>5. /\ g.items[x].kind = c.items[k].kind
      /\ g.items[x].path = <<id>> \o c.items[k].path /\ c.items[k].path \in Paths
      /\ g.items[x].next.shape = c.items[k].next.shape
      /\ g.items[x].next.to = [t \in DOMAIN to |-> Shift(to[t], b)]
  BY <1>1, <1>2, <1>4 DEF Inner, Lowered
<1>6. ASSUME NEW j \in 1..n
      PROVE  /\ Shift(j, b) # 0 /\ g.items[Shift(j, b)].kind = c.items[j].kind
             /\ Last(g.items[Shift(j, b)].path) = Last(c.items[j].path)
  <2>1. j \in 1..Len(d.items[i].graph.items)
    BY <1>1
  <2>2. Inner(d, g, i, j, b + j)
    BY <2>1, <1>1, ChildPart
  <2>3. Shift(j, b) = b + j /\ b + j # 0
    BY <1>1 DEF Shift
  <2>4. /\ g.items[b + j].kind = c.items[j].kind /\ g.items[b + j].path = <<id>> \o c.items[j].path
        /\ c.items[j].path \in Paths
    BY <2>2, <1>1 DEF Inner, Lowered
  <2>5. Last(g.items[b + j].path) = Last(c.items[j].path)
    BY <2>4, <1>3, LastIs
  <2> QED BY <2>3, <2>4, <2>5
<1>7. \A t \in DOMAIN to : to[t] \in 0..n
  BY <1>1, <1>3, <1>4, ItemIs
<1>8. PICK name : name = Last(c.items[k].path)
  OBVIOUS
<1>9. Last(g.items[x].path) = name
  BY <1>3, <1>5, <1>8, LastIs
<1>10. Reads(text, c, k)
  BY <1>1
<1>11. name \in Ids(text) /\ (c.items[k].kind # "node" <=> name \in Mounts(text))
  BY <1>8, <1>10 DEF Reads
<1>12. Shift(0, b) = 0
  BY DEF Shift
<1>13. DOMAIN g.items[x].next.to = DOMAIN to /\ \A t \in DOMAIN to : g.items[x].next.to[t] = Shift(to[t], b)
  BY <1>5
<1>14. CASE c.items[k].kind # "enter"
  <2>1. Follows(text, c, name, c.items[k].next)
    BY <1>8, <1>10, <1>14 DEF Reads
  <2>2. ASSUME NEW t \in DOMAIN to
        PROVE  IF t = END THEN Shift(to[t], b) = 0
               ELSE Shift(to[t], b) # 0 /\ Last(g.items[Shift(to[t], b)].path) = t
    <3>1. IF t = END THEN to[t] = 0 ELSE to[t] # 0 /\ Last(c.items[to[t]].path) = t
      BY <2>1, <1>4 DEF Follows
    <3>2. CASE t = END
      BY <3>1, <3>2, <1>12
    <3>3. CASE t # END
      <4>1. PICK j \in 1..n : j = to[t]
        BY <3>1, <3>3, <1>7
      <4> QED BY <3>1, <3>3, <4>1, <1>6
    <3> QED BY <3>2, <3>3
  <2>3. /\ DOMAIN to = Successors(text, name)
        /\ g.items[x].next.shape = "cond" <=> name \in DOMAIN text.cond
        /\ g.items[x].next.shape = "condFan" <=> name \in DOMAIN text.condFan
    BY <2>1, <1>4, <1>5 DEF Follows
  <2>4. Follows(text, g, name, g.items[x].next)
    BY <2>2, <2>3, <1>13 DEF Follows
  <2>5. Reads(text, g, x)
    BY <2>4, <1>5, <1>9, <1>11, <1>14 DEF Reads
  <2> QED BY <2>5, <1>1
<1>15. CASE c.items[k].kind = "enter"
  <2>1. PICK j \in 1..n : \E t \in STRING : to = [s \in {t} |-> j]
    BY <1>1, <1>3, <1>4, <1>15 DEF Confined
  <2>2. DOMAIN to # {} /\ \A t \in DOMAIN to : to[t] = j
    BY <2>1
  <2>3. Opens(text, c, name, c.items[k].next)
    BY <1>8, <1>10, <1>15 DEF Reads
  <2>6. PICK t \in DOMAIN to : to[t] = j
    BY <2>2
  <2>7. Begins(ItemOf(text, name).draft) =
          IF c.items[j].kind = "exit" THEN {} ELSE {Last(c.items[j].path)}
    BY <2>3, <2>6, <1>4 DEF Opens
  <2>8. PICK y : y = Shift(j, b)
    OBVIOUS
  <2>9. g.items[y].kind = c.items[j].kind /\ Last(g.items[y].path) = Last(c.items[j].path)
    BY <2>8, <1>6
  <2>10. \A u \in DOMAIN g.items[x].next.to : g.items[x].next.to[u] = y
    BY <2>2, <2>8, <1>13
  <2>4. Opens(text, g, name, g.items[x].next)
    BY <2>7, <2>9, <2>10 DEF Opens
  <2>5. Reads(text, g, x)
    BY <2>4, <1>5, <1>9, <1>11, <1>15 DEF Reads
  <2> QED BY <2>5, <1>1
<1> QED BY <1>14, <1>15

(* A graph begins with the item its draft begins with.                       *)
LEMMA CompiledBegins ==
  ASSUME NEW d, GoodDraft(d), Accepts(d), NEW g, g = Compile(d)
  PROVE  Begins(d) = IF g.entry = 0 THEN {} ELSE {Last(g.items[g.entry].path)}
<1>1. Cardinality(FixedFrom(d, START)) = 1 /\ EndpointsKnown(d)
  BY DEF Accepts, OneTransitionEach
<1>2. PICK k : FixedFrom(d, START) = {k}
  <2>1. IsFiniteSet(FixedFrom(d, START))
    BY DraftIs, FS_Subset DEF FixedFrom
  <2> QED BY <2>1, <1>1, FS_Singleton
<1>3. PICK t : t = d.fixed[k][2]
  OBVIOUS
<1>4. t \in Ids(d) \cup {END}
  <2>1. k \in DOMAIN d.fixed
    BY <1>2 DEF FixedFrom
  <2> QED BY <2>1, <1>1, <1>3 DEF EndpointsKnown
<1>5. START \notin Ids(d)
  <2>1. \A i \in 1..Len(d.items) : d.items[i].id # START
    BY DEF GoodDraft, Reserved
  <2>2. Ids(d) = {d.items[i].id : i \in 1..Len(d.items)}
    BY DraftIs
  <2> QED BY <2>1, <2>2
<1>6. KindsOf(d, START) \ {"fixed"} = {}
  <2>1. \A kind \in SingleKinds : START \notin DOMAIN d[kind]
    BY <1>1, <1>5 DEF EndpointsKnown
  <2> QED BY <2>1 DEF KindsOf
<1>7. Successors(d, START) = {t}
  <2>1. {d.fixed[i][2] : i \in FixedFrom(d, START)} = {t}
    BY <1>2, <1>3
  <2>2. UNION {ToSet(d[kind][START]) : kind \in KindsOf(d, START) \ {"fixed"}} = {}
    BY <1>6
  <2> QED BY <2>1, <2>2 DEF Successors
<1>8. g.entry = EntryOf(d, t)
  <2>1. (CHOOSE i \in FixedFrom(d, START) : TRUE) = k
    BY <1>2
  <2> QED BY <2>1, <1>3 DEF Compile, Flatten
<1>9. CASE t = END
  <2>1. g.entry = 0
    BY <1>4, <1>8, <1>9, EntryIs
  <2> QED BY <2>1, <1>7, <1>9 DEF Begins
<1>10. CASE t # END
  <2>1. PICK j \in 1..Len(d.items) : d.items[j].id = t /\ EntryOf(d, t) = OwnIndex(d, j)
    BY <1>4, <1>10, EntryIs
  <2>2. First(d, g, j, g.entry)
    BY <2>1, <1>8, FirstPart
  <2>3. g.items[g.entry].path = <<t>> /\ g.entry \in 1..Len(g.items)
    BY <2>1, <2>2 DEF First
  <2>4. Last(<<t>>) = t
    BY DEF Last
  <2>5. g.entry # 0
    BY <2>3
  <2> QED BY <2>3, <2>4, <2>5, <1>7, <1>10 DEF Begins
<1> QED BY <1>9, <1>10

(* Compiling an accepted draft gives a graph that reads as the draft does.    *)
LEMMA CompiledMirrors ==
  ASSUME NEW d, GoodDraft(d), Accepts(d)
  PROVE  Mirrors(d, Compile(d))
<1>1. PICK g : g = Compile(d)
  OBVIOUS
<1>2. ASSUME NEW x \in 1..Len(g.items) PROVE Reads(DraftAt(d, Home(g, x)), g, x)
  <2>1. PICK i \in 1..Len(d.items) :
           \/ x = OwnIndex(d, i) /\ First(d, g, i, x)
           \/ d.items[i].mount /\ x = OwnIndex(d, i) + 1 /\ Leaves(d, g, i, x)
           \/ \E k \in 1..Len(d.items[i].graph.items) : x = ChildBase(d, i) + k /\ Inner(d, g, i, k, x)
    BY <1>1, EveryPart
  <2>2. CASE x = OwnIndex(d, i) /\ First(d, g, i, x)
    <3>1. Home(g, x) = <<>> /\ DraftAt(d, <<>>) = d
      BY <2>2, DraftAtEmpty DEF First
    <3>2. Reads(d, g, x)
      <4>1. CASE d.items[i].mount
        BY <4>1, <2>2, <1>1, EnterReads
      <4>2. CASE ~ d.items[i].mount
        <5>1. /\ g.items[x].kind = "node" /\ g.items[x].path = <<d.items[i].id>>
              /\ g.items[x].next = CompileTransition(d, d.items[i].id)
          BY <4>2, <2>2 DEF First
        <5> QED BY <5>1, <4>2, <1>1, OwnReads
      <4> QED BY <4>1, <4>2
    <3> QED BY <3>1, <3>2
  <2>3. CASE d.items[i].mount /\ x = OwnIndex(d, i) + 1 /\ Leaves(d, g, i, x)
    <3>1. Home(g, x) = <<>> /\ DraftAt(d, <<>>) = d
      BY <2>3, DraftAtEmpty DEF Leaves
    <3>2. /\ g.items[x].kind = "exit" /\ g.items[x].path = <<d.items[i].id>>
          /\ g.items[x].next = CompileTransition(d, d.items[i].id)
      BY <2>3 DEF Leaves
    <3>3. Reads(d, g, x)
      BY <3>2, <2>3, <1>1, OwnReads
    <3> QED BY <3>1, <3>3
  <2>4. CASE \E k \in 1..Len(d.items[i].graph.items) : x = ChildBase(d, i) + k /\ Inner(d, g, i, k, x)
    <3>1. PICK k \in 1..Len(d.items[i].graph.items) : x = ChildBase(d, i) + k /\ Inner(d, g, i, k, x)
      BY <2>4
    <3>2. PICK id \in STRING, h \in Seq(STRING) : id = d.items[i].id /\ h = Home(d.items[i].graph, k)
      BY <3>1 DEF Inner
    <3>3. Home(g, x) = <<id>> \o h
      BY <3>1, <3>2 DEF Inner
    <3>4. DraftAt(d, <<id>> \o h) = DraftAt(d.items[i].draft, h)
      <4>1. ItemOf(d, id) = d.items[i]
        BY <3>2, ItemOfIs
      <4> QED BY <4>1, DraftAtBelow
    <3>5. d.items[i].mount
      <4>1. Len(d.items[i].graph.items) # 0
        <5>1. PICK n \in Nat : n = Len(d.items[i].graph.items)
          BY DraftIs
        <5>2. k \in 1..n
          BY <5>1
        <5>3. n # 0
          BY <5>2
        <5> QED BY <5>1, <5>3
      <4> QED BY <4>1 DEF GoodDraft
    <3>6. Reads(DraftAt(d.items[i].draft, h), d.items[i].graph, k)
      <4>1. Mirrors(d.items[i].draft, d.items[i].graph)
        BY <3>5 DEF GoodDraft
      <4> QED BY <4>1, <3>2 DEF Mirrors
    <3>7. Reads(DraftAt(d.items[i].draft, h), g, ChildBase(d, i) + k)
      BY <3>6, <1>1, InnerReads
    <3> QED BY <3>1, <3>3, <3>4, <3>7
  <2> QED BY <2>1, <2>2, <2>3, <2>4
<1>3. Begins(d) = IF g.entry = 0 THEN {} ELSE {Last(g.items[g.entry].path)}
  BY <1>1, CompiledBegins
<1> QED BY <1>1, <1>2, <1>3 DEF Mirrors

--------------------------------------------------------------------------------
(* What the builder's calls build.                                            *)

(* f is the recursion of Build.                                              *)
Built(f, n, calls) == f = [k \in 0..n |-> IF k = 0 THEN NewDraft ELSE Call(f[k - 1], calls[k])]

(* The recursion of Build defines a draft after every call.                  *)
LEMMA BuiltExists ==
  ASSUME NEW n \in Nat, NEW calls
  PROVE  \E f : Built(f, n, calls)
<1> DEFINE Bad == {m \in Nat : ~ \E f : Built(f, m, calls)}
<1> SUFFICES ASSUME Bad # {} PROVE FALSE
  OBVIOUS
<1>1. PICK m \in Bad : \A k \in Bad : m <= k
  <2>1. Bad \in SUBSET Nat
    OBVIOUS
  <2> HIDE DEF Bad
  <2> QED BY <2>1, LeastNumber
<1>2. m # 0
  <2>1. Built([k \in 0..0 |-> NewDraft], 0, calls)
    BY DEF Built
  <2> QED BY <2>1
<1>3. PICK g : Built(g, m - 1, calls)
  <2>1. m - 1 \in Nat /\ m - 1 \notin Bad
    BY <1>1, <1>2
  <2> QED BY <2>1
<1> DEFINE f == [k \in 0..m |-> IF k = m THEN Call(g[m - 1], calls[m]) ELSE g[k]]
<1>4. \A k \in 0..m : f[k] = IF k = 0 THEN NewDraft ELSE Call(f[k - 1], calls[k])
  <2>1. \A k \in 0..(m - 1) : g[k] = IF k = 0 THEN NewDraft ELSE Call(g[k - 1], calls[k])
    BY <1>3 DEF Built
  <2>2. m \in Nat /\ m >= 1
    BY <1>2
  <2> SUFFICES ASSUME NEW k \in 0..m
               PROVE  f[k] = IF k = 0 THEN NewDraft ELSE Call(f[k - 1], calls[k])
    OBVIOUS
  <2>3. CASE k = m
    <3>1. k # 0 /\ k - 1 \in 0..m /\ k - 1 # m
      BY <2>2, <2>3
    <3> QED BY <2>3, <3>1
  <2>4. CASE k # m
    <3>1. k \in 0..(m - 1) /\ (k # 0 => k - 1 \in 0..m /\ k - 1 # m)
      BY <2>2, <2>4
    <3> QED BY <2>1, <2>4, <3>1
  <2> QED BY <2>3, <2>4
<1>5. f = [k \in 0..m |-> IF k = 0 THEN NewDraft ELSE Call(f[k - 1], calls[k])]
  <2>1. f = [k \in 0..m |-> f[k]]
    OBVIOUS
  <2> HIDE DEF f
  <2> QED BY <1>4, <2>1
<1>6. Built(f, m, calls)
  BY <1>5 DEF Built
<1> QED BY <1>6

(* The builder starts with a good draft.                                     *)
LEMMA NewDraftGood == GoodDraft(NewDraft)
<1>1. /\ DOMAIN NewDraft = DraftFields /\ NewDraft.items = <<>> /\ NewDraft.fixed = <<>>
  BY DEF NewDraft, DraftFields
<1>2. <<>> \in Seq({}) /\ Len(<<>>) = 0
  OBVIOUS
<1> QED BY <1>1, <1>2 DEF GoodDraft

(* Inserting an item, or refusing to, keeps the draft good.                  *)
LEMMA InsertKeepsGood ==
  ASSUME NEW d, GoodDraft(d), NEW item,
         item.id \in STRING, item.mount \in BOOLEAN, WellFormed(item.graph),
         ~ item.mount => Len(item.graph.items) = 0,
         item.mount => Mirrors(item.draft, item.graph)
  PROVE  GoodDraft(InsertItem(d, item))
<1>1. CASE item.id \in Reserved \cup Ids(d)
  BY <1>1 DEF InsertItem
<1>2. CASE item.id \notin Reserved \cup Ids(d)
  <2>1. PICK S : d.items \in Seq(S)
    BY DEF GoodDraft
  <2>2. PICK n \in Nat : n = Len(d.items)
    BY <2>1
  <2>3. PICK e : e = [d EXCEPT !.items = Append(@, item)]
    OBVIOUS
  <2>4. DOMAIN e = DraftFields /\ e.items = Append(d.items, item) /\ e.fixed = d.fixed
    BY <2>3 DEF GoodDraft, DraftFields
  <2>5. /\ d.items \in Seq(S \cup {item}) /\ item \in S \cup {item}
    BY <2>1
  <2>6. /\ e.items \in Seq(S \cup {item}) /\ Len(e.items) = n + 1
        /\ \A i \in 1..n : e.items[i] = d.items[i]
        /\ e.items[n + 1] = item
    BY <2>2, <2>4, <2>5, AppendProperties
  <2>7. \A i \in 1..(n + 1) : i \in 1..n \/ i = n + 1
    OBVIOUS
  <2>8. \A i \in 1..(n + 1) :
          /\ e.items[i].id \in STRING \ Reserved /\ e.items[i].mount \in BOOLEAN
          /\ WellFormed(e.items[i].graph)
          /\ ~ e.items[i].mount => Len(e.items[i].graph.items) = 0
          /\ e.items[i].mount => Mirrors(e.items[i].draft, e.items[i].graph)
    BY <1>2, <2>2, <2>6, <2>7 DEF GoodDraft
  <2>9. \A i \in 1..n : d.items[i].id # item.id
    BY <1>2, <2>2, DraftIs
  <2>10. \A i, j \in 1..(n + 1) : e.items[i].id = e.items[j].id => i = j
    <3> SUFFICES ASSUME NEW i \in 1..(n + 1), NEW j \in 1..(n + 1), e.items[i].id = e.items[j].id
                 PROVE  i = j
      OBVIOUS
    <3>1. CASE i \in 1..n /\ j \in 1..n
      <4>1. d.items[i].id = d.items[j].id
        BY <3>1, <2>6
      <4> QED BY <3>1, <4>1, <2>2 DEF GoodDraft
    <3>2. CASE i = n + 1 /\ j \in 1..n
      BY <3>2, <2>6, <2>9
    <3>3. CASE i \in 1..n /\ j = n + 1
      BY <3>3, <2>6, <2>9
    <3> QED BY <3>1, <3>2, <3>3, <2>7
  <2>11. \E T : e.items \in Seq(T)
    BY <2>6
  <2>12. \E T : e.fixed \in Seq(T)
    BY <2>4 DEF GoodDraft
  <2>13. GoodDraft(e)
    BY <2>4, <2>6, <2>8, <2>10, <2>11, <2>12 DEF GoodDraft
  <2> QED BY <2>3, <2>13, <1>2 DEF InsertItem
<1> QED BY <1>1, <1>2

(* The other calls leave the items alone.                                         *)
LEMMA EdgesKeepGood ==
  ASSUME NEW d, GoodDraft(d), NEW e, DOMAIN e = DOMAIN d, e.items = d.items,
         \E S : e.fixed \in Seq(S)
  PROVE  GoodDraft(e)
BY DEF GoodDraft

(* So does an edge,                                                          *)
LEMMA AddEdgeKeepsGood ==
  ASSUME NEW d, GoodDraft(d), NEW from, NEW to
  PROVE  GoodDraft(AddEdge(d, from, to))
<1>1. PICK e : e = AddEdge(d, from, to)
  OBVIOUS
<1>2. e = [d EXCEPT !.fixed = Append(@, <<from, to>>)]
  BY <1>1 DEF AddEdge
<1>3. DOMAIN e = DOMAIN d /\ e.items = d.items /\ e.fixed = Append(d.fixed, <<from, to>>)
  BY <1>2 DEF GoodDraft, DraftFields
<1>4. PICK S : d.fixed \in Seq(S)
  BY DEF GoodDraft
<1>5. d.fixed \in Seq(S \cup {<<from, to>>}) /\ <<from, to>> \in S \cup {<<from, to>>}
  BY <1>4
<1>6. e.fixed \in Seq(S \cup {<<from, to>>})
  BY <1>3, <1>5, AppendProperties
<1>7. GoodDraft(e)
  BY <1>3, <1>6, EdgesKeepGood
<1> QED BY <1>1, <1>7

(* add_fan_out and the like leave the draft alone or change the one kind of  *)
(* edges.                                                                    *)
LEMMA AddTargetsIs ==
  ASSUME NEW d, NEW kind, NEW source, NEW targets
  PROVE  \E x : AddTargets(d, kind, source, targets) \in {d, [d EXCEPT ![kind] = x]}
<1> DEFINE x == d[kind] @@ (source :> targets)
<1>1. AddTargets(d, kind, source, targets) =
        IF source \in DOMAIN d[kind] \/ targets = <<>> \/ ~ IsInjective(targets) THEN d
        ELSE [d EXCEPT ![kind] = x]
  BY Zenon DEF AddTargets
<1> HIDE DEF x
<1> QED BY <1>1, Zenon

(* and so do they.                                                           *)
LEMMA AddTargetsKeepsGood ==
  ASSUME NEW d, GoodDraft(d), NEW kind \in SingleKinds, NEW source, NEW targets
  PROVE  GoodDraft(AddTargets(d, kind, source, targets))
<1>1. PICK e : e = AddTargets(d, kind, source, targets)
  OBVIOUS
<1>2. PICK x : e \in {d, [d EXCEPT ![kind] = x]}
  BY <1>1, AddTargetsIs
<1>3. CASE e = d
  BY <1>1, <1>3
<1>4. CASE e = [d EXCEPT ![kind] = x]
  <2>1. kind # "items" /\ kind # "fixed"
    BY DEF SingleKinds
  <2>2. DOMAIN e = DOMAIN d /\ e.items = d.items /\ e.fixed = d.fixed
    BY <1>4, <2>1 DEF GoodDraft, DraftFields
  <2>3. \E S : e.fixed \in Seq(S)
    BY <2>2 DEF GoodDraft
  <2>4. GoodDraft(e)
    BY <2>2, <2>3, EdgesKeepGood
  <2> QED BY <1>1, <2>4
<1> QED BY <1>2, <1>3, <1>4

(* A call of a program of the library.                                          *)
GoodCall(c) ==
  /\ c.call \in {"node", "subgraph", "edge"} \cup SingleKinds
  /\ c.call \in {"node", "subgraph"} => c.id \in STRING
  /\ c.call = "subgraph" => WellFormed(c.child.graph) /\ Mirrors(c.child.draft, c.child.graph)

(* Every call of the builder keeps the draft good.                           *)
LEMMA CallKeepsGood ==
  ASSUME NEW d, GoodDraft(d), NEW c, GoodCall(c)
  PROVE  GoodDraft(Call(d, c))
<1>1. CASE c.call = "node"
  <2>1. c.id \in STRING
    BY <1>1 DEF GoodCall
  <2> DEFINE item == [id |-> c.id, mount |-> FALSE, graph |-> NoGraph, draft |-> NewDraft]
  <2>2. item.id \in STRING /\ item.mount = FALSE /\ item.graph = NoGraph
    BY <2>1
  <2>3. AddNode(d, c.id) = InsertItem(d, item)
    BY DEF AddNode
  <2> HIDE DEF item
  <2>4. GoodDraft(InsertItem(d, item))
    <3>1. item.mount \in BOOLEAN /\ WellFormed(item.graph) /\ Len(item.graph.items) = 0 /\ ~ item.mount
      BY <2>2, NoGraphWellFormed
    <3> QED BY <2>2, <3>1, InsertKeepsGood
  <2>5. Call(d, c) = AddNode(d, c.id)
    BY <1>1, Zenon DEF Call
  <2> QED BY <2>3, <2>4, <2>5
<1>2. CASE c.call = "subgraph"
  <2>1. c.id \in STRING /\ WellFormed(c.child.graph) /\ Mirrors(c.child.draft, c.child.graph)
    BY <1>2 DEF GoodCall
  <2> DEFINE item == [id |-> c.id, mount |-> TRUE, graph |-> c.child.graph, draft |-> c.child.draft]
  <2>2. item.id \in STRING /\ item.mount = TRUE /\ item.graph = c.child.graph /\ item.draft = c.child.draft
    BY <2>1
  <2>3. AddSubgraph(d, c.id, c.child) = InsertItem(d, item)
    BY DEF AddSubgraph
  <2> HIDE DEF item
  <2>4. GoodDraft(InsertItem(d, item))
    <3>1. /\ item.mount \in BOOLEAN /\ WellFormed(item.graph) /\ item.mount
          /\ Mirrors(item.draft, item.graph)
      BY <2>1, <2>2
    <3> QED BY <2>2, <3>1, InsertKeepsGood
  <2>5. Call(d, c) = AddSubgraph(d, c.id, c.child)
    BY <1>2 DEF Call
  <2> QED BY <2>3, <2>4, <2>5
<1>3. CASE c.call = "edge"
  <2>1. Call(d, c) = AddEdge(d, c.from, c.to)
    BY <1>3 DEF Call
  <2> QED BY <2>1, AddEdgeKeepsGood
<1>4. CASE c.call \in SingleKinds
  <2>1. Call(d, c) = AddTargets(d, c.call, c.from, c.to)
    BY <1>4 DEF Call, SingleKinds
  <2> QED BY <2>1, <1>4, AddTargetsKeepsGood
<1> QED BY <1>1, <1>2, <1>3, <1>4 DEF GoodCall

(* Good calls build a good draft.                                            *)
LEMMA BuildGood ==
  ASSUME NEW calls, Len(calls) \in Nat, \A k \in 1..Len(calls) : GoodCall(calls[k])
  PROVE  GoodDraft(Build(calls))
<1> DEFINE f == CHOOSE g : g = [n \in 0..Len(calls) |-> IF n = 0 THEN NewDraft ELSE Call(g[n - 1], calls[n])]
<1>1. Built(f, Len(calls), calls)
  BY BuiltExists DEF Built
<1>2. Build(calls) = f[Len(calls)]
  BY DEF Build
<1> HIDE DEF f
<1>3. \A k \in 0..Len(calls) : f[k] = IF k = 0 THEN NewDraft ELSE Call(f[k - 1], calls[k])
  BY <1>1 DEF Built
<1> DEFINE Bad == {k \in 0..Len(calls) : ~ GoodDraft(f[k])}
<1>4. Bad = {}
  <2> SUFFICES ASSUME Bad # {} PROVE FALSE
    OBVIOUS
  <2>1. PICK m \in Bad : \A k \in Bad : m <= k
    <3>1. Bad \in SUBSET Nat
      OBVIOUS
    <3> HIDE DEF Bad
    <3> QED BY <3>1, LeastNumber
  <2>2. m # 0
    <3>1. f[0] = NewDraft
      BY <1>3
    <3> QED BY <3>1, NewDraftGood
  <2>3. m \in 1..Len(calls) /\ m - 1 \in 0..Len(calls) /\ m - 1 \notin Bad
    BY <2>1, <2>2
  <2>4. GoodDraft(f[m - 1]) /\ GoodCall(calls[m]) /\ f[m] = Call(f[m - 1], calls[m])
    <3>1. m \in 0..Len(calls)
      BY <2>1
    <3> QED BY <2>2, <2>3, <3>1, <1>3
  <2>5. GoodDraft(f[m])
    BY <2>4, CallKeepsGood
  <2> QED BY <2>1, <2>5
<1> QED BY <1>2, <1>4

(* A mounted graph was compiled from a draft that was accepted.                    *)
LEMMA MountedIs ==
  ASSUME NEW n \in DOMAIN Library,
         \A m \in DOMAIN Library : m < n => \A p \in Library[m] : GoodDraft(Build(p)),
         NEW child \in Mountable(n)
  PROVE  WellFormed(child.graph) /\ Mirrors(child.draft, child.graph)
<1>1. PICK q \in UNION {Library[m] : m \in 1..(n - 1)} : Accepts(Build(q)) /\ child = Child(q)
  BY DEF Mountable
<1>2. PICK m \in 1..(n - 1) : q \in Library[m]
  OBVIOUS
<1>3. m \in DOMAIN Library /\ m < n
  BY LibraryAssumption, <1>2
<1>4. GoodDraft(Build(q))
  BY <1>2, <1>3
<1>5. PICK d : d = Build(q)
  OBVIOUS
<1>6. WellFormed(Compile(d)) /\ Mirrors(d, Compile(d))
  BY <1>1, <1>4, <1>5, CompiledWellFormed, CompiledMirrors
<1>7. child.graph = Compile(d) /\ child.draft = d
  BY <1>1, <1>5 DEF Child
<1> QED BY <1>6, <1>7

(* Every draft the library builds is a good one: by induction on its levels.         *)
LEMMA LibraryGood ==
  ASSUME NEW n \in DOMAIN Library, NEW program \in Library[n]
  PROVE  GoodDraft(Build(program))
<1> DEFINE Bad == {m \in DOMAIN Library : ~ \A p \in Library[m] : GoodDraft(Build(p))}
<1>1. Bad = {}
  <2> SUFFICES ASSUME Bad # {} PROVE FALSE
    OBVIOUS
  <2>1. PICK m \in Bad : \A k \in Bad : m <= k
    <3>1. Bad \in SUBSET Nat
      BY LibraryAssumption
    <3> HIDE DEF Bad
    <3> QED BY <3>1, LeastNumber
  <2>2. m \in DOMAIN Library /\ m \in Nat
    BY LibraryAssumption, <2>1
  <2>3. \A k \in DOMAIN Library : k < m => \A p \in Library[k] : GoodDraft(Build(p))
    <3>1. DOMAIN Library \subseteq Nat
      BY LibraryAssumption
    <3>2. \A k \in Bad : ~ (k < m)
      BY <2>1, <2>2, <3>1
    <3> QED BY <3>2
  <2>4. PICK p \in Library[m] : ~ GoodDraft(Build(p))
    BY <2>1
  <2>5. Len(p) \in Nat /\ DOMAIN p = 1..Len(p)
    BY <2>2, <2>4, LibraryAssumption
  <2>6. ASSUME NEW k \in 1..Len(p) PROVE GoodCall(p[k])
    <3>1. p[k] \in CallsOf(m)
      <4>1. p[k] \in ToSet(p)
        BY <2>5 DEF ToSet
      <4> QED BY <4>1, <2>4 DEF CallsOf
    <3>2. PICK c : c = p[k]
      OBVIOUS
    <3>3. /\ c.call \in {"node", "subgraph", "edge"} \cup SingleKinds
          /\ c.call \in {"node", "subgraph"} => c.id \in STRING
          /\ c.call = "subgraph" => c.child \in Mountable(m)
      BY <3>1, <3>2, <2>2, LibraryAssumption
    <3>4. c.call = "subgraph" => WellFormed(c.child.graph) /\ Mirrors(c.child.draft, c.child.graph)
      BY <3>3, <2>2, <2>3, MountedIs
    <3>5. GoodCall(c)
      BY <3>3, <3>4 DEF GoodCall
    <3> QED BY <3>2, <3>5
  <2>7. GoodDraft(Build(p))
    BY <2>5, <2>6, BuildGood
  <2> QED BY <2>4, <2>7
<1> QED BY <1>1

(* The graph of a run is well-formed and reads as its draft does.             *)
LEMMA GraphCompiled ==
  ASSUME Init
  PROVE  WellFormed(graph) /\ Mirrors(draft, graph)
<1>1. WellFormed(graph) /\ Mirrors(draft, graph)
  <2>1. PICK n \in DOMAIN Library : \E calls \in Library[n] : draft = Build(calls)
    BY DEF Init
  <2>2. PICK calls \in Library[n] : draft = Build(calls)
    BY <2>1
  <2>3. GoodDraft(draft)
    BY <2>2, LibraryGood
  <2>4. Accepts(draft) /\ graph = Compile(draft)
    BY DEF Init
  <2> QED BY <2>3, <2>4, CompiledWellFormed, CompiledMirrors
<1> QED BY <1>1

(* A run starts at the entry, outside every mount.                                *)
LEMMA RunStarts ==
  ASSUME Init
  PROVE  RunInv
<1>1. WellFormed(graph)
  BY GraphCompiled
<1>2. /\ pc = "normalize" /\ steps = 0 /\ open = <<>> /\ saved = {} /\ result = "none"
      /\ frontier = IF graph.entry = 0 THEN <<>> ELSE <<graph.entry>>
  BY DEF Init
<1>3. graph.entry \in 0..Len(graph.items) /\ Len(graph.items) \in Nat
  <2>1. Typed(graph)
    BY <1>1 DEF WellFormed
  <2> QED BY <2>1, LenProperties DEF Typed
<1>4. Onward(frontier)
  <2>1. CASE graph.entry = 0
    BY <2>1, <1>2, EmptyOnward
  <2>2. CASE graph.entry # 0
    <3>1. graph.entry \in 1..Len(graph.items)
      BY <2>2, <1>3
    <3>2. frontier = <<graph.entry>>
      BY <2>2, <1>2
    <3> QED BY <3>1, <3>2, SingleOnward
  <2> QED BY <2>1, <2>2
<1>5. CurrentScope = <<>>
  <2>1. CASE graph.entry = 0
    BY <2>1, <1>2 DEF CurrentScope
  <2>2. CASE graph.entry # 0
    <3>1. graph.items[graph.entry].kind # "exit" /\ Home(graph, graph.entry) = <<>>
      BY <2>2, <1>1 DEF WellFormed, Confined
    <3>2. frontier = <<graph.entry>> /\ frontier # <<>> /\ frontier[1] = graph.entry
      BY <2>2, <1>2
    <3>3. ItemAt(frontier[1]).kind # "exit" /\ GraphPathOf(frontier[1]) = <<>>
      BY <3>1, <3>2 DEF ItemAt, GraphPathOf, Home
    <3> QED BY <3>2, <3>3 DEF CurrentScope
  <2> QED BY <2>1, <2>2
<1>6. ScopesOf(<<>>) = <<>>
  BY DEF ScopesOf
<1> QED BY <1>1, <1>2, <1>4, <1>5, <1>6 DEF RunInv

(* The invariant of every run.                                               *)
LEMMA RunsKeepInv == Spec => []RunInv
<1>1. Init => RunInv
  BY RunStarts
<1>2. RunInv /\ [Next]_vars => RunInv'
  BY RunStep
<1> QED BY <1>1, <1>2, PTL DEF Spec

(* Whatever the library, its programs and the answers of the routers: a      *)
(* frontier that leaves normalize_frontier holds nodes only, so node_at never*)
(* meets a mount, and a saved frontier is accepted by the check of a later   *)
(* call and resolves to the items it was saved from.                         *)
THEOREM FrontiersRunnableHolds == Spec => []FrontiersRunnable
<1>1. RunInv => FrontiersRunnable
  BY RunInvHolds
<1> QED BY <1>1, RunsKeepInv, PTL

(* For the same graphs: the scopes a run has announced and not completed are *)
(* those around what runs next, through nested, empty and looping mounts and *)
(* restarts.                                                                 *)
THEOREM ScopesNestHolds == Spec => []ScopesNest
<1>1. RunInv => ScopesNest
  BY RunInvHolds
<1> QED BY <1>1, RunsKeepInv, PTL

--------------------------------------------------------------------------------
(* The nested graphs.                                                      *)

(* The abstract specification reads the successors of an item as compile does. *)
LEMMA SameSuccessors ==
  ASSUME NEW d, NEW id
  PROVE  Nested!Successors(d, id) = Successors(d, id)
BY DEF Nested!Successors, Nested!FixedFrom, Nested!KindsOf, Nested!SingleKinds, Nested!ToSet,
       Successors, FixedFrom, KindsOf, SingleKinds, ToSet

(* It sees the same items and mounts.                                        *)
LEMMA SameItems ==
  ASSUME NEW d, NEW id
  PROVE  Nested!ItemOf(d, id) = ItemOf(d, id) /\ Nested!Ids(d) = Ids(d) /\ Nested!Mounts(d) = Mounts(d)
BY DEF Nested!ItemOf, ItemOf, Nested!Ids, Ids, Nested!Mounts, Mounts

(* It finds the same draft at the end of a path of mounts.                    *)
LEMMA SameDraftAt ==
  ASSUME NEW d, NEW path
  PROVE  Nested!DraftAt(d, path) = DraftAt(d, path)
BY DEF Nested!DraftAt, DraftAt, Nested!ItemOf, ItemOf

(* It has the same ends, and takes sequences apart in the same way.            *)
LEMMA SameEnds ==
  ASSUME NEW s
  PROVE  Nested!Front(s) = Front(s) /\ Nested!Last(s) = Last(s) /\ Nested!END = END /\ Nested!START = START
BY DEF Nested!Front, Front, Nested!Last, Last, Nested!END, END, Nested!START, START

(* Where an item of d may be left for.                                       *)
LeftAs(d, id, to) ==
  /\ ~ (id \in DOMAIN d.cond /\ id \in DOMAIN d.condFan)
  /\ \E c \in SUBSET Successors(d, id) :
       /\ to = c \ {END}
       /\ IF id \in DOMAIN d.cond THEN \E t \in Successors(d, id) : c = {t}
          ELSE IF id \in DOMAIN d.condFan THEN c # {}
          ELSE c = Successors(d, id)

(* A choice LeftAs allows is one of those the abstract specification offers.   *)
LEMMA LeftForIs ==
  ASSUME NEW d, NEW id, NEW to, LeftAs(d, id, to)
  PROVE  to \in Nested!LeftFor(d, id)
<1>1. PICK c \in SUBSET Successors(d, id) :
    /\ to = c \ {END}
    /\ IF id \in DOMAIN d.cond THEN \E t \in Successors(d, id) : c = {t}
       ELSE IF id \in DOMAIN d.condFan THEN c # {}
       ELSE c = Successors(d, id)
  BY DEF LeftAs
<1>2. Nested!Successors(d, id) = Successors(d, id) /\ Nested!END = END
  BY SameSuccessors, SameEnds
<1>6. ~ (id \in DOMAIN d.cond /\ id \in DOMAIN d.condFan)
  BY DEF LeftAs
<1>3. CASE id \in DOMAIN d.cond
  <2>1. Nested!LeftFor(d, id) = {{t} \ {Nested!END} : t \in Nested!Successors(d, id)}
    BY <1>3, <1>6 DEF Nested!LeftFor
  <2>2. PICK t \in Successors(d, id) : c = {t}
    BY <1>1, <1>3
  <2>3. {t} \ {Nested!END} \in Nested!LeftFor(d, id)
    BY <2>1, <1>2
  <2> QED BY <2>2, <2>3, <1>1, <1>2
<1>4. CASE id \notin DOMAIN d.cond /\ id \in DOMAIN d.condFan
  <2>1. Nested!LeftFor(d, id) =
          {x \ {Nested!END} : x \in (SUBSET Nested!Successors(d, id)) \ {{}}}
    BY <1>4 DEF Nested!LeftFor
  <2>2. c \in (SUBSET Nested!Successors(d, id)) \ {{}}
    BY <1>1, <1>2, <1>4
  <2>3. c \ {Nested!END} \in Nested!LeftFor(d, id)
    BY <2>1, <2>2
  <2> QED BY <2>3, <1>1, <1>2
<1>5. CASE id \notin DOMAIN d.cond /\ id \notin DOMAIN d.condFan
  <2>1. Nested!LeftFor(d, id) = {Successors(d, id) \ {END}}
    BY <1>2, <1>5 DEF Nested!LeftFor
  <2> QED BY <2>1, <1>1, <1>5
<1> QED BY <1>3, <1>4, <1>5

(* Canonical lists every element.                                            *)
LEMMA CanonicalHasAll ==
  ASSUME NEW n \in Nat, NEW S \in SUBSET (0..n)
  PROVE  ToSet(Canonical(S)) = S
<1>1. IsFiniteSet(S) /\ Cardinality(S) \in Nat /\ S \in SUBSET Nat
  <2>1. IsFiniteSet(0..n)
    BY FS_Interval
  <2>2. IsFiniteSet(S)
    BY <2>1, FS_Subset
  <2> QED BY <2>2, FS_CardinalityType
<1>2. PICK s : Sorts(s, S)
  BY <1>1, SortedExists
<1>3. /\ s \in [1..Cardinality(S) -> S]
      /\ \A i, j \in DOMAIN s : i < j => s[i] < s[j]
  BY <1>2 DEF Sorts
<1> DEFINE c == Canonical(S)
<1>4. /\ c \in [1..Cardinality(S) -> S]
      /\ \A i, j \in DOMAIN c : i < j => c[i] < c[j]
  BY <1>3 DEF Canonical
<1> HIDE DEF c
<1>5. PICK m \in Nat : m = Cardinality(S)
  BY <1>1
<1>6. ASSUME NEW i \in 1..m, NEW j \in 1..m, c[i] = c[j] PROVE i = j
  <2>1. DOMAIN c = 1..m
    BY <1>4, <1>5
  <2>2. c[i] \in Nat
    BY <1>1, <1>4, <1>5
  <2>3. ~ (i < j) /\ ~ (j < i)
    BY <2>1, <2>2, <1>4, <1>6
  <2> QED BY <2>3
<1>7. c \in Injection(1..m, S)
  BY <1>4, <1>5, <1>6 DEF Injection, IsInjective
<1>8. IsFiniteSet(1..m) /\ Cardinality(1..m) = Cardinality(S)
  <2>1. 1 \in Int /\ m \in Int /\ (m # 0 => ~ (1 > m))
    OBVIOUS
  <2>2. IsFiniteSet(1..m) /\ Cardinality(1..m) = IF 1 > m THEN 0 ELSE m - 1 + 1
    BY FS_Interval
  <2> QED BY <2>1, <2>2, <1>5
<1>9. c \in Surjection(1..m, S)
  BY <1>1, <1>7, <1>8, FS_Injection
<1>10. ToSet(c) = S
  <2>1. DOMAIN c = 1..m
    BY <1>4, <1>5
  <2>2. \A x \in S : \E i \in 1..m : c[i] = x
    BY <1>9 DEF Surjection
  <2>3. \A i \in 1..m : c[i] \in S
    BY <1>4, <1>5
  <2> QED BY <2>1, <2>2, <2>3 DEF ToSet
<1> QED BY <1>10 DEF c

(* The items of a frontier, by the names they have in their graph.           *)
ActiveOf(f) == {Last(ItemAt(i).path) : i \in {j \in ToSet(f) : ItemAt(j).kind # "exit"}}

(* A branch that ends leads nowhere; the others lead to their targets.       *)
LEMMA ActiveNext ==
  ASSUME WellFormed(graph), NEW home, NEW targets, Together(targets, home)
  PROVE  ActiveOf(OrExit(targets, home)) = {Last(ItemAt(x).path) : x \in targets \ {0}}
<1> DEFINE n == Len(graph.items)
           f == OrExit(targets, home)
<1>1. n \in Nat /\ Typed(graph) /\ Exited(graph)
  BY DEF WellFormed, Typed
<1>2. CASE targets \subseteq {0}
  <2> DEFINE ways == {x.exit : x \in {y \in graph.exits : y.scope = home}}
  <2>1. f = Canonical(ways)
    BY <1>2 DEF OrExit
  <2>2. ways \in SUBSET (0..n)
    BY <1>1 DEF Typed
  <2>3. \A x \in ways : ItemAt(x).kind = "exit"
    BY <1>1 DEF Exited, ItemAt
  <2> HIDE DEF ways
  <2>4. ToSet(f) = ways
    <3>1. ToSet(Canonical(ways)) = ways
      BY <1>1, <2>2, CanonicalHasAll
    <3> QED BY <3>1, <2>1
  <2> HIDE DEF f
  <2>5. {j \in ToSet(f) : ItemAt(j).kind # "exit"} = {}
    BY <2>3, <2>4
  <2>6. ActiveOf(f) = {}
    BY <2>5 DEF ActiveOf
  <2>7. targets \ {0} = {}
    BY <1>2
  <2> QED BY <2>6, <2>7 DEF f
<1>3. CASE ~ (targets \subseteq {0})
  <2>1. f = Canonical(targets \ {0})
    BY <1>3 DEF OrExit
  <2>2. targets \ {0} \in SUBSET (0..n)
    BY DEF Together
  <2>3. \A x \in targets \ {0} : ItemAt(x).kind # "exit"
    BY DEF Together
  <2>4. ToSet(f) = targets \ {0}
    <3>1. ToSet(Canonical(targets \ {0})) = targets \ {0}
      BY <1>1, <2>2, CanonicalHasAll
    <3> QED BY <3>1, <2>1
  <2> HIDE DEF f
  <2>5. {j \in ToSet(f) : ItemAt(j).kind # "exit"} = targets \ {0}
    BY <2>3, <2>4
  <2> QED BY <2>5 DEF f, ActiveOf
<1> QED BY <1>2, <1>3

(* An answer selects what the nested graphs allow.                           *)
LEMMA AnswersRead ==
  ASSUME NEW text, NEW i, Reads(text, graph, i), ItemAt(i).kind # "enter",
         NEW items, NEW old, NEW a \in Answers(items, old), ~ Faulty(a), i \in items
  PROVE  /\ LeftAs(text, Last(ItemAt(i).path), a[i] \ {END})
         /\ a[i] \subseteq Successors(text, Last(ItemAt(i).path))
         /\ \A t \in a[i] : IF t = END THEN ItemAt(i).next.to[t] = 0
                            ELSE /\ ItemAt(i).next.to[t] # 0
                                 /\ Last(ItemAt(ItemAt(i).next.to[t]).path) = t
<1>1. PICK next, id : next = ItemAt(i).next /\ id = Last(ItemAt(i).path)
  OBVIOUS
<1>2. Follows(text, graph, id, next)
  BY <1>1 DEF Reads, ItemAt
<1>3. DOMAIN a = items /\ a[i] \in RouterAnswers(i)
  BY DEF Answers
<1>4. a[i] # Fault
  BY <1>3 DEF Faulty
<1>5. PICK all : all = Successors(text, id) /\ DOMAIN next.to = all
  BY <1>2 DEF Follows
<1>6. CASE next.shape = "cond"
  <2>1. \E t \in all : a[i] = {t}
    BY <1>1, <1>3, <1>4, <1>5, <1>6 DEF RouterAnswers
  <2>2. id \in DOMAIN text.cond /\ id \notin DOMAIN text.condFan
    BY <1>2, <1>6 DEF Follows
  <2>3. LeftAs(text, id, a[i] \ {END})
    BY <2>1, <2>2, <1>5 DEF LeftAs
  <2> QED BY <2>1, <2>3, <1>1, <1>2, <1>5 DEF Follows, ItemAt
<1>7. CASE next.shape = "condFan"
  <2>1. a[i] \subseteq all /\ a[i] # {}
    BY <1>1, <1>3, <1>4, <1>5, <1>7 DEF RouterAnswers
  <2>2. id \in DOMAIN text.condFan /\ id \notin DOMAIN text.cond
    BY <1>2, <1>7 DEF Follows
  <2>3. LeftAs(text, id, a[i] \ {END})
    BY <2>1, <2>2, <1>5 DEF LeftAs
  <2> QED BY <2>1, <2>3, <1>1, <1>2, <1>5 DEF Follows, ItemAt
<1>8. CASE next.shape # "cond" /\ next.shape # "condFan"
  <2>1. a[i] = all
    BY <1>1, <1>3, <1>4, <1>5, <1>8 DEF RouterAnswers
  <2>2. id \notin DOMAIN text.condFan /\ id \notin DOMAIN text.cond
    BY <1>2, <1>8 DEF Follows
  <2>3. LeftAs(text, id, a[i] \ {END})
    BY <2>1, <2>2, <1>5 DEF LeftAs
  <2> QED BY <2>1, <2>3, <1>1, <1>2, <1>5 DEF Follows, ItemAt
<1> QED BY <1>6, <1>7, <1>8

(* What a frontier selects becomes active, END aside.                        *)
LEMMA ActiveSelected ==
  ASSUME WellFormed(graph), NEW items \in SUBSET (1..Len(graph.items)), NEW home,
         \A i \in items : ItemAt(i).kind # "enter" /\ Home(graph, i) = home,
         \A i, j \in items : i # j => <<i, j>> \in Company(graph),
         NEW text, \A i \in items : Reads(text, graph, i),
         NEW old, NEW a \in Answers(items, old), ~ Faulty(a)
  PROVE  ActiveOf(OrExit(TargetsOf(a), home)) = UNION {a[i] \ {END} : i \in items}
<1>1. PICK targets : targets = TargetsOf(a)
  OBVIOUS
<1>2. Together(targets, home)
  BY <1>1, Selected
<1>3. PICK active : active = ActiveOf(OrExit(targets, home))
  OBVIOUS
<1>4. active = {Last(ItemAt(x).path) : x \in targets \ {0}}
  BY <1>2, <1>3, ActiveNext
<1>5. DOMAIN a = items
  BY AnswerIs
<1>6. \A x : x \in targets <=> \E i \in items : \E t \in a[i] : x = ItemAt(i).next.to[t]
  BY <1>1, <1>5 DEF TargetsOf
<1>7. ASSUME NEW i \in items, NEW t \in a[i]
      PROVE  IF t = END THEN ItemAt(i).next.to[t] = 0
             ELSE ItemAt(i).next.to[t] # 0 /\ Last(ItemAt(ItemAt(i).next.to[t]).path) = t
  BY AnswersRead
<1>8. ASSUME NEW u \in active PROVE u \in UNION {a[i] \ {END} : i \in items}
  <2>1. PICK x \in targets \ {0} : u = Last(ItemAt(x).path)
    BY <1>4
  <2>2. PICK i \in items : \E t \in a[i] : x = ItemAt(i).next.to[t]
    BY <2>1, <1>6
  <2>3. PICK t \in a[i] : x = ItemAt(i).next.to[t]
    BY <2>2
  <2>4. t # END /\ u = t
    BY <2>1, <2>3, <1>7
  <2> QED BY <2>4
<1>9. ASSUME NEW u \in UNION {a[i] \ {END} : i \in items} PROVE u \in active
  <2>1. PICK i \in items : u \in a[i] /\ u # END
    OBVIOUS
  <2>2. PICK x : x = ItemAt(i).next.to[u]
    OBVIOUS
  <2>3. x # 0 /\ Last(ItemAt(x).path) = u /\ x \in targets
    BY <2>1, <2>2, <1>6, <1>7
  <2> QED BY <2>3, <1>4
<1> QED BY <1>1, <1>3, <1>8, <1>9

(* What is active and where a later call may start, in the nested graphs.    *)
Active == {Last(ItemAt(i).path) : i \in {j \in ToSet(frontier) : ItemAt(j).kind # "exit"}}

Marks == {[scope |-> IF p = <<>> THEN <<>> ELSE Front(p[1]), active |-> ActiveIds(p)] : p \in saved}

(* The graph a run is in.                                                    *)
Text == DraftAt(draft, CurrentScope)

(* The abstract specification's steps, in these terms: nothing it sees changes. *)
LEMMA Stutters ==
  ASSUME draft' = draft, CurrentScope' = CurrentScope, Active' = Active, Marks' = Marks
  PROVE  UNCHANGED Nested!vars
BY DEF Nested!vars, Active, Marks

(* The active nodes run, each is left as its transition allows.              *)
LEMMA RunsNodes ==
  ASSUME draft' = draft, CurrentScope' = CurrentScope, Marks' = Marks,
         Active # {}, Active \cap Mounts(Text) = {},
         NEW pick \in [Active -> SUBSET Ids(Text)],
         \A id \in Active : LeftAs(Text, id, pick[id]),
         Active' = UNION {pick[id] : id \in Active}
  PROVE  Nested!NodesRun
<1>1. PICK a : a = Active
  OBVIOUS
<1>2. Nested!Inner = Text
  BY SameDraftAt DEF Nested!Inner, Text
<1>3. Nested!Mounts(Nested!Inner) = Mounts(Text) /\ Nested!Ids(Nested!Inner) = Ids(Text)
  BY <1>2, SameItems
<1>4. \A id \in Active : pick[id] \in Nested!LeftFor(Nested!Inner, id)
  BY <1>2, LeftForIs
<1>5. Active \cap Nested!Mounts(Nested!Inner) = {} /\ pick \in [Active -> SUBSET Nested!Ids(Nested!Inner)]
  BY <1>3
<1> QED BY <1>4, <1>5 DEF Nested!NodesRun, Active, Marks

(* A mount that is active alone is entered.                                  *)
LEMMA Enters ==
  ASSUME draft' = draft, Marks' = Marks, NEW id \in Mounts(Text), Active = {id},
         CurrentScope' = Append(CurrentScope, id), Active' = Begins(ItemOf(Text, id).draft)
  PROVE  Nested!Enter
<1>1. Nested!Inner = Text
  BY SameDraftAt DEF Nested!Inner, Text
<1>2. id \in Nested!Mounts(Nested!Inner) /\ Nested!ItemOf(Nested!Inner, id) = ItemOf(Text, id)
  BY <1>1, SameItems
<1>3. \A d : Nested!EntryItems(d) = Begins(d)
  BY SameSuccessors, SameEnds DEF Nested!EntryItems, Begins
<1>4. Active' = Nested!EntryItems(Nested!ItemOf(Nested!Inner, id).draft)
  BY <1>2, <1>3
<1> QED BY <1>2, <1>4 DEF Nested!Enter, Active, Marks

(* A mount nothing of which is active is left along its own transition.        *)
LEMMA LeavesMount ==
  ASSUME draft' = draft, Marks' = Marks, Active = {}, CurrentScope # <<>>,
         CurrentScope' = Front(CurrentScope),
         LeftAs(DraftAt(draft, Front(CurrentScope)), Last(CurrentScope), Active')
  PROVE  Nested!Leave
<1>1. /\ Nested!Front(CurrentScope) = Front(CurrentScope) /\ Nested!Last(CurrentScope) = Last(CurrentScope)
      /\ Nested!DraftAt(draft, Nested!Front(CurrentScope)) = DraftAt(draft, Front(CurrentScope))
  BY SameEnds, SameDraftAt
<1>2. Active' \in Nested!LeftFor(DraftAt(draft, Front(CurrentScope)), Last(CurrentScope))
  BY LeftForIs
<1>3. Active' \in Nested!LeftFor(Nested!DraftAt(draft, Nested!Front(CurrentScope)), Nested!Last(CurrentScope))
  BY <1>1, <1>2
<1>4. CurrentScope' = Nested!Front(CurrentScope)
  BY <1>1
<1> QED BY <1>3, <1>4 DEF Nested!Leave, Active, Marks

(* The place reached becomes one a later call may start from.                 *)
LEMMA MarksPlace ==
  ASSUME draft' = draft, CurrentScope' = CurrentScope, Active' = Active,
         Marks' = {[scope |-> CurrentScope, active |-> Active]}
  PROVE  Nested!Mark
BY DEF Nested!Mark, Active, Marks

(* A later call starts from a place that was marked.                          *)
LEMMA GoesBack ==
  ASSUME draft' = draft, Marks' = Marks, NEW c \in Marks, CurrentScope' = c.scope, Active' = c.active
  PROVE  Nested!GoBack
BY DEF Nested!GoBack, Active, Marks

(* A path is where its graph is, and a name there.                           *)
LEMMA PathIs ==
  ASSUME NEW p \in Paths
  PROVE  p = Append(Front(p), Last(p)) /\ Last(p) \in STRING
<1>1. p \in Seq(STRING) /\ Len(p) \in Nat /\ Len(p) # 0
  BY EmptySeq DEF Paths
<1>2. /\ Front(p) \in Seq(STRING) /\ Len(Front(p)) = Len(p) - 1
      /\ \A n \in 1..(Len(p) - 1) : Front(p)[n] = p[n]
  BY FrontIs DEF Paths
<1>3. PICK n \in Nat : Len(p) = n + 1
  <2>1. Len(p) - 1 \in Nat /\ Len(p) = Len(p) - 1 + 1
    BY <1>1
  <2> QED BY <2>1
<1>10. PICK q : q = Front(p)
  OBVIOUS
<1>4. PICK e \in STRING : q = Front(p) /\ e = p[n + 1] /\ Last(p) = e
  <2>1. p[n + 1] \in STRING
    BY <1>1, <1>3
  <2> QED BY <2>1, <1>3, <1>10 DEF Last
<1>5. q \in Seq(STRING) /\ Len(q) = n /\ \A k \in 1..n : q[k] = p[k]
  BY <1>2, <1>3, <1>4
<1>6. PICK r : r = Append(q, e)
  OBVIOUS
<1>7. /\ r \in Seq(STRING) /\ Len(r) = n + 1 /\ r[n + 1] = e
      /\ \A k \in 1..n : r[k] = q[k]
  BY <1>4, <1>5, <1>6, AppendProperties
<1>8. \A k \in 1..(n + 1) : p[k] = r[k]
  <2>1. \A k \in 1..(n + 1) : k \in 1..n \/ k = n + 1
    OBVIOUS
  <2> QED BY <2>1, <1>4, <1>5, <1>7
<1>9. p = r
  BY <1>1, <1>3, <1>7, <1>8, SeqEqual
<1> QED BY <1>4, <1>6, <1>9

(* What the abstract specification sees of a state, and of the next one.     *)
LEMMA SeenNow == CurrentScope = ScopeOf(frontier) /\ Active = ActiveOf(frontier)
<1>1. CurrentScope = ScopeOf(frontier)
  BY DEF CurrentScope, ScopeOf, GraphPathOf, Home, ItemAt
<1> QED BY <1>1 DEF Active, ActiveOf

(* The same of the frontier a step leads to, in an unchanged graph.            *)
LEMMA SeenNext ==
  ASSUME graph' = graph, NEW f, frontier' = f
  PROVE  CurrentScope' = ScopeOf(f) /\ Active' = ActiveOf(f)
<1>1. CurrentScope' = ScopeOf(f)
  BY DEF CurrentScope, ScopeOf, GraphPathOf, Home, ItemAt
<1>2. Active' = ActiveOf(f)
  BY DEF Active, ActiveOf, ItemAt
<1> QED BY <1>1, <1>2

(* A step that saves nothing marks nothing.                                  *)
LEMMA MarksKept ==
  ASSUME saved' = saved
  PROVE  Marks' = Marks
BY DEF Marks, ActiveIds

(* A step that changes only the budget, the events or the phase is a stutter.   *)
LEMMA SameSeen ==
  ASSUME draft' = draft, graph' = graph, frontier' = frontier, saved' = saved
  PROVE  UNCHANGED Nested!vars
<1>1. PICK f : f = frontier
  OBVIOUS
<1>2. CurrentScope' = ScopeOf(f) /\ Active' = ActiveOf(f) /\ Marks' = Marks
  BY <1>1, SeenNext, MarksKept
<1>3. CurrentScope = ScopeOf(f) /\ Active = ActiveOf(f)
  BY <1>1, SeenNow
<1> QED BY <1>2, <1>3, Stutters

(* The item a frontier of one is at.                                         *)
LEMMA AtOne ==
  ASSUME RunInv, Mirrors(draft, graph), Len(frontier) = 1, NEW i, i = frontier[1]
  PROVE  /\ i \in 1..Len(graph.items) /\ frontier # <<>> /\ ToSet(frontier) = {i}
         /\ ItemAt(i).path \in Paths /\ (ItemAt(i).kind = "exit" => ItemAt(i).scope = ItemAt(i).path)
         /\ Home(graph, i) = Front(ItemAt(i).path)
         /\ Reads(DraftAt(draft, Home(graph, i)), graph, i)
<1>1. i \in 1..Len(graph.items) /\ Typed(graph) /\ Placed(graph) /\ DOMAIN frontier = {1}
  <2>1. DOMAIN frontier = 1..Len(frontier)
    BY RunFacts
  <2> QED BY <2>1, RunFacts
<1>2. frontier # <<>>
  BY EmptySeq
<1>3. ToSet(frontier) = {i}
  BY <1>1 DEF ToSet
<1>4. ItemAt(i).path \in Paths /\ (ItemAt(i).kind = "exit" => ItemAt(i).scope = ItemAt(i).path)
  BY <1>1, ItemIs DEF Placed, ItemAt
<1>5. Reads(DraftAt(draft, Home(graph, i)), graph, i)
  BY <1>1 DEF Mirrors
<1> QED BY <1>1, <1>2, <1>3, <1>4, <1>5 DEF Home, ItemAt

(* Entering a mount enters the mounted graph.                                *)
LEMMA EnterNests ==
  ASSUME RunInv, Mirrors(draft, graph), EnterSubgraph
  PROVE  Nested!Enter
<1>1. PICK i : i = frontier[1]
  OBVIOUS
<1>2. /\ Len(frontier) = 1 /\ ItemAt(i).kind = "enter"
      /\ graph' = graph /\ draft' = draft /\ saved' = saved
  BY <1>1 DEF EnterSubgraph, AtKind
<1>3. PICK j \in 1..Len(graph.items) :
        /\ frontier' = <<j>>
        /\ \E t \in STRING : ItemAt(i).next.to = [s \in {t} |-> j]
        /\ IF ItemAt(j).kind = "exit" THEN ItemAt(j).path = ItemAt(i).path
           ELSE Home(graph, j) = ItemAt(i).path
  BY <1>1, EnterLeads
<1>4. /\ frontier # <<>> /\ ToSet(frontier) = {i} /\ ItemAt(i).path \in Paths
      /\ Home(graph, i) = Front(ItemAt(i).path)
      /\ Reads(DraftAt(draft, Home(graph, i)), graph, i)
  BY <1>1, <1>2, AtOne
<1>5. PICK id, home : id = Last(ItemAt(i).path) /\ home = Home(graph, i)
  OBVIOUS
<1>6. ItemAt(i).path = Append(home, id)
  BY <1>4, <1>5, PathIs
<1>7. CurrentScope = home /\ Active = {id}
  <2>1. ScopeOf(frontier) = home
    BY <1>1, <1>2, <1>4, <1>5 DEF ScopeOf
  <2>2. {x \in ToSet(frontier) : ItemAt(x).kind # "exit"} = {i}
    BY <1>2, <1>4
  <2>3. ActiveOf(frontier) = {id}
    BY <2>2, <1>5 DEF ActiveOf
  <2> QED BY <2>1, <2>3, SeenNow
<1>8. Text = DraftAt(draft, home)
  BY <1>7 DEF Text
<1>9. id \in Mounts(Text) /\ Opens(Text, graph, id, ItemAt(i).next)
  BY <1>2, <1>4, <1>5, <1>8 DEF Reads, ItemAt
<1>10. CurrentScope' = Append(CurrentScope, id)
  <2>1. ItemAt(j).kind = "exit" => ItemAt(j).scope = ItemAt(j).path
    BY RunFacts DEF Placed, ItemAt
  <2>2. ScopeOf(<<j>>) = ItemAt(i).path
    BY <2>1, <1>3 DEF ScopeOf
  <2> QED BY <2>2, <1>2, <1>3, <1>6, <1>7, SeenNext
<1>11. Active' = Begins(ItemOf(Text, id).draft)
  <2>1. Begins(ItemOf(Text, id).draft) =
          IF ItemAt(j).kind = "exit" THEN {} ELSE {Last(ItemAt(j).path)}
    <3>1. PICK t \in DOMAIN ItemAt(i).next.to : ItemAt(i).next.to[t] = j
      BY <1>3
    <3> QED BY <3>1, <1>9 DEF Opens, ItemAt
  <2>2. ToSet(<<j>>) = {j}
    BY DEF ToSet
  <2>3. ActiveOf(<<j>>) = IF ItemAt(j).kind = "exit" THEN {} ELSE {Last(ItemAt(j).path)}
    <3>1. CASE ItemAt(j).kind = "exit"
      <4>1. {x \in ToSet(<<j>>) : ItemAt(x).kind # "exit"} = {}
        BY <2>2, <3>1
      <4> QED BY <4>1, <3>1 DEF ActiveOf
    <3>2. CASE ItemAt(j).kind # "exit"
      <4>1. {x \in ToSet(<<j>>) : ItemAt(x).kind # "exit"} = {j}
        BY <2>2, <3>2
      <4> QED BY <4>1, <3>2 DEF ActiveOf
    <3> QED BY <3>1, <3>2
  <2> QED BY <2>1, <2>3, <1>2, <1>3, SeenNext
<1>12. Marks' = Marks
  BY <1>2, MarksKept
<1> QED BY <1>2, <1>7, <1>9, <1>10, <1>11, <1>12, Enters

(* Leaving a mount leaves the mounted graph, along the mount's own transition.    *)
LEMMA LeaveNests ==
  ASSUME RunInv, Mirrors(draft, graph), ExitSubgraph
  PROVE  [Nested!Next]_Nested!vars
<1>1. PICK i : i = frontier[1]
  OBVIOUS
<1>2. /\ AtKind("exit") /\ Len(frontier) = 1 /\ ItemAt(i).kind = "exit"
  BY <1>1 DEF ExitSubgraph, AtKind
<1>3. PICK a \in Answers({i}, answers) :
        IF Faulty(a) THEN Fail("RouteFailed")
        ELSE /\ frontier' = OrExit(TargetsOf(a), GraphPathOf(i))
             /\ graph' = graph /\ draft' = draft /\ saved' = saved
  BY <1>1 DEF ExitSubgraph
<1>4. CASE Faulty(a)
  <2>1. draft' = draft /\ graph' = graph /\ frontier' = frontier /\ saved' = saved
    BY <1>3, <1>4 DEF Fail
  <2> QED BY <2>1, SameSeen
<1>5. CASE ~ Faulty(a)
  <2>1. PICK f, home, text : /\ f = OrExit(TargetsOf(a), GraphPathOf(i)) /\ home = Home(graph, i)
                             /\ text = DraftAt(draft, home)
    OBVIOUS
  <2>2. ScopeOf(f) = home /\ GraphPathOf(i) = home
    BY <1>1, <1>2, <1>5, <2>1, ExitLeads
  <2>3. /\ i \in 1..Len(graph.items) /\ frontier # <<>> /\ ToSet(frontier) = {i}
        /\ ItemAt(i).path \in Paths /\ ItemAt(i).scope = ItemAt(i).path
        /\ home = Front(ItemAt(i).path) /\ Reads(text, graph, i)
    BY <1>1, <1>2, <2>1, AtOne
  <2>4. CurrentScope = ItemAt(i).path /\ Active = {}
    <3>1. ScopeOf(frontier) = ItemAt(i).path
      BY <1>1, <1>2, <2>3 DEF ScopeOf
    <3>2. {x \in ToSet(frontier) : ItemAt(x).kind # "exit"} = {}
      BY <1>2, <2>3
    <3>3. ActiveOf(frontier) = {}
      BY <3>2 DEF ActiveOf
    <3> QED BY <3>1, <3>3, SeenNow
  <2>5. ActiveOf(f) = a[i] \ {END}
    <3>1. PICK items : items = {i}
      OBVIOUS
    <3>2. items \in SUBSET (1..Len(graph.items)) /\ WellFormed(graph)
      BY <2>3, <3>1, RunFacts
    <3>3. \A x \in items : ItemAt(x).kind # "enter" /\ Home(graph, x) = home
      BY <1>2, <2>1, <3>1
    <3>4. \A x, y \in items : x # y => <<x, y>> \in Company(graph)
      BY <3>1
    <3>5. \A x \in items : Reads(text, graph, x)
      BY <2>3, <3>1
    <3>6. a \in Answers(items, answers)
      BY <3>1
    <3>7. ActiveOf(OrExit(TargetsOf(a), home)) = UNION {a[x] \ {END} : x \in items}
      BY <3>2, <3>3, <3>4, <3>5, <3>6, <1>5, ActiveSelected, ZenonT(30)
    <3>8. UNION {a[x] \ {END} : x \in items} = a[i] \ {END}
      BY <3>1
    <3> QED BY <3>7, <3>8, <2>1, <2>2
  <2>6. LeftAs(text, Last(ItemAt(i).path), a[i] \ {END})
    BY <1>2, <1>5, <2>3, AnswersRead
  <2>7. CurrentScope' = home /\ Active' = a[i] \ {END} /\ Marks' = Marks /\ draft' = draft
    <3>1. frontier' = f /\ graph' = graph /\ saved' = saved /\ draft' = draft
      BY <1>3, <1>5, <2>1
    <3> QED BY <3>1, <2>2, <2>5, SeenNext, MarksKept
  <2>8. CurrentScope # <<>>
    BY <2>3, <2>4 DEF Paths
  <2>9. LeftAs(DraftAt(draft, Front(CurrentScope)), Last(CurrentScope), Active')
    BY <2>1, <2>3, <2>4, <2>6, <2>7
  <2>10. Nested!Leave
    BY <2>3, <2>4, <2>7, <2>8, <2>9, LeavesMount
  <2> QED BY <2>10 DEF Nested!Next
<1> QED BY <1>4, <1>5

(* Nodes of one graph have different names.                                  *)
LEMMA NamesTell ==
  ASSUME WellFormed(graph), NEW i \in 1..Len(graph.items), NEW j \in 1..Len(graph.items),
         ItemAt(i).kind = "node", ItemAt(j).kind = "node", Home(graph, i) = Home(graph, j),
         Last(ItemAt(i).path) = Last(ItemAt(j).path)
  PROVE  i = j
<1>1. Typed(graph) /\ Named(graph)
  BY DEF WellFormed
<1>2. ItemAt(i).path \in Paths /\ ItemAt(j).path \in Paths
  BY <1>1, ItemIs DEF ItemAt
<1>3. ItemAt(i).path = ItemAt(j).path
  BY <1>2, PathIs DEF Home, ItemAt
<1> QED BY <1>1, <1>3 DEF Named, ItemAt

(* A superstep runs the active nodes of the graph the run is in.             *)
LEMMA NodesNest ==
  ASSUME RunInv, Mirrors(draft, graph), Superstep
  PROVE  [Nested!Next]_Nested!vars
<1>1. PICK i, items : i = frontier[1] /\ items = ToSet(frontier)
  OBVIOUS
<1>2. pc = "loop"
  BY DEF Superstep
<1>3. CASE StepsAfter > MaxSteps
  <2>1. draft' = draft /\ graph' = graph /\ frontier' = frontier /\ saved' = saved
    BY <1>3 DEF Superstep, Fail
  <2> QED BY <2>1, SameSeen
<1>4. CASE ~ (StepsAfter > MaxSteps)
  <2>1. PICK a \in Answers(items, <<>>) :
          IF Faulty(a) THEN Fail("RouteFailed")
          ELSE /\ frontier' = OrExit(TargetsOf(a), ItemAt(frontier[1]).scope)
               /\ draft' = draft /\ graph' = graph /\ saved' = saved
    BY <1>1, <1>4 DEF Superstep
  <2>2. CASE Faulty(a)
    <3>1. draft' = draft /\ graph' = graph /\ frontier' = frontier /\ saved' = saved
      BY <2>1, <2>2 DEF Fail
    <3> QED BY <3>1, SameSeen
  <2>3. CASE ~ Faulty(a)
    <3>1. PICK home, text, f : /\ home = Home(graph, i) /\ text = DraftAt(draft, home)
                               /\ f = OrExit(TargetsOf(a), ItemAt(frontier[1]).scope)
      OBVIOUS
    <3>2. /\ i \in items /\ items \in SUBSET (1..Len(graph.items))
          /\ \A x \in items : ItemAt(x).kind = "node" /\ Home(graph, x) = home
          /\ \A x, y \in items : x # y => <<x, y>> \in Company(graph)
          /\ ItemAt(i).scope = home
      BY <1>1, <1>2, <3>1, NodesTogether
    <3>3. WellFormed(graph) /\ Confined(graph) /\ Typed(graph)
      BY RunFacts
    <3>4. \A x \in items : Reads(text, graph, x)
      BY <3>1, <3>2 DEF Mirrors
    <3>5. \A x \in items : ItemAt(x).kind # "enter" /\ Home(graph, x) = home
      BY <3>2
    <3>6. ActiveOf(f) = UNION {a[x] \ {END} : x \in items}
      <4>2. items \in SUBSET (1..Len(graph.items)) /\ WellFormed(graph)
        BY <3>2, <3>3
      <4>3. \A x, y \in items : x # y => <<x, y>> \in Company(graph)
        BY <3>2
      <4>1. ActiveOf(OrExit(TargetsOf(a), home)) = UNION {a[x] \ {END} : x \in items}
        BY <2>3, <4>2, <4>3, <3>4, <3>5, ActiveSelected, ZenonT(30)
      <4> QED BY <4>1, <3>1, <3>2, <1>1
    <3>7. CurrentScope = home /\ Active = {Last(ItemAt(x).path) : x \in items}
      <4>1. frontier # <<>>
        BY <1>2 DEF RunInv
      <4>2. ItemAt(frontier[1]).kind # "exit"
        BY <1>1, <3>2
      <4>3. ScopeOf(frontier) = home
        BY <4>1, <4>2, <1>1, <3>1 DEF ScopeOf
      <4>4. {x \in ToSet(frontier) : ItemAt(x).kind # "exit"} = items
        BY <1>1, <3>2
      <4>5. ActiveOf(frontier) = {Last(ItemAt(x).path) : x \in items}
        BY <4>4 DEF ActiveOf
      <4> QED BY <4>3, <4>5, SeenNow
    <3>8. CurrentScope' = home /\ Active' = ActiveOf(f) /\ Marks' = Marks
      <4>1. frontier' = f /\ graph' = graph /\ saved' = saved
        BY <2>1, <2>3, <3>1
      <4>2. ScopeOf(f) = home
        BY <1>1, <1>2, <2>3, <3>1, SuperstepLeads
      <4> QED BY <4>1, <4>2, SeenNext, MarksKept
    <3>9. Text = text
      BY <3>1, <3>7 DEF Text
    <3>10. ASSUME NEW x \in items
           PROVE  /\ Last(ItemAt(x).path) \notin Mounts(Text)
                  /\ LeftAs(Text, Last(ItemAt(x).path), a[x] \ {END})
                  /\ a[x] \ {END} \subseteq Ids(Text)
      <4>1. Reads(text, graph, x) /\ ItemAt(x).kind = "node"
        BY <3>2, <3>4
      <4>2. Last(ItemAt(x).path) \notin Mounts(text)
        BY <4>1 DEF Reads, ItemAt
      <4>3. LeftAs(text, Last(ItemAt(x).path), a[x] \ {END})
        BY <4>1, <2>3, AnswersRead
      <4>5. \A t \in a[x] : IF t = END THEN ItemAt(x).next.to[t] = 0
                            ELSE /\ ItemAt(x).next.to[t] # 0
                                 /\ Last(ItemAt(ItemAt(x).next.to[t]).path) = t
        BY <4>1, <2>3, AnswersRead
      <4>4. ASSUME NEW t \in a[x], t # END PROVE t \in Ids(text)
        <5>1. PICK y : y = ItemAt(x).next.to[t]
          OBVIOUS
        <5>2. y # 0 /\ Last(ItemAt(y).path) = t
          BY <5>1, <4>4, <4>5
        <5>3. t \in DOMAIN ItemAt(x).next.to
          BY <2>3, AnswerIs
        <5>4. y \in 1..Len(graph.items)
          <6>1. y \in 0..Len(graph.items) /\ Len(graph.items) \in Nat
            BY <5>1, <5>3, <3>2, <3>3, ItemIs DEF ItemAt
          <6> QED BY <6>1, <5>2
        <5>5. Home(graph, y) = home
          BY <5>1, <5>2, <5>3, <4>1, <3>2, <3>3 DEF Confined, ItemAt
        <5>6. Reads(text, graph, y)
          BY <5>4, <5>5, <3>1 DEF Mirrors
        <5> QED BY <5>2, <5>6 DEF Reads, ItemAt
      <4> QED BY <4>2, <4>3, <4>4, <3>9
    <3> DEFINE at(id) == CHOOSE x \in items : Last(ItemAt(x).path) = id
               pick == [id \in Active |-> a[at(id)] \ {END}]
    <3>11. ASSUME NEW x \in items PROVE at(Last(ItemAt(x).path)) = x
      <4>1. \A y \in items : Last(ItemAt(y).path) = Last(ItemAt(x).path) => y = x
        BY <3>2, <3>3, NamesTell
      <4> QED BY <4>1
    <3> HIDE DEF at
    <3>12. \A x \in items : pick[Last(ItemAt(x).path)] = a[x] \ {END}
      BY <3>7, <3>11
    <3>13. DOMAIN pick = Active /\ pick = [id \in Active |-> pick[id]]
      OBVIOUS
    <3> HIDE DEF pick
    <3>14. pick \in [Active -> SUBSET Ids(Text)]
      <4>1. \A id \in Active : pick[id] \in SUBSET Ids(Text)
        BY <3>7, <3>10, <3>12
      <4> QED BY <4>1, <3>13
    <3>15. \A id \in Active : LeftAs(Text, id, pick[id]) /\ id \notin Mounts(Text)
      BY <3>7, <3>10, <3>12
    <3>16. Active' = UNION {pick[id] : id \in Active}
      <4>1. {pick[id] : id \in Active} = {a[x] \ {END} : x \in items}
        BY <3>7, <3>12
      <4> QED BY <4>1, <3>6, <3>8
    <3>17. Active # {} /\ Active \cap Mounts(Text) = {}
      BY <3>2, <3>7, <3>15
    <3>18. CurrentScope' = CurrentScope /\ draft' = draft /\ Marks' = Marks
      BY <2>1, <2>3, <3>7, <3>8
    <3>19. Nested!NodesRun
      BY <3>14, <3>15, <3>16, <3>17, <3>18, RunsNodes
    <3> QED BY <3>19 DEF Nested!Next
  <2> QED BY <2>2, <2>3
<1> QED BY <1>3, <1>4

(* What is saved names the scope and the active nodes of a frontier.         *)
LEMMA MarkIs ==
  ASSUME WellFormed(graph), NEW h, Onward(h), NodesOnly(h), NEW p, p = PathsOf(h)
  PROVE  (IF p = <<>> THEN <<>> ELSE Front(p[1])) = ScopeOf(h) /\ ActiveIds(p) = ActiveOf(h)
<1>1. DOMAIN h = 1..Len(h) /\ Len(h) \in Nat /\ \A k \in 1..Len(h) : ItemAt(h[k]).kind = "node"
  BY DEF Onward, NodesOnly
<1>2. DOMAIN p = 1..Len(h) /\ \A k \in 1..Len(h) : p[k] = ItemAt(h[k]).path
  BY <1>1 DEF PathsOf
<1>3. ActiveIds(p) = ActiveOf(h)
  <2>1. ActiveIds(p) = {Last(ItemAt(h[k]).path) : k \in 1..Len(h)}
    BY <1>2 DEF ActiveIds
  <2>2. ToSet(h) = {h[k] : k \in 1..Len(h)}
    BY <1>1 DEF ToSet
  <2>3. {j \in ToSet(h) : ItemAt(j).kind # "exit"} = {h[k] : k \in 1..Len(h)}
    BY <2>2, <1>1
  <2>4. ActiveOf(h) = {Last(ItemAt(i).path) : i \in {h[k] : k \in 1..Len(h)}}
    BY <2>3 DEF ActiveOf
  <2> QED BY <2>1, <2>4
<1>4. CASE h = <<>>
  <2>1. p = <<>>
    BY <1>4 DEF PathsOf
  <2> QED BY <2>1, <1>3, <1>4 DEF ScopeOf
<1>5. CASE h # <<>>
  BY <1>3, <1>5, PathsResolve
<1> QED BY <1>4, <1>5

(* A boundary marks where the run is.                                        *)
LEMMA BoundaryNests ==
  ASSUME RunInv, Boundary
  PROVE  [Nested!Next]_Nested!vars
<1>1. PICK f, p : f = frontier /\ p = PathsOf(f)
  OBVIOUS
<1>2. /\ saved' = (IF steps > 0 THEN {p} ELSE saved)
      /\ graph' = graph /\ draft' = draft /\ frontier' = f
  BY <1>1 DEF Boundary
<1>3. CASE ~ (steps > 0)
  <2>1. draft' = draft /\ graph' = graph /\ frontier' = frontier /\ saved' = saved
    BY <1>1, <1>2, <1>3
  <2> QED BY <2>1, SameSeen
<1>4. CASE steps > 0
  <2>1. Onward(f) /\ NodesOnly(f) /\ WellFormed(graph)
    BY <1>1, RunFacts DEF RunInv, Boundary
  <2>2. (IF p = <<>> THEN <<>> ELSE Front(p[1])) = CurrentScope /\ ActiveIds(p) = Active
    BY <2>1, <1>1, MarkIs, SeenNow
  <2>3. CurrentScope' = CurrentScope /\ Active' = Active
    BY <1>1, <1>2, SeenNow, SeenNext
  <2>4. Marks' = {[scope |-> CurrentScope, active |-> Active]}
    <3>1. saved' = {p}
      BY <1>2, <1>4
    <3>2. Marks' = {[scope |-> IF p = <<>> THEN <<>> ELSE Front(p[1]), active |-> ActiveIds(p)]}
      BY <3>1 DEF Marks, ActiveIds
    <3> QED BY <3>2, <2>2
  <2>5. Nested!Mark
    BY <1>2, <2>3, <2>4, MarksPlace
  <2> QED BY <2>5 DEF Nested!Next
<1> QED BY <1>3, <1>4

(* A restart goes back to what was marked.                                   *)
LEMMA RestartNests ==
  ASSUME RunInv, Restart
  PROVE  Nested!GoBack
<1>1. PICK p \in saved :
        /\ p # <<>>
        /\ FrontierAccepted(p) => /\ frontier' = Resolve(p) /\ draft' = draft
                                  /\ graph' = graph /\ saved' = saved
  BY DEF Restart
<1>2. PICK h : Onward(h) /\ NodesOnly(h) /\ saved = {PathsOf(h)}
  BY <1>1, RunFacts
<1>3. p = PathsOf(h) /\ h # <<>>
  BY <1>1, <1>2 DEF PathsOf
<1>4. FrontierAccepted(p) /\ Resolve(p) = h
  BY <1>2, <1>3, RunFacts, PathsResolve
<1>5. frontier' = h /\ draft' = draft /\ graph' = graph /\ saved' = saved
  BY <1>1, <1>4
<1>6. CurrentScope' = ScopeOf(h) /\ Active' = ActiveOf(h) /\ Marks' = Marks
  BY <1>5, SeenNext, MarksKept
<1>7. PICK c : c = [scope |-> IF p = <<>> THEN <<>> ELSE Front(p[1]), active |-> ActiveIds(p)]
  OBVIOUS
<1>8. c \in Marks
  BY <1>1, <1>7 DEF Marks
<1>9. c.scope = ScopeOf(h) /\ c.active = ActiveOf(h)
  BY <1>2, <1>3, <1>7, RunFacts, MarkIs
<1> QED BY <1>5, <1>6, <1>8, <1>9, GoesBack

(* A run starts where its draft begins.                                      *)
LEMMA StartNests ==
  ASSUME Init
  PROVE  Nested!Init
<1>1. WellFormed(graph) /\ Mirrors(draft, graph)
  BY GraphCompiled
<1>2. saved = {} /\ frontier = IF graph.entry = 0 THEN <<>> ELSE <<graph.entry>>
  BY DEF Init
<1>3. Begins(draft) = IF graph.entry = 0 THEN {} ELSE {Last(ItemAt(graph.entry).path)}
  BY <1>1 DEF Mirrors, ItemAt
<1>4. ScopeOf(frontier) = <<>> /\ ActiveOf(frontier) = Begins(draft)
  <2>1. CASE graph.entry = 0
    <3>1. frontier = <<>> /\ Begins(draft) = {}
      BY <2>1, <1>2, <1>3
    <3>2. ToSet(<<>>) = {}
      BY DEF ToSet
    <3>3. ActiveOf(<<>>) = {}
      BY <3>2 DEF ActiveOf
    <3> QED BY <3>1, <3>3, EmptyOnward
  <2>2. CASE graph.entry # 0
    <3>1. PICK i : i = graph.entry
      OBVIOUS
    <3>2. ItemAt(i).kind # "exit" /\ Home(graph, i) = <<>>
      BY <2>2, <3>1, <1>1 DEF WellFormed, Confined, ItemAt
    <3>3. frontier = <<i>> /\ Begins(draft) = {Last(ItemAt(i).path)}
      BY <2>2, <3>1, <1>2, <1>3
    <3>4. ToSet(<<i>>) = {i}
      BY DEF ToSet
    <3>5. {x \in ToSet(<<i>>) : ItemAt(x).kind # "exit"} = {i}
      BY <3>2, <3>4
    <3>6. ActiveOf(<<i>>) = {Last(ItemAt(i).path)}
      BY <3>5 DEF ActiveOf
    <3>7. ScopeOf(<<i>>) = <<>>
      BY <3>2 DEF ScopeOf
    <3> QED BY <3>3, <3>6, <3>7
  <2> QED BY <2>1, <2>2
<1>5. CurrentScope = <<>> /\ Active = Begins(draft)
  BY <1>4, SeenNow
<1>6. Marks = {}
  BY <1>2 DEF Marks
<1>7. Nested!EntryItems(draft) = Begins(draft)
  BY SameSuccessors, SameEnds DEF Nested!EntryItems, Begins
<1> QED BY <1>5, <1>6, <1>7 DEF Nested!Init, Active, Marks

(* A run keeps the graph it was compiled to.                                 *)
LEMMA GraphKept ==
  ASSUME [Next]_vars
  PROVE  draft' = draft /\ graph' = graph
BY DEF Next, Run, EnterSubgraph, ExitSubgraph, Stable, Boundary, Superstep, Restart, Fail, vars

(* Every step of a run is one of the nested graphs, or none.                 *)
LEMMA StepNests ==
  ASSUME RunInv, Mirrors(draft, graph), [Next]_vars
  PROVE  [Nested!Next]_Nested!vars
<1>1. CASE EnterSubgraph
  BY <1>1, EnterNests DEF Nested!Next
<1>2. CASE ExitSubgraph
  BY <1>2, LeaveNests
<1>3. CASE Stable
  <2>1. draft' = draft /\ graph' = graph /\ frontier' = frontier /\ saved' = saved
    BY <1>3 DEF Stable
  <2> QED BY <2>1, SameSeen
<1>4. CASE Boundary
  BY <1>4, BoundaryNests
<1>5. CASE Superstep
  BY <1>5, NodesNest
<1>6. CASE Restart
  BY <1>6, RestartNests DEF Nested!Next
<1>7. CASE UNCHANGED vars
  <2>1. draft' = draft /\ graph' = graph /\ frontier' = frontier /\ saved' = saved
    BY <1>7 DEF vars
  <2> QED BY <2>1, SameSeen
<1> QED BY <1>1, <1>2, <1>3, <1>4, <1>5, <1>6, <1>7 DEF Next, Run

(* For every library, the flattened graph runs as the nested declared graphs      *)
(* read: append_graph and resolve_transition follow items, renumbered and below   *)
(* their mounts' paths, just as NestedGraph follows the declared edges.       *)
THEOREM ImplementsNestedGraphHolds == Spec => ImplementsNestedGraph
<1>1. Spec => [](Mirrors(draft, graph))
  <2>1. Init => Mirrors(draft, graph)
    BY GraphCompiled
  <2>2. Mirrors(draft, graph) /\ [Next]_vars => Mirrors(draft, graph)'
    <3> SUFFICES ASSUME Mirrors(draft, graph), [Next]_vars PROVE Mirrors(draft, graph)'
      OBVIOUS
    <3>1. draft' = draft /\ graph' = graph
      BY GraphKept
    <3> QED BY <3>1
  <2> QED BY <2>1, <2>2, PTL DEF Spec
<1>2. Init => Nested!Init
  BY StartNests
<1>3. RunInv /\ Mirrors(draft, graph) /\ [Next]_vars => [Nested!Next]_Nested!vars
  BY StepNests
<1> QED BY <1>1, <1>2, <1>3, RunsKeepInv, PTL DEF Spec, ImplementsNestedGraph, Nested!Spec
================================================================================
