--------------------------- MODULE GraphRuntimeProofs ---------------------------
(***************************************************************************)
(* Proofs about GraphRuntime, for any set of nodes, any budget and any     *)
(* checkpoint a run starts from: the three invariants and the action       *)
(* property its run checks.                                                *)
(*                                                                         *)
(* The argument.  Inside a superstep the counters, the sink and the state  *)
(* disagree on purpose: nodes are announced before they are counted, a     *)
(* parallel frontier is counted before it is applied and a single node     *)
(* after.  Inv says by how much they disagree at every point of the loop   *)
(* (Counters), which starts have no completion yet and under which number  *)
(* they will have one (Pending), and what the last checkpoint says of the  *)
(* frontier at hand (Saved).                                               *)
(***************************************************************************)
EXTENDS GraphRuntime, Integers, FiniteSetTheorems, SequenceTheorems, WellFoundedInduction, TLAPS

--------------------------------------------------------------------------------
(* The inductive invariant.                                                   *)

Kinds == {"NodeStarted", "NodeCompleted", "NodeInterrupted", "StateUpdated",
          "CheckpointSaved"} \cup Terminal

EventType == [kind : Kinds, node : Nat, step : Int]

CheckpointType ==
  [state : Seq(Seq(Node)), frontier : SUBSET Node, step : Nat, superstep : Nat,
   asking : SUBSET Node]

TypeInv ==
  /\ config \in Configs
  /\ frontier \subseteq Node /\ next \subseteq Node /\ running \subseteq Node
  /\ asking \subseteq Node /\ at \in Nat \ {0}
  /\ state \in Seq(Seq(Node)) /\ steps \in Nat /\ superstep \in Nat
  /\ durable \in Seq(CheckpointType) /\ events \in Seq(EventType)
  /\ IsFiniteSet(Updates(state))

(* Where the run is between supersteps, and inside one.                        *)
Settled == {"loop", "announce", "route", "save", "stored", "suspend", "boundary"}
Inside == {"start", "run", "apply"}

Control ==
  /\ pc \in Settled \cup Inside \cup {"done"}
  /\ pc \in Inside \cup {"announce"} => frontier # {}
  /\ pc \in {"start", "announce"} => at <= Cardinality(frontier)
  /\ pc = "start" => Cardinality(frontier) <= StepLimit - steps
  /\ asking # {} => pc \in {"save", "stored", "suspend", "done"} /\ next = asking
  /\ pc = "suspend" => asking # {}
  /\ pc \in {"start", "run"} => running \subseteq {Order(frontier)[i] : i \in 1..Cardinality(frontier)}
  /\ pc \notin {"start", "run"} => running = {}

(* The nodes that have been counted, and the nodes that have been started.       *)
Applied == FirstStep + Cardinality(Updates(state))
Begun == FirstStep + Cardinality(Started(Len(events)))

Counters ==
  /\ pc \in Settled => superstep = Len(state) /\ steps = Applied
  /\ pc \in Settled /\ asking = {} => Begun = steps
  /\ pc \in Inside => superstep = Len(state) + 1
  /\ pc = "start" => steps = Applied /\ Begun = steps + at - 1
  /\ pc \in {"run", "apply"} =>
       IF Parallel THEN steps = Applied + Cardinality(frontier) /\ Begun = steps
       ELSE steps = Applied /\ Begun = steps + 1

(* The sink has seen the start numbered k complete.                            *)
Completed(k) ==
  \E j \in 1..Len(events) : /\ events[j].kind = "NodeCompleted"
                            /\ events[j].node = events[k].node
                            /\ events[j].step = events[k].step

(* Every node that has started has completed, or is running under its number.     *)
Place(n) == CHOOSE i \in 1..Cardinality(frontier) : Order(frontier)[i] = n

Pending ==
  /\ pc \in Settled \cup {"apply"} /\ asking = {}
       => \A k \in Started(Len(events)) : Completed(k)
  /\ pc \in {"start", "run"} =>
       \A k \in Started(Len(events)) :
         \/ Completed(k)
         \/ /\ events[k].node \in running
            /\ events[k].step = (IF pc = "start" THEN steps ELSE Base) + Place(events[k].node)

(* The terminal event is the last one, and agrees with the result.                *)
Outcome ==
  CASE result = "Completed" -> "RunCompleted"
    [] result = "Interrupted" -> "RunInterrupted"
    [] OTHER -> "RunFailed"

Ending ==
  /\ \A i \in 1..Len(events) : events[i].kind \in Terminal => i = Len(events) /\ pc = "done"
  /\ pc = "done" => events # <<>> /\ events[Len(events)].kind = Outcome
  /\ pc # "done" => result = "none"

(* The last checkpoint is of the present state and leads to this frontier.        *)
SavedAs(f) ==
  durable # <<>> /\ Last(durable).state = state /\ Last(durable).frontier = f

Saved ==
  config.mode = "enabled" =>
    /\ pc \in {"loop", "start", "run"} /\ config.policy = "EverySuperstep" /\ state # <<>>
         => SavedAs(frontier)
    /\ pc = "loop" /\ frontier = {} /\ (state # <<>> \/ config.fresh) => SavedAs({})
    /\ pc = "stored" => SavedAs(next)
    /\ pc = "boundary" /\ (config.policy = "EverySuperstep" \/ next = {}) => SavedAs(next)
    /\ result = "Completed" /\ (state # <<>> \/ config.fresh) => SavedAs({})

Inv ==
  /\ TypeInv /\ Control /\ Counters /\ Pending /\ Ending /\ Saved
  /\ MergeIsDeterministic /\ AllOrNothing /\ StepNumbersConsecutive /\ CheckpointCounters

--------------------------------------------------------------------------------
(* A frontier in compiled order.                                             *)

(* Every set of naturals that is not empty has a least element.             *)
LEMMA LeastNumber ==
  ASSUME NEW S \in SUBSET Nat, S # {}
  PROVE  \E m \in S : \A k \in S : m <= k
<1>1. \E R : IsWellFoundedOn(R, Nat) /\ \A x, y \in Nat : x < y => <<x, y>> \in R
  <2>1. \A x, y \in Nat : x < y => <<x, y>> \in OpToRel(<, Nat)
    BY DEF OpToRel
  <2>2. IsWellFoundedOn(OpToRel(<, Nat), Nat)
    BY NatLessThanWellFounded
  <2> HIDE DEF OpToRel
  <2> QED BY <2>1, <2>2, Zenon
<1>2. PICK R : IsWellFoundedOn(R, Nat) /\ \A x, y \in Nat : x < y => <<x, y>> \in R
  BY <1>1
<1>3. PICK m \in S : \A k \in S : ~ (<<k, m>> \in R)
  <2>1. S \subseteq Nat
    OBVIOUS
  <2>2. IsWellFoundedOn(R, Nat)
    BY <1>2
  <2>3. \E m \in S : \A k \in S : ~ (<<k, m>> \in R)
    BY <2>1, <2>2, WFMin, ZenonT(30)
  <2> QED BY <2>3
<1>4. ASSUME NEW k \in S PROVE m <= k
  <2>1. m \in Nat /\ k \in Nat
    OBVIOUS
  <2>2. ~ (k < m)
    BY <2>1, <1>2, <1>3, Zenon
  <2> QED BY <2>1, <2>2
<1> QED BY <1>4

(* A sequence that lists f in increasing order.                               *)
Sorts(s, f) ==
  /\ s \in [1..Cardinality(f) -> f]
  /\ \A i, j \in 1..Cardinality(f) : i < j => s[i] < s[j]

(* Every finite set of numbers can be sorted: otherwise take a smallest one that   *)
(* cannot, and put its least element before the others.                        *)
LEMMA SortedExists ==
  ASSUME NEW f \in SUBSET Nat, IsFiniteSet(f)
  PROVE  \E s : Sorts(s, f)
<1> DEFINE Bad == {n \in Nat : \E g \in SUBSET Nat : /\ IsFiniteSet(g) /\ Cardinality(g) = n
                                                      /\ ~ \E s : Sorts(s, g)}
<1> SUFFICES ASSUME Bad # {} PROVE FALSE
  <2>1. Cardinality(f) \in Nat
    BY FS_CardinalityType
  <2> QED BY <2>1
<1>1. PICK n \in Bad : \A k \in Bad : n <= k
  <2>1. Bad \in SUBSET Nat
    OBVIOUS
  <2> HIDE DEF Bad
  <2> QED BY <2>1, LeastNumber
<1>2. PICK g \in SUBSET Nat : IsFiniteSet(g) /\ Cardinality(g) = n /\ ~ \E s : Sorts(s, g)
  OBVIOUS
<1>3. g # {}
  <2>1. Cardinality({}) = 0
    BY FS_EmptySet
  <2>2. [i \in 1..0 |-> 0] \in [1..0 -> {}] /\ ~ \E i \in 1..0 : TRUE
    OBVIOUS
  <2>3. Sorts([i \in 1..0 |-> 0], {})
    BY <2>1, <2>2 DEF Sorts
  <2> QED BY <1>2, <2>3
<1>4. PICK m \in g : \A k \in g : m <= k
  BY <1>3, LeastNumber
<1>5. /\ IsFiniteSet(g \ {m}) /\ Cardinality(g \ {m}) = n - 1 /\ n - 1 \in Nat
  <2>1. IsFiniteSet(g \ {m}) /\ Cardinality(g \ {m}) = Cardinality(g) - 1
    BY <1>2, FS_RemoveElement
  <2>2. Cardinality(g \ {m}) \in Nat
    BY <2>1, FS_CardinalityType
  <2> QED BY <1>2, <2>1, <2>2
<1>6. PICK s : Sorts(s, g \ {m})
  <2>1. n - 1 \notin Bad
    BY <1>1, <1>5
  <2> QED BY <2>1, <1>5
<1> DEFINE h == [i \in 1..n |-> IF i = 1 THEN m ELSE s[i - 1]]
<1>7. /\ s \in [1..(n - 1) -> g \ {m}]
      /\ \A i, j \in 1..(n - 1) : i < j => s[i] < s[j]
  BY <1>5, <1>6 DEF Sorts
<1>8. \A i \in 1..n : i # 1 => i - 1 \in 1..(n - 1)
  BY <1>5
<1>9. h \in [1..n -> g]
  BY <1>7, <1>8
<1>10. ASSUME NEW i \in 1..n, NEW j \in 1..n, i < j PROVE h[i] < h[j]
  <2>1. j # 1 /\ h[j] = s[j - 1] /\ s[j - 1] \in g \ {m}
    BY <1>7, <1>8, <1>10
  <2>2. CASE i = 1
    <3>1. h[i] = m /\ m <= s[j - 1] /\ m # s[j - 1] /\ m \in Nat /\ s[j - 1] \in Nat
      BY <2>1, <2>2, <1>4, <1>5
    <3> HIDE DEF h
    <3> QED BY <2>1, <3>1
  <2>3. CASE i # 1
    <3>1. h[i] = s[i - 1] /\ i - 1 < j - 1 /\ i - 1 \in 1..(n - 1) /\ j - 1 \in 1..(n - 1)
      BY <2>1, <2>3, <1>8, <1>10
    <3> QED BY <2>1, <3>1, <1>7
  <2> QED BY <2>2, <2>3
<1> HIDE DEF h
<1>11. Sorts(h, g)
  BY <1>2, <1>9, <1>10 DEF Sorts
<1> QED BY <1>2, <1>11

(* Order lists a frontier, in order.                                          *)
LEMMA OrderSorts ==
  ASSUME NEW f \in SUBSET Node
  PROVE  /\ IsFiniteSet(f) /\ Cardinality(f) \in Nat /\ (f # {} => Cardinality(f) > 0)
         /\ Sorts(Order(f), f) /\ Order(f) \in Seq(Node) /\ Len(Order(f)) = Cardinality(f)
<1>1. IsFiniteSet(f) /\ f \in SUBSET Nat
  BY RuntimeAssumption, FS_Subset
<1>2. Cardinality(f) \in Nat /\ (f # {} => Cardinality(f) > 0)
  BY <1>1, FS_CardinalityType, FS_EmptySet
<1>3. PICK s : Sorts(s, f)
  BY <1>1, SortedExists
<1>4. /\ s \in [1..Cardinality(f) -> f]
      /\ \A i, j \in DOMAIN s : i < j => s[i] < s[j]
  BY <1>3 DEF Sorts
<1>5. /\ Order(f) \in [1..Cardinality(f) -> f]
      /\ \A i, j \in DOMAIN Order(f) : i < j => Order(f)[i] < Order(f)[j]
  BY <1>4 DEF Order
<1>6. Sorts(Order(f), f)
  BY <1>5 DEF Sorts
<1>7. Order(f) \in Seq(Node) /\ Len(Order(f)) = Cardinality(f)
  BY <1>2, <1>5
<1> QED BY <1>1, <1>2, <1>6, <1>7

(* No node is listed twice, so it has one place.                              *)
LEMMA PlaceOf ==
  ASSUME frontier \in SUBSET Node, NEW i \in 1..Cardinality(frontier)
  PROVE  /\ Place(Order(frontier)[i]) = i /\ Order(frontier)[i] \in frontier
         /\ Order(frontier)[i] \in Node
<1>1. Sorts(Order(frontier), frontier) /\ Cardinality(frontier) \in Nat
  BY OrderSorts
<1>2. ASSUME NEW j \in 1..Cardinality(frontier), Order(frontier)[j] = Order(frontier)[i]
      PROVE  j = i
  <2>1. /\ Order(frontier)[i] \in Nat /\ Order(frontier)[j] \in Nat
        /\ i < j => Order(frontier)[i] < Order(frontier)[j]
        /\ j < i => Order(frontier)[j] < Order(frontier)[i]
    BY <1>1, RuntimeAssumption DEF Sorts
  <2> QED BY <2>1, <1>1, <1>2
<1>3. Place(Order(frontier)[i]) = i
  BY <1>2 DEF Place
<1> QED BY <1>1, <1>3 DEF Sorts

--------------------------------------------------------------------------------
(* Counting the updates of a state.                                           *)

(* A batch adds as many updates as it has nodes.                              *)
LEMMA UpdatesAppend ==
  ASSUME NEW s \in Seq(Seq(Node)), NEW b \in Seq(Node), IsFiniteSet(Updates(s))
  PROVE  /\ IsFiniteSet(Updates(Append(s, b)))
         /\ Cardinality(Updates(Append(s, b))) = Cardinality(Updates(s)) + Len(b)
<1> DEFINE n == Len(s)
           t == Append(s, b)
           row == {n + 1} \X (1..Len(b))
<1>1. /\ n \in Nat /\ Len(t) = n + 1 /\ t[n + 1] = b /\ \A i \in 1..n : t[i] = s[i]
      /\ Len(b) \in Nat
  OBVIOUS
<1>2. IsFiniteSet(row) /\ Cardinality(row) = Len(b)
  <2>1. /\ IsFiniteSet({n + 1}) /\ Cardinality({n + 1}) = 1
        /\ IsFiniteSet(1..Len(b)) /\ Cardinality(1..Len(b)) = Len(b)
    <3>1. Cardinality(1..Len(b)) = IF 1 > Len(b) THEN 0 ELSE Len(b) - 1 + 1
      BY <1>1, FS_Interval, 1 \in Int, Len(b) \in Int
    <3>2. Cardinality(1..Len(b)) = Len(b)
      BY <1>1, <3>1
    <3>3. IsFiniteSet(1..Len(b))
      BY <1>1, FS_Interval
    <3>4. IsFiniteSet({n + 1}) /\ Cardinality({n + 1}) = 1
      BY FS_Singleton
    <3> QED BY <3>2, <3>3, <3>4
  <2>2. /\ IsFiniteSet({n + 1} \X (1..Len(b)))
        /\ Cardinality({n + 1} \X (1..Len(b))) = Cardinality({n + 1}) * Cardinality(1..Len(b))
    BY <2>1, FS_Product
  <2> HIDE DEF n
  <2> QED BY <2>1, <2>2, <1>1
<1>3. Updates(t) = Updates(s) \cup row
  <2> HIDE DEF n, t
  <2>1. Updates(t) \subseteq Updates(s) \cup row
    <3> SUFFICES ASSUME NEW i \in 1..Len(t), NEW x \in {i} \X (1..Len(t[i]))
                 PROVE  x \in Updates(s) \cup row
      BY DEF Updates
    <3>1. CASE i = n + 1
      BY <3>1, <1>1
    <3>2. CASE i \in 1..n
      BY <3>2, <1>1 DEF Updates, n
    <3> QED BY <3>1, <3>2, <1>1
  <2>2. Updates(s) \subseteq Updates(t)
    <3> SUFFICES ASSUME NEW i \in 1..n, NEW x \in {i} \X (1..Len(s[i]))
                 PROVE  x \in Updates(t)
      BY DEF Updates, n
    <3>1. i \in 1..Len(t) /\ t[i] = s[i]
      BY <1>1
    <3> QED BY <3>1 DEF Updates
  <2>3. row \subseteq Updates(t)
    <3> SUFFICES ASSUME NEW x \in row PROVE x \in Updates(t)
      OBVIOUS
    <3>1. n + 1 \in 1..Len(t) /\ x \in {n + 1} \X (1..Len(t[n + 1]))
      BY <1>1
    <3> HIDE DEF row
    <3> QED BY <3>1 DEF Updates
  <2> QED BY <2>1, <2>2, <2>3
<1>4. Updates(s) \cap row = {}
  <2> SUFFICES ASSUME NEW i \in 1..n, NEW x \in {i} \X (1..Len(s[i])), x \in row PROVE FALSE
    BY DEF Updates
  <2>1. x[1] = i /\ x[1] = n + 1
    OBVIOUS
  <2> QED BY <2>1, <1>1
<1>5. IsFiniteSet(Updates(s)) /\ Cardinality(Updates(s)) \in Nat
  BY FS_CardinalityType
<1>6. Cardinality(Updates(s) \cup row)
        = Cardinality(Updates(s)) + Cardinality(row) - Cardinality(Updates(s) \cap row)
  BY <1>2, <1>5, FS_Union
<1>7. Cardinality({}) = 0
  BY FS_EmptySet
<1>8. IsFiniteSet(Updates(s) \cup row)
  BY <1>2, <1>5, FS_Union
<1> HIDE DEF n, t, row
<1>9. Len(b) \in Nat
  BY <1>1
<1>10. IsFiniteSet(Updates(t)) /\ Cardinality(Updates(t)) = Cardinality(Updates(s) \cup row)
  BY <1>3, <1>8, Zenon
<1>11. Cardinality(Updates(s) \cap row) = 0
  BY <1>4, <1>7, Zenon
<1>12. Cardinality(Updates(t)) = Cardinality(Updates(s)) + Len(b)
  BY <1>2, <1>5, <1>6, <1>9, <1>10, <1>11
<1> QED BY <1>10, <1>12 DEF t

--------------------------------------------------------------------------------
(* What the sink has seen.                                                    *)

(* The sink keeps what it has seen.                                           *)
Grows ==
  /\ events' \in Seq(EventType) /\ Len(events) <= Len(events')
  /\ \A i \in 1..Len(events) : events'[i] = events[i]

(* None of the events a step emits is of these kinds.                         *)
Without(kinds) ==
  \A i \in 1..Len(events') : i > Len(events) => events'[i].kind \notin kinds

(* Emitting one event.                                                        *)
LEMMA EmitGrows ==
  ASSUME events \in Seq(EventType), NEW e \in EventType, Emit(e)
  PROVE  /\ Grows /\ Len(events') = Len(events) + 1 /\ events'[Len(events) + 1] = e
         /\ \A kinds : e.kind \notin kinds => Without(kinds)
<1>1. /\ events' \in Seq(EventType) /\ Len(events') = Len(events) + 1 /\ Len(events) \in Nat
      /\ events'[Len(events) + 1] = e
      /\ \A i \in 1..Len(events) : events'[i] = events[i]
  BY DEF Emit
<1>2. Grows
  BY <1>1 DEF Grows
<1>3. ASSUME NEW kinds, e.kind \notin kinds PROVE Without(kinds)
  <2> SUFFICES ASSUME NEW i \in 1..Len(events'), i > Len(events)
               PROVE  events'[i].kind \notin kinds
    BY DEF Without
  <2>1. i = Len(events) + 1
    BY <1>1
  <2> QED BY <2>1, <1>1, <1>3
<1> QED BY <1>1, <1>2, <1>3

(* A step that emits nothing.                                                 *)
LEMMA SilentGrows ==
  ASSUME events \in Seq(EventType), events' = events
  PROVE  Grows /\ \A kinds : Without(kinds)
<1>1. Len(events) \in Nat
  OBVIOUS
<1> QED BY <1>1 DEF Grows, Without

(* What has started is counted.                                               *)
LEMMA StartedFinite ==
  ASSUME events \in Seq(EventType), NEW i \in 0..Len(events)
  PROVE  IsFiniteSet(Started(i)) /\ Cardinality(Started(i)) \in Nat
<1>1. IsFiniteSet(1..i)
  BY FS_Interval
<1>2. Started(i) \subseteq 1..i
  BY DEF Started
<1> QED BY <1>1, <1>2, FS_Subset, FS_CardinalityType

(* What was started before a step stays so.                                   *)
LEMMA StartedKept ==
  ASSUME events \in Seq(EventType), Grows
  PROVE  /\ \A i \in 1..Len(events) : Started(i)' = Started(i)
         /\ \A k \in 1..Len(events) : Completed(k) => Completed(k)'
         /\ Len(events) \in Nat /\ Len(events') \in Nat
<1>1. Len(events) \in Nat /\ Len(events') \in Nat
  BY DEF Grows
<1>2. ASSUME NEW i \in 1..Len(events) PROVE Started(i)' = Started(i)
  <2>1. \A k \in 1..i : events'[k] = events[k]
    BY <1>1 DEF Grows
  <2> QED BY <2>1 DEF Started
<1>3. ASSUME NEW k \in 1..Len(events), Completed(k) PROVE Completed(k)'
  <2>1. PICK j \in 1..Len(events) : /\ events[j].kind = "NodeCompleted"
                                    /\ events[j].node = events[k].node
                                    /\ events[j].step = events[k].step
    BY <1>3 DEF Completed
  <2>2. /\ j \in 1..Len(events') /\ events'[j] = events[j] /\ events'[k] = events[k]
    BY <1>1 DEF Grows
  <2> QED BY <2>1, <2>2 DEF Completed
<1> QED BY <1>1, <1>2, <1>3

(* A step that starts no node leaves the numbering of the starts alone.           *)
LEMMA NoStart ==
  ASSUME events \in Seq(EventType), Grows, Without({"NodeStarted"})
  PROVE  Started(Len(events))' = Started(Len(events))
<1>1. /\ Len(events) \in Nat /\ Len(events') \in Nat /\ Len(events) <= Len(events')
      /\ \A i \in 1..Len(events) : events'[i] = events[i]
  BY DEF Grows
<1>2. ASSUME NEW k \in 1..Len(events'), events'[k].kind = "NodeStarted"
      PROVE  k \in 1..Len(events)
  BY <1>1, <1>2 DEF Without
<1>3. Started(Len(events))' = {k \in 1..Len(events') : events'[k].kind = "NodeStarted"}
  BY DEF Started
<1>4. Started(Len(events)) = {k \in 1..Len(events) : events[k].kind = "NodeStarted"}
  BY DEF Started
<1>5. \A k \in 1..Len(events) : k \in 1..Len(events')
  BY <1>1
<1> QED BY <1>1, <1>2, <1>3, <1>4, <1>5

(* It keeps what was true of the starts.                                       *)
LEMMA NoStartKeeps ==
  ASSUME events \in Seq(EventType), Grows, Without({"NodeStarted"}), config' = config,
         StepNumbersConsecutive
  PROVE  StepNumbersConsecutive' /\ Begun' = Begun
<1>1. Started(Len(events))' = Started(Len(events)) /\ FirstStep' = FirstStep
  BY NoStart DEF FirstStep
<1>2. ASSUME NEW i \in Started(Len(events))
      PROVE  events'[i].step = FirstStep' + Cardinality(Started(i)')
  <2>1. i \in 1..Len(events)
    BY DEF Started
  <2>2. Started(i)' = Started(i) /\ events'[i] = events[i]
    BY <2>1, StartedKept DEF Grows
  <2> QED BY <1>1, <2>2 DEF StepNumbersConsecutive
<1>3. Cardinality(Started(Len(events))') <= MaxSteps
  BY <1>1 DEF StepNumbersConsecutive
<1> QED BY <1>1, <1>2, <1>3 DEF StepNumbersConsecutive, Begun

(* A step that announces no update keeps AllOrNothing.                           *)
LEMMA NoUpdateKeeps ==
  ASSUME events \in Seq(EventType), Grows, Without({"StateUpdated"}), AllOrNothing
  PROVE  AllOrNothing'
<1>1. /\ Len(events) \in Nat /\ Len(events') \in Nat /\ Len(events) <= Len(events')
      /\ \A i \in 1..Len(events) : events'[i] = events[i]
      /\ DOMAIN events = 1..Len(events) /\ DOMAIN events' = 1..Len(events')
  BY DEF Grows
<1> SUFFICES ASSUME NEW i \in 1..Len(events'), events'[i].kind = "StateUpdated",
                    NEW k \in 1..Len(events'), events'[k].kind = "NodeStarted", k < i
             PROVE  \E j \in 1..(i - 1) : /\ events'[j].kind = "NodeCompleted"
                                          /\ events'[j].node = events'[k].node
                                          /\ events'[j].step = events'[k].step
  BY <1>1 DEF AllOrNothing
<1>2. i \in 1..Len(events)
  BY <1>1 DEF Without
<1>3. k \in 1..Len(events) /\ events'[k] = events[k] /\ events'[i] = events[i]
  BY <1>1, <1>2
<1>4. PICK j \in 1..(i - 1) : /\ events[j].kind = "NodeCompleted"
                              /\ events[j].node = events[k].node
                              /\ events[j].step = events[k].step
  BY <1>1, <1>2, <1>3 DEF AllOrNothing
<1>5. j \in 1..Len(events)
  BY <1>1, <1>2
<1> QED BY <1>1, <1>3, <1>4, <1>5

(* While the run goes on there is no terminal event.                            *)
LEMMA GoesOn ==
  ASSUME events \in Seq(EventType), Grows, Without(Terminal), Ending,
         pc # "done", pc' # "done", result' = result
  PROVE  Ending'
<1>1. /\ Len(events) \in Nat /\ Len(events') \in Nat
      /\ \A i \in 1..Len(events) : events'[i] = events[i]
  BY DEF Grows
<1>2. ASSUME NEW i \in 1..Len(events'), events'[i].kind \in Terminal PROVE FALSE
  <2>1. i \in 1..Len(events)
    BY <1>1, <1>2 DEF Without
  <2>2. events[i].kind \in Terminal
    BY <1>1, <1>2, <2>1
  <2> QED BY <2>1, <2>2 DEF Ending
<1>3. result' = "none"
  BY DEF Ending
<1> QED BY <1>2, <1>3 DEF Ending

(* The state and the checkpoints are what they were.                            *)
LEMMA DataKept ==
  ASSUME TypeInv, MergeIsDeterministic, CheckpointCounters,
         state' = state, durable' = durable, config' = config
  PROVE  /\ MergeIsDeterministic' /\ CheckpointCounters' /\ Applied' = Applied
         /\ FirstStep' = FirstStep /\ StepLimit' = StepLimit
         /\ \A f : SavedAs(f)' <=> SavedAs(f)
<1>1. FirstStep' = FirstStep
  BY DEF FirstStep
<1>2. MergeIsDeterministic'
  BY DEF MergeIsDeterministic
<1>3. CheckpointCounters'
  BY <1>1 DEF CheckpointCounters
<1>4. Updates(state)' = Updates(state)
  BY DEF Updates
<1> QED BY <1>1, <1>2, <1>3, <1>4 DEF Applied, StepLimit, SavedAs

--------------------------------------------------------------------------------
(* The steps.  Each lemma says that one action preserves Inv.                    *)

(* A step that neither starts a node nor announces or applies an update, and       *)
(* saves nothing.                                                             *)
LEMMA QuietStep ==
  ASSUME Inv, Grows, Without({"NodeStarted"}), Without({"StateUpdated"}),
         state' = state, durable' = durable, config' = config
  PROVE  /\ MergeIsDeterministic' /\ AllOrNothing' /\ StepNumbersConsecutive'
         /\ CheckpointCounters'
         /\ Begun' = Begun /\ Applied' = Applied /\ FirstStep' = FirstStep
         /\ StepLimit' = StepLimit
         /\ \A f : SavedAs(f)' <=> SavedAs(f)
         /\ Started(Len(events))' = Started(Len(events))
         /\ \A k \in Started(Len(events)) :
              events'[k] = events[k] /\ (Completed(k) => Completed(k)')
         /\ IsFiniteSet(Updates(state)')
<1> events \in Seq(EventType)
  BY DEF Inv, TypeInv
<1>1. /\ MergeIsDeterministic' /\ CheckpointCounters' /\ Applied' = Applied
      /\ FirstStep' = FirstStep /\ StepLimit' = StepLimit
      /\ \A f : SavedAs(f)' <=> SavedAs(f)
  BY DataKept DEF Inv
<1>2. AllOrNothing'
  BY NoUpdateKeeps DEF Inv
<1>3. StepNumbersConsecutive' /\ Begun' = Begun
  BY NoStartKeeps DEF Inv
<1>4. Started(Len(events))' = Started(Len(events))
  BY NoStart
<1>5. ASSUME NEW k \in Started(Len(events))
      PROVE  events'[k] = events[k] /\ (Completed(k) => Completed(k)')
  <2>1. k \in 1..Len(events)
    BY DEF Started
  <2> QED BY <2>1, StartedKept DEF Grows
<1>6. Updates(state)' = Updates(state)
  BY DEF Updates
<1> QED BY <1>1, <1>2, <1>3, <1>4, <1>5, <1>6 DEF Inv, TypeInv

(* A run that fails: FailAfter.                                               *)
Failures ==
  {"MaxStepsExceeded", "NodeFailed", "NodeTimedOut", "InterruptRefused",
   "StateUpdateFailed", "RouteFailed", "CheckpointSaveFailed", "Stopped"}

LEMMA FailStep ==
  ASSUME Inv, pc # "done", NEW reason \in Failures,
         NEW emitted \in Seq([kind : {"NodeInterrupted"}, node : Nat, step : Int]),
         FailAfter(emitted, reason)
  PROVE  Inv'
<1> DEFINE e == RunEvent("RunFailed")
           n == Len(events)
           m == Len(emitted)
<1>1. /\ pc' = "done" /\ result' = reason /\ running' = {}
      /\ UNCHANGED <<frontier, next, at, state, steps, superstep, asking, durable, config>>
      /\ events' = events \o emitted \o <<e>>
  BY DEF FailAfter
<1>2. events \in Seq(EventType) /\ steps \in Nat
  BY DEF Inv, TypeInv
<1>3. e \in EventType /\ e.kind = "RunFailed"
  BY <1>2 DEF RunEvent, Event, EventType, Kinds, Terminal
<1>4. \A i \in 1..m : emitted[i] \in EventType /\ emitted[i].kind = "NodeInterrupted"
  <2> DEFINE T == [kind : {"NodeInterrupted"}, node : Nat, step : Int]
  <2>1. ASSUME NEW x \in T PROVE x \in EventType /\ x.kind = "NodeInterrupted"
    <3>1. \A k \in {"NodeInterrupted"} : k \in Kinds
      BY DEF Kinds
    <3>2. x.kind \in {"NodeInterrupted"} /\ x.node \in Nat /\ x.step \in Int
          /\ x = [kind |-> x.kind, node |-> x.node, step |-> x.step]
      OBVIOUS
    <3> HIDE DEF T
    <3> QED BY <3>1, <3>2 DEF EventType
  <2>2. emitted \in Seq(T)
    OBVIOUS
  <2> HIDE DEF T
  <2>3. \A i \in 1..m : emitted[i] \in T
    BY <2>2
  <2> QED BY <2>1, <2>3
<1>5. emitted \in Seq(EventType) /\ n \in Nat /\ m \in Nat
  <2>1. ASSUME NEW S, NEW T, NEW s \in Seq(S), \A i \in 1..Len(s) : s[i] \in T
        PROVE  s \in Seq(T)
    BY <2>1
  <2>2. emitted \in Seq(EventType)
    BY <1>4, <2>1, Zenon
  <2>3. n \in Nat
    BY <1>2
  <2>4. m \in Nat
    BY <2>2
  <2> QED BY <2>2, <2>3, <2>4
<1> HIDE DEF e
<1>6. /\ events' \in Seq(EventType) /\ Len(events') = n + m + 1
      /\ events'[n + m + 1] = e
      /\ \A i \in 1..n : events'[i] = events[i]
      /\ \A i \in 1..m : events'[n + i] = emitted[i]
  BY <1>1, <1>2, <1>3, <1>5
<1>7. Grows
  BY <1>5, <1>6 DEF Grows
<1>8. ASSUME NEW i \in 1..Len(events'), i > n
      PROVE  \/ i = Len(events') /\ events'[i].kind = "RunFailed"
             \/ events'[i].kind = "NodeInterrupted"
  <2>1. CASE i = n + m + 1
    BY <2>1, <1>6, <1>3
  <2>2. CASE i # n + m + 1
    <3>1. i - n \in 1..m /\ n + (i - n) = i
      BY <1>5, <1>6, <1>8, <2>2
    <3> QED BY <3>1, <1>6, <1>4
  <2> QED BY <2>1, <2>2
<1>9. Without({"NodeStarted"}) /\ Without({"StateUpdated"})
  BY <1>8 DEF Without
<1>10. /\ MergeIsDeterministic' /\ AllOrNothing' /\ StepNumbersConsecutive'
       /\ CheckpointCounters' /\ \A f : SavedAs(f)' <=> SavedAs(f)
       /\ IsFiniteSet(Updates(state)')
  BY <1>1, <1>7, <1>9, QuietStep
<1>11. TypeInv'
  BY <1>1, <1>6, <1>10 DEF Inv, TypeInv
<1>12. Control'
  BY <1>1 DEF Inv, Control, Settled, Inside
<1>13. Counters' /\ Pending'
  BY <1>1 DEF Counters, Pending, Settled, Inside
<1>14. Ending'
  <2>1. events' # <<>> /\ events'[Len(events')].kind = "RunFailed"
    BY <1>3, <1>5, <1>6
  <2>2. Outcome' = "RunFailed"
    BY <1>1 DEF Outcome, Failures
  <2>3. ASSUME NEW i \in 1..Len(events'), events'[i].kind \in Terminal
        PROVE  i = Len(events')
    <3>1. CASE i > n
      BY <3>1, <2>3, <1>8 DEF Terminal
    <3>2. CASE i \in 1..n
      <4>1. events[i].kind \in Terminal
        BY <3>2, <2>3, <1>6
      <4> QED BY <3>2, <4>1 DEF Inv, Ending
    <3> QED BY <3>1, <3>2, <1>5, <1>6
  <2> QED BY <2>1, <2>2, <2>3, <1>1 DEF Ending
<1>15. Saved'
  BY <1>1, <1>10 DEF Saved, Failures
<1> QED BY <1>10, <1>11, <1>12, <1>13, <1>14, <1>15 DEF Inv

(* The ways to fail without an event of a node's.                              *)
LEMMA FailsWith ==
  ASSUME Inv, pc # "done", NEW reason \in Failures, Fail(reason)
  PROVE  Inv'
<1>1. <<>> \in Seq([kind : {"NodeInterrupted"}, node : Nat, step : Int])
  OBVIOUS
<1>2. FailAfter(<<>>, reason)
  BY DEF Fail
<1> QED BY <1>1, <1>2, FailStep

(* The environment changes nothing the invariant is about; nor does a stutter.     *)
LEMMA EnvironmentStep ==
  ASSUME Inv,
         UNCHANGED <<config, pc, frontier, next, at, running, returned, state, steps,
                     superstep, asking, durable, events, result>>
  PROVE  Inv'
<1>1. events \in Seq(EventType)
  BY DEF Inv, TypeInv
<1>2. Grows /\ Without({"NodeStarted"}) /\ Without({"StateUpdated"})
  BY <1>1, SilentGrows
<1>3. /\ MergeIsDeterministic' /\ AllOrNothing' /\ StepNumbersConsecutive'
      /\ CheckpointCounters'
      /\ Begun' = Begun /\ Applied' = Applied /\ StepLimit' = StepLimit
      /\ \A f : SavedAs(f)' <=> SavedAs(f)
      /\ IsFiniteSet(Updates(state)')
  BY <1>2, QuietStep
<1>4. TypeInv'
  BY <1>3 DEF Inv, TypeInv
<1>5. Control'
  BY <1>3 DEF Inv, Control
<1>6. Counters'
  BY <1>3 DEF Inv, Counters, Parallel
<1>7. Pending'
  BY DEF Inv, Pending, Settled, Started, Completed, Base, Parallel, Place
<1>8. Ending'
  BY DEF Inv, Ending, Outcome
<1>9. Saved'
  BY <1>3 DEF Inv, Saved
<1> QED BY <1>3, <1>4, <1>5, <1>6, <1>7, <1>8, <1>9 DEF Inv

(* The top of the loop: a superstep begins.                                     *)
LEMMA LoopBeginsStep ==
  ASSUME Inv, LoopBegins
  PROVE  Inv'
<1>1. /\ pc = "loop" /\ pc' = "start" /\ frontier # {} /\ at' = 1
      /\ Cardinality(frontier) <= StepLimit - steps /\ superstep' = superstep + 1
      /\ UNCHANGED <<frontier, next, running, state, steps, asking, durable, events,
                     result, config>>
  BY DEF LoopBegins
<1>2. events \in Seq(EventType) /\ superstep \in Nat /\ frontier \in SUBSET Node
  BY DEF Inv, TypeInv
<1>3. Grows /\ \A kinds : Without(kinds)
  BY <1>1, <1>2, SilentGrows
<1>4. /\ MergeIsDeterministic' /\ AllOrNothing' /\ StepNumbersConsecutive'
      /\ CheckpointCounters'
      /\ Begun' = Begun /\ Applied' = Applied /\ StepLimit' = StepLimit
      /\ \A f : SavedAs(f)' <=> SavedAs(f)
      /\ Started(Len(events))' = Started(Len(events))
      /\ \A k \in Started(Len(events)) :
           events'[k] = events[k] /\ (Completed(k) => Completed(k)')
      /\ IsFiniteSet(Updates(state)')
  BY <1>1, <1>3, QuietStep
<1>5. TypeInv'
  BY <1>1, <1>2, <1>4 DEF Inv, TypeInv
<1>6. Control'
  <2>1. Cardinality(frontier) \in Nat /\ Cardinality(frontier) > 0
    BY <1>1, <1>2, OrderSorts
  <2>2. asking = {} /\ running = {}
    BY <1>1 DEF Inv, Control
  <2> QED BY <1>1, <1>4, <2>1, <2>2 DEF Control, Settled, Inside
<1>7. Counters'
  <2>1. superstep = Len(state) /\ steps = Applied /\ Begun = steps
    BY <1>1 DEF Inv, Control, Counters, Settled
  <2>2. steps \in Nat
    BY DEF Inv, TypeInv
  <2> QED BY <1>1, <1>4, <2>1, <2>2 DEF Counters, Settled, Inside
<1>8. Pending'
  <2>1. \A k \in Started(Len(events)) : Completed(k)
    BY <1>1 DEF Inv, Pending, Control, Settled
  <2> QED BY <2>1, <1>1, <1>4 DEF Pending, Settled
<1>9. Ending'
  BY <1>1, <1>2, <1>3, GoesOn DEF Inv
<1>10. Saved'
  BY <1>1, <1>4 DEF Inv, Saved, Ending
<1> QED BY <1>4, <1>5, <1>6, <1>7, <1>8, <1>9, <1>10 DEF Inv

(* The loop ends with an empty frontier.                                        *)
LEMMA RunCompletesStep ==
  ASSUME Inv, RunCompletes
  PROVE  Inv'
<1> DEFINE e == RunEvent("RunCompleted")
<1>1. /\ pc = "loop" /\ pc' = "done" /\ frontier = {} /\ result' = "Completed"
      /\ UNCHANGED <<frontier, next, at, running, state, steps, superstep, asking,
                     durable, config>>
      /\ Emit(e)
  BY DEF RunCompletes
<1>2. events \in Seq(EventType) /\ steps \in Nat /\ Len(events) \in Nat
  BY DEF Inv, TypeInv
<1>3. e \in EventType /\ e.kind = "RunCompleted"
  BY <1>2 DEF RunEvent, Event, EventType, Kinds, Terminal
<1> HIDE DEF e
<1>4. /\ Grows /\ Len(events') = Len(events) + 1 /\ events'[Len(events) + 1] = e
      /\ \A kinds : e.kind \notin kinds => Without(kinds)
  BY <1>1, <1>2, <1>3, EmitGrows
<1>5. Without({"NodeStarted"}) /\ Without({"StateUpdated"})
  BY <1>3, <1>4
<1>6. /\ MergeIsDeterministic' /\ AllOrNothing' /\ StepNumbersConsecutive'
      /\ CheckpointCounters' /\ \A f : SavedAs(f)' <=> SavedAs(f)
      /\ IsFiniteSet(Updates(state)')
  BY <1>1, <1>4, <1>5, QuietStep
<1>7. TypeInv'
  BY <1>1, <1>4, <1>6 DEF Inv, TypeInv, Grows
<1>8. Control'
  BY <1>1 DEF Inv, Control, Settled, Inside
<1>9. Counters' /\ Pending'
  BY <1>1 DEF Counters, Pending, Settled, Inside
<1>10. Ending'
  <2>1. events' # <<>> /\ events'[Len(events')].kind = "RunCompleted"
    BY <1>2, <1>3, <1>4 DEF Grows
  <2>2. Outcome' = "RunCompleted"
    BY <1>1 DEF Outcome
  <2>3. ASSUME NEW i \in 1..Len(events'), events'[i].kind \in Terminal
        PROVE  i = Len(events')
    <3>1. CASE i \in 1..Len(events)
      <4>1. events[i].kind \in Terminal
        BY <3>1, <2>3, <1>4 DEF Grows
      <4> QED BY <3>1, <4>1, <1>1 DEF Inv, Ending
    <3> QED BY <3>1, <1>2, <1>4
  <2> QED BY <2>1, <2>2, <2>3, <1>1 DEF Ending
<1>11. Saved'
  BY <1>1, <1>6 DEF Inv, Saved
<1> QED BY <1>6, <1>7, <1>8, <1>9, <1>10, <1>11 DEF Inv

(* An interrupted run is suspended.                                            *)
LEMMA SuspendStep ==
  ASSUME Inv, Suspend
  PROVE  Inv'
<1> DEFINE e == RunEvent("RunInterrupted")
<1>1. /\ pc = "suspend" /\ pc' = "done" /\ result' = "Interrupted"
      /\ UNCHANGED <<frontier, next, at, running, state, steps, superstep, asking,
                     durable, config>>
      /\ Emit(e)
  BY DEF Suspend
<1>2. events \in Seq(EventType) /\ steps \in Nat /\ Len(events) \in Nat
  BY DEF Inv, TypeInv
<1>3. e \in EventType /\ e.kind = "RunInterrupted"
  BY <1>2 DEF RunEvent, Event, EventType, Kinds, Terminal
<1> HIDE DEF e
<1>4. /\ Grows /\ Len(events') = Len(events) + 1 /\ events'[Len(events) + 1] = e
      /\ \A kinds : e.kind \notin kinds => Without(kinds)
  BY <1>1, <1>2, <1>3, EmitGrows
<1>5. Without({"NodeStarted"}) /\ Without({"StateUpdated"})
  BY <1>3, <1>4
<1>6. /\ MergeIsDeterministic' /\ AllOrNothing' /\ StepNumbersConsecutive'
      /\ CheckpointCounters' /\ \A f : SavedAs(f)' <=> SavedAs(f)
      /\ IsFiniteSet(Updates(state)')
  BY <1>1, <1>4, <1>5, QuietStep
<1>7. TypeInv'
  BY <1>1, <1>4, <1>6 DEF Inv, TypeInv, Grows
<1>8. Control'
  BY <1>1 DEF Inv, Control, Settled, Inside
<1>9. Counters' /\ Pending'
  BY <1>1 DEF Counters, Pending, Settled, Inside
<1>10. Ending'
  <2>1. events' # <<>> /\ events'[Len(events')].kind = "RunInterrupted"
    BY <1>2, <1>3, <1>4 DEF Grows
  <2>2. Outcome' = "RunInterrupted"
    BY <1>1 DEF Outcome
  <2>3. ASSUME NEW i \in 1..Len(events'), events'[i].kind \in Terminal
        PROVE  i = Len(events')
    <3>1. CASE i \in 1..Len(events)
      <4>1. events[i].kind \in Terminal
        BY <3>1, <2>3, <1>4 DEF Grows
      <4> QED BY <3>1, <4>1, <1>1 DEF Inv, Ending
    <3> QED BY <3>1, <1>2, <1>4
  <2> QED BY <2>1, <2>2, <2>3, <1>1 DEF Ending
<1>11. Saved'
  BY <1>1 DEF Saved
<1> QED BY <1>6, <1>7, <1>8, <1>9, <1>10, <1>11 DEF Inv

(* A node starts, under the next number.                                       *)
LEMMA StartNodeStep ==
  ASSUME Inv, StartNode
  PROVE  Inv'
<1> DEFINE n == Order(frontier)[at]
           c == Cardinality(frontier)
           e == Event("NodeStarted", n, steps + at)
<1>0. PICK L \in Nat : L = Len(events)
  BY DEF Inv, TypeInv
<1>1. /\ pc = "start" /\ Emit(e) /\ at' = at + 1
      /\ pc' = IF at = c THEN "run" ELSE "start"
      /\ running' = running \cup {n}
      /\ steps' = IF at = c /\ c > 1 THEN steps + c ELSE steps
      /\ UNCHANGED <<frontier, next, state, superstep, asking, durable, result, config>>
  BY DEF StartNode, Parallel
<1>2. /\ events \in Seq(EventType) /\ steps \in Nat /\ frontier \in SUBSET Node
      /\ L \in Nat /\ L = Len(events)
      /\ at \in Nat \ {0}
  BY <1>0 DEF Inv, TypeInv
<1>3. /\ c \in Nat /\ at <= c /\ c <= StepLimit - steps /\ asking = {} /\ frontier # {}
      /\ running \subseteq {Order(frontier)[i] : i \in 1..c}
  BY <1>1, <1>2, OrderSorts DEF Inv, Control, Inside
<1>4. n \in Node /\ Place(n) = at /\ at \in 1..c
  <2>1. at \in 1..c
    BY <1>2, <1>3
  <2> QED BY <2>1, <1>2, PlaceOf
<1>5. e \in EventType /\ e.kind = "NodeStarted" /\ e.node = n /\ e.step = steps + at
  <2>1. n \in Nat /\ steps + at \in Int
    <3>1. n \in Nat
      BY <1>4, RuntimeAssumption
    <3>2. steps + at \in Int
      BY <1>2
    <3> QED BY <3>1, <3>2
  <2>2. "NodeStarted" \in Kinds
    BY DEF Kinds
  <2> HIDE DEF n
  <2> QED BY <2>1, <2>2 DEF Event, EventType
<1> HIDE DEF e
<1>6. /\ Grows /\ Len(events') = L + 1 /\ events'[L + 1] = e
      /\ \A kinds : e.kind \notin kinds => Without(kinds)
  BY <1>1, <1>2, <1>5, EmitGrows
<1>7. Without({"StateUpdated"}) /\ Without(Terminal)
  BY <1>5, <1>6 DEF Terminal
<1>8. AllOrNothing'
  BY <1>2, <1>6, <1>7, NoUpdateKeeps DEF Inv
<1>9. /\ MergeIsDeterministic' /\ CheckpointCounters' /\ Applied' = Applied
      /\ FirstStep' = FirstStep /\ StepLimit' = StepLimit
      /\ \A f : SavedAs(f)' <=> SavedAs(f)
  BY <1>1, DataKept DEF Inv
<1>10. Started(L) \subseteq 1..L /\ Started(L + 1)' = Started(L) \cup {L + 1}
  <2>1. Started(L) \subseteq 1..L
    BY DEF Started
  <2>2. ASSUME NEW k PROVE k \in Started(L + 1)' <=> k \in Started(L) \cup {L + 1}
    <3>1. CASE k = L + 1
      BY <3>1, <1>2, <1>5, <1>6 DEF Started
    <3>2. CASE k \in 1..L
      <4>1. events'[k] = events[k] /\ k \in 1..(L + 1) /\ k # L + 1
        BY <3>2, <1>2, <1>6 DEF Grows
      <4> QED BY <4>1, <3>2 DEF Started
    <3>3. CASE k \notin 1..(L + 1)
      <4>1. k \notin 1..L /\ k # L + 1
        BY <3>3, <1>2
      <4> QED BY <4>1, <3>3 DEF Started
    <3> QED BY <3>1, <3>2, <3>3, <1>2
  <2> QED BY <2>1, <2>2
<1>11. Started(Len(events))' = Started(L) \cup {L + 1}
  <2>1. Started(Len(events))' = Started(L + 1)'
    BY <1>6 DEF Started
  <2> QED BY <2>1, <1>10
<1>12. /\ IsFiniteSet(Started(L)) /\ Cardinality(Started(L)) \in Nat
       /\ Cardinality(Started(L) \cup {L + 1}) = Cardinality(Started(L)) + 1
  <2>1. IsFiniteSet(Started(L)) /\ Cardinality(Started(L)) \in Nat
    BY <1>2, StartedFinite
  <2>2. L + 1 \notin Started(L)
    BY <1>2, <1>10
  <2> QED BY <2>1, <2>2, FS_AddElement
<1>13. FirstStep \in Nat /\ Begun \in Nat /\ Begun' = Begun + 1 /\ Begun = steps + at - 1
  <2>1. FirstStep \in Nat
    BY RuntimeAssumption DEF FirstStep
  <2>2. Begun = steps + at - 1
    BY <1>1 DEF Inv, Counters
  <2> QED BY <2>1, <2>2, <1>2, <1>9, <1>11, <1>12 DEF Begun
<1>14. StepNumbersConsecutive'
  <2>1. Cardinality(Started(Len(events))') <= MaxSteps
    <3>1. FirstStep + Cardinality(Started(L)) = steps + at - 1
      BY <1>2, <1>13 DEF Begun
    <3>2. c <= FirstStep + MaxSteps - steps /\ MaxSteps \in Nat
      BY <1>2, <1>3, <1>13, RuntimeAssumption DEF StepLimit
    <3>3. Cardinality(Started(Len(events))') = Cardinality(Started(L)) + 1
      BY <1>11, <1>12
    <3>4. /\ steps \in Nat /\ at \in Nat /\ c \in Nat /\ at <= c /\ FirstStep \in Nat
          /\ Cardinality(Started(L)) \in Nat
      BY <1>2, <1>3, <1>12, <1>13
    <3> HIDE DEF c, n
    <3>5. Cardinality(Started(L)) + 1 <= MaxSteps
      BY <3>1, <3>2, <3>4
    <3> QED BY <3>3, <3>5
  <2>2. ASSUME NEW i \in Started(L) \cup {L + 1}
        PROVE  events'[i].step = FirstStep' + Cardinality(Started(i)')
    <3>1. CASE i = L + 1
      <4>1. Started(i)' = Started(L) \cup {L + 1}
        BY <3>1, <1>10
      <4>2. events'[i].step = steps + at
        BY <3>1, <1>5, <1>6
      <4>3. FirstStep + Cardinality(Started(L)) = steps + at - 1
        BY <1>2, <1>13 DEF Begun
      <4> QED BY <4>1, <4>2, <4>3, <1>2, <1>9, <1>12, <1>13
    <3>2. CASE i \in Started(L)
      <4>1. i \in 1..L
        BY <3>2, <1>10
      <4>2. Started(i)' = Started(i) /\ events'[i] = events[i]
        BY <4>1, <1>2, <1>6, StartedKept DEF Grows
      <4>3. events[i].step = FirstStep + Cardinality(Started(i))
        BY <1>2, <3>2 DEF Inv, StepNumbersConsecutive
      <4> QED BY <4>2, <4>3, <1>9
    <3> QED BY <3>1, <3>2
  <2> QED BY <2>1, <2>2, <1>11 DEF StepNumbersConsecutive
<1>15. TypeInv'
  <2>1. Updates(state)' = Updates(state)
    BY <1>1 DEF Updates
  <2>2. running' \subseteq Node /\ steps' \in Nat /\ at' \in Nat \ {0}
    BY <1>1, <1>2, <1>3, <1>4 DEF Inv, TypeInv
  <2>3. events' \in Seq(EventType)
    BY <1>6 DEF Grows
  <2> QED BY <2>1, <2>2, <2>3, <1>1 DEF Inv, TypeInv
<1>16. Control'
  <2>1. pc' = "start" => at' <= c /\ steps' = steps
    BY <1>1, <1>2, <1>3
  <2>2. running' \subseteq {Order(frontier)[i] : i \in 1..c}
    BY <1>1, <1>3, <1>4
  <2>3. pc' \in {"start", "run"}
    BY <1>1
  <2> QED BY <2>1, <2>2, <2>3, <1>1, <1>3, <1>9 DEF Control, Settled, Inside
<1>17. Counters'
  <2>1. superstep = Len(state) + 1 /\ steps = Applied
    BY <1>1 DEF Inv, Counters, Inside
  <2>2. CASE at = c
    <3>1. pc' = "run" /\ (Parallel' <=> c > 1) /\ c \in Nat /\ c >= 1
      BY <1>1, <1>2, <1>3, <2>2 DEF Parallel
    <3>2. c > 1 => steps' = Applied + c /\ Begun' = steps'
      BY <1>1, <1>2, <1>3, <1>13, <2>1, <2>2
    <3>3. ~ (c > 1) => steps' = Applied /\ Begun' = steps' + 1
      BY <1>1, <1>2, <1>3, <1>13, <2>1, <2>2, <3>1
    <3> QED BY <1>1, <1>9, <2>1, <3>1, <3>2, <3>3 DEF Counters, Settled, Inside
  <2>3. CASE at # c
    <3>1. pc' = "start" /\ steps' = steps /\ Begun' = steps' + at' - 1
      BY <1>1, <1>2, <1>13, <2>3
    <3> QED BY <1>1, <1>9, <2>1, <3>1 DEF Counters, Settled, Inside
  <2> QED BY <2>2, <2>3
<1>18. Pending'
  <2>1. /\ pc' \in {"start", "run"}
        /\ (IF pc' = "start" THEN steps' ELSE Base') = steps
        /\ \A x : Place(x)' = Place(x)
    <3>1. \A x : Place(x)' = Place(x)
      BY <1>1 DEF Place
    <3>2. CASE at = c
      <4>1. pc' = "run" /\ (Parallel' <=> c > 1) /\ Cardinality(frontier') = c
        BY <1>1, <3>2 DEF Parallel
      <4>2. Base' = steps
        BY <1>1, <1>2, <1>3, <3>2, <4>1 DEF Base
      <4> QED BY <3>1, <4>1, <4>2
    <3>3. CASE at # c
      BY <1>1, <3>1, <3>3
    <3> QED BY <3>2, <3>3
  <2>2. ASSUME NEW k \in Started(L) \cup {L + 1}
        PROVE  \/ Completed(k)'
               \/ events'[k].node \in running' /\ events'[k].step = steps + Place(events'[k].node)
    <3>1. CASE k = L + 1
      BY <3>1, <1>1, <1>4, <1>5, <1>6
    <3>2. CASE k \in Started(L)
      <4>1. k \in 1..L
        BY <3>2, <1>10
      <4>2. events'[k] = events[k] /\ (Completed(k) => Completed(k)')
        BY <4>1, <1>2, <1>6, StartedKept DEF Grows
      <4>3. \/ Completed(k)
            \/ events[k].node \in running /\ events[k].step = steps + Place(events[k].node)
        BY <1>2, <3>2, <1>1 DEF Inv, Pending
      <4> QED BY <4>2, <4>3, <1>1
    <3> QED BY <3>1, <3>2
  <2> QED BY <2>1, <2>2, <1>11 DEF Pending, Settled
<1>19. Ending'
  <2>1. pc' # "done"
    BY <1>1
  <2> QED BY <2>1, <1>1, <1>2, <1>6, <1>7, GoesOn DEF Inv
<1>20. Saved'
  <2>1. pc' \in {"start", "run"} /\ result' = "none"
    BY <1>1 DEF Inv, Ending
  <2> QED BY <2>1, <1>1, <1>9 DEF Inv, Saved
<1> QED BY <1>8, <1>9, <1>14, <1>15, <1>16, <1>17, <1>18, <1>19, <1>20 DEF Inv

(* The number a node completes or is interrupted under.                        *)
LEMMA NumberOf ==
  ASSUME Inv, pc = "run", NEW n \in running
  PROVE  /\ n \in Node /\ n \in Nat /\ StepOf(n) = Base + Place(n) /\ StepOf(n) \in Int
<1>1. /\ frontier \in SUBSET Node /\ steps \in Nat /\ Cardinality(frontier) \in Nat
      /\ running \subseteq {Order(frontier)[i] : i \in 1..Cardinality(frontier)}
  BY OrderSorts DEF Inv, TypeInv, Control
<1>2. PICK i \in 1..Cardinality(frontier) : n = Order(frontier)[i]
  BY <1>1
<1>3. Place(n) = i /\ n \in Node
  BY <1>1, <1>2, PlaceOf
<1>4. StepOf(n) = Base + Place(n)
  BY DEF StepOf, Place
<1>5. Base \in Int
  BY <1>1 DEF Base
<1> QED BY <1>3, <1>4, <1>5, RuntimeAssumption

(* A node returns an update: its start is matched by a completion under the same     *)
(* number.                                                                    *)
LEMMA NodeUpdatesStep ==
  ASSUME Inv, NEW n \in Node, NodeUpdates(n)
  PROVE  Inv'
<1> DEFINE e == Event("NodeCompleted", n, StepOf(n))
           L == Len(events)
<1>1. /\ pc = "run" /\ n \in running /\ Emit(e) /\ running' = running \ {n}
      /\ pc' = IF running' = {} THEN "apply" ELSE "run"
      /\ UNCHANGED <<frontier, next, at, state, steps, superstep, asking, durable, result,
                     config>>
  BY DEF NodeUpdates, MayReturn
<1>2. events \in Seq(EventType) /\ L \in Nat
  BY DEF Inv, TypeInv
<1>3. n \in Nat /\ StepOf(n) = Base + Place(n) /\ StepOf(n) \in Int
  BY <1>1, NumberOf
<1>4. /\ e \in EventType /\ e.kind = "NodeCompleted" /\ e.node = n
      /\ e.step = Base + Place(n)
  BY <1>3 DEF Event, EventType, Kinds
<1> HIDE DEF e
<1>5. /\ Grows /\ Len(events') = L + 1 /\ events'[L + 1] = e
      /\ \A kinds : e.kind \notin kinds => Without(kinds)
  BY <1>1, <1>2, <1>4, EmitGrows
<1>6. Without({"StateUpdated"}) /\ Without(Terminal) /\ Without({"NodeStarted"})
  BY <1>4, <1>5 DEF Terminal
<1>7. /\ MergeIsDeterministic' /\ AllOrNothing' /\ StepNumbersConsecutive'
      /\ CheckpointCounters'
      /\ Begun' = Begun /\ Applied' = Applied /\ StepLimit' = StepLimit
      /\ \A f : SavedAs(f)' <=> SavedAs(f)
      /\ Started(Len(events))' = Started(Len(events))
      /\ \A k \in Started(Len(events)) :
           events'[k] = events[k] /\ (Completed(k) => Completed(k)')
      /\ IsFiniteSet(Updates(state)')
  BY <1>1, <1>5, <1>6, QuietStep
<1>8. TypeInv'
  BY <1>1, <1>5, <1>7 DEF Inv, TypeInv, Grows
<1>9. Control'
  <2>1. pc' \in {"run", "apply"} /\ asking = {} /\ frontier # {}
    BY <1>1 DEF Inv, Control, Inside
  <2>2. pc' = "run" => running' \subseteq {Order(frontier)[i] : i \in 1..Cardinality(frontier)}
    BY <1>1 DEF Inv, Control
  <2> QED BY <2>1, <2>2, <1>1, <1>7 DEF Control, Settled, Inside
<1>10. Counters'
  <2>1. pc' \in {"run", "apply"} /\ (Parallel' <=> Parallel)
    BY <1>1 DEF Parallel
  <2> QED BY <2>1, <1>1, <1>7 DEF Inv, Counters, Settled, Inside
<1>11. Pending'
  <2>1. \A x : Place(x)' = Place(x) /\ Base' = Base
    BY <1>1 DEF Place, Base, Parallel
  <2>2. ASSUME NEW k \in Started(L)
        PROVE  \/ Completed(k)'
               \/ events'[k].node \in running' /\ events'[k].step = Base + Place(events'[k].node)
    <3>1. \/ Completed(k)
          \/ events[k].node \in running /\ events[k].step = Base + Place(events[k].node)
      BY <1>1 DEF Inv, Pending
    <3>2. CASE events[k].node = n /\ events[k].step = Base + Place(n)
      <4>1. L + 1 \in 1..Len(events') /\ events'[k] = events[k]
        BY <1>2, <1>5, <1>7
      <4>2. Completed(k)'
        BY <3>2, <4>1, <1>4, <1>5 DEF Completed
      <4> QED BY <4>2
    <3> QED BY <3>1, <3>2, <1>1, <1>7
  <2> QED BY <2>1, <2>2, <1>1, <1>7 DEF Pending, Settled
<1>12. Ending'
  <2>1. pc' # "done" /\ pc # "done"
    BY <1>1
  <2> QED BY <2>1, <1>1, <1>2, <1>5, <1>6, GoesOn DEF Inv
<1>13. Saved'
  <2>1. pc' \in {"run", "apply"} /\ result' = "none"
    BY <1>1 DEF Inv, Ending
  <2> QED BY <2>1, <1>1, <1>7 DEF Inv, Saved
<1> QED BY <1>7, <1>8, <1>9, <1>10, <1>11, <1>12, <1>13 DEF Inv

(* A node interrupts: refused, or the superstep it began is taken back.             *)
LEMMA NodeInterruptsStep ==
  ASSUME Inv, NEW n \in Node, NodeInterrupts(n)
  PROVE  Inv'
<1> DEFINE e == Event("NodeInterrupted", n, StepOf(n))
<1>1. pc = "run" /\ n \in running
  BY DEF NodeInterrupts, MayReturn
<1>2. /\ events \in Seq(EventType) /\ Len(events) \in Nat /\ superstep \in Nat
      /\ state \in Seq(Seq(Node))
  BY DEF Inv, TypeInv
<1>3. n \in Nat /\ StepOf(n) \in Int
  BY <1>1, NumberOf
<1>4. /\ e \in [kind : {"NodeInterrupted"}, node : Nat, step : Int]
      /\ e \in EventType /\ e.kind = "NodeInterrupted"
  BY <1>3 DEF Event, EventType, Kinds
<1>5. CASE InterruptRefused
  <2>1. FailAfter(<<e>>, "InterruptRefused")
    BY <1>5 DEF NodeInterrupts
  <2> HIDE DEF e
  <2>2. <<e>> \in Seq([kind : {"NodeInterrupted"}, node : Nat, step : Int])
    BY <1>4
  <2>3. "InterruptRefused" \in Failures
    BY DEF Failures
  <2>4. pc # "done"
    BY <1>1
  <2> QED BY <2>1, <2>2, <2>3, <2>4, FailStep
<1>6. CASE ~ InterruptRefused
  <2>1. /\ asking' = {n} /\ next' = {n} /\ running' = {} /\ pc' = "save"
        /\ superstep' = superstep - 1 /\ Emit(e)
        /\ UNCHANGED <<frontier, at, state, steps, durable, result, config>>
        /\ ~ Parallel
    BY <1>6 DEF NodeInterrupts, CommittedSuperstep, InterruptRefused
  <2> HIDE DEF e
  <2>2. /\ Grows /\ \A kinds : e.kind \notin kinds => Without(kinds)
    BY <1>2, <1>4, <2>1, EmitGrows
  <2>3. Without({"StateUpdated"}) /\ Without(Terminal) /\ Without({"NodeStarted"})
    BY <1>4, <2>2 DEF Terminal
  <2>4. /\ MergeIsDeterministic' /\ AllOrNothing' /\ StepNumbersConsecutive'
        /\ CheckpointCounters' /\ Applied' = Applied
        /\ IsFiniteSet(Updates(state)')
    BY <2>1, <2>2, <2>3, QuietStep
  <2>5. superstep = Len(state) + 1 /\ steps = Applied /\ Len(state) \in Nat
    BY <1>1, <1>2, <2>1 DEF Inv, Counters, Inside
  <2>6. superstep' = Len(state) /\ superstep' \in Nat
    BY <2>1, <2>5
  <2>7. TypeInv'
    BY <2>1, <2>2, <2>4, <2>6 DEF Inv, TypeInv, Grows
  <2>8. Control'
    BY <2>1 DEF Control, Settled, Inside
  <2>9. Counters' /\ Pending'
    BY <2>1, <2>4, <2>5, <2>6 DEF Counters, Pending, Settled, Inside
  <2>10. Ending'
    BY <1>1, <1>2, <2>1, <2>2, <2>3, GoesOn DEF Inv
  <2>11. Saved'
    <3>1. result' = "none"
      BY <1>1, <2>1 DEF Inv, Ending
    <3> QED BY <3>1, <2>1 DEF Saved
  <2> QED BY <2>4, <2>7, <2>8, <2>9, <2>10, <2>11 DEF Inv
<1> QED BY <1>5, <1>6

(* The barrier: the batch is applied, in compiled order.                          *)
LEMMA ApplyStep ==
  ASSUME Inv, Apply
  PROVE  Inv'
<1> DEFINE b == Order(frontier)
           c == Cardinality(frontier)
<1>1. /\ pc = "apply" /\ pc' = "announce" /\ at' = 1 /\ state' = Append(state, b)
      /\ steps' = IF c > 1 THEN steps ELSE steps + 1
      /\ UNCHANGED <<frontier, next, running, superstep, asking, durable, events, result,
                     config>>
  BY DEF Apply, Batch, Parallel
<1>2. /\ events \in Seq(EventType) /\ Len(events) \in Nat /\ superstep \in Nat
      /\ state \in Seq(Seq(Node)) /\ frontier \in SUBSET Node /\ steps \in Nat
      /\ IsFiniteSet(Updates(state))
  BY DEF Inv, TypeInv
<1>3. frontier # {} /\ asking = {} /\ running = {}
  BY <1>1 DEF Inv, Control, Inside
<1>4. c \in Nat /\ c > 0 /\ Sorts(b, frontier) /\ b \in Seq(Node) /\ Len(b) = c
  BY <1>2, <1>3, OrderSorts
<1> HIDE DEF b
<1>5. /\ IsFiniteSet(Updates(state)') /\ state' \in Seq(Seq(Node))
      /\ Cardinality(Updates(state)') = Cardinality(Updates(state)) + c
      /\ Len(state') = Len(state) + 1 /\ Len(state) \in Nat
  <2>1. Updates(state)' = Updates(Append(state, b))
    BY <1>1 DEF Updates
  <2>2. /\ IsFiniteSet(Updates(Append(state, b)))
        /\ Cardinality(Updates(Append(state, b))) = Cardinality(Updates(state)) + Len(b)
    BY <1>2, <1>4, UpdatesAppend
  <2>3. state' \in Seq(Seq(Node)) /\ Len(state') = Len(state) + 1 /\ Len(state) \in Nat
    BY <1>1, <1>2, <1>4
  <2> QED BY <2>1, <2>2, <2>3, <1>4
<1>6. /\ FirstStep' = FirstStep /\ FirstStep \in Nat /\ Applied \in Nat
      /\ Applied' = Applied + c
  <2>1. FirstStep' = FirstStep /\ FirstStep \in Nat
    BY <1>1, RuntimeAssumption DEF FirstStep
  <2>2. Cardinality(Updates(state)) \in Nat
    BY <1>2, FS_CardinalityType
  <2> QED BY <2>1, <2>2, <1>4, <1>5 DEF Applied
<1>7. Grows /\ \A kinds : Without(kinds)
  BY <1>1, <1>2, SilentGrows
<1>8. AllOrNothing' /\ StepNumbersConsecutive' /\ Begun' = Begun
  BY <1>1, <1>2, <1>7, NoUpdateKeeps, NoStartKeeps DEF Inv
<1>9. CheckpointCounters'
  BY <1>1, <1>6 DEF Inv, CheckpointCounters
<1>10. MergeIsDeterministic'
  <2> SUFFICES ASSUME NEW i \in 1..Len(state'), NEW j \in DOMAIN state'[i],
                      NEW k \in DOMAIN state'[i], j < k
               PROVE  state'[i][j] < state'[i][k]
    BY <1>5 DEF MergeIsDeterministic
  <2>1. CASE i = Len(state) + 1
    <3>1. state'[i] = b /\ DOMAIN b = 1..c
      BY <1>1, <1>2, <1>4, <2>1
    <3> QED BY <3>1, <1>4 DEF Sorts
  <2>2. CASE i \in 1..Len(state)
    <3>1. state'[i] = state[i] /\ i \in DOMAIN state
      BY <1>1, <1>2, <1>4, <2>2
    <3> QED BY <3>1 DEF Inv, MergeIsDeterministic
  <2> QED BY <2>1, <2>2, <1>5
<1>11. TypeInv'
  <2>1. steps' \in Nat /\ at' \in Nat \ {0}
    BY <1>1, <1>2
  <2> QED BY <2>1, <1>1, <1>5 DEF Inv, TypeInv
<1>12. Control'
  BY <1>1, <1>3, <1>4 DEF Control, Settled, Inside
<1>13. Counters'
  <2>1. /\ superstep = Len(state) + 1
        /\ IF c > 1 THEN steps = Applied + c /\ Begun = steps
           ELSE steps = Applied /\ Begun = steps + 1
    BY <1>1 DEF Inv, Counters, Inside, Parallel
  <2>2. steps' = Applied' /\ Begun' = steps'
    BY <2>1, <1>1, <1>2, <1>4, <1>6, <1>8
  <2> QED BY <2>1, <2>2, <1>1, <1>5 DEF Counters, Settled, Inside
<1>14. Pending'
  <2>1. \A k \in Started(Len(events)) : Completed(k)
    BY <1>1, <1>3 DEF Inv, Pending
  <2> QED BY <2>1, <1>1 DEF Pending, Started, Completed
<1>15. Ending'
  BY <1>1, <1>2, <1>7, GoesOn DEF Inv
<1>16. Saved'
  <2>1. result' = "none"
    BY <1>1 DEF Inv, Ending
  <2> QED BY <2>1, <1>1 DEF Saved
<1> QED BY <1>8, <1>9, <1>10, <1>11, <1>12, <1>13, <1>14, <1>15, <1>16 DEF Inv

(* StateUpdated: by now every start has its completion.                           *)
LEMMA AnnounceStep ==
  ASSUME Inv, Announce
  PROVE  Inv'
<1> DEFINE n == Order(frontier)[at]
           c == Cardinality(frontier)
           e == Event("StateUpdated", n, steps - c + at)
           L == Len(events)
<1>1. /\ pc = "announce" /\ Emit(e) /\ at' = at + 1 /\ next' = {}
      /\ pc' = IF at = c THEN "route" ELSE "announce"
      /\ UNCHANGED <<frontier, running, state, steps, superstep, asking, durable, result,
                     config>>
  BY DEF Announce
<1>2. /\ events \in Seq(EventType) /\ steps \in Nat /\ frontier \in SUBSET Node /\ L \in Nat
      /\ at \in Nat \ {0}
  BY DEF Inv, TypeInv
<1>3. c \in Nat /\ at <= c /\ asking = {} /\ running = {} /\ frontier # {}
  BY <1>1, <1>2, OrderSorts DEF Inv, Control
<1>4. n \in Nat
  <2>1. at \in 1..c
    BY <1>2, <1>3
  <2>2. n \in Node
    BY <2>1, <1>2, PlaceOf
  <2> QED BY <2>2, RuntimeAssumption
<1>5. e \in EventType /\ e.kind = "StateUpdated"
  <2>1. steps - c + at \in Int
    BY <1>2, <1>3
  <2>2. "StateUpdated" \in Kinds
    BY DEF Kinds
  <2> HIDE DEF n, c
  <2> QED BY <2>1, <2>2, <1>4 DEF Event, EventType
<1> HIDE DEF e, n
<1>6. /\ Grows /\ Len(events') = L + 1 /\ events'[L + 1] = e
      /\ \A kinds : e.kind \notin kinds => Without(kinds)
  BY <1>1, <1>2, <1>5, EmitGrows
<1>7. Without({"NodeStarted"}) /\ Without(Terminal)
  BY <1>5, <1>6 DEF Terminal
<1>8. StepNumbersConsecutive' /\ Begun' = Begun /\ Started(Len(events))' = Started(L)
  BY <1>1, <1>2, <1>6, <1>7, NoStartKeeps, NoStart DEF Inv
<1>9. /\ MergeIsDeterministic' /\ CheckpointCounters' /\ Applied' = Applied
      /\ \A f : SavedAs(f)' <=> SavedAs(f)
  BY <1>1, DataKept DEF Inv
<1>10. \A k \in Started(L) : Completed(k)
  BY <1>1, <1>3 DEF Inv, Pending, Settled
<1>11. AllOrNothing'
  <2>1. /\ \A i \in 1..L : events'[i] = events[i]
        /\ DOMAIN events = 1..L /\ DOMAIN events' = 1..(L + 1)
    BY <1>2, <1>6 DEF Grows
  <2> SUFFICES ASSUME NEW i \in 1..(L + 1), events'[i].kind = "StateUpdated",
                      NEW k \in 1..(L + 1), events'[k].kind = "NodeStarted", k < i
               PROVE  \E j \in 1..(i - 1) : /\ events'[j].kind = "NodeCompleted"
                                            /\ events'[j].node = events'[k].node
                                            /\ events'[j].step = events'[k].step
    BY <2>1 DEF AllOrNothing
  <2>2. k \in 1..L /\ events'[k] = events[k]
    BY <2>1, <1>2
  <2>3. PICK j \in 1..L : /\ j <= i - 1
                          /\ events[j].kind = "NodeCompleted"
                          /\ events[j].node = events[k].node
                          /\ events[j].step = events[k].step
    <3>1. CASE i = L + 1
      <4>1. Completed(k)
        BY <1>10, <2>2 DEF Started
      <4>2. PICK j \in 1..L : /\ events[j].kind = "NodeCompleted"
                              /\ events[j].node = events[k].node
                              /\ events[j].step = events[k].step
        BY <4>1 DEF Completed
      <4>3. j <= i - 1
        BY <3>1, <1>2
      <4> QED BY <4>2, <4>3
    <3>2. CASE i \in 1..L
      <4>1. events[i].kind = "StateUpdated" /\ events[k].kind = "NodeStarted"
        BY <3>2, <2>1, <2>2
      <4>2. PICK j \in 1..(i - 1) : /\ events[j].kind = "NodeCompleted"
                                    /\ events[j].node = events[k].node
                                    /\ events[j].step = events[k].step
        BY <3>2, <4>1, <2>1, <2>2 DEF Inv, AllOrNothing
      <4>3. j \in 1..L /\ j <= i - 1
        BY <3>2, <1>2
      <4> QED BY <4>2, <4>3
    <3> QED BY <3>1, <3>2, <1>2
  <2>4. j \in 1..(i - 1) /\ events'[j] = events[j]
    BY <2>1, <2>3, <1>2
  <2> QED BY <2>2, <2>3, <2>4
<1>12. TypeInv'
  <2>1. Updates(state)' = Updates(state)
    BY <1>1 DEF Updates
  <2>2. at' \in Nat \ {0} /\ events' \in Seq(EventType) /\ next' \subseteq Node
    BY <1>1, <1>2, <1>6 DEF Grows
  <2> QED BY <2>1, <2>2, <1>1 DEF Inv, TypeInv
<1>13. Control'
  <2>1. pc' \in {"announce", "route"} /\ (pc' = "announce" => at' <= c)
    BY <1>1, <1>2, <1>3
  <2> QED BY <2>1, <1>1, <1>3 DEF Control, Settled, Inside
<1>14. Counters'
  <2>1. pc' \in {"announce", "route"}
    BY <1>1
  <2> QED BY <2>1, <1>1, <1>3, <1>8, <1>9 DEF Inv, Counters, Settled, Inside
<1>15. Pending'
  <2>1. ASSUME NEW k \in Started(L) PROVE Completed(k)'
    <3>1. k \in 1..L
      BY DEF Started
    <3> QED BY <3>1, <1>2, <1>6, <1>10, StartedKept
  <2>2. pc' \in {"announce", "route"}
    BY <1>1
  <2> QED BY <2>1, <2>2, <1>8 DEF Pending
<1>16. Ending'
  <2>1. pc' # "done" /\ pc # "done"
    BY <1>1
  <2> QED BY <2>1, <1>1, <1>2, <1>6, <1>7, GoesOn DEF Inv
<1>17. Saved'
  <2>1. pc' \in {"announce", "route"} /\ result' = "none"
    BY <1>1 DEF Inv, Ending
  <2> QED BY <2>1 DEF Saved
<1> QED BY <1>8, <1>9, <1>11, <1>12, <1>13, <1>14, <1>15, <1>16, <1>17 DEF Inv

(* The routers select the next frontier.                                         *)
LEMMA RoutedStep ==
  ASSUME Inv, NEW targets \in SUBSET Node, Routed(targets)
  PROVE  Inv'
<1>1. /\ pc = "route" /\ next' = targets
      /\ pc' = IF ShouldSave(targets = {}) THEN "save" ELSE "boundary"
      /\ UNCHANGED <<frontier, at, running, state, steps, superstep, asking, durable,
                     events, result, config>>
  BY DEF Routed
<1>2. events \in Seq(EventType) /\ pc' \in {"save", "boundary"}
  BY <1>1 DEF Inv, TypeInv
<1>3. asking = {} /\ running = {}
  BY <1>1 DEF Inv, Control
<1>4. Grows /\ \A kinds : Without(kinds)
  BY <1>1, <1>2, SilentGrows
<1>5. /\ MergeIsDeterministic' /\ AllOrNothing' /\ StepNumbersConsecutive'
      /\ CheckpointCounters'
      /\ Begun' = Begun /\ Applied' = Applied
      /\ Started(Len(events))' = Started(Len(events))
      /\ \A k \in Started(Len(events)) :
           events'[k] = events[k] /\ (Completed(k) => Completed(k)')
      /\ IsFiniteSet(Updates(state)')
  BY <1>1, <1>4, QuietStep
<1>6. TypeInv'
  BY <1>1, <1>5 DEF Inv, TypeInv
<1>7. Control'
  BY <1>1, <1>2, <1>3 DEF Control, Settled, Inside
<1>8. Counters'
  BY <1>1, <1>2, <1>3, <1>5 DEF Inv, Counters, Settled, Inside
<1>9. Pending'
  BY <1>1, <1>2, <1>3, <1>5 DEF Inv, Pending, Settled
<1>10. Ending'
  <2>1. pc' # "done" /\ pc # "done"
    BY <1>1, <1>2
  <2> QED BY <2>1, <1>1, <1>2, <1>4, GoesOn DEF Inv
<1>11. Saved'
  <2>1. result' = "none"
    BY <1>1 DEF Inv, Ending
  <2>2. config.mode = "enabled" /\ pc' = "boundary"
          => config.policy # "EverySuperstep" /\ targets # {}
    BY <1>1 DEF ShouldSave
  <2> QED BY <2>1, <2>2, <1>1, <1>2 DEF Saved
<1> QED BY <1>5, <1>6, <1>7, <1>8, <1>9, <1>10, <1>11 DEF Inv

(* The store performs the save: the counters describe the state saved.               *)
LEMMA StoreCommitsStep ==
  ASSUME Inv, StoreCommits
  PROVE  Inv'
<1> DEFINE c == [state |-> state, frontier |-> next, step |-> steps,
                 superstep |-> superstep, asking |-> asking]
<1>1. /\ pc = "save" /\ pc' = "stored" /\ durable' = Append(durable, c)
      /\ UNCHANGED <<frontier, next, at, running, state, steps, superstep, asking, events,
                     result, config>>
  BY DEF StoreCommits
<1>2. /\ events \in Seq(EventType) /\ durable \in Seq(CheckpointType)
      /\ state \in Seq(Seq(Node)) /\ next \subseteq Node /\ asking \subseteq Node
      /\ steps \in Nat /\ superstep \in Nat
  BY DEF Inv, TypeInv
<1>3. c \in CheckpointType /\ c.state = state /\ c.frontier = next
  BY <1>2 DEF CheckpointType
<1>4. /\ superstep = Len(state) /\ steps = Applied /\ (asking # {} => next = asking)
      /\ running = {}
  BY <1>1 DEF Inv, Control, Counters, Settled
<1>5. /\ c.superstep = Len(c.state)
      /\ c.step = FirstStep + Cardinality(Updates(c.state))
      /\ c.asking # {} => c.frontier = c.asking
  BY <1>4 DEF Applied
<1> HIDE DEF c
<1>6. /\ durable' \in Seq(CheckpointType) /\ Len(durable') = Len(durable) + 1
      /\ Len(durable) \in Nat /\ durable'[Len(durable) + 1] = c
      /\ \A i \in 1..Len(durable) : durable'[i] = durable[i]
  BY <1>1, <1>2, <1>3
<1>7. Grows /\ \A kinds : Without(kinds)
  BY <1>1, <1>2, SilentGrows
<1>8. AllOrNothing' /\ StepNumbersConsecutive' /\ Begun' = Begun
  BY <1>1, <1>2, <1>7, NoUpdateKeeps, NoStartKeeps DEF Inv
<1>9. FirstStep' = FirstStep /\ Updates(state)' = Updates(state) /\ Applied' = Applied
  BY <1>1 DEF FirstStep, Updates, Applied
<1>10. MergeIsDeterministic'
  BY <1>1 DEF Inv, MergeIsDeterministic
<1>11. CheckpointCounters'
  <2> SUFFICES ASSUME NEW i \in 1..Len(durable')
               PROVE  /\ durable'[i].superstep = Len(durable'[i].state)
                      /\ durable'[i].step = FirstStep + Cardinality(Updates(durable'[i].state))
                      /\ durable'[i].asking # {} => durable'[i].frontier = durable'[i].asking
    BY <1>6, <1>9 DEF CheckpointCounters
  <2>1. CASE i = Len(durable) + 1
    BY <2>1, <1>5, <1>6
  <2>2. CASE i \in 1..Len(durable)
    <3>1. durable'[i] = durable[i] /\ i \in DOMAIN durable
      BY <2>2, <1>2, <1>6
    <3> QED BY <3>1 DEF Inv, CheckpointCounters
  <2> QED BY <2>1, <2>2, <1>6
<1>12. TypeInv'
  BY <1>1, <1>6, <1>9 DEF Inv, TypeInv
<1>13. Control'
  BY <1>1, <1>4 DEF Control, Settled, Inside
<1>14. Counters'
  BY <1>1, <1>8, <1>9 DEF Inv, Counters, Settled, Inside
<1>15. Pending'
  BY <1>1 DEF Inv, Pending, Settled, Started, Completed
<1>16. Ending'
  BY <1>1, <1>2, <1>7, GoesOn DEF Inv
<1>17. Saved'
  <2>1. result' = "none"
    BY <1>1 DEF Inv, Ending
  <2>2. durable' # <<>> /\ Last(durable') = c
    BY <1>6 DEF Last
  <2>3. SavedAs(next)'
    BY <2>2, <1>1, <1>3 DEF SavedAs
  <2> QED BY <2>1, <2>3, <1>1 DEF Saved
<1> QED BY <1>8, <1>10, <1>11, <1>12, <1>13, <1>14, <1>15, <1>16, <1>17 DEF Inv

(* The save returns.                                                             *)
LEMMA SaveReturnsStep ==
  ASSUME Inv, SaveReturns
  PROVE  Inv'
<1> DEFINE e == RunEvent("CheckpointSaved")
<1>1. /\ pc = "stored" /\ pc' = IF asking = {} THEN "boundary" ELSE "suspend"
      /\ UNCHANGED <<frontier, next, at, running, state, steps, superstep, asking,
                     durable, result, config>>
      /\ Emit(e)
  BY DEF SaveReturns
<1>2. /\ events \in Seq(EventType) /\ steps \in Nat /\ pc' \in {"boundary", "suspend"}
  BY <1>1 DEF Inv, TypeInv
<1>3. e \in EventType /\ e.kind = "CheckpointSaved"
  BY <1>2 DEF RunEvent, Event, EventType, Kinds
<1> HIDE DEF e
<1>4. Grows /\ \A kinds : e.kind \notin kinds => Without(kinds)
  BY <1>1, <1>2, <1>3, EmitGrows
<1>5. Without({"StateUpdated"}) /\ Without(Terminal) /\ Without({"NodeStarted"})
  BY <1>3, <1>4 DEF Terminal
<1>6. /\ MergeIsDeterministic' /\ AllOrNothing' /\ StepNumbersConsecutive'
      /\ CheckpointCounters'
      /\ Begun' = Begun /\ Applied' = Applied
      /\ \A f : SavedAs(f)' <=> SavedAs(f)
      /\ Started(Len(events))' = Started(Len(events))
      /\ \A k \in Started(Len(events)) :
           events'[k] = events[k] /\ (Completed(k) => Completed(k)')
      /\ IsFiniteSet(Updates(state)')
  BY <1>1, <1>4, <1>5, QuietStep
<1>7. TypeInv'
  BY <1>1, <1>4, <1>6 DEF Inv, TypeInv, Grows
<1>8. Control'
  BY <1>1, <1>2 DEF Inv, Control, Settled, Inside
<1>9. Counters'
  BY <1>1, <1>2, <1>6 DEF Inv, Counters, Settled, Inside
<1>10. Pending'
  BY <1>1, <1>2, <1>6 DEF Inv, Pending, Settled
<1>11. Ending'
  <2>1. pc' # "done" /\ pc # "done"
    BY <1>1, <1>2
  <2> QED BY <2>1, <1>1, <1>2, <1>4, <1>5, GoesOn DEF Inv
<1>12. Saved'
  <2>1. result' = "none"
    BY <1>1 DEF Inv, Ending
  <2> QED BY <2>1, <1>1, <1>2, <1>6 DEF Inv, Saved
<1> QED BY <1>6, <1>7, <1>8, <1>9, <1>10, <1>11, <1>12 DEF Inv

(* The next superstep's frontier becomes the frontier.                              *)
LEMMA NextSuperstepStep ==
  ASSUME Inv, NextSuperstep
  PROVE  Inv'
<1>1. /\ pc = "boundary" /\ pc' = "loop" /\ frontier' = next /\ next' = {}
      /\ UNCHANGED <<at, running, state, steps, superstep, asking, durable, events,
                     result, config>>
  BY DEF NextSuperstep
<1>2. events \in Seq(EventType) /\ next \subseteq Node
  BY DEF Inv, TypeInv
<1>3. asking = {} /\ running = {}
  BY <1>1 DEF Inv, Control
<1>4. Grows /\ \A kinds : Without(kinds)
  BY <1>1, <1>2, SilentGrows
<1>5. /\ MergeIsDeterministic' /\ AllOrNothing' /\ StepNumbersConsecutive'
      /\ CheckpointCounters'
      /\ Begun' = Begun /\ Applied' = Applied
      /\ \A f : SavedAs(f)' <=> SavedAs(f)
      /\ Started(Len(events))' = Started(Len(events))
      /\ \A k \in Started(Len(events)) :
           events'[k] = events[k] /\ (Completed(k) => Completed(k)')
      /\ IsFiniteSet(Updates(state)')
  BY <1>1, <1>4, QuietStep
<1>6. TypeInv'
  BY <1>1, <1>2, <1>5 DEF Inv, TypeInv
<1>7. Control'
  BY <1>1, <1>3 DEF Control, Settled, Inside
<1>8. Counters'
  BY <1>1, <1>3, <1>5 DEF Inv, Counters, Settled, Inside
<1>9. Pending'
  BY <1>1, <1>3, <1>5 DEF Inv, Pending, Settled
<1>10. Ending'
  BY <1>1, <1>2, <1>4, GoesOn DEF Inv
<1>11. Saved'
  <2>1. result' = "none"
    BY <1>1 DEF Inv, Ending
  <2>2. config.mode = "enabled" /\ (config.policy = "EverySuperstep" \/ next = {})
          => SavedAs(next)
    BY <1>1 DEF Inv, Saved
  <2>3. config.mode = "enabled" /\ (config.policy = "EverySuperstep" \/ next = {})
          => \A f : f = next => SavedAs(f)'
    BY <2>2, <1>5
  <2>4. \A f : f = frontier' => (SavedAs(f)' => SavedAs(frontier)')
    BY DEF SavedAs
  <2>5. config.mode = "enabled" /\ (config.policy = "EverySuperstep" \/ next = {})
          => SavedAs(frontier)'
    BY <2>3, <2>4, <1>1
  <2> QED BY <2>1, <2>3, <2>5, <1>1 DEF Saved
<1> QED BY <1>5, <1>6, <1>7, <1>8, <1>9, <1>10, <1>11 DEF Inv

--------------------------------------------------------------------------------
(* The invariant, and what follows from it.                                      *)

(* Every run starts with Inv: nothing has started, nothing is saved, and a fresh     *)
(* run with nothing to do is about to save.                                       *)
LEMMA InitInv ==
  ASSUME Init
  PROVE  Inv
<1>1. /\ config \in Configs /\ frontier \subseteq Node
      /\ pc = IF config.fresh /\ frontier = {} /\ ShouldSave(TRUE) THEN "save" ELSE "loop"
      /\ next = {} /\ at = 1 /\ running = {} /\ state = <<>> /\ steps = FirstStep
      /\ superstep = 0 /\ asking = {} /\ durable = <<>> /\ events = <<>> /\ result = "none"
  BY DEF Init
<1>2. /\ Len(events) = 0 /\ Len(state) = 0 /\ Len(durable) = 0
      /\ ~ \E i \in 1..0 : TRUE
  BY <1>1
<1>3. Started(Len(events)) = {} /\ Updates(state) = {}
  <2>1. Started(0) = {}
    BY <1>2 DEF Started
  <2>2. Updates(state) = UNION {{i} \X (1..Len(state[i])) : i \in 1..0}
    BY <1>2 DEF Updates
  <2> QED BY <2>1, <2>2, <1>2
<1>4. /\ Cardinality({}) = 0 /\ IsFiniteSet({}) /\ FirstStep \in Nat
  BY FS_EmptySet, RuntimeAssumption DEF FirstStep
<1>5. Cardinality(Started(Len(events))) = 0 /\ Cardinality(Updates(state)) = 0
  BY <1>3, <1>4
<1>6. Begun = steps /\ Applied = steps
  BY <1>1, <1>4, <1>5 DEF Begun, Applied
<1>7. pc \in {"save", "loop"}
  BY <1>1
<1>8. TypeInv
  <2>1. state \in Seq(Seq(Node)) /\ durable \in Seq(CheckpointType) /\ events \in Seq(EventType)
    BY <1>1
  <2>2. IsFiniteSet(Updates(state))
    BY <1>3, <1>4, Zenon
  <2>3. steps \in Nat /\ superstep \in Nat /\ at \in Nat \ {0}
    BY <1>1, <1>4
  <2>4. next \subseteq Node /\ running \subseteq Node /\ asking \subseteq Node
    BY <1>1
  <2> QED BY <2>1, <2>2, <2>3, <2>4, <1>1 DEF TypeInv
<1>9. Control
  BY <1>1, <1>7 DEF Control, Settled, Inside
<1>10. Counters
  BY <1>1, <1>2, <1>6, <1>7 DEF Counters, Settled, Inside
<1>11. Pending
  BY <1>3, <1>7 DEF Pending
<1>12. Ending
  BY <1>1, <1>2, <1>7 DEF Ending
<1>13. Saved
  <2>1. config.mode = "enabled" /\ pc = "loop" /\ frontier = {} => ~ config.fresh
    BY <1>1 DEF ShouldSave
  <2> QED BY <2>1, <1>1, <1>7 DEF Saved
<1>14. MergeIsDeterministic /\ AllOrNothing /\ CheckpointCounters
  <2>1. DOMAIN state = {} /\ DOMAIN events = {} /\ DOMAIN durable = {}
    BY <1>1
  <2> QED BY <2>1 DEF MergeIsDeterministic, AllOrNothing, CheckpointCounters
<1>15. StepNumbersConsecutive
  BY <1>3, <1>5, RuntimeAssumption DEF StepNumbersConsecutive
<1> QED BY <1>8, <1>9, <1>10, <1>11, <1>12, <1>13, <1>14, <1>15 DEF Inv

(* Every step preserves it.                                                       *)
LEMMA NextInv ==
  ASSUME Inv, [Next]_vars
  PROVE  Inv'
<1> USE DEF Failures
<1>1. CASE LoopBegins
  BY <1>1, LoopBeginsStep
<1>2. CASE BudgetExceeded
  BY <1>2, FailsWith DEF BudgetExceeded
<1>3. CASE RunCompletes
  BY <1>3, RunCompletesStep
<1>4. CASE StartNode
  BY <1>4, StartNodeStep
<1>5. ASSUME NEW n \in Node, NodeTimesOut(n) PROVE Inv'
  <2>1. pc # "done" /\ Fail("NodeTimedOut")
    BY <1>5 DEF NodeTimesOut
  <2> QED BY <2>1, FailsWith
<1>6. CASE Apply
  BY <1>6, ApplyStep
<1>7. CASE ApplyFails
  BY <1>7, FailsWith DEF ApplyFails
<1>8. CASE Announce
  BY <1>8, AnnounceStep
<1>9. ASSUME NEW targets \in SUBSET Node, Routed(targets) PROVE Inv'
  BY <1>9, RoutedStep
<1>10. CASE RouteFails
  BY <1>10, FailsWith DEF RouteFails
<1>11. CASE SaveReturns
  BY <1>11, SaveReturnsStep
<1>12. CASE Suspend
  BY <1>12, SuspendStep
<1>13. CASE NextSuperstep
  BY <1>13, NextSuperstepStep
<1>14. CASE Stop
  BY <1>14, FailsWith DEF Stop
<1>15. ASSUME NEW n \in Node, NodeReturns(n) PROVE Inv'
  <2>1. CASE NodeUpdates(n)
    BY <2>1, NodeUpdatesStep
  <2>2. CASE NodeFails(n)
    <3>1. pc # "done" /\ Fail("NodeFailed")
      BY <2>2 DEF NodeFails, MayReturn
    <3> QED BY <3>1, FailsWith
  <2>3. CASE NodeInterrupts(n)
    BY <2>3, NodeInterruptsStep
  <2> QED BY <1>15, <2>1, <2>2, <2>3 DEF NodeReturns
<1>16. ASSUME NEW n \in Node, NodeDeadline(n) PROVE Inv'
  BY <1>16, EnvironmentStep DEF NodeDeadline
<1>17. CASE StoreCommits
  BY <1>17, StoreCommitsStep
<1>18. CASE SaveFails
  BY <1>18, FailsWith DEF SaveFails
<1>19. CASE Cancel
  BY <1>19, EnvironmentStep DEF Cancel
<1>20. CASE RunDeadline
  BY <1>20, EnvironmentStep DEF RunDeadline
<1>21. CASE UNCHANGED vars
  BY <1>21, EnvironmentStep DEF vars
<1>22. CASE Done
  BY <1>22, <1>21 DEF Done
<1> HIDE DEF Failures
<1>23. CASE RuntimeStep
  BY <1>23, <1>1, <1>2, <1>3, <1>4, <1>5, <1>6, <1>7, <1>8, <1>9, <1>10, <1>11, <1>12,
     <1>13, <1>14, Zenon DEF RuntimeStep
<1> QED BY <1>15, <1>16, <1>17, <1>18, <1>19, <1>20, <1>21, <1>22, <1>23, Zenon DEF Next

(* Inv is an invariant of every run of the graph runtime, whatever its nodes, its      *)
(* routers, its store and its callers do.                                          *)
THEOREM Invariance == Spec => []Inv
<1>1. Init => Inv
  BY InitInv
<1>2. Inv /\ [Next]_vars => Inv'
  BY NextInv
<1> QED BY <1>1, <1>2, PTL DEF Spec

(* A superstep commits all its updates or none, in compiled order: no order in which    *)
(* the nodes return, and no failure, cancellation or deadline in between, shows.       *)
THEOREM DeterministicCommitHolds == Spec => []DeterministicCommit
<1>1. Inv => DeterministicCommit
  BY DEF Inv, DeterministicCommit
<1> QED BY <1>1, Invariance, PTL

(* The terminal event is the last one and tells the outcome.                         *)
LEMMA EndingTold ==
  ASSUME Inv
  PROVE  OneTerminalEvent
<1>1. events \in Seq(EventType) /\ Len(events) \in Nat /\ DOMAIN events = 1..Len(events)
  BY DEF Inv, TypeInv
<1>2. events # <<>> => Len(events) \in 1..Len(events)
  BY <1>1
<1>3. \A i \in 1..Len(events) : events[i].kind \in Terminal => i = Len(events) /\ pc = "done"
  BY DEF Inv, Ending
<1>4. pc = "done" => events # <<>> /\ Last(events).kind = Outcome
  BY DEF Inv, Ending, Last
<1>5. events # <<>> /\ Last(events).kind \in Terminal => pc = "done"
  BY <1>2, <1>3 DEF Last
<1>6. pc # "done" => result = "none"
  BY DEF Inv, Ending
<1>7. /\ Outcome \in Terminal
      /\ (Outcome = "RunCompleted" <=> result = "Completed")
      /\ (Outcome = "RunInterrupted" <=> result = "Interrupted")
  BY DEF Outcome, Terminal
<1>8. "RunCompleted" \in Terminal /\ "RunInterrupted" \in Terminal
  BY DEF Terminal
<1>9. pc = "done" <=> (events # <<>> /\ Last(events).kind \in Terminal)
  BY <1>4, <1>5, <1>7
<1>10. result = "Completed" <=> (events # <<>> /\ Last(events).kind = "RunCompleted")
  BY <1>4, <1>6, <1>7, <1>8, <1>9
<1>11. result = "Interrupted" <=> (events # <<>> /\ Last(events).kind = "RunInterrupted")
  BY <1>4, <1>6, <1>7, <1>8, <1>9
<1> QED BY <1>1, <1>3, <1>9, <1>10, <1>11 DEF OneTerminalEvent

(* Every execution is numbered once and within the budget, every checkpoint's counters    *)
(* describe its state, interrupts included, and the one terminal event is the outcome.    *)
THEOREM RunIsAccountedHolds == Spec => []RunIsAccounted
<1>1. Inv => RunIsAccounted
  BY EndingTold DEF Inv, RunIsAccounted
<1> QED BY <1>1, Invariance, PTL

(* Under EverySuperstep no node starts on work that is not durable, and a completed run   *)
(* has a durable completed checkpoint.                                             *)
THEOREM DurableBeforeProgressHolds == Spec => []DurableBeforeProgress
<1>1. Inv => DurableBeforeProgress
  BY DEF Inv, Saved, SavedAs, DurableBeforeProgress
<1> QED BY <1>1, Invariance, PTL

(* After the token is cancelled or the deadline has passed no node starts, nothing is     *)
(* applied and no success is reported: the only steps left end the run, or finish what     *)
(* the last check allowed (a pending save, the rest of the StateUpdated events).        *)
THEOREM HaltTakesEffectHolds == Spec => HaltTakesEffect
<1>1. ASSUME Inv, [Next]_vars PROVE [HaltedStep]_vars
  <2> SUFFICES ASSUME Next, Halted PROVE HaltedStep
    BY <1>1 DEF HaltedStep, Halted
  <2>1. events \in Seq(EventType) /\ Len(events) \in Nat /\ steps \in Nat
        /\ DOMAIN events = 1..Len(events)
    BY <1>1 DEF Inv, TypeInv
  <2>2. ASSUME state' = state, Grows, Without({"NodeStarted"}),
               result' \in {result, "Stopped", "NodeTimedOut"}
        PROVE  HaltedStep
    <3>1. DOMAIN events' = 1..Len(events') /\ Len(events') \in Nat
      BY <2>2 DEF Grows
    <3>2. ASSUME NEW i \in DOMAIN events' \ DOMAIN events PROVE events'[i].kind # "NodeStarted"
      <4>1. i \in 1..Len(events') /\ i > Len(events)
        BY <2>1, <3>1
      <4> QED BY <4>1, <2>2 DEF Without
    <3> QED BY <2>2, <3>2 DEF HaltedStep
  <2>3. ASSUME events' = events, state' = state, result' = result PROVE HaltedStep
    BY <2>1, <2>2, <2>3, SilentGrows
  <2>4. ASSUME NEW e \in EventType, Emit(e), e.kind # "NodeStarted", state' = state,
               result' \in {result, "Stopped", "NodeTimedOut"}
        PROVE  HaltedStep
    <3>1. Grows /\ Without({"NodeStarted"})
      BY <2>1, <2>4, EmitGrows
    <3> QED BY <2>2, <2>4, <3>1
  <2>5. ASSUME NEW reason \in {"Stopped", "NodeTimedOut"}, Fail(reason) PROVE HaltedStep
    <3> DEFINE e == RunEvent("RunFailed")
    <3>1. e \in EventType /\ e.kind = "RunFailed"
      BY <2>1 DEF RunEvent, Event, EventType, Kinds, Terminal
    <3>2. events' = events \o <<>> \o <<e>> /\ state' = state /\ result' = reason
      BY <2>5 DEF Fail, FailAfter
    <3> HIDE DEF e
    <3>3. events' = Append(events, e)
      BY <2>1, <3>1, <3>2
    <3> QED BY <2>4, <2>5, <3>1, <3>2, <3>3 DEF Emit
  <2>6. CASE Announce
    <3> DEFINE n == Order(frontier)[at]
               s == steps - Cardinality(frontier) + at
               e == Event("StateUpdated", n, s)
    <3>1. pc = "announce" /\ Emit(e) /\ state' = state /\ result' = result
      BY <2>6 DEF Announce
    <3>2. /\ frontier \in SUBSET Node /\ Cardinality(frontier) \in Nat /\ at \in Nat \ {0}
          /\ at <= Cardinality(frontier)
      BY <1>1, <3>1, OrderSorts DEF Inv, TypeInv, Control
    <3>3. n \in Nat
      <4>1. at \in 1..Cardinality(frontier)
        BY <3>2
      <4>2. n \in Node
        BY <4>1, <3>2, PlaceOf
      <4> QED BY <4>2, RuntimeAssumption
    <3>4. s \in Int /\ "StateUpdated" \in Kinds
      BY <2>1, <3>2 DEF Kinds
    <3> HIDE DEF n, s
    <3>5. e \in EventType /\ e.kind = "StateUpdated"
      BY <3>3, <3>4 DEF Event, EventType
    <3> HIDE DEF e
    <3> QED BY <2>4, <3>1, <3>5
  <2>7. CASE RuntimeStep
    <3>1. CASE Announce
      BY <2>6, <3>1
    <3>2. CASE Stop
      BY <2>5, <3>2 DEF Stop
    <3>3. ASSUME NEW n \in Node, NodeTimesOut(n) PROVE HaltedStep
      BY <2>5, <3>3 DEF NodeTimesOut
    <3> QED BY <2>7, <3>1, <3>2, <3>3
            DEF RuntimeStep, LoopBegins, BudgetExceeded, RunCompletes, StartNode, Apply,
                ApplyFails, Routed, RouteFails, SaveReturns, Suspend, NextSuperstep
  <2>8. ASSUME NEW n \in Node, NodeReturns(n) \/ NodeDeadline(n) PROVE HaltedStep
    <3>1. ~ NodeReturns(n)
      BY DEF NodeReturns, NodeUpdates, NodeFails, NodeInterrupts, MayReturn
    <3>2. events' = events /\ state' = state /\ result' = result
      BY <3>1, <2>8 DEF NodeDeadline
    <3> QED BY <2>3, <3>2
  <2>9. CASE StoreCommits \/ SaveFails \/ Cancel \/ RunDeadline \/ Done
    <3>1. events' = events /\ state' = state /\ result' = result
      BY <2>9 DEF StoreCommits, SaveFails, Cancel, RunDeadline, Done, vars
    <3> QED BY <2>3, <3>1
  <2> QED BY <2>7, <2>8, <2>9 DEF Next
<1> QED BY <1>1, Invariance, PTL DEF Spec, HaltTakesEffect
================================================================================
