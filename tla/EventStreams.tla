---------------------------- MODULE EventStreams ----------------------------
(***************************************************************************)
(* How the events of one agent invocation reach those who watch it. The    *)
(* caller pulls AgentEventStream, which owns the invocation: the future    *)
(* only runs inside poll_next, its events go through an unbounded channel, *)
(* and dropping the stream drops it. Observers subscribe to EventBroadcast *)
(* (crates/group-agent-observability-tokio), a bounded ring that           *)
(* overwrites what a slow subscriber has not read.                         *)
(*                                                                         *)
(* External: tokio's broadcast ring and unbounded channel.                 *)
(***************************************************************************)
EXTENDS Naturals, Sequences

CONSTANTS Subscribers,  \* tasks that may subscribe
          Requested,    \* capacity asked of EventBroadcast::new
          MaxRing,      \* usize::MAX >> 1
          Absent

ASSUME StreamsAssumption ==
    /\ Requested \in Nat /\ MaxRing \in Nat

VARIABLES invocation,     \* "running", "ok", "failed", "dropped"
          emitted,        \* agent events sent to the channel so far
          queue,          \* agent events in the channel
          items,          \* what poll_next has returned
          pending_error,  \* the invocation's error, not yet returned
          is_terminal,    \* the stream is fused
          polling,        \* poll_next is inside the invocation's poll
          senders,        \* who can still send graph events
          sent,           \* graph events sent: the tail of the ring
          first,          \* tail when the subscriber subscribed, or Absent
          cursor,         \* next position the subscriber reads
          heard           \* what the subscriber has been given

pull == <<invocation, emitted, queue, items, pending_error, is_terminal, polling>>
ring == <<senders, sent>>
subscription == <<first, cursor, heard>>
watching == <<pull, ring, subscription>>

WatchInit ==
    /\ invocation = "running" /\ emitted = <<>> /\ queue = <<>> /\ items = <<>>
    /\ pending_error = FALSE /\ is_terminal = FALSE /\ polling = FALSE
    /\ senders = {"factory", "run"} /\ sent = 0
    /\ first = [s \in Subscribers |-> Absent] /\ cursor = [s \in Subscribers |-> 0]
    /\ heard = [s \in Subscribers |-> <<>>]

-----------------------------------------------------------------------------
(* EventBroadcast.                                                         *)

\* checked_next_power_of_two, by its definition.
PowersOfTwo == {2^k : k \in 0..Requested}
NextPowerOfTwo(n) == CHOOSE p \in PowersOfTwo : p >= n /\ \A q \in PowersOfTwo : q >= n => p <= q

\* EventBroadcast::new refuses no slot and more slots than tokio supports.
Accepted == Requested > 0 /\ NextPowerOfTwo(Requested) <= MaxRing
Capacity == NextPowerOfTwo(Requested)

\* A power of two is a natural number, and 2^n is not below n.
ASSUME CapacityAssumption == Accepted => Capacity \in Nat

Subscribe(s) ==
    /\ Accepted /\ first[s] = Absent /\ "factory" \in senders
    /\ first' = [first EXCEPT ![s] = sent]
    /\ cursor' = [cursor EXCEPT ![s] = sent]
    /\ UNCHANGED <<pull, ring, heard>>

Hear(s, item) == heard' = [heard EXCEPT ![s] = Append(@, item)]

Ended(s) == heard[s] # <<>> /\ heard[s][Len(heard[s])].kind = "end"

\* The oldest position the ring still holds.
Oldest == IF sent > Capacity THEN sent - Capacity ELSE 0

\* Mutant: the count reported is the size of the ring.
SkippedRing(s) == Capacity

\* Lagged { skipped }.
Skipped(s) == Oldest - cursor[s]

\* EventStream::poll_next on the ring: the subscriber is told how far it has
\* fallen behind, is given the next event, or learns that no sender is left.
PollSubscriber(s) ==
    /\ first[s] # Absent /\ ~Ended(s)
    /\ \/ /\ cursor[s] < Oldest
          /\ Hear(s, [kind |-> "lagged", n |-> Skipped(s)])
          /\ cursor' = [cursor EXCEPT ![s] = Oldest]
       \/ /\ cursor[s] >= Oldest /\ cursor[s] < sent
          /\ Hear(s, [kind |-> "event", n |-> cursor[s]])
          /\ cursor' = [cursor EXCEPT ![s] = @ + 1]
       \/ /\ cursor[s] = sent /\ senders = {}
          /\ Hear(s, [kind |-> "end", n |-> 0])
          /\ UNCHANGED cursor
    /\ UNCHANGED <<pull, ring, first>>

\* Mutant: what the invocation holds is not released when it is over.
SendersLeaked(result) == senders

\* The invocation's sinks go with its future.
SendersAfter(result) == IF result = "running" THEN senders ELSE senders \ {"run"}

\* The application drops its EventBroadcast.
DropFactory ==
    /\ "factory" \in senders
    /\ senders' = senders \ {"factory"}
    /\ UNCHANGED <<pull, sent, subscription>>

-----------------------------------------------------------------------------
(* The invocation, polled by the stream.                                   *)

\* The item that ends the stream of an invocation that failed.
Error == [kind |-> "error"]

Deliver(item) == items' = Append(items, item)

Receive(q) == queue' = Tail(q) /\ Deliver(Head(q)) /\ UNCHANGED is_terminal

\* Mutant: a failure is returned as soon as it is known, and fuses the stream.
AfterInvocationErrorFirst(q, error) ==
    IF error
    THEN queue' = q /\ Deliver(Error) /\ pending_error' = FALSE /\ is_terminal' = TRUE
    ELSE IF q # <<>> THEN Receive(q) /\ pending_error' = error
    ELSE UNCHANGED <<items, pending_error>> /\ queue' = q /\ is_terminal' = TRUE

\* poll_next, steps 3 to 5: what is left in the channel goes first, then the
\* error, then nothing. (Ready(Absent) adds no item.)
AfterInvocation(q, error) ==
    IF q # <<>> THEN Receive(q) /\ pending_error' = error
    ELSE IF error
    THEN queue' = q /\ Deliver(Error) /\ pending_error' = FALSE /\ is_terminal' = TRUE
    ELSE UNCHANGED <<items, pending_error>> /\ queue' = q /\ is_terminal' = TRUE

\* poll_next, step 1: an event is waiting.
PollBuffered ==
    /\ ~is_terminal /\ queue # <<>> /\ ~polling
    /\ Receive(queue)
    /\ UNCHANGED <<invocation, emitted, pending_error, polling, ring, subscription>>

\* poll_next, step 2: the invocation is driven, once nothing is waiting.
Driven == ~is_terminal /\ invocation = "running" /\ (polling \/ queue = <<>>)

\* The invocation is pending: an event it has just emitted is returned.
Pending(q) ==
    /\ polling' = FALSE /\ UNCHANGED pending_error
    /\ IF q # <<>> THEN Receive(q) ELSE queue' = q /\ UNCHANGED <<items, is_terminal>>

\* The poll goes on.
Continues(q) == polling' = TRUE /\ queue' = q /\ UNCHANGED <<items, pending_error, is_terminal>>

\* A step of the invocation inside its poll: it emits some events of each
\* sort and goes on, waits, yields, returns after the outcome event, or fails.
PollDrives(batch, graph, result, yields) ==
    LET q == queue \o batch
    IN  /\ invocation' = result
        /\ emitted' = emitted \o batch
        /\ sent' = sent + graph
        /\ senders' = SendersAfter(result)
        /\ IF result # "running" THEN AfterInvocation(q, result = "failed") /\ polling' = FALSE
           ELSE Pending(q) \/ (~yields /\ Continues(q))
        /\ UNCHANGED subscription

\* poll_next, steps 3 to 5, with the invocation gone.
PollDrained ==
    /\ ~is_terminal /\ queue = <<>> /\ invocation \in {"ok", "failed"}
    /\ AfterInvocation(queue, pending_error)
    /\ UNCHANGED <<invocation, emitted, polling, ring, subscription>>

\* The caller drops the stream, and with it the invocation.
DropStream ==
    /\ ~is_terminal /\ ~polling
    /\ invocation' = "dropped" /\ queue' = <<>> /\ is_terminal' = TRUE
    /\ senders' = SendersAfter("dropped")
    /\ UNCHANGED <<emitted, items, pending_error, polling, sent, subscription>>

\* What happens besides the polls that drive the invocation.
Watch ==
    \/ PollBuffered \/ PollDrained \/ DropStream \/ DropFactory
    \/ \E s \in Subscribers : Subscribe(s) \/ PollSubscriber(s)

\* Callers poll, and applications drop what they have made.
WatchFairly ==
    /\ WF_watching(PollBuffered) /\ WF_watching(PollDrained) /\ WF_watching(DropFactory)
    /\ \A s \in Subscribers : WF_watching(PollSubscriber(s))

-----------------------------------------------------------------------------
(* The caller sees the whole invocation: the stream returns every event in *)
(* the order of emission, then, once it has drained them, the error if the *)
(* invocation failed, and it ends only then; an outcome is never followed  *)
(* by an error, nor an error by an event (AgentEventStream::poll_next).    *)
StreamIsFaithful ==
    invocation # "dropped" =>
        LET tail == IF is_terminal /\ invocation = "failed" THEN <<Error>> ELSE <<>>
        IN  /\ items \o queue = emitted \o tail
            /\ is_terminal => queue = <<>> /\ invocation # "running"
            /\ pending_error <=> (invocation = "failed" /\ ~is_terminal)

\* How far an item moves the one who is given it.
Advance(item) == CASE item.kind = "event" -> 1 [] item.kind = "lagged" -> item.n [] OTHER -> 0

\* The position after the first k items of what was told, from where it started.
Position(start, told, k) ==
    LET position[i \in 0..k] == IF i = 0 THEN start ELSE position[i - 1] + Advance(told[i])
    IN  position[k]

\* The position a subscriber has reached, told from what it was given.
Reached(s, k) == Position(first[s], heard[s], k)

(* A slow subscriber knows exactly what it missed: counting the events it  *)
(* was given and the numbers it was told were skipped, each event it is    *)
(* given is the next one, none is lost uncounted or given twice, and the   *)
(* stream ends at the last event sent (the doc of EventBroadcast).         *)
LossIsExact ==
    \A s \in Subscribers : first[s] # Absent =>
        /\ \A k \in DOMAIN heard[s] :
             heard[s][k].kind = "event" => heard[s][k].n = Reached(s, k - 1)
        /\ Reached(s, Len(heard[s])) = cursor[s]
        /\ Ended(s) => cursor[s] = sent

(* Watching ends: the stream of a finished or dropped invocation ends, and *)
(* a subscriber learns that no more events will come, once the application *)
(* has dropped its broadcast.                                              *)
WatchingEnds ==
    /\ <>is_terminal
    /\ \A s \in Subscribers : first[s] # Absent ~> Ended(s)
=============================================================================
