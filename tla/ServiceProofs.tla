---------------------------- MODULE ServiceProofs ----------------------------
(***************************************************************************)
(* Proofs about the two components that follow a service outside of the    *)
(* program: McpSession, the client of an MCP server, and StreamedTurn, an  *)
(* agent's streamed turn over a model provider.                            *)
(*                                                                         *)
(* McpSession, for any number of callers and discoverers, any server and   *)
(* any limits of a discovery.  A shutdown result is true because of who    *)
(* owns the child: its guard passes from connect to the lifecycle to the   *)
(* cleanup and is given up nowhere else, so a cleanup that found no guard  *)
(* found no child, and one that gave its guard up successfully has reaped  *)
(* the child.  A tool set is complete because a traversal is mapped only   *)
(* if its names are distinct, and combined only with a set that shares     *)
(* none.                                                                   *)
(*                                                                         *)
(* StreamedTurn, for every script of a provider, every way the network     *)
(* cuts it, and any number of subscribers of a ring of any size: the       *)
(* caller of the agent's stream sees the whole invocation, and a slow      *)
(* subscriber knows exactly what it missed.  Whatever the model node makes *)
(* of the provider's answer reaches the watchers by one step, PollDrives   *)
(* (DriveIsPoll), so both properties are about the channel and the ring    *)
(* alone.  An event is in the channel or was returned, in order            *)
(* (Faithful).  A subscriber's cursor is where counting leads (Exact), and *)
(* who has heard the end has outlived every sender (Closed).               *)
(*                                                                         *)
(* The deltas shown add up to what is collected (DeltasAddUp).  That the   *)
(* pieces can be put together at all is followed from the bytes of the     *)
(* wire through framer, decoder and queue to the node (Source).  The node  *)
(* shows what it collects in the same step (NodeInv).  The wrapper has     *)
(* collected what the node has and at most the end more, so that what it   *)
(* validates is what the node makes its response of (Synced).              *)
(***************************************************************************)
EXTENDS McpSession, StreamedTurn, SequenceTheorems, WellFoundedInduction, TLAPS

--------------------------------------------------------------------------------
(* The session of an MCP client.                                             *)

(* The absent value is none of the phases and outcomes.                      *)
LEMMA NilIsNoName ==
  /\ Nil # "alive" /\ Nil # "killed" /\ Nil # "exited" /\ Nil # "reaped"
  /\ Nil # "connect" /\ Nil # "lifecycle" /\ Nil # "cleanup"
  /\ Nil # "closing" /\ Nil # "grace" /\ Nil # "kill" /\ Nil # "wait"
  /\ Nil # "ok" /\ Nil # "failed" /\ Nil # "service_failed" /\ Nil # "child_failed"
BY NilAssumption DEF Tags

--------------------------------------------------------------------------------
(* The shutdown.                                                             *)

(* A session that is not connected yet has nothing to shut down.             *)
Unconnected ==
  session \in {"none", "connecting"} => handles = {} /\ closing = Nil

(* Nothing of a session exists before it is connected.                       *)
Untouched == session = "none" => service = "none" /\ guard = Nil /\ proc = Nil

(* Who holds the guard, and when.                                           *)
Ownership ==
  /\ guard \in {Nil, "connect", "lifecycle", "cleanup"}
  /\ guard = "connect" => session = "connecting"
  /\ guard = "lifecycle" => session = "open" /\ closing = Nil
  /\ guard = "cleanup" <=> reaping \in {"grace", "kill", "wait"}
  /\ session \in {"connecting", "open"} /\ closing = Nil /\ guard = Nil => proc = Nil
  /\ handles # {} => session = "open"

(* What each half of the cleanup has achieved.                               *)
Halves ==
  /\ closing \in {Nil, "closing", "ok", "failed"}
  /\ reaping \in {Nil, "grace", "kill", "wait", "ok", "failed"}
  /\ closing = Nil <=> reaping = Nil
  /\ closing \in {"ok", "failed"} => service = "ended"
  /\ reaping = "ok" => proc \in {Nil, "reaped"}

(* What has been published, and returned.                                    *)
Completion ==
  /\ slot.published => CleanupJoined /\ slot.result = CombinedResult
  /\ returned # {} => slot.published /\ returned = {slot.result}
  /\ slot.result = Nil <=> ~ slot.published

ShutdownInv == Unconnected /\ Untouched /\ Ownership /\ Halves /\ Completion

(* The step changes nothing of the shutdown.                                 *)
Aside == UNCHANGED <<session, state, guard, service, process, cleanup, handles, returned>>

(* Such a step leaves the invariant alone.                                  *)
LEMMA AsideSound == ShutdownInv /\ Aside => ShutdownInv'
BY DEF Aside, ShutdownInv, Unconnected, Untouched, Ownership, Halves, Completion, CleanupJoined,
       CombinedResult, cleanup, process

(* Nothing has happened yet.                                                *)
LEMMA ShutdownInvInit == SessionInit => ShutdownInv
BY NilIsNoName DEF SessionInit, ShutdownInv, Unconnected, Untouched, Ownership, Halves, Completion

(* connect hands the guard to the lifecycle, or gives it up on its way out.   *)
LEMMA ConnectingSound ==
  ShutdownInv /\ (Connect \/ Initialized \/ ConnectFails \/ ServiceEnds) => ShutdownInv'
<1> SUFFICES ASSUME ShutdownInv, Connect \/ Initialized \/ ConnectFails \/ ServiceEnds
             PROVE  ShutdownInv'
  OBVIOUS
<1> USE NilIsNoName DEF ShutdownInv, Unconnected, Untouched, Ownership, Halves, Completion,
        CleanupJoined, CombinedResult, cleanup, process
<1>1. CASE Connect
  BY <1>1 DEF Connect
<1>2. CASE Initialized
  BY <1>2 DEF Initialized
<1>3. CASE ConnectFails
  BY <1>3 DEF ConnectFails, GuardDrop, Kill
<1>4. CASE ServiceEnds
  BY <1>4 DEF ServiceEnds
<1> QED BY <1>1, <1>2, <1>3, <1>4

(* terminate and kill_and_wait give the guard up as they end.                 *)
LEMMA ChildSound ==
  ShutdownInv /\ (ChildExits \/ ReaperWaits \/ TryWaitExited \/ GraceEnds \/ KillChild \/ WaitChild)
    => ShutdownInv'
<1> SUFFICES ASSUME ShutdownInv,
                    \/ ChildExits \/ ReaperWaits \/ TryWaitExited \/ GraceEnds \/ KillChild
                    \/ WaitChild
             PROVE  ShutdownInv'
  OBVIOUS
<1> USE NilIsNoName DEF ShutdownInv, Unconnected, Untouched, Ownership, Halves, Completion,
        CleanupJoined, CombinedResult, cleanup, process
<1>1. CASE ChildExits
  BY <1>1 DEF ChildExits
<1>2. CASE ReaperWaits
  BY <1>2 DEF ReaperWaits
<1>3. CASE TryWaitExited
  BY <1>3 DEF TryWaitExited
<1>4. CASE GraceEnds
  BY <1>4 DEF GraceEnds
<1>5. CASE KillChild
  BY <1>5 DEF KillChild, Kill
<1>6. CASE WaitChild
  BY <1>6 DEF WaitChild, GuardDrop, Kill
<1> QED BY <1>1, <1>2, <1>3, <1>4, <1>5, <1>6

(* complete_after_closed publishes once both halves are over.                 *)
LEMMA CompletionSound ==
  ShutdownInv /\ (ServiceClosed \/ Publish \/ NotifyWaiters) => ShutdownInv'
<1> SUFFICES ASSUME ShutdownInv, ServiceClosed \/ Publish \/ NotifyWaiters
             PROVE  ShutdownInv'
  OBVIOUS
<1> USE NilIsNoName DEF ShutdownInv, Unconnected, Untouched, Ownership, Halves, Completion,
        CleanupJoined, CombinedResult, cleanup, process
<1>1. CASE ServiceClosed
  BY <1>1 DEF ServiceClosed
<1>2. CASE Publish
  BY <1>2 DEF Publish
<1>3. CASE NotifyWaiters
  BY <1>3 DEF NotifyWaiters
<1> QED BY <1>1, <1>2, <1>3

(* A caller starts the cleanup, drops its handle or reads the result.          *)
LEMMA CallerSound ==
  ASSUME ShutdownInv, NEW c \in Callers, Shutdown(c) \/ DropHandle(c) \/ Check(c)
  PROVE  ShutdownInv'
<1> USE NilIsNoName DEF ShutdownInv, Unconnected, Untouched, Ownership, Halves, Completion,
        CleanupJoined, CombinedResult, cleanup, process
<1>1. CASE Shutdown(c)
  BY <1>1 DEF Shutdown
<1>2. CASE DropHandle(c)
  BY <1>2 DEF DropHandle, GuardDrop, Kill
<1>3. CASE Check(c)
  BY <1>3 DEF Check
<1> QED BY <1>1, <1>2, <1>3

(* Every step keeps the invariant.                                           *)
LEMMA ShutdownInvNext == ShutdownInv /\ [SessionNext]_sessionVars => ShutdownInv'
<1> SUFFICES ASSUME ShutdownInv, [SessionNext]_sessionVars PROVE ShutdownInv'
  OBVIOUS
<1>1. ASSUME NEW c \in Callers,
             \/ Register(c) \/ Await(c) \/ Wake(c) \/ AbandonShutdown(c)
             \/ CallTool(c) \/ CallReturns(c)
      PROVE  Aside
  BY <1>1 DEF Register, Await, Wake, AbandonShutdown, CallTool, CallReturns, Aside
<1>2. ASSUME NEW c \in Discoverers, NEW s, Finish(c, s) PROVE Aside
  BY <1>2 DEF Finish, Aside
<1>3. ASSUME NEW c \in Discoverers, Discover(c) \/ ListTools(c) \/ DiscoverFails(c)
      PROVE  Aside
  <2>1. CASE Discover(c)
    BY <2>1 DEF Discover, Aside
  <2>2. CASE ListTools(c)
    <3>1. CASE \E s : Finish(c, s)
      BY <3>1, <1>2
    <3>2. CASE ~ \E s : Finish(c, s)
      BY <2>2, <3>2 DEF ListTools, Discovered, Aside
    <3> QED BY <3>1, <3>2
  <2>3. CASE DiscoverFails(c)
    BY <2>3, <1>2 DEF DiscoverFails
  <2> QED BY <1>3, <2>1, <2>2, <2>3
<1>4. CASE UNCHANGED sessionVars
  BY <1>4, AsideSound DEF sessionVars, Aside
<1> QED BY <1>1, <1>3, <1>4, AsideSound, ConnectingSound, ChildSound, CompletionSound, CallerSound
        DEF SessionNext

(* Whoever asks, and whenever: shutdown returns one result, which is true. Both   *)
(* halves of the cleanup are over, success means that the child is gone and the   *)
(* service has ended, and a failed service has not kept the child alive.         *)
THEOREM ShutdownResultIsTrueHolds == SessionSpec => []ShutdownResultIsTrue
<1>1. ShutdownInv => ShutdownResultIsTrue
  <2> SUFFICES ASSUME ShutdownInv, returned # {} PROVE ShutdownResultIsTrue
    BY DEF ShutdownResultIsTrue
  <2>1. /\ returned = {slot.result} /\ slot.result = CombinedResult
        /\ closing \in {"ok", "failed"} /\ reaping \in {"ok", "failed"}
    BY DEF ShutdownInv, Completion, CleanupJoined
  <2>2. service = "ended" /\ (reaping = "ok" => proc \in {Nil, "reaped"})
    BY <2>1 DEF ShutdownInv, Halves
  <2>3. guard = Nil
    BY <2>1, NilIsNoName DEF ShutdownInv, Ownership, Unconnected
  <2> QED BY <2>1, <2>2, <2>3, NilIsNoName DEF CombinedResult, ShutdownResultIsTrue
<1> QED BY <1>1, ShutdownInvInit, ShutdownInvNext, PTL DEF SessionSpec

--------------------------------------------------------------------------------
(* Tool sets.                                                                *)

(* The tools a set offers, and the ones the server had listed.                *)
Complete(s) ==
  {<<n, s.by_local[n]>> : n \in DOMAIN s.by_local}
    = {<<LocalName(l[1], l[2]), l[2]>> : l \in s.listed}

DiscoveryInv ==
  /\ disc = [c \in Discoverers |-> disc[c]] /\ snapshots = [c \in Discoverers |-> snapshots[c]]
  /\ \A c \in Discoverers : /\ disc[c].tools \in Seq(RemoteTools)
                            /\ DOMAIN disc[c] = {"pages", "tools", "seen", "policy"}
                            /\ snapshots[c] # Nil => Complete(snapshots[c])

(* A traversal whose names are distinct is mapped tool by tool.               *)
LEMMA ToolSetComplete ==
  ASSUME NEW policy, NEW tools \in Seq(RemoteTools), Mappable(policy, tools)
  PROVE  Complete(ToolSet(policy, tools))
<1> DEFINE T == Range(tools)
           pick(n) == CHOOSE t \in T : LocalName(policy, t) = n
           s == ToolSet(policy, tools)
<1>1. ASSUME NEW t \in T, NEW u \in T, LocalName(policy, t) = LocalName(policy, u) PROVE t = u
  BY <1>1 DEF Range, Mappable
<1>2. ASSUME NEW t \in T
      PROVE  pick(LocalName(policy, t)) = t
  <2>1. ASSUME NEW u \in T, LocalName(policy, u) = LocalName(policy, t) PROVE u = t
    BY <2>1, <1>1
  <2>2. pick(LocalName(policy, t)) \in T
        /\ LocalName(policy, pick(LocalName(policy, t))) = LocalName(policy, t)
    OBVIOUS
  <2> QED BY <2>1, <2>2
<1>3. /\ DOMAIN s.by_local = {LocalName(policy, t) : t \in T}
      /\ \A n \in DOMAIN s.by_local : s.by_local[n] = pick(n)
      /\ s.listed = {<<policy, t>> : t \in T}
  BY DEF ToolSet
<1> HIDE DEF T, pick, s
<1>4. {<<n, s.by_local[n]>> : n \in DOMAIN s.by_local} = {<<LocalName(policy, t), t>> : t \in T}
  BY <1>2, <1>3
<1>5. {<<LocalName(l[1], l[2]), l[2]>> : l \in s.listed} = {<<LocalName(policy, t), t>> : t \in T}
  <2>1. ASSUME NEW l \in s.listed
        PROVE  l[2] \in T /\ LocalName(l[1], l[2]) = LocalName(policy, l[2])
    <3>1. PICK t \in T : l = <<policy, t>>
      BY <1>3
    <3>2. l[1] = policy /\ l[2] = t
      BY <3>1
    <3> QED BY <3>2
  <2>2. ASSUME NEW t \in T
        PROVE  \E l \in s.listed : l[2] = t /\ LocalName(l[1], l[2]) = LocalName(policy, t)
    <3>1. <<policy, t>> \in s.listed /\ <<policy, t>>[1] = policy /\ <<policy, t>>[2] = t
      BY <1>3
    <3> QED BY <3>1
  <2> QED BY <2>1, <2>2
<1> QED BY <1>4, <1>5 DEF Complete, s

(* Sets that share no local name are combined without loss.                    *)
LEMMA CombinedComplete ==
  ASSUME NEW s, NEW t, Complete(s), Complete(t), Combinable(s, t)
  PROVE  Complete(Combined(s, t))
<1> DEFINE f == s.by_local
           g == t.by_local
           u == Combined(s, t)
<1>1. /\ DOMAIN u.by_local = DOMAIN f \cup DOMAIN g
      /\ \A n \in DOMAIN f : u.by_local[n] = f[n]
      /\ \A n \in DOMAIN g : u.by_local[n] = g[n]
      /\ u.listed = s.listed \cup t.listed
  BY DEF Combined, Combinable
<1> HIDE DEF u
<1>2. {<<n, u.by_local[n]>> : n \in DOMAIN u.by_local}
        = {<<n, f[n]>> : n \in DOMAIN f} \cup {<<n, g[n]>> : n \in DOMAIN g}
  BY <1>1
<1> QED BY <1>1, <1>2 DEF Complete, u

(* The end of a discovery.                                                    *)
LEMMA FinishSound ==
  ASSUME DiscoveryInv, NEW c \in Discoverers, NEW s, s # Nil => Complete(s), Finish(c, s)
  PROVE  DiscoveryInv'
<1>1. /\ \A d \in Discoverers : disc'[d] = (IF d = c THEN NoDiscovery ELSE disc[d])
      /\ \A d \in Discoverers : snapshots'[d] = (IF d = c THEN s ELSE snapshots[d])
      /\ disc' = [d \in Discoverers |-> disc'[d]]
      /\ snapshots' = [d \in Discoverers |-> snapshots'[d]]
  BY DEF Finish, DiscoveryInv
<1>2. /\ NoDiscovery.tools \in Seq(RemoteTools)
      /\ DOMAIN NoDiscovery = {"pages", "tools", "seen", "policy"}
  BY DEF NoDiscovery
<1> HIDE DEF NoDiscovery
<1> QED BY <1>1, <1>2 DEF DiscoveryInv

(* One page: the discovery fails, ends or goes on.                             *)
LEMMA PageSound ==
  ASSUME DiscoveryInv, NEW c \in Discoverers, ListTools(c)
  PROVE  DiscoveryInv'
<1>1. PICK page \in BoundedSeq(RemoteTools, 1), next \in Cursors \cup {Nil} :
        LET d == disc[c]
            tools == d.tools \o page
        IN  \/ Finish(c, snapshots[c])
            \/ Mappable(d.policy, tools) /\ Discovered(c, ToolSet(d.policy, tools))
            \/ /\ disc' = [disc EXCEPT ![c].pages = @ + 1, ![c].tools = tools,
                                       ![c].seen = @ \cup {next}]
               /\ UNCHANGED snapshots
  BY DEF ListTools
<1> DEFINE tools == disc[c].tools \o page
           set == ToolSet(disc[c].policy, tools)
<1>2. page \in Seq(RemoteTools)
  <2>1. PICK m \in 0..1 : page \in [1..m -> RemoteTools]
    BY DEF BoundedSeq, SeqOf
  <2> QED BY <2>1, SeqDef
<1>3. tools \in Seq(RemoteTools)
  BY <1>2 DEF DiscoveryInv
<1>4. CASE Finish(c, snapshots[c])
  BY <1>4, FinishSound DEF DiscoveryInv
<1>5. CASE Mappable(disc[c].policy, tools) /\ Discovered(c, set)
  <2>1. Complete(set)
    BY <1>3, <1>5, ToolSetComplete
  <2>2. CASE Finish(c, set)
    BY <2>1, <2>2, FinishSound
  <2>3. CASE /\ snapshots[c] # Nil /\ Combinable(snapshots[c], set)
             /\ Finish(c, Combined(snapshots[c], set))
    <3>1. Complete(Combined(snapshots[c], set))
      BY <2>1, <2>3, CombinedComplete DEF DiscoveryInv
    <3> QED BY <2>3, <3>1, FinishSound
  <2> QED BY <1>5, <2>2, <2>3 DEF Discovered
<1>6. CASE /\ disc' = [disc EXCEPT ![c].pages = @ + 1, ![c].tools = tools,
                                   ![c].seen = @ \cup {next}]
           /\ UNCHANGED snapshots
  <2> HIDE DEF tools
  <2>1. DOMAIN disc[c] = {"pages", "tools", "seen", "policy"}
    BY DEF DiscoveryInv
  <2>2. /\ \A d \in Discoverers : d # c => disc'[d] = disc[d]
        /\ disc'[c].tools = tools /\ DOMAIN disc'[c] = DOMAIN disc[c]
        /\ disc' = [d \in Discoverers |-> disc'[d]]
    BY <1>6, <2>1 DEF DiscoveryInv
  <2> QED BY <1>3, <1>6, <2>2 DEF DiscoveryInv
<1> QED BY <1>1, <1>4, <1>5, <1>6

(* Nothing else touches a discovery; a dropped handle drops its tool set.        *)
LEMMA DiscoveryInvNext == DiscoveryInv /\ [SessionNext]_sessionVars => DiscoveryInv'
<1> SUFFICES ASSUME DiscoveryInv, [SessionNext]_sessionVars PROVE DiscoveryInv'
  OBVIOUS
<1>1. ASSUME UNCHANGED <<disc, snapshots>> PROVE DiscoveryInv'
  BY <1>1 DEF DiscoveryInv
<1>2. ASSUME NEW c \in Callers, DropHandle(c) PROVE DiscoveryInv'
  <2>1. /\ disc' = disc
        /\ snapshots' = [d \in Discoverers |-> IF d = c THEN Nil ELSE snapshots[d]]
    BY <1>2 DEF DropHandle
  <2> QED BY <2>1 DEF DiscoveryInv
<1>3. ASSUME NEW c \in Callers,
             \/ Shutdown(c) \/ Register(c) \/ Check(c) \/ Await(c) \/ Wake(c)
             \/ AbandonShutdown(c) \/ CallTool(c) \/ CallReturns(c)
      PROVE  DiscoveryInv'
  BY <1>1, <1>3 DEF Shutdown, Register, Check, Await, Wake, AbandonShutdown, CallTool, CallReturns
<1>4. ASSUME NEW c \in Discoverers, Discover(c) PROVE DiscoveryInv'
  <2>1. PICK policy \in Policies :
          disc' = [disc EXCEPT ![c] = [NoDiscovery EXCEPT !.policy = policy]]
    BY <1>4 DEF Discover
  <2>2. /\ [NoDiscovery EXCEPT !.policy = policy].tools \in Seq(RemoteTools)
        /\ DOMAIN [NoDiscovery EXCEPT !.policy = policy] = {"pages", "tools", "seen", "policy"}
    BY DEF NoDiscovery
  <2>3. snapshots' = snapshots
    BY <1>4 DEF Discover
  <2> HIDE DEF NoDiscovery
  <2>4. /\ \A d \in Discoverers : d # c => disc'[d] = disc[d]
        /\ disc'[c] = [NoDiscovery EXCEPT !.policy = policy]
        /\ disc' = [d \in Discoverers |-> disc'[d]]
    BY <2>1 DEF DiscoveryInv
  <2> QED BY <2>2, <2>3, <2>4 DEF DiscoveryInv
<1>5. ASSUME NEW c \in Discoverers, ListTools(c) PROVE DiscoveryInv'
  BY <1>5, PageSound
<1>6. ASSUME NEW c \in Discoverers, DiscoverFails(c) PROVE DiscoveryInv'
  BY <1>6, FinishSound DEF DiscoverFails, DiscoveryInv
<1>7. CASE \/ Connect \/ Initialized \/ ConnectFails \/ ServiceEnds \/ ChildExits \/ ReaperWaits
           \/ ServiceClosed \/ TryWaitExited \/ GraceEnds \/ KillChild \/ WaitChild
           \/ Publish \/ NotifyWaiters \/ UNCHANGED sessionVars
  BY <1>1, <1>7 DEF Connect, Initialized, ConnectFails, ServiceEnds, ChildExits, ReaperWaits,
       ServiceClosed, TryWaitExited, GraceEnds, KillChild, WaitChild, Publish, NotifyWaiters, sessionVars
<1> QED BY <1>2, <1>3, <1>4, <1>5, <1>6, <1>7 DEF SessionNext

(* However many pages, refreshes and combinations a tool set is built from, it    *)
(* offers every tool the server had listed, each under its own local name.       *)
THEOREM SnapshotCompleteHolds == SessionSpec => []SnapshotComplete
<1>1. SessionInit => DiscoveryInv
  <2> SUFFICES ASSUME SessionInit PROVE DiscoveryInv
    OBVIOUS
  <2>1. disc = [c \in Discoverers |-> NoDiscovery] /\ snapshots = [c \in Discoverers |-> Nil]
    BY DEF SessionInit
  <2>2. /\ NoDiscovery.tools \in Seq(RemoteTools)
        /\ DOMAIN NoDiscovery = {"pages", "tools", "seen", "policy"}
    BY DEF NoDiscovery
  <2> HIDE DEF NoDiscovery
  <2> QED BY <2>1, <2>2 DEF DiscoveryInv
<1>2. DiscoveryInv => SnapshotComplete
  BY DEF DiscoveryInv, Complete, SnapshotComplete
<1> QED BY <1>1, <1>2, DiscoveryInvNext, PTL DEF SessionSpec

--------------------------------------------------------------------------------
(* A step of the invocation.                                               *)

IsSeq(s) == \E S : s \in Seq(S)

(* A poll that drives the invocation, whatever it does.                     *)
Poll ==
  /\ Driven
  /\ \E batch, graph, result, yields :
       /\ IsSeq(batch) /\ graph \in Nat /\ result \in {"running", "ok", "failed"}
       /\ PollDrives(batch, graph, result, yields)

(* What the model node makes of an item.                                    *)
Taken(n) == IsSeq(n.emits) /\ n.graph \in Nat /\ n.result \in {"running", "ok", "failed"}

LEMMA NodeTakesTyped ==
  ASSUME NEW item PROVE Taken(NodeTakes(item))
<1>1. \A e : IsSeq(<<e>>)
  <2> SUFFICES ASSUME NEW e PROVE IsSeq(<<e>>)
    OBVIOUS
  <2>1. <<e>> \in Seq({e})
    OBVIOUS
  <2> QED BY <2>1 DEF IsSeq
<1>2. IsSeq(<<>>) /\ IsSeq(<<ModelCompleted, Outcome>>)
  <2>1. <<>> \in Seq({}) /\ <<ModelCompleted, Outcome>> \in Seq({ModelCompleted, Outcome})
    OBVIOUS
  <2> QED BY <2>1 DEF IsSeq
<1>3. \A by : Taken(Failing(by))
  BY <1>2, GraphEventsAssumption DEF Taken, Failing
<1>4. \A c : Taken(Going(c, <<>>)) /\ \A e : Taken(Going(c, <<e>>))
  BY <1>1, <1>2 DEF Taken, Going
<1>5. Taken(Completing)
  BY <1>2, GraphEventsAssumption DEF Taken, Completing
<1>6. \/ \E by : NodeTakes(item) = Failing(by)
      \/ \E c, e : NodeTakes(item) \in {Going(c, <<>>), Going(c, <<e>>)}
      \/ NodeTakes(item) = Completing
  <2>1. PICK went :
          went = Going(Collect(node.collector, item),
                       IF item.kind \in {"text", "tool"} THEN <<item>> ELSE <<>>)
    OBVIOUS
  <2>2. \E c, e : went \in {Going(c, <<>>), Going(c, <<e>>)}
    BY <2>1
  <2>3. PICK idle : idle = Going(node.collector, <<>>)
    OBVIOUS
  <2>4. PICK fault : fault = Failing(item.by)
    OBVIOUS
  <2>5. PICK rejected : rejected = Failing("collector")
    OBVIOUS
  <2>6. NodeTakes(item) \in {idle, fault, rejected, Completing, went}
    BY <2>1, <2>3, <2>4, <2>5 DEF NodeTakes
  <2> QED BY <2>2, <2>3, <2>4, <2>5, <2>6, Zenon
<1> QED BY <1>3, <1>4, <1>5, <1>6

LEMMA ProceedIsPoll ==
  ASSUME Driven, NEW item, Proceed(NodeTakes(item)) PROVE Poll
<1>1. PICK n : n = NodeTakes(item)
  OBVIOUS
<1>2. PollDrives(n.emits, n.graph, n.result, n.emits # <<>>)
  BY <1>1 DEF Proceed
<1>3. Taken(n)
  BY <1>1, NodeTakesTyped
<1> QED BY <1>2, <1>3 DEF Poll, Taken

LEMMA PassesIsPoll ==
  ASSUME Driven, NEW result, Passes(result) PROVE Poll
<1>1. PICK item : Proceed(NodeTakes(item))
  BY DEF Passes
<1> QED BY <1>1, ProceedIsPoll

(* However the provider's answer arrives, watchers see a poll.               *)
LEMMA DriveIsPoll ==
  ASSUME Drive PROVE Poll
<1>1. CASE StartRound
  <2>1. IsSeq(<<ModelStarted>>) /\ IsSeq(<<>>)
    <3>1. <<ModelStarted>> \in Seq({ModelStarted}) /\ <<>> \in Seq({})
      OBVIOUS
    <3> QED BY <3>1 DEF IsSeq
  <2>2. /\ GraphOpening \in Nat /\ GraphOpening + GraphClosing \in Nat
    BY GraphEventsAssumption
  <2>3. Driven /\ (\/ PollDrives(<<ModelStarted>>, GraphOpening, "running", FALSE)
                   \/ PollDrives(<<>>, GraphOpening + GraphClosing, "failed", FALSE))
    BY <1>1 DEF StartRound
  <2> QED BY <2>1, <2>2, <2>3 DEF Poll
<1>2. CASE EndOfValidated
  BY <1>2, ProceedIsPoll DEF EndOfValidated
<1>3. CASE SendRequest
  BY <1>3, PassesIsPoll DEF SendRequest, Reading
<1>4. CASE ReceiveChunk
  BY <1>4, PassesIsPoll DEF ReceiveChunk, Reading
<1>5. CASE LoseConnection
  BY <1>5, PassesIsPoll DEF LoseConnection, Reading
<1>6. CASE DecodeByte
  BY <1>6, PassesIsPoll DEF DecodeByte, Reading
<1>7. CASE TakePending
  BY <1>7, PassesIsPoll DEF TakePending, Reading
<1>8. CASE EndOfDecoded
  BY <1>8, PassesIsPoll DEF EndOfDecoded, Reading
<1>9. CASE GenaiQueued
  BY <1>9, PassesIsPoll DEF GenaiQueued, Reading
<1>10. CASE GenaiPolls
  BY <1>10, PassesIsPoll DEF GenaiPolls, Reading
<1>11. CASE GenaiOver
  BY <1>11, PassesIsPoll DEF GenaiOver, Reading
<1> QED BY <1>1, <1>2, <1>3, <1>4, <1>5, <1>6, <1>7, <1>8, <1>9, <1>10, <1>11 DEF Drive

--------------------------------------------------------------------------------
(* The channel and the caller.                                             *)

(* Handing over the oldest event of the channel keeps the order.             *)
LEMMA ReceiveKeepsOrder ==
  ASSUME NEW S, NEW got \in Seq(S), NEW q \in Seq(S), q # <<>>
  PROVE  /\ Append(got, Head(q)) \in Seq(S) /\ Tail(q) \in Seq(S)
         /\ Append(got, Head(q)) \o Tail(q) = got \o q
<1>1. /\ Len(q) \in Nat \ {0} /\ Head(q) = q[1] /\ Head(q) \in S /\ Tail(q) \in Seq(S)
  BY HeadTailProperties, EmptySeq
<1>2. q = <<q[1]>> \o Tail(q)
  <2>1. 1 \in 1..Len(q) /\ Len(q) \in 1..Len(q)
    BY <1>1
  <2>2. SubSeq(q, 1, Len(q)) = <<q[1]>> \o SubSeq(q, 1 + 1, Len(q))
    BY <2>1, SubSeqRecursiveFirst
  <2>3. SubSeq(q, 1, Len(q)) = q
    BY SubSeqFull
  <2>4. Tail(q) = SubSeq(q, 1 + 1, Len(q))
    BY TailIsSubSeq
  <2> QED BY <2>2, <2>3, <2>4, Zenon
<1>3. Append(got, q[1]) = got \o <<q[1]>> /\ <<q[1]>> \in Seq(S) /\ Append(got, q[1]) \in Seq(S)
  BY <1>1, AppendIsConcat, AppendProperties
<1>4. (got \o <<q[1]>>) \o Tail(q) = got \o (<<q[1]>> \o Tail(q))
  BY <1>1, <1>3, ConcatAssociative
<1> QED BY <1>1, <1>2, <1>3, <1>4, Zenon

(* What the caller has and will get is what was emitted, and the error.      *)
Ending == IF is_terminal /\ invocation = "failed" THEN <<Error>> ELSE <<>>

Faithful ==
  /\ invocation \in {"running", "ok", "failed", "dropped"}
  /\ is_terminal \in BOOLEAN /\ pending_error \in BOOLEAN
  /\ IsSeq(emitted) /\ IsSeq(queue) /\ IsSeq(items)
  /\ invocation = "dropped" => is_terminal
  /\ invocation # "dropped" =>
       /\ items \o queue = emitted \o Ending
       /\ is_terminal => queue = <<>> /\ invocation # "running"
       /\ pending_error <=> (invocation = "failed" /\ ~is_terminal)

LEMMA ReceiveFaithful ==
  ASSUME NEW q, q # <<>>, IsSeq(q), IsSeq(items), Receive(q)
  PROVE  /\ IsSeq(queue') /\ IsSeq(items') /\ items' \o queue' = items \o q
         /\ is_terminal' = is_terminal
<1>1. PICK S, T : q \in Seq(S) /\ items \in Seq(T)
  BY DEF IsSeq
<1>2. q \in Seq(S \cup T) /\ items \in Seq(S \cup T)
  BY <1>1
<1>3. queue' = Tail(q) /\ items' = Append(items, Head(q)) /\ is_terminal' = is_terminal
  BY DEF Receive, Deliver
<1> QED BY <1>2, <1>3, ReceiveKeepsOrder DEF IsSeq

LEMMA JoinedSeq ==
  ASSUME NEW a, NEW b, IsSeq(a), IsSeq(b)
  PROVE  IsSeq(a \o b) /\ a \o <<>> = a /\ <<>> \o a = a
<1>1. PICK S, T : a \in Seq(S) /\ b \in Seq(T)
  BY DEF IsSeq
<1>2. a \in Seq(S \cup T) /\ b \in Seq(S \cup T)
  BY <1>1
<1>3. a \o b \in Seq(S \cup T)
  BY <1>2, ConcatProperties
<1>4. a \o <<>> = a /\ <<>> \o a = a
  BY <1>1, ConcatEmptySeq
<1> QED BY <1>3, <1>4 DEF IsSeq

LEMMA JoinedAssociates ==
  ASSUME NEW a, NEW b, NEW c, IsSeq(a), IsSeq(b), IsSeq(c)
  PROVE  (a \o b) \o c = a \o (b \o c)
<1>1. PICK S, T, U : a \in Seq(S) /\ b \in Seq(T) /\ c \in Seq(U)
  BY DEF IsSeq
<1>2. a \in Seq(S \cup T \cup U) /\ b \in Seq(S \cup T \cup U) /\ c \in Seq(S \cup T \cup U)
  BY <1>1
<1> QED BY <1>2, ConcatAssociative

(* Steps 3 to 5 of poll_next, once the invocation is over.                   *)
LEMMA AfterInvocationFaithful ==
  ASSUME NEW q, IsSeq(q), IsSeq(items), IsSeq(emitted'), items \o q = emitted',
         is_terminal = FALSE, invocation' \in {"ok", "failed"}, NEW error \in BOOLEAN,
         error <=> (invocation' = "failed"), pending_error \in BOOLEAN, pending_error => error,
         AfterInvocation(q, error)
  PROVE  Faithful'
<1>1. CASE q # <<>>
  <2>1. Receive(q) /\ pending_error' = error
    BY <1>1 DEF AfterInvocation
  <2>2. /\ IsSeq(queue') /\ IsSeq(items') /\ items' \o queue' = items \o q
        /\ is_terminal' = FALSE
    BY <1>1, <2>1, ReceiveFaithful
  <2>3. Ending' = <<>> /\ emitted' \o <<>> = emitted'
    BY <2>2, JoinedSeq DEF Ending
  <2> QED BY <2>1, <2>2, <2>3 DEF Faithful
<1>2. CASE q = <<>>
  <2>1. items = emitted' /\ queue' = <<>> /\ IsSeq(queue')
    <3>1. items = emitted'
      BY <1>2, JoinedSeq
    <3> QED BY <1>2, <3>1 DEF AfterInvocation
  <2>2. CASE error
    <3>1. /\ items' = Append(items, Error) /\ pending_error' = FALSE /\ is_terminal' = TRUE
          /\ invocation' = "failed"
      BY <1>2, <2>2 DEF AfterInvocation, Deliver
    <3>2. PICK S : items \in Seq(S)
      BY DEF IsSeq
    <3>3. items \in Seq(S \cup {Error}) /\ Error \in S \cup {Error}
      BY <3>2
    <3>4. items' = items \o <<Error>> /\ items' \in Seq(S \cup {Error})
      BY <3>1, <3>3, AppendIsConcat, AppendProperties
    <3>5. IsSeq(items') /\ items' \o <<>> = items'
      BY <2>1, <3>4, JoinedSeq DEF IsSeq
    <3>6. Ending' = <<Error>>
      BY <3>1 DEF Ending, Error
    <3> QED BY <2>1, <3>1, <3>4, <3>5, <3>6 DEF Faithful
  <2>3. CASE ~error
    <3>1. /\ items' = items /\ pending_error' = FALSE /\ is_terminal' = TRUE
          /\ invocation' = "ok"
      BY <1>2, <2>3 DEF AfterInvocation
    <3>2. items \o <<>> = items /\ emitted' \o <<>> = emitted' /\ Ending' = <<>>
      BY <3>1, JoinedSeq DEF Ending
    <3> QED BY <2>1, <3>1, <3>2 DEF Faithful
  <2> QED BY <2>2, <2>3
<1> QED BY <1>1, <1>2

(* An event is waiting.                                                    *)
LEMMA BufferedFaithful ==
  ASSUME Faithful, PollBuffered PROVE Faithful'
<1>1. /\ queue # <<>> /\ is_terminal = FALSE /\ Receive(queue) /\ invocation # "dropped"
      /\ invocation' = invocation /\ emitted' = emitted /\ pending_error' = pending_error
  BY DEF PollBuffered, Faithful
<1>2. /\ IsSeq(queue') /\ IsSeq(items') /\ items' \o queue' = items \o queue
      /\ is_terminal' = FALSE
  BY <1>1, ReceiveFaithful DEF Faithful
<1>3. Ending' = <<>> /\ Ending = <<>>
  BY <1>1, <1>2 DEF Ending
<1> QED BY <1>1, <1>2, <1>3 DEF Faithful

LEMMA DrainedFaithful ==
  ASSUME Faithful, PollDrained PROVE Faithful'
<1>1. /\ queue = <<>> /\ is_terminal = FALSE /\ invocation \in {"ok", "failed"}
      /\ invocation' = invocation /\ emitted' = emitted /\ AfterInvocation(queue, pending_error)
      /\ IsSeq(queue) /\ IsSeq(items) /\ IsSeq(emitted)
      /\ pending_error \in BOOLEAN /\ (pending_error <=> (invocation = "failed"))
      /\ items \o queue = emitted \o Ending
  BY DEF PollDrained, Faithful
<1>2. Ending = <<>>
  BY <1>1 DEF Ending
<1>3. emitted \o <<>> = emitted
  BY <1>1, JoinedSeq
<1>4. items \o queue = emitted'
  BY <1>1, <1>2, <1>3
<1>5. PICK error \in BOOLEAN : error = pending_error
  BY <1>1
<1>6. AfterInvocation(queue, error) /\ (error <=> (invocation' = "failed")) /\ IsSeq(emitted')
  BY <1>1, <1>5
<1> QED BY <1>1, <1>4, <1>5, <1>6, AfterInvocationFaithful

LEMMA DropFaithful ==
  ASSUME Faithful, DropStream PROVE Faithful'
<1>1. IsSeq(<<>>)
  BY EmptySeq DEF IsSeq
<1> QED BY <1>1 DEF Faithful, DropStream

LEMMA PollFaithful ==
  ASSUME Faithful, Poll PROVE Faithful'
<1>1. PICK batch, graph, result, yields :
        /\ IsSeq(batch) /\ result \in {"running", "ok", "failed"}
        /\ PollDrives(batch, graph, result, yields)
  BY DEF Poll
<1>2. /\ is_terminal = FALSE /\ invocation = "running" /\ pending_error = FALSE
      /\ IsSeq(queue) /\ IsSeq(items) /\ IsSeq(emitted) /\ items \o queue = emitted \o Ending
  BY DEF Poll, Driven, Faithful
<1>3. PICK q : q = queue \o batch
  OBVIOUS
<1>4. /\ invocation' = result /\ emitted' = emitted \o batch
      /\ IF result # "running" THEN AfterInvocation(q, result = "failed") /\ polling' = FALSE
         ELSE Pending(q) \/ (~yields /\ Continues(q))
  BY <1>1, <1>3 DEF PollDrives
<1>5. IsSeq(q) /\ IsSeq(emitted')
  BY <1>1, <1>2, <1>3, <1>4, JoinedSeq
<1>6. items \o q = emitted'
  <2>1. emitted \o Ending = emitted
    BY <1>2, JoinedSeq DEF Ending
  <2>2. PICK a, b : a = items /\ b = queue
    OBVIOUS
  <2>3. (a \o b) \o batch = a \o (b \o batch)
    BY <1>1, <1>2, <2>2, JoinedAssociates
  <2> QED BY <1>2, <1>3, <1>4, <2>1, <2>2, <2>3
<1>7. CASE result # "running"
  <2>1. PICK error \in BOOLEAN : error = (result = "failed")
    OBVIOUS
  <2>2. AfterInvocation(q, error)
    BY <1>4, <1>7, <2>1
  <2>3. /\ invocation' \in {"ok", "failed"} /\ (error <=> (invocation' = "failed"))
        /\ pending_error \in BOOLEAN /\ (pending_error => error)
    BY <1>1, <1>2, <1>4, <1>7, <2>1
  <2> QED BY <1>2, <1>5, <1>6, <2>2, <2>3, AfterInvocationFaithful
<1>8. CASE result = "running"
  <2>1. /\ is_terminal' = FALSE /\ pending_error' = FALSE
        /\ IsSeq(queue') /\ IsSeq(items') /\ items' \o queue' = items \o q
    <3>1. CASE Pending(q) /\ q # <<>>
      <4>1. Receive(q) /\ pending_error' = pending_error
        BY <3>1 DEF Pending
      <4> QED BY <1>2, <1>5, <3>1, <4>1, ReceiveFaithful
    <3>2. CASE Pending(q) /\ q = <<>>
      BY <1>2, <1>5, <3>2 DEF Pending
    <3>3. CASE Continues(q)
      BY <1>2, <1>5, <3>3 DEF Continues
    <3> QED BY <1>4, <1>8, <3>1, <3>2, <3>3
  <2>2. Ending' = <<>> /\ emitted' \o <<>> = emitted'
    BY <1>5, <2>1, JoinedSeq DEF Ending
  <2> QED BY <1>4, <1>5, <1>6, <1>8, <2>1, <2>2 DEF Faithful
<1> QED BY <1>7, <1>8

LEMMA UnwatchedFaithful ==
  ASSUME Faithful, UNCHANGED pull PROVE Faithful'
BY DEF Faithful, Ending, pull

(* Every step is a poll of the invocation, a step of a watcher, or neither.    *)
LEMMA StepKinds ==
  ASSUME [Next]_vars
  PROVE  Poll \/ Watch \/ UNCHANGED watching
BY DriveIsPoll DEF Next, vars

LEMMA StepFaithful ==
  ASSUME Faithful, [Next]_vars PROVE Faithful'
<1>1. CASE Poll
  BY <1>1, PollFaithful
<1>2. CASE Watch
  <2>1. ASSUME DropFactory \/ \E s \in Subscribers : Subscribe(s) \/ PollSubscriber(s)
        PROVE  UNCHANGED pull
    BY <2>1 DEF DropFactory, Subscribe, PollSubscriber
  <2> QED BY <1>2, <2>1, BufferedFaithful, DrainedFaithful, DropFaithful, UnwatchedFaithful DEF Watch
<1>3. CASE UNCHANGED watching
  BY <1>3, UnwatchedFaithful DEF watching
<1> QED BY <1>1, <1>2, <1>3, StepKinds

LEMMA InitFaithful ==
  ASSUME Init PROVE Faithful
<1>1. /\ invocation = "running" /\ emitted = <<>> /\ queue = <<>> /\ items = <<>>
      /\ pending_error = FALSE /\ is_terminal = FALSE
  BY DEF Init, WatchInit
<1>2. IsSeq(<<>>) /\ <<>> \o <<>> = <<>>
  BY EmptySeq, ConcatEmptySeq DEF IsSeq
<1> QED BY <1>1, <1>2 DEF Faithful, Ending

(* The caller of an agent's stream sees the whole invocation, whatever the provider      *)
(* sends and however it arrives: every event in order, then the error if there is one,   *)
(* and nothing after either end (AgentEventStream::poll_next).                          *)
THEOREM StreamIsFaithfulHolds == Spec => []StreamIsFaithful
<1>1. Faithful => StreamIsFaithful
  BY DEF Faithful, StreamIsFaithful, Ending
<1> QED BY <1>1, InitFaithful, StepFaithful, PTL DEF Spec

--------------------------------------------------------------------------------
(* Counting what a subscriber was told.                                     *)

(* Every set of naturals that is not empty has a least element.             *)
LEMMA LeastNumber ==
  ASSUME NEW S \in SUBSET Nat, S # {}
  PROVE  \E m \in S : \A k \in S : m <= k
<1>1. \E R : IsWellFoundedOn(R, Nat) /\ \A x, y \in Nat : x < y => <<x, y>> \in R
  <2>1. \A x, y \in Nat : x < y => <<x, y>> \in OpToRel(<, Nat)
    BY DEF OpToRel
  <2>2. IsWellFoundedOn(OpToRel(<, Nat), Nat)
    BY NatLessThanWellFounded
  <2> HIDE DEF OpToRel
  <2> QED BY <2>1, <2>2, Zenon
<1>2. PICK R : IsWellFoundedOn(R, Nat) /\ \A x, y \in Nat : x < y => <<x, y>> \in R
  BY <1>1
<1>3. PICK m \in S : \A k \in S : ~ (<<k, m>> \in R)
  <2>1. S \subseteq Nat
    OBVIOUS
  <2>2. IsWellFoundedOn(R, Nat)
    BY <1>2
  <2>3. \E m \in S : \A k \in S : ~ (<<k, m>> \in R)
    BY <2>1, <2>2, WFMin, ZenonT(30)
  <2> QED BY <2>3
<1>4. ASSUME NEW k \in S PROVE m <= k
  <2>1. m \in Nat /\ k \in Nat
    OBVIOUS
  <2>2. ~ (k < m)
    BY <2>1, <1>2, <1>3, Zenon
  <2> QED BY <2>1, <2>2
<1> QED BY <1>4

(* g follows the position of who was told h, item by item.                   *)
Follows(start, h, n, g) ==
  g = [i \in 0..n |-> IF i = 0 THEN start ELSE g[i - 1] + Advance(h[i])]

(* There is such a count: otherwise take the shortest one that fails.         *)
LEMMA FollowsExists ==
  ASSUME NEW start, NEW h
  PROVE  \A n \in Nat : \E g : Follows(start, h, n, g)
<1> DEFINE Bad == {n \in Nat : ~ \E g : Follows(start, h, n, g)}
<1> SUFFICES ASSUME Bad # {} PROVE FALSE
  OBVIOUS
<1>1. PICK m \in Bad : \A k \in Bad : m <= k
  BY LeastNumber
<1>2. m # 0
  <2>1. Follows(start, h, 0, [i \in 0..0 |-> start])
    BY DEF Follows
  <2> QED BY <2>1
<1>3. PICK g : Follows(start, h, m - 1, g)
  <2>1. m - 1 \in Nat /\ m - 1 \notin Bad
    BY <1>1, <1>2
  <2> QED BY <2>1
<1> DEFINE f == [i \in 0..m |-> IF i = m THEN g[m - 1] + Advance(h[m]) ELSE g[i]]
<1>4. Follows(start, h, m, f)
  <2>1. \A i \in 0..(m-1) : g[i] = IF i = 0 THEN start ELSE g[i - 1] + Advance(h[i])
    BY <1>3 DEF Follows
  <2>2. \A i \in 0..m : f[i] = IF i = 0 THEN start ELSE f[i - 1] + Advance(h[i])
    BY <2>1, <1>2
  <2> QED BY <2>2 DEF Follows
<1> QED BY <1>4

(* There is only one: otherwise take the first place where two differ.        *)
LEMMA FollowsUnique ==
  ASSUME NEW start, NEW h, NEW n \in Nat, NEW m \in Nat, NEW f, NEW g,
         Follows(start, h, n, f), Follows(start, h, m, g)
  PROVE  \A i \in 0..n : i \in 0..m => f[i] = g[i]
<1> DEFINE Bad == {i \in 0..n : i \in 0..m /\ f[i] # g[i]}
<1> SUFFICES ASSUME Bad # {} PROVE FALSE
  OBVIOUS
<1>1. PICK k \in Bad : \A j \in Bad : k <= j
  <2>1. Bad \in SUBSET Nat
    OBVIOUS
  <2> QED BY <2>1, LeastNumber
<1>2. /\ \A i \in 0..n : f[i] = IF i = 0 THEN start ELSE f[i - 1] + Advance(h[i])
      /\ \A i \in 0..m : g[i] = IF i = 0 THEN start ELSE g[i - 1] + Advance(h[i])
    BY DEF Follows
<1> QED BY <1>1, <1>2

(* The recursive function in Position is that count.                         *)
LEMMA PositionFollows ==
  ASSUME NEW start, NEW h, NEW k \in Nat
  PROVE  \E g : Follows(start, h, k, g) /\ Position(start, h, k) = g[k]
<1> DEFINE count == CHOOSE g : g = [i \in 0..k |->
                       IF i = 0 THEN start ELSE g[i - 1] + Advance(h[i])]
<1>1. Follows(start, h, k, count)
  BY FollowsExists DEF Follows
<1>2. Position(start, h, k) = count[k]
  BY DEF Position
<1> QED BY <1>1, <1>2

LEMMA PositionStart ==
  ASSUME NEW start, NEW h PROVE Position(start, h, 0) = start
<1>1. PICK g : Follows(start, h, 0, g) /\ Position(start, h, 0) = g[0]
  BY PositionFollows
<1> QED BY <1>1 DEF Follows

(* One more item advances the position by itself and changes none before.      *)
LEMMA PositionAppend ==
  ASSUME NEW start, NEW S, NEW h \in Seq(S), NEW item \in S
  PROVE  /\ \A k \in 0..Len(h) : Position(start, Append(h, item), k) = Position(start, h, k)
         /\ Position(start, Append(h, item), Len(h) + 1)
              = Position(start, h, Len(h)) + Advance(item)
<1> DEFINE n == Len(h)
           more == Append(h, item)
<1>1. /\ n \in Nat /\ more[n + 1] = item /\ \A i \in 1..n : more[i] = h[i]
  OBVIOUS
<1> HIDE DEF n, more
<1>2. ASSUME NEW k \in 0..n PROVE Position(start, more, k) = Position(start, h, k)
  <2>1. k \in Nat
    BY <1>1
  <2>2. PICK f : Follows(start, h, k, f) /\ Position(start, h, k) = f[k]
    BY <2>1, PositionFollows
  <2>3. PICK g : Follows(start, more, k, g) /\ Position(start, more, k) = g[k]
    BY <2>1, PositionFollows
  <2>4. Follows(start, h, k, g)
    <3>1. \A i \in 0..k : i # 0 => more[i] = h[i]
      BY <1>1, <2>1
    <3> QED BY <2>3, <3>1 DEF Follows
  <2> QED BY <2>1, <2>2, <2>3, <2>4, FollowsUnique
<1>3. Position(start, more, n + 1) = Position(start, h, n) + Advance(item)
  <2>1. PICK g : Follows(start, more, n + 1, g) /\ Position(start, more, n + 1) = g[n + 1]
    BY <1>1, PositionFollows
  <2>2. g[n + 1] = g[n] + Advance(item)
    BY <1>1, <2>1 DEF Follows
  <2>3. PICK f : Follows(start, more, n, f) /\ Position(start, more, n) = f[n]
    BY <1>1, PositionFollows
  <2>4. g[n] = f[n]
    BY <1>1, <2>1, <2>3, FollowsUnique
  <2> QED BY <1>1, <1>2, <2>1, <2>2, <2>3, <2>4
<1> QED BY <1>2, <1>3 DEF n, more

--------------------------------------------------------------------------------
(* The ring and its subscribers.                                            *)

Item == [kind : {"event", "lagged", "end"}, n : Int]

RingTyped ==
  /\ sent \in Nat
  /\ first \in [Subscribers -> Nat \cup {Absent}]
  /\ cursor \in [Subscribers -> Int]
  /\ heard \in [Subscribers -> Seq(Item)]

(* A subscriber's cursor is where counting what it was told leads.             *)
Counted(start, told, at) ==
  /\ \A k \in 1..Len(told) : told[k].kind = "event" => told[k].n = Position(start, told, k - 1)
  /\ Position(start, told, Len(told)) = at

Exact ==
  \A s \in Subscribers :
    /\ first[s] = Absent => heard[s] = <<>>
    /\ first[s] # Absent => Accepted /\ Counted(first[s], heard[s], cursor[s])

(* Who has heard the end has read everything, and nobody is left to send.       *)
Closed ==
  /\ invocation = "running" => "run" \in senders
  /\ \A s \in Subscribers : Ended(s) => cursor[s] = sent /\ senders = {}

RingInv == RingTyped /\ Exact /\ Closed

(* An item that tells the truth about the cursor keeps the count.              *)
LEMMA CountedAppend ==
  ASSUME NEW start, NEW told \in Seq(Item), NEW at, Counted(start, told, at),
         NEW item \in Item, item.kind = "event" => item.n = at,
         NEW to, to = at + Advance(item)
  PROVE  Counted(start, Append(told, item), to)
<1> DEFINE n == Len(told)
           more == Append(told, item)
<1>1. /\ n \in Nat /\ Len(more) = n + 1 /\ more[n + 1] = item /\ \A i \in 1..n : more[i] = told[i]
  OBVIOUS
<1>2. /\ \A k \in 0..n : Position(start, more, k) = Position(start, told, k)
      /\ Position(start, more, n + 1) = Position(start, told, n) + Advance(item)
  BY PositionAppend
<1> HIDE DEF n, more
<1>3. /\ \A k \in 1..n : told[k].kind = "event" => told[k].n = Position(start, told, k - 1)
      /\ Position(start, told, n) = at
  BY DEF Counted, n
<1>4. Position(start, more, n + 1) = to
  BY <1>2, <1>3
<1>5. ASSUME NEW k \in 1..(n + 1), more[k].kind = "event"
      PROVE  more[k].n = Position(start, more, k - 1)
  <2>1. CASE k = n + 1
    <3>1. k - 1 = n /\ n \in 0..n
      <4>1. n \in Nat
        BY <1>1
      <4> QED BY <4>1, <2>1
    <3>2. Position(start, more, k - 1) = at
      BY <1>2, <1>3, <3>1
    <3> QED BY <1>1, <1>5, <2>1, <3>2
  <2>2. CASE k # n + 1
    <3>1. k \in 1..n /\ k - 1 \in 0..n
      BY <1>1, <2>2
    <3>2. more[k] = told[k] /\ Position(start, more, k - 1) = Position(start, told, k - 1)
      BY <1>1, <1>2, <3>1
    <3> QED BY <1>3, <1>5, <3>1, <3>2
  <2> QED BY <2>1, <2>2
<1>6. Counted(start, more, to)
  BY <1>1, <1>4, <1>5 DEF Counted
<1> QED BY <1>6 DEF more

(* What a subscriber has not ended by.                                       *)
LEMMA EndedAppend ==
  ASSUME NEW told \in Seq(Item), NEW item \in Item
  PROVE  /\ Append(told, item) # <<>> /\ Append(told, item) \in Seq(Item)
         /\ Append(told, item)[Len(Append(told, item))] = item
BY AppendProperties

LEMMA OldestTyped ==
  ASSUME RingTyped, Accepted PROVE Oldest \in Int
BY CapacityAssumption DEF RingTyped, Oldest

(* A subscriber polls the ring.                                              *)
LEMMA PollSubscriberKeeps ==
  ASSUME RingInv, NEW s \in Subscribers, PollSubscriber(s) PROVE RingInv'
<1>1. /\ sent \in Nat /\ first \in [Subscribers -> Nat \cup {Absent}]
      /\ cursor \in [Subscribers -> Int] /\ heard \in [Subscribers -> Seq(Item)]
      /\ first[s] # Absent /\ Accepted /\ Counted(first[s], heard[s], cursor[s])
      /\ UNCHANGED <<invocation, sent, senders, first>>
  BY DEF RingInv, RingTyped, Exact, PollSubscriber, pull, ring
<1>2. Oldest \in Int
  BY <1>1, OldestTyped DEF RingInv
<1>3. PICK item \in Item, to \in Int :
        /\ heard' = [heard EXCEPT ![s] = Append(@, item)]
        /\ cursor' = [cursor EXCEPT ![s] = to]
        /\ item.kind = "event" => item.n = cursor[s]
        /\ to = cursor[s] + Advance(item)
        /\ item.kind = "end" => to = sent /\ senders = {}
  <2>1. CASE cursor[s] < Oldest /\ Hear(s, [kind |-> "lagged", n |-> Skipped(s)])
             /\ cursor' = [cursor EXCEPT ![s] = Oldest]
    <3>1. PICK item : item = [kind |-> "lagged", n |-> Skipped(s)]
      OBVIOUS
    <3>2. item \in Item /\ item.kind = "lagged" /\ item.n = Oldest - cursor[s]
      BY <1>1, <1>2, <3>1 DEF Item, Skipped
    <3>3. Advance(item) = item.n
      BY <3>2 DEF Advance
    <3>4. Oldest = cursor[s] + Advance(item)
      BY <1>1, <1>2, <3>2, <3>3
    <3>5. heard' = [heard EXCEPT ![s] = Append(@, item)]
      BY <2>1, <3>1 DEF Hear
    <3> QED BY <1>2, <2>1, <3>2, <3>4, <3>5
  <2>2. CASE Hear(s, [kind |-> "event", n |-> cursor[s]])
             /\ cursor' = [cursor EXCEPT ![s] = @ + 1]
    <3>1. PICK item : item = [kind |-> "event", n |-> cursor[s]]
      OBVIOUS
    <3>2. item \in Item /\ item.kind = "event" /\ item.n = cursor[s]
      BY <1>1, <3>1 DEF Item
    <3>3. Advance(item) = 1
      BY <3>2 DEF Advance
    <3>4. cursor[s] + 1 \in Int /\ cursor' = [cursor EXCEPT ![s] = cursor[s] + 1]
      BY <1>1, <2>2
    <3>5. heard' = [heard EXCEPT ![s] = Append(@, item)]
      BY <2>2, <3>1 DEF Hear
    <3> QED BY <3>2, <3>3, <3>4, <3>5
  <2>3. CASE cursor[s] = sent /\ senders = {} /\ Hear(s, [kind |-> "end", n |-> 0])
             /\ UNCHANGED cursor
    <3>1. PICK item : item = [kind |-> "end", n |-> 0]
      OBVIOUS
    <3>2. item \in Item /\ item.kind = "end"
      BY <3>1 DEF Item
    <3>3. Advance(item) = 0
      BY <3>2 DEF Advance
    <3>4. /\ cursor[s] \in Int /\ cursor' = [cursor EXCEPT ![s] = cursor[s]]
          /\ cursor[s] = cursor[s] + 0
      BY <1>1, <2>3
    <3>5. heard' = [heard EXCEPT ![s] = Append(@, item)]
      BY <2>3, <3>1 DEF Hear
    <3> QED BY <2>3, <3>2, <3>3, <3>4, <3>5
  <2> QED BY <2>1, <2>2, <2>3 DEF PollSubscriber
<1>4. PICK told \in Seq(Item) : told = Append(heard[s], item)
  BY <1>1, EndedAppend
<1>5. /\ heard'[s] = told /\ cursor'[s] = to /\ first'[s] = first[s]
      /\ \A t \in Subscribers \ {s} : heard'[t] = heard[t] /\ cursor'[t] = cursor[t]
  BY <1>1, <1>3, <1>4
<1>6. RingTyped'
  BY <1>1, <1>3, <1>4 DEF RingTyped
<1>7. Counted(first[s], told, to)
  BY <1>1, <1>3, <1>4, CountedAppend
<1>8. Exact'
  <2> SUFFICES ASSUME NEW t \in Subscribers
               PROVE  /\ first'[t] = Absent => heard'[t] = <<>>
                      /\ first'[t] # Absent =>
                           Accepted /\ Counted(first'[t], heard'[t], cursor'[t])
    BY DEF Exact
  <2>1. CASE t = s
    BY <1>1, <1>5, <1>7, <2>1
  <2>2. CASE t # s
    BY <1>1, <1>5, <2>2 DEF RingInv, Exact
  <2> QED BY <2>1, <2>2
<1>9. Closed'
  <2>1. ASSUME NEW t \in Subscribers, Ended(t)' PROVE cursor'[t] = sent' /\ senders' = {}
    <3>1. CASE t = s
      <4>1. told # <<>> /\ told[Len(told)] = item
        BY <1>1, <1>4, EndedAppend
      <4>2. item.kind = "end"
        BY <1>5, <2>1, <3>1, <4>1 DEF Ended
      <4> QED BY <1>1, <1>3, <1>5, <3>1, <4>2
    <3>2. CASE t # s
      <4>1. Ended(t)
        BY <1>5, <2>1, <3>2 DEF Ended
      <4> QED BY <1>1, <1>5, <3>2, <4>1 DEF RingInv, Closed
    <3> QED BY <3>1, <3>2
  <2> QED BY <1>1, <2>1 DEF RingInv, Closed
<1> QED BY <1>6, <1>8, <1>9 DEF RingInv

LEMMA SubscribeKeeps ==
  ASSUME RingInv, NEW s \in Subscribers, Subscribe(s) PROVE RingInv'
<1>1. /\ sent \in Nat /\ first \in [Subscribers -> Nat \cup {Absent}]
      /\ cursor \in [Subscribers -> Int] /\ heard \in [Subscribers -> Seq(Item)]
      /\ Accepted /\ heard[s] = <<>> /\ "factory" \in senders
      /\ first' = [first EXCEPT ![s] = sent] /\ cursor' = [cursor EXCEPT ![s] = sent]
      /\ UNCHANGED <<invocation, sent, senders, heard>>
  BY DEF RingInv, RingTyped, Exact, Subscribe, pull, ring
<1>2. /\ first'[s] = sent /\ cursor'[s] = sent
      /\ \A t \in Subscribers \ {s} : first'[t] = first[t] /\ cursor'[t] = cursor[t]
  BY <1>1
<1>3. RingTyped'
  BY <1>1 DEF RingTyped
<1>4. Counted(sent, heard[s], sent)
  <2>1. Len(<<>>) = 0
    OBVIOUS
  <2>2. Position(sent, <<>>, 0) = sent
    BY PositionStart
  <2> QED BY <1>1, <2>1, <2>2 DEF Counted
<1>5. Exact'
  <2> SUFFICES ASSUME NEW t \in Subscribers
               PROVE  /\ first'[t] = Absent => heard'[t] = <<>>
                      /\ first'[t] # Absent =>
                           Accepted /\ Counted(first'[t], heard'[t], cursor'[t])
    BY DEF Exact
  <2>1. CASE t = s
    BY <1>1, <1>2, <1>4, <2>1
  <2>2. CASE t # s
    BY <1>1, <1>2, <2>2 DEF RingInv, Exact
  <2> QED BY <2>1, <2>2
<1>6. Closed'
  <2>1. ASSUME NEW t \in Subscribers, Ended(t)' PROVE FALSE
    <3>1. Ended(t)
      BY <1>1, <2>1 DEF Ended
    <3> QED BY <1>1, <3>1 DEF RingInv, Closed
  <2> QED BY <1>1, <2>1 DEF RingInv, Closed
<1> QED BY <1>3, <1>5, <1>6 DEF RingInv

(* A step that leaves the subscribers alone, and sends only while somebody can.   *)
LEMMA SendersKeep ==
  ASSUME RingInv, UNCHANGED subscription, sent' \in Nat,
         invocation' = "running" => "run" \in senders',
         senders = {} => sent' = sent /\ senders' = {}
  PROVE  RingInv'
<1>1. first' = first /\ cursor' = cursor /\ heard' = heard
  BY DEF subscription
<1>2. RingTyped'
  BY <1>1 DEF RingInv, RingTyped
<1>3. Exact'
  BY <1>1 DEF RingInv, Exact
<1>4. ASSUME NEW t \in Subscribers, Ended(t)' PROVE cursor'[t] = sent' /\ senders' = {}
  <2>1. Ended(t)
    BY <1>1, <1>4 DEF Ended
  <2> QED BY <1>1, <2>1 DEF RingInv, Closed
<1> QED BY <1>2, <1>3, <1>4 DEF RingInv, Closed

LEMMA StepRing ==
  ASSUME RingInv, [Next]_vars PROVE RingInv'
<1>0. sent \in Nat /\ (invocation = "running" => "run" \in senders)
  BY DEF RingInv, RingTyped, Closed
<1>1. CASE Poll
  <2>1. PICK batch, graph, result, yields :
          graph \in Nat /\ result \in {"running", "ok", "failed"}
          /\ PollDrives(batch, graph, result, yields)
    BY <1>1 DEF Poll
  <2>2. /\ sent' = sent + graph /\ senders' = SendersAfter(result)
        /\ invocation' = result /\ UNCHANGED subscription
    BY <2>1 DEF PollDrives
  <2>3. "run" \in senders
    BY <1>0, <1>1 DEF Poll, Driven
  <2>4. result = "running" => "run" \in senders'
    BY <2>2, <2>3 DEF SendersAfter
  <2> QED BY <1>0, <2>1, <2>2, <2>3, <2>4, SendersKeep
<1>2. CASE PollBuffered \/ PollDrained
  BY <1>0, <1>2, SendersKeep DEF PollBuffered, PollDrained, ring
<1>3. CASE DropStream
  BY <1>0, <1>3, SendersKeep DEF DropStream, SendersAfter
<1>4. CASE DropFactory
  BY <1>0, <1>4, SendersKeep DEF DropFactory, pull
<1>5. CASE \E s \in Subscribers : Subscribe(s) \/ PollSubscriber(s)
  BY <1>5, SubscribeKeeps, PollSubscriberKeeps
<1>6. CASE UNCHANGED watching
  BY <1>0, <1>6, SendersKeep DEF watching, pull, ring, subscription
<1> QED BY <1>1, <1>2, <1>3, <1>4, <1>5, <1>6, StepKinds DEF Watch

LEMMA InitRing ==
  ASSUME Init PROVE RingInv
<1>1. /\ invocation = "running" /\ senders = {"factory", "run"} /\ sent = 0
      /\ first = [s \in Subscribers |-> Absent] /\ cursor = [s \in Subscribers |-> 0]
      /\ heard = [s \in Subscribers |-> <<>>]
  BY DEF Init, WatchInit
<1>2. RingTyped
  BY <1>1, EmptySeq DEF RingTyped
<1>3. Exact
  BY <1>1 DEF Exact
<1>4. Closed
  BY <1>1 DEF Closed, Ended
<1> QED BY <1>2, <1>3, <1>4 DEF RingInv

(* A slow subscriber knows exactly what it missed, however far it falls behind and       *)
(* however large the ring is: each event it is given is the next one by its own count,    *)
(* and the stream ends at the last event sent (the doc of EventBroadcast).               *)
THEOREM LossIsExactHolds == Spec => []LossIsExact
<1>1. RingInv => LossIsExact
  <2> SUFFICES ASSUME RingInv, NEW s \in Subscribers, first[s] # Absent
               PROVE  /\ \A k \in DOMAIN heard[s] :
                           heard[s][k].kind = "event" => heard[s][k].n = Reached(s, k - 1)
                      /\ Reached(s, Len(heard[s])) = cursor[s]
                      /\ Ended(s) => cursor[s] = sent
    BY DEF LossIsExact
  <2>1. heard[s] \in Seq(Item) /\ Counted(first[s], heard[s], cursor[s])
    BY DEF RingInv, RingTyped, Exact
  <2>2. DOMAIN heard[s] = 1..Len(heard[s])
    BY <2>1
  <2>3. Ended(s) => cursor[s] = sent
    BY DEF RingInv, Closed
  <2> QED BY <2>1, <2>2, <2>3 DEF Counted, Reached
<1> QED BY <1>1, InitRing, StepRing, PTL DEF Spec

--------------------------------------------------------------------------------
(* Putting sequences one after the other.                                    *)

(* g strings the first n sequences together.                                 *)
Chained(g, n, seqs) ==
  g = [i \in 1..n |-> IF i = 1 THEN seqs[i] ELSE g[i - 1] \o seqs[i]]

(* The concatenations of the first n sequences exist, for any n.              *)
LEMMA ChainsExist ==
  ASSUME NEW n \in Nat, NEW seqs
  PROVE  \E g : Chained(g, n, seqs)
<1> DEFINE Bad == {m \in Nat : ~ \E g : Chained(g, m, seqs)}
<1> SUFFICES ASSUME Bad # {} PROVE FALSE
  OBVIOUS
<1>1. PICK m \in Bad : \A k \in Bad : m <= k
  <2>1. Bad \in SUBSET Nat
    OBVIOUS
  <2> HIDE DEF Bad
  <2> QED BY <2>1, LeastNumber
<1>2. m # 0
  <2>1. Chained([i \in 1..0 |-> seqs[i]], 0, seqs)
    BY DEF Chained
  <2> QED BY <2>1
<1>3. PICK g : Chained(g, m - 1, seqs)
  <2>1. m - 1 \in Nat /\ m - 1 \notin Bad
    BY <1>1, <1>2
  <2> QED BY <2>1
<1> DEFINE f == [i \in 1..m |-> IF i = m THEN IF m = 1 THEN seqs[m] ELSE g[m - 1] \o seqs[m]
                                ELSE g[i]]
<1>4. \A i \in 1..m : f[i] = IF i = 1 THEN seqs[i] ELSE f[i - 1] \o seqs[i]
  <2>1. \A i \in 1..(m - 1) : g[i] = IF i = 1 THEN seqs[i] ELSE g[i - 1] \o seqs[i]
    BY <1>3 DEF Chained
  <2>2. m \in Nat /\ m >= 1
    BY <1>2
  <2> SUFFICES ASSUME NEW i \in 1..m
               PROVE  f[i] = IF i = 1 THEN seqs[i] ELSE f[i - 1] \o seqs[i]
    OBVIOUS
  <2>3. CASE i = m
    <3>1. i # 1 => i - 1 \in 1..m /\ i - 1 # m
      BY <2>2, <2>3
    <3> QED BY <2>3, <3>1
  <2>4. CASE i # m
    <3>1. i \in 1..(m - 1) /\ (i # 1 => i - 1 \in 1..m /\ i - 1 # m)
      BY <2>2, <2>4
    <3> QED BY <2>1, <2>4, <3>1
  <2> QED BY <2>3, <2>4
<1>5. f = [i \in 1..m |-> IF i = 1 THEN seqs[i] ELSE f[i - 1] \o seqs[i]]
  <2>1. f = [i \in 1..m |-> f[i]]
    OBVIOUS
  <2> HIDE DEF f
  <2> QED BY <1>4, <2>1
<1>6. Chained(f, m, seqs)
  BY <1>5 DEF Chained
<1> QED BY <1>6

(* A chain is longer by one sequence.                                         *)
LEMMA ChainsAgree ==
  ASSUME NEW n \in Nat, NEW s, NEW t, NEW g, NEW h, Chained(g, n, s), Chained(h, n + 1, t),
         \A i \in 1..n : s[i] = t[i]
  PROVE  \A i \in 1..n : g[i] = h[i]
<1> DEFINE Bad == {i \in 1..n : g[i] # h[i]}
<1> SUFFICES ASSUME Bad # {} PROVE FALSE
  OBVIOUS
<1>1. PICK m \in Bad : \A k \in Bad : m <= k
  <2>1. Bad \in SUBSET Nat
    OBVIOUS
  <2> HIDE DEF Bad
  <2> QED BY <2>1, LeastNumber
<1>2. /\ \A i \in 1..n : g[i] = IF i = 1 THEN s[i] ELSE g[i - 1] \o s[i]
      /\ \A i \in 1..(n + 1) : h[i] = IF i = 1 THEN t[i] ELSE h[i - 1] \o t[i]
  BY DEF Chained
<1>3. m \in 1..n /\ m \in 1..(n + 1) /\ s[m] = t[m] /\ g[m] # h[m]
  BY <1>1
<1>4. CASE m = 1
  BY <1>2, <1>3, <1>4
<1>5. CASE m # 1
  <2>1. m - 1 \in 1..n /\ m - 1 \notin Bad
    BY <1>1, <1>3, <1>5
  <2>2. g[m - 1] = h[m - 1]
    BY <2>1
  <2> QED BY <2>2, <1>2, <1>3, <1>5
<1> QED BY <1>4, <1>5

(* A tuple of length n, whatever it holds.                                    *)
Tuple(s, n) == s = [i \in 1..n |-> s[i]]

(* A chain of functions is what FlattenSeq makes.                              *)
LEMMA FlattenIsChain ==
  ASSUME NEW n \in Nat, n # 0, NEW s, Tuple(s, n)
  PROVE  \E g : Chained(g, n, s) /\ FlattenSeq(s) = g[n]
<1> DEFINE chain == CHOOSE g : g = [i \in 1..n |-> IF i = 1 THEN s[i] ELSE g[i - 1] \o s[i]]
<1>1. Chained(chain, n, s)
  BY ChainsExist DEF Chained
<1>2. Len(s) = n
  BY DEF Tuple
<1>3. FlattenSeq(s) = chain[n]
  BY <1>2 DEF FlattenSeq
<1> HIDE DEF chain
<1> QED BY <1>1, <1>3

(* Nothing put together is nothing.                                            *)
LEMMA FlattenNone == FlattenSeq(<<>>) = <<>>
<1>1. Len(<<>>) = 0
  OBVIOUS
<1> QED BY <1>1 DEF FlattenSeq

(* One sequence more comes last.                                             *)
LEMMA FlattenMore ==
  ASSUME NEW n \in Nat, NEW s, NEW t, Tuple(s, n), Tuple(t, n + 1),
         \A i \in 1..n : s[i] = t[i], IsSeq(t[n + 1])
  PROVE  FlattenSeq(t) = FlattenSeq(s) \o t[n + 1]
<1>1. PICK h : Chained(h, n + 1, t) /\ FlattenSeq(t) = h[n + 1]
  <2>1. n + 1 \in Nat /\ n + 1 # 0
    OBVIOUS
  <2> QED BY <2>1, FlattenIsChain
<1>2. \A i \in 1..(n + 1) : h[i] = IF i = 1 THEN t[i] ELSE h[i - 1] \o t[i]
  BY <1>1 DEF Chained
<1>3. CASE n = 0
  <2>1. h[1] = t[1] /\ t[n + 1] = t[1] /\ h[n + 1] = h[1]
    BY <1>2, <1>3
  <2>2. s = <<>>
    BY <1>3 DEF Tuple
  <2>3. FlattenSeq(s) = <<>>
    BY <2>2, FlattenNone
  <2>4. <<>> \o t[n + 1] = t[n + 1]
    BY JoinedSeq
  <2> QED BY <1>1, <2>1, <2>3, <2>4
<1>4. CASE n # 0
  <2>1. PICK g : Chained(g, n, s) /\ FlattenSeq(s) = g[n]
    BY <1>4, FlattenIsChain
  <2>2. g[n] = h[n]
    <3>1. n \in 1..n
      BY <1>4
    <3>2. Chained(g, n, s) /\ Chained(h, n + 1, t)
      BY <2>1, <1>1
    <3>3. \A i \in 1..n : g[i] = h[i]
      <4>1. n \in Nat /\ \A i \in 1..n : s[i] = t[i]
        OBVIOUS
      <4>2. Chained(g, n, s)
        BY <3>2
      <4>3. Chained(h, n + 1, t)
        BY <3>2
      <4> QED BY <4>1, <4>2, <4>3, ChainsAgree, SMTT(30)
    <3> QED BY <3>1, <3>3
  <2>3. h[n + 1] = h[n] \o t[n + 1]
    <3>1. PICK m : m = n + 1
      OBVIOUS
    <3>2. m \in 1..(n + 1) /\ m # 1 /\ m - 1 = n
      BY <3>1, <1>4
    <3>3. h[m] = h[m - 1] \o t[m]
      BY <3>2, <1>2
    <3> QED BY <3>1, <3>2, <3>3
  <2> QED BY <1>1, <2>1, <2>2, <2>3
<1> QED BY <1>3, <1>4

(* What is made of sequences is one.                                         *)
LEMMA FlattenSeqs ==
  ASSUME NEW S, NEW n \in Nat, NEW s \in [1..n -> Seq(S)]
  PROVE  FlattenSeq(s) \in Seq(S)
<1>1. Tuple(s, n)
  BY DEF Tuple
<1>2. CASE n = 0
  <2>1. s = <<>>
    BY <1>2
  <2>2. FlattenSeq(s) = <<>>
    BY <2>1, FlattenNone
  <2> QED BY <2>2, EmptySeq
<1>3. CASE n # 0
  <2>1. PICK g : Chained(g, n, s) /\ FlattenSeq(s) = g[n]
    BY <1>1, <1>3, FlattenIsChain
  <2>2. \A i \in 1..n : g[i] = IF i = 1 THEN s[i] ELSE g[i - 1] \o s[i]
    BY <2>1 DEF Chained
  <2> DEFINE Bad == {i \in 1..n : g[i] \notin Seq(S)}
  <2>3. Bad = {}
    <3> SUFFICES ASSUME Bad # {} PROVE FALSE
      OBVIOUS
    <3>1. PICK m \in Bad : \A k \in Bad : m <= k
      <4>1. Bad \in SUBSET Nat
        OBVIOUS
      <4> HIDE DEF Bad
      <4> QED BY <4>1, LeastNumber
    <3>2. m \in 1..n /\ g[m] \notin Seq(S) /\ s[m] \in Seq(S)
      BY <3>1
    <3>3. CASE m = 1
      BY <3>2, <3>3, <2>2
    <3>4. CASE m # 1
      <4>1. m - 1 \in 1..n /\ m - 1 \notin Bad
        BY <3>1, <3>2, <3>4
      <4>2. g[m - 1] \in Seq(S)
        BY <4>1
      <4>3. g[m] = g[m - 1] \o s[m]
        BY <2>2, <3>2, <3>4
      <4> QED BY <4>2, <4>3, <3>2, ConcatProperties
    <3> QED BY <3>3, <3>4
  <2>4. n \in 1..n /\ n \notin Bad
    BY <1>3, <2>3
  <2> QED BY <2>1, <2>4
<1> QED BY <1>2, <1>3

--------------------------------------------------------------------------------
(* What the provider's text becomes on its way to the collector.              *)

EventKinds == {"started", "text", "tool", "usage", "finished"}

(* An event of a chat stream: text and arguments are sequences.                 *)
Speaks(e) ==
  /\ e.kind \in EventKinds
  /\ e.kind = "text" => IsSeq(e.text)
  /\ e.kind = "tool" => IsSeq(e.args)

Events(s) == IsSeq(s) /\ \A k \in 1..Len(s) : Speaks(s[k])

(* A sequence with one more, and with one less.                               *)
LEMMA SeqMore ==
  ASSUME NEW s, NEW e, IsSeq(s)
  PROVE  /\ IsSeq(Append(s, e)) /\ Len(Append(s, e)) = Len(s) + 1 /\ Len(s) \in Nat
         /\ \A k \in 1..(Len(s) + 1) : Append(s, e)[k] = IF k = Len(s) + 1 THEN e ELSE s[k]
         /\ Append(s, e) = s \o <<e>>
<1>1. PICK S : s \in Seq(S)
  BY DEF IsSeq
<1>2. s \in Seq(S \cup {e}) /\ e \in S \cup {e}
  BY <1>1
<1>3. /\ Append(s, e) \in Seq(S \cup {e}) /\ Len(Append(s, e)) = Len(s) + 1 /\ Len(s) \in Nat
      /\ \A k \in 1..Len(s) : Append(s, e)[k] = s[k]
      /\ Append(s, e)[Len(s) + 1] = e
  BY <1>2, AppendProperties
<1>4. Append(s, e) = s \o <<e>>
  BY <1>2, AppendIsConcat
<1>5. \A k \in 1..(Len(s) + 1) : k = Len(s) + 1 \/ k \in 1..Len(s)
  BY <1>3
<1> QED BY <1>3, <1>4, <1>5 DEF IsSeq

(* The head of a sequence, and what follows it.                                *)
LEMMA SeqLess ==
  ASSUME NEW s, IsSeq(s), s # <<>>
  PROVE  /\ IsSeq(Tail(s)) /\ Len(Tail(s)) = Len(s) - 1 /\ Len(s) \in Nat \ {0}
         /\ \A k \in 1..(Len(s) - 1) : Tail(s)[k] = s[k + 1]
         /\ Head(s) = s[1]
<1>1. PICK S : s \in Seq(S)
  BY DEF IsSeq
<1>2. /\ Tail(s) \in Seq(S) /\ Len(Tail(s)) = Len(s) - 1 /\ Len(s) \in Nat \ {0}
      /\ \A k \in 1..Len(Tail(s)) : Tail(s)[k] = s[k + 1]
      /\ Head(s) = s[1]
  BY <1>1, HeadTailProperties, EmptySeq
<1> QED BY <1>2 DEF IsSeq

(* An event more.                                                              *)
LEMMA EventsMore ==
  ASSUME NEW s, NEW e, Events(s), Speaks(e)
  PROVE  Events(Append(s, e))
<1>1. PICK t : t = Append(s, e)
  OBVIOUS
<1>2. /\ IsSeq(t) /\ Len(t) = Len(s) + 1 /\ Len(s) \in Nat
      /\ \A k \in 1..(Len(s) + 1) : t[k] = IF k = Len(s) + 1 THEN e ELSE s[k]
  BY <1>1, SeqMore DEF Events
<1>3. \A k \in 1..Len(t) : Speaks(t[k])
  <2> SUFFICES ASSUME NEW k \in 1..Len(t) PROVE Speaks(t[k])
    OBVIOUS
  <2>1. CASE k = Len(s) + 1
    BY <2>1, <1>2
  <2>2. CASE k # Len(s) + 1
    <3>1. k \in 1..Len(s) /\ t[k] = s[k]
      BY <2>2, <1>2
    <3> QED BY <3>1 DEF Events
  <2> QED BY <2>1, <2>2
<1> QED BY <1>1, <1>2, <1>3 DEF Events

(* An event less.                                                              *)
LEMMA EventsLess ==
  ASSUME NEW s, Events(s), s # <<>>
  PROVE  Events(Tail(s)) /\ Speaks(Head(s))
<1>1. PICK t : t = Tail(s)
  OBVIOUS
<1>2. /\ IsSeq(t) /\ Len(t) = Len(s) - 1 /\ Len(s) \in Nat \ {0}
      /\ \A k \in 1..(Len(s) - 1) : t[k] = s[k + 1]
      /\ Head(s) = s[1]
  BY <1>1, SeqLess DEF Events
<1>3. \A k \in 1..Len(t) : Speaks(t[k])
  <2> SUFFICES ASSUME NEW k \in 1..Len(t) PROVE Speaks(t[k])
    OBVIOUS
  <2>1. k + 1 \in 1..Len(s) /\ t[k] = s[k + 1]
    BY <1>2
  <2> QED BY <2>1 DEF Events
<1>4. 1 \in 1..Len(s)
  BY <1>2
<1> QED BY <1>1, <1>2, <1>3, <1>4 DEF Events

(* No event at all.                                                            *)
LEMMA NoEvents == Events(<<>>)
<1>1. IsSeq(<<>>) /\ Len(<<>>) = 0
  <2>1. <<>> \in Seq({})
    OBVIOUS
  <2> QED BY <2>1 DEF IsSeq
<1> QED BY <1>1 DEF Events

--------------------------------------------------------------------------------
(* The decoder.                                                             *)

DecoderFields ==
  {"calls", "argument_bytes", "response_id", "model", "finish", "pending", "done", "ok"}

Decodes(d) == DOMAIN d = DecoderFields /\ Events(d.pending)

(* A refused chunk leaves a decoder.                                           *)
LEMMA InvalidDecodes ==
  ASSUME NEW d, Decodes(d) PROVE Decodes(Invalid(d)) /\ ~ Invalid(d).ok
BY DEF Decodes, Invalid, DecoderFields

(* A queued event leaves a decoder.                                            *)
LEMMA EmitDecodes ==
  ASSUME NEW d, NEW e, Decodes(d), Speaks(e) PROVE Decodes(Emit(d, e))
<1>1. PICK s : s = Append(d.pending, e)
  OBVIOUS
<1>2. Events(s)
  BY <1>1, EventsMore DEF Decodes
<1>3. Emit(d, e) = [d EXCEPT !.pending = s]
  BY <1>1 DEF Emit
<1> QED BY <1>2, <1>3 DEF Decodes, DecoderFields

(* A fragment of a call leaves a decoder.                                      *)
LEMMA ToolDecodes ==
  ASSUME NEW d, NEW tool, Decodes(d), IsSeq(tool.args) PROVE Decodes(Tool(d, tool))
<1>1. CASE ~d.ok \/ ~FragmentFits(d, tool)
  BY <1>1, InvalidDecodes DEF Tool
<1>2. CASE ~(~d.ok \/ ~FragmentFits(d, tool))
  <2>1. Speaks(FragmentDelta(d, tool))
    BY DEF FragmentDelta, ToolDelta, Speaks, EventKinds
  <2>2. PICK e : e = Emit(d, FragmentDelta(d, tool))
    OBVIOUS
  <2>3. Decodes(e)
    BY <2>1, <2>2, EmitDecodes
  <2>4. \E a, b : Tool(d, tool) = [e EXCEPT !.argument_bytes = a, !.calls = b]
    BY <1>2, <2>2 DEF Tool
  <2> QED BY <2>3, <2>4 DEF Decodes, DecoderFields
<1> QED BY <1>1, <1>2

(* The fragments of a choice, one after the other.                            *)
ToolsTaken(f, d, tools, n) ==
  f = [k \in 0..n |-> IF k = 0 THEN d ELSE Tool(f[k - 1], tools[k])]

(* The decoders after each fragment of a choice exist.                         *)
LEMMA ToolsExist ==
  ASSUME NEW d, NEW tools
  PROVE  \A n \in Nat : \E f : ToolsTaken(f, d, tools, n)
<1> DEFINE Bad == {n \in Nat : ~ \E f : ToolsTaken(f, d, tools, n)}
<1> SUFFICES ASSUME Bad # {} PROVE FALSE
  OBVIOUS
<1>1. PICK m \in Bad : \A k \in Bad : m <= k
  BY LeastNumber
<1>2. m # 0
  <2>1. ToolsTaken([i \in 0..0 |-> d], d, tools, 0)
    BY DEF ToolsTaken
  <2> QED BY <2>1
<1>3. PICK g : ToolsTaken(g, d, tools, m - 1)
  <2>1. m - 1 \in Nat /\ m - 1 \notin Bad
    BY <1>1, <1>2
  <2> QED BY <2>1
<1>4. PICK last : last = Tool(g[m - 1], tools[m])
  OBVIOUS
<1> DEFINE f == [i \in 0..m |-> IF i = m THEN last ELSE g[i]]
<1>5. \A i \in 0..m : f[i] = IF i = 0 THEN d ELSE Tool(f[i - 1], tools[i])
  <2>1. \A i \in 0..(m - 1) : g[i] = IF i = 0 THEN d ELSE Tool(g[i - 1], tools[i])
    BY <1>3 DEF ToolsTaken
  <2>2. m \in Nat /\ m >= 1
    BY <1>2
  <2> SUFFICES ASSUME NEW i \in 0..m
               PROVE  f[i] = IF i = 0 THEN d ELSE Tool(f[i - 1], tools[i])
    OBVIOUS
  <2>3. CASE i = m
    <3>1. i # 0 /\ i - 1 \in 0..m /\ i - 1 # m
      BY <2>2, <2>3
    <3>2. f[i - 1] = g[m - 1] /\ f[i] = last
      BY <2>3, <3>1
    <3> QED BY <3>1, <3>2, <2>3, <1>4
  <2>4. CASE i # m
    <3>1. i \in 0..(m - 1) /\ (i # 0 => i - 1 \in 0..m /\ i - 1 # m)
      BY <2>2, <2>4
    <3> QED BY <2>1, <2>4, <3>1
  <2> QED BY <2>3, <2>4
<1>6. f = [i \in 0..m |-> IF i = 0 THEN d ELSE Tool(f[i - 1], tools[i])]
  <2>1. f = [i \in 0..m |-> f[i]]
    OBVIOUS
  <2> HIDE DEF f
  <2> QED BY <1>5, <2>1
<1>7. ToolsTaken(f, d, tools, m)
  BY <1>6 DEF ToolsTaken
<1> QED BY <1>7

(* What Choice makes of its fragments, if they are not too many.               *)
Called(d, choice) ==
  LET spoken == IF choice.text = <<>> THEN d ELSE Emit(d, TextDelta(choice.text))
      after[n \in 0..Len(choice.tools)] ==
        IF n = 0 THEN spoken ELSE Tool(after[n - 1], choice.tools[n])
  IN  after[Len(choice.tools)]

Spoken(d, choice) == IF choice.text = <<>> THEN d ELSE Emit(d, TextDelta(choice.text))

(* The decoder after all fragments is one of them.                             *)
LEMMA CalledIs ==
  ASSUME NEW d, NEW choice, Len(choice.tools) \in Nat
  PROVE  \E f : /\ ToolsTaken(f, Spoken(d, choice), choice.tools, Len(choice.tools))
                /\ Called(d, choice) = f[Len(choice.tools)]
<1> DEFINE f == CHOOSE after : after =
     [n \in 0..Len(choice.tools) |->
        IF n = 0 THEN Spoken(d, choice) ELSE Tool(after[n - 1], choice.tools[n])]
<1>1. ToolsTaken(f, Spoken(d, choice), choice.tools, Len(choice.tools))
  BY ToolsExist DEF ToolsTaken
<1>2. Called(d, choice) = f[Len(choice.tools)]
  BY DEF Called, Spoken
<1> HIDE DEF f
<1> QED BY <1>1, <1>2

(* The fragments of a choice leave a decoder.                                  *)
LEMMA CalledDecodes ==
  ASSUME NEW d, NEW choice, Decodes(d), IsSeq(choice.text), IsSeq(choice.tools),
         \A j \in 1..Len(choice.tools) : IsSeq(choice.tools[j].args)
  PROVE  Decodes(Called(d, choice)) /\ Decodes(Spoken(d, choice))
<1>1. PICK n \in Nat : n = Len(choice.tools)
  BY DEF IsSeq
<1>2. PICK f : ToolsTaken(f, Spoken(d, choice), choice.tools, n) /\ Called(d, choice) = f[n]
  BY <1>1, CalledIs
<1>3. \A k \in 0..n : f[k] = IF k = 0 THEN Spoken(d, choice) ELSE Tool(f[k - 1], choice.tools[k])
  BY <1>2 DEF ToolsTaken
<1>4. Decodes(Spoken(d, choice))
  <2>1. Speaks(TextDelta(choice.text))
    BY DEF TextDelta, Speaks, EventKinds
  <2> QED BY <2>1, EmitDecodes DEF Spoken
<1> DEFINE Bad == {k \in 0..n : ~Decodes(f[k])}
<1>5. Bad = {}
  <2> SUFFICES ASSUME Bad # {} PROVE FALSE
    OBVIOUS
  <2>1. PICK m \in Bad : \A k \in Bad : m <= k
    <3>1. Bad \in SUBSET Nat
      OBVIOUS
    <3> HIDE DEF Bad
    <3> QED BY <3>1, LeastNumber
  <2>2. m \in 0..n /\ ~Decodes(f[m])
    BY <2>1
  <2>3. m # 0
    BY <2>2, <1>3, <1>4
  <2>4. m - 1 \in 0..n /\ m - 1 \notin Bad /\ m \in 1..n
    BY <2>1, <2>2, <2>3
  <2>5. Decodes(f[m - 1]) /\ IsSeq(choice.tools[m].args)
    BY <2>4, <1>1
  <2>6. f[m] = Tool(f[m - 1], choice.tools[m])
    BY <2>2, <2>3, <1>3
  <2> QED BY <2>2, <2>5, <2>6, ToolDecodes
<1>6. n \in 0..n /\ n \notin Bad
  BY <1>5
<1> QED BY <1>2, <1>4, <1>6

(* Data that can be told.                                                    *)
Tells(data) ==
  \/ data \in {DONE, Garbled}
  \/ /\ IsSeq(data.choices)
     /\ \A k \in 1..Len(data.choices) :
          /\ IsSeq(data.choices[k].text) /\ IsSeq(data.choices[k].tools)
          /\ \A j \in 1..Len(data.choices[k].tools) : IsSeq(data.choices[k].tools[j].args)

(* A choice leaves a decoder.                                                  *)
LEMMA ChoiceDecodes ==
  ASSUME NEW d, NEW choice, Decodes(d), IsSeq(choice.text), IsSeq(choice.tools),
         \A j \in 1..Len(choice.tools) : IsSeq(choice.tools[j].args)
  PROVE  Decodes(Choice(d, choice))
<1>1. Decodes(Called(d, choice)) /\ Decodes(Spoken(d, choice))
  BY CalledDecodes
<1>2. PICK called : called = IF Len(choice.tools) > MaxToolCalls THEN Invalid(Spoken(d, choice))
                             ELSE Called(d, choice)
  OBVIOUS
<1>3. Decodes(called)
  BY <1>1, <1>2, InvalidDecodes
<1>4. Choice(d, choice) =
        IF d.finish # None \/ ~choice.plain \/ d.response_id = None \/ d.model = None
        THEN Invalid(d)
        ELSE IF choice.finish = None \/ ~called.ok THEN called
        ELSE IF ReasonFits(called, choice.finish)
        THEN [called EXCEPT !.finish = choice.finish] ELSE Invalid(called)
  BY <1>2 DEF Choice, Called, Spoken
<1>5. Decodes([called EXCEPT !.finish = choice.finish])
  BY <1>3 DEF Decodes, DecoderFields
<1> QED BY <1>3, <1>4, <1>5, InvalidDecodes

(* The data of an event leaves a decoder (Decoder::push).                      *)
LEMMA PushDataDecodes ==
  ASSUME NEW d, NEW data, Decodes(d), Tells(data)
  PROVE  Decodes(PushData(d, data))
<1>1. Decodes(Invalid(d))
  BY InvalidDecodes
<1>2. DONE # Garbled
  BY DEF DONE, Garbled
<1>3. CASE data = DONE
  <2>1. Speaks(Started(d.response_id, d.model)) /\ Speaks(Finished(d.finish))
    BY DEF Started, Finished, Speaks, EventKinds
  <2>2. PICK e : e = Emit(Emit(d, Started(d.response_id, d.model)), Finished(d.finish))
    OBVIOUS
  <2>3. Decodes(e)
    BY <2>1, <2>2, EmitDecodes
  <2>4. Decodes([e EXCEPT !.finish = None, !.response_id = None, !.model = None, !.calls = <<>>,
                          !.done = TRUE])
    BY <2>3 DEF Decodes, DecoderFields
  <2>5. Decodes(FinishDecoding(d))
    BY <1>1, <2>2, <2>4 DEF FinishDecoding
  <2> QED BY <1>2, <1>3, <2>5 DEF PushData
<1>4. CASE data = Garbled
  BY <1>1, <1>2, <1>4 DEF PushData
<1>5. CASE data \notin {DONE, Garbled}
  <2>1. PICK known : known = Identity(d, data)
    OBVIOUS
  <2>2. Decodes(known)
    <3>1. \A a, b : Decodes([d EXCEPT !.response_id = a, !.model = b])
      BY DEF Decodes, DecoderFields
    <3> QED BY <2>1, <3>1, <1>1 DEF Identity
  <2>3. PICK chosen : chosen = IF data.choices # <<>> THEN Choice(known, data.choices[1]) ELSE known
    OBVIOUS
  <2>4. Decodes(chosen)
    <3>1. CASE data.choices # <<>>
      <4>1. IsSeq(data.choices)
        BY <1>5 DEF Tells
      <4>2. 1 \in 1..Len(data.choices)
        BY <4>1, <3>1, SeqLess
      <4>3. PICK c : c = data.choices[1]
        OBVIOUS
      <4>4. /\ IsSeq(c.text) /\ IsSeq(c.tools)
            /\ \A j \in 1..Len(c.tools) : IsSeq(c.tools[j].args)
        BY <1>5, <4>2, <4>3 DEF Tells
      <4> QED BY <2>2, <2>3, <3>1, <4>3, <4>4, ChoiceDecodes
    <3> QED BY <3>1, <2>2, <2>3
  <2>5. Speaks(Usage(Retained(data.usage)))
    BY DEF Usage, Speaks, EventKinds
  <2>6. PushValue(d, data) \in {Invalid(d), chosen, Emit(chosen, Usage(Retained(data.usage)))}
    BY <2>1, <2>3 DEF PushValue
  <2>7. Decodes(PushValue(d, data))
    BY <1>1, <2>4, <2>5, <2>6, EmitDecodes
  <2> QED BY <1>5, <2>7 DEF PushData
<1> QED BY <1>3, <1>4, <1>5

--------------------------------------------------------------------------------
(* The framer.                                                              *)

(* Bytes of the wire: a line of data tells something.                          *)
Symbol(b) == b.line = "data" => Tells(b.data)
Symbols(s) == IsSeq(s) /\ \A k \in 1..Len(s) : Symbol(s[k])
DataLines(s) == IsSeq(s) /\ \A k \in 1..Len(s) : Tells(s[k].data)

FramerFields == {"line", "data", "event", "after_cr", "size"}

Frames(f) == DOMAIN f = FramerFields /\ Symbols(f.line) /\ DataLines(f.data)

(* A framer may hold no line.                                                  *)
LEMMA NoLines == Symbols(<<>>) /\ DataLines(<<>>)
BY NoEvents DEF Symbols, DataLines, Events

(* A line more.                                                                *)
LEMMA LinesMore ==
  ASSUME NEW s, NEW b
  PROVE  /\ Symbols(s) /\ Symbol(b) => Symbols(Append(s, b))
         /\ DataLines(s) /\ Tells(b.data) => DataLines(Append(s, b))
<1>1. PICK t : t = Append(s, b)
  OBVIOUS
<1>2. ASSUME IsSeq(s)
      PROVE  /\ IsSeq(t) /\ Len(t) = Len(s) + 1 /\ Len(s) \in Nat
             /\ \A k \in 1..Len(t) : (k \in 1..Len(s) /\ t[k] = s[k]) \/ t[k] = b
  <2>1. /\ IsSeq(t) /\ Len(t) = Len(s) + 1 /\ Len(s) \in Nat
        /\ \A k \in 1..(Len(s) + 1) : t[k] = IF k = Len(s) + 1 THEN b ELSE s[k]
    BY <1>1, <1>2, SeqMore
  <2> QED BY <2>1
<1>3. ASSUME Symbols(s), Symbol(b) PROVE Symbols(t)
  <2>1. IsSeq(s)
    BY <1>3 DEF Symbols
  <2> QED BY <2>1, <1>2, <1>3 DEF Symbols
<1>4. ASSUME DataLines(s), Tells(b.data) PROVE DataLines(t)
  <2>1. IsSeq(s)
    BY <1>4 DEF DataLines
  <2> QED BY <2>1, <1>2, <1>4 DEF DataLines
<1> QED BY <1>1, <1>3, <1>4

(* The lines of one event, joined, tell something.                             *)
LEMMA JoinedTells ==
  ASSUME NEW s, DataLines(s), s # <<>>
  PROVE  Tells(Joined(s))
<1>1. 1 \in 1..Len(s)
  BY SeqLess DEF DataLines
<1>2. Tells(s[1].data) /\ Tells(Garbled)
  BY <1>1 DEF DataLines, Tells
<1> QED BY <1>2 DEF Joined

(* A byte leaves the framer as it has to be, and ends an event that tells.       *)
LEMMA PushByteFrames ==
  ASSUME NEW f, NEW b, Frames(f), Symbol(b)
  PROVE  /\ Frames(PushByte(f, b).framer)
         /\ PushByte(f, b).data = None \/ Tells(PushByte(f, b).data)
<1> DEFINE Good(p) == Frames(p.framer) /\ (p.data = None \/ Tells(p.data))
<1>1. \A g : Frames(g) => Good(Framed(g)) /\ Good(Unframed(g))
  BY DEF Framed, Unframed
<1>2. CASE f.after_cr /\ b = LF
  <2>1. Frames([f EXCEPT !.after_cr = FALSE])
    BY DEF Frames, FramerFields
  <2> QED BY <2>1, <1>1, <1>2 DEF PushByte
<1>3. CASE ~ (f.after_cr /\ b = LF)
  <2>1. PICK g : g = [f EXCEPT !.after_cr = (b = CR), !.size = @ + 1]
    OBVIOUS
  <2>2. Frames(g)
    BY <2>1 DEF Frames, FramerFields
  <2>3. PICK l : l = Append(g.line, b)
    OBVIOUS
  <2>4. Frames([g EXCEPT !.line = l])
    <3>1. Symbols(l)
      BY <2>2, <2>3, LinesMore DEF Frames
    <3> QED BY <2>2, <3>1 DEF Frames, FramerFields
  <2>5. Good(DispatchEvent(g))
    <3>1. Frames([g EXCEPT !.size = 0, !.event = "", !.data = <<>>])
      BY <2>2, NoLines DEF Frames, FramerFields
    <3>2. g.data # <<>> => Tells(Joined(g.data))
      BY <2>2, JoinedTells DEF Frames
    <3> QED BY <3>1, <3>2, <2>2, <1>1 DEF DispatchEvent
  <2>6. ASSUME g.line # <<>> PROVE Frames(FieldOf(g))
    <3>1. 1 \in 1..Len(g.line)
      BY <2>2, <2>6, SeqLess DEF Frames, Symbols
    <3>2. PICK text : text = g.line[1]
      OBVIOUS
    <3>3. Symbol(text)
      BY <3>1, <3>2, <2>2 DEF Frames, Symbols
    <3>4. PICK read : read = [g EXCEPT !.line = <<>>]
      OBVIOUS
    <3>5. Frames(read)
      BY <3>4, <2>2, NoLines DEF Frames, FramerFields
    <3>6. PICK more : more = Append(read.data, text)
      OBVIOUS
    <3>7. text.line = "data" => DataLines(more)
      BY <3>3, <3>5, <3>6, LinesMore DEF Frames, Symbol
    <3>8. text.line = "data" => Frames([read EXCEPT !.data = more])
      BY <3>7, <3>5 DEF Frames, FramerFields
    <3>9. Frames([read EXCEPT !.event = text.type])
      BY <3>5 DEF Frames, FramerFields
    <3>10. FieldOf(g) = CASE text.line = "data" -> [read EXCEPT !.data = more]
                          [] text.line = "event" -> [read EXCEPT !.event = text.type]
                          [] OTHER -> read
      BY <3>2, <3>4, <3>6 DEF FieldOf
    <3> QED BY <3>5, <3>8, <3>9, <3>10
  <2>7. PushByte(f, b) =
          IF g.size > MaxSseEvent THEN Unframed(g)
          ELSE IF b \notin {CR, LF} THEN Framed([g EXCEPT !.line = l])
          ELSE IF g.line = <<>> THEN DispatchEvent(g) ELSE Framed(FieldOf(g))
    BY <1>3, <2>1, <2>3 DEF PushByte, PushCounted
  <2> HIDE DEF Good
  <2>8. Good(PushByte(f, b))
    BY <2>2, <2>4, <2>5, <2>6, <2>7, <1>1
  <2> QED BY <2>8 DEF Good
<1> QED BY <1>2, <1>3

--------------------------------------------------------------------------------
(* The stream the node reads.                                               *)

StreamFields == {"request", "response", "bytes", "framer", "decoder"}
GenaiFields == {"pending", "saw_start", "saw_end", "terminal", "reasoning"}

Source ==
  IF Native
  THEN /\ DOMAIN raw = StreamFields /\ Symbols(wire) /\ Symbols(raw.bytes)
       /\ Frames(raw.framer) /\ Decodes(raw.decoder)
  ELSE /\ DOMAIN raw = GenaiFields /\ Events(raw.pending)
       /\ IsSeq(wire) /\ \A k \in 1..Len(wire) : wire[k].kind = "chunk" => IsSeq(wire[k].text)

(* What the raw stream may give.                                             *)
RawItem(item) ==
  \/ item = Nothing \/ item = End \/ item.kind = "fault"
  \/ Speaks(item)

(* A part of the wire is a wire.                                               *)
LEMMA PartSymbols ==
  ASSUME NEW s, Symbols(s), NEW m \in 1..(Len(s) + 1), NEW n \in 0..Len(s)
  PROVE  Symbols(SubSeq(s, m, n))
<1>1. PICK S : s \in Seq(S)
  BY DEF Symbols, IsSeq
<1>2. PICK t : t = SubSeq(s, m, n)
  OBVIOUS
<1>3. Len(s) \in Nat
  BY <1>1
<1>4. CASE m <= n
  <2>1. /\ t \in Seq(S) /\ Len(t) = n - m + 1
        /\ \A k \in 1..(n - m + 1) : t[k] = s[m + k - 1] /\ m + k - 1 \in 1..Len(s)
    BY <1>1, <1>2, <1>3, <1>4, SubSeqProperties
  <2> QED BY <2>1, <1>2 DEF Symbols, IsSeq
<1>5. CASE m > n
  <2>1. t = <<>>
    BY <1>1, <1>2, <1>3, <1>5, SubSeqEmpty
  <2> QED BY <2>1, <1>2, NoLines
<1> QED BY <1>3, <1>4, <1>5

(* The next byte, and what follows it.                                         *)
LEMMA LessSymbols ==
  ASSUME NEW s, Symbols(s), s # <<>>
  PROVE  Symbols(Tail(s)) /\ Symbol(Head(s))
<1>1. PICK t : t = Tail(s)
  OBVIOUS
<1>2. /\ IsSeq(t) /\ Len(t) = Len(s) - 1 /\ Len(s) \in Nat \ {0}
      /\ \A k \in 1..(Len(s) - 1) : t[k] = s[k + 1]
      /\ Head(s) = s[1]
  BY <1>1, SeqLess DEF Symbols
<1>3. \A k \in 1..Len(t) : Symbol(t[k])
  <2> SUFFICES ASSUME NEW k \in 1..Len(t) PROVE Symbol(t[k])
    OBVIOUS
  <2>1. k + 1 \in 1..Len(s) /\ t[k] = s[k + 1]
    BY <1>2
  <2> QED BY <2>1 DEF Symbols
<1>4. 1 \in 1..Len(s)
  BY <1>2
<1> QED BY <1>1, <1>2, <1>3, <1>4 DEF Symbols

(* The wrapper and the node are given an item.                                *)
Delivers(item) ==
  /\ wrapper' = Wrap(wrapper, item).wrapper
  /\ Proceed(NodeTakes(Wrap(wrapper, item).item))

(* What the raw stream gives is delivered.                                     *)
LEMMA PassesDelivers ==
  ASSUME NEW result, Passes(result)
  PROVE  raw' = result.stream /\ Delivers(result.item)
BY DEF Passes, Delivers

(* What a stream gives besides events.                                         *)
LEMMA TellingItems == RawItem(Nothing) /\ RawItem(End) /\ \A by : RawItem(Fault(by))
BY DEF RawItem, Fault

(* The strict path.                                                          *)
LEMMA NativeSource ==
  ASSUME Source, Native, script' = script,
         SendRequest \/ ReceiveChunk \/ LoseConnection \/ DecodeByte \/ TakePending \/ EndOfDecoded
  PROVE  Source' /\ \E item : RawItem(item) /\ Delivers(item)
<1> DEFINE Good(r, w) == /\ DOMAIN r = StreamFields /\ Symbols(w) /\ Symbols(r.bytes)
                         /\ Frames(r.framer) /\ Decodes(r.decoder)
<1>1. Good(raw, wire)
  BY DEF Source
<1>2. Good(raw', wire') => Source'
  BY DEF Source, Native
<1>3. CASE SendRequest
  <2>1. PICK ok \in BOOLEAN :
          Passes([stream |-> [raw EXCEPT !.request = FALSE, !.response = ok],
                  item |-> IF ok THEN Nothing ELSE Fault("stream")])
    BY <1>3 DEF SendRequest
  <2>2. /\ raw' = [raw EXCEPT !.request = FALSE, !.response = ok]
        /\ Delivers(IF ok THEN Nothing ELSE Fault("stream"))
    BY <2>1, PassesDelivers
  <2>3. Good(raw', wire')
    BY <1>1, <1>3, <2>2 DEF SendRequest, StreamFields
  <2>4. RawItem(IF ok THEN Nothing ELSE Fault("stream"))
    BY TellingItems
  <2> HIDE DEF Good
  <2> QED BY <1>2, <2>2, <2>3, <2>4
<1>4. CASE ReceiveChunk
  <2>1. PICK n \in 1..MaxChunk :
          /\ n <= Len(wire)
          /\ Passes([stream |-> [raw EXCEPT !.bytes = SubSeq(wire, 1, n)], item |-> Nothing])
          /\ wire' = SubSeq(wire, n + 1, Len(wire))
    BY <1>4 DEF ReceiveChunk
  <2>2. raw' = [raw EXCEPT !.bytes = SubSeq(wire, 1, n)] /\ Delivers(Nothing)
    BY <2>1, PassesDelivers
  <2>3. Symbols(SubSeq(wire, 1, n)) /\ Symbols(SubSeq(wire, n + 1, Len(wire)))
    <3>1. Len(wire) \in Nat
      BY <1>1 DEF Symbols, IsSeq
    <3>2. /\ 1 \in 1..(Len(wire) + 1) /\ n \in 0..Len(wire)
          /\ n + 1 \in 1..(Len(wire) + 1) /\ Len(wire) \in 0..Len(wire)
      BY <3>1, <2>1
    <3> QED BY <3>2, <1>1, PartSymbols
  <2>4. Good(raw', wire')
    BY <1>1, <2>1, <2>2, <2>3 DEF StreamFields
  <2> HIDE DEF Good
  <2> QED BY <1>2, <2>2, <2>4, TellingItems
<1>5. CASE LoseConnection
  <2>1. raw' = raw /\ Delivers(Fault("stream")) /\ wire' = wire
    BY <1>5, PassesDelivers DEF LoseConnection, CutResult
  <2>2. Good(raw', wire')
    BY <1>1, <2>1
  <2> HIDE DEF Good
  <2> QED BY <1>2, <2>1, <2>2, TellingItems
<1>6. CASE DecodeByte
  <2>1. PICK framed : framed = PushByte(raw.framer, Head(raw.bytes))
    OBVIOUS
  <2>2. PICK decoder : decoder = DecodedWith(raw, framed)
    OBVIOUS
  <2>3. /\ raw' = ReadByte(raw, framed, decoder).stream
        /\ Delivers(ReadByte(raw, framed, decoder).item)
        /\ wire' = wire /\ HasByte(raw)
    BY <1>6, <2>1, <2>2, PassesDelivers DEF DecodeByte
  <2>4. raw.bytes # <<>> /\ Symbols(Tail(raw.bytes)) /\ Symbol(Head(raw.bytes))
    BY <1>1, <2>3, LessSymbols DEF HasByte
  <2>5. Frames(framed.framer) /\ (framed.data = None \/ Tells(framed.data))
    BY <1>1, <2>1, <2>4, PushByteFrames
  <2>6. Decodes(decoder)
    BY <1>1, <2>2, <2>5, PushDataDecodes DEF DecodedWith
  <2>7. PICK bytes : bytes = IF decoder.done THEN <<>> ELSE Tail(raw.bytes)
    OBVIOUS
  <2>8. Symbols(bytes)
    BY <2>4, <2>7, NoLines
  <2>9. raw' = [raw EXCEPT !.bytes = bytes, !.response = @ /\ ~decoder.done,
                           !.framer = framed.framer, !.decoder = decoder]
    BY <2>3, <2>7 DEF ReadByte
  <2>10. Good(raw', wire')
    BY <1>1, <2>3, <2>5, <2>6, <2>8, <2>9 DEF StreamFields
  <2>11. RawItem(ReadByte(raw, framed, decoder).item)
    BY TellingItems DEF ReadByte
  <2> HIDE DEF Good
  <2> QED BY <1>2, <2>3, <2>10, <2>11
<1>7. CASE TakePending
  <2>1. /\ raw' = [raw EXCEPT !.decoder.pending = Tail(@)] /\ Delivers(Head(raw.decoder.pending))
        /\ wire' = wire /\ raw.decoder.pending # <<>>
    BY <1>7, PassesDelivers DEF TakePending, PopPending, HasPending
  <2>2. Events(Tail(raw.decoder.pending)) /\ Speaks(Head(raw.decoder.pending))
    BY <1>1, <2>1, EventsLess DEF Decodes
  <2>3. PICK d : d = [raw.decoder EXCEPT !.pending = Tail(@)]
    OBVIOUS
  <2>4. Decodes(d)
    BY <1>1, <2>2, <2>3 DEF Decodes, DecoderFields
  <2>5. raw' = [raw EXCEPT !.decoder = d]
    BY <2>1, <2>3, <1>1 DEF StreamFields
  <2>6. Good(raw', wire')
    BY <1>1, <2>1, <2>4, <2>5 DEF StreamFields
  <2> HIDE DEF Good
  <2> QED BY <1>2, <2>1, <2>2, <2>6 DEF RawItem
<1>8. CASE EndOfDecoded
  <2>1. raw' = raw /\ Delivers(End) /\ wire' = wire
    BY <1>8, PassesDelivers DEF EndOfDecoded
  <2>2. Good(raw', wire')
    BY <1>1, <2>1
  <2> HIDE DEF Good
  <2> QED BY <1>2, <2>1, <2>2, TellingItems
<1> QED BY <1>3, <1>4, <1>5, <1>6, <1>7, <1>8

(* Short sequences.                                                          *)
LEMMA PairIs ==
  ASSUME NEW a, NEW b PROVE <<a>> \o <<b>> = <<a, b>>
<1>1. <<a>> \in Seq({a, b}) /\ <<a, b>> \in Seq({a, b}) /\ b \in {a, b}
  OBVIOUS
<1>2. PICK t : t = Append(<<a>>, b)
  OBVIOUS
<1>3. t = <<a>> \o <<b>>
  BY <1>1, <1>2, AppendIsConcat
<1>4. /\ t \in Seq({a, b}) /\ Len(t) = Len(<<a>>) + 1 /\ t[Len(<<a>>) + 1] = b
      /\ \A k \in 1..Len(<<a>>) : t[k] = <<a>>[k]
  BY <1>1, <1>2, AppendProperties
<1>5. Len(<<a>>) = 1 /\ Len(<<a, b>>) = 2
  OBVIOUS
<1>6. \A k \in 1..2 : t[k] = <<a, b>>[k]
  BY <1>4, <1>5
<1>7. t = <<a, b>>
  BY <1>1, <1>4, <1>5, <1>6, SeqEqual
<1> QED BY <1>3, <1>7

(* Three in a row.                                                             *)
LEMMA TripleIs ==
  ASSUME NEW a, NEW b, NEW c PROVE <<a, b>> \o <<c>> = <<a, b, c>>
<1>1. <<a, b>> \in Seq({a, b, c}) /\ <<a, b, c>> \in Seq({a, b, c}) /\ c \in {a, b, c}
  OBVIOUS
<1>2. PICK t : t = Append(<<a, b>>, c)
  OBVIOUS
<1>3. t = <<a, b>> \o <<c>>
  BY <1>1, <1>2, AppendIsConcat
<1>4. /\ t \in Seq({a, b, c}) /\ Len(t) = Len(<<a, b>>) + 1 /\ t[Len(<<a, b>>) + 1] = c
      /\ \A k \in 1..Len(<<a, b>>) : t[k] = <<a, b>>[k]
  BY <1>1, <1>2, AppendProperties
<1>5. Len(<<a, b>>) = 2 /\ Len(<<a, b, c>>) = 3
  OBVIOUS
<1>6. \A k \in 1..3 : t[k] = <<a, b, c>>[k]
  BY <1>4, <1>5
<1>7. t = <<a, b, c>>
  BY <1>1, <1>4, <1>5, <1>6, SeqEqual
<1> QED BY <1>3, <1>7

(* The text-only path.                                                       *)
GenaiGood(r) == DOMAIN r = GenaiFields /\ Events(r.pending)

(* The events that close a response (handle_end).                              *)
LEMMA ClosingSpeaks ==
  ASSUME NEW end PROVE Events(ClosingEvents(end)) /\ ClosingEvents(end) # <<>>
<1>1. /\ Speaks(Started(end.id, ResolvedModel)) /\ Speaks(Usage(Retained(end.usage)))
      /\ Speaks(Finished(end.reason))
  BY DEF Speaks, EventKinds, Started, Usage, Finished
<1>2. PICK a, b, c : /\ a = Started(end.id, ResolvedModel) /\ b = Usage(Retained(end.usage))
                     /\ c = Finished(end.reason)
  OBVIOUS
<1>3. ClosingEvents(end) \in {<<a, b, c>>, <<a, c>>}
  <2>1. <<a>> \o <<>> = <<a>>
    OBVIOUS
  <2>2. <<a>> \o <<b>> = <<a, b>> /\ <<a>> \o <<c>> = <<a, c>>
    BY PairIs
  <2>3. <<a, b>> \o <<c>> = <<a, b, c>>
    BY TripleIs
  <2>4. ClosingEvents(end) = (<<a>> \o (IF Reports(end.usage) THEN <<b>> ELSE <<>>)) \o <<c>>
    BY <1>2 DEF ClosingEvents
  <2> QED BY <2>1, <2>2, <2>3, <2>4
<1>4. /\ <<a, b, c>> \in Seq({a, b, c}) /\ Len(<<a, b, c>>) = 3
      /\ <<a, c>> \in Seq({a, c}) /\ Len(<<a, c>>) = 2
  OBVIOUS
<1>5. \A k \in 1..3 : Speaks(<<a, b, c>>[k])
  <2> SUFFICES ASSUME NEW k \in 1..3 PROVE Speaks(<<a, b, c>>[k])
    OBVIOUS
  <2>1. <<a, b, c>>[k] \in {a, b, c}
    OBVIOUS
  <2> QED BY <2>1, <1>1, <1>2
<1>6. \A k \in 1..2 : Speaks(<<a, c>>[k])
  <2> SUFFICES ASSUME NEW k \in 1..2 PROVE Speaks(<<a, c>>[k])
    OBVIOUS
  <2>1. <<a, c>>[k] \in {a, c}
    OBVIOUS
  <2> QED BY <2>1, <1>1, <1>2
<1>7. Events(<<a, b, c>>) /\ Events(<<a, c>>)
  BY <1>4, <1>5, <1>6 DEF Events, IsSeq
<1>8. <<a, b, c>> # <<>> /\ <<a, c>> # <<>>
  OBVIOUS
<1> QED BY <1>3, <1>7, <1>8

(* A queued event is taken.                                                    *)
LEMMA PopGood ==
  ASSUME NEW r, GenaiGood(r), r.pending # <<>>
  PROVE  GenaiGood(PopGenai(r).stream) /\ Speaks(PopGenai(r).item)
<1>1. Events(Tail(r.pending)) /\ Speaks(Head(r.pending))
  BY EventsLess DEF GenaiGood
<1> QED BY <1>1 DEF PopGenai, Yields, GenaiGood, GenaiFields

(* The stream fails.                                                           *)
LEMMA FailGood ==
  ASSUME NEW r, GenaiGood(r)
  PROVE  GenaiGood(FailGenai(r).stream) /\ RawItem(FailGenai(r).item)
BY NoEvents, TellingItems DEF FailGenai, Yields, GenaiGood, GenaiFields

(* An event of genai is mapped.                                                *)
LEMMA MapGood ==
  ASSUME NEW r, GenaiGood(r), NEW e, e.kind = "chunk" => IsSeq(e.text)
  PROVE  GenaiGood(MapGenaiEvent(r, e).stream) /\ RawItem(MapGenaiEvent(r, e).item)
<1> DEFINE Good(y) == GenaiGood(y.stream) /\ RawItem(y.item)
<1>1. Good(FailGenai(r))
  BY FailGood
<1>2. Good(Yields([r EXCEPT !.saw_start = TRUE], Nothing))
  BY TellingItems DEF Yields, GenaiGood, GenaiFields
<1>3. e.kind = "chunk" => Good(Yields(r, TextDelta(e.text)))
  BY DEF Yields, RawItem, Speaks, EventKinds, TextDelta
<1>4. Good(Yields(PushReasoning(r, e.text), Nothing))
  <2>1. GenaiGood(PushReasoning(r, e.text))
    BY DEF PushReasoning, GenaiGood, GenaiFields
  <2> QED BY <2>1, TellingItems DEF Yields
<1>5. Good(PopGenai([r EXCEPT !.pending = ClosingEvents(e), !.saw_end = TRUE, !.reasoning = <<>>]))
  <2>1. PICK s : s = [r EXCEPT !.pending = ClosingEvents(e), !.saw_end = TRUE, !.reasoning = <<>>]
    OBVIOUS
  <2>2. GenaiGood(s) /\ s.pending # <<>>
    BY <2>1, ClosingSpeaks DEF GenaiGood, GenaiFields
  <2> QED BY <2>1, <2>2, PopGood DEF RawItem
<1> HIDE DEF Good
<1>6. Good(MapGenaiEvent(r, e))
  BY <1>1, <1>2, <1>3, <1>4, <1>5 DEF MapGenaiEvent
<1> QED BY <1>6 DEF Good

(* A read of the text-only stream.                                             *)
LEMMA GenaiSource ==
  ASSUME Source, ~Native, script' = script, GenaiQueued \/ GenaiPolls \/ GenaiOver
  PROVE  Source' /\ \E item : RawItem(item) /\ Delivers(item)
<1> DEFINE Told(w) == IsSeq(w) /\ \A k \in 1..Len(w) : w[k].kind = "chunk" => IsSeq(w[k].text)
<1>1. GenaiGood(raw) /\ Told(wire)
  BY DEF Source, GenaiGood
<1>2. GenaiGood(raw') /\ Told(wire') => Source'
  BY DEF Source, GenaiGood, Native
<1>3. CASE GenaiQueued
  <2>1. /\ raw' = PopGenai(raw).stream /\ Delivers(PopGenai(raw).item) /\ wire' = wire
        /\ raw.pending # <<>>
    BY <1>3, PassesDelivers DEF GenaiQueued
  <2> HIDE DEF Told
  <2> QED BY <1>1, <1>2, <2>1, PopGood DEF RawItem
<1>4. CASE GenaiPolls
  <2>1. CASE /\ wire # <<>> /\ Passes(MapGenaiEvent(raw, Head(wire))) /\ wire' = Tail(wire)
    <3>1. PICK e : e = Head(wire)
      OBVIOUS
    <3>2. raw' = MapGenaiEvent(raw, e).stream /\ Delivers(MapGenaiEvent(raw, e).item)
      BY <2>1, <3>1, PassesDelivers
    <3>3. Told(wire') /\ (e.kind = "chunk" => IsSeq(e.text))
      <4>1. PICK t : t = Tail(wire)
        OBVIOUS
      <4>2. /\ IsSeq(t) /\ Len(t) = Len(wire) - 1 /\ Len(wire) \in Nat \ {0}
            /\ \A k \in 1..(Len(wire) - 1) : t[k] = wire[k + 1]
            /\ Head(wire) = wire[1]
        BY <4>1, <2>1, <1>1, SeqLess
      <4>3. 1 \in 1..Len(wire) /\ \A k \in 1..Len(t) : k + 1 \in 1..Len(wire) /\ t[k] = wire[k + 1]
        BY <4>2
      <4>4. Told(t)
        BY <4>2, <4>3, <1>1
      <4> QED BY <4>1, <4>2, <4>3, <4>4, <3>1, <2>1, <1>1
    <3> HIDE DEF Told
    <3> QED BY <1>1, <1>2, <3>2, <3>3, MapGood
  <2>2. CASE Passes(InnerEnd(raw)) /\ wire' = wire
    <3>1. raw' = InnerEnd(raw).stream /\ Delivers(InnerEnd(raw).item)
      BY <2>2, PassesDelivers
    <3>2. GenaiGood(InnerEnd(raw).stream) /\ RawItem(InnerEnd(raw).item)
      <4>1. GenaiGood([raw EXCEPT !.terminal = TRUE])
        BY <1>1 DEF GenaiGood, GenaiFields
      <4> QED BY <4>1, <1>1, FailGood, TellingItems DEF InnerEnd, Yields
    <3> HIDE DEF Told
    <3> QED BY <1>1, <1>2, <3>1, <3>2, <2>2
  <2>3. CASE Passes(InnerFault(raw)) /\ wire' = wire
    <3>1. raw' = InnerFault(raw).stream /\ Delivers(InnerFault(raw).item)
      BY <2>3, PassesDelivers
    <3>2. GenaiGood(InnerFault(raw).stream) /\ RawItem(InnerFault(raw).item)
      BY <1>1, TellingItems DEF InnerFault, Yields, GenaiGood, GenaiFields
    <3> HIDE DEF Told
    <3> QED BY <1>1, <1>2, <3>1, <3>2, <2>3
  <2> QED BY <1>4, <2>1, <2>2, <2>3 DEF GenaiPolls
<1>5. CASE GenaiOver
  <2>1. raw' = raw /\ Delivers(End) /\ wire' = wire
    BY <1>5, PassesDelivers DEF GenaiOver
  <2> HIDE DEF Told
  <2> QED BY <1>1, <1>2, <2>1, TellingItems
<1> QED BY <1>3, <1>4, <1>5

(* Every read of the stream.                                                  *)
Reads ==
  \/ SendRequest \/ ReceiveChunk \/ LoseConnection \/ DecodeByte \/ TakePending \/ EndOfDecoded
  \/ GenaiQueued \/ GenaiPolls \/ GenaiOver

(* A read gives the wrapper one item, and leaves a stream to read.             *)
LEMMA ReadSource ==
  ASSUME Source, Reads
  PROVE  Source' /\ script' = script /\ Reading /\ \E item : RawItem(item) /\ Delivers(item)
<1>1. CASE SendRequest \/ ReceiveChunk \/ LoseConnection \/ DecodeByte \/ TakePending \/ EndOfDecoded
  <2>1. script' = script /\ Native /\ Reading
    BY <1>1 DEF SendRequest, ReceiveChunk, LoseConnection, DecodeByte, TakePending, EndOfDecoded
  <2> QED BY <1>1, <2>1, NativeSource
<1>2. CASE GenaiQueued \/ GenaiPolls \/ GenaiOver
  <2>1. script' = script /\ ~Native /\ Reading
    BY <1>2 DEF GenaiQueued, GenaiPolls, GenaiOver
  <2> QED BY <1>2, <2>1, GenaiSource
<1> QED BY <1>1, <1>2 DEF Reads

--------------------------------------------------------------------------------
(* The deltas shown.                                                        *)

TextOf(e) == IF e.kind = "text" THEN e.text ELSE <<>>
ArgsOf(index, e) == IF e.kind = "tool" /\ e.index = index THEN e.args ELSE <<>>

TextShown(s) == FlattenSeq([k \in DOMAIN s |-> TextOf(s[k])])
ArgsShown(index, s) == FlattenSeq([k \in DOMAIN s |-> ArgsOf(index, s[k])])

(* What may be shown.                                                        *)
Shows(e) == (e.kind = "text" => IsSeq(e.text)) /\ (e.kind = "tool" => IsSeq(e.args))
Emission(s) == IsSeq(s) /\ \A k \in 1..Len(s) : Shows(s[k])

(* The empty sequence is one.                                                  *)
LEMMA NilSeq == IsSeq(<<>>)
BY NoEvents DEF Events

(* One item more, and what it brings comes last.                               *)
LEMMA ShownMore ==
  ASSUME NEW s, NEW e, Emission(s), Shows(e)
  PROVE  /\ Emission(s \o <<e>>)
         /\ TextShown(s \o <<e>>) = TextShown(s) \o TextOf(e)
         /\ \A i : ArgsShown(i, s \o <<e>>) = ArgsShown(i, s) \o ArgsOf(i, e)
<1>1. PICK t : t = s \o <<e>>
  OBVIOUS
<1>2. PICK n \in Nat : n = Len(s)
  BY DEF Emission, IsSeq
<1>3. /\ IsSeq(t) /\ Len(t) = n + 1 /\ \A k \in 1..(n + 1) : t[k] = IF k = n + 1 THEN e ELSE s[k]
  <2>1. t = Append(s, e) /\ IsSeq(s)
    BY <1>1, SeqMore DEF Emission
  <2> QED BY <2>1, <1>2, SeqMore
<1>4. DOMAIN s = 1..n /\ DOMAIN t = 1..(n + 1) /\ t[n + 1] = e /\ \A k \in 1..n : t[k] = s[k]
  <2>1. DOMAIN s = 1..n /\ DOMAIN t = 1..(n + 1)
    BY <1>2, <1>3 DEF Emission, IsSeq
  <2> QED BY <2>1, <1>3
<1>5. Emission(t)
  <2>1. \A k \in 1..(n + 1) : k = n + 1 \/ k \in 1..n
    OBVIOUS
  <2> QED BY <2>1, <1>2, <1>3, <1>4 DEF Emission
<1>6. TextShown(t) = TextShown(s) \o TextOf(e)
  <2>1. PICK a, b : /\ a = [k \in 1..n |-> TextOf(s[k])] /\ b = [k \in 1..(n + 1) |-> TextOf(t[k])]
    OBVIOUS
  <2>2. Tuple(a, n) /\ Tuple(b, n + 1) /\ b[n + 1] = TextOf(e) /\ \A k \in 1..n : a[k] = b[k]
    <3>1. n + 1 \in 1..(n + 1)
      OBVIOUS
    <3> QED BY <2>1, <3>1, <1>4 DEF Tuple
  <2>3. IsSeq(b[n + 1])
    BY <2>2, NilSeq DEF TextOf, Shows
  <2>4. FlattenSeq(b) = FlattenSeq(a) \o b[n + 1]
    BY <2>2, <2>3, FlattenMore
  <2> QED BY <2>1, <2>2, <2>4, <1>4 DEF TextShown
<1>7. ASSUME NEW i PROVE ArgsShown(i, t) = ArgsShown(i, s) \o ArgsOf(i, e)
  <2>1. PICK a, b : /\ a = [k \in 1..n |-> ArgsOf(i, s[k])]
                    /\ b = [k \in 1..(n + 1) |-> ArgsOf(i, t[k])]
    OBVIOUS
  <2>2. Tuple(a, n) /\ Tuple(b, n + 1) /\ b[n + 1] = ArgsOf(i, e) /\ \A k \in 1..n : a[k] = b[k]
    <3>1. n + 1 \in 1..(n + 1)
      OBVIOUS
    <3> QED BY <2>1, <3>1, <1>4 DEF Tuple
  <2>3. IsSeq(b[n + 1])
    BY <2>2, NilSeq DEF ArgsOf, Shows
  <2>4. FlattenSeq(b) = FlattenSeq(a) \o b[n + 1]
    BY <2>2, <2>3, FlattenMore
  <2> QED BY <2>1, <2>2, <2>4, <1>4 DEF ArgsShown
<1> QED BY <1>1, <1>5, <1>6, <1>7

(* All that is shown is a sequence.                                            *)
LEMMA NothingShown ==
  Emission(<<>>) /\ TextShown(<<>>) = <<>> /\ \A i : ArgsShown(i, <<>>) = <<>>
<1>1. Emission(<<>>)
  BY NoEvents DEF Emission, Events
<1>2. \A f : [k \in DOMAIN <<>> |-> f[k]] = <<>>
  OBVIOUS
<1>3. [k \in DOMAIN <<>> |-> TextOf(<<>>[k])] = <<>>
  OBVIOUS
<1>4. \A i : [k \in DOMAIN <<>> |-> ArgsOf(i, <<>>[k])] = <<>>
  OBVIOUS
<1> QED BY <1>1, <1>3, <1>4, FlattenNone DEF TextShown, ArgsShown

--------------------------------------------------------------------------------
(* The collector.                                                           *)

CollectorFields == {"state", "started", "id", "model", "text", "calls", "usage", "reason"}

Collected(c) ==
  /\ DOMAIN c = CollectorFields /\ IsSeq(c.text)
  /\ \A i \in DOMAIN c.calls : IsSeq(c.calls[i].args)

CallArgs(c, i) == IF i \in DOMAIN c.calls THEN c.calls[i].args ELSE <<>>

(* What an event adds to a collector.                                          *)
LEMMA CollectAdds ==
  ASSUME NEW c, NEW e, Collected(c), Speaks(e)
  PROVE  /\ Collected(Collect(c, e))
         /\ Collect(c, e).text = c.text \o TextOf(e)
         /\ \A i : CallArgs(Collect(c, e), i) = CallArgs(c, i) \o ArgsOf(i, e)
<1>1. c.text \o <<>> = c.text /\ \A i : CallArgs(c, i) \o <<>> = CallArgs(c, i)
  <2>1. \A i : IsSeq(CallArgs(c, i))
    BY NilSeq DEF CallArgs, Collected
  <2> QED BY <2>1, JoinedSeq DEF Collected
<1>2. PICK d : d = Collect(c, e)
  OBVIOUS
<1>3. CASE e.kind \in {"started", "usage", "finished"}
  <2>1. d.text = c.text /\ d.calls = c.calls /\ DOMAIN d = CollectorFields
    <3>1. CASE e.kind = "started"
      BY <3>1, <1>2 DEF Collect, Collected, CollectorFields
    <3>2. CASE e.kind = "usage"
      <4>1. \E u : d = [c EXCEPT !.usage = u]
        BY <3>2, <1>2 DEF Collect
      <4> QED BY <4>1 DEF Collected, CollectorFields
    <3>3. CASE e.kind = "finished"
      BY <3>3, <1>2 DEF Collect, Collected, CollectorFields
    <3> QED BY <3>1, <3>2, <3>3, <1>3
  <2>2. TextOf(e) = <<>> /\ \A i : ArgsOf(i, e) = <<>>
    BY <1>3 DEF TextOf, ArgsOf
  <2> QED BY <1>1, <1>2, <2>1, <2>2 DEF Collected, CallArgs
<1>4. CASE e.kind = "text"
  <2>1. PICK t : t = c.text \o e.text
    OBVIOUS
  <2>2. d = [c EXCEPT !.text = t]
    BY <1>2, <1>4, <2>1 DEF Collect
  <2>3. IsSeq(t)
    BY <1>4, <2>1, JoinedSeq DEF Speaks, Collected
  <2>4. TextOf(e) = e.text /\ \A i : ArgsOf(i, e) = <<>>
    BY <1>4 DEF TextOf, ArgsOf
  <2>5. d.text = t /\ d.calls = c.calls /\ DOMAIN d = CollectorFields
    BY <2>2 DEF Collected, CollectorFields
  <2> QED BY <1>1, <1>2, <2>1, <2>3, <2>4, <2>5 DEF Collected, CallArgs
<1>5. CASE e.kind = "tool"
  <2>1. PICK call : call = CallAt(c, e.index)
    OBVIOUS
  <2>2. call.args = CallArgs(c, e.index)
    BY <2>1 DEF CallAt, CallArgs
  <2>3. PICK t : t = call.args \o e.args
    OBVIOUS
  <2>4. IsSeq(t)
    <3>1. IsSeq(CallArgs(c, e.index))
      BY NilSeq DEF CallArgs, Collected
    <3> QED BY <3>1, <2>2, <2>3, <1>5, JoinedSeq DEF Speaks
  <2>5. PICK grown : /\ grown = [id |-> IF e.id # None THEN e.id ELSE call.id,
                                 name |-> IF e.name # None THEN e.name ELSE call.name,
                                 args |-> t]
    OBVIOUS
  <2>6. PICK calls : calls = [i \in DOMAIN c.calls \cup {e.index} |->
                                IF i = e.index THEN grown ELSE c.calls[i]]
    OBVIOUS
  <2>7. d = [c EXCEPT !.calls = calls]
    BY <1>2, <1>5, <2>1, <2>3, <2>5, <2>6 DEF Collect, WithToolDelta
  <2>8. d.text = c.text /\ d.calls = calls /\ DOMAIN d = CollectorFields
    BY <2>7 DEF Collected, CollectorFields
  <2>9. Collected(d)
    <3> SUFFICES ASSUME NEW i \in DOMAIN calls PROVE IsSeq(calls[i].args)
      BY <2>8 DEF Collected
    <3>1. CASE i = e.index
      BY <3>1, <2>4, <2>5, <2>6
    <3>2. CASE i # e.index
      BY <3>2, <2>6 DEF Collected
    <3> QED BY <3>1, <3>2
  <2>10. ASSUME NEW i PROVE CallArgs(d, i) = CallArgs(c, i) \o ArgsOf(i, e)
    <3>1. CASE i = e.index
      <4>1. CallArgs(d, i) = t
        BY <3>1, <2>5, <2>6, <2>8 DEF CallArgs
      <4>2. ArgsOf(i, e) = e.args
        BY <3>1, <1>5 DEF ArgsOf
      <4> QED BY <4>1, <4>2, <2>2, <2>3, <3>1
    <3>2. CASE i # e.index
      <4>1. CallArgs(d, i) = CallArgs(c, i)
        BY <3>2, <2>6, <2>8 DEF CallArgs
      <4>2. ArgsOf(i, e) = <<>>
        BY <3>2 DEF ArgsOf
      <4> QED BY <4>1, <4>2, <1>1
    <3> QED BY <3>1, <3>2
  <2>11. TextOf(e) = <<>>
    BY <1>5 DEF TextOf
  <2> QED BY <1>1, <1>2, <2>8, <2>9, <2>10, <2>11
<1> QED BY <1>3, <1>4, <1>5 DEF Speaks, EventKinds

(* A new collector has collected nothing.                                      *)
LEMMA NewCollected ==
  Collected(NewCollector) /\ NewCollector.text = <<>> /\ \A i : CallArgs(NewCollector, i) = <<>>
<1>1. DOMAIN <<>> = {}
  OBVIOUS
<1> QED BY <1>1, NilSeq DEF NewCollector, Collected, CollectorFields, CallArgs

--------------------------------------------------------------------------------
(* The model node.                                                          *)

NodeFields == {"phase", "collector", "failure", "response"}

(* What is shown adds up to what is collected.                                 *)
NodeInv ==
  /\ DOMAIN node = NodeFields /\ Collected(node.collector) /\ Emission(emitted)
  /\ TextShown(emitted) = node.collector.text
  /\ \A i : ArgsShown(i, emitted) = CallArgs(node.collector, i)

(* What the node can do with an item.                                         *)
Takes(x) ==
  \/ node.phase' = "failed"
  \/ x = Nothing /\ node.phase' = node.phase /\ node.collector' = node.collector
  \/ /\ x = End /\ node.collector.state = "finished" /\ node.phase' = "completed"
     /\ node.collector' = node.collector /\ node.response' = Response(node.collector)
  \/ /\ Speaks(x) /\ Collects(node.collector, x) /\ node.phase' = node.phase
     /\ node.collector' = Collect(node.collector, x)

(* Emitting an item that says nothing changes no sum.                          *)
LEMMA SilentShown ==
  ASSUME NEW s, NEW e, Emission(s), e.kind \notin {"text", "tool"},
         NEW c, Collected(c), TextShown(s) = c.text, \A i : ArgsShown(i, s) = CallArgs(c, i)
  PROVE  /\ Emission(s \o <<e>>) /\ TextShown(s \o <<e>>) = c.text
         /\ \A i : ArgsShown(i, s \o <<e>>) = CallArgs(c, i)
<1>1. Shows(e) /\ TextOf(e) = <<>> /\ \A i : ArgsOf(i, e) = <<>>
  BY DEF Shows, TextOf, ArgsOf
<1>2. c.text \o <<>> = c.text
  BY JoinedSeq DEF Collected
<1>3. \A i : CallArgs(c, i) \o <<>> = CallArgs(c, i)
  <2>1. \A i : IsSeq(CallArgs(c, i))
    BY NilSeq DEF CallArgs, Collected
  <2> QED BY <2>1, JoinedSeq
<1>4. /\ Emission(s \o <<e>>) /\ TextShown(s \o <<e>>) = TextShown(s) \o TextOf(e)
      /\ \A i : ArgsShown(i, s \o <<e>>) = ArgsShown(i, s) \o ArgsOf(i, e)
  BY <1>1, ShownMore
<1> QED BY <1>1, <1>2, <1>3, <1>4

(* The node takes an item: what is shown still adds up.                        *)
LEMMA NodeStep ==
  ASSUME NodeInv, NEW x, RawItem(x), Proceed(NodeTakes(x))
  PROVE  NodeInv' /\ Takes(x)
<1>1. PICK n : n = NodeTakes(x) /\ node' = n.node /\ emitted' = emitted \o n.emits
  BY DEF Proceed, PollDrives
<1>2. emitted \o <<>> = emitted
  BY JoinedSeq DEF NodeInv, Emission
<1>3. ASSUME NEW by, n = Failing(by) PROVE NodeInv' /\ Takes(x)
  <2>1. /\ node' = [node EXCEPT !.phase = "failed", !.failure = by] /\ emitted' = emitted
    BY <1>1, <1>2, <1>3 DEF Failing
  <2>2. /\ DOMAIN node' = NodeFields /\ node.phase' = "failed"
        /\ node.collector' = node.collector
    BY <2>1 DEF NodeInv, NodeFields
  <2> QED BY <2>1, <2>2 DEF NodeInv, Takes
<1>4. CASE x = Nothing
  <2>4. x.kind # "fault" /\ x # End
    BY <1>4 DEF Nothing, End
  <2>1. n = Going(node.collector, <<>>)
    BY <1>1, <1>4, <2>4 DEF NodeTakes
  <2>2. node' = [node EXCEPT !.collector = node.collector] /\ emitted' = emitted
    BY <1>1, <1>2, <2>1 DEF Going
  <2>3. /\ DOMAIN node' = NodeFields /\ node.phase' = node.phase
        /\ node.collector' = node.collector
    BY <2>2 DEF NodeInv, NodeFields
  <2> QED BY <1>4, <2>2, <2>3 DEF NodeInv, Takes
<1>5. CASE x = End
  <2>1. x # Nothing /\ x.kind # "fault"
    BY <1>5 DEF End, Nothing
  <2>2. n = IF node.collector.state = "finished" THEN Completing ELSE Failing("collector")
    BY <1>1, <1>5, <2>1 DEF NodeTakes, End
  <2>3. CASE node.collector.state = "finished"
    <3>1. /\ node' = [node EXCEPT !.phase = "completed", !.response = Response(node.collector)]
          /\ emitted' = emitted \o <<ModelCompleted, Outcome>>
      BY <1>1, <2>2, <2>3 DEF Completing
    <3>2. /\ DOMAIN node' = NodeFields /\ node.phase' = "completed"
          /\ node.collector' = node.collector /\ node.response' = Response(node.collector)
      BY <3>1 DEF NodeInv, NodeFields
    <3>3. PICK s : s = emitted \o <<ModelCompleted>>
      OBVIOUS
    <3>4. /\ Emission(s) /\ TextShown(s) = node.collector.text
          /\ \A i : ArgsShown(i, s) = CallArgs(node.collector, i)
      BY <3>3, SilentShown DEF NodeInv, ModelCompleted
    <3>5. emitted' = s \o <<Outcome>>
      <4>1. PICK a, b : a = ModelCompleted /\ b = Outcome
        OBVIOUS
      <4>2. IsSeq(<<a>>) /\ IsSeq(<<b>>)
        <5>1. <<a>> \in Seq({a}) /\ <<b>> \in Seq({b})
          OBVIOUS
        <5> QED BY <5>1 DEF IsSeq
      <4>3. (emitted \o <<a>>) \o <<b>> = emitted \o (<<a>> \o <<b>>)
        BY <4>2, JoinedAssociates DEF NodeInv, Emission
      <4> QED BY <4>1, <4>3, <3>1, <3>3, PairIs
    <3>6. /\ Emission(emitted') /\ TextShown(emitted') = node.collector.text
          /\ \A i : ArgsShown(i, emitted') = CallArgs(node.collector, i)
      BY <3>4, <3>5, SilentShown DEF NodeInv, Outcome
    <3> QED BY <1>5, <2>3, <3>2, <3>6 DEF NodeInv, Takes
  <2>4. CASE node.collector.state # "finished"
    BY <1>3, <2>2, <2>4
  <2> QED BY <2>3, <2>4
<1>6. CASE x.kind = "fault"
  <2>1. x # Nothing
    BY <1>6 DEF Nothing
  <2>2. x # End
    BY <1>6 DEF End
  <2>3. n = Failing(x.by)
    BY <1>1, <1>6, <2>1, <2>2 DEF NodeTakes
  <2> QED BY <1>3, <2>3
<1>7. CASE Speaks(x)
  <2>1. x # Nothing /\ x # End /\ x.kind # "fault"
    BY <1>7 DEF Nothing, End, Speaks, EventKinds
  <2>2. CASE ~Collects(node.collector, x)
    <3>1. n = Failing("collector")
      BY <1>1, <2>1, <2>2 DEF NodeTakes
    <3> QED BY <1>3, <3>1
  <2>3. CASE Collects(node.collector, x)
    <3>1. PICK c : c = Collect(node.collector, x)
      OBVIOUS
    <3>2. n = Going(c, IF x.kind \in {"text", "tool"} THEN <<x>> ELSE <<>>)
      BY <1>1, <2>1, <2>3, <3>1 DEF NodeTakes
    <3>3. /\ node' = [node EXCEPT !.collector = c]
          /\ emitted' = emitted \o (IF x.kind \in {"text", "tool"} THEN <<x>> ELSE <<>>)
      BY <1>1, <3>2 DEF Going
    <3>4. /\ DOMAIN node' = NodeFields /\ node.phase' = node.phase /\ node.collector' = c
      BY <3>3 DEF NodeInv, NodeFields
    <3>5. /\ Collected(c) /\ c.text = node.collector.text \o TextOf(x)
          /\ \A i : CallArgs(c, i) = CallArgs(node.collector, i) \o ArgsOf(i, x)
      BY <1>7, <3>1, CollectAdds DEF NodeInv
    <3>6. /\ Emission(emitted') /\ TextShown(emitted') = c.text
          /\ \A i : ArgsShown(i, emitted') = CallArgs(c, i)
      <4>1. CASE x.kind \in {"text", "tool"}
        <5>1. Shows(x)
          BY <1>7 DEF Speaks, Shows
        <5>2. emitted' = emitted \o <<x>>
          BY <3>3, <4>1
        <5> QED BY <5>1, <5>2, <3>5, ShownMore DEF NodeInv
      <4>2. CASE x.kind \notin {"text", "tool"}
        <5>1. emitted' = emitted
          BY <3>3, <4>2, <1>2
        <5>2. TextOf(x) = <<>> /\ \A i : ArgsOf(i, x) = <<>>
          BY <4>2 DEF TextOf, ArgsOf
        <5>3. node.collector.text \o <<>> = node.collector.text
          BY JoinedSeq DEF NodeInv, Collected
        <5>4. \A i : CallArgs(node.collector, i) \o <<>> = CallArgs(node.collector, i)
          <6>1. \A i : IsSeq(CallArgs(node.collector, i))
            BY NilSeq DEF CallArgs, NodeInv, Collected
          <6> QED BY <6>1, JoinedSeq
        <5> QED BY <5>1, <5>2, <5>3, <5>4, <3>5 DEF NodeInv
      <4> QED BY <4>1, <4>2
    <3>7. NodeInv'
      BY <3>4, <3>5, <3>6 DEF NodeInv
    <3>8. Takes(x)
      BY <1>7, <2>3, <3>1, <3>4 DEF Takes
    <3> QED BY <3>7, <3>8
  <2> QED BY <2>2, <2>3
<1> QED BY <1>4, <1>5, <1>6, <1>7 DEF RawItem

--------------------------------------------------------------------------------
(* The wrapper.                                                             *)

WrapperFields == {"on", "open", "collector"}

(* The wrapper has collected what the node has, and at most the end more; once  *)
(* it has given the end, what it validated is what the node has.                *)
Synced ==
  /\ DOMAIN wrapper = WrapperFields /\ wrapper.on \in BOOLEAN /\ wrapper.open \in BOOLEAN
  /\ ~wrapper.on => wrapper.open
  /\ wrapper.on /\ node.phase \in {"idle", "streaming"} =>
       IF wrapper.open
       THEN \/ wrapper.collector = node.collector
            \/ wrapper.collector = Collect(node.collector, Finished(wrapper.collector.reason))
       ELSE wrapper.collector = node.collector /\ ValidResponse(Response(wrapper.collector))

Validated ==
  node.phase = "completed" =>
    /\ node.collector.state = "finished" /\ node.response = Response(node.collector)
    /\ wrapper.on => ValidResponse(node.response)

(* A read of the stream.                                                      *)
LEMMA DeliverStep ==
  ASSUME NodeInv, Synced, node.phase = "streaming", wrapper.open,
         NEW item, RawItem(item), Delivers(item)
  PROVE  NodeInv' /\ Synced' /\ Validated' /\ wrapper.on' = wrapper.on
<1>1. PICK w : w = Wrap(wrapper, item)
  OBVIOUS
<1>2. wrapper' = w.wrapper /\ Proceed(NodeTakes(w.item))
  BY <1>1 DEF Delivers
<1>4. CASE ~wrapper.on
  <2>1. wrapper' = wrapper /\ w.item = item
    BY <1>1, <1>2, <1>4 DEF Wrap
  <2>2. NodeInv' /\ Takes(item)
    BY <1>2, <2>1, NodeStep
  <2>3. Synced'
    BY <1>4, <2>1 DEF Synced
  <2>4. Validated'
    BY <1>4, <2>1, <2>2 DEF Validated, Takes
  <2> QED BY <2>1, <2>2, <2>3, <2>4
<1>5. CASE wrapper.on
  <2> DEFINE Result == NodeInv' /\ Synced' /\ Validated' /\ wrapper.on' = wrapper.on
  <2>0. \/ wrapper.collector = node.collector
        \/ wrapper.collector = Collect(node.collector, Finished(wrapper.collector.reason))
    BY <1>5 DEF Synced
  <2>1. ASSUME NEW by, w = Closing(wrapper, Fault(by)) PROVE Result
    <3>1. wrapper' = [wrapper EXCEPT !.open = FALSE] /\ w.item = Fault(by)
      BY <1>2, <2>1 DEF Closing
    <3>2. RawItem(Fault(by))
      BY TellingItems
    <3>3. NodeInv' /\ Takes(Fault(by))
      BY <1>2, <3>1, <3>2, NodeStep
    <3>4. node.phase' = "failed"
      BY <3>3 DEF Takes, Fault, Nothing, End, Speaks, EventKinds
    <3>5. DOMAIN wrapper' = WrapperFields /\ wrapper.on' = wrapper.on /\ wrapper.open' = FALSE
      BY <3>1 DEF Synced, WrapperFields
    <3>6. Synced' /\ Validated'
      BY <1>5, <3>4, <3>5 DEF Synced, Validated
    <3> QED BY <3>3, <3>5, <3>6
  <2>2. CASE item = Nothing
    <3>1. wrapper' = wrapper /\ w.item = Nothing
      BY <1>1, <1>2, <2>2 DEF Wrap
    <3>2. NodeInv' /\ Takes(Nothing)
      BY <1>2, <3>1, TellingItems, NodeStep
    <3>3. \/ node.phase' = "failed"
          \/ node.phase' = node.phase /\ node.collector' = node.collector
      BY <3>2 DEF Takes, Nothing, End, Speaks, EventKinds
    <3>4. Synced'
      BY <1>5, <2>0, <3>1, <3>3 DEF Synced
    <3>5. Validated'
      BY <3>3 DEF Validated
    <3> QED BY <3>1, <3>2, <3>4, <3>5
  <2>3. CASE item = End
    <3>1. item # Nothing /\ item.kind # "fault"
      BY <2>3 DEF Nothing, End
    <3>2. w = Closing(wrapper, IF wrapper.collector.state # "finished" THEN Fault("collector")
                              ELSE IF ValidResponse(Response(wrapper.collector))
                              THEN Finished(wrapper.collector.reason) ELSE Fault("output"))
      BY <1>1, <1>5, <2>3, <3>1 DEF Wrap
    <3>3. CASE wrapper.collector.state # "finished" \/ ~ValidResponse(Response(wrapper.collector))
      <4>1. w = Closing(wrapper, Fault("collector")) \/ w = Closing(wrapper, Fault("output"))
        BY <3>2, <3>3
      <4> QED BY <4>1, <2>1
    <3>4. CASE wrapper.collector.state = "finished" /\ ValidResponse(Response(wrapper.collector))
      <4>1. PICK r : r = wrapper.collector.reason
        OBVIOUS
      <4>2. wrapper' = [wrapper EXCEPT !.open = FALSE] /\ w.item = Finished(r)
        BY <1>2, <3>2, <3>4, <4>1 DEF Closing
      <4>3. Speaks(Finished(r))
        BY DEF Speaks, EventKinds, Finished
      <4>4. NodeInv' /\ Takes(Finished(r))
        BY <1>2, <4>2, <4>3, NodeStep DEF RawItem
      <4>5. /\ DOMAIN wrapper' = WrapperFields /\ wrapper.on' = wrapper.on /\ wrapper.open' = FALSE
            /\ wrapper.collector' = wrapper.collector
        BY <4>2 DEF Synced, WrapperFields
      <4>6. \/ node.phase' = "failed"
            \/ /\ node.phase' = node.phase /\ Collects(node.collector, Finished(r))
               /\ node.collector' = Collect(node.collector, Finished(r))
        BY <4>4 DEF Takes, Nothing, End, Finished
      <4>7. Validated'
        BY <4>6 DEF Validated
      <4>8. CASE node.phase' = "failed"
        <5>1. Synced'
          BY <1>5, <4>5, <4>8 DEF Synced
        <5> QED BY <4>4, <4>5, <4>7, <5>1
      <4>9. CASE Collects(node.collector, Finished(r))
                 /\ node.collector' = Collect(node.collector, Finished(r))
        <5>1. node.collector.state = "active"
          BY <4>9 DEF Collects
        <5>2. wrapper.collector = Collect(node.collector, Finished(r))
          BY <2>0, <3>4, <4>1, <5>1
        <5>3. wrapper.collector' = node.collector'
          BY <4>5, <4>9, <5>2
        <5>4. ValidResponse(Response(wrapper.collector))'
          BY <3>4, <4>5
        <5>5. Synced'
          BY <1>5, <4>5, <5>3, <5>4 DEF Synced
        <5> QED BY <4>4, <4>5, <4>7, <5>5
      <4> QED BY <4>6, <4>8, <4>9
    <3> QED BY <3>3, <3>4
  <2>4. CASE item.kind = "fault"
    <3>1. item # Nothing
      BY <2>4 DEF Nothing
    <3>2. w = Closing(wrapper, item)
      BY <1>1, <1>5, <2>4, <3>1 DEF Wrap
    <3>3. wrapper' = [wrapper EXCEPT !.open = FALSE] /\ w.item = item
      BY <1>2, <3>2 DEF Closing
    <3>4. NodeInv' /\ Takes(item)
      BY <1>2, <3>3, NodeStep
    <3>5. node.phase' = "failed"
      BY <2>4, <3>4 DEF Takes, Nothing, End, Speaks, EventKinds
    <3>6. DOMAIN wrapper' = WrapperFields /\ wrapper.on' = wrapper.on /\ wrapper.open' = FALSE
      BY <3>3 DEF Synced, WrapperFields
    <3>7. Synced' /\ Validated'
      BY <1>5, <3>5, <3>6 DEF Synced, Validated
    <3> QED BY <3>4, <3>6, <3>7
  <2>5. CASE Speaks(item)
    <3>1. item # Nothing /\ item # End /\ item.kind # "fault"
      BY <2>5 DEF Nothing, End, Speaks, EventKinds
    <3>2. \/ \E by : w = Closing(wrapper, Fault(by))
          \/ /\ Collects(wrapper.collector, item)
             /\ w = Wrapping(wrapper, Collect(wrapper.collector, item),
                             IF item.kind = "finished" THEN Nothing ELSE item)
      BY <1>1, <1>5, <3>1, Zenon DEF Wrap
    <3>3. CASE \E by : w = Closing(wrapper, Fault(by))
      <4>1. PICK by : w = Closing(wrapper, Fault(by))
        BY <3>3
      <4> QED BY <4>1, <2>1
    <3>4. CASE /\ Collects(wrapper.collector, item)
               /\ w = Wrapping(wrapper, Collect(wrapper.collector, item),
                               IF item.kind = "finished" THEN Nothing ELSE item)
      <4>1. wrapper.collector.state = "active"
        BY <3>4 DEF Collects
      <4>2. wrapper.collector = node.collector
        <5>1. Collected(node.collector)
          BY DEF NodeInv
        <5>2. PICK c, r : c = node.collector /\ r = wrapper.collector.reason
          OBVIOUS
        <5>3. Collect(c, Finished(r)).state = "finished"
          <6>1. Collected(c)
            BY <5>1, <5>2
          <6> QED BY <6>1 DEF Collect, Finished, Collected, CollectorFields
        <5>4. wrapper.collector = c \/ wrapper.collector = Collect(c, Finished(r))
          BY <2>0, <5>2
        <5> QED BY <4>1, <5>2, <5>3, <5>4
      <4>3. PICK c : c = Collect(node.collector, item)
        OBVIOUS
      <4>4. /\ wrapper' = [wrapper EXCEPT !.collector = c]
            /\ w.item = IF item.kind = "finished" THEN Nothing ELSE item
        BY <1>2, <3>4, <4>2, <4>3 DEF Wrapping
      <4>5. RawItem(w.item)
        BY <4>4, TellingItems
      <4>6. NodeInv' /\ Takes(w.item)
        BY <1>2, <4>5, NodeStep
      <4>7. /\ DOMAIN wrapper' = WrapperFields /\ wrapper.on' = wrapper.on
            /\ wrapper.open' = wrapper.open /\ wrapper.collector' = c
        BY <4>4 DEF Synced, WrapperFields
      <4>8. CASE item.kind = "finished"
        <5>1. \/ node.phase' = "failed"
              \/ node.phase' = node.phase /\ node.collector' = node.collector
          BY <4>4, <4>6, <4>8 DEF Takes, Nothing, End, Speaks, EventKinds
        <5>2. c = Collect(node.collector, Finished(c.reason))
          <6>1. PICK r : r = item.reason
            OBVIOUS
          <6>2. c = Collect(node.collector, Finished(r))
            BY <4>3, <4>8, <6>1 DEF Collect, Finished
          <6>4. PICK d : d = node.collector /\ Collected(d)
            BY DEF NodeInv
          <6>5. Collect(d, Finished(r)).reason = r
            <7>1. Collected(d)
              BY <6>4
            <7> QED BY <7>1 DEF Collect, Finished, Collected, CollectorFields
          <6>3. c.reason = r
            BY <6>2, <6>4, <6>5
          <6> QED BY <6>2, <6>3
        <5>3. Synced'
          BY <1>5, <4>7, <5>1, <5>2 DEF Synced
        <5>4. Validated'
          BY <5>1 DEF Validated
        <5> QED BY <4>6, <4>7, <5>3, <5>4
      <4>9. CASE item.kind # "finished"
        <5>1. \/ node.phase' = "failed"
              \/ node.phase' = node.phase /\ node.collector' = c
          BY <3>1, <4>3, <4>4, <4>6, <4>9 DEF Takes
        <5>2. Synced'
          BY <1>5, <4>7, <5>1 DEF Synced
        <5>3. Validated'
          BY <5>1 DEF Validated
        <5> QED BY <4>6, <4>7, <5>2, <5>3
      <4> QED BY <4>8, <4>9
    <3> QED BY <3>2, <3>3, <3>4
  <2> QED BY <2>2, <2>3, <2>4, <2>5 DEF RawItem
<1> QED BY <1>4, <1>5 DEF Synced

--------------------------------------------------------------------------------
(* The wire of a script.                                                    *)

(* A chunk that a script may send tells something.                             *)
LEMMA ChunkTells ==
  ASSUME NEW data, data = DONE \/ IsChunk(data) PROVE Tells(data)
<1>1. \A x : IsText(x) => IsSeq(x) /\ DOMAIN x = 1..Len(x)
  BY DEF IsText, IsSeq
<1>2. CASE IsChunk(data)
  <2>1. IsSeq(data.choices) /\ DOMAIN data.choices = 1..Len(data.choices)
    BY <1>1, <1>2 DEF IsChunk
  <2>2. ASSUME NEW k \in 1..Len(data.choices)
        PROVE  /\ IsSeq(data.choices[k].text) /\ IsSeq(data.choices[k].tools)
               /\ \A j \in 1..Len(data.choices[k].tools) : IsSeq(data.choices[k].tools[j].args)
    <3>1. PICK c : c = data.choices[k]
      OBVIOUS
    <3>2. IsText(c.text) /\ IsText(c.tools) /\ \A j \in DOMAIN c.tools : IsText(c.tools[j].args)
      BY <1>2, <2>1, <3>1 DEF IsChunk
    <3> QED BY <1>1, <3>1, <3>2
  <2> QED BY <2>1, <2>2 DEF Tells
<1> QED BY <1>2 DEF Tells

(* The symbols a script is sent as.                                           *)
Alphabet(s) ==
  {b \in {CR, LF, Comment} \cup {EventType(s.sends[k].type) : k \in DOMAIN s.sends}
         \cup {DataLine(s.sends[k].data, part) : k \in DOMAIN s.sends,
                                                 part \in {"whole", "first", "second"}} : Symbol(b)}

(* The lines of a frame are spelled in the alphabet of its script.             *)
LEMMA LinesSpelled ==
  ASSUME NEW s, NEW k \in DOMAIN s.sends, IsFrame(s.sends[k])
  PROVE  LinesOf(s.sends[k]) \in Seq(Alphabet(s))
<1>1. PICK f : f = s.sends[k]
  OBVIOUS
<1>2. PICK S : S = Alphabet(s)
  OBVIOUS
<1>3. Comment \in S /\ EventType(f.type) \in S
  BY <1>1, <1>2 DEF Alphabet, Symbol, Comment, EventType
<1>4. ASSUME f.lines # "comment", NEW part \in {"whole", "first", "second"}
      PROVE  DataLine(f.data, part) \in S
  <2>1. Tells(f.data)
    BY <1>1, <1>4, ChunkTells DEF IsFrame
  <2>2. Symbol(DataLine(f.data, part))
    BY <2>1 DEF Symbol, DataLine
  <2> QED BY <1>1, <1>2, <2>2 DEF Alphabet
<1>5. PICK e : e = IF f.type = "" THEN <<>> ELSE <<EventType(f.type)>>
  OBVIOUS
<1>6. e \in Seq(S)
  <2>1. PICK x : x = EventType(f.type)
    OBVIOUS
  <2>2. <<x>> \in Seq(S) /\ <<>> \in Seq(S)
    BY <1>3, <2>1, EmptySeq
  <2> QED BY <1>5, <2>1, <2>2
<1>7. PICK a, b, c, d : /\ a = Comment /\ b = DataLine(f.data, "whole")
                        /\ c = DataLine(f.data, "first") /\ d = DataLine(f.data, "second")
  OBVIOUS
<1>8. CASE f.lines = "comment"
  <2>1. LinesOf(f) = e \o <<a>>
    BY <1>5, <1>7, <1>8 DEF LinesOf
  <2>2. <<a>> \in Seq(S)
    BY <1>3, <1>7
  <2> QED BY <1>1, <1>2, <1>6, <2>1, <2>2, ConcatProperties
<1>9. CASE f.lines = "whole"
  <2>1. LinesOf(f) = e \o <<b>>
    BY <1>5, <1>7, <1>9 DEF LinesOf
  <2>2. <<b>> \in Seq(S)
    BY <1>4, <1>7, <1>9
  <2> QED BY <1>1, <1>2, <1>6, <2>1, <2>2, ConcatProperties
<1>10. CASE f.lines = "halves"
  <2>1. LinesOf(f) = e \o <<c, d>>
    BY <1>5, <1>7, <1>10 DEF LinesOf
  <2>2. c \in S /\ d \in S
    BY <1>4, <1>7, <1>10
  <2>3. <<c, d>> \in Seq(S)
    BY <2>2
  <2> QED BY <1>1, <1>2, <1>6, <2>1, <2>3, ConcatProperties
<1> QED BY <1>1, <1>8, <1>9, <1>10 DEF IsFrame

(* So is the whole frame.                                                      *)
LEMMA RenderedSpelled ==
  ASSUME NEW s, NEW k \in DOMAIN s.sends, IsFrame(s.sends[k]),
         NEW eol \in {<<CR, LF>>, <<CR>>, <<LF>>}
  PROVE  Rendered(s.sends[k], eol) \in Seq(Alphabet(s))
<1>1. PICK f : f = s.sends[k]
  OBVIOUS
<1>2. PICK S : S = Alphabet(s)
  OBVIOUS
<1>3. CR \in S /\ LF \in S
  BY <1>2 DEF Alphabet, Symbol, CR, LF
<1>4. eol \in Seq(S)
  <2>1. PICK cr, lf : cr = CR /\ lf = LF
    OBVIOUS
  <2>2. <<cr, lf>> \in Seq(S) /\ <<cr>> \in Seq(S) /\ <<lf>> \in Seq(S)
    BY <1>3, <2>1
  <2> QED BY <2>1, <2>2
<1>5. PICK lines : lines = LinesOf(f)
  OBVIOUS
<1>6. lines \in Seq(S)
  BY <1>1, <1>2, <1>5, LinesSpelled
<1>7. PICK n \in Nat : n = Len(lines) /\ DOMAIN lines = 1..n
  BY <1>6
<1>8. PICK ended : ended = [i \in 1..n |-> <<lines[i]>> \o eol]
  OBVIOUS
<1>9. ended \in [1..n -> Seq(S)]
  <2> SUFFICES ASSUME NEW i \in 1..n PROVE <<lines[i]>> \o eol \in Seq(S)
    BY <1>8
  <2>1. PICK x \in S : x = lines[i]
    BY <1>6, <1>7
  <2>2. <<x>> \in Seq(S)
    OBVIOUS
  <2> QED BY <1>4, <2>1, <2>2, ConcatProperties
<1>10. FlattenSeq(ended) \in Seq(S)
  BY <1>9, FlattenSeqs
<1>11. Rendered(f, eol) = FlattenSeq(ended) \o eol
  BY <1>5, <1>7, <1>8 DEF Rendered
<1> QED BY <1>1, <1>2, <1>4, <1>10, <1>11, ConcatProperties

(* So is all that is sent.                                                     *)
LEMMA WireSymbols ==
  ASSUME NEW s \in Scripts, s.policy = "OpenAiChat"
  PROVE  Symbols(WireOf(s))
<1>1. /\ IsText(s.sends) /\ s.eol \in {<<CR, LF>>, <<CR>>, <<LF>>}
      /\ \A k \in DOMAIN s.sends : IsFrame(s.sends[k])
  BY ScriptsAssumption
<1>2. PICK n \in Nat : n = Len(s.sends) /\ DOMAIN s.sends = 1..n
  BY <1>1 DEF IsText
<1>3. PICK frames : frames = [k \in 1..n |-> Rendered(s.sends[k], s.eol)]
  OBVIOUS
<1>4. frames \in [1..n -> Seq(Alphabet(s))]
  BY <1>1, <1>2, <1>3, RenderedSpelled
<1>5. WireOf(s) = FlattenSeq(frames)
  BY <1>2, <1>3 DEF WireOf
<1>6. WireOf(s) \in Seq(Alphabet(s))
  BY <1>4, <1>5, FlattenSeqs
<1>7. \A b \in Alphabet(s) : Symbol(b)
  BY DEF Alphabet
<1> QED BY <1>6, <1>7 DEF Symbols, IsSeq

--------------------------------------------------------------------------------
(* The turn as a whole.                                                      *)

(* What is known of a turn between two steps: the exchange is the one it began  *)
(* with, the stream gives sequences, what is shown adds up to what the node has *)
(* collected, the wrapper has collected the same, and a response was validated. *)

TurnInv ==
  /\ script \in Scripts /\ wrapper.on = script.structured
  /\ Source /\ NodeInv /\ Synced /\ Validated

(* Nothing has been shown and nothing collected.                               *)
LEMMA InitTurn ==
  ASSUME Init PROVE TurnInv
<1>1. /\ script \in Scripts /\ wire = WireOf(script) /\ emitted = <<>>
      /\ raw = (IF Native THEN NewStreamState ELSE NewGenaiStream)
      /\ wrapper = NewWrapper(script.structured)
      /\ node = [phase |-> "idle", collector |-> NewCollector, failure |-> None, response |-> None]
  BY DEF Init, WatchInit
<1>2. script.structured \in BOOLEAN
  BY <1>1, ScriptsAssumption
<1>3. Source
  <2>1. CASE Native
    <3>1. Symbols(wire)
      BY <1>1, <2>1, WireSymbols DEF Native
    <3>2. Frames(NewFramer) /\ Decodes(NewDecoder)
      BY NoLines, NoEvents DEF Frames, NewFramer, FramerFields, Decodes, NewDecoder, DecoderFields
    <3>3. raw = NewStreamState
      BY <1>1, <2>1
    <3>4. DOMAIN raw = StreamFields /\ raw.bytes = <<>> /\ raw.framer = NewFramer
          /\ raw.decoder = NewDecoder
      BY <3>3 DEF NewStreamState, StreamFields
    <3> QED BY <2>1, <3>1, <3>2, <3>4, NoLines DEF Source
  <2>2. CASE ~Native
    <3>1. raw = NewGenaiStream /\ wire = script.sends
      BY <1>1, <2>2 DEF WireOf, Native
    <3>2. DOMAIN raw = GenaiFields /\ Events(raw.pending)
      BY <3>1, NoEvents DEF NewGenaiStream, GenaiFields
    <3>3. IsText(wire) /\ \A k \in DOMAIN wire : IsGenaiEvent(wire[k])
      BY <1>1, <2>2, <3>1, ScriptsAssumption DEF Native
    <3>4. IsSeq(wire) /\ DOMAIN wire = 1..Len(wire)
      BY <3>3 DEF IsText, IsSeq
    <3>5. \A k \in 1..Len(wire) : wire[k].kind = "chunk" => IsSeq(wire[k].text)
      BY <3>3, <3>4 DEF IsGenaiEvent, IsText, IsSeq
    <3> QED BY <2>2, <3>2, <3>4, <3>5 DEF Source
  <2> QED BY <2>1, <2>2
<1>4. /\ DOMAIN node = NodeFields /\ node.phase = "idle" /\ node.collector = NewCollector
  BY <1>1 DEF NodeFields
<1>5. NodeInv
  <2>1. /\ Emission(emitted) /\ TextShown(emitted) = <<>> /\ \A i : ArgsShown(i, emitted) = <<>>
    BY <1>1, NothingShown
  <2> QED BY <2>1, <1>4, NewCollected DEF NodeInv
<1>6. /\ DOMAIN wrapper = WrapperFields /\ wrapper.on = script.structured /\ wrapper.open = TRUE
      /\ wrapper.collector = NewCollector
  BY <1>1 DEF NewWrapper, WrapperFields
<1>7. Synced /\ Validated
  BY <1>2, <1>4, <1>6 DEF Synced, Validated
<1> QED BY <1>1, <1>3, <1>4, <1>5, <1>6, <1>7 DEF TurnInv

(* A step that leaves the turn and what was emitted alone.                   *)
LEMMA SameTurn ==
  ASSUME TurnInv, UNCHANGED <<turn, emitted>> PROVE TurnInv'
<1>1. /\ script' = script /\ wire' = wire /\ raw' = raw /\ wrapper' = wrapper /\ node' = node
      /\ emitted' = emitted
  BY DEF turn
<1>2. Source'
  BY <1>1 DEF TurnInv, Source, Native
<1>3. NodeInv'
  BY <1>1 DEF TurnInv, NodeInv
<1>4. Synced' /\ Validated'
  BY <1>1 DEF TurnInv, Synced, Validated
<1> QED BY <1>1, <1>2, <1>3, <1>4 DEF TurnInv

(* ModelStarted says nothing; a refused request shows nothing.                 *)
LEMMA StartTurn ==
  ASSUME TurnInv, StartRound PROVE TurnInv'
<1>1. /\ script' = script /\ wire' = wire /\ raw' = raw /\ wrapper' = wrapper
      /\ node.phase = "idle"
  BY DEF StartRound
<1>2. Source'
  BY <1>1 DEF TurnInv, Source, Native
<1>3. CASE /\ node' = [node EXCEPT !.phase = "streaming"]
           /\ PollDrives(<<ModelStarted>>, GraphOpening, "running", FALSE)
  <2>1. node' = [node EXCEPT !.phase = "streaming"] /\ emitted' = emitted \o <<ModelStarted>>
    BY <1>3 DEF PollDrives
  <2>2. /\ DOMAIN node' = NodeFields /\ node.phase' = "streaming"
        /\ node.collector' = node.collector
    BY <2>1 DEF TurnInv, NodeInv, NodeFields
  <2>3. /\ Emission(emitted') /\ TextShown(emitted') = node.collector.text
        /\ \A i : ArgsShown(i, emitted') = CallArgs(node.collector, i)
    BY <2>1, SilentShown DEF TurnInv, NodeInv, ModelStarted
  <2>4. NodeInv'
    BY <2>2, <2>3 DEF TurnInv, NodeInv
  <2>5. Synced' /\ Validated'
    BY <1>1, <2>2 DEF TurnInv, Synced, Validated
  <2> QED BY <1>1, <1>2, <2>2, <2>4, <2>5 DEF TurnInv
<1>4. CASE /\ node' = Failing("request").node
           /\ PollDrives(<<>>, GraphOpening + GraphClosing, "failed", FALSE)
  <2>1. /\ node' = [node EXCEPT !.phase = "failed", !.failure = "request"]
        /\ emitted' = emitted \o <<>>
    BY <1>4 DEF PollDrives, Failing
  <2>2. emitted' = emitted
    BY <2>1, JoinedSeq DEF TurnInv, NodeInv, Emission
  <2>3. /\ DOMAIN node' = NodeFields /\ node.phase' = "failed"
        /\ node.collector' = node.collector
    BY <2>1 DEF TurnInv, NodeInv, NodeFields
  <2>4. NodeInv'
    BY <2>2, <2>3 DEF TurnInv, NodeInv
  <2>5. Synced' /\ Validated'
    BY <1>1, <2>3 DEF TurnInv, Synced, Validated
  <2> QED BY <1>1, <1>2, <2>3, <2>4, <2>5 DEF TurnInv
<1> QED BY <1>3, <1>4 DEF StartRound

(* A wrapper that has given the end is asked again: the response is made of    *)
(* what was validated.                                                         *)
LEMMA EndTurn ==
  ASSUME TurnInv, EndOfValidated PROVE TurnInv'
<1>1. /\ script' = script /\ wire' = wire /\ raw' = raw /\ wrapper' = wrapper
      /\ node.phase = "streaming" /\ wrapper.open = FALSE /\ Proceed(NodeTakes(End))
  BY DEF EndOfValidated, TurnInv, Synced
<1>2. Source'
  BY <1>1 DEF TurnInv, Source, Native
<1>3. NodeInv' /\ Takes(End)
  BY <1>1, NodeStep, TellingItems DEF TurnInv
<1>4. \/ node.phase' = "failed"
      \/ /\ node.collector.state = "finished" /\ node.phase' = "completed"
         /\ node.collector' = node.collector /\ node.response' = Response(node.collector)
  BY <1>3 DEF Takes, Nothing, End, Speaks, EventKinds
<1>5. wrapper.on /\ wrapper.collector = node.collector /\ ValidResponse(Response(wrapper.collector))
  BY <1>1 DEF TurnInv, Synced
<1>6. Synced'
  BY <1>1, <1>4 DEF TurnInv, Synced
<1>7. Validated'
  BY <1>1, <1>4, <1>5 DEF Validated
<1> QED BY <1>1, <1>2, <1>3, <1>4, <1>6, <1>7 DEF TurnInv

(* A read of the stream.                                                       *)
LEMMA ReadTurn ==
  ASSUME TurnInv, Reads PROVE TurnInv'
<1>1. Source' /\ script' = script /\ Reading /\ \E item : RawItem(item) /\ Delivers(item)
  BY ReadSource DEF TurnInv
<1>2. PICK item : RawItem(item) /\ Delivers(item)
  BY <1>1
<1>3. node.phase = "streaming" /\ wrapper.open
  BY <1>1 DEF Reading
<1>4. NodeInv' /\ Synced' /\ Validated' /\ wrapper.on' = wrapper.on
  BY <1>2, <1>3, DeliverStep DEF TurnInv
<1> QED BY <1>1, <1>4 DEF TurnInv

(* Every step keeps the invariant.                                             *)
LEMMA StepTurn ==
  ASSUME TurnInv, [Next]_vars PROVE TurnInv'
<1>1. CASE StartRound
  BY <1>1, StartTurn
<1>2. CASE EndOfValidated
  BY <1>2, EndTurn
<1>3. CASE Reads
  BY <1>3, ReadTurn
<1>4. CASE Watch /\ UNCHANGED turn
  <2>1. emitted' = emitted
    BY <1>4 DEF Watch, PollBuffered, PollDrained, DropStream, DropFactory, Subscribe,
                PollSubscriber, pull
  <2> QED BY <1>4, <2>1, SameTurn
<1>5. CASE UNCHANGED vars
  <2>1. UNCHANGED <<turn, emitted>>
    BY <1>5 DEF vars, watching, pull
  <2> QED BY <2>1, SameTurn
<1> QED BY <1>1, <1>2, <1>3, <1>4, <1>5 DEF Next, Drive, Reads

(* The deltas shown are what the lemmas speak of.                              *)
LEMMA TurnAddsUp ==
  ASSUME TurnInv PROVE DeltasAddUp
<1>1. ShownText = TextShown(emitted)
  BY DEF ShownText, Gathered, TextShown, TextOf
<1>2. \A i : ShownArgs(i) = ArgsShown(i, emitted)
  BY DEF ShownArgs, Gathered, ArgsShown, ArgsOf
<1>3. \A i \in DOMAIN node.collector.calls : ShownArgs(i) = node.collector.calls[i].args
  BY <1>2 DEF TurnInv, NodeInv, CallArgs
<1> QED BY <1>1, <1>3 DEF TurnInv, NodeInv, Validated, DeltasAddUp

(* The deltas the caller has been shown add up to what has been collected, at   *)
(* every moment of a round and however it ends, and the response of a           *)
(* structured round is the one that was validated: for every script, every way  *)
(* the network cuts it and every limit (structured_output::stream, ModelNode).  *)
THEOREM DeltasAddUpHolds == Spec => []DeltasAddUp
<1>1. TurnInv => DeltasAddUp
  BY TurnAddsUp
<1> QED BY <1>1, InitTurn, StepTurn, PTL DEF Spec
================================================================================
