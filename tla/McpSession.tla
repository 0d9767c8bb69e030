----------------------------- MODULE McpSession -----------------------------
(***************************************************************************)
(* One MCP client session (crates/group-agent-mcp): it is connected, over  *)
(* a transport or over the standard streams of a child process, shared by  *)
(* several callers, and shut down once, by whichever caller asks first.    *)
(* The cleanup belongs to the session: a caller may abandon its shutdown   *)
(* future, call again, or drop its handle at any time.                     *)
(*                                                                         *)
(* External: the rmcp service (service) answers requests, ends when it is  *)
(* told to or when its transport closes, and fails what is in flight when  *)
(* it ends; the operating system delivers signals (proc).                  *)
(***************************************************************************)
EXTENDS Naturals, Sequences, SequencesExt, Functions, TLC

CONSTANTS Callers,      \* tasks that hold a handle of the session
          RemoteTools,  \* tools the server may list: [name, id] records
          Discoverers,  \* callers that discover tools
          Policies,     \* name policies in use: what each puts before a name
          Overrides,    \* remote names a discovery configures a behaviour for
          Cursors,      \* cursors the server may return
          MaxPages,     \* max_pages of the discovery configuration
          MaxTools,     \* max_tools of the discovery configuration
          Nil          \* an absent value

ASSUME McpAssumption == MaxPages \in Nat /\ MaxTools \in Nat /\ Discoverers \subseteq Callers

\* What an optional field of the session may hold; Option::None is none of it.
Tags == {"alive", "killed", "exited", "reaped", "connect", "lifecycle", "cleanup",
         "closing", "grace", "kill", "wait", "ok", "failed", "service_failed",
         "child_failed"}

ASSUME NilAssumption == Nil \notin Tags

VARIABLES session,      \* "none", "connecting", "open", "failed", "dropped"
          state,        \* the atomic state of SessionInner
          guard,        \* who holds the StdioChildGuard, or Nil
          service,      \* "none", "serving", "cancelled", "ended"
          proc,         \* the child: Nil, "alive", "killed", "exited", "reaped"
          reaper,       \* the thread spawned by the guard's drop waits for the child
          refused,      \* the system has refused to signal the child
          closing,      \* service task of the cleanup: Nil, "closing", "ok", "failed"
          reaping,      \* child task: Nil, "grace", "kill", "wait", "ok", "failed"
          first_error,  \* first_error of the child task (or a panic it caught)
          slot,         \* ShutdownCompletion: [result, published]
          epoch,        \* number of notify_waiters calls
          pc,           \* what each caller is doing
          seen,         \* epoch its Notified future was created in
          handles,      \* callers that still hold the session
          returned,     \* results shutdown has returned (history)
          disc,         \* discovery in progress, per caller
          snapshots     \* McpToolSet each discoverer has, or Nil

process == <<proc, reaper, refused>>
cleanup == <<closing, reaping, first_error, slot, epoch>>
sessionVars == <<session, state, guard, service, process, cleanup, pc, seen,
          handles, returned, disc, snapshots>>

NoDiscovery == [pages |-> 0, tools |-> <<>>, seen |-> {}, policy |-> Nil]

SessionInit ==
    /\ session = "none" /\ state = "active" /\ guard = Nil
    /\ service = "none" /\ proc = Nil /\ reaper = FALSE /\ refused = FALSE
    /\ closing = Nil /\ reaping = Nil /\ first_error = FALSE
    /\ slot = [result |-> Nil, published |-> FALSE] /\ epoch = 0
    /\ pc = [c \in Callers |-> "idle"] /\ seen = [c \in Callers |-> 0]
    /\ handles = {} /\ returned = {}
    /\ disc = [c \in Discoverers |-> NoDiscovery]
    /\ snapshots = [c \in Discoverers |-> Nil]

-----------------------------------------------------------------------------
(* The child process and its guard.                                        *)

\* child.kill(): the signal is sent, or the system refuses.
Kill ==
    \/ /\ proc' = (IF proc = "alive" THEN "killed" ELSE proc)
       /\ UNCHANGED refused
    \/ proc = "alive" /\ refused' = TRUE /\ UNCHANGED proc

\* Drop of StdioChildGuard: kill, then wait in a thread if one can be spawned.
GuardDrop ==
    IF guard = Nil THEN UNCHANGED <<guard, process>>
    ELSE guard' = Nil /\ Kill /\ reaper' \in BOOLEAN

\* A killed child dies; any child may exit on its own.
ChildExits ==
    /\ proc \in {"alive", "killed"}
    /\ proc' = "exited"
    /\ UNCHANGED <<session, state, guard, service, reaper, refused, cleanup,
                   pc, seen, handles, returned, disc, snapshots>>

ReaperWaits ==
    /\ reaper /\ proc = "exited"
    /\ proc' = "reaped" /\ reaper' = FALSE
    /\ UNCHANGED <<session, state, guard, service, refused, cleanup,
                   pc, seen, handles, returned, disc, snapshots>>

-----------------------------------------------------------------------------
(* Connecting.                                                             *)

\* connect and connect_stdio up to the handshake; a child that cannot be
\* spawned leaves nothing behind.
Connect ==
    /\ session = "none"
    /\ \/ /\ session' = "connecting"
          /\ \/ proc' = "alive" /\ guard' = "connect"
             \/ UNCHANGED <<proc, guard>>
          /\ service' = "serving"
       \/ session' = "failed" /\ UNCHANGED <<proc, guard, service>>
    /\ UNCHANGED <<state, reaper, refused, cleanup, pc, seen, handles,
                   returned, disc, snapshots>>

\* serve_with_ct has initialised the service.
Initialized ==
    /\ session = "connecting" /\ service = "serving"
    /\ session' = "open" /\ handles' = Callers
    /\ guard' = (IF guard = "connect" THEN "lifecycle" ELSE guard)
    /\ UNCHANGED <<state, service, process, cleanup, pc, seen, returned,
                   disc, snapshots>>

\* The handshake fails, the child's streams cannot be taken, or the caller
\* drops the future: the guard is dropped on the way out.
ConnectFails ==
    /\ session = "connecting"
    /\ session' = "failed" /\ service' = "ended" /\ GuardDrop
    /\ UNCHANGED <<state, cleanup, pc, seen, handles, returned, disc, snapshots>>

\* Every handle is gone: SessionInner is dropped, and with it what its
\* lifecycle still holds. A cleanup under way goes on.
DropHandle(c) ==
    /\ c \in handles /\ pc[c] = "idle"
    /\ handles' = handles \ {c}
    /\ snapshots' = [d \in Discoverers |-> IF d = c THEN Nil ELSE snapshots[d]]
    /\ IF handles' = {}
       THEN /\ session' = "dropped" /\ state' = "closing"
            /\ service' = (IF service = "serving" THEN "cancelled" ELSE service)
            /\ IF guard = "lifecycle" THEN GuardDrop ELSE UNCHANGED <<guard, process>>
       ELSE UNCHANGED <<session, state, service, guard, process>>
    /\ UNCHANGED <<cleanup, pc, seen, returned, disc>>

\* External: the service task ends, because it was cancelled or because its
\* transport has closed.
ServiceEnds ==
    /\ service \in {"serving", "cancelled"}
    /\ service' = "ended"
    /\ UNCHANGED <<session, state, guard, process, cleanup, pc, seen, handles,
                   returned, disc, snapshots>>

-----------------------------------------------------------------------------
(* Shutting down. The critical section of shutdown has no await.           *)

Shutdown(c) ==
    /\ c \in handles /\ pc[c] = "idle"
    /\ pc' = [pc EXCEPT ![c] = "register"]
    /\ IF closing # Nil
       THEN UNCHANGED <<state, guard, service, closing, reaping>>
       ELSE /\ state' = "closing"
            /\ closing' = "closing"
            /\ service' = (IF service = "serving" THEN "cancelled" ELSE service)
            /\ reaping' = (IF guard = "lifecycle" THEN "grace" ELSE "ok")
            /\ guard' = (IF guard = "lifecycle" THEN "cleanup" ELSE guard)
    /\ UNCHANGED <<session, process, first_error, slot, epoch, seen, handles,
                   returned, disc, snapshots>>

\* map_quit_reason: running.close() returns once the service has ended; its
\* task may have panicked.
ServiceClosed ==
    /\ closing = "closing" /\ service = "ended"
    /\ closing' \in {"ok", "failed"}
    /\ UNCHANGED <<session, state, guard, service, process, reaping, first_error,
                   slot, epoch, pc, seen, handles, returned, disc, snapshots>>

\* terminate: the child has exited within the grace period...
TryWaitExited ==
    /\ reaping = "grace" /\ proc = "exited"
    /\ reaping' = "ok" /\ proc' = "reaped" /\ guard' = Nil
    /\ UNCHANGED <<session, state, service, reaper, refused, closing, first_error,
                   slot, epoch, pc, seen, handles, returned, disc, snapshots>>

\* ... or the period is over, or looking fails, or the worker panics.
GraceEnds ==
    /\ reaping = "grace"
    /\ reaping' = "kill" /\ first_error' \in BOOLEAN
    /\ UNCHANGED <<session, state, guard, service, process, closing, slot, epoch,
                   pc, seen, handles, returned, disc, snapshots>>

\* kill_and_wait, first half.
KillChild ==
    /\ reaping = "kill" /\ reaping' = "wait"
    /\ Kill
    /\ first_error' = (first_error \/ (refused' /\ ~refused))
    /\ UNCHANGED <<session, state, guard, service, reaper, closing, slot, epoch,
                   pc, seen, handles, returned, disc, snapshots>>

\* kill_and_wait, second half: the child is reaped, or waiting fails and the
\* guard is dropped with the child still in it.
WaitChild ==
    /\ reaping = "wait"
    /\ \/ /\ proc = "exited" /\ proc' = "reaped" /\ guard' = Nil
          /\ reaping' = (IF first_error THEN "failed" ELSE "ok")
          /\ UNCHANGED <<reaper, refused>>
       \/ reaping' = "failed" /\ GuardDrop
    /\ UNCHANGED <<session, state, service, closing, first_error, slot, epoch,
                   pc, seen, handles, returned, disc, snapshots>>

\* combine_shutdown_results: a failure of the service comes first.
CombinedResult ==
    IF closing = "failed" THEN "service_failed"
    ELSE IF reaping = "failed" THEN "child_failed" ELSE "ok"

\* Mutant: the completion is published without joining the child task.
CleanupJoinedServiceOnly == closing \in {"ok", "failed"}

\* tokio::join! of both tasks.
CleanupJoined == closing \in {"ok", "failed"} /\ reaping \in {"ok", "failed"}

\* complete_after_closed, under the lock of the slot.
Publish ==
    /\ CleanupJoined /\ slot.result = Nil
    /\ slot' = [result |-> CombinedResult, published |-> TRUE]
    /\ state' = "closed"
    /\ UNCHANGED <<session, guard, service, process, closing, reaping, first_error,
                   epoch, pc, seen, handles, returned, disc, snapshots>>

\* complete_after_closed, after the lock: notify_waiters.
NotifyWaiters ==
    /\ slot.published /\ epoch = 0
    /\ epoch' = 1
    /\ UNCHANGED <<session, state, guard, service, process, closing, reaping,
                   first_error, slot, pc, seen, handles, returned, disc, snapshots>>

\* wait() creates its Notified future before it looks at the slot.
Register(c) ==
    /\ pc[c] = "register"
    /\ seen' = [seen EXCEPT ![c] = epoch]
    /\ pc' = [pc EXCEPT ![c] = "check"]
    /\ UNCHANGED <<session, state, guard, service, process, cleanup, handles,
                   returned, disc, snapshots>>

Check(c) ==
    /\ pc[c] = "check"
    /\ IF slot.published
       THEN /\ pc' = [pc EXCEPT ![c] = "idle"]
            /\ returned' = returned \cup {slot.result}
       ELSE pc' = [pc EXCEPT ![c] = "await"] /\ UNCHANGED returned
    /\ UNCHANGED <<session, state, guard, service, process, cleanup, seen,
                   handles, disc, snapshots>>

\* Mutant: the Notified future is created only where it is awaited.
AwaitCreatesNotified(c) ==
    /\ pc[c] = "await"
    /\ pc' = [pc EXCEPT ![c] = "parked"]
    /\ seen' = [seen EXCEPT ![c] = epoch]
    /\ UNCHANGED <<session, state, guard, service, process, cleanup, handles,
                   returned, disc, snapshots>>

\* The Notified future is polled: it completes if notify_waiters was called
\* since it was created.
Await(c) ==
    /\ pc[c] = "await"
    /\ pc' = [pc EXCEPT ![c] = IF seen[c] # epoch THEN "register" ELSE "parked"]
    /\ UNCHANGED <<session, state, guard, service, process, cleanup, seen,
                   handles, returned, disc, snapshots>>

Wake(c) ==
    /\ pc[c] = "parked" /\ seen[c] # epoch
    /\ pc' = [pc EXCEPT ![c] = "register"]
    /\ UNCHANGED <<session, state, guard, service, process, cleanup, seen,
                   handles, returned, disc, snapshots>>

\* The caller drops its shutdown future.
AbandonShutdown(c) ==
    /\ pc[c] \in {"register", "check", "await", "parked"}
    /\ pc' = [pc EXCEPT ![c] = "idle"]
    /\ UNCHANGED <<session, state, guard, service, process, cleanup, seen,
                   handles, returned, disc, snapshots>>

-----------------------------------------------------------------------------
(* Requests: tool calls and discovery.                                     *)

\* peer(): the handle of the service, unless the session or its transport has
\* been closed.
PeerAvailable == state = "active" /\ service = "serving"

\* call_tool. A refused call (closed session, arguments that are no object)
\* returns at once and changes nothing.
CallTool(c) ==
    /\ c \in handles /\ pc[c] = "idle" /\ PeerAvailable
    /\ pc' = [pc EXCEPT ![c] = "calling"]
    /\ UNCHANGED <<session, state, guard, service, process, cleanup, seen,
                   handles, returned, disc, snapshots>>

\* The server answers, or the service fails what is in flight as it ends; a
\* caller may also drop the future.
CallReturns(c) ==
    /\ pc[c] = "calling"
    /\ pc' = [pc EXCEPT ![c] = "idle"]
    /\ UNCHANGED <<session, state, guard, service, process, cleanup, seen,
                   handles, returned, disc, snapshots>>

\* discover: the server must offer tools.
Discover(c) ==
    /\ c \in handles /\ pc[c] = "idle" /\ PeerAvailable
    /\ \E policy \in Policies :
         disc' = [disc EXCEPT ![c] = [NoDiscovery EXCEPT !.policy = policy]]
    /\ pc' = [pc EXCEPT ![c] = "listing"]
    /\ UNCHANGED <<session, state, guard, service, process, cleanup, seen,
                   handles, returned, snapshots>>

\* McpToolNamePolicy::local_name. A name is a sequence of words, a policy the
\* words it puts before one: none (Preserve) or the server or application
\* prefix. Nothing marks where a prefix ends, so a name of the server may look
\* like another with a prefix.
LocalName(policy, tool) == policy \o tool.name

\* from_discovered and the registry: no local name is taken twice and every
\* override names a discovered tool. (A definition that cannot be mapped by
\* itself fails the discovery as a failed request does: DiscoverFails.)
Mappable(policy, tools) ==
    /\ \A i, j \in DOMAIN tools :
         LocalName(policy, tools[i]) = LocalName(policy, tools[j]) => i = j
    /\ Overrides \subseteq {tools[i].name : i \in DOMAIN tools}

\* The snapshot: the remote tool each local name stands for; and, for the
\* properties, what the server had listed.
ToolSet(policy, tools) ==
    [by_local |-> [n \in {LocalName(policy, t) : t \in Range(tools)} |->
                      CHOOSE t \in Range(tools) : LocalName(policy, t) = n],
     listed |-> {<<policy, t>> : t \in Range(tools)}]

Finish(c, snapshot) ==
    /\ pc' = [pc EXCEPT ![c] = "idle"]
    /\ disc' = [disc EXCEPT ![c] = NoDiscovery]
    /\ snapshots' = [snapshots EXCEPT ![c] = snapshot]
    /\ UNCHANGED <<session, state, guard, service, process, cleanup, seen,
                   handles, returned>>

\* The page limit is reached, a request fails, a definition is invalid or the
\* future is dropped:
\* an earlier snapshot stays as it was.
DiscoverFails(c) == pc[c] = "listing" /\ Finish(c, snapshots[c])

\* Mutant: a tool of the later set takes a local name that is taken.
CombinableAlways(s, t) == TRUE

\* combine: a local name held by both sets is a conflict.
Combinable(s, t) == DOMAIN s.by_local \cap DOMAIN t.by_local = {}

Combined(s, t) ==
    [by_local |-> [n \in DOMAIN s.by_local \cup DOMAIN t.by_local |->
                     IF n \in DOMAIN t.by_local THEN t.by_local[n] ELSE s.by_local[n]],
     listed |-> s.listed \cup t.listed]

\* The traversal is complete: the new snapshot replaces the caller's or, where
\* it wants and that is possible, is combined with it.
Discovered(c, snapshot) ==
    \/ Finish(c, snapshot)
    \/ /\ snapshots[c] # Nil /\ Combinable(snapshots[c], snapshot)
       /\ Finish(c, Combined(snapshots[c], snapshot))

\* One page has arrived: the tool limit, the end of the list, or a cursor, which
\* must not have been seen before.
ListTools(c) ==
    /\ pc[c] = "listing" /\ service = "serving" /\ disc[c].pages < MaxPages
    /\ \E page \in BoundedSeq(RemoteTools, 1), next \in Cursors \cup {Nil} :
         LET d == disc[c]
             tools == d.tools \o page
         IN  \/ /\ Len(tools) > MaxTools \/ next \in d.seen
                /\ Finish(c, snapshots[c])
             \/ /\ Len(tools) <= MaxTools /\ next = Nil
                /\ IF Mappable(d.policy, tools) THEN Discovered(c, ToolSet(d.policy, tools))
                   ELSE Finish(c, snapshots[c])
             \/ /\ Len(tools) <= MaxTools /\ next \in Cursors \ d.seen
                /\ disc' = [disc EXCEPT ![c].pages = @ + 1, ![c].tools = tools,
                                       ![c].seen = @ \cup {next}]
                /\ UNCHANGED <<session, state, guard, service, process, cleanup,
                               pc, seen, handles, returned, snapshots>>

-----------------------------------------------------------------------------
SessionNext ==
    \/ Connect \/ Initialized \/ ConnectFails \/ ServiceEnds
    \/ ChildExits \/ ReaperWaits
    \/ ServiceClosed \/ TryWaitExited \/ GraceEnds \/ KillChild \/ WaitChild
    \/ Publish \/ NotifyWaiters
    \/ \E c \in Callers :
         \/ Shutdown(c) \/ Register(c) \/ Check(c) \/ Await(c) \/ Wake(c)
         \/ AbandonShutdown(c) \/ DropHandle(c)
         \/ CallTool(c) \/ CallReturns(c)
    \/ \E c \in Discoverers : Discover(c) \/ ListTools(c) \/ DiscoverFails(c)

SessionSpec == SessionInit /\ [][SessionNext]_sessionVars

\* The runtime polls its tasks, blocking threads run, a cancelled service ends
\* and a signalled process dies. Nothing is assumed of the server.
Fairness ==
    /\ WF_sessionVars(service = "cancelled" /\ ServiceEnds)
    /\ WF_sessionVars(proc = "killed" /\ ChildExits)
    /\ WF_sessionVars(ServiceClosed) /\ WF_sessionVars(GraceEnds)
    /\ WF_sessionVars(KillChild) /\ WF_sessionVars(proc = "exited" /\ WaitChild)
    /\ WF_sessionVars(Publish) /\ WF_sessionVars(NotifyWaiters)
    /\ \A c \in Callers : /\ WF_sessionVars(Register(c)) /\ WF_sessionVars(Check(c))
                          /\ WF_sessionVars(Await(c)) /\ WF_sessionVars(Wake(c))

FairSession == SessionSpec /\ Fairness

-----------------------------------------------------------------------------
(* What shutdown returns is one result, the same for every caller whenever *)
(* it asks, and it is true: both halves of the cleanup are over, success   *)
(* means that the child is gone and the service ended, and a failure of    *)
(* the service has not kept the child from being cleaned up (the doc of    *)
(* McpClientSession::shutdown).                                            *)
ShutdownResultIsTrue ==
    returned # {} =>
        /\ returned = {slot.result}
        /\ service = "ended" /\ reaping \in {"ok", "failed"} /\ guard = Nil
        /\ slot.result = "ok" => proc \in {Nil, "reaped"}
        /\ (slot.result = "service_failed" /\ proc = "alive") => reaping = "failed"

(* A tool set lists every tool of the complete traversals it was built     *)
(* from, each under its own local name: no tool is dropped or shadowed by  *)
(* another, over pages, refreshes, name policies and combinations, even    *)
(* where the server's own names read like prefixed ones, while the session *)
(* may be closed under the discovery.                                      *)
SnapshotComplete ==
    \A c \in Discoverers : snapshots[c] # Nil =>
        LET s == snapshots[c]
        IN  {<<n, s.by_local[n]>> : n \in DOMAIN s.by_local}
                = {<<LocalName(l[1], l[2]), l[2]>> : l \in s.listed}

(* Nobody waits for ever: a caller that waits for the shutdown returns     *)
(* unless it gives up, whenever it comes, as long as the system lets the   *)
(* child be killed.                                                        *)
ShutdownReturns ==
    \A c \in Callers : pc[c] = "register" ~> (pc[c] = "idle" \/ refused)

(* The child process does not outlive the session, however the session     *)
(* ends: by shutdown, by dropping every handle, by a failed or abandoned   *)
(* connect.                                                                *)
ChildDies ==
    (session \in {"failed", "dropped"} \/ state # "active")
        ~> (proc \notin {"alive", "killed"} \/ refused)

(* A session that is shut down or abandoned comes to rest: its callers are    *)
(* answered and its child is gone.                                         *)
SessionComesToRest == ShutdownReturns /\ ChildDies
=============================================================================
