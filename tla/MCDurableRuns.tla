----------------------------- MODULE MCDurableRuns -----------------------------
(* DurableRuns for TLC.  The graph: na runs alone and may ask for input, then *)
(* na and nb run in parallel and lead back to na, or nb runs alone and ends.  *)
EXTENDS DurableRuns, TLC

CONSTANTS r1, r2, r3, na, nb, v1

GraphRoute ==
  [f \in SUBSET {na, nb} |->
     CASE f = {na} -> {{na, nb}, {nb}} [] f = {na, nb} -> {{na}} [] OTHER -> {{}}]

EntryOrEmpty == {{na}, {}}

Calls(kinds, policies, versions) ==
  [kinds |-> kinds, policies |-> policies, versions |-> versions]

(* One fresh run, and two calls that race to continue its lineage, to fork or *)
(* to replay it.                                                             *)
Race ==
  (r1 :> Calls({"invoke"}, {"EverySuperstep"}, {v1}))
  @@ (r2 :> Calls({"resume", "fork"}, {"EverySuperstep"}, {v1}))
  @@ (r3 :> Calls({"resume", "replay"}, {"EverySuperstep"}, {v1}))

(* Two calls that may both start afresh on the same thread or continue it,    *)
(* under either policy, by graphs with and without a version.                *)
TwoWriters ==
  (r1 :> Calls({"invoke"}, {"EverySuperstep", "FinalOnly"}, {v1, NoVersion}))
  @@ (r2 :> Calls({"invoke", "resume"}, {"EverySuperstep", "FinalOnly"}, {v1}))
  @@ (r3 :> Calls({}, {}, {}))

RaceOrTwoWriters == {Race, TwoWriters}
================================================================================
