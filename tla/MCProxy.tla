------------------------------ MODULE MCProxy ------------------------------
(***************************************************************************)
(* Instances of ProviderMetrics, and Proxy in it, for TLC.  Each behaviour *)
(* explores one of the two: the routes, over every mode, target and        *)
(* credit, with no record saved; or the records, over every order of the   *)
(* sessions and the syncs, with two connections to one target, in the mode *)
(* that sends it through any route.                                        *)
(***************************************************************************)
EXTENDS ProviderMetrics, TLC

CONSTANTS s1, s2, free, paid

VARIABLE explored

Ranks == (s1 :> 2) @@ (s2 :> 1) @@ (free :> 1) @@ (paid :> 2)
Symmetry == Permutations(Tasks)

MCInit == MetricsInit /\ explored \in {"routes", "records"}

Plain(k) ==
  /\ k.pc = "handshake" => k.mode = "full"
  /\ k.pc = "plan" => k.target = "other" /\ k.allowed

MCNext ==
  /\ MetricsNext
  /\ UNCHANGED explored
  /\ explored = "routes" => UNCHANGED <<pending, sync, disturbed>>
  /\ explored = "records" =>
       registered' <= 2 /\ (\A t \in Tasks : Plain(task'[t])) /\ UNCHANGED debt

MCSpec == MCInit /\ [][MCNext]_<<allVars, explored>>
=============================================================================
