---------------------------- MODULE NodeRuntime ----------------------------
(***************************************************************************)
(* The node inside the mobile app (api/simple.rs, credit_runtime.rs): what *)
(* the statics of the process hold while prepare_local_runtime and         *)
(* start_hydra_node run.  One action is the code from one await to the     *)
(* next, and each static is locked by itself: calls that overlap set them  *)
(* in turn.  Both calls open the credit services anew and put them where   *)
(* the screens find them; the server keeps those of the call that started  *)
(* it.                                                                     *)
(*                                                                         *)
(* A launch is one run of main() in the same process: when Android has     *)
(* destroyed the activity and kept the process, as the VPN service asks it *)
(* to, opening the app runs main() again while the calls of the launch     *)
(* before may still be running.                                            *)
(***************************************************************************)
EXTENDS Integers, Sequences, FiniteSets

CONSTANTS
  Launches,    \* number of times main() runs
  Modes,       \* values of the proxy mode
  ConfigMode,  \* network.proxy_mode of hydra.toml
  None

ASSUME RuntimeAssumption ==
  /\ Launches \in Nat \ {0}
  /\ ConfigMode \in Modes
  /\ None \notin Modes \cup (1..Launches)

VARIABLES
  launched,     \* launches of main() so far
  stage,        \* how far the calls of each launch have come
  locked,       \* statics that the call of a launch has set of those it is setting
  nodeStarted,  \* NODE_STARTED
  services,     \* what the screens find: by which call each was opened
  handles,      \* what the screens find: of which launch's server
  servers,      \* launches whose server was spawned, with the services it opened
  mode          \* the proxy mode of each launch's server

runtimeVars == <<launched, stage, locked, nodeStarted, services, handles, servers, mode>>

\* The statics in the order in which they are locked: SHARED_CREDIT_LEDGER,
\* SHARED_CREDIT_CONTROLLER, SHARED_DISCOVERY and SHARED_PROVIDER_METRICS;
\* SHARED_REGISTRY, SHARED_PROXY_MODE and SHARED_P2P_HANDLE.
Services == 1..4
Handles == 1..3
ProxyModeHandle == 2

At(m, at) == stage[m] = at

Goes(m, at) == stage' = [stage EXCEPT ![m] = at] /\ UNCHANGED locked

\* One more static is set; with the last of them the call goes on.
Sets(m, last, at) ==
  /\ locked' = [locked EXCEPT ![m] = (@ + 1) % last]
  /\ stage' = [stage EXCEPT ![m] = IF locked[m] + 1 = last THEN at ELSE @]

\* What opens the services of a launch.
Prepared(m) == <<m, "prepare">>
Started(m) == <<m, "start">>

RuntimeInit ==
  /\ launched = 0
  /\ stage = [m \in 1..Launches |-> "new"]
  /\ locked = [m \in 1..Launches |-> 0]
  /\ nodeStarted = FALSE
  /\ services = [s \in Services |-> None]
  /\ handles = [h \in Handles |-> None]
  /\ servers = {}
  /\ mode = [m \in 1..Launches |-> ConfigMode]

-----------------------------------------------------------------------------
(* init_credit_services, shared by both calls.                             *)

\* Mutant: what is published already is kept.
PublishServiceOnce(m, owner, at) ==
  LET s == locked[m] + 1 IN
  /\ services' = [services EXCEPT ![s] = IF @ = None THEN owner ELSE @]
  /\ Sets(m, 4, at)
  /\ UNCHANGED <<launched, nodeStarted, handles, servers, mode>>

PublishService(m, owner, at) ==
  LET s == locked[m] + 1 IN
  /\ services' = [services EXCEPT ![s] = owner]
  /\ Sets(m, 4, at)
  /\ UNCHANGED <<launched, nodeStarted, handles, servers, mode>>

-----------------------------------------------------------------------------
(* prepare_local_runtime.                                                  *)

\* The base directory, hydra.toml or a database cannot be opened.
Prepare(m) ==
  /\ At(m, "launched")
  /\ Goes(m, "preparing") \/ Goes(m, "failed")
  /\ UNCHANGED <<launched, nodeStarted, services, handles, servers, mode>>

PublishPrepared(m) == At(m, "preparing") /\ PublishService(m, Prepared(m), "prepared")

-----------------------------------------------------------------------------
(* start_hydra_node.                                                       *)

\* Only the first call ever goes on, and it never takes NODE_STARTED back.
StartHydraNode(m) ==
  /\ At(m, "prepared")
  /\ nodeStarted' = TRUE
  /\ Goes(m, IF nodeStarted THEN "started" ELSE "opening")
  /\ UNCHANGED <<launched, services, handles, servers, mode>>

OpenServices(m) ==
  /\ At(m, "opening")
  /\ Goes(m, "starting") \/ Goes(m, "failed")
  /\ UNCHANGED <<launched, nodeStarted, services, handles, servers, mode>>

PublishStarted(m) == At(m, "starting") /\ PublishService(m, Started(m), "building")

\* EconLedger, the peer-to-peer node (a dummy will do) and the transports.
BuildServer(m) ==
  /\ At(m, "building")
  /\ Goes(m, "built") \/ Goes(m, "failed")
  /\ UNCHANGED <<launched, nodeStarted, services, handles, servers, mode>>

\* The server is spawned, and the snapshot writer, with the last handle.
PublishHandle(m) ==
  LET h == locked[m] + 1 IN
  /\ At(m, "built")
  /\ handles' = [handles EXCEPT ![h] = m]
  /\ Sets(m, 3, "started")
  /\ servers' = IF h = 3 THEN servers \cup {m} ELSE servers
  /\ UNCHANGED <<launched, nodeStarted, services, mode>>

-----------------------------------------------------------------------------
\* set_proxy_mode: without a node nothing is set.
SetProxyMode(x) ==
  LET m == handles[ProxyModeHandle] IN
  mode' = IF m = None THEN mode ELSE [mode EXCEPT ![m] = x]

Calls(m) ==
  \/ Prepare(m) \/ PublishPrepared(m)
  \/ OpenServices(m) \/ PublishStarted(m) \/ BuildServer(m) \/ PublishHandle(m)

\* A launch none of whose calls runs in the background.
Ended(m) == stage[m] \in {"new", "prepared", "started", "failed"}

Stages == {"new", "launched", "preparing", "prepared", "opening", "starting",
           "building", "built", "started", "failed"}

Openings == (1..Launches) \X {"prepare", "start"}

RuntimeTypeOK ==
  /\ launched \in 0..Launches
  /\ stage \in [1..Launches -> Stages]
  /\ locked \in [1..Launches -> 0..3]
  /\ \A m \in 1..Launches : m > launched <=> At(m, "new")
  /\ nodeStarted \in BOOLEAN
  /\ services \in [Services -> {None} \cup Openings]
  /\ handles \in [Handles -> {None} \cup 1..Launches]
  /\ servers \subseteq 1..Launches
  /\ mode \in [1..Launches -> Modes]
=============================================================================
