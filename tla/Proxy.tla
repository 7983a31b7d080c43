-------------------------------- MODULE Proxy --------------------------------
(***************************************************************************)
(* The SOCKS5 proxy of hydra-core (lib.rs, connections.rs): run accepts    *)
(* connections and gives each to a task, handle_connection, which asks the *)
(* credit controller and the route discovery, chooses between a direct     *)
(* connection and a list of routes, tries the routes in order, copies data *)
(* in both directions, charges the session and closes its entry in the     *)
(* ConnectionRegistry.                                                     *)
(*                                                                         *)
(* A task takes one step per await.  What it reads once of state that      *)
(* others change at any time is an input: the mode of the proxy, the       *)
(* routes discovery knows, whether premium routes are better.  One byte of *)
(* a premium route costs one unit; how the ledger records it is in         *)
(* CreditLedger, here a charge is one step.  What a task records of each    *)
(* provider is in ProviderMetrics.                                         *)
(***************************************************************************)
EXTENDS Integers, Sequences, FiniteSets

CONSTANTS
  Tasks,      \* tasks that may run at the same time
  Static,     \* configured routes
  Dynamic,    \* routes that may be discovered
  Premium,    \* discovered routes with a price
  ForAll,     \* routes for every target; the others are for Telegram only
  Rank,       \* order among configured routes, by position, and among discovered
              \* ones, by reputation, then bandwidth; higher goes first
  Direct,     \* no route
  Limit,      \* debt from which the ledger allows no premium route
  MaxClosed,  \* closed entries the registry keeps (500 in the code)
  MaxBytes,   \* bound on the bytes one direction of a session counts
  MaxConns    \* bound on the number of connections registered

Routes == Static \cup Dynamic

ASSUME ProxyAssumption ==
  /\ IsFiniteSet(Tasks) /\ IsFiniteSet(Static) /\ IsFiniteSet(Dynamic)
  /\ Static \cap Dynamic = {} /\ Direct \notin Routes
  /\ Premium \subseteq Dynamic
  /\ ForAll \subseteq Routes /\ Dynamic \subseteq ForAll
  /\ Rank \in [Routes -> Int]
  /\ Limit \in Nat /\ MaxClosed \in Nat /\ MaxBytes \in Nat /\ MaxConns \in Nat

VARIABLES
  task,        \* what each task is doing
  registry,    \* status of the entry of each connection
  registered,  \* number of connections registered so far
  debt         \* debt of the account

vars == <<task, registry, registered, debt>>

\* A mode is a text: "other" stands for every one the proxy has no branch for, which
\* a configuration or a caller may give it.
Modes == {"off", "telegram", "full", "other"}

\* The modes that send anything through routes.
Routing == {"telegram", "full"}

\* What is_relay_infrastructure and is_telegram_target tell apart; "infra" is the relay.
Targets == {"telegram", "infra", "other"}

Ids == 1..MaxConns

NoTask == [pc |-> "idle", id |-> 0, mode |-> "off", target |-> "other", allowed |-> FALSE,
           plan |-> <<>>, next |-> 1, via |-> Direct]

-----------------------------------------------------------------------------
(* Choosing routes. *)

\* ConfiguredTransport::mode_matches_target
MatchesTarget(r, target, mode) ==
  \/ target = "telegram" /\ mode \in Routing
  \/ target # "telegram" /\ mode = "full" /\ r \in ForAll

\* RouteDiscoveryService::get_transports, when discovery knows `routes`.
Discovered(routes, target, mode, allowed) ==
  {r \in routes : /\ mode = "full" \/ (mode = "telegram" /\ target = "telegram")
                  /\ r \in Premium => allowed}

\* order_candidate_transports: configured, then free, then premium routes, unless
\* premium ones are better; each group by rank.
Group(r, premiumFirst) ==
  CASE r \in Static  -> 2
    [] r \in Premium -> IF premiumFirst THEN 1 ELSE 4
    [] OTHER         -> 3

Before(r, s, premiumFirst) ==
  \/ Group(r, premiumFirst) < Group(s, premiumFirst)
  \/ Group(r, premiumFirst) = Group(s, premiumFirst) /\ Rank[r] > Rank[s]

\* The sorting is stable, and discovery lists routes in any order: routes of the
\* same rank come in any order.
Orderings(routes, premiumFirst) ==
  {p \in [1..Cardinality(routes) -> routes] :
     /\ \A r \in routes : \E i \in DOMAIN p : p[i] = r
     /\ \A i, j \in DOMAIN p : i < j => ~ Before(p[j], p[i], premiumFirst)}

\* select_transport_plan
IsDirect(target, mode) ==
  \/ target = "infra"
  \/ mode \notin Routing
  \/ mode = "telegram" /\ target # "telegram"

Plans(found, premiumFirst, target, mode) ==
  IF IsDirect(target, mode) THEN {<<>>}
  ELSE Orderings({r \in Static \cup found : MatchesTarget(r, target, mode)}, premiumFirst)

\* premium_is_materially_better, asked only with credit.  It looks up the routes again,
\* which may have changed, and compares scores, which are not modelled.
PremiumBetter(allowed) == IF allowed THEN BOOLEAN ELSE {FALSE}

-----------------------------------------------------------------------------
(* The connection registry. *)

\* register, under the next number
Opened(id) == [registry EXCEPT ![id] = "active"]

Closed(reg) == {i \in Ids : reg[i] = "closed"}

\* gc: the oldest closed entries are removed until MaxClosed are left.  Connections are
\* numbered in the order of their start times.
Gc(reg) ==
  LET excess == Cardinality(Closed(reg)) - MaxClosed
  IN [i \in Ids |-> IF i \in Closed(reg) /\ Cardinality({j \in Closed(reg) : j < i}) < excess
                      THEN "none" ELSE reg[i]]

Close(t) ==
  [registry EXCEPT ![task[t].id] = IF @ = "none" THEN @ ELSE "closed"]

-----------------------------------------------------------------------------
Init ==
  /\ task = [t \in Tasks |-> NoTask]
  /\ registry = [i \in Ids |-> "none"]
  /\ registered = 0
  /\ debt = 0

Return(t) == task' = [task EXCEPT ![t] = NoTask]

\* run: the task gets the mode of this moment, and the registry is cleaned.
Accept(t) ==
  /\ task[t].pc = "idle"
  /\ \E mode \in Modes : task' = [task EXCEPT ![t].pc = "handshake", ![t].mode = mode]
  /\ registry' = Gc(registry)
  /\ UNCHANGED <<registered, debt>>

\* The client says something else than SOCKS5 CONNECT.
HandshakeFails(t) ==
  /\ task[t].pc = "handshake"
  /\ Return(t)
  /\ UNCHANGED <<registry, registered, debt>>

\* The client asks for a target, and the task for its credit: current_status.  Premium
\* routes are not allowed without an accepted trial or when the status cannot be had.
Request(t) ==
  /\ task[t].pc = "handshake"
  /\ \E target \in Targets, allowed \in BOOLEAN :
       /\ allowed => debt < Limit
       /\ task' = [task EXCEPT ![t].pc = "plan", ![t].target = target, ![t].allowed = allowed]
  /\ UNCHANGED <<registry, registered, debt>>

\* The connection is registered, and the task goes on with its plan.
Registered(t, plan) ==
  /\ task' = [task EXCEPT ![t].id = registered + 1, ![t].plan = plan, ![t].allowed = FALSE,
                ![t].pc = IF IsDirect(task[t].target, task[t].mode) THEN "direct"
                          ELSE IF plan = <<>> THEN "refuse" ELSE "try"]
  /\ registered' = registered + 1
  /\ registry' = Opened(registered + 1)

\* Mutant: premium routes are discovered without credit.
PlanAllowed(t) ==
  /\ task[t].pc = "plan" /\ registered < MaxConns
  /\ LET k == task[t] IN
       \E routes \in SUBSET Dynamic, premiumFirst \in PremiumBetter(k.allowed) :
         LET found == Discovered(routes, k.target, k.mode, TRUE) IN
           \E plan \in Plans(found, premiumFirst, k.target, k.mode) : Registered(t, plan)
  /\ UNCHANGED debt

\* Routes are discovered and ordered, and the connection is registered.
Plan(t) ==
  /\ task[t].pc = "plan" /\ registered < MaxConns
  /\ LET k == task[t] IN
       \E routes \in SUBSET Dynamic, premiumFirst \in PremiumBetter(k.allowed) :
         LET found == Discovered(routes, k.target, k.mode, k.allowed) IN
           \E plan \in Plans(found, premiumFirst, k.target, k.mode) : Registered(t, plan)
  /\ UNCHANGED debt

\* do_direct
ConnectDirect(t) ==
  /\ task[t].pc = "direct"
  /\ \E pc \in {"reply", "refuse"} : task' = [task EXCEPT ![t].pc = pc]
  /\ UNCHANGED <<registry, registered, debt>>

TryRoute(t) ==
  /\ task[t].pc = "try"
  /\ task' = [task EXCEPT ![t].pc = "reply", ![t].via = task[t].plan[task[t].next],
                          ![t].plan = <<>>, ![t].next = 1]
  /\ UNCHANGED <<registry, registered, debt>>

\* Mutant: when every route has failed, the target is contacted directly.
RouteFailsOpen(t) ==
  /\ task[t].pc = "try"
  /\ task' = [task EXCEPT ![t].next = @ + 1,
                ![t].pc = IF task[t].next = Len(task[t].plan) THEN "direct" ELSE "try"]
  /\ UNCHANGED <<registry, registered, debt>>

RouteFails(t) ==
  /\ task[t].pc = "try"
  /\ task' = [task EXCEPT ![t].next = @ + 1,
                ![t].pc = IF task[t].next = Len(task[t].plan) THEN "refuse" ELSE "try"]
  /\ UNCHANGED <<registry, registered, debt>>

\* The success reply.  The request has no part in what follows.
Reply(t) ==
  /\ task[t].pc = "reply"
  /\ task' = [task EXCEPT ![t] = [NoTask EXCEPT !.pc = "copy", !.id = task[t].id,
                                             !.via = task[t].via]]
  /\ UNCHANGED <<registry, registered, debt>>

\* The failure reply.
Refuse(t) ==
  /\ task[t].pc = "refuse"
  /\ Return(t)
  /\ registry' = Close(t)
  /\ UNCHANGED <<registered, debt>>

\* A reply cannot be written: the task returns, and its entry stays active.
ClientGone(t) ==
  /\ task[t].pc \in {"reply", "refuse"}
  /\ Return(t)
  /\ UNCHANGED <<registry, registered, debt>>

-----------------------------------------------------------------------------
\* copy_with_rate_limit: the bytes one direction counts when it has ended.  One that
\* ends with an error counts 0, whatever it has copied.
Copied == 0..MaxBytes

\* Both directions are copied until both have ended, and record_usage.  Free routes
\* cost nothing; an error of the ledger is only logged.
CopyAndCharge(t) ==
  /\ task[t].pc = "copy"
  /\ task' = [task EXCEPT ![t].pc = "close", ![t].via = Direct]
  /\ \/ /\ task[t].via \in Premium
        /\ \E up, down \in Copied : debt' = debt + up + down
     \/ UNCHANGED debt
  /\ UNCHANGED <<registry, registered>>

Finish(t) ==
  /\ task[t].pc = "close"
  /\ Return(t)
  /\ registry' = Close(t)
  /\ UNCHANGED <<registered, debt>>

-----------------------------------------------------------------------------
TaskStep(t) ==
  \/ HandshakeFails(t) \/ Request(t) \/ Plan(t)
  \/ ConnectDirect(t) \/ TryRoute(t) \/ RouteFails(t)
  \/ Reply(t) \/ Refuse(t) \/ ClientGone(t)
  \/ CopyAndCharge(t) \/ Finish(t)

Next == \E t \in Tasks : Accept(t) \/ TaskStep(t)

Spec == Init /\ [][Next]_vars

-----------------------------------------------------------------------------
Task ==
  [pc : {"idle", "handshake", "plan", "direct", "try", "reply", "refuse", "copy", "close"},
   id : 0..MaxConns, mode : Modes, target : Targets, allowed : BOOLEAN,
   plan : Seq(Routes), next : Nat, via : Routes \cup {Direct}]

TypeOK ==
  /\ task \in [Tasks -> Task]
  /\ \A t \in Tasks : task[t].pc = "try" => task[t].next \in DOMAIN task[t].plan
  /\ registry \in [Ids -> {"none", "active", "closed"}]
  /\ registered \in 0..MaxConns
  /\ debt \in Nat

Contacting(t) == task[t].pc \in {"direct", "reply"}

\* Telegram is contacted directly only by a connection accepted while the proxy
\* was off or had a mode it does not know, whichever routes fail; and the relay's
\* own traffic never goes through a route.
ModeIsRespected ==
  \A t \in Tasks : Contacting(t) =>
    /\ task[t].via = Direct /\ task[t].target = "telegram" => task[t].mode \notin Routing
    /\ task[t].via # Direct => task[t].target # "infra" /\ task[t].mode \in Routing

\* A connection that needs a route is refused only after every configured route
\* for its target has failed, wherever premium routes were put among them.
RefusedLast ==
  \A t \in Tasks :
    task[t].pc = "refuse" /\ ~IsDirect(task[t].target, task[t].mode) =>
      \A r \in Static : MatchesTarget(r, task[t].target, task[t].mode) =>
        \E i \in 1..(task[t].next - 1) : task[t].plan[i] = r

Serving(t) == task[t].pc \in {"direct", "try", "reply", "refuse", "copy", "close"}

\* The registry lists every connection being served as active, and no two tasks
\* serve the same entry, whatever is cleaned and closed meanwhile.
ServedIsListed ==
  /\ \A t \in Tasks : Serving(t) => registry[task[t].id] = "active"
  /\ \A t, u \in Tasks : Serving(t) /\ Serving(u) /\ t # u => task[t].id # task[u].id

\* However many sessions run at the same time on a credit that each of them saw, the
\* debt exceeds the limit by less than one session for each task.
OverdraftIsBounded ==
  debt > 0 => debt < Limit + Cardinality(Tasks) * 2 * MaxBytes
=============================================================================
