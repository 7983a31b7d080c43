--------------------------- MODULE RouteDiscovery ---------------------------
(***************************************************************************)
(* RouteDiscoveryService (hydra-core/src/discovery.rs) on one node of the  *)
(* mesh.  A polling task lists the active offers of the route book, one RPC *)
(* after the other under one timeout, and caches what it found for one     *)
(* polling interval.  The current routes are the cached ones and the       *)
(* announcements the node still shows, scored and sorted.                  *)
(*                                                                         *)
(* Scores are in hundredths of a point, prices in whole USDC; the rounding *)
(* of the code's floating point is left out.  An on-chain offer i and an   *)
(* announcement are the same service when they have the same agent.        *)
(***************************************************************************)
EXTENDS Mesh, FiniteSetsExt, SequencesExt

CONSTANTS
  WithDiscovery, \* the Scripts explored together with a discovery service
  Local,        \* the node the service runs on
  Service,      \* per node: the service it announces
  OnChain,      \* sequence of the services with an offer in the route book
  PollInterval, \* poll_interval_secs, also the cache's time to live
  RpcTimeout,   \* rpc_timeout_secs
  PreferFree,   \* prefer_free
  FreshFor,     \* 86400 s: an offer younger than this is penalised
  Metrics       \* per agent: local routing score and recent failures

ServiceType ==
  [agent : DOMAIN Metrics, endpoint : STRING, price : Nat, bandwidth : Nat,
   regionValid : BOOLEAN]

RatedType ==
  [agent : DOMAIN Metrics, endpoint : STRING, price : Nat, bandwidth : Nat,
   regionValid : BOOLEAN, feedback : Nat, reputation : Int]

ASSUME DiscoveryAssumption ==
  /\ Local \in Nodes
  /\ Service \in [Nodes -> ServiceType]
  /\ OnChain \in Seq(RatedType)
  /\ \A agent \in DOMAIN Metrics : Metrics[agent] \in [score : Nat, failures : Nat]
  /\ PollInterval \in Nat \ {0} /\ RpcTimeout \in Nat \ {0} /\ FreshFor \in Nat
  /\ PreferFree \in BOOLEAN

VARIABLES
  ended,    \* per offer: when it was deactivated; MaxTime + 1 while active
  polling,  \* polling_started; "absent" without a discovery service
  refresh,  \* the refresh in progress, or NoRefresh
  cache     \* the cached offers and when they were put there

discoveryVars == <<ended, polling, refresh, cache>>
vars == <<meshVars, discoveryVars>>

NoRefresh == [since |-> 0, next |-> 0, found |-> {}]
Offers == DOMAIN OnChain
Active(i) == ended[i] > MaxTime

TypeOK ==
  /\ MeshTypeOK
  /\ ended \in [Offers -> 0..MaxTime + 1]
  /\ polling \in {"absent", "off", "on"}
  /\ refresh \in [since : 0..MaxTime, next : 0..Len(OnChain) + 1, found : SUBSET Offers]
  /\ cache \in [offers : SUBSET Offers, at : 0..MaxTime]

Init ==
  /\ MeshInit
  /\ ended = [i \in Offers |-> MaxTime + 1]
  /\ polling = IF script \in WithDiscovery THEN "off" ELSE "absent"
  /\ refresh = NoRefresh
  /\ cache = [offers |-> {}, at |-> 0]

-----------------------------------------------------------------------------
(* Polling.                                                                *)

\* Bound: the chain changes only where somebody looks.
Deactivate(i) ==
  /\ polling # "absent"
  /\ Active(i)
  /\ ended' = [ended EXCEPT ![i] = now]
  /\ UNCHANGED <<meshVars, polling, refresh, cache>>

\* The credit runtime and the server both call it; the first one counts.
StartPolling ==
  /\ polling = "off"
  /\ polling' = "on"
  /\ UNCHANGED <<meshVars, ended, refresh, cache>>

\* The first refresh, or one at a tick of the interval.
StartRefresh ==
  /\ polling = "on" /\ Up(Local)
  /\ refresh = NoRefresh
  /\ refresh' = [since |-> now, next |-> 1, found |-> {}]
  /\ UNCHANGED <<meshVars, ended, polling, cache>>

\* list_active_offers reads one offer.
ReadOffer ==
  /\ refresh # NoRefresh
  /\ refresh.next <= Len(OnChain)
  /\ refresh' = [refresh EXCEPT !.next = @ + 1,
       !.found = IF Active(refresh.next) THEN @ \cup {refresh.next} ELSE @]
  /\ UNCHANGED <<meshVars, ended, polling, cache>>

\* Offers whose endpoint is no transport URL are dropped (parse_offer).
Usable(service) == service.endpoint # "unusable"

Insert ==
  /\ refresh # NoRefresh
  /\ refresh.next > Len(OnChain)
  /\ cache' = [offers |-> {i \in refresh.found : Usable(OnChain[i])}, at |-> now]
  /\ refresh' = NoRefresh
  /\ UNCHANGED <<meshVars, ended, polling>>

\* An RPC error or the timeout: the cache stays as it is.
GiveUp ==
  /\ refresh # NoRefresh
  /\ refresh' = NoRefresh
  /\ UNCHANGED <<meshVars, ended, polling, cache>>

\* Somebody is to announce a service.
Announcing ==
  \E n \in Nodes : \E i \in DOMAIN script[n] : script[n][i] = "PublishServiceAnnouncement"

\* Time passes; the timeout of a listing is punctual.  Bound: the clock runs
\* only with what reads it, announcements and the discovery service.
Tick ==
  /\ polling # "absent" \/ Announcing
  /\ now < MaxTime
  /\ refresh # NoRefresh => now < refresh.since + RpcTimeout
  /\ now' = now + 1
  /\ UNCHANGED <<script, up, loop, queue, caller, pending, store, wire, discoveryVars>>

-----------------------------------------------------------------------------
(* Routes.                                                                 *)

\* A service as one route to it: that of offer i, or of an announcement if i is 0.
Route(service, i, createdAt, feedback, reputation) ==
  [agent |-> service.agent, endpoint |-> service.endpoint, price |-> service.price,
   bandwidth |-> service.bandwidth, regionValid |-> service.regionValid,
   offer |-> i, staked |-> i # 0, createdAt |-> createdAt,
   feedback |-> feedback, reputation |-> reputation]

\* A chain offer, or an announcement (stake zero, no reputation).
ChainRoute(i) == Route(OnChain[i], i, 0, OnChain[i].feedback, OnChain[i].reputation)

GossipRoute(a) == Route(Service[a.from], 0, a.at, 0, 0)

\* Mutant: a cached list is used until a refresh replaces it.
CachedRoutesForever == {ChainRoute(i) : i \in cache.offers}

\* cached_routes: nothing once the time to live is over.
CachedRoutes ==
  IF now < cache.at + PollInterval THEN {ChainRoute(i) : i \in cache.offers} ELSE {}

Routes ==
  CachedRoutes \cup {GossipRoute(a) : a \in {b \in Announcements(Local) : Usable(Service[b.from])}}

IsPremium(r) == r.price > 0

BaseScore(r) ==
  100 * r.bandwidth + 2000 * r.reputation
    + IF IsPremium(r) THEN - 1500 * r.price ELSE 1000

\* The upper median of the prices that are not zero, 0 if there is none.
MedianPrice(routes) ==
  LET priced == {r \in routes : IsPremium(r)}
      prices == SetToSortSeq(priced, LAMBDA a, b : a.price < b.price)
  IN  IF priced = {} THEN 0 ELSE prices[Len(prices) \div 2 + 1].price

PenaltyIf(condition, points) == IF condition THEN points ELSE 0

\* Mutant: only an offer on chain can be found to have no stake.
StakePenaltyForgotten(r) == PenaltyIf(r.offer # 0 /\ ~ r.staked, 1200)

StakePenalty(r) == PenaltyIf(~ r.staked, 1200)

\* apply_risk_penalties.
Penalty(r, routes) ==
    PenaltyIf(IsPremium(r) /\ r.price < (MedianPrice(routes) * 35) \div 100, 1800)
  + PenaltyIf(now - r.createdAt < FreshFor, 400)
  + StakePenalty(r)
  + PenaltyIf(r.feedback < 3, 400)
  + PenaltyIf(r.reputation < 0, - 1800 * r.reputation)
  + 300 * (Cardinality({s \in routes : s.endpoint = r.endpoint}) - 1)
  + PenaltyIf(~ r.regionValid, 600)
  + 200 * Min({Metrics[r.agent].failures, 5})

Bonus(r) ==
  PenaltyIf(r.reputation >= 0 /\ r.feedback > 0, 1200 * r.reputation)
    + 35 * Metrics[r.agent].score

RouteScore(r, routes) == Max({0, BaseScore(r) + Bonus(r) - Penalty(r, routes)})

\* sort_routes: does a come before b?
Before(a, b, routes) ==
  \/ PreferFree /\ IsPremium(b) /\ ~ IsPremium(a)
  \/ /\ PreferFree => IsPremium(a) = IsPremium(b)
     /\ RouteScore(a, routes) > RouteScore(b, routes)

-----------------------------------------------------------------------------
DiscoveryStep ==
  \/ \E i \in Offers : Deactivate(i)
  \/ StartPolling \/ StartRefresh \/ ReadOffer \/ Insert \/ GiveUp

Next ==
  \/ MeshStep /\ UNCHANGED discoveryVars
  \/ DiscoveryStep
  \/ Tick

Spec == Init /\ [][Next]_vars

\* The loop of a running node goes on, an attempt to open a stream or a TCP
\* connection ends, and a request that is not answered fails in the end.
Fairness ==
  \A n \in Nodes :
    /\ WF_vars(TakeCommand(n) /\ UNCHANGED discoveryVars)
    /\ WF_vars(StreamOpened(n) /\ UNCHANGED discoveryVars)
    /\ WF_vars(FinishRequest(n) /\ UNCHANGED discoveryVars)
    /\ WF_vars((\E id \in pending[n] : RequestFails(n, id)) /\ UNCHANGED discoveryVars)

FairSpec == Spec /\ Fairness

-----------------------------------------------------------------------------
\* The routes offered lag behind the chain by at most one listing and one
\* polling interval, whatever the RPC does: an offer deactivated longer ago is
\* not used any more, even if every refresh since has failed.
CacheIsRecent ==
  \A r \in CachedRoutes : now - ended[r.offer] <= PollInterval + RpcTimeout

\* Two routes differ in stake and reputation, and are the same otherwise.
SameService(a, b) ==
  /\ a.agent = b.agent /\ a.endpoint = b.endpoint /\ a.regionValid = b.regionValid
  /\ a.price = b.price /\ a.bandwidth = b.bandwidth

\* SERVICE_MANUAL.md: unstaked gossip routes "score lower than staked on-chain
\* routes and do not displace them, other things being equal".  Of two routes
\* to the same service, the staked one with no bad reputation comes first.
UnstakedRanksBelow ==
  \A a, b \in Routes :
    a.staked /\ ~ b.staked /\ SameService(a, b) /\ a.reputation >= 0 =>
      /\ ~ Before(b, a, Routes)
      /\ RouteScore(a, Routes) > 0 => Before(a, b, Routes)
=============================================================================
