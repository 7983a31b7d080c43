----------------------------- MODULE DealAgent -----------------------------
(***************************************************************************)
(* What hydra-ai decides, as pure operators: the DealAgent's choice among   *)
(* the active offers of the deal board, and the fallback of decide_route.   *)
(* The language model is a black box: its reply is a list of offer ids, or  *)
(* Unusable, which also stands for no model, a failed inference and a text  *)
(* without such a list.  Scores are floating-point numbers in the code and  *)
(* fractions here, which are compared without being rounded.                *)
(***************************************************************************)
EXTENDS Integers, Sequences, FiniteSets, SequencesExt

CONSTANTS
  MinReputation,   \* min_dealer_reputation of the [agent] section
  Preferred,       \* preferred_payment_methods
  AutoSpendLimit,  \* auto_spend_limit
  Listings,        \* listings of offers the agent may have read
  Spendings,       \* amounts to be spent
  PeerLists,       \* peers a route may be asked for with
  Replies,         \* lists the model can answer
  RateUnit         \* 1e8, which rates are normalised by

Unusable == "unusable"
NoDeal == [kind |-> "NoDeal"]

\* The deal board refuses a rate of zero, and gives every offer its own id.
IsListing(listing) ==
  /\ listing \in Seq(Range(listing))
  /\ \A offer \in Range(listing) : offer.reputation \in Int /\ offer.rate \in Nat \ {0}
  /\ \A o, offer \in Range(listing) : o.id = offer.id => o = offer

ASSUME AgentAssumption ==
  /\ MinReputation \in Int /\ AutoSpendLimit \in Nat /\ RateUnit \in Nat \ {0}
  /\ Spendings \subseteq Nat
  /\ \A listing \in Listings : IsListing(listing)
  /\ PeerLists \subseteq Seq([trust : Int, debt : Int])
  /\ \A reply \in Replies : reply = Unusable \/ reply \in Seq(Nat)

\* The elements of S in the order R, a set of pairs: each behind as many as
\* precede it.
Below(S, R, x) == {y \in S : <<y, x>> \in R}

InOrder(S, R) ==
  [k \in 1..Cardinality(S) |-> CHOOSE x \in S : Cardinality(Below(S, R, x)) = k - 1]

Ascending(S) == InOrder(S, {r \in S \X S : r[1] < r[2]})

-----------------------------------------------------------------------------
(* The deal agent.  An offer is [id, reputation, rate, methods].            *)

Eligible(offer) == offer.reputation >= MinReputation

ReputationScore(offer) == Min({Max({offer.reputation, 0}), 100})

\* A fraction [num, den]: 1 / (1 + rate / 1e8), or nothing for no rate.
RateScore(offer) ==
  IF offer.rate = 0 THEN [num |-> 0, den |-> 1]
  ELSE [num |-> RateUnit, den |-> RateUnit + offer.rate]

PaymentMethodScore(offer) ==
  IF Preferred = {} THEN 5
  ELSE IF offer.methods \cap Preferred # {} THEN 10 ELSE 1

\* 500 times the code's score: 0.4 of it for the reputation out of 100, 0.4
\* for the rate, 0.2 for the payment method (1, neutral 0.5, or 0.1).
Score(offer) ==
  [num |-> (2 * ReputationScore(offer) + 10 * PaymentMethodScore(offer)) * RateScore(offer).den
             + 200 * RateScore(offer).num,
   den |-> RateScore(offer).den]

\* Fraction a is greater than b.
Exceeds(a, b) == a.num * b.den > b.num * a.den

\* Position i of a list comes before j: the better score first, and equal
\* scores in the order they have.
Precedes(list, i, j) ==
  \/ Exceeds(Score(list[i]), Score(list[j]))
  \/ ~ Exceeds(Score(list[j]), Score(list[i])) /\ i < j

\* The positions of the offers the agent accepts, best first.
Ranking(listing) ==
  LET accepted == {i \in DOMAIN listing : Eligible(listing[i])}
  IN  InOrder(accepted, {r \in accepted \X accepted : Precedes(listing, r[1], r[2])})

\* Mutant: the worst score first.
ScoredUp(listing) ==
  LET ranking == Ranking(listing)
  IN  [k \in DOMAIN ranking |-> listing[ranking[Len(ranking) + 1 - k]]]

Scored(listing) == [k \in DOMAIN Ranking(listing) |-> listing[Ranking(listing)[k]]]

\* parse_rerank_response: the offers the model names, in its order, as often
\* as it names them, and then those it left out.
OfferOf(scored, id) == scored[CHOOSE k \in DOMAIN scored : scored[k].id = id]

Named(scored, ids) ==
  LET known == Ascending({n \in DOMAIN ids : \E k \in DOMAIN scored : scored[k].id = ids[n]})
  IN  [m \in DOMAIN known |-> OfferOf(scored, ids[known[m]])]

LeftOut(scored, ids) ==
  LET others == Ascending({k \in DOMAIN scored : scored[k].id \notin Range(ids)})
  IN  [m \in DOMAIN others |-> scored[others[m]]]

Reranked(scored, ids) == Named(scored, ids) \o LeftOut(scored, ids)

\* llm_rerank, which leaves a single offer alone.
Rerank(scored, reply) ==
  IF reply = Unusable \/ Len(scored) <= 1 THEN scored ELSE Reranked(scored, reply)

\* find_best_deal on a listing that was read, for an amount.
FindBestDeal(listing, amount, reply) ==
  LET scored == Scored(listing) IN
  IF scored = <<>> THEN NoDeal
  ELSE [kind |-> IF amount <= AutoSpendLimit THEN "AutoApproved" ELSE "NeedsConfirmation",
        offer |-> Head(Rerank(scored, reply))]

-----------------------------------------------------------------------------
(* decide_route.  A peer is [trust, debt]; a path names peers by position.  *)

Direct == <<>>

\* The order the fallback sorts the peers in.
Preferable(peers, i, j) ==
  \/ peers[i].trust > peers[j].trust
  \/ peers[i].trust = peers[j].trust /\ peers[i].debt < peers[j].debt
  \/ peers[i].trust = peers[j].trust /\ peers[i].debt = peers[j].debt /\ i < j

\* The most trusted peer, the one we owe least among equals, or none.
Fallback(peers) ==
  LET all  == DOMAIN peers
      best == InOrder(all, {r \in all \X all : Preferable(peers, r[1], r[2])})[1]
  IN  IF peers[best].trust < 50 THEN Direct ELSE <<best>>

\* The path of a request that is not in the cache.
DecideRoute(peers, localhost, reply) ==
  IF peers = <<>> \/ localhost THEN Direct
  ELSE IF reply = Unusable THEN Fallback(peers) ELSE reply

-----------------------------------------------------------------------------
(* What the choices promise, whatever the model says.                      *)

Cheaper(o, offer) ==
  /\ o.rate < offer.rate
  /\ o.reputation >= offer.reputation
  /\ PaymentMethodScore(o) >= PaymentMethodScore(offer)

\* The agent settles on a listed offer of a dealer it accepts, or on none when
\* there is none; the model can reorder the offers and neither drop nor invent
\* one; without it no accepted offer is cheaper and otherwise as good; and
\* nothing above the limit is bought without the user.
DealIsJustified(listing, amount, reply) ==
  LET deal == FindBestDeal(listing, amount, reply)
      eligible == {o \in Range(listing) : Eligible(o)}
  IN  IF eligible = {} THEN deal = NoDeal
      ELSE /\ deal.offer \in eligible
           /\ Range(Rerank(Scored(listing), reply)) = eligible
           /\ reply = Unusable => \A o \in eligible : ~ Cheaper(o, deal.offer)
           /\ deal.kind = "AutoApproved" <=> amount <= AutoSpendLimit

\* Without the model a route names one peer, trusted at least 50 and by nobody
\* asked about surpassed, or is direct when no peer is trusted that much.
RouteIsJustified(peers, localhost) ==
  LET path == DecideRoute(peers, localhost, Unusable)
      trusted == {i \in DOMAIN peers : peers[i].trust >= 50}
  IN  IF localhost \/ trusted = {} THEN path = Direct
      ELSE /\ path[1] \in trusted
           /\ \A i \in trusted : peers[i].trust <= peers[path[1]].trust
           /\ \A i \in trusted : peers[i].trust = peers[path[1]].trust =>
                peers[i].debt >= peers[path[1]].debt

DealsAreJustified(replies) ==
  \A listing \in Listings, amount \in Spendings, reply \in replies :
    DealIsJustified(listing, amount, reply)

JustifiedWithout ==
  /\ DealsAreJustified({Unusable})
  /\ \A peers \in PeerLists, localhost \in BOOLEAN : RouteIsJustified(peers, localhost)

JustifiedWith == DealsAreJustified(Replies)
=============================================================================
