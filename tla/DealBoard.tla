----------------------------- MODULE DealBoard -----------------------------
(***************************************************************************)
(* HydraDealBoard.sol: dealers post offers to sell USDC for fiat; accepting *)
(* one pulls the dealer's USDC into an escrow that ends completed, rejected *)
(* or expired.  Every external function is one action; its first argument  *)
(* is msg.sender, and the conditions without which the function reverts    *)
(* are a conjunct with a name of its own, Can..., for those who simulate a *)
(* transaction before they send it.  Currencies and payment methods are    *)
(* left out: they are validated and stored but nothing on chain depends on *)
(* them.                                                                   *)
(***************************************************************************)
EXTENDS BaseChain, Sums, FiniteSets

CONSTANTS
  Board,          \* address of the contract
  EscrowTimeout,  \* immutable escrowTimeout (uint256)
  U64,            \* 2^64
  Scale,          \* 1e6, the fixed-point unit of rates
  Rates,          \* rates an offer can be created with
  MaxOffers,      \* bound on the number of offers
  MaxEscrows      \* bound on the number of escrows

ASSUME BoardAssumption ==
  /\ Board \in Contracts
  /\ EscrowTimeout \in Nat \ {0}
  /\ U64 \in Nat \ {0}
  /\ Scale \in Nat \ {0}
  /\ Rates \subseteq Nat \ {0}
  /\ MaxOffers \in Nat
  /\ MaxEscrows \in Nat

VARIABLES
  offers,    \* _offers; offer ids are the positions, _offerCount the length
  escrows,   \* _escrows, likewise
  feedback   \* summary of the "deal" feedback the board gave, per agent

boardVars == <<offers, escrows, feedback>>
dealBoardVars == <<chainVars, boardVars>>

Open == {"Funded", "Sent"}
Settled == {"Completed", "Rejected", "Expired"}

DealOffer ==
  [dealer : Users, agentId : Agents, rate : Nat \ {0},
   minAmount : Nat \ {0}, maxAmount : Nat \ {0}, active : BOOLEAN]

Escrow ==
  [offerId : Nat \ {0}, buyer : Users, dealer : Users, usdcAmount : Nat,
   fiatAmount : Nat, status : Open \cup Settled,
   createdAt : Nat, expiresAt : Nat]

BoardTypeOK ==
  /\ ChainTypeOK
  /\ offers \in Seq(DealOffer)
  /\ escrows \in Seq(Escrow)
  /\ \A i \in DOMAIN escrows : escrows[i].offerId \in DOMAIN offers
  /\ feedback \in [Agents -> [count : Nat, sum : Int]]

BoardInit ==
  /\ ChainInit
  /\ offers = <<>>
  /\ escrows = <<>>
  /\ feedback = [agent \in Agents |-> [count |-> 0, sum |-> 0]]

-----------------------------------------------------------------------------
(* Offers.                                                                 *)

CanCreateDealOffer(dealer, agent, rate, min, max) ==
  /\ Len(offers) < MaxOffers
  /\ ownerOf[agent] = dealer
  /\ rate # 0 /\ min # 0 /\ max # 0 /\ min <= max

CreateDealOffer(dealer, agent, rate, min, max) ==
  /\ CanCreateDealOffer(dealer, agent, rate, min, max)
  /\ offers' = Append(offers,
       [dealer |-> dealer, agentId |-> agent, rate |-> rate,
        minAmount |-> min, maxAmount |-> max, active |-> TRUE])
  /\ UNCHANGED <<chainVars, escrows, feedback>>

CanDeactivateDealOffer(dealer, offerId) ==
  offers[offerId].dealer = dealer /\ offers[offerId].active

DeactivateDealOffer(dealer, offerId) ==
  /\ CanDeactivateDealOffer(dealer, offerId)
  /\ offers' = [offers EXCEPT ![offerId].active = FALSE]
  /\ UNCHANGED <<chainVars, escrows, feedback>>

-----------------------------------------------------------------------------
(* Escrows.  Times are uint64: the conversion of the timestamp and of the  *)
(* timeout truncates, the addition is checked and reverts on overflow.     *)
(* AcceptDeal is bounded so that every deadline comes before MaxTime.      *)

Now64 == now % U64
Window == EscrowTimeout % U64

FiatAmount(amount, rate) == (amount * rate) \div Scale

CanAcceptDeal(offerId, amount) ==
  LET offer == offers[offerId] IN
  /\ Len(escrows) < MaxEscrows
  /\ Now64 + Window <= MaxTime
  /\ offer.active
  /\ offer.minAmount <= amount /\ amount <= offer.maxAmount
  /\ amount * offer.rate <= MaxUint
  /\ CanTransferFrom(offer.dealer, Board, amount)
  /\ Now64 + Window < U64

AcceptDeal(buyer, offerId, amount) ==
  LET offer == offers[offerId] IN
  /\ CanAcceptDeal(offerId, amount)
  /\ balanceOf' = Moved(offer.dealer, Board, amount)
  /\ allowance' = Spent(offer.dealer, Board, amount)
  /\ escrows' = Append(escrows,
       [offerId |-> offerId, buyer |-> buyer, dealer |-> offer.dealer,
        usdcAmount |-> amount, fiatAmount |-> FiatAmount(amount, offer.rate),
        status |-> "Funded", createdAt |-> Now64,
        expiresAt |-> Now64 + Window])
  /\ UNCHANGED <<now, ownerOf, donated, offers, feedback>>

CanMarkFiatSent(buyer, id) ==
  /\ escrows[id].buyer = buyer
  /\ escrows[id].status = "Funded"
  /\ now < escrows[id].expiresAt

MarkFiatSent(buyer, id) ==
  /\ CanMarkFiatSent(buyer, id)
  /\ escrows' = [escrows EXCEPT ![id].status = "Sent"]
  /\ UNCHANGED <<chainVars, offers, feedback>>

\* The board has the USDC of the escrow.
CanPay(id) == CanTransfer(Board, escrows[id].usdcAmount)

\* The escrow ends with this status and its USDC goes to the recipient.
Settle(id, status, recipient) ==
  /\ escrows' = [escrows EXCEPT ![id].status = status]
  /\ balanceOf' = Moved(Board, recipient, escrows[id].usdcAmount)
  /\ UNCHANGED <<now, allowance, ownerOf, donated, offers>>

\* Mutant: every feedback is positive.
SubmitFeedbackPositive(id, value) ==
  LET agent == offers[escrows[id].offerId].agentId IN
  feedback' = [feedback EXCEPT
    ![agent] = [count |-> @.count + 1, sum |-> @.sum + 1]]

\* _submitReputationFeedback for the agent of the escrow's offer.
SubmitFeedback(id, value) ==
  LET agent == offers[escrows[id].offerId].agentId IN
  feedback' = [feedback EXCEPT
    ![agent] = [count |-> @.count + 1, sum |-> @.sum + value]]

CanConfirmReceipt(dealer, id) ==
  escrows[id].dealer = dealer /\ escrows[id].status = "Sent" /\ CanPay(id)

ConfirmReceipt(dealer, id) ==
  /\ CanConfirmReceipt(dealer, id)
  /\ Settle(id, "Completed", escrows[id].buyer)
  /\ SubmitFeedback(id, 1)

CanRejectDeal(dealer, id) ==
  escrows[id].dealer = dealer /\ escrows[id].status = "Funded" /\ CanPay(id)

RejectDeal(dealer, id) ==
  /\ CanRejectDeal(dealer, id)
  /\ Settle(id, "Rejected", escrows[id].dealer)
  /\ UNCHANGED feedback

CanClaimExpired(id) ==
  escrows[id].status \in Open /\ now >= escrows[id].expiresAt /\ CanPay(id)

\* Mutant: a rejected escrow can still be claimed.
ClaimExpiredAgain(id) ==
  /\ escrows[id].status \in Open \cup {"Rejected"}
  /\ now >= escrows[id].expiresAt
  /\ CanPay(id)
  /\ Settle(id, "Expired", escrows[id].buyer)
  /\ SubmitFeedback(id, -1)

\* Mutant: only escrows marked Sent can be claimed.
ClaimExpiredSentOnly(id) ==
  /\ escrows[id].status = "Sent"
  /\ now >= escrows[id].expiresAt
  /\ CanPay(id)
  /\ Settle(id, "Expired", escrows[id].buyer)
  /\ SubmitFeedback(id, -1)

\* Mutant: the deadline is compared the wrong way round in the last instant.
ClaimExpiredEarly(id) ==
  /\ escrows[id].status \in Open
  /\ now + 1 >= escrows[id].expiresAt
  /\ CanPay(id)
  /\ Settle(id, "Expired", escrows[id].buyer)
  /\ SubmitFeedback(id, -1)

\* Mutant: an expired escrow is returned to the dealer.
ClaimExpiredRefund(id) ==
  /\ CanClaimExpired(id)
  /\ Settle(id, "Expired", escrows[id].dealer)
  /\ SubmitFeedback(id, -1)

\* Anyone may call it, so the sender is not an argument.
ClaimExpired(id) ==
  /\ CanClaimExpired(id)
  /\ Settle(id, "Expired", escrows[id].buyer)
  /\ SubmitFeedback(id, -1)

-----------------------------------------------------------------------------
BoardStep ==
  \/ \E dealer \in Users :
       \/ \E agent \in Agents, rate \in Rates, min, max \in Amounts :
            CreateDealOffer(dealer, agent, rate, min, max)
       \/ \E offerId \in DOMAIN offers : DeactivateDealOffer(dealer, offerId)
       \/ \E id \in DOMAIN escrows :
            ConfirmReceipt(dealer, id) \/ RejectDeal(dealer, id)
  \/ \E buyer \in Users :
       \/ \E offerId \in DOMAIN offers, amount \in Amounts :
            AcceptDeal(buyer, offerId, amount)
       \/ \E id \in DOMAIN escrows : MarkFiatSent(buyer, id)
  \/ \E id \in DOMAIN escrows : ClaimExpired(id)

BoardNext ==
  \/ BoardStep
  \/ ChainStep /\ UNCHANGED boardVars

BoardSpec == BoardInit /\ [][BoardNext]_dealBoardVars

-----------------------------------------------------------------------------
(* Safety.                                                                 *)

Held(escrow) == IF escrow.status \in Open THEN escrow.usdcAmount ELSE 0

HeldIn(list) == SumTo([i \in DOMAIN list |-> Held(list[i])], Len(list))

Locked == HeldIn(escrows)

\* The USDC the board owns is exactly what its open escrows hold plus what
\* was sent to it directly.  Every payout path (confirmReceipt, rejectDeal,
\* claimExpired) and every deposit (acceptDeal) has to agree on the amount
\* and pay it once, or a later buyer cannot be paid.
Solvency == balanceOf[Board] = Locked + donated[Board]

EscrowsOf(agent, statuses) ==
  {i \in DOMAIN escrows : /\ escrows[i].status \in statuses
                          /\ offers[escrows[i].offerId].agentId = agent}

\* An agent's reputation is the record of its escrows that did not end by a
\* rejection: one entry for each completed (+1) or expired (-1) one, whoever took
\* part and whoever owns the agent by then.  A rejection leaves no entry, against
\* what the manual says: the next property.
ReputationMatchesSettlements ==
  \A agent \in Agents :
    LET completed == Cardinality(EscrowsOf(agent, {"Completed"}))
        expired == Cardinality(EscrowsOf(agent, {"Expired"}))
    IN  feedback[agent] = [count |-> completed + expired,
                           sum |-> completed - expired]

\* SERVICE_MANUAL.md:331: "Reputation feedback via ERC-8004 ReputationRegistry on
\* completion/rejection".  rejectDeal sends none, so this does not hold.
FeedbackOnCompletionAndRejection ==
  \A agent \in Agents :
    feedback[agent].count >= Cardinality(EscrowsOf(agent, {"Completed", "Rejected"}))

\* "Time window for the dealer to confirm fiat receipt after escrow creation":
\* no escrow expires before the whole escrowTimeout has passed.
DealerHasTheWholeWindow ==
  \A i \in DOMAIN escrows :
    escrows[i].status = "Expired" => now >= escrows[i].createdAt + EscrowTimeout

-----------------------------------------------------------------------------
(* What a step may never do.                                               *)

Terms(escrow) == [escrow EXCEPT !.status = "Funded"]

Edges == {<<"Funded", "Sent">>, <<"Funded", "Rejected">>, <<"Funded", "Expired">>,
          <<"Sent", "Completed">>, <<"Sent", "Expired">>}

\* Escrows and offers are never removed, their terms never change, an escrow
\* only takes the steps of its life cycle (a buyer who marked the fiat sent
\* can no longer be rejected, a settled escrow stays settled) and a
\* deactivated offer stays deactivated.
Lifecycle ==
  /\ Len(escrows') >= Len(escrows)
  /\ \A i \in DOMAIN escrows :
       /\ Terms(escrows'[i]) = Terms(escrows[i])
       /\ \/ escrows'[i].status = escrows[i].status
          \/ <<escrows[i].status, escrows'[i].status>> \in Edges
  /\ Len(offers') >= Len(offers)
  /\ \A i \in DOMAIN offers :
       offers'[i] \in {offers[i], [offers[i] EXCEPT !.active = FALSE]}

LifecycleRespected == [][Lifecycle]_dealBoardVars

\* The party the outcome entitles to the USDC.
Entitled(escrow) ==
  IF escrow.status = "Rejected" THEN escrow.dealer ELSE escrow.buyer

\* When an escrow settles, its whole amount moves from the board to the party
\* its outcome entitles, and nobody else's balance changes.
PaysTheEntitled ==
  \A i \in DOMAIN escrows :
    (escrows[i].status \in Open /\ escrows'[i].status \in Settled) =>
      \A a \in Accounts :
        balanceOf'[a] - balanceOf[a] =
          CASE a = Board -> - escrows[i].usdcAmount
            [] a = Entitled(escrows'[i]) -> escrows[i].usdcAmount
            [] OTHER -> 0

EntitledArePaid == [][PaysTheEntitled]_dealBoardVars

-----------------------------------------------------------------------------
(* What the board is for.                                                  *)

BoardCustody == INSTANCE Custody WITH
  Deposits <- Amounts,
  held <- [i \in DOMAIN escrows |-> Held(escrows[i])],
  pot <- balanceOf[Board]

\* The board implements Custody: whatever its functions do in between, USDC
\* enters as a recorded deposit or a gift, and leaves only as one whole
\* deposit, once.
BoardKeepsCustody == BoardCustody!Spec

-----------------------------------------------------------------------------
(* Liveness.                                                               *)

StatusIn(id, statuses) == id \in DOMAIN escrows /\ escrows[id].status \in statuses

\* Nobody can keep USDC in escrow for ever: every escrow is settled in the
\* end, whatever its dealer and its buyer do or fail to do.
EveryEscrowSettles ==
  \A id \in 1..MaxEscrows : StatusIn(id, Open) ~> StatusIn(id, Settled)
=============================================================================
