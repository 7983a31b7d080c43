--------------------------- MODULE ExchangeClient ---------------------------
(***************************************************************************)
(* The app's clients of the two contracts (api/exchange.rs over the         *)
(* RouteExchangeClient and DealBoardClient of hydra-exchange).  A call that *)
(* changes the chain loads the configuration, checks its input, simulates   *)
(* the transaction (the gas estimate of send()), sends it, waits for the    *)
(* receipt and answers Ok without looking at the receipt's status; the id   *)
(* of what was created is decoded from the receipt's logs.  A call that     *)
(* lists reads the count and then one entry after the other.  Meanwhile     *)
(* every user, the wallet's owner included, goes on using the chain.        *)
(*                                                                         *)
(* Any await may fail: the call then answers Err and its transaction, if it *)
(* was sent, stays pending.  Err promises nothing, so it is the idle state. *)
(* Currencies, regions, protocols, payment methods and the views' texts are *)
(* left out; the bounds on offers and escrows make a creation revert.       *)
(***************************************************************************)
EXTENDS HydraChain

CONSTANTS
  Wallets,   \* users of the app; it runs one call of each at a time
  Sections,  \* contents the [crypto] section of hydra.toml can have
  Texts,     \* amounts the user can type: [whole, digits, fraction]
  Decimals,  \* decimals of USDC (6)
  MaxListed  \* max_offers of a listing of routes

ASSUME ClientAssumption ==
  /\ Wallets \subseteq Users
  /\ Texts \subseteq [whole : Nat, digits : Nat, fraction : Nat]
  /\ Decimals \in Nat
  /\ MaxListed \in Nat

VARIABLES
  call,     \* the call each wallet has in progress, or its last Ok
  mempool   \* transactions each wallet has sent that are not yet mined

clientVars == <<call, mempool>>
allVars == <<vars, clientVars>>

None == 0
Unparsed == -1

-----------------------------------------------------------------------------
(* Configuration and input.                                                *)

\* ExchangeConfig::from_crypto_config: is there a configuration at all, and
\* with a deal board in it?  A field is "valid", "empty" or "invalid".
Configured(section) ==
  /\ section.enabled
  /\ section.chain = "BASE-SEPOLIA"
  /\ section.rpc_url = "valid"
  /\ \A field \in {"route_book_address", "identity_registry_address", "usdc_address"} :
       section[field] = "valid"
  /\ \A field \in {"deal_board_address", "reputation_registry_address"} :
       section[field] # "invalid"

HasBoard(section) == section.deal_board_address = "valid"

\* parse_usdc_amount: the amount in units, which may be zero, or an error.
ParseUsdcAmount(text) ==
  IF text.digits > Decimals THEN Unparsed
  ELSE text.whole * 10^Decimals + text.fraction * 10^(Decimals - text.digits)

\* What a user types is an amount a transaction can name, or refused.
ASSUME TextAssumption == \A text \in Texts : ParseUsdcAmount(text) \in Amounts \cup {Unparsed}

BoardRequests ==
  [op : {"create_deal_offer"}, agent : Agents, rate : Rates, min : Texts, max : Texts]
    \cup [op : {"accept_deal"}, id : 1..MaxOffers, amount : Texts]
    \cup [op : {"deactivate_deal_offer"}, id : 1..MaxOffers]
    \cup [op : {"mark_sent", "confirm_receipt", "reject_deal", "claim_expired"},
          id : 1..MaxEscrows]
    \cup [op : {"approve_usdc"}, amount : Texts]

BookRequests ==
  [op : {"create_offer"}, agent : Agents, stake : Amounts]
    \cup [op : {"deactivate_offer", "withdraw_stake"}, id : 1..MaxRoutes]

Approval(amount) == [op |-> "approve_stake", amount |-> amount]

\* Unparsable amounts and a minimum above the maximum are refused before
\* anything is sent.
InputIsValid(r) ==
  CASE r.op = "create_deal_offer" ->
         /\ Unparsed \notin {ParseUsdcAmount(r.min), ParseUsdcAmount(r.max)}
         /\ ParseUsdcAmount(r.min) <= ParseUsdcAmount(r.max)
    [] r.op \in {"accept_deal", "approve_usdc"} -> ParseUsdcAmount(r.amount) # Unparsed
    [] OTHER -> TRUE

-----------------------------------------------------------------------------
(* Transactions.                                                           *)

\* Each request's contract call.
CreateDealOfferCall(w, r) ==
  /\ r.op = "create_deal_offer"
  /\ CreateDealOffer(w, r.agent, r.rate, ParseUsdcAmount(r.min), ParseUsdcAmount(r.max))

DeactivateDealOfferCall(w, r) ==
  /\ r.op = "deactivate_deal_offer" /\ r.id \in DOMAIN offers
  /\ DeactivateDealOffer(w, r.id)

AcceptDealCall(w, r) ==
  /\ r.op = "accept_deal" /\ r.id \in DOMAIN offers
  /\ AcceptDeal(w, r.id, ParseUsdcAmount(r.amount))

MarkSentCall(w, r) ==
  r.op = "mark_sent" /\ r.id \in DOMAIN escrows /\ MarkFiatSent(w, r.id)

ConfirmReceiptCall(w, r) ==
  r.op = "confirm_receipt" /\ r.id \in DOMAIN escrows /\ ConfirmReceipt(w, r.id)

RejectDealCall(w, r) ==
  r.op = "reject_deal" /\ r.id \in DOMAIN escrows /\ RejectDeal(w, r.id)

ClaimExpiredCall(w, r) ==
  r.op = "claim_expired" /\ r.id \in DOMAIN escrows /\ ClaimExpired(r.id)

ApproveUsdc(w, r) ==
  r.op = "approve_usdc" /\ Approve(w, Board, ParseUsdcAmount(r.amount))

ApproveStake(w, r) == r.op = "approve_stake" /\ Approve(w, Book, r.amount)

CreateOfferCall(w, r) == r.op = "create_offer" /\ CreateOffer(w, r.agent, r.stake)

DeactivateOfferCall(w, r) ==
  r.op = "deactivate_offer" /\ r.id \in DOMAIN routes /\ DeactivateOffer(w, r.id)

WithdrawStakeCall(w, r) ==
  r.op = "withdraw_stake" /\ r.id \in DOMAIN routes /\ WithdrawStake(w, r.id)

BoardCall(w, r) ==
  \/ CreateDealOfferCall(w, r) \/ DeactivateDealOfferCall(w, r) \/ AcceptDealCall(w, r)
  \/ MarkSentCall(w, r) \/ ConfirmReceiptCall(w, r) \/ RejectDealCall(w, r) \/ ClaimExpiredCall(w, r)

BookCall(w, r) == CreateOfferCall(w, r) \/ DeactivateOfferCall(w, r) \/ WithdrawStakeCall(w, r)

ContractCall(w, r) ==
  \/ BoardCall(w, r) /\ UNCHANGED routes
  \/ BookCall(w, r) /\ UNCHANGED boardVars
  \/ (ApproveUsdc(w, r) \/ ApproveStake(w, r)) /\ UNCHANGED <<boardVars, routes>>

\* What does not revert now.
Accepted(w, r) ==
  \/ /\ r.op = "create_deal_offer"
     /\ CanCreateDealOffer(w, r.agent, r.rate, ParseUsdcAmount(r.min), ParseUsdcAmount(r.max))
  \/ /\ r.op \in {"deactivate_deal_offer", "accept_deal"} /\ r.id \in DOMAIN offers
     /\ \/ r.op = "deactivate_deal_offer" /\ CanDeactivateDealOffer(w, r.id)
        \/ r.op = "accept_deal" /\ CanAcceptDeal(r.id, ParseUsdcAmount(r.amount))
  \/ /\ r.op \in {"mark_sent", "confirm_receipt", "reject_deal", "claim_expired"}
     /\ r.id \in DOMAIN escrows
     /\ \/ r.op = "mark_sent" /\ CanMarkFiatSent(w, r.id)
        \/ r.op = "confirm_receipt" /\ CanConfirmReceipt(w, r.id)
        \/ r.op = "reject_deal" /\ CanRejectDeal(w, r.id)
        \/ r.op = "claim_expired" /\ CanClaimExpired(r.id)
  \/ r.op = "create_offer" /\ CanCreateOffer(w, r.agent, r.stake)
  \/ /\ r.op \in {"deactivate_offer", "withdraw_stake"} /\ r.id \in DOMAIN routes
     /\ \/ r.op = "deactivate_offer" /\ CanDeactivateOffer(w, r.id)
        \/ r.op = "withdraw_stake" /\ CanWithdrawStake(w, r.id)
  \/ r.op \in {"approve_usdc", "approve_stake"}

\* Mutant: the transaction is sent with a fixed gas limit.
EstimatedNever(w, r) == TRUE

\* The gas estimate of a call that would revert now is an error.
Estimated(w, r) == Accepted(w, r)

Idle == [at |-> "idle"]

Become(w, state) == call' = [call EXCEPT ![w] = state]

Free(w) == call[w].at \in {"idle", "ok", "listed"} /\ mempool[w] = <<>>

\* The transaction tx of the call for r is simulated and sent.
Submit(w, r, tx) ==
  /\ Estimated(w, tx)
  /\ mempool' = [mempool EXCEPT ![w] = <<tx>>]
  /\ Become(w, [at |-> "receipt", r |-> r])

\* A call starts and first looks at the chain: create_offer at the allowance,
\* which it raises to exactly the stake if it is smaller, the others when they
\* submit.  Bound: one pending transaction a wallet.
Begin(w, r, section) ==
  /\ Free(w)
  /\ Configured(section) /\ (r \in BoardRequests => HasBoard(section))
  /\ InputIsValid(r)
  /\ IF r.op = "create_offer"
       THEN /\ Become(w, [at |-> IF allowance[w][Book] < r.stake THEN "approve" ELSE "send",
                          r |-> r])
            /\ UNCHANGED mempool
       ELSE Submit(w, r, r)
  /\ UNCHANGED vars

\* The transactions of create_offer.
Send(w) ==
  /\ \/ call[w].at = "approve" /\ Submit(w, call[w].r, Approval(call[w].r.stake))
     \/ call[w].at = "send" /\ Submit(w, call[w].r, call[w].r)
  /\ UNCHANGED vars

\* Mutant: the id is the count of the table, whether this call added to it.
CreatedIdCount(tx) ==
  CASE tx.op = "create_deal_offer" -> Len(offers')
    [] tx.op = "accept_deal" -> Len(escrows')
    [] tx.op = "create_offer" -> Len(routes')
    [] OTHER -> None

\* The id in the logs: events DealOfferCreated, EscrowCreated, OfferCreated.
CreatedId(tx) ==
  CASE tx.op = "create_deal_offer" /\ offers' # offers -> Len(offers')
    [] tx.op = "accept_deal" /\ escrows' # escrows -> Len(escrows')
    [] tx.op = "create_offer" /\ routes' # routes -> Len(routes')
    [] OTHER -> None

\* A block takes the transaction: it executes, or reverts and has no logs.
Mine(w) ==
  /\ mempool[w] # <<>>
  /\ \/ ContractCall(w, mempool[w][1])
     \/ ~ Accepted(w, mempool[w][1]) /\ UNCHANGED vars
  /\ mempool' = [mempool EXCEPT ![w] = <<>>]
  /\ IF call[w].at = "receipt"
       THEN Become(w, [at |-> "mined", r |-> call[w].r, tx |-> mempool[w][1].op,
                       id |-> CreatedId(mempool[w][1])])
       ELSE UNCHANGED call

\* The receipt arrives; its status is not looked at.
Receive(w) ==
  /\ call[w].at = "mined"
  /\ Become(w, IF call[w].tx = "approve_stake"
                 THEN [at |-> "send", r |-> call[w].r]
                 ELSE [at |-> "ok", r |-> call[w].r, id |-> call[w].id])
  /\ UNCHANGED <<vars, mempool>>

\* An error at any await.
Fail(w) ==
  /\ call[w].at \notin {"idle", "ok", "listed"}
  /\ Become(w, Idle)
  /\ UNCHANGED <<vars, mempool>>

-----------------------------------------------------------------------------
(* Listings.                                                               *)

Lists == {"query_deals", "list_active_offers", "list_my_deal_offers",
          "list_my_offers", "list_my_escrows"}

\* The table a listing goes through.
Entries(list) ==
  CASE list \in {"query_deals", "list_my_deal_offers"} -> offers
    [] list \in {"list_active_offers", "list_my_offers"} -> routes
    [] list = "list_my_escrows" -> escrows

\* The entries each listing keeps.
QueryDeals == {id \in DOMAIN offers : offers[id].active}
ListActiveOffers == {id \in DOMAIN routes : routes[id].active}
ListMyDealOffers(w) == {id \in DOMAIN offers : offers[id].dealer = w}
ListMyOffers(w) == {id \in DOMAIN routes : routes[id].provider = w}
ListMyEscrows(w) == {id \in DOMAIN escrows : w \in {escrows[id].buyer, escrows[id].dealer}}

Matching(w, list) ==
  CASE list = "query_deals" -> QueryDeals
    [] list = "list_active_offers" -> ListActiveOffers
    [] list = "list_my_deal_offers" -> ListMyDealOffers(w)
    [] list = "list_my_offers" -> ListMyOffers(w)
    [] list = "list_my_escrows" -> ListMyEscrows(w)

\* The count is read: the loop will look at the ids up to it.
StartList(w, list, section) ==
  /\ Free(w)
  /\ Configured(section)
  /\ list \in {"query_deals", "list_my_deal_offers", "list_my_escrows"} => HasBoard(section)
  /\ Become(w, [at |-> "listing", list |-> list, total |-> Len(Entries(list)), next |-> 1,
                found |-> {}, matching |-> Matching(w, list)])
  /\ UNCHANGED <<vars, mempool>>

\* Mutant: the last id is not looked at.
ListIsOverEarly(c) ==
  \/ c.next >= c.total
  \/ c.list = "list_active_offers" /\ Cardinality(c.found) >= MaxListed

\* Only list_active_offers is limited.
ListIsOver(c) ==
  \/ c.next > c.total
  \/ c.list = "list_active_offers" /\ Cardinality(c.found) >= MaxListed

\* One entry is read.
ReadEntry(w) ==
  /\ call[w].at = "listing"
  /\ IF ListIsOver(call[w])
       THEN Become(w, [call[w] EXCEPT !.at = "listed"])
       ELSE LET id == call[w].next IN
            Become(w, [call[w] EXCEPT !.next = id + 1,
              !.found = IF id \in Matching(w, call[w].list) THEN @ \cup {id} ELSE @])
  /\ UNCHANGED <<vars, mempool>>

-----------------------------------------------------------------------------
ClientInit ==
  /\ Init
  /\ call = [w \in Wallets |-> Idle]
  /\ mempool = [w \in Wallets |-> <<>>]

ClientStep ==
  \E w \in Wallets :
    \/ \E section \in Sections :
         \/ \E r \in BoardRequests \cup BookRequests : Begin(w, r, section)
         \/ \E list \in Lists : StartList(w, list, section)
    \/ Send(w) \/ Mine(w) \/ Receive(w) \/ Fail(w)
    \/ ReadEntry(w)

\* Everybody's other transactions, the wallet's own from elsewhere included.
\* Bound: agents keep their owner, and USDC moves for deals and stakes only.
OtherUse ==
  /\ UNCHANGED <<ownerOf, donated, clientVars>>
  /\ Next
  /\ balanceOf' # balanceOf => <<boardVars, routes>>' # <<boardVars, routes>>

ClientNext == ClientStep \/ OtherUse

ClientSpec == ClientInit /\ [][ClientNext]_allVars

-----------------------------------------------------------------------------
Answered(w, op) == call[w].at = "ok" /\ call[w].r.op = op

\* Ok is returned without a look at the receipt's status, so after a revert
\* too.  The Ok of a call that changes an entry can still be relied on, because
\* the estimate passed before and the contracts only move forward: what the call
\* asked for has happened, through this transaction or another one, or can no
\* longer happen.  A fiat payment is the weak case: Ok may mean that the deadline
\* passed while the transaction was pending.  The Ok of a call that creates an
\* entry says nothing by itself: a dealer may have withdrawn the offer, or spent
\* the USDC, after the estimate.  Only the id that may come with it does, which is
\* the next property.
OkLeavesItsMark ==
  \A w \in Wallets : call[w].at = "ok" =>
    LET id == call[w].r.id
        Past(statuses) == StatusIn(id, statuses)
    IN
    /\ Answered(w, "deactivate_deal_offer") => id \in DOMAIN offers /\ ~ offers[id].active
    /\ Answered(w, "deactivate_offer") => Deactivated(id)
    /\ Answered(w, "withdraw_stake") =>
         id \in DOMAIN routes /\ routes[id].stakeAmount = 0
    /\ Answered(w, "mark_sent") =>
         \/ Past(Settled \cup {"Sent"})
         \/ Past({"Funded"}) /\ now >= escrows[id].expiresAt
    /\ Answered(w, "reject_deal") => Past(Settled \cup {"Sent"})
    /\ Answered(w, "confirm_receipt") => Past(Settled)
    /\ Answered(w, "claim_expired") => Past(Settled)

\* The id a creation returns is of the entry this call created, with the terms
\* it asked for, however many others were created before the receipt came.  After
\* a revert, Ok comes without an id.
OwnIdReturned ==
  \A w \in Wallets : call[w].at = "ok" /\ call[w].id # None =>
    LET r == call[w].r
        id == call[w].id
    IN  CASE r.op = "create_deal_offer" ->
               /\ offers[id].dealer = w
               /\ offers[id].agentId = r.agent
               /\ offers[id].maxAmount = ParseUsdcAmount(r.max)
          [] r.op = "accept_deal" ->
               /\ escrows[id].buyer = w
               /\ escrows[id].offerId = r.id
               /\ escrows[id].usdcAmount = ParseUsdcAmount(r.amount)
          [] r.op = "create_offer" ->
               /\ routes[id].provider = w
               /\ routes[id].agentId = r.agent
          [] OTHER -> FALSE

\* A listing reads a moving table one entry at a time.  It never misses an
\* entry that was there when it started and still matches when it ends (unless
\* it is full), and never shows one that did not match when it started.
ListingsMissNothing ==
  \A w \in Wallets : call[w].at = "listed" =>
    LET c == call[w]
        full == c.list = "list_active_offers" /\ Cardinality(c.found) >= MaxListed
    IN  /\ c.found \subseteq c.matching
        /\ full \/ (Matching(w, c.list) \cap 1..c.total) \subseteq c.found
=============================================================================
