--------------------------- MODULE ContractProofs ---------------------------
(***************************************************************************)
(* Theorems about the two escrow contracts, DealBoard and RouteBook, and   *)
(* the app's clients of them, ExchangeClient, for all values of their      *)
(* constants: first what both contracts need of the chain, then the deals, *)
(* the routes, both contracts on one chain, and the clients.               *)
(***************************************************************************)
EXTENDS ExchangeClient, SumProofs, SequenceTheorems, FiniteSetTheorems,
        TLAPS

LEMMA AppendFacts ==
  ASSUME NEW S, NEW s \in Seq(S), NEW e \in S
  PROVE  /\ Append(s, e) \in Seq(S)
         /\ Len(Append(s, e)) = Len(s) + 1
         /\ DOMAIN s = 1..Len(s)
         /\ DOMAIN Append(s, e) = 1..(Len(s) + 1)
         /\ \A i \in 1..Len(s) : Append(s, e)[i] = s[i]
         /\ Append(s, e)[Len(s) + 1] = e
  BY LenProperties, SMT

LEMMA MovedFacts ==
  ASSUME balanceOf \in [Accounts -> Nat], NEW from \in Accounts, NEW to \in Accounts,
         NEW amount \in Nat, CanTransfer(from, amount)
  PROVE  /\ Moved(from, to, amount) \in [Accounts -> Nat]
         /\ \A a \in Accounts : a # from /\ a # to =>
              Moved(from, to, amount)[a] = balanceOf[a]
         /\ from # to =>
              /\ Moved(from, to, amount)[from] = balanceOf[from] - amount
              /\ Moved(from, to, amount)[to] = balanceOf[to] + amount
  BY DEF CanTransfer, Moved

\* An allowance that covers an amount can be reduced by it.
LEMMA SpentType ==
  ASSUME ChainTypeOK, NEW from \in Users, NEW spender \in Contracts, NEW amount \in Nat,
         CanTransferFrom(from, spender, amount)
  PROVE  Spent(from, spender, amount) \in [Users -> [Contracts -> 0..MaxUint]]
<1>1. /\ allowance[from][spender] \in 0..MaxUint
      /\ amount <= allowance[from][spender]
  BY DEF CanTransferFrom, ChainTypeOK
<1>2. allowance[from][spender] - amount \in 0..MaxUint
  BY <1>1, ChainAssumption
<1> QED
  BY <1>2 DEF Spent, ChainTypeOK

\* A step of the chain keeps the types of the chain's variables.
LEMMA ChainStepType ==
  ASSUME ChainTypeOK, ChainStep
  PROVE  ChainTypeOK'
<1>1. CASE Tick
  BY <1>1, ChainAssumption DEF Tick, ChainTypeOK
<1>2. ASSUME NEW u \in Users, NEW c \in Contracts, NEW amount \in Approvals,
             Approve(u, c, amount)
      PROVE  ChainTypeOK'
  BY <1>2, ChainAssumption DEF Approve, ChainTypeOK
<1>3. ASSUME NEW u \in Users, NEW to \in Accounts, NEW amount \in Amounts,
             Transfer(u, to, amount)
      PROVE  ChainTypeOK'
  <2>1. amount \in Nat /\ u \in Accounts
    BY ChainAssumption DEF Accounts
  <2>2. balanceOf' \in [Accounts -> Nat]
    BY <1>3, <2>1, MovedFacts DEF Transfer, ChainTypeOK
  <2>3. donated' \in [Contracts -> Nat]
    BY <1>3, <2>1 DEF Transfer, ChainTypeOK
  <2> QED
    BY <1>3, <2>2, <2>3 DEF Transfer, ChainTypeOK
<1>4. ASSUME NEW agent \in Agents, NEW to \in Users, TransferAgent(agent, to)
      PROVE  ChainTypeOK'
  BY <1>4 DEF TransferAgent, ChainTypeOK
<1> QED
  BY <1>1, <1>2, <1>3, <1>4 DEF ChainStep

\* What a step of the chain does to a contract's USDC is a gift, and counted as one.
LEMMA ChainStepGifts ==
  ASSUME ChainTypeOK, ChainStep, NEW c \in Contracts
  PROVE  \E gift \in Nat : /\ balanceOf'[c] = balanceOf[c] + gift
                           /\ donated'[c] = donated[c] + gift
<1>1. balanceOf[c] \in Nat /\ donated[c] \in Nat /\ c \in Accounts
  BY DEF ChainTypeOK, Accounts
<1>2. ASSUME NEW u \in Users, NEW to \in Accounts, NEW amount \in Amounts,
             Transfer(u, to, amount)
      PROVE  \E gift \in Nat : /\ balanceOf'[c] = balanceOf[c] + gift
                               /\ donated'[c] = donated[c] + gift
  <2>1. amount \in Nat /\ u \in Accounts /\ u # c
    BY ChainAssumption DEF Accounts
  <2>2. CanTransfer(u, amount) /\ balanceOf' = Moved(u, to, amount)
    BY <1>2 DEF Transfer
  <2>3. CASE to = c
    <3>1. balanceOf'[c] = balanceOf[c] + amount
      BY <1>1, <2>1, <2>2, <2>3, MovedFacts DEF ChainTypeOK
    <3>2. donated'[c] = donated[c] + amount
      BY <1>2, <2>3 DEF Transfer, ChainTypeOK
    <3> QED
      BY <2>1, <3>1, <3>2
  <2>4. CASE to # c
    <3>1. balanceOf'[c] = balanceOf[c] + 0
      BY <1>1, <2>1, <2>2, <2>4, MovedFacts DEF ChainTypeOK
    <3>2. donated'[c] = donated[c] + 0
      BY <1>1, <1>2, <2>4 DEF Transfer, ChainTypeOK
    <3> QED
      BY <3>1, <3>2
  <2> QED
    BY <2>3, <2>4
<1>3. CASE UNCHANGED <<balanceOf, donated>>
  <2>1. balanceOf'[c] = balanceOf[c] + 0 /\ donated'[c] = donated[c] + 0
    BY <1>1, <1>3
  <2> QED
    BY <2>1
<1> QED
  BY <1>2, <1>3 DEF ChainStep, Tick, Approve, TransferAgent

-----------------------------------------------------------------------------
\* Deals.

Status == Open \cup Settled

-----------------------------------------------------------------------------
(* The three ways a sequence of records changes.                           *)

LEMMA StatusFacts ==
  ASSUME NEW s \in Seq(Escrow), NEW id \in DOMAIN s, NEW st \in Status
  PROVE  LET t == [s EXCEPT ![id].status = st] IN
         /\ t \in Seq(Escrow)
         /\ Len(t) = Len(s)
         /\ DOMAIN s = 1..Len(s) /\ DOMAIN t = DOMAIN s
         /\ t[id] = [s[id] EXCEPT !.status = st]
         /\ \A j \in DOMAIN s : j # id => t[j] = s[j]
<1>1. DOMAIN s = 1..Len(s)
  BY LenProperties
<1>2. s[id] \in Escrow
  BY <1>1, ElementOfSeq
<1>3. [s[id] EXCEPT !.status = st] \in Escrow
  BY <1>2 DEF Escrow, Status
<1> DEFINE t == [s EXCEPT ![id] = [s[id] EXCEPT !.status = st]]
<1>4. /\ t \in Seq(Escrow)
      /\ Len(t) = Len(s)
      /\ \A j \in 1..Len(s) : t[j] = IF j = id THEN [s[id] EXCEPT !.status = st] ELSE s[j]
  BY <1>1, <1>3, ExceptSeq
<1>5. DOMAIN t = 1..Len(s)
  BY <1>1
<1>6. [s EXCEPT ![id].status = st] = t
  OBVIOUS
<1> QED
  BY <1>1, <1>4, <1>5, <1>6

LEMMA DeactivateDealFacts ==
  ASSUME NEW s \in Seq(DealOffer), NEW id \in DOMAIN s
  PROVE  LET t == [s EXCEPT ![id].active = FALSE] IN
         /\ t \in Seq(DealOffer)
         /\ Len(t) = Len(s)
         /\ DOMAIN s = 1..Len(s) /\ DOMAIN t = DOMAIN s
         /\ t[id] = [s[id] EXCEPT !.active = FALSE]
         /\ \A j \in DOMAIN s : j # id => t[j] = s[j]
<1>1. DOMAIN s = 1..Len(s)
  BY LenProperties
<1>2. s[id] \in DealOffer
  BY <1>1, ElementOfSeq
<1>3. [s[id] EXCEPT !.active = FALSE] \in DealOffer
  BY <1>2 DEF DealOffer
<1> DEFINE t == [s EXCEPT ![id] = [s[id] EXCEPT !.active = FALSE]]
<1>4. /\ t \in Seq(DealOffer)
      /\ Len(t) = Len(s)
      /\ \A j \in 1..Len(s) : t[j] = IF j = id THEN [s[id] EXCEPT !.active = FALSE] ELSE s[j]
  BY <1>1, <1>3, ExceptSeq
<1>5. DOMAIN t = 1..Len(s)
  BY <1>1
<1>6. [s EXCEPT ![id].active = FALSE] = t
  OBVIOUS
<1> QED
  BY <1>1, <1>4, <1>5, <1>6

LEMMA EscrowFacts ==
  ASSUME BoardTypeOK, NEW id \in DOMAIN escrows
  PROVE  /\ DOMAIN escrows = 1..Len(escrows) /\ Len(escrows) \in Nat
         /\ escrows[id] \in Escrow
         /\ escrows[id].buyer \in Users /\ escrows[id].dealer \in Users
         /\ escrows[id].usdcAmount \in Nat
         /\ offers[escrows[id].offerId].agentId \in Agents
<1>1. DOMAIN escrows = 1..Len(escrows) /\ Len(escrows) \in Nat
  BY LenProperties DEF BoardTypeOK
<1>2. escrows[id] \in Escrow
  BY <1>1, ElementOfSeq DEF BoardTypeOK
<1>3. DOMAIN offers = 1..Len(offers)
  BY LenProperties DEF BoardTypeOK
<1>4. offers[escrows[id].offerId] \in DealOffer
  BY <1>3, ElementOfSeq DEF BoardTypeOK
<1> QED
  BY <1>1, <1>2, <1>4 DEF Escrow, DealOffer

-----------------------------------------------------------------------------
(* Arithmetic of acceptDeal.                                               *)

LEMMA AcceptArithmetic ==
  ASSUME NEW a \in Nat, NEW r \in Nat, NEW t \in Nat, NEW T \in Nat \ {0},
         NEW W \in Nat, NEW c \in Nat \ {0}
  PROVE  /\ (a * r) \div c \in Nat
         /\ t % T \in Nat /\ W % T \in Nat
         /\ (t % T) + (W % T) \in Nat
<1>1. a * r \in Nat
  OBVIOUS
<1>2. \A x \in Nat : x \div c \in Nat
  OBVIOUS
<1>3. \A x \in Nat : x % T \in Nat
  OBVIOUS
<1> QED
  BY <1>1, <1>2, <1>3

-----------------------------------------------------------------------------
(* Type correctness.                                                       *)

\* Ending an escrow keeps the types of everything but the feedback.
LEMMA SettleType ==
  ASSUME BoardTypeOK, NEW id \in DOMAIN escrows, NEW st \in Status,
         NEW recipient \in Users, CanPay(id), Settle(id, st, recipient)
  PROVE  /\ ChainTypeOK'
         /\ escrows' \in Seq(Escrow)
         /\ \A i \in DOMAIN escrows' : escrows'[i].offerId \in DOMAIN offers
<1>1. escrows[id] \in Escrow
  BY ElementOfSeq, LenProperties DEF BoardTypeOK
<1>2. Board \in Accounts /\ recipient \in Accounts
  BY BoardAssumption DEF Accounts
<1>3. balanceOf' \in [Accounts -> Nat]
  BY <1>1, <1>2, MovedFacts DEF CanPay, Settle, BoardTypeOK, ChainTypeOK, Escrow
<1>4. ChainTypeOK'
  BY <1>3 DEF CanPay, Settle, BoardTypeOK, ChainTypeOK
<1>5. escrows' = [escrows EXCEPT ![id].status = st]
  BY DEF Settle
<1>6. /\ escrows' \in Seq(Escrow)
      /\ DOMAIN escrows' = DOMAIN escrows
      /\ escrows'[id] = [escrows[id] EXCEPT !.status = st]
      /\ \A j \in DOMAIN escrows : j # id => escrows'[j] = escrows[j]
  BY <1>5, StatusFacts DEF BoardTypeOK
<1>7. escrows'[id].offerId = escrows[id].offerId
  BY <1>1, <1>6 DEF Escrow
<1> QED
  BY <1>4, <1>6, <1>7 DEF BoardTypeOK

LEMMA FeedbackType ==
  ASSUME BoardTypeOK, NEW id \in DOMAIN escrows, NEW value \in Int, SubmitFeedback(id, value)
  PROVE  feedback' \in [Agents -> [count : Nat, sum : Int]]
<1> DEFINE agent == offers[escrows[id].offerId].agentId
           entry == [count |-> feedback[agent].count + 1,
                     sum |-> feedback[agent].sum + value]
<1>1. agent \in Agents
  BY EscrowFacts
<1>2. feedback \in [Agents -> [count : Nat, sum : Int]]
  BY DEF BoardTypeOK
<1>3. entry \in [count : Nat, sum : Int]
  <2>1. feedback[agent] \in [count : Nat, sum : Int]
    BY <1>1, <1>2
  <2> QED
    BY <2>1
<1>4. feedback' = [feedback EXCEPT ![agent] = entry]
  BY DEF SubmitFeedback
<1> HIDE DEF agent, entry
<1> QED
  BY <1>1, <1>2, <1>3, <1>4

\* A new escrow of an active offer, as acceptDeal builds it.
NewEscrow(buyer, offerId, amount) ==
  [offerId |-> offerId, buyer |-> buyer, dealer |-> offers[offerId].dealer,
   usdcAmount |-> amount, fiatAmount |-> FiatAmount(amount, offers[offerId].rate),
   status |-> "Funded", createdAt |-> Now64, expiresAt |-> Now64 + Window]

LEMMA AcceptFacts ==
  ASSUME BoardTypeOK, NEW buyer \in Users, NEW offerId \in DOMAIN offers,
         NEW amount \in Amounts, AcceptDeal(buyer, offerId, amount)
  PROVE  /\ amount \in Nat
         /\ offers[offerId] \in DealOffer
         /\ NewEscrow(buyer, offerId, amount) \in Escrow
         /\ escrows' = Append(escrows, NewEscrow(buyer, offerId, amount))
         /\ balanceOf' = Moved(offers[offerId].dealer, Board, amount)
         /\ UNCHANGED <<now, ownerOf, donated, offers, feedback>>
<1>1. amount \in Nat
  BY ChainAssumption
<1>2. DOMAIN offers = 1..Len(offers)
  BY LenProperties DEF BoardTypeOK
<1>3. offers[offerId] \in DealOffer
  BY <1>2, ElementOfSeq DEF BoardTypeOK
<1>4. offers[offerId].rate \in Nat /\ offers[offerId].dealer \in Users
  BY <1>3 DEF DealOffer
<1>5. /\ FiatAmount(amount, offers[offerId].rate) \in Nat
      /\ Now64 \in Nat /\ Now64 + Window \in Nat
  <2>1. now \in Nat /\ EscrowTimeout \in Nat /\ U64 \in Nat \ {0} /\ Scale \in Nat \ {0}
    BY ChainAssumption, BoardAssumption DEF BoardTypeOK, ChainTypeOK
  <2> QED
    BY <1>1, <1>4, <2>1, AcceptArithmetic DEF FiatAmount, Now64, Window
<1>6. offerId \in Nat \ {0}
  BY <1>2
<1>7. NewEscrow(buyer, offerId, amount) \in Escrow
  BY <1>1, <1>4, <1>5, <1>6 DEF NewEscrow, Escrow, Open
<1> QED
  BY <1>1, <1>3, <1>7 DEF AcceptDeal, CanAcceptDeal, NewEscrow

LEMMA AcceptType ==
  ASSUME BoardTypeOK, NEW buyer \in Users, NEW offerId \in DOMAIN offers,
         NEW amount \in Amounts, AcceptDeal(buyer, offerId, amount)
  PROVE  BoardTypeOK'
<1>1. offers[offerId].dealer \in Users
  BY AcceptFacts DEF DealOffer
<1>2. /\ escrows' \in Seq(Escrow)
      /\ \A i \in DOMAIN escrows' : escrows'[i].offerId \in DOMAIN offers
  <2> DEFINE e == NewEscrow(buyer, offerId, amount)
  <2>1. e \in Escrow /\ escrows' = Append(escrows, e) /\ e.offerId = offerId
    BY AcceptFacts DEF NewEscrow
  <2> HIDE DEF e
  <2> QED
    BY <2>1, AppendFacts DEF BoardTypeOK
<1>3. balanceOf' \in [Accounts -> Nat]
  <2>1. Board \in Accounts /\ offers[offerId].dealer \in Accounts
    BY <1>1, BoardAssumption DEF Accounts
  <2>2. CanTransfer(offers[offerId].dealer, amount)
    BY DEF AcceptDeal, CanAcceptDeal, CanTransferFrom
  <2> QED
    BY <2>1, <2>2, AcceptFacts, MovedFacts DEF BoardTypeOK, ChainTypeOK
<1>4. allowance' \in [Users -> [Contracts -> 0..MaxUint]]
  BY <1>1, AcceptFacts, SpentType, BoardAssumption DEF AcceptDeal, CanAcceptDeal, BoardTypeOK
<1> QED
  BY <1>2, <1>3, <1>4, AcceptFacts DEF BoardTypeOK, ChainTypeOK

\* The types of every variable, and the fact that an escrow's offer exists,
\* are preserved by every step of the chain and of the board.
LEMMA BoardTypeStep ==
  ASSUME BoardTypeOK, [BoardNext]_dealBoardVars
  PROVE  BoardTypeOK'
<1>1. ASSUME NEW dealer \in Users, NEW agent \in Agents, NEW rate \in Rates,
             NEW min \in Amounts, NEW max \in Amounts,
             CreateDealOffer(dealer, agent, rate, min, max)
      PROVE  BoardTypeOK'
  <2> DEFINE offer == [dealer |-> dealer, agentId |-> agent, rate |-> rate,
                       minAmount |-> min, maxAmount |-> max, active |-> TRUE]
  <2>1. offer \in DealOffer
    BY <1>1, ChainAssumption, BoardAssumption DEF CreateDealOffer, CanCreateDealOffer, DealOffer
  <2>2. offers' = Append(offers, offer)
    BY <1>1 DEF CreateDealOffer, CanCreateDealOffer
  <2>3. offers' \in Seq(DealOffer) /\ DOMAIN offers \subseteq DOMAIN offers'
    <3> HIDE DEF offer
    <3> QED
      BY <2>1, <2>2, AppendFacts DEF BoardTypeOK
  <2> QED
    BY <1>1, <2>3 DEF CreateDealOffer, CanCreateDealOffer, BoardTypeOK, ChainTypeOK, chainVars
<1>2. ASSUME NEW dealer \in Users, NEW offerId \in DOMAIN offers,
             DeactivateDealOffer(dealer, offerId)
      PROVE  BoardTypeOK'
  <2>1. offers' \in Seq(DealOffer) /\ DOMAIN offers' = DOMAIN offers
    BY <1>2, DeactivateDealFacts DEF DeactivateDealOffer, CanDeactivateDealOffer, BoardTypeOK
  <2> QED
    BY <1>2, <2>1 DEF DeactivateDealOffer, CanDeactivateDealOffer, BoardTypeOK, ChainTypeOK, chainVars
<1>3. ASSUME NEW dealer \in Users, NEW id \in DOMAIN escrows, ConfirmReceipt(dealer, id)
      PROVE  BoardTypeOK'
  <2>1. escrows[id].buyer \in Users
    BY EscrowFacts
  <2>2. CanPay(id) /\ Settle(id, "Completed", escrows[id].buyer) /\ SubmitFeedback(id, 1)
    BY <1>3 DEF ConfirmReceipt, CanConfirmReceipt
  <2>3. /\ ChainTypeOK'
        /\ escrows' \in Seq(Escrow)
        /\ \A i \in DOMAIN escrows' : escrows'[i].offerId \in DOMAIN offers
    BY <2>1, <2>2, SettleType DEF Status, Settled
  <2>4. feedback' \in [Agents -> [count : Nat, sum : Int]]
    BY <2>2, FeedbackType
  <2>5. offers' = offers
    BY <2>2 DEF Settle
  <2> QED
    BY <2>3, <2>4, <2>5 DEF BoardTypeOK
<1>4. ASSUME NEW dealer \in Users, NEW id \in DOMAIN escrows, RejectDeal(dealer, id)
      PROVE  BoardTypeOK'
  <2>1. escrows[id].dealer \in Users
    BY EscrowFacts
  <2>2. CanPay(id) /\ Settle(id, "Rejected", escrows[id].dealer) /\ UNCHANGED feedback
    BY <1>4 DEF RejectDeal, CanRejectDeal
  <2> QED
    BY <2>1, <2>2, SettleType DEF Status, Settled, BoardTypeOK, Settle
<1>5. ASSUME NEW buyer \in Users, NEW offerId \in DOMAIN offers, NEW amount \in Amounts,
             AcceptDeal(buyer, offerId, amount)
      PROVE  BoardTypeOK'
  BY <1>5, AcceptType
<1>6. ASSUME NEW buyer \in Users, NEW id \in DOMAIN escrows, MarkFiatSent(buyer, id)
      PROVE  BoardTypeOK'
  <2>1. escrows' = [escrows EXCEPT ![id].status = "Sent"]
    BY <1>6 DEF MarkFiatSent, CanMarkFiatSent
  <2>2. "Sent" \in Status
    BY DEF Status, Open
  <2>3. /\ escrows' \in Seq(Escrow)
        /\ DOMAIN escrows' = DOMAIN escrows
        /\ escrows'[id] = [escrows[id] EXCEPT !.status = "Sent"]
        /\ \A j \in DOMAIN escrows : j # id => escrows'[j] = escrows[j]
    BY <2>1, <2>2, StatusFacts DEF BoardTypeOK
  <2>4. escrows[id] \in Escrow
    BY ElementOfSeq, LenProperties DEF BoardTypeOK
  <2>5. escrows'[id].offerId = escrows[id].offerId
    BY <2>3, <2>4 DEF Escrow
  <2> QED
    BY <1>6, <2>3, <2>5 DEF MarkFiatSent, CanMarkFiatSent, BoardTypeOK, ChainTypeOK, chainVars
<1>7. ASSUME NEW id \in DOMAIN escrows, ClaimExpired(id)
      PROVE  BoardTypeOK'
  <2>1. escrows[id].buyer \in Users
    BY EscrowFacts
  <2>2. CanPay(id) /\ Settle(id, "Expired", escrows[id].buyer) /\ SubmitFeedback(id, -1)
    BY <1>7 DEF ClaimExpired, CanClaimExpired
  <2>3. /\ ChainTypeOK'
        /\ escrows' \in Seq(Escrow)
        /\ \A i \in DOMAIN escrows' : escrows'[i].offerId \in DOMAIN offers
    BY <2>1, <2>2, SettleType DEF Status, Settled
  <2>4. feedback' \in [Agents -> [count : Nat, sum : Int]]
    BY <2>2, FeedbackType
  <2>5. offers' = offers
    BY <2>2 DEF Settle
  <2> QED
    BY <2>3, <2>4, <2>5 DEF BoardTypeOK
<1>8. CASE ChainStep /\ UNCHANGED boardVars
  BY <1>8, ChainStepType DEF BoardTypeOK, boardVars
<1>9. CASE UNCHANGED dealBoardVars
  BY <1>9 DEF BoardTypeOK, ChainTypeOK, dealBoardVars, chainVars, boardVars
<1> QED
  BY <1>1, <1>2, <1>3, <1>4, <1>5, <1>6, <1>7, <1>8, <1>9 DEF BoardNext, BoardStep

\* Every variable keeps its type: no transfer the board makes takes a balance below
\* zero, and every offer and escrow is complete.
THEOREM BoardTypeCorrect == BoardSpec => []BoardTypeOK
<1>1. BoardInit => BoardTypeOK
  <2>1. ASSUME BoardInit PROVE BoardTypeOK
    BY <2>1, ChainAssumption DEF BoardInit, ChainInit, BoardTypeOK, ChainTypeOK
  <2> QED
    BY <2>1
<1>2. BoardTypeOK /\ [BoardNext]_dealBoardVars => BoardTypeOK'
  BY BoardTypeStep
<1> QED
  BY <1>1, <1>2, PTL DEF BoardSpec

-----------------------------------------------------------------------------
(* Solvency.  BoardTypeOK and Solvency are inductive together: a payout needs   *)
(* the recipient to be a user, so that it really leaves the board.         *)

LEMMA HeldType ==
  ASSUME NEW e \in Escrow
  PROVE  Held(e) \in Nat
  BY DEF Escrow, Held

LEMMA HeldInAppend ==
  ASSUME NEW s \in Seq(Escrow), NEW e \in Escrow
  PROVE  HeldIn(Append(s, e)) = HeldIn(s) + Held(e)
<1> DEFINE t == Append(s, e)
           f == [i \in DOMAIN s |-> Held(s[i])]
           g == [i \in DOMAIN t |-> Held(t[i])]
           n == Len(s)
<1>1. /\ n \in Nat /\ DOMAIN s = 1..n /\ DOMAIN t = 1..(n + 1) /\ Len(t) = n + 1
      /\ \A i \in 1..n : t[i] = s[i]
      /\ t[n + 1] = e
  BY AppendFacts, LenProperties
<1>2. \A i \in 1..n : f[i] \in Int /\ g[i] = f[i]
  BY <1>1, ElementOfSeq, HeldType
<1>3. g[n + 1] = Held(e) /\ Held(e) \in Int
  BY <1>1, HeldType
<1>4. SumTo(g, n + 1) = SumTo(f, n) + g[n + 1]
  <2> HIDE DEF t, f, g, n
  <2> QED
    BY <1>1, <1>2, <1>3, SumAppend
<1> QED
  BY <1>1, <1>3, <1>4 DEF HeldIn

LEMMA HeldInStatus ==
  ASSUME NEW s \in Seq(Escrow), NEW id \in DOMAIN s, NEW st \in Status
  PROVE  LET t == [s EXCEPT ![id].status = st] IN
         HeldIn(t) = HeldIn(s) - Held(s[id]) + (IF st \in Open THEN s[id].usdcAmount ELSE 0)
<1> DEFINE t == [s EXCEPT ![id].status = st]
           f == [i \in DOMAIN s |-> Held(s[i])]
           g == [i \in DOMAIN t |-> Held(t[i])]
           n == Len(s)
<1>1. /\ n \in Nat /\ DOMAIN s = 1..n /\ DOMAIN t = 1..n /\ Len(t) = n
      /\ t \in Seq(Escrow)
      /\ t[id] = [s[id] EXCEPT !.status = st]
      /\ \A j \in 1..n : j # id => t[j] = s[j]
  BY StatusFacts, LenProperties
<1>2. \A i \in 1..n : s[i] \in Escrow /\ t[i] \in Escrow
  <2> HIDE DEF t
  <2> QED
    BY <1>1, ElementOfSeq
<1>3. Held(t[id]) = IF st \in Open THEN s[id].usdcAmount ELSE 0
  <2> HIDE DEF t
  <2> QED
    BY <1>1, <1>2 DEF Held, Escrow
<1>4. \A i \in 1..n : f[i] \in Int /\ g[i] \in Int
  <2> HIDE DEF t
  <2> QED
    BY <1>1, <1>2, HeldType
<1>5. \A i \in 1..n : i # id => g[i] = f[i]
  <2> HIDE DEF t
  <2> QED
    BY <1>1
<1>6. SumTo(g, n) = SumTo(f, n) - f[id] + g[id]
  <2> HIDE DEF t, f, g, n
  <2> QED
    BY <1>1, <1>4, <1>5, SumUpdate
<1>7. f[id] = Held(s[id]) /\ g[id] = Held(t[id])
  <2> HIDE DEF t
  <2> QED
    BY <1>1
<1>8. HeldIn(t) = SumTo(g, n) /\ HeldIn(s) = SumTo(f, n)
  <2> HIDE DEF t
  <2> QED
    BY <1>1 DEF HeldIn
<1> QED
  BY <1>3, <1>6, <1>7, <1>8

LEMMA LockedType ==
  ASSUME BoardTypeOK
  PROVE  Locked \in Nat /\ \A id \in DOMAIN escrows : Held(escrows[id]) <= Locked
<1> DEFINE f == [i \in DOMAIN escrows |-> Held(escrows[i])]
<1>1. Len(escrows) \in Nat /\ DOMAIN escrows = 1..Len(escrows)
  BY LenProperties DEF BoardTypeOK
<1>2. \A i \in 1..Len(escrows) : f[i] \in Nat
  BY <1>1, EscrowFacts, HeldType
<1>3. Locked = SumTo(f, Len(escrows))
  BY DEF Locked, HeldIn
<1>4. SumTo(f, Len(escrows)) \in Nat
  <2> HIDE DEF f
  <2> QED
    BY <1>1, <1>2, SumNat
<1>5. \A id \in 1..Len(escrows) : f[id] <= SumTo(f, Len(escrows))
  <2> HIDE DEF f
  <2> QED
    BY <1>1, <1>2, SumBoundsTerm
<1> QED
  BY <1>1, <1>3, <1>4, <1>5

\* Ending an open escrow pays out what it held.
LEMMA SettleSolvency ==
  ASSUME BoardTypeOK, Solvency, NEW id \in DOMAIN escrows, NEW st \in Settled,
         NEW recipient \in Users, escrows[id].status \in Open,
         CanPay(id), Settle(id, st, recipient)
  PROVE  Solvency'
<1>1. escrows[id].usdcAmount \in Nat /\ Board \in Accounts /\ recipient \in Accounts
      /\ recipient # Board
  BY EscrowFacts, ChainAssumption, BoardAssumption DEF Accounts
<1>2. balanceOf'[Board] = balanceOf[Board] - escrows[id].usdcAmount
  BY <1>1, MovedFacts DEF CanPay, Settle, BoardTypeOK, ChainTypeOK
<1>3. HeldIn(escrows') = HeldIn(escrows) - escrows[id].usdcAmount
  <2>1. st \in Status /\ st \notin Open
    BY DEF Status, Open, Settled
  <2>2. Held(escrows[id]) = escrows[id].usdcAmount
    BY DEF Held
  <2>3. escrows' = [escrows EXCEPT ![id].status = st]
    BY DEF Settle
  <2>4. HeldIn(escrows') = HeldIn(escrows) - Held(escrows[id]) + 0
    BY <2>1, <2>3, HeldInStatus DEF BoardTypeOK
  <2>5. HeldIn(escrows) \in Nat
    BY LockedType DEF Locked
  <2> QED
    BY <2>2, <2>4, <2>5, <1>1
<1>4. HeldIn(escrows) \in Nat /\ donated[Board] \in Nat
  BY LockedType, BoardAssumption DEF Locked, BoardTypeOK, ChainTypeOK
<1> QED
  BY <1>1, <1>2, <1>3, <1>4 DEF Solvency, Locked, Settle

LEMMA SolvencyStep ==
  ASSUME BoardTypeOK, Solvency, [BoardNext]_dealBoardVars
  PROVE  Solvency'
<1>1. ASSUME NEW dealer \in Users, NEW id \in DOMAIN escrows, ConfirmReceipt(dealer, id)
      PROVE  Solvency'
  BY <1>1, EscrowFacts, SettleSolvency DEF ConfirmReceipt, CanConfirmReceipt, Open, Settled
<1>2. ASSUME NEW dealer \in Users, NEW id \in DOMAIN escrows, RejectDeal(dealer, id)
      PROVE  Solvency'
  BY <1>2, EscrowFacts, SettleSolvency DEF RejectDeal, CanRejectDeal, Open, Settled
<1>3. ASSUME NEW id \in DOMAIN escrows, ClaimExpired(id)
      PROVE  Solvency'
  BY <1>3, EscrowFacts, SettleSolvency DEF ClaimExpired, CanClaimExpired, Settled
<1>4. ASSUME NEW buyer \in Users, NEW offerId \in DOMAIN offers, NEW amount \in Amounts,
             AcceptDeal(buyer, offerId, amount)
      PROVE  Solvency'
  <2> DEFINE dealer == offers[offerId].dealer
             e == NewEscrow(buyer, offerId, amount)
  <2>1. /\ amount \in Nat /\ e \in Escrow /\ dealer \in Users
        /\ escrows' = Append(escrows, e) /\ UNCHANGED donated
        /\ balanceOf' = Moved(dealer, Board, amount)
    BY <1>4, AcceptFacts DEF DealOffer
  <2>2. Held(e) = amount
    BY DEF NewEscrow, Held, Open
  <2>3. dealer \in Accounts /\ Board \in Accounts /\ dealer # Board
    BY <2>1, ChainAssumption, BoardAssumption DEF Accounts
  <2>4. CanTransfer(dealer, amount)
    BY <1>4 DEF AcceptDeal, CanAcceptDeal, CanTransferFrom
  <2> HIDE DEF e, dealer
  <2>5. balanceOf'[Board] = balanceOf[Board] + amount
    BY <2>1, <2>3, <2>4, MovedFacts DEF BoardTypeOK, ChainTypeOK
  <2>6. HeldIn(escrows') = HeldIn(escrows) + amount
    BY <2>1, <2>2, HeldInAppend DEF BoardTypeOK
  <2>7. HeldIn(escrows) \in Nat /\ donated[Board] \in Nat
    BY LockedType, BoardAssumption DEF Locked, BoardTypeOK, ChainTypeOK
  <2> QED
    BY <2>1, <2>5, <2>6, <2>7 DEF Solvency, Locked
<1>5. ASSUME NEW buyer \in Users, NEW id \in DOMAIN escrows, MarkFiatSent(buyer, id)
      PROVE  Solvency'
  <2>1. escrows' = [escrows EXCEPT ![id].status = "Sent"] /\ UNCHANGED <<balanceOf, donated>>
    BY <1>5 DEF MarkFiatSent, CanMarkFiatSent, chainVars
  <2>2. Held(escrows[id]) = escrows[id].usdcAmount /\ escrows[id].usdcAmount \in Nat
    BY <1>5, EscrowFacts DEF MarkFiatSent, CanMarkFiatSent, Held, Open
  <2>3. "Sent" \in Status /\ "Sent" \in Open
    BY DEF Status, Open
  <2>4. HeldIn(escrows') = HeldIn(escrows) - Held(escrows[id]) + escrows[id].usdcAmount
    BY <2>1, <2>3, HeldInStatus DEF BoardTypeOK
  <2>5. HeldIn(escrows) \in Nat
    BY LockedType DEF Locked
  <2> QED
    BY <2>1, <2>2, <2>4, <2>5 DEF Solvency, Locked
<1>6. CASE ChainStep /\ UNCHANGED boardVars
  <2>1. Locked' = Locked /\ Locked \in Nat
    BY <1>6, LockedType DEF boardVars, Locked
  <2>2. PICK gift \in Nat : /\ balanceOf'[Board] = balanceOf[Board] + gift
                            /\ donated'[Board] = donated[Board] + gift
    BY <1>6, ChainStepGifts, BoardAssumption DEF BoardTypeOK
  <2>3. donated[Board] \in Nat
    BY BoardAssumption DEF BoardTypeOK, ChainTypeOK
  <2> QED
    BY <2>1, <2>2, <2>3 DEF Solvency
<1>7. CASE UNCHANGED <<balanceOf, donated, escrows>>
  BY <1>7 DEF Solvency, Locked
<1> QED
  BY <1>1, <1>2, <1>3, <1>4, <1>5, <1>6, <1>7
     DEF BoardNext, BoardStep, CreateDealOffer, CanCreateDealOffer, DeactivateDealOffer, CanDeactivateDealOffer, dealBoardVars, chainVars, boardVars

\* The board's USDC is at all times what its open escrows hold plus what was
\* sent to it outside its functions.
THEOREM BoardIsSolvent == BoardSpec => []Solvency
<1>1. BoardInit => Solvency
  <2>1. ASSUME BoardInit PROVE Solvency
    <3>1. Locked = 0
      BY <2>1, SumEmpty DEF BoardInit, Locked, HeldIn
    <3> QED
      BY <2>1, <3>1, ChainAssumption, BoardAssumption DEF BoardInit, ChainInit, Solvency, Accounts
  <2> QED
    BY <2>1
<1>2. BoardTypeOK /\ Solvency /\ [BoardNext]_dealBoardVars => Solvency'
  BY SolvencyStep
<1> QED
  BY <1>1, <1>2, BoardTypeCorrect, PTL DEF BoardSpec

-----------------------------------------------------------------------------
(* The life cycle of offers and escrows.                                   *)

\* One escrow takes an edge of the life cycle.
LEMMA EdgeLifecycle ==
  ASSUME BoardTypeOK, NEW id \in DOMAIN escrows, NEW st \in Status,
         <<escrows[id].status, st>> \in Edges,
         escrows' = [escrows EXCEPT ![id].status = st], UNCHANGED offers
  PROVE  Lifecycle
<1>1. /\ Len(escrows') = Len(escrows) /\ Len(escrows) \in Nat
      /\ escrows'[id] = [escrows[id] EXCEPT !.status = st]
      /\ \A j \in DOMAIN escrows : j # id => escrows'[j] = escrows[j]
  BY StatusFacts, LenProperties DEF BoardTypeOK
<1>2. escrows[id] \in Escrow
  BY EscrowFacts
<1>3. Terms(escrows'[id]) = Terms(escrows[id]) /\ escrows'[id].status = st
  BY <1>1, <1>2 DEF Terms, Escrow
<1>4. Len(offers) \in Nat
  BY LenProperties DEF BoardTypeOK
<1> QED
  BY <1>1, <1>3, <1>4 DEF Lifecycle

LEMMA LifecycleStep ==
  ASSUME BoardTypeOK, BoardNext
  PROVE  Lifecycle
<1>1. Len(offers) \in Nat /\ Len(escrows) \in Nat
  BY LenProperties DEF BoardTypeOK
<1>2. ASSUME NEW dealer \in Users, NEW agent \in Agents, NEW rate \in Rates,
             NEW min \in Amounts, NEW max \in Amounts,
             CreateDealOffer(dealer, agent, rate, min, max)
      PROVE  Lifecycle
  <2> DEFINE offer == [dealer |-> dealer, agentId |-> agent, rate |-> rate,
                       minAmount |-> min, maxAmount |-> max, active |-> TRUE]
  <2>1. offer \in DealOffer
    BY <1>2, ChainAssumption, BoardAssumption DEF CreateDealOffer, CanCreateDealOffer, DealOffer
  <2>2. offers' = Append(offers, offer) /\ UNCHANGED escrows
    BY <1>2 DEF CreateDealOffer, CanCreateDealOffer
  <2>3. Len(offers') = Len(offers) + 1 /\ \A i \in DOMAIN offers : offers'[i] = offers[i]
    <3> HIDE DEF offer
    <3> QED
      BY <2>1, <2>2, AppendFacts DEF BoardTypeOK
  <2> QED
    BY <1>1, <2>2, <2>3 DEF Lifecycle
<1>3. ASSUME NEW dealer \in Users, NEW offerId \in DOMAIN offers,
             DeactivateDealOffer(dealer, offerId)
      PROVE  Lifecycle
  <2>1. /\ Len(offers') = Len(offers) /\ UNCHANGED escrows
        /\ offers'[offerId] = [offers[offerId] EXCEPT !.active = FALSE]
        /\ \A j \in DOMAIN offers : j # offerId => offers'[j] = offers[j]
    BY <1>3, DeactivateDealFacts DEF DeactivateDealOffer, CanDeactivateDealOffer, BoardTypeOK
  <2> QED
    BY <1>1, <2>1 DEF Lifecycle
<1>4. ASSUME NEW dealer \in Users, NEW id \in DOMAIN escrows, ConfirmReceipt(dealer, id)
      PROVE  Lifecycle
  BY <1>4, EdgeLifecycle DEF ConfirmReceipt, CanConfirmReceipt, Settle, Edges, Status, Settled
<1>5. ASSUME NEW dealer \in Users, NEW id \in DOMAIN escrows, RejectDeal(dealer, id)
      PROVE  Lifecycle
  BY <1>5, EdgeLifecycle DEF RejectDeal, CanRejectDeal, Settle, Edges, Status, Settled
<1>6. ASSUME NEW buyer \in Users, NEW offerId \in DOMAIN offers, NEW amount \in Amounts,
             AcceptDeal(buyer, offerId, amount)
      PROVE  Lifecycle
  <2> DEFINE e == NewEscrow(buyer, offerId, amount)
  <2>1. e \in Escrow /\ escrows' = Append(escrows, e) /\ UNCHANGED offers
    BY <1>6, AcceptFacts
  <2> HIDE DEF e
  <2>2. Len(escrows') = Len(escrows) + 1 /\ \A i \in DOMAIN escrows : escrows'[i] = escrows[i]
    BY <2>1, AppendFacts DEF BoardTypeOK
  <2> QED
    BY <1>1, <2>1, <2>2 DEF Lifecycle
<1>7. ASSUME NEW buyer \in Users, NEW id \in DOMAIN escrows, MarkFiatSent(buyer, id)
      PROVE  Lifecycle
  BY <1>7, EdgeLifecycle DEF MarkFiatSent, CanMarkFiatSent, Edges, Status, Open
<1>8. ASSUME NEW id \in DOMAIN escrows, ClaimExpired(id)
      PROVE  Lifecycle
  BY <1>8, EdgeLifecycle DEF ClaimExpired, CanClaimExpired, Settle, Edges, Status, Settled, Open
<1>9. CASE ChainStep /\ UNCHANGED boardVars
  BY <1>1, <1>9 DEF Lifecycle, boardVars
<1> QED
  BY <1>2, <1>3, <1>4, <1>5, <1>6, <1>7, <1>8, <1>9 DEF BoardNext, BoardStep

\* No transaction takes an escrow or an offer outside its life cycle.
THEOREM LifecycleCorrect == BoardSpec => LifecycleRespected
<1>1. BoardTypeOK /\ [BoardNext]_dealBoardVars => [Lifecycle]_dealBoardVars
  BY LifecycleStep
<1> QED
  BY <1>1, BoardTypeCorrect, PTL DEF BoardSpec, LifecycleRespected

-----------------------------------------------------------------------------
(* Payouts.                                                                *)

\* Ending one escrow pays exactly that one.
LEMMA SettlePays ==
  ASSUME BoardTypeOK, NEW id \in DOMAIN escrows, NEW st \in Settled,
         CanPay(id), Settle(id, st, IF st = "Rejected" THEN escrows[id].dealer ELSE escrows[id].buyer)
  PROVE  PaysTheEntitled
<1> DEFINE recipient == IF st = "Rejected" THEN escrows[id].dealer ELSE escrows[id].buyer
<1>1. /\ escrows[id] \in Escrow /\ escrows[id].usdcAmount \in Nat
      /\ recipient \in Users /\ recipient \in Accounts /\ recipient # Board
      /\ Board \in Accounts
  BY EscrowFacts, ChainAssumption, BoardAssumption DEF Accounts
<1>2. /\ escrows'[id] = [escrows[id] EXCEPT !.status = st]
      /\ \A j \in DOMAIN escrows : j # id => escrows'[j] = escrows[j]
  <2>1. escrows' = [escrows EXCEPT ![id].status = st] /\ st \in Status
    BY DEF Settle, Status
  <2> QED
    BY <2>1, StatusFacts DEF BoardTypeOK
<1>3. Entitled(escrows'[id]) = recipient
  BY <1>1, <1>2 DEF Entitled, Escrow
<1> HIDE DEF recipient
<1>4. ASSUME NEW a \in Accounts
      PROVE  balanceOf'[a] - balanceOf[a] =
               CASE a = Board -> - escrows[id].usdcAmount
                 [] a = recipient -> escrows[id].usdcAmount
                 [] OTHER -> 0
  <2>1. balanceOf' = Moved(Board, recipient, escrows[id].usdcAmount)
        /\ CanTransfer(Board, escrows[id].usdcAmount)
    BY DEF CanPay, Settle, recipient
  <2>2. /\ \A x \in Accounts : x # Board /\ x # recipient => balanceOf'[x] = balanceOf[x]
        /\ balanceOf'[Board] = balanceOf[Board] - escrows[id].usdcAmount
        /\ balanceOf'[recipient] = balanceOf[recipient] + escrows[id].usdcAmount
    <3>1. balanceOf \in [Accounts -> Nat]
      BY DEF BoardTypeOK, ChainTypeOK
    <3> DEFINE amount == escrows[id].usdcAmount
    <3>2. amount \in Nat
      BY <1>1
    <3> HIDE DEF amount
    <3>3. balanceOf' = Moved(Board, recipient, amount) /\ CanTransfer(Board, amount)
      BY <2>1 DEF amount
    <3>4. /\ \A x \in Accounts : x # Board /\ x # recipient => balanceOf'[x] = balanceOf[x]
          /\ balanceOf'[Board] = balanceOf[Board] - amount
          /\ balanceOf'[recipient] = balanceOf[recipient] + amount
      BY <1>1, <3>1, <3>2, <3>3, MovedFacts
    <3> QED
      BY <3>4 DEF amount
  <2>3. balanceOf[a] \in Nat /\ balanceOf[Board] \in Nat /\ balanceOf[recipient] \in Nat
    BY <1>1 DEF BoardTypeOK, ChainTypeOK
  <2>4. CASE a = Board
    BY <1>1, <2>2, <2>3, <2>4
  <2>5. CASE a = recipient
    BY <1>1, <2>2, <2>3, <2>5
  <2>6. CASE a # Board /\ a # recipient
    BY <1>1, <2>2, <2>3, <2>6
  <2> QED
    BY <2>4, <2>5, <2>6
<1>5. \A j \in DOMAIN escrows :
        escrows[j].status \in Open /\ escrows'[j].status \in Settled => j = id
  BY <1>2 DEF Open, Settled
<1> QED
  BY <1>3, <1>4, <1>5 DEF PaysTheEntitled

LEMMA PaysStep ==
  ASSUME BoardTypeOK, BoardNext
  PROVE  PaysTheEntitled
<1>1. ASSUME NEW dealer \in Users, NEW id \in DOMAIN escrows, ConfirmReceipt(dealer, id)
      PROVE  PaysTheEntitled
  BY <1>1, SettlePays DEF ConfirmReceipt, CanConfirmReceipt, Settled
<1>2. ASSUME NEW dealer \in Users, NEW id \in DOMAIN escrows, RejectDeal(dealer, id)
      PROVE  PaysTheEntitled
  BY <1>2, SettlePays DEF RejectDeal, CanRejectDeal, Settled
<1>3. ASSUME NEW id \in DOMAIN escrows, ClaimExpired(id)
      PROVE  PaysTheEntitled
  BY <1>3, SettlePays DEF ClaimExpired, CanClaimExpired, Settled
<1>4. CASE \A j \in DOMAIN escrows : escrows[j].status \in Open => escrows'[j].status \in Open
  BY <1>4 DEF PaysTheEntitled, Open, Settled
<1>5. ASSUME NEW buyer \in Users, NEW offerId \in DOMAIN offers, NEW amount \in Amounts,
             AcceptDeal(buyer, offerId, amount)
      PROVE  PaysTheEntitled
  <2> DEFINE e == NewEscrow(buyer, offerId, amount)
  <2>1. e \in Escrow /\ escrows' = Append(escrows, e)
    BY <1>5, AcceptFacts
  <2> HIDE DEF e
  <2>2. \A i \in DOMAIN escrows : escrows'[i] = escrows[i]
    BY <2>1, AppendFacts DEF BoardTypeOK
  <2> QED
    BY <1>4, <2>2
<1>6. ASSUME NEW buyer \in Users, NEW id \in DOMAIN escrows, MarkFiatSent(buyer, id)
      PROVE  PaysTheEntitled
  <2>1. escrows' = [escrows EXCEPT ![id].status = "Sent"] /\ "Sent" \in Status
    BY <1>6 DEF MarkFiatSent, CanMarkFiatSent, Status, Open
  <2>2. /\ escrows'[id] = [escrows[id] EXCEPT !.status = "Sent"]
        /\ \A j \in DOMAIN escrows : j # id => escrows'[j] = escrows[j]
    BY <2>1, StatusFacts DEF BoardTypeOK
  <2>3. escrows'[id].status = "Sent"
    BY <2>2, EscrowFacts DEF Escrow
  <2> QED
    BY <1>4, <2>2, <2>3 DEF Open
<1>7. CASE UNCHANGED escrows
  BY <1>4, <1>7
<1> QED
  BY <1>1, <1>2, <1>3, <1>5, <1>6, <1>7
     DEF BoardNext, BoardStep, CreateDealOffer, CanCreateDealOffer, DeactivateDealOffer, CanDeactivateDealOffer, boardVars

\* Whatever ends an escrow moves its whole amount to the party the outcome
\* entitles and touches no other balance.
THEOREM PayoutsCorrect == BoardSpec => EntitledArePaid
<1>1. BoardTypeOK /\ [BoardNext]_dealBoardVars => [PaysTheEntitled]_dealBoardVars
  BY PaysStep
<1> QED
  BY <1>1, BoardTypeCorrect, PTL DEF BoardSpec, EntitledArePaid

-----------------------------------------------------------------------------
(* The window of an escrow.  The deadline kept in the escrow is the whole  *)
(* timeout after its creation only if the timeout fits in a uint64.        *)

Deadlines ==
  \A i \in DOMAIN escrows :
    /\ escrows[i].expiresAt = escrows[i].createdAt + EscrowTimeout
    /\ escrows[i].status = "Expired" => now >= escrows[i].expiresAt

\* An escrow that changes its status alone, to Expired only after the deadline.
LEMMA DeadlinesKept ==
  ASSUME BoardTypeOK, Deadlines, NEW id \in DOMAIN escrows, NEW st \in Status,
         escrows' = [escrows EXCEPT ![id].status = st], UNCHANGED now,
         st = "Expired" => now >= escrows[id].expiresAt
  PROVE  Deadlines'
<1>1. /\ DOMAIN escrows' = DOMAIN escrows
      /\ escrows'[id] = [escrows[id] EXCEPT !.status = st]
      /\ \A j \in DOMAIN escrows : j # id => escrows'[j] = escrows[j]
  BY StatusFacts DEF BoardTypeOK
<1>2. /\ escrows'[id].status = st /\ escrows'[id].createdAt = escrows[id].createdAt
      /\ escrows'[id].expiresAt = escrows[id].expiresAt
  BY <1>1, EscrowFacts DEF Escrow
<1> QED
  BY <1>1, <1>2 DEF Deadlines

LEMMA DeadlinesStep ==
  ASSUME EscrowTimeout < U64, BoardTypeOK, Deadlines, [BoardNext]_dealBoardVars
  PROVE  Deadlines'
<1>1. ASSUME NEW dealer \in Users, NEW id \in DOMAIN escrows, ConfirmReceipt(dealer, id)
      PROVE  Deadlines'
  BY <1>1, DeadlinesKept DEF ConfirmReceipt, CanConfirmReceipt, Settle, Status, Settled
<1>2. ASSUME NEW dealer \in Users, NEW id \in DOMAIN escrows, RejectDeal(dealer, id)
      PROVE  Deadlines'
  BY <1>2, DeadlinesKept DEF RejectDeal, CanRejectDeal, Settle, Status, Settled
<1>3. ASSUME NEW id \in DOMAIN escrows, ClaimExpired(id)
      PROVE  Deadlines'
  BY <1>3, DeadlinesKept DEF ClaimExpired, CanClaimExpired, Settle, Status, Settled
<1>4. ASSUME NEW buyer \in Users, NEW id \in DOMAIN escrows, MarkFiatSent(buyer, id)
      PROVE  Deadlines'
  BY <1>4, DeadlinesKept DEF MarkFiatSent, CanMarkFiatSent, Status, Open, chainVars
<1>5. ASSUME NEW buyer \in Users, NEW offerId \in DOMAIN offers, NEW amount \in Amounts,
             AcceptDeal(buyer, offerId, amount)
      PROVE  Deadlines'
  <2> DEFINE e == NewEscrow(buyer, offerId, amount)
  <2>1. e \in Escrow /\ escrows' = Append(escrows, e) /\ UNCHANGED now
    BY <1>5, AcceptFacts
  <2>2. Window = EscrowTimeout
    BY BoardAssumption DEF Window
  <2>3. e.expiresAt = e.createdAt + EscrowTimeout /\ e.status = "Funded"
    BY <2>2 DEF NewEscrow
  <2> HIDE DEF e
  <2> QED
    BY <2>1, <2>3, AppendFacts DEF Deadlines, BoardTypeOK
<1>6. CASE UNCHANGED escrows /\ now' >= now
  <2>1. now \in Nat /\ now' \in Nat
    BY BoardTypeStep, ChainAssumption DEF BoardTypeOK, ChainTypeOK
  <2>2. \A i \in DOMAIN escrows : escrows[i].expiresAt \in Nat
    BY EscrowFacts DEF Escrow
  <2> QED
    BY <1>6, <2>1, <2>2 DEF Deadlines
<1>7. now \in Nat
  BY ChainAssumption DEF BoardTypeOK, ChainTypeOK
<1>8. CASE ChainStep /\ UNCHANGED boardVars
  <2>1. UNCHANGED escrows /\ now' >= now
    BY <1>7, <1>8 DEF ChainStep, Tick, Approve, Transfer, TransferAgent, boardVars
  <2> QED
    BY <1>6, <2>1
<1>9. CASE UNCHANGED <<now, escrows>>
  BY <1>6, <1>7, <1>9
<1> QED
  BY <1>1, <1>2, <1>3, <1>4, <1>5, <1>8, <1>9
     DEF BoardNext, BoardStep, CreateDealOffer, CanCreateDealOffer, DeactivateDealOffer, CanDeactivateDealOffer, dealBoardVars, chainVars, boardVars

\* With a timeout below 2^64 seconds nobody can expire an escrow before its
\* dealer has had the whole timeout to confirm.
THEOREM WindowCorrect ==
  ASSUME EscrowTimeout < U64
  PROVE  BoardSpec => []DealerHasTheWholeWindow
<1>1. BoardInit => Deadlines
  BY DEF BoardInit, Deadlines
<1>2. BoardTypeOK /\ Deadlines /\ [BoardNext]_dealBoardVars => Deadlines'
  BY DeadlinesStep
<1>3. Deadlines => DealerHasTheWholeWindow
  BY DEF Deadlines, DealerHasTheWholeWindow
<1> QED
  BY <1>1, <1>2, <1>3, BoardTypeCorrect, PTL DEF BoardSpec

-----------------------------------------------------------------------------
(* Reputation.                                                             *)

LEMMA EscrowsOfFinite ==
  ASSUME BoardTypeOK, NEW agent, NEW X
  PROVE  IsFiniteSet(EscrowsOf(agent, X)) /\ Cardinality(EscrowsOf(agent, X)) \in Nat
<1>1. Len(escrows) \in Nat /\ DOMAIN escrows = 1..Len(escrows)
  BY LenProperties DEF BoardTypeOK
<1>2. IsFiniteSet(1..Len(escrows))
  BY <1>1, FS_Interval
<1>3. EscrowsOf(agent, X) \in SUBSET (1..Len(escrows))
  BY <1>1 DEF EscrowsOf
<1> QED
  BY <1>2, <1>3, FS_Subset, FS_CardinalityType

\* Steps that leave the escrows of the statuses X alone.
LEMMA EscrowsOfSame ==
  ASSUME BoardTypeOK, NEW agent, NEW X,
         DOMAIN escrows \subseteq DOMAIN escrows',
         \A i \in DOMAIN escrows :
           /\ escrows'[i].offerId = escrows[i].offerId
           /\ escrows'[i].status \in X <=> escrows[i].status \in X,
         \A i \in DOMAIN escrows' \ DOMAIN escrows : escrows'[i].status \notin X,
         \A k \in DOMAIN offers : offers'[k].agentId = offers[k].agentId
  PROVE  EscrowsOf(agent, X)' = EscrowsOf(agent, X)
  BY DEF EscrowsOf, BoardTypeOK

\* Feedback for an escrow that ends as st, when st is Completed or Expired.
LEMMA SettleReputation ==
  ASSUME BoardTypeOK, ReputationMatchesSettlements,
         NEW id \in DOMAIN escrows, escrows[id].status \in Open, NEW recipient,
         NEW st \in {"Completed", "Expired"}, Settle(id, st, recipient),
         SubmitFeedback(id, IF st = "Completed" THEN 1 ELSE -1)
  PROVE  ReputationMatchesSettlements'
<1> DEFINE rated == offers[escrows[id].offerId].agentId
           value == IF st = "Completed" THEN 1 ELSE -1
<1>1. escrows[id] \in Escrow /\ rated \in Agents /\ value \in Int
  BY EscrowFacts
<1>2. /\ DOMAIN escrows' = DOMAIN escrows /\ UNCHANGED offers
      /\ escrows'[id] = [escrows[id] EXCEPT !.status = st]
      /\ \A j \in DOMAIN escrows : j # id => escrows'[j] = escrows[j]
  <2>1. escrows' = [escrows EXCEPT ![id].status = st] /\ st \in Status /\ UNCHANGED offers
    BY DEF Settle, Status, Settled
  <2> QED
    BY <2>1, StatusFacts DEF BoardTypeOK
<1>3. escrows'[id].status = st /\ escrows'[id].offerId = escrows[id].offerId
  BY <1>1, <1>2 DEF Escrow
<1>4. SUFFICES ASSUME NEW agent \in Agents
               PROVE  LET completed == Cardinality(EscrowsOf(agent, {"Completed"})')
                          expired == Cardinality(EscrowsOf(agent, {"Expired"})')
                      IN  feedback'[agent] = [count |-> completed + expired,
                                              sum |-> completed - expired]
  BY DEF ReputationMatchesSettlements
<1> DEFINE C == EscrowsOf(agent, {"Completed"})
           E == EscrowsOf(agent, {"Expired"})
<1>5. /\ IsFiniteSet(C) /\ Cardinality(C) \in Nat
      /\ IsFiniteSet(E) /\ Cardinality(E) \in Nat
      /\ id \notin C /\ id \notin E
  BY EscrowsOfFinite DEF EscrowsOf, Open
<1>6. feedback[agent] = [count |-> Cardinality(C) + Cardinality(E),
                         sum |-> Cardinality(C) - Cardinality(E)]
  BY DEF ReputationMatchesSettlements
<1>7. /\ EscrowsOf(agent, {"Completed"})' =
           IF st = "Completed" /\ agent = rated THEN C \cup {id} ELSE C
      /\ EscrowsOf(agent, {"Expired"})' =
           IF st = "Expired" /\ agent = rated THEN E \cup {id} ELSE E
  <2>1. escrows[id].status \notin {"Completed"} /\ escrows[id].status \notin {"Expired"}
    BY DEF Open
  <2>2. ASSUME NEW X, escrows[id].status \notin X
        PROVE  EscrowsOf(agent, X)' =
                 IF st \in X /\ rated = agent
                   THEN EscrowsOf(agent, X) \cup {id} ELSE EscrowsOf(agent, X)
    <3>1. \A i \in DOMAIN escrows : i # id =>
            (i \in EscrowsOf(agent, X)' <=> i \in EscrowsOf(agent, X))
      BY <1>2 DEF EscrowsOf
    <3>2. id \in EscrowsOf(agent, X)' <=> st \in X /\ rated = agent
      BY <1>2, <1>3 DEF EscrowsOf
    <3>3. id \notin EscrowsOf(agent, X)
      BY <2>2 DEF EscrowsOf
    <3>4. EscrowsOf(agent, X)' \subseteq DOMAIN escrows
          /\ EscrowsOf(agent, X) \subseteq DOMAIN escrows
      BY <1>2 DEF EscrowsOf
    <3> QED
      BY <3>1, <3>2, <3>3, <3>4
  <2>3. EscrowsOf(agent, {"Completed"})' =
          IF st \in {"Completed"} /\ rated = agent THEN C \cup {id} ELSE C
    BY <2>1, <2>2
  <2>4. EscrowsOf(agent, {"Expired"})' =
          IF st \in {"Expired"} /\ rated = agent THEN E \cup {id} ELSE E
    BY <2>1, <2>2
  <2> QED
    BY <2>3, <2>4
<1>8. Cardinality(C \cup {id}) = Cardinality(C) + 1 /\ Cardinality(E \cup {id}) = Cardinality(E) + 1
  BY <1>5, FS_AddElement
<1>9. CASE agent # rated
  <2>1. feedback'[agent] = feedback[agent]
    BY <1>9 DEF SubmitFeedback, BoardTypeOK
  <2> QED
    BY <1>6, <1>7, <1>9, <2>1
<1>10. CASE agent = rated
  <2>1. feedback'[agent] = [count |-> feedback[agent].count + 1,
                            sum |-> feedback[agent].sum + value]
    BY <1>1, <1>10 DEF SubmitFeedback, BoardTypeOK
  <2> HIDE DEF C, E
  <2>2. CASE st = "Completed"
    <3>1. feedback'[agent] = [count |-> (Cardinality(C) + 1) + Cardinality(E),
                              sum |-> (Cardinality(C) + 1) - Cardinality(E)]
      BY <1>5, <1>6, <2>1, <2>2
    <3> QED
      BY <1>7, <1>8, <1>10, <2>2, <3>1
  <2>3. CASE st = "Expired"
    <3>1. feedback'[agent] = [count |-> Cardinality(C) + (Cardinality(E) + 1),
                              sum |-> Cardinality(C) - (Cardinality(E) + 1)]
      BY <1>5, <1>6, <2>1, <2>3
    <3> QED
      BY <1>7, <1>8, <1>10, <2>3, <3>1
  <2> QED
    BY <2>2, <2>3
<1> QED
  BY <1>9, <1>10

\* Steps that settle nothing as Completed or Expired and give no feedback.
LEMMA QuietReputation ==
  ASSUME BoardTypeOK, ReputationMatchesSettlements, UNCHANGED feedback,
         DOMAIN escrows \subseteq DOMAIN escrows',
         \A i \in DOMAIN escrows :
           /\ escrows'[i].offerId = escrows[i].offerId
           /\ escrows'[i].status = "Completed" <=> escrows[i].status = "Completed"
           /\ escrows'[i].status = "Expired" <=> escrows[i].status = "Expired",
         \A i \in DOMAIN escrows' \ DOMAIN escrows : escrows'[i].status = "Funded",
         \A k \in DOMAIN offers : offers'[k].agentId = offers[k].agentId
  PROVE  ReputationMatchesSettlements'
<1>1. ASSUME NEW agent \in Agents
      PROVE  /\ EscrowsOf(agent, {"Completed"})' = EscrowsOf(agent, {"Completed"})
             /\ EscrowsOf(agent, {"Expired"})' = EscrowsOf(agent, {"Expired"})
  BY EscrowsOfSame
<1> QED
  BY <1>1 DEF ReputationMatchesSettlements

LEMMA ReputationStep ==
  ASSUME BoardTypeOK, ReputationMatchesSettlements, [BoardNext]_dealBoardVars
  PROVE  ReputationMatchesSettlements'
<1>1. ASSUME NEW dealer \in Users, NEW id \in DOMAIN escrows, ConfirmReceipt(dealer, id)
      PROVE  ReputationMatchesSettlements'
  BY <1>1, SettleReputation DEF ConfirmReceipt, CanConfirmReceipt, Open
<1>2. ASSUME NEW id \in DOMAIN escrows, ClaimExpired(id)
      PROVE  ReputationMatchesSettlements'
  BY <1>2, SettleReputation DEF ClaimExpired, CanClaimExpired
<1>3. ASSUME NEW id \in DOMAIN escrows, NEW st \in {"Rejected", "Sent"},
             escrows[id].status = "Funded",
             escrows' = [escrows EXCEPT ![id].status = st], UNCHANGED <<offers, feedback>>
      PROVE  ReputationMatchesSettlements'
  <2>1. st \in Status
    BY DEF Status, Open, Settled
  <2>2. /\ DOMAIN escrows' = DOMAIN escrows
        /\ escrows'[id] = [escrows[id] EXCEPT !.status = st]
        /\ \A j \in DOMAIN escrows : j # id => escrows'[j] = escrows[j]
    BY <1>3, <2>1, StatusFacts DEF BoardTypeOK
  <2>3. escrows'[id].status = st /\ escrows'[id].offerId = escrows[id].offerId
    BY <2>2, EscrowFacts DEF Escrow
  <2> QED
    BY <1>3, <2>2, <2>3, QuietReputation
<1>4. ASSUME NEW buyer \in Users, NEW offerId \in DOMAIN offers, NEW amount \in Amounts,
             AcceptDeal(buyer, offerId, amount)
      PROVE  ReputationMatchesSettlements'
  <2> DEFINE e == NewEscrow(buyer, offerId, amount)
  <2>1. e \in Escrow /\ escrows' = Append(escrows, e) /\ UNCHANGED <<offers, feedback>>
    BY <1>4, AcceptFacts
  <2>2. e.status = "Funded"
    BY DEF NewEscrow
  <2> HIDE DEF e
  <2>3. /\ DOMAIN escrows \subseteq DOMAIN escrows'
        /\ \A i \in DOMAIN escrows : escrows'[i] = escrows[i]
        /\ \A i \in DOMAIN escrows' \ DOMAIN escrows : escrows'[i] = e
    BY <2>1, AppendFacts DEF BoardTypeOK
  <2> QED
    BY <2>1, <2>2, <2>3, QuietReputation
<1>5. ASSUME NEW dealer \in Users, NEW agent \in Agents, NEW rate \in Rates,
             NEW min \in Amounts, NEW max \in Amounts,
             CreateDealOffer(dealer, agent, rate, min, max)
      PROVE  ReputationMatchesSettlements'
  <2> DEFINE offer == [dealer |-> dealer, agentId |-> agent, rate |-> rate,
                       minAmount |-> min, maxAmount |-> max, active |-> TRUE]
  <2>1. offer \in DealOffer
    BY <1>5, ChainAssumption, BoardAssumption DEF CreateDealOffer, CanCreateDealOffer, DealOffer
  <2>2. offers' = Append(offers, offer) /\ UNCHANGED <<escrows, feedback>>
    BY <1>5 DEF CreateDealOffer, CanCreateDealOffer
  <2>3. \A k \in DOMAIN offers : offers'[k] = offers[k]
    <3> HIDE DEF offer
    <3> QED
      BY <2>1, <2>2, AppendFacts DEF BoardTypeOK
  <2> QED
    BY <2>2, <2>3, QuietReputation
<1>6. ASSUME NEW dealer \in Users, NEW offerId \in DOMAIN offers,
             DeactivateDealOffer(dealer, offerId)
      PROVE  ReputationMatchesSettlements'
  <2>1. /\ offers'[offerId] = [offers[offerId] EXCEPT !.active = FALSE]
        /\ \A j \in DOMAIN offers : j # offerId => offers'[j] = offers[j]
    BY <1>6, DeactivateDealFacts DEF DeactivateDealOffer, CanDeactivateDealOffer, BoardTypeOK
  <2>2. offers[offerId] \in DealOffer
    BY ElementOfSeq, LenProperties DEF BoardTypeOK
  <2>3. \A k \in DOMAIN offers : offers'[k].agentId = offers[k].agentId
    BY <2>1, <2>2 DEF DealOffer
  <2>4. UNCHANGED <<escrows, feedback>>
    BY <1>6 DEF DeactivateDealOffer, CanDeactivateDealOffer
  <2> QED
    BY <2>3, <2>4, QuietReputation
<1>7. CASE UNCHANGED boardVars
  BY <1>7, QuietReputation DEF boardVars
<1> QED
  BY <1>1, <1>2, <1>3, <1>4, <1>5, <1>6, <1>7
     DEF BoardNext, BoardStep, RejectDeal, CanRejectDeal, MarkFiatSent, CanMarkFiatSent, Settle, dealBoardVars

\* The reputation an agent has on the chain is the record of its settlements.
THEOREM ReputationCorrect == BoardSpec => []ReputationMatchesSettlements
<1>1. BoardInit => ReputationMatchesSettlements
  <2>1. ASSUME BoardInit, NEW agent \in Agents, NEW X PROVE Cardinality(EscrowsOf(agent, X)) = 0
    <3>1. EscrowsOf(agent, X) = {}
      BY <2>1 DEF BoardInit, EscrowsOf
    <3> QED
      BY <3>1, FS_EmptySet
  <2> QED
    BY <2>1 DEF BoardInit, ReputationMatchesSettlements
<1>2. BoardTypeOK /\ ReputationMatchesSettlements /\ [BoardNext]_dealBoardVars => ReputationMatchesSettlements'
  BY ReputationStep
<1> QED
  BY <1>1, <1>2, BoardTypeCorrect, PTL DEF BoardSpec
-----------------------------------------------------------------------------
(* The board implements Custody.  What is held of the escrows changes with *)
(* them: an acceptance appends its amount, a settlement zeroes one entry,  *)
(* and marking the fiat sent leaves the amount held.                       *)

HeldOf(s) == [i \in DOMAIN s |-> Held(s[i])]

LEMMA HeldOfAppend ==
  ASSUME NEW s \in Seq(Escrow), NEW e \in Escrow
  PROVE  HeldOf(Append(s, e)) = Append(HeldOf(s), Held(e))
<1> DEFINE t == Append(s, e)
           f == HeldOf(s)
           g == HeldOf(t)
           n == Len(s)
<1>1. /\ n \in Nat /\ DOMAIN s = 1..n /\ DOMAIN t = 1..(n + 1)
      /\ \A i \in 1..n : t[i] = s[i]
      /\ t[n + 1] = e
  BY AppendFacts, LenProperties
<1>2. \A i \in 1..n : Held(s[i]) \in Nat
  BY <1>1, ElementOfSeq, HeldType
<1>3. Held(e) \in Nat
  BY HeldType
<1> HIDE DEF t, n
<1>4. f \in [1..n -> Nat] /\ g \in [1..(n + 1) -> Nat]
  <2>1. \A i \in 1..(n + 1) : i \in 1..n \/ i = n + 1
    BY <1>1
  <2>2. \A i \in 1..(n + 1) : Held(t[i]) \in Nat
    BY <1>1, <1>2, <1>3, <2>1
  <2> QED
    BY <1>1, <1>2, <2>2 DEF HeldOf
<1>5. /\ \A i \in 1..n : g[i] = f[i]
      /\ g[n + 1] = Held(e)
  BY <1>1 DEF HeldOf
<1> HIDE DEF f, g
<1>6. f \in Seq(Nat) /\ Len(f) = n /\ g \in Seq(Nat) /\ Len(g) = n + 1
  BY <1>1, <1>4, LenProperties, SMT
<1>7. /\ Append(f, Held(e)) \in Seq(Nat)
      /\ Len(Append(f, Held(e))) = n + 1
      /\ \A i \in 1..n : Append(f, Held(e))[i] = f[i]
      /\ Append(f, Held(e))[n + 1] = Held(e)
  BY <1>3, <1>6, AppendFacts
<1>8. \A i \in 1..(n + 1) : g[i] = Append(f, Held(e))[i]
  BY <1>1, <1>5, <1>7
<1>9. g = Append(f, Held(e))
  BY <1>6, <1>7, <1>8, SeqEqual
<1> QED
  BY <1>9 DEF f, g, t

LEMMA HeldOfStatus ==
  ASSUME NEW s \in Seq(Escrow), NEW id \in DOMAIN s, NEW st \in Status
  PROVE  HeldOf([s EXCEPT ![id].status = st]) =
           [HeldOf(s) EXCEPT ![id] = IF st \in Open THEN s[id].usdcAmount ELSE 0]
<1> DEFINE t == [s EXCEPT ![id].status = st]
<1>1. /\ DOMAIN s = 1..Len(s) /\ DOMAIN t = DOMAIN s
      /\ t[id] = [s[id] EXCEPT !.status = st]
      /\ \A j \in DOMAIN s : j # id => t[j] = s[j]
  BY StatusFacts
<1>2. s[id] \in Escrow
  BY <1>1, ElementOfSeq
<1> HIDE DEF t
<1>3. Held(t[id]) = IF st \in Open THEN s[id].usdcAmount ELSE 0
  BY <1>1, <1>2 DEF Held, Escrow
<1>4. HeldOf(t) = [HeldOf(s) EXCEPT ![id] = IF st \in Open THEN s[id].usdcAmount ELSE 0]
  BY <1>1, <1>3 DEF HeldOf
<1> QED
  BY <1>4 DEF t

\* Ending an escrow that holds something pays out what it held.
LEMMA SettleCustody ==
  ASSUME BoardTypeOK, NEW id \in DOMAIN escrows, NEW st \in Settled,
         NEW recipient \in Users, escrows[id].status \in Open,
         CanPay(id), Settle(id, st, recipient)
  PROVE  BoardCustody!PayOut(id) \/ UNCHANGED BoardCustody!custodyVars
<1>1. escrows[id].usdcAmount \in Nat /\ Board \in Accounts /\ recipient \in Accounts
      /\ recipient # Board /\ balanceOf[Board] \in Nat
  BY EscrowFacts, ChainAssumption, BoardAssumption DEF Accounts, BoardTypeOK, ChainTypeOK
<1>2. balanceOf'[Board] = balanceOf[Board] - escrows[id].usdcAmount
  BY <1>1, MovedFacts DEF CanPay, Settle, BoardTypeOK, ChainTypeOK
<1>3. HeldOf(escrows') = [HeldOf(escrows) EXCEPT ![id] = 0]
  <2>1. st \in Status /\ st \notin Open
    BY DEF Status, Open, Settled
  <2>2. escrows' = [escrows EXCEPT ![id].status = st]
    BY DEF Settle
  <2> QED
    BY <2>1, <2>2, HeldOfStatus DEF BoardTypeOK
<1>4. HeldOf(escrows)[id] = escrows[id].usdcAmount
  BY DEF HeldOf, Held
<1>5. CASE escrows[id].usdcAmount > 0
  <2>1. BoardCustody!PayOut(id)
    BY <1>2, <1>3, <1>4, <1>5 DEF BoardCustody!PayOut, HeldOf
  <2> QED
    BY <2>1
<1>6. CASE escrows[id].usdcAmount = 0
  <2>1. HeldOf(escrows') = HeldOf(escrows)
    BY <1>3, <1>4, <1>6 DEF HeldOf
  <2>2. balanceOf'[Board] = balanceOf[Board]
    BY <1>1, <1>2, <1>6
  <2> QED
    BY <2>1, <2>2 DEF BoardCustody!custodyVars, HeldOf
<1> QED
  BY <1>1, <1>5, <1>6

\* Every step of the board is a step of Custody or leaves its variables alone.
LEMMA BoardCustodyStep ==
  ASSUME BoardTypeOK, [BoardNext]_dealBoardVars
  PROVE  [BoardCustody!Next]_(BoardCustody!custodyVars)
<1>1. ASSUME NEW id \in DOMAIN escrows, NEW st \in Settled,
             NEW recipient \in Users, escrows[id].status \in Open,
             CanPay(id), Settle(id, st, recipient)
      PROVE  [BoardCustody!Next]_(BoardCustody!custodyVars)
  <2>1. BoardCustody!PayOut(id) => BoardCustody!Next
    BY DEF BoardCustody!Next
  <2> QED
    BY <1>1, <2>1, SettleCustody
<1>2. ASSUME NEW buyer \in Users, NEW offerId \in DOMAIN offers, NEW amount \in Amounts,
             AcceptDeal(buyer, offerId, amount)
      PROVE  BoardCustody!Deposit
  <2> DEFINE dealer == offers[offerId].dealer
             e == NewEscrow(buyer, offerId, amount)
  <2>1. /\ amount \in Nat /\ e \in Escrow /\ dealer \in Users
        /\ escrows' = Append(escrows, e)
        /\ balanceOf' = Moved(dealer, Board, amount)
    BY <1>2, AcceptFacts DEF DealOffer
  <2>2. Held(e) = amount
    BY DEF NewEscrow, Held, Open
  <2>3. dealer \in Accounts /\ Board \in Accounts /\ dealer # Board
    BY <2>1, ChainAssumption, BoardAssumption DEF Accounts
  <2>4. CanTransfer(dealer, amount)
    BY <1>2 DEF AcceptDeal, CanAcceptDeal, CanTransferFrom
  <2> HIDE DEF e, dealer
  <2>5. balanceOf'[Board] = balanceOf[Board] + amount
    BY <2>1, <2>3, <2>4, MovedFacts DEF BoardTypeOK, ChainTypeOK
  <2>6. HeldOf(escrows') = Append(HeldOf(escrows), amount)
    BY <2>1, <2>2, HeldOfAppend DEF BoardTypeOK
  <2> QED
    BY <2>5, <2>6 DEF BoardCustody!Deposit, HeldOf
<1>3. ASSUME NEW buyer \in Users, NEW id \in DOMAIN escrows, MarkFiatSent(buyer, id)
      PROVE  UNCHANGED BoardCustody!custodyVars
  <2>1. escrows' = [escrows EXCEPT ![id].status = "Sent"] /\ UNCHANGED balanceOf
    BY <1>3 DEF MarkFiatSent, CanMarkFiatSent, chainVars
  <2>2. HeldOf(escrows)[id] = escrows[id].usdcAmount
    BY <1>3 DEF MarkFiatSent, CanMarkFiatSent, HeldOf, Held, Open
  <2>3. "Sent" \in Status /\ "Sent" \in Open
    BY DEF Status, Open
  <2>4. HeldOf(escrows') = [HeldOf(escrows) EXCEPT ![id] = escrows[id].usdcAmount]
    BY <2>1, <2>3, HeldOfStatus DEF BoardTypeOK
  <2>5. HeldOf(escrows') = HeldOf(escrows)
    BY <2>2, <2>4 DEF HeldOf
  <2> QED
    BY <2>1, <2>5 DEF BoardCustody!custodyVars, HeldOf
<1>4. CASE ChainStep /\ UNCHANGED boardVars
  <2>1. PICK gift \in Nat : balanceOf'[Board] = balanceOf[Board] + gift
    BY <1>4, ChainStepGifts, BoardAssumption DEF BoardTypeOK
  <2>2. balanceOf[Board] \in Nat
    BY BoardAssumption DEF BoardTypeOK, ChainTypeOK, Accounts
  <2>3. CASE gift = 0
    BY <1>4, <2>1, <2>2, <2>3 DEF boardVars, BoardCustody!custodyVars
  <2>4. CASE gift > 0
    BY <1>4, <2>1, <2>2, <2>4 DEF boardVars, BoardCustody!Next, BoardCustody!Gift
  <2> QED
    BY <2>3, <2>4
<1>5. CASE UNCHANGED <<balanceOf, escrows>>
  BY <1>5 DEF BoardCustody!custodyVars
<1>6. ASSUME NEW dealer \in Users, NEW id \in DOMAIN escrows, ConfirmReceipt(dealer, id)
      PROVE  [BoardCustody!Next]_(BoardCustody!custodyVars)
  BY <1>1, <1>6, EscrowFacts DEF ConfirmReceipt, CanConfirmReceipt, Open, Settled
<1>7. ASSUME NEW dealer \in Users, NEW id \in DOMAIN escrows, RejectDeal(dealer, id)
      PROVE  [BoardCustody!Next]_(BoardCustody!custodyVars)
  BY <1>1, <1>7, EscrowFacts DEF RejectDeal, CanRejectDeal, Open, Settled
<1>8. ASSUME NEW id \in DOMAIN escrows, ClaimExpired(id)
      PROVE  [BoardCustody!Next]_(BoardCustody!custodyVars)
  BY <1>1, <1>8, EscrowFacts DEF ClaimExpired, CanClaimExpired, Settled
<1>9. BoardCustody!Deposit => BoardCustody!Next
  BY DEF BoardCustody!Next
<1> QED
  BY <1>2, <1>3, <1>4, <1>5, <1>6, <1>7, <1>8, <1>9
     DEF BoardNext, BoardStep, CreateDealOffer, CanCreateDealOffer, DeactivateDealOffer, CanDeactivateDealOffer, dealBoardVars, chainVars, boardVars

\* Seen from outside, the board only takes in recorded deposits and gifts and only
\* pays out whole deposits, once: accepting, marking, confirming, rejecting and
\* claiming, with whatever happens to the token in between, implement Custody.
THEOREM BoardCustodyKept == BoardSpec => BoardKeepsCustody
<1>1. BoardInit => BoardCustody!Init
  <2>1. ASSUME BoardInit PROVE escrows = <<>> /\ balanceOf[Board] = 0
    BY <2>1, ChainAssumption, BoardAssumption DEF BoardInit, ChainInit, Accounts
  <2> QED
    BY <2>1 DEF BoardCustody!Init
<1>2. BoardTypeOK /\ [BoardNext]_dealBoardVars => [BoardCustody!Next]_(BoardCustody!custodyVars)
  BY BoardCustodyStep
<1> QED
  BY <1>1, <1>2, BoardTypeCorrect, PTL DEF BoardSpec, BoardKeepsCustody, BoardCustody!Spec

-----------------------------------------------------------------------------
\* Routes.

\* What the changes of one offer have in common.
LEMMA ChangeFacts ==
  ASSUME NEW s \in Seq(RouteOffer), NEW id \in DOMAIN s, NEW o \in RouteOffer
  PROVE  LET t == [s EXCEPT ![id] = o] IN
         /\ t \in Seq(RouteOffer)
         /\ Len(t) = Len(s) /\ Len(s) \in Nat
         /\ DOMAIN s = 1..Len(s) /\ DOMAIN t = 1..Len(s)
         /\ t[id] = o
         /\ \A j \in DOMAIN s : j # id => t[j] = s[j]
<1>1. DOMAIN s = 1..Len(s) /\ Len(s) \in Nat
  BY LenProperties
<1> DEFINE t == [s EXCEPT ![id] = o]
<1>2. t \in Seq(RouteOffer) /\ Len(t) = Len(s)
  BY <1>1, ExceptSeq
<1> QED
  BY <1>1, <1>2

LEMMA OfferFacts ==
  ASSUME BookTypeOK, NEW id \in DOMAIN routes
  PROVE  /\ DOMAIN routes = 1..Len(routes) /\ Len(routes) \in Nat
         /\ routes[id] \in RouteOffer
         /\ routes[id].provider \in Users /\ routes[id].stakeAmount \in Nat
<1>1. DOMAIN routes = 1..Len(routes) /\ Len(routes) \in Nat
  BY LenProperties DEF BookTypeOK
<1>2. routes[id] \in RouteOffer
  BY <1>1, ElementOfSeq DEF BookTypeOK
<1> QED
  BY <1>1, <1>2 DEF RouteOffer

\* A new offer of a provider, as createOffer builds it.
NewOffer(provider, agent, stake) ==
  [provider |-> provider, agentId |-> agent, stakeAmount |-> stake,
   active |-> TRUE, deactivatedAt |-> 0]

Ended(id) == [routes[id] EXCEPT !.active = FALSE, !.deactivatedAt = now]

Emptied(id) == [routes[id] EXCEPT !.stakeAmount = 0]

\* The three operations, each with what it does to the list of offers.
LEMMA CreateFacts ==
  ASSUME BookTypeOK, NEW provider \in Users, NEW agent \in Agents, NEW stake \in Amounts,
         CreateOffer(provider, agent, stake)
  PROVE  /\ stake \in Nat
         /\ NewOffer(provider, agent, stake) \in RouteOffer
         /\ routes' = Append(routes, NewOffer(provider, agent, stake))
         /\ balanceOf' \in [Accounts -> Nat]
         /\ balanceOf'[Book] = balanceOf[Book] + stake
         /\ allowance' \in [Users -> [Contracts -> 0..MaxUint]]
<1>1. stake \in Nat
  BY ChainAssumption
<1>2. NewOffer(provider, agent, stake) \in RouteOffer
  BY <1>1 DEF NewOffer, RouteOffer
<1>3. provider \in Accounts /\ Book \in Accounts /\ provider # Book
  BY ChainAssumption, BookAssumption DEF Accounts
<1>4. balanceOf' \in [Accounts -> Nat] /\ balanceOf'[Book] = balanceOf[Book] + stake
  BY <1>1, <1>3, MovedFacts DEF CreateOffer, CanCreateOffer, CanTransferFrom, BookTypeOK, ChainTypeOK
<1>5. allowance' \in [Users -> [Contracts -> 0..MaxUint]]
  BY <1>1, SpentType, BookAssumption DEF CreateOffer, CanCreateOffer, BookTypeOK
<1> QED
  BY <1>1, <1>2, <1>4, <1>5 DEF CreateOffer, CanCreateOffer, NewOffer

LEMMA DeactivateRouteFacts ==
  ASSUME BookTypeOK, NEW provider \in Users, NEW id \in DOMAIN routes,
         DeactivateOffer(provider, id)
  PROVE  /\ Ended(id) \in RouteOffer
         /\ routes' = [routes EXCEPT ![id] = Ended(id)]
<1>1. routes[id] \in RouteOffer /\ now \in Nat
  BY OfferFacts, ChainAssumption DEF BookTypeOK, ChainTypeOK
<1>2. Ended(id) \in RouteOffer
  BY <1>1 DEF Ended, RouteOffer
<1> QED
  BY <1>2 DEF DeactivateOffer, CanDeactivateOffer, Ended

LEMMA WithdrawFacts ==
  ASSUME BookTypeOK, NEW provider \in Users, NEW id \in DOMAIN routes,
         WithdrawStake(provider, id)
  PROVE  /\ Emptied(id) \in RouteOffer
         /\ routes' = [routes EXCEPT ![id] = Emptied(id)]
         /\ balanceOf' \in [Accounts -> Nat]
         /\ balanceOf'[Book] = balanceOf[Book] - routes[id].stakeAmount
         /\ balanceOf'[provider] = balanceOf[provider] + routes[id].stakeAmount
<1>1. routes[id] \in RouteOffer /\ routes[id].stakeAmount \in Nat
  BY OfferFacts
<1>2. Emptied(id) \in RouteOffer
  BY <1>1 DEF Emptied, RouteOffer
<1>3. provider \in Accounts /\ Book \in Accounts /\ provider # Book
  BY ChainAssumption, BookAssumption DEF Accounts
<1>4. /\ balanceOf' \in [Accounts -> Nat]
      /\ balanceOf'[Book] = balanceOf[Book] - routes[id].stakeAmount
      /\ balanceOf'[provider] = balanceOf[provider] + routes[id].stakeAmount
  BY <1>1, <1>3, MovedFacts DEF WithdrawStake, CanWithdrawStake, BookTypeOK, ChainTypeOK
<1> QED
  BY <1>2, <1>4 DEF WithdrawStake, CanWithdrawStake, Emptied

-----------------------------------------------------------------------------
LEMMA BookTypeStep ==
  ASSUME BookTypeOK, [BookNext]_routeBookVars
  PROVE  BookTypeOK'
<1>1. ASSUME NEW provider \in Users, NEW agent \in Agents, NEW stake \in Amounts,
             CreateOffer(provider, agent, stake)
      PROVE  BookTypeOK'
  <2> DEFINE o == NewOffer(provider, agent, stake)
  <2>1. routes' \in Seq(RouteOffer)
    <3>1. o \in RouteOffer /\ routes' = Append(routes, o)
      BY <1>1, CreateFacts
    <3> HIDE DEF o
    <3> QED
      BY <3>1, AppendFacts DEF BookTypeOK
  <2> QED
    BY <1>1, <2>1, CreateFacts DEF CreateOffer, CanCreateOffer, BookTypeOK, ChainTypeOK
<1>2. ASSUME NEW provider \in Users, NEW id \in DOMAIN routes, DeactivateOffer(provider, id)
      PROVE  BookTypeOK'
  <2>1. routes' \in Seq(RouteOffer)
    BY <1>2, DeactivateRouteFacts, ChangeFacts DEF BookTypeOK
  <2> QED
    BY <1>2, <2>1 DEF DeactivateOffer, CanDeactivateOffer, BookTypeOK, ChainTypeOK, chainVars
<1>3. ASSUME NEW provider \in Users, NEW id \in DOMAIN routes, WithdrawStake(provider, id)
      PROVE  BookTypeOK'
  <2>1. routes' \in Seq(RouteOffer)
    BY <1>3, WithdrawFacts, ChangeFacts DEF BookTypeOK
  <2> QED
    BY <1>3, <2>1, WithdrawFacts DEF WithdrawStake, CanWithdrawStake, BookTypeOK, ChainTypeOK
<1>4. CASE ChainStep /\ UNCHANGED routes
  BY <1>4, ChainStepType DEF BookTypeOK
<1>5. CASE UNCHANGED routeBookVars
  BY <1>5 DEF BookTypeOK, ChainTypeOK, routeBookVars, chainVars
<1> QED
  BY <1>1, <1>2, <1>3, <1>4, <1>5 DEF BookNext, BookStep

\* Every variable keeps its type: no transfer the route book makes takes a balance
\* below zero, and every offer is complete.
THEOREM BookTypeCorrect == BookSpec => []BookTypeOK
<1>1. BookInit => BookTypeOK
  BY ChainAssumption DEF BookInit, ChainInit, BookTypeOK, ChainTypeOK
<1>2. BookTypeOK /\ [BookNext]_routeBookVars => BookTypeOK'
  BY BookTypeStep
<1> QED
  BY <1>1, <1>2, PTL DEF BookSpec

-----------------------------------------------------------------------------
(* The stakes are backed.  BookTypeOK and StakesBacked are inductive together. *)

StakedIn(s) == SumTo([i \in DOMAIN s |-> s[i].stakeAmount], Len(s))

LEMMA StakeIsInt ==
  ASSUME NEW o \in RouteOffer
  PROVE  o.stakeAmount \in Int
  BY DEF RouteOffer

LEMMA StakedInAppend ==
  ASSUME NEW s \in Seq(RouteOffer), NEW o \in RouteOffer
  PROVE  StakedIn(Append(s, o)) = StakedIn(s) + o.stakeAmount
<1> DEFINE t == Append(s, o)
           f == [i \in DOMAIN s |-> s[i].stakeAmount]
           g == [i \in DOMAIN t |-> t[i].stakeAmount]
           n == Len(s)
<1>1. /\ n \in Nat /\ DOMAIN s = 1..n /\ DOMAIN t = 1..(n + 1) /\ Len(t) = n + 1
      /\ \A i \in 1..n : t[i] = s[i]
      /\ t[n + 1] = o
  BY AppendFacts, LenProperties
<1>2. \A i \in 1..n : s[i] \in RouteOffer
  BY <1>1, ElementOfSeq
<1>3. \A i \in 1..n : f[i] \in Int /\ g[i] = f[i]
  <2> HIDE DEF t
  <2> TAKE i \in 1..n
  <2>1. s[i].stakeAmount \in Int
    BY <1>2, StakeIsInt
  <2>2. f[i] = s[i].stakeAmount /\ g[i] = t[i].stakeAmount
    BY <1>1
  <2> QED
    BY <1>1, <2>1, <2>2
<1>4. g[n + 1] = o.stakeAmount /\ g[n + 1] \in Int
  <2> HIDE DEF t
  <2> QED
    BY <1>1 DEF RouteOffer
<1>5. SumTo(g, n + 1) = SumTo(f, n) + g[n + 1]
  <2> HIDE DEF t, f, g, n
  <2> QED
    BY <1>1, <1>3, <1>4, SumAppend
<1>6. StakedIn(t) = SumTo(g, n + 1) /\ StakedIn(s) = SumTo(f, n)
  <2> HIDE DEF t
  <2> QED
    BY <1>1 DEF StakedIn
<1> QED
  BY <1>4, <1>5, <1>6

LEMMA StakedInChange ==
  ASSUME NEW s \in Seq(RouteOffer), NEW id \in DOMAIN s, NEW o \in RouteOffer
  PROVE  StakedIn([s EXCEPT ![id] = o])
           = StakedIn(s) - s[id].stakeAmount + o.stakeAmount
<1> DEFINE t == [s EXCEPT ![id] = o]
           f == [i \in DOMAIN s |-> s[i].stakeAmount]
           g == [i \in DOMAIN t |-> t[i].stakeAmount]
           n == Len(s)
<1>1. /\ n \in Nat /\ DOMAIN s = 1..n /\ DOMAIN t = 1..n /\ Len(t) = n
      /\ t \in Seq(RouteOffer) /\ t[id] = o
      /\ \A j \in 1..n : j # id => t[j] = s[j]
  BY ChangeFacts
<1> HIDE DEF t
<1>2. \A i \in 1..n : s[i] \in RouteOffer /\ t[i] \in RouteOffer
  BY <1>1, ElementOfSeq
<1>3. \A i \in 1..n : f[i] \in Int /\ g[i] \in Int
  <2> TAKE i \in 1..n
  <2>1. s[i].stakeAmount \in Int /\ t[i].stakeAmount \in Int
    BY <1>2, StakeIsInt
  <2>2. f[i] = s[i].stakeAmount /\ g[i] = t[i].stakeAmount
    BY <1>1
  <2> QED
    BY <2>1, <2>2
<1>4. \A i \in 1..n : i # id => g[i] = f[i]
  BY <1>1
<1>5. SumTo(g, n) = SumTo(f, n) - f[id] + g[id]
  <2>1. n \in Nat /\ id \in 1..n
    BY <1>1
  <2> HIDE DEF t, f, g, n
  <2> QED
    BY <2>1, <1>3, <1>4, SumUpdate
<1>6. f[id] = s[id].stakeAmount /\ g[id] = o.stakeAmount
  BY <1>1
<1>7. StakedIn(t) = SumTo(g, n) /\ StakedIn(s) = SumTo(f, n)
  BY <1>1 DEF StakedIn
<1> QED
  BY <1>5, <1>6, <1>7 DEF t

LEMMA StakedType ==
  ASSUME BookTypeOK
  PROVE  Staked = StakedIn(routes) /\ StakedIn(routes) \in Nat /\ donated[Book] \in Nat
<1> DEFINE f == [i \in DOMAIN routes |-> routes[i].stakeAmount]
           n == Len(routes)
<1>1. n \in Nat /\ DOMAIN routes = 1..n
  BY LenProperties DEF BookTypeOK
<1>2. \A i \in 1..n : f[i] \in Nat
  BY <1>1, OfferFacts
<1>3. SumTo(f, n) \in Nat
  <2> HIDE DEF f, n
  <2> QED
    BY <1>1, <1>2, SumNat
<1> QED
  BY <1>3, BookAssumption DEF Staked, StakedIn, BookTypeOK, ChainTypeOK

LEMMA BackedStep ==
  ASSUME BookTypeOK, StakesBacked, [BookNext]_routeBookVars
  PROVE  StakesBacked'
<1>1. balanceOf[Book] = StakedIn(routes) + donated[Book] /\ BookTypeOK'
  BY StakedType, BookTypeStep DEF StakesBacked
<1>2. SUFFICES balanceOf'[Book] = StakedIn(routes') + donated'[Book]
  BY DEF StakesBacked, Staked, StakedIn
<1>3. ASSUME NEW provider \in Users, NEW agent \in Agents, NEW stake \in Amounts,
             CreateOffer(provider, agent, stake)
      PROVE  balanceOf'[Book] = StakedIn(routes') + donated'[Book]
  <2>1. StakedIn(routes') = StakedIn(routes) + stake
    <3>1. NewOffer(provider, agent, stake).stakeAmount = stake
      BY DEF NewOffer
    <3> QED
      BY <1>3, <3>1, CreateFacts, StakedInAppend DEF BookTypeOK
  <2>2. balanceOf'[Book] = balanceOf[Book] + stake /\ stake \in Nat
    BY <1>3, CreateFacts
  <2> QED
    BY <1>1, <1>3, <2>1, <2>2, StakedType DEF CreateOffer, CanCreateOffer
<1>4. ASSUME NEW provider \in Users, NEW id \in DOMAIN routes, DeactivateOffer(provider, id)
      PROVE  balanceOf'[Book] = StakedIn(routes') + donated'[Book]
  <2>1. StakedIn(routes') = StakedIn(routes) - routes[id].stakeAmount + Ended(id).stakeAmount
    BY <1>4, DeactivateRouteFacts, StakedInChange DEF BookTypeOK
  <2>2. Ended(id).stakeAmount = routes[id].stakeAmount /\ routes[id].stakeAmount \in Nat
    BY OfferFacts DEF Ended, RouteOffer
  <2> QED
    BY <1>1, <1>4, <2>1, <2>2, StakedType DEF DeactivateOffer, CanDeactivateOffer, chainVars
<1>5. ASSUME NEW provider \in Users, NEW id \in DOMAIN routes, WithdrawStake(provider, id)
      PROVE  balanceOf'[Book] = StakedIn(routes') + donated'[Book]
  <2>1. StakedIn(routes') = StakedIn(routes) - routes[id].stakeAmount + Emptied(id).stakeAmount
    BY <1>5, WithdrawFacts, StakedInChange DEF BookTypeOK
  <2>2. Emptied(id).stakeAmount = 0 /\ routes[id].stakeAmount \in Nat
    BY OfferFacts DEF Emptied, RouteOffer
  <2>3. balanceOf'[Book] = balanceOf[Book] - routes[id].stakeAmount
    BY <1>5, WithdrawFacts
  <2> QED
    BY <1>1, <1>5, <2>1, <2>2, <2>3, StakedType DEF WithdrawStake, CanWithdrawStake
<1>6. CASE ChainStep /\ UNCHANGED routes
  <2>1. PICK gift \in Nat : /\ balanceOf'[Book] = balanceOf[Book] + gift
                            /\ donated'[Book] = donated[Book] + gift
    BY <1>6, ChainStepGifts, BookAssumption DEF BookTypeOK
  <2> QED
    BY <1>1, <1>6, <2>1, StakedType
<1>7. CASE UNCHANGED routeBookVars
  BY <1>1, <1>7 DEF routeBookVars, chainVars
<1> QED
  BY <1>3, <1>4, <1>5, <1>6, <1>7 DEF BookNext, BookStep

\* The USDC the route book owns is at all times the stakes it has not paid back and
\* what was sent to it outside createOffer: no sequence of offers pays a stake twice.
THEOREM BookIsBacked == BookSpec => []StakesBacked
<1>1. BookInit => StakesBacked
  <2> SUFFICES ASSUME BookInit PROVE StakesBacked
    OBVIOUS
  <2>1. Staked = 0
    BY SumEmpty DEF BookInit, Staked
  <2> QED
    BY <2>1, ChainAssumption, BookAssumption DEF BookInit, ChainInit, StakesBacked, Accounts
<1>2. BookTypeOK /\ StakesBacked /\ [BookNext]_routeBookVars => StakesBacked'
  BY BackedStep
<1> QED
  BY <1>1, <1>2, BookTypeCorrect, PTL DEF BookSpec

-----------------------------------------------------------------------------
(* The discipline of one step. *)

\* One offer changes, in a way the discipline allows.
Allowed(o, q) ==
  /\ o.stakeAmount # q.stakeAmount =>
       /\ q.stakeAmount = 0
       /\ ~ o.active
       /\ now - o.deactivatedAt >= WithdrawalDelay
       /\ balanceOf'[o.provider] = balanceOf[o.provider] + o.stakeAmount
  /\ ~ o.active => ~ q.active /\ q.deactivatedAt = o.deactivatedAt
  /\ q.provider = o.provider

LEMMA DisciplineStep ==
  ASSUME BookTypeOK, BookNext
  PROVE  StakeDiscipline
<1>1. SUFFICES ASSUME NEW i \in DOMAIN routes PROVE Allowed(routes[i], routes'[i])
  BY DEF StakeDiscipline, Allowed
<1>2. ASSUME routes'[i] = routes[i] PROVE Allowed(routes[i], routes'[i])
  BY <1>2 DEF Allowed
<1>3. ASSUME NEW provider \in Users, NEW agent \in Agents, NEW stake \in Amounts,
             CreateOffer(provider, agent, stake)
      PROVE  Allowed(routes[i], routes'[i])
  <2> DEFINE o == NewOffer(provider, agent, stake)
  <2>1. routes'[i] = routes[i]
    <3>1. o \in RouteOffer /\ routes' = Append(routes, o) /\ i \in 1..Len(routes)
      BY <1>3, CreateFacts, OfferFacts
    <3> HIDE DEF o
    <3> QED
      BY <3>1, AppendFacts DEF BookTypeOK
  <2> QED
    BY <1>2, <2>1
<1>4. ASSUME NEW provider \in Users, NEW id \in DOMAIN routes, DeactivateOffer(provider, id)
      PROVE  Allowed(routes[i], routes'[i])
  <2>1. /\ routes'[id] = Ended(id)
        /\ i # id => routes'[i] = routes[i]
    BY <1>4, DeactivateRouteFacts, ChangeFacts DEF BookTypeOK
  <2>2. Allowed(routes[id], Ended(id))
    BY <1>4, OfferFacts DEF DeactivateOffer, CanDeactivateOffer, Allowed, Ended, RouteOffer
  <2> QED
    BY <1>2, <2>1, <2>2
<1>5. ASSUME NEW provider \in Users, NEW id \in DOMAIN routes, WithdrawStake(provider, id)
      PROVE  Allowed(routes[i], routes'[i])
  <2>1. /\ routes'[id] = Emptied(id)
        /\ i # id => routes'[i] = routes[i]
    BY <1>5, WithdrawFacts, ChangeFacts DEF BookTypeOK
  <2>2. Allowed(routes[id], Emptied(id))
    <3>1. /\ routes[id] \in RouteOffer /\ routes[id].provider = provider
          /\ ~ routes[id].active
          /\ now >= routes[id].deactivatedAt + WithdrawalDelay
          /\ balanceOf'[provider] = balanceOf[provider] + routes[id].stakeAmount
      BY <1>5, OfferFacts, WithdrawFacts DEF WithdrawStake, CanWithdrawStake
    <3>2. now - routes[id].deactivatedAt >= WithdrawalDelay
      BY <3>1, ChainAssumption, BookAssumption DEF BookTypeOK, ChainTypeOK, RouteOffer
    <3> QED
      BY <3>1, <3>2 DEF Allowed, Emptied, RouteOffer
  <2> QED
    BY <1>2, <2>1, <2>2
<1>6. CASE ChainStep /\ UNCHANGED routes
  BY <1>2, <1>6
<1> QED
  BY <1>3, <1>4, <1>5, <1>6 DEF BookNext, BookStep

\* A stake leaves the book whole, to its provider and after the whole delay, in every
\* step of every instance; and no deactivated offer comes back.
THEOREM DisciplineCorrect == BookSpec => StakesDisciplined
<1>1. BookTypeOK /\ [BookNext]_routeBookVars => [StakeDiscipline]_routeBookVars
  BY DisciplineStep
<1> QED
  BY <1>1, BookTypeCorrect, PTL DEF BookSpec, StakesDisciplined
-----------------------------------------------------------------------------
(* The book implements Custody.  The held deposits are the stakes of the   *)
(* offers in order, so they change with the offers: a new offer appends its *)
(* stake, a withdrawal zeroes one, and deactivating leaves them alone.     *)

Stakes(s) == [i \in DOMAIN s |-> s[i].stakeAmount]

LEMMA StakesAppend ==
  ASSUME NEW s \in Seq(RouteOffer), NEW o \in RouteOffer
  PROVE  Stakes(Append(s, o)) = Append(Stakes(s), o.stakeAmount)
<1> DEFINE t == Append(s, o)
           f == Stakes(s)
           g == Stakes(t)
           n == Len(s)
<1>1. /\ n \in Nat /\ DOMAIN s = 1..n /\ DOMAIN t = 1..(n + 1)
      /\ \A i \in 1..n : t[i] = s[i]
      /\ t[n + 1] = o
  BY AppendFacts, LenProperties
<1>2. \A i \in 1..n : s[i] \in RouteOffer
  BY <1>1, ElementOfSeq
<1> HIDE DEF t, n
<1>3. f \in [1..n -> Nat] /\ g \in [1..(n + 1) -> Nat]
  <2>1. \A i \in 1..n : s[i].stakeAmount \in Nat
    BY <1>2 DEF RouteOffer
  <2>2. \A i \in 1..(n + 1) : t[i].stakeAmount \in Nat
    <3>1. \A i \in 1..(n + 1) : t[i] \in RouteOffer
      <4>1. \A i \in 1..(n + 1) : i \in 1..n \/ i = n + 1
        BY <1>1
      <4> QED
        BY <1>1, <1>2, <4>1
    <3> QED
      BY <3>1 DEF RouteOffer
  <2> QED
    BY <1>1, <2>1, <2>2 DEF Stakes
<1>4. /\ \A i \in 1..n : g[i] = f[i]
      /\ g[n + 1] = o.stakeAmount
  BY <1>1 DEF Stakes
<1> HIDE DEF f, g
<1>5. f \in Seq(Nat) /\ Len(f) = n /\ g \in Seq(Nat) /\ Len(g) = n + 1
  BY <1>1, <1>3, LenProperties, SMT
<1>6. o.stakeAmount \in Nat
  BY DEF RouteOffer
<1>7. /\ Append(f, o.stakeAmount) \in Seq(Nat)
      /\ Len(Append(f, o.stakeAmount)) = n + 1
      /\ \A i \in 1..n : Append(f, o.stakeAmount)[i] = f[i]
      /\ Append(f, o.stakeAmount)[n + 1] = o.stakeAmount
  BY <1>5, <1>6, AppendFacts
<1>8. \A i \in 1..(n + 1) : g[i] = Append(f, o.stakeAmount)[i]
  BY <1>1, <1>4, <1>7
<1>9. g = Append(f, o.stakeAmount)
  BY <1>5, <1>7, <1>8, SeqEqual
<1> QED
  BY <1>9 DEF f, g, t

LEMMA StakesChange ==
  ASSUME NEW s \in Seq(RouteOffer), NEW id \in DOMAIN s, NEW o \in RouteOffer
  PROVE  Stakes([s EXCEPT ![id] = o]) = [Stakes(s) EXCEPT ![id] = o.stakeAmount]
  BY ChangeFacts DEF Stakes

\* Every step of the book is a step of Custody or leaves its variables alone.
LEMMA BookCustodyStep ==
  ASSUME BookTypeOK, [BookNext]_routeBookVars
  PROVE  [BookCustody!Next]_(BookCustody!custodyVars)
<1> USE DEF Stakes
<1>1. ASSUME NEW provider \in Users, NEW agent \in Agents, NEW stake \in Amounts,
             CreateOffer(provider, agent, stake)
      PROVE  BookCustody!Deposit
  <2> DEFINE o == NewOffer(provider, agent, stake)
  <2>1. /\ o \in RouteOffer /\ o.stakeAmount = stake
        /\ routes' = Append(routes, o)
        /\ balanceOf'[Book] = balanceOf[Book] + stake
    BY <1>1, CreateFacts DEF NewOffer
  <2> HIDE DEF o
  <2>2. Stakes(routes') = Append(Stakes(routes), stake)
    BY <2>1, StakesAppend DEF BookTypeOK
  <2> QED
    BY <2>1, <2>2 DEF BookCustody!Deposit
<1>2. ASSUME NEW provider \in Users, NEW id \in DOMAIN routes, DeactivateOffer(provider, id)
      PROVE  UNCHANGED BookCustody!custodyVars
  <2>1. Ended(id) \in RouteOffer /\ routes' = [routes EXCEPT ![id] = Ended(id)]
    BY <1>2, DeactivateRouteFacts
  <2>2. Stakes(routes') = [Stakes(routes) EXCEPT ![id] = Ended(id).stakeAmount]
    BY <2>1, StakesChange DEF BookTypeOK
  <2>3. Ended(id).stakeAmount = routes[id].stakeAmount
    BY OfferFacts DEF Ended, RouteOffer
  <2>4. Stakes(routes') = Stakes(routes)
    BY <2>2, <2>3
  <2> QED
    BY <1>2, <2>4 DEF DeactivateOffer, CanDeactivateOffer, chainVars, BookCustody!custodyVars
<1>3. ASSUME NEW provider \in Users, NEW id \in DOMAIN routes, WithdrawStake(provider, id)
      PROVE  BookCustody!PayOut(id)
  <2>1. /\ Emptied(id) \in RouteOffer /\ routes' = [routes EXCEPT ![id] = Emptied(id)]
        /\ balanceOf'[Book] = balanceOf[Book] - routes[id].stakeAmount
    BY <1>3, WithdrawFacts
  <2>2. Emptied(id).stakeAmount = 0
    BY OfferFacts DEF Emptied, RouteOffer
  <2>3. Stakes(routes') = [Stakes(routes) EXCEPT ![id] = 0]
    BY <2>1, <2>2, StakesChange DEF BookTypeOK
  <2>4. routes[id].stakeAmount > 0
    BY <1>3, OfferFacts DEF WithdrawStake, CanWithdrawStake
  <2> QED
    BY <2>1, <2>3, <2>4 DEF BookCustody!PayOut
<1>4. CASE ChainStep /\ UNCHANGED routes
  <2>1. PICK gift \in Nat : balanceOf'[Book] = balanceOf[Book] + gift
    BY <1>4, ChainStepGifts, BookAssumption DEF BookTypeOK
  <2>2. balanceOf[Book] \in Nat
    BY BookAssumption DEF BookTypeOK, ChainTypeOK, Accounts
  <2>3. CASE gift = 0
    BY <1>4, <2>1, <2>2, <2>3 DEF BookCustody!custodyVars
  <2>4. CASE gift > 0
    BY <1>4, <2>1, <2>2, <2>4 DEF BookCustody!Next, BookCustody!Gift
  <2> QED
    BY <2>3, <2>4
<1>5. CASE UNCHANGED routeBookVars
  BY <1>5 DEF routeBookVars, chainVars, BookCustody!custodyVars
<1> QED
  BY <1>1, <1>2, <1>3, <1>4, <1>5 DEF BookNext, BookStep, BookCustody!Next

\* Seen from outside, the book only takes in recorded stakes and gifts and only
\* pays out whole stakes, once: createOffer, deactivateOffer and withdrawStake,
\* with whatever happens to the token and the agents in between, implement Custody.
THEOREM BookCustodyKept == BookSpec => BookKeepsCustody
<1>1. BookInit => BookCustody!Init
  <2>1. ASSUME BookInit PROVE routes = <<>> /\ balanceOf[Book] = 0
    BY <2>1, ChainAssumption, BookAssumption DEF BookInit, ChainInit, Accounts
  <2> QED
    BY <2>1 DEF BookCustody!Init
<1>2. BookTypeOK /\ [BookNext]_routeBookVars => [BookCustody!Next]_(BookCustody!custodyVars)
  BY BookCustodyStep
<1> QED
  BY <1>1, <1>2, BookTypeCorrect, PTL DEF BookSpec, BookKeepsCustody, BookCustody!Spec
-----------------------------------------------------------------------------
(* Both contracts on one chain.  What either keeps on its own it keeps next *)
(* to the other and under the app's clients: a step of one contract moves  *)
(* USDC between users and itself only, and an allowance moves none.        *)

ChainInv == BoardTypeOK /\ BookTypeOK /\ Solvency /\ StakesBacked

\* What can happen on the chain; a client can set any allowance.
ChainMoves ==
  \/ BoardStep /\ UNCHANGED routes
  \/ BookStep /\ UNCHANGED boardVars
  \/ ChainStep /\ UNCHANGED <<boardVars, routes>>
  \/ /\ \E u \in Users, c \in Contracts, amount \in 0..MaxUint : Approve(u, c, amount)
     /\ UNCHANGED <<boardVars, routes>>
  \/ UNCHANGED vars

LEMMA BookLeavesBoard ==
  ASSUME BookTypeOK, NEW provider \in Users,
         \/ \E agent \in Agents, stake \in Amounts : CreateOffer(provider, agent, stake)
         \/ \E id \in DOMAIN routes :
              DeactivateOffer(provider, id) \/ WithdrawStake(provider, id)
  PROVE  balanceOf'[Board] = balanceOf[Board] /\ UNCHANGED <<now, donated>>
<1>1. /\ provider \in Accounts /\ Book \in Accounts /\ Board \in Accounts
      /\ provider # Board /\ Book # Board /\ balanceOf \in [Accounts -> Nat]
  BY TwoContracts, ChainAssumption, BoardAssumption, BookAssumption
     DEF Accounts, BookTypeOK, ChainTypeOK
<1>2. ASSUME NEW agent \in Agents, NEW stake \in Amounts, CreateOffer(provider, agent, stake)
      PROVE  balanceOf'[Board] = balanceOf[Board] /\ UNCHANGED <<now, donated>>
  <2>1. stake \in Nat /\ CanTransfer(provider, stake)
    BY <1>2, ChainAssumption DEF CreateOffer, CanCreateOffer, CanTransferFrom
  <2>2. Moved(provider, Book, stake)[Board] = balanceOf[Board]
    BY <1>1, <2>1, MovedFacts
  <2> QED
    BY <1>2, <2>2 DEF CreateOffer
<1>3. ASSUME NEW id \in DOMAIN routes, DeactivateOffer(provider, id)
      PROVE  balanceOf'[Board] = balanceOf[Board] /\ UNCHANGED <<now, donated>>
  BY <1>3 DEF DeactivateOffer, chainVars
<1>4. ASSUME NEW id \in DOMAIN routes, WithdrawStake(provider, id)
      PROVE  balanceOf'[Board] = balanceOf[Board] /\ UNCHANGED <<now, donated>>
  <2> DEFINE stake == routes[id].stakeAmount
  <2>1. stake \in Nat
    BY OfferFacts
  <2>2. CanTransfer(Book, stake)
    BY <1>4 DEF WithdrawStake, CanWithdrawStake
  <2>3. balanceOf' = Moved(Book, provider, stake) /\ UNCHANGED <<now, donated>>
    BY <1>4 DEF WithdrawStake
  <2> HIDE DEF stake
  <2>4. Moved(Book, provider, stake)[Board] = balanceOf[Board]
    BY <1>1, <2>1, <2>2, MovedFacts
  <2> QED
    BY <2>3, <2>4
<1> QED
  BY <1>2, <1>3, <1>4

\* A deposit into the board or a payout from it.
LEMMA DealLeavesBook ==
  ASSUME BoardTypeOK, NEW user \in Users, NEW amount \in Nat, CanTransfer(user, amount)
  PROVE  Moved(user, Board, amount)[Book] = balanceOf[Book]
<1>1. /\ user \in Accounts /\ Book \in Accounts /\ Board \in Accounts
      /\ user # Book /\ Book # Board /\ balanceOf \in [Accounts -> Nat]
  BY TwoContracts, ChainAssumption, BoardAssumption, BookAssumption
     DEF Accounts, BoardTypeOK, ChainTypeOK
<1> QED
  BY <1>1, MovedFacts

LEMMA SettleLeavesBook ==
  ASSUME BoardTypeOK, NEW id \in DOMAIN escrows, NEW st, NEW recipient \in Users,
         CanPay(id), Settle(id, st, recipient)
  PROVE  balanceOf'[Book] = balanceOf[Book] /\ UNCHANGED <<now, donated>>
<1> DEFINE amount == escrows[id].usdcAmount
<1>1. /\ recipient \in Accounts /\ Book \in Accounts /\ Board \in Accounts
      /\ recipient # Book /\ Book # Board /\ balanceOf \in [Accounts -> Nat]
  BY TwoContracts, ChainAssumption, BoardAssumption, BookAssumption
     DEF Accounts, BoardTypeOK, ChainTypeOK
<1>2. amount \in Nat
  BY EscrowFacts
<1>3. CanTransfer(Board, amount)
  BY DEF CanPay
<1>4. balanceOf' = Moved(Board, recipient, amount) /\ UNCHANGED <<now, donated>>
  BY DEF Settle
<1> HIDE DEF amount
<1>5. Moved(Board, recipient, amount)[Book] = balanceOf[Book]
  BY <1>1, <1>2, <1>3, MovedFacts
<1> QED
  BY <1>4, <1>5

LEMMA BoardLeavesBook ==
  ASSUME BoardTypeOK, BoardStep
  PROVE  balanceOf'[Book] = balanceOf[Book] /\ UNCHANGED <<now, donated>>
<1>1. ASSUME NEW dealer \in Users, NEW agent \in Agents, NEW rate \in Rates,
             NEW min \in Amounts, NEW max \in Amounts,
             CreateDealOffer(dealer, agent, rate, min, max)
      PROVE  balanceOf'[Book] = balanceOf[Book] /\ UNCHANGED <<now, donated>>
  BY <1>1 DEF CreateDealOffer, chainVars
<1>2. ASSUME NEW dealer \in Users, NEW offerId \in DOMAIN offers,
             DeactivateDealOffer(dealer, offerId)
      PROVE  balanceOf'[Book] = balanceOf[Book] /\ UNCHANGED <<now, donated>>
  BY <1>2 DEF DeactivateDealOffer, chainVars
<1>3. ASSUME NEW dealer \in Users, NEW id \in DOMAIN escrows, ConfirmReceipt(dealer, id)
      PROVE  balanceOf'[Book] = balanceOf[Book] /\ UNCHANGED <<now, donated>>
  BY <1>3, EscrowFacts, SettleLeavesBook DEF ConfirmReceipt, CanConfirmReceipt
<1>4. ASSUME NEW dealer \in Users, NEW id \in DOMAIN escrows, RejectDeal(dealer, id)
      PROVE  balanceOf'[Book] = balanceOf[Book] /\ UNCHANGED <<now, donated>>
  BY <1>4, EscrowFacts, SettleLeavesBook DEF RejectDeal, CanRejectDeal
<1>5. ASSUME NEW buyer \in Users, NEW offerId \in DOMAIN offers, NEW amount \in Amounts,
             AcceptDeal(buyer, offerId, amount)
      PROVE  balanceOf'[Book] = balanceOf[Book] /\ UNCHANGED <<now, donated>>
  <2>1. /\ amount \in Nat /\ offers[offerId].dealer \in Users
        /\ balanceOf' = Moved(offers[offerId].dealer, Board, amount)
        /\ UNCHANGED <<now, donated>>
    BY <1>5, AcceptFacts DEF DealOffer
  <2>2. CanTransfer(offers[offerId].dealer, amount)
    BY <1>5 DEF AcceptDeal, CanAcceptDeal, CanTransferFrom
  <2> QED
    BY <2>1, <2>2, DealLeavesBook
<1>6. ASSUME NEW buyer \in Users, NEW id \in DOMAIN escrows, MarkFiatSent(buyer, id)
      PROVE  balanceOf'[Book] = balanceOf[Book] /\ UNCHANGED <<now, donated>>
  BY <1>6 DEF MarkFiatSent, chainVars
<1>7. ASSUME NEW id \in DOMAIN escrows, ClaimExpired(id)
      PROVE  balanceOf'[Book] = balanceOf[Book] /\ UNCHANGED <<now, donated>>
  BY <1>7, EscrowFacts, SettleLeavesBook DEF ClaimExpired, CanClaimExpired
<1> QED
  BY <1>1, <1>2, <1>3, <1>4, <1>5, <1>6, <1>7 DEF BoardStep

LEMMA ChainInvStep ==
  ASSUME ChainInv, ChainMoves
  PROVE  ChainInv'
<1>1. BoardTypeOK /\ BookTypeOK /\ Solvency /\ StakesBacked
  BY DEF ChainInv
<1>2. CASE BoardStep /\ UNCHANGED routes
  <2>1. BoardNext
    BY <1>2 DEF BoardNext
  <2>2. BoardTypeOK' /\ Solvency'
    BY <1>1, <2>1, BoardTypeStep, SolvencyStep
  <2>3. balanceOf'[Book] = balanceOf[Book] /\ UNCHANGED donated
    BY <1>1, <1>2, BoardLeavesBook
  <2>4. StakesBacked'
    BY <1>1, <1>2, <2>3 DEF StakesBacked, Staked
  <2>5. BookTypeOK'
    BY <1>1, <1>2, <2>2 DEF BookTypeOK, BoardTypeOK
  <2> QED
    BY <2>2, <2>4, <2>5 DEF ChainInv
<1>3. CASE BookStep /\ UNCHANGED boardVars
  <2>1. BookNext
    BY <1>3 DEF BookNext
  <2>2. BookTypeOK' /\ StakesBacked'
    BY <1>1, <2>1, BookTypeStep, BackedStep
  <2>3. balanceOf'[Board] = balanceOf[Board] /\ UNCHANGED donated
    BY <1>1, <1>3, BookLeavesBoard DEF BookStep
  <2>4. UNCHANGED <<offers, escrows, feedback>>
    BY <1>3 DEF boardVars
  <2>5. Solvency'
    BY <1>1, <2>3, <2>4 DEF Solvency, Locked, HeldIn
  <2>6. BoardTypeOK'
    BY <1>1, <2>2, <2>4 DEF BookTypeOK, BoardTypeOK
  <2> QED
    BY <2>2, <2>5, <2>6 DEF ChainInv
<1>4. CASE ChainStep /\ UNCHANGED <<boardVars, routes>>
  <2>1. BoardNext /\ BookNext
    BY <1>4 DEF BoardNext, BookNext
  <2> QED
    BY <1>1, <2>1, BoardTypeStep, SolvencyStep, BookTypeStep, BackedStep DEF ChainInv
<1>5. ASSUME NEW u \in Users, NEW c \in Contracts, NEW amount \in 0..MaxUint,
             Approve(u, c, amount), UNCHANGED <<boardVars, routes>>
      PROVE  ChainInv'
  <2>1. UNCHANGED <<now, balanceOf, ownerOf, donated, offers, escrows, feedback, routes>>
    BY <1>5 DEF Approve, boardVars
  <2>2. allowance' \in [Users -> [Contracts -> 0..MaxUint]]
    BY <1>1, <1>5 DEF Approve, BookTypeOK, ChainTypeOK
  <2>3. ChainTypeOK'
    BY <1>1, <2>1, <2>2 DEF BookTypeOK, ChainTypeOK
  <2>4. BoardTypeOK' /\ BookTypeOK'
    BY <1>1, <2>1, <2>3 DEF BookTypeOK, BoardTypeOK
  <2>5. Solvency' /\ StakesBacked'
    BY <1>1, <2>1 DEF Solvency, Locked, HeldIn, StakesBacked, Staked
  <2> QED
    BY <2>4, <2>5 DEF ChainInv
<1>6. CASE UNCHANGED vars
  <2>1. UNCHANGED dealBoardVars /\ UNCHANGED routeBookVars
    BY <1>6 DEF vars, dealBoardVars, routeBookVars
  <2> QED
    BY <1>1, <2>1, BoardTypeStep, SolvencyStep, BookTypeStep, BackedStep DEF ChainInv
<1> QED
  BY <1>2, <1>3, <1>4, <1>5, <1>6 DEF ChainMoves

LEMMA ChainInvInit ==
  ASSUME Init
  PROVE  ChainInv
<1>1. BoardInit /\ BookInit
  BY DEF Init
<1>2. BoardTypeOK /\ BookTypeOK
  BY <1>1, ChainAssumption DEF BoardInit, BookInit, ChainInit, BoardTypeOK, BookTypeOK,
                               ChainTypeOK
<1>3. balanceOf[Board] = 0 /\ donated[Board] = 0 /\ balanceOf[Book] = 0 /\ donated[Book] = 0
  BY <1>1, ChainAssumption, BoardAssumption, BookAssumption DEF BoardInit, ChainInit, Accounts
<1>4. Locked = 0
  BY <1>1, SumEmpty DEF BoardInit, Locked, HeldIn
<1>5. Staked = 0
  BY <1>1, SumEmpty DEF BookInit, Staked
<1> QED
  BY <1>2, <1>3, <1>4, <1>5 DEF ChainInv, Solvency, StakesBacked

\* The two contracts share the token, the users and the agents; neither can touch
\* what the other holds, so each is as solvent as it is alone.
THEOREM BothSolvent == Spec => [](Solvency /\ StakesBacked)
<1>1. ChainInv /\ [Next]_vars => ChainInv'
  BY ChainInvStep DEF Next, ChainMoves
<1>2. ChainInv => Solvency /\ StakesBacked
  BY DEF ChainInv
<1> QED
  BY ChainInvInit, <1>1, <1>2, PTL DEF Spec
-----------------------------------------------------------------------------
(* What a step on the chain leaves as it is: entries are never removed, who *)
(* made them and their terms stay, and they only move forward.             *)

OfferKept(o, q) ==
  /\ q.dealer = o.dealer /\ q.agentId = o.agentId /\ q.maxAmount = o.maxAmount
  /\ ~ o.active => ~ q.active

EscrowKept(e, q) ==
  /\ q.buyer = e.buyer /\ q.dealer = e.dealer /\ q.offerId = e.offerId
  /\ q.usdcAmount = e.usdcAmount /\ q.expiresAt = e.expiresAt
  /\ q.status = e.status \/ <<e.status, q.status>> \in Edges

RouteKept(o, q) ==
  /\ q.provider = o.provider /\ q.agentId = o.agentId
  /\ ~ o.active => ~ q.active /\ q.deactivatedAt = o.deactivatedAt
  /\ o.stakeAmount = 0 => q.stakeAmount = 0

Kept ==
  /\ now' >= now
  /\ \A id \in DOMAIN offers : id \in DOMAIN offers' /\ OfferKept(offers[id], offers'[id])
  /\ \A id \in DOMAIN escrows : id \in DOMAIN escrows' /\ EscrowKept(escrows[id], escrows'[id])
  /\ \A id \in DOMAIN routes : id \in DOMAIN routes' /\ RouteKept(routes[id], routes'[id])

LEMMA DealsKept ==
  ASSUME BoardTypeOK, BoardNext
  PROVE  /\ \A id \in DOMAIN offers :
              id \in DOMAIN offers' /\ OfferKept(offers[id], offers'[id])
         /\ \A id \in DOMAIN escrows :
              id \in DOMAIN escrows' /\ EscrowKept(escrows[id], escrows'[id])
<1>1. Lifecycle
  BY LifecycleStep
<1>2. BoardTypeOK'
  BY BoardTypeStep
<1>3. ASSUME NEW id \in DOMAIN offers
      PROVE  id \in DOMAIN offers' /\ OfferKept(offers[id], offers'[id])
  <2>1. /\ DOMAIN offers = 1..Len(offers) /\ DOMAIN offers' = 1..Len(offers')
        /\ Len(offers) \in Nat /\ Len(offers') \in Nat /\ Len(offers') >= Len(offers)
    BY <1>1, <1>2, LenProperties DEF BoardTypeOK, Lifecycle
  <2>2. id \in DOMAIN offers'
    BY <2>1
  <2>3. offers[id] \in DealOffer
    BY <2>1, ElementOfSeq DEF BoardTypeOK
  <2>4. offers'[id] \in {offers[id], [offers[id] EXCEPT !.active = FALSE]}
    BY <1>1 DEF Lifecycle
  <2>5. OfferKept(offers[id], offers'[id])
    BY <2>3, <2>4 DEF OfferKept, DealOffer
  <2> QED
    BY <2>2, <2>5
<1>4. ASSUME NEW id \in DOMAIN escrows
      PROVE  id \in DOMAIN escrows' /\ EscrowKept(escrows[id], escrows'[id])
  <2>1. /\ DOMAIN escrows = 1..Len(escrows) /\ DOMAIN escrows' = 1..Len(escrows')
        /\ Len(escrows) \in Nat /\ Len(escrows') \in Nat /\ Len(escrows') >= Len(escrows)
    BY <1>1, <1>2, LenProperties DEF BoardTypeOK, Lifecycle
  <2>2. id \in DOMAIN escrows'
    BY <2>1
  <2>3. escrows[id] \in Escrow /\ escrows'[id] \in Escrow
    BY <1>2, <2>1, <2>2, ElementOfSeq DEF BoardTypeOK
  <2>4. /\ Terms(escrows'[id]) = Terms(escrows[id])
        /\ \/ escrows'[id].status = escrows[id].status
           \/ <<escrows[id].status, escrows'[id].status>> \in Edges
    BY <1>1 DEF Lifecycle
  <2>5. \A e \in Escrow :
          /\ Terms(e).buyer = e.buyer /\ Terms(e).dealer = e.dealer
          /\ Terms(e).offerId = e.offerId /\ Terms(e).usdcAmount = e.usdcAmount
          /\ Terms(e).expiresAt = e.expiresAt
    BY DEF Terms, Escrow
  <2>6. EscrowKept(escrows[id], escrows'[id])
    BY <2>3, <2>4, <2>5 DEF EscrowKept
  <2> QED
    BY <2>2, <2>6
<1> QED
  BY <1>3, <1>4

LEMMA RoutesKept ==
  ASSUME BookTypeOK, BookStep, NEW i \in DOMAIN routes
  PROVE  i \in DOMAIN routes' /\ RouteKept(routes[i], routes'[i])
<1>1. DOMAIN routes = 1..Len(routes) /\ Len(routes) \in Nat /\ routes[i] \in RouteOffer
  BY OfferFacts
<1>2. RouteKept(routes[i], routes[i])
  BY DEF RouteKept
<1>3. ASSUME NEW provider \in Users, NEW agent \in Agents, NEW stake \in Amounts,
             CreateOffer(provider, agent, stake)
      PROVE  i \in DOMAIN routes' /\ RouteKept(routes[i], routes'[i])
  <2> DEFINE o == NewOffer(provider, agent, stake)
  <2>1. o \in RouteOffer /\ routes' = Append(routes, o)
    BY <1>3, CreateFacts
  <2> HIDE DEF o
  <2>2. i \in DOMAIN routes' /\ routes'[i] = routes[i]
    BY <1>1, <2>1, AppendFacts DEF BookTypeOK
  <2> QED
    BY <1>2, <2>2
<1>4. ASSUME NEW provider \in Users, NEW id \in DOMAIN routes, DeactivateOffer(provider, id)
      PROVE  i \in DOMAIN routes' /\ RouteKept(routes[i], routes'[i])
  <2>1. /\ DOMAIN routes' = DOMAIN routes
        /\ routes'[id] = Ended(id)
        /\ i # id => routes'[i] = routes[i]
    BY <1>4, DeactivateRouteFacts, ChangeFacts DEF BookTypeOK
  <2>2. RouteKept(routes[id], Ended(id))
    BY <1>4, OfferFacts DEF DeactivateOffer, CanDeactivateOffer, RouteKept, Ended, RouteOffer
  <2> QED
    BY <1>2, <2>1, <2>2
<1>5. ASSUME NEW provider \in Users, NEW id \in DOMAIN routes, WithdrawStake(provider, id)
      PROVE  i \in DOMAIN routes' /\ RouteKept(routes[i], routes'[i])
  <2>1. /\ DOMAIN routes' = DOMAIN routes
        /\ routes'[id] = Emptied(id)
        /\ i # id => routes'[i] = routes[i]
    BY <1>5, WithdrawFacts, ChangeFacts DEF BookTypeOK
  <2>2. RouteKept(routes[id], Emptied(id))
    BY OfferFacts DEF RouteKept, Emptied, RouteOffer
  <2> QED
    BY <1>2, <2>1, <2>2
<1> QED
  BY <1>3, <1>4, <1>5 DEF BookStep

LEMMA KeptStep ==
  ASSUME ChainInv, ChainMoves
  PROVE  Kept
<1>1. BoardTypeOK /\ BookTypeOK /\ now \in Int
  BY ChainAssumption DEF ChainInv, BookTypeOK, ChainTypeOK
<1>2. /\ \A o : OfferKept(o, o)
      /\ \A e : EscrowKept(e, e)
      /\ \A o : RouteKept(o, o)
  BY DEF OfferKept, EscrowKept, RouteKept
<1>3. CASE BoardStep /\ UNCHANGED routes
  <2>1. UNCHANGED now
    BY <1>1, <1>3, BoardLeavesBook
  <2>2. BoardNext
    BY <1>3 DEF BoardNext
  <2> QED
    BY <1>1, <1>2, <1>3, <2>1, <2>2, DealsKept DEF Kept
<1>4. CASE BookStep /\ UNCHANGED boardVars
  <2>1. UNCHANGED now
    BY <1>1, <1>4, BookLeavesBoard DEF BookStep
  <2>2. \A id \in DOMAIN routes : id \in DOMAIN routes' /\ RouteKept(routes[id], routes'[id])
    BY <1>1, <1>4, RoutesKept
  <2> QED
    BY <1>1, <1>2, <1>4, <2>1, <2>2 DEF Kept, boardVars
<1>5. CASE ChainStep /\ UNCHANGED <<boardVars, routes>>
  <2>1. now' >= now
    BY <1>1, <1>5 DEF ChainStep, Tick, Approve, Transfer, TransferAgent
  <2> QED
    BY <1>2, <1>5, <2>1 DEF Kept, boardVars
<1>6. ASSUME NEW u \in Users, NEW c \in Contracts, NEW amount \in 0..MaxUint,
             Approve(u, c, amount), UNCHANGED <<boardVars, routes>>
      PROVE  Kept
  BY <1>1, <1>2, <1>6 DEF Approve, Kept, boardVars
<1>7. CASE UNCHANGED vars
  BY <1>1, <1>2, <1>7 DEF vars, chainVars, boardVars, Kept
<1> QED
  BY <1>3, <1>4, <1>5, <1>6, <1>7 DEF ChainMoves
-----------------------------------------------------------------------------
(* The app's clients: the inductive invariant.  A wallet's call agrees with *)
(* its transaction, and what the call has seen of the chain, or has left   *)
(* there, stays true whatever others do.                                   *)

Request(r) == r \in BoardRequests \cup BookRequests /\ InputIsValid(r)

\* A call's own transaction, or the approval that comes before it.
Serves(tx, r) == tx = r \/ (r.op = "create_offer" /\ tx = Approval(r.stake))

Transaction(tx) == Request(tx) \/ \E stake \in Amounts : tx = Approval(stake)

\* What a gas estimate has shown of the chain, for good.
Seen(w, r) ==
  /\ r.op = "deactivate_deal_offer" => r.id \in DOMAIN offers /\ offers[r.id].dealer = w
  /\ r.op \in {"deactivate_offer", "withdraw_stake"} =>
       r.id \in DOMAIN routes /\ routes[r.id].provider = w
  /\ r.op = "withdraw_stake" =>
       ~ routes[r.id].active /\ now >= routes[r.id].deactivatedAt + WithdrawalDelay
  /\ r.op \in {"mark_sent", "confirm_receipt", "reject_deal", "claim_expired"} =>
       r.id \in DOMAIN escrows
  /\ r.op = "mark_sent" => escrows[r.id].buyer = w
  /\ r.op \in {"confirm_receipt", "reject_deal"} => escrows[r.id].dealer = w
  /\ r.op = "confirm_receipt" => StatusIn(r.id, Settled \cup {"Sent"})
  /\ r.op = "claim_expired" => now >= escrows[r.id].expiresAt

\* What a call leaves on the chain once its transaction is mined, whether it
\* executed or reverted because somebody else had been there before.
Mark(r) ==
  /\ r.op = "deactivate_deal_offer" => r.id \in DOMAIN offers /\ ~ offers[r.id].active
  /\ r.op = "deactivate_offer" => Deactivated(r.id)
  /\ r.op = "withdraw_stake" => r.id \in DOMAIN routes /\ routes[r.id].stakeAmount = 0
  /\ r.op = "mark_sent" =>
       \/ StatusIn(r.id, Settled \cup {"Sent"})
       \/ StatusIn(r.id, {"Funded"}) /\ now >= escrows[r.id].expiresAt
  /\ r.op = "reject_deal" => StatusIn(r.id, Settled \cup {"Sent"})
  /\ r.op \in {"confirm_receipt", "claim_expired"} => StatusIn(r.id, Settled)

\* The entry with this id is the one the request asked for.
Created(w, r, id) ==
  \/ /\ r.op = "create_deal_offer" /\ id \in DOMAIN offers
     /\ offers[id].dealer = w /\ offers[id].agentId = r.agent
     /\ offers[id].maxAmount = ParseUsdcAmount(r.max)
  \/ /\ r.op = "accept_deal" /\ id \in DOMAIN escrows
     /\ escrows[id].buyer = w /\ escrows[id].offerId = r.id
     /\ escrows[id].usdcAmount = ParseUsdcAmount(r.amount)
  \/ /\ r.op = "create_offer" /\ id \in DOMAIN routes
     /\ routes[id].provider = w /\ routes[id].agentId = r.agent

ListingCall ==
  [at : {"listing", "listed"}, list : Lists, total : Nat, next : Nat \ {0},
   found : SUBSET Nat, matching : SUBSET Nat]

\* A listing has found what matches among the entries it has read, and nothing
\* matches that did not when it began.
Listing(w, c) ==
  /\ c \in ListingCall
  /\ 1..c.total \subseteq DOMAIN Entries(c.list)
  /\ c.found \subseteq c.matching
  /\ \A id \in Matching(w, c.list) \cap 1..c.total :
       id \in c.matching /\ (id < c.next => id \in c.found)
  /\ c.at = "listed" => ListIsOver(c)

\* The call is past its own transaction.
Executed(c) == c.at = "ok" \/ (c.at = "mined" /\ c.tx # "approve_stake")

Consistent(w, c, pool) ==
  /\ pool # <<>> => Transaction(pool[1])
  /\ c.at \in {"idle", "approve", "send", "receipt", "mined", "ok", "listing", "listed"}
  /\ c.at \in {"approve", "send"} => Request(c.r) /\ c.r.op = "create_offer"
  /\ c.at = "receipt" =>
       /\ Request(c.r) /\ pool # <<>> /\ Serves(pool[1], c.r)
       /\ pool[1] = c.r => Seen(w, c.r)
  /\ c.at = "mined" /\ c.tx = "approve_stake" => Request(c.r) /\ c.r.op = "create_offer"
  /\ Executed(c) => Mark(c.r) /\ (c.id = None \/ Created(w, c.r, c.id))
  /\ c.at \in {"listing", "listed"} => Listing(w, c)

\* The call and the transactions are named, so that each part speaks of the
\* chain only.
ClientsConsistent ==
  /\ DOMAIN call = Wallets /\ DOMAIN mempool = Wallets
  /\ \A w \in Wallets : \A c, pool :
       c = call[w] /\ pool = mempool[w] => Consistent(w, c, pool)

LEMMA SeenKept ==
  ASSUME ChainInv, ChainInv', Kept, NEW w, NEW r, Seen(w, r)
  PROVE  Seen(w, r)'
<1>1. now \in Int /\ now' \in Int /\ now' >= now
  BY ChainAssumption DEF ChainInv, BookTypeOK, ChainTypeOK, Kept
<1>2. ASSUME r.id \in DOMAIN offers
      PROVE  r.id \in DOMAIN offers' /\ offers'[r.id].dealer = offers[r.id].dealer
  BY <1>2 DEF Kept, OfferKept
<1>3. ASSUME r.id \in DOMAIN routes
      PROVE  /\ r.id \in DOMAIN routes' /\ routes'[r.id].provider = routes[r.id].provider
             /\ routes[r.id].deactivatedAt \in Nat
             /\ ~ routes[r.id].active =>
                  /\ ~ routes'[r.id].active
                  /\ routes'[r.id].deactivatedAt = routes[r.id].deactivatedAt
  BY <1>3, OfferFacts DEF ChainInv, Kept, RouteKept, RouteOffer
<1>4. ASSUME r.id \in DOMAIN escrows
      PROVE  /\ r.id \in DOMAIN escrows' /\ EscrowKept(escrows[r.id], escrows'[r.id])
             /\ escrows[r.id].expiresAt \in Nat
  BY <1>4, EscrowFacts DEF ChainInv, Kept, Escrow
<1>5. StatusIn(r.id, Settled \cup {"Sent"}) => StatusIn(r.id, Settled \cup {"Sent"})'
  BY <1>4 DEF StatusIn, EscrowKept, Edges, Settled
<1>6. WithdrawalDelay \in Nat
  BY BookAssumption
<1>7. r.op = "deactivate_deal_offer" =>
        r.id \in DOMAIN offers' /\ offers'[r.id].dealer = w
  BY <1>2 DEF Seen
<1>8. r.op \in {"deactivate_offer", "withdraw_stake"} =>
        r.id \in DOMAIN routes' /\ routes'[r.id].provider = w
  BY <1>3 DEF Seen
<1>9. r.op = "withdraw_stake" =>
        ~ routes'[r.id].active /\ now' >= routes'[r.id].deactivatedAt + WithdrawalDelay
  BY <1>1, <1>3, <1>6 DEF Seen
<1>10. r.op \in {"mark_sent", "confirm_receipt", "reject_deal", "claim_expired"} =>
         r.id \in DOMAIN escrows' /\ EscrowKept(escrows[r.id], escrows'[r.id])
  BY <1>4 DEF Seen
<1>11. /\ r.op = "mark_sent" => escrows'[r.id].buyer = w
       /\ r.op \in {"confirm_receipt", "reject_deal"} => escrows'[r.id].dealer = w
       /\ r.op = "confirm_receipt" => StatusIn(r.id, Settled \cup {"Sent"})'
  BY <1>5, <1>10 DEF Seen, EscrowKept
<1>12. r.op = "claim_expired" => now' >= escrows'[r.id].expiresAt
  <2>1. ASSUME r.op = "claim_expired" PROVE now' >= escrows'[r.id].expiresAt
    <3>1. r.id \in DOMAIN escrows /\ now >= escrows[r.id].expiresAt
      BY <2>1 DEF Seen
    <3>2. escrows'[r.id].expiresAt = escrows[r.id].expiresAt /\ escrows[r.id].expiresAt \in Nat
      BY <1>4, <3>1 DEF EscrowKept
    <3> QED
      BY <1>1, <3>1, <3>2
  <2> QED
    BY <2>1
<1> QED
  BY <1>7, <1>8, <1>9, <1>10, <1>11, <1>12 DEF Seen

LEMMA MarkKept ==
  ASSUME ChainInv, ChainInv', Kept, NEW r, Mark(r)
  PROVE  Mark(r)'
<1>1. now \in Int /\ now' \in Int /\ now' >= now
  BY ChainAssumption DEF ChainInv, BookTypeOK, ChainTypeOK, Kept
<1>2. ASSUME r.id \in DOMAIN escrows
      PROVE  /\ r.id \in DOMAIN escrows' /\ EscrowKept(escrows[r.id], escrows'[r.id])
             /\ escrows[r.id].expiresAt \in Nat
  BY <1>2, EscrowFacts DEF ChainInv, Kept, Escrow
<1>3. StatusIn(r.id, Settled \cup {"Sent"}) => StatusIn(r.id, Settled \cup {"Sent"})'
  BY <1>2 DEF StatusIn, EscrowKept, Edges, Settled
<1>4. StatusIn(r.id, Settled) => StatusIn(r.id, Settled)'
  BY <1>2 DEF StatusIn, EscrowKept, Edges, Settled
<1>5. ASSUME StatusIn(r.id, {"Funded"}), now >= escrows[r.id].expiresAt
      PROVE  \/ StatusIn(r.id, Settled \cup {"Sent"})'
             \/ StatusIn(r.id, {"Funded"})' /\ now' >= escrows'[r.id].expiresAt
  <2>1. /\ r.id \in DOMAIN escrows' /\ EscrowKept(escrows[r.id], escrows'[r.id])
        /\ escrows[r.id].expiresAt \in Nat /\ escrows[r.id].status = "Funded"
    BY <1>2, <1>5 DEF StatusIn
  <2>2. now' >= escrows'[r.id].expiresAt
    BY <1>1, <1>5, <2>1 DEF EscrowKept
  <2>3. escrows'[r.id].status \in Settled \cup {"Sent", "Funded"}
    BY <2>1 DEF EscrowKept, Edges, Settled
  <2> QED
    BY <2>1, <2>2, <2>3 DEF StatusIn
<1>6. r.op = "deactivate_deal_offer" => r.id \in DOMAIN offers' /\ ~ offers'[r.id].active
  BY DEF Mark, Kept, OfferKept
<1>7. r.op = "deactivate_offer" => Deactivated(r.id)'
  BY DEF Mark, Deactivated, Kept, RouteKept
<1>8. r.op = "withdraw_stake" => r.id \in DOMAIN routes' /\ routes'[r.id].stakeAmount = 0
  BY DEF Mark, Kept, RouteKept
<1>9. r.op = "mark_sent" =>
        \/ StatusIn(r.id, Settled \cup {"Sent"})'
        \/ StatusIn(r.id, {"Funded"})' /\ now' >= escrows'[r.id].expiresAt
  BY <1>3, <1>5 DEF Mark
<1>10. /\ r.op = "reject_deal" => StatusIn(r.id, Settled \cup {"Sent"})'
       /\ r.op \in {"confirm_receipt", "claim_expired"} => StatusIn(r.id, Settled)'
  BY <1>3, <1>4 DEF Mark
<1> QED
  BY <1>6, <1>7, <1>8, <1>9, <1>10 DEF Mark

LEMMA CreatedKept ==
  ASSUME Kept, NEW w, NEW r, NEW id, Created(w, r, id)
  PROVE  Created(w, r, id)'
<1>1. CASE r.op = "create_deal_offer"
  BY <1>1 DEF Created, Kept, OfferKept
<1>2. CASE r.op = "accept_deal"
  BY <1>2 DEF Created, Kept, EscrowKept
<1>3. CASE r.op = "create_offer"
  BY <1>3 DEF Created, Kept, RouteKept
<1> QED
  BY <1>1, <1>2, <1>3 DEF Created

\* A table only grows, and an entry it has does not come to match.
LEMMA MatchingKept ==
  ASSUME Kept, NEW w, NEW list \in Lists, NEW id, id \in DOMAIN Entries(list)
  PROVE  /\ id \in DOMAIN Entries(list)'
         /\ id \in Matching(w, list)' => id \in Matching(w, list)
<1>1. CASE list = "query_deals"
  BY <1>1 DEF Entries, Matching, QueryDeals, Kept, OfferKept
<1>2. CASE list = "list_my_deal_offers"
  BY <1>2 DEF Entries, Matching, ListMyDealOffers, Kept, OfferKept
<1>3. CASE list = "list_active_offers"
  BY <1>3 DEF Entries, Matching, ListActiveOffers, Kept, RouteKept
<1>4. CASE list = "list_my_offers"
  BY <1>4 DEF Entries, Matching, ListMyOffers, Kept, RouteKept
<1>5. CASE list = "list_my_escrows"
  BY <1>5 DEF Entries, Matching, ListMyEscrows, Kept, EscrowKept
<1> QED
  BY <1>1, <1>2, <1>3, <1>4, <1>5 DEF Lists

LEMMA ListingKept ==
  ASSUME Kept, NEW w, NEW c, Listing(w, c)
  PROVE  Listing(w, c)'
<1>1. c \in ListingCall /\ c.list \in Lists
  BY DEF Listing, ListingCall
<1>2. 1..c.total \subseteq DOMAIN Entries(c.list)
  BY DEF Listing
<1>3. 1..c.total \subseteq DOMAIN Entries(c.list)'
  BY <1>1, <1>2, MatchingKept
<1>4. ASSUME NEW id \in 1..c.total, id \in Matching(w, c.list)'
      PROVE  id \in c.matching /\ (id < c.next => id \in c.found)
  <2>1. id \in Matching(w, c.list)
    BY <1>1, <1>2, <1>4, MatchingKept
  <2> QED
    BY <2>1 DEF Listing
<1>5. c.found \subseteq c.matching /\ (c.at = "listed" => ListIsOver(c))
  BY DEF Listing
<1> QED
  BY <1>1, <1>3, <1>4, <1>5 DEF Listing

\* So what is true of a wallet's call stays true whatever the others do.
LEMMA ConsistentKept ==
  ASSUME ChainInv, ChainInv', Kept, NEW w, NEW c, NEW pool, Consistent(w, c, pool)
  PROVE  Consistent(w, c, pool)'
<1>1. Seen(w, c.r) => Seen(w, c.r)'
  <2> DEFINE r == c.r
  <2> HIDE DEF r
  <2>1. Seen(w, r) => Seen(w, r)'
    BY SeenKept
  <2> QED
    BY <2>1 DEF r
<1>2. Mark(c.r) => Mark(c.r)'
  BY MarkKept
<1>3. Created(w, c.r, c.id) => Created(w, c.r, c.id)'
  BY CreatedKept
<1>4. Listing(w, c) => Listing(w, c)'
  BY ListingKept
<1> QED
  BY <1>1, <1>2, <1>3, <1>4 DEF Consistent

-----------------------------------------------------------------------------
(* Requests and transactions.                                              *)

\* What a request that passed the checks of its input names.
LEMMA RequestFacts ==
  ASSUME NEW r, Request(r)
  PROVE  /\ r.op \in {"create_deal_offer", "accept_deal", "deactivate_deal_offer", "mark_sent",
                      "confirm_receipt", "reject_deal", "claim_expired", "approve_usdc",
                      "create_offer", "deactivate_offer", "withdraw_stake"}
         /\ r.op = "create_deal_offer" =>
              /\ r.agent \in Agents /\ r.rate \in Rates
              /\ ParseUsdcAmount(r.min) \in Amounts /\ ParseUsdcAmount(r.max) \in Amounts
         /\ r.op \in {"accept_deal", "approve_usdc"} => ParseUsdcAmount(r.amount) \in Amounts
         /\ r.op = "create_offer" => r.agent \in Agents /\ r.stake \in Amounts
<1>1. r \in BoardRequests \cup BookRequests /\ InputIsValid(r)
  BY DEF Request
<1>2. ASSUME NEW text \in Texts, ParseUsdcAmount(text) # Unparsed
      PROVE  ParseUsdcAmount(text) \in Amounts
  BY <1>2, TextAssumption
<1>3. CASE r \in [op : {"create_deal_offer"}, agent : Agents, rate : Rates,
                  min : Texts, max : Texts]
  <2>1. /\ r.op = "create_deal_offer" /\ r.agent \in Agents /\ r.rate \in Rates
        /\ r.min \in Texts /\ r.max \in Texts
    BY <1>3
  <2>2. ParseUsdcAmount(r.min) # Unparsed /\ ParseUsdcAmount(r.max) # Unparsed
    BY <1>1, <2>1 DEF InputIsValid
  <2> QED
    BY <1>2, <2>1, <2>2
<1>4. CASE r \in [op : {"accept_deal"}, id : 1..MaxOffers, amount : Texts]
  <2>1. r.op = "accept_deal" /\ r.amount \in Texts
    BY <1>4
  <2>2. ParseUsdcAmount(r.amount) # Unparsed
    BY <1>1, <2>1 DEF InputIsValid
  <2> QED
    BY <1>2, <2>1, <2>2
<1>5. CASE r \in [op : {"approve_usdc"}, amount : Texts]
  <2>1. r.op = "approve_usdc" /\ r.amount \in Texts
    BY <1>5
  <2>2. ParseUsdcAmount(r.amount) # Unparsed
    BY <1>1, <2>1 DEF InputIsValid
  <2> QED
    BY <1>2, <2>1, <2>2
<1>6. CASE r \in [op : {"create_offer"}, agent : Agents, stake : Amounts]
  BY <1>6
<1>7. CASE \/ r \in [op : {"deactivate_deal_offer"}, id : 1..MaxOffers]
           \/ r \in [op : {"mark_sent", "confirm_receipt", "reject_deal", "claim_expired"},
                     id : 1..MaxEscrows]
           \/ r \in [op : {"deactivate_offer", "withdraw_stake"}, id : 1..MaxRoutes]
  BY <1>7
<1> QED
  BY <1>1, <1>3, <1>4, <1>5, <1>6, <1>7 DEF BoardRequests, BookRequests

LEMMA ApprovalFacts ==
  ASSUME NEW stake
  PROVE  Approval(stake).op = "approve_stake" /\ Approval(stake).amount = stake
  BY DEF Approval

\* A wallet's transaction is a step of one contract, or sets an allowance.
LEMMA CallMoves ==
  ASSUME NEW w \in Wallets, NEW tx, Transaction(tx), ContractCall(w, tx)
  PROVE  ChainMoves
<1>1. w \in Users /\ Amounts \subseteq 0..MaxUint /\ Board \in Contracts /\ Book \in Contracts
  BY ClientAssumption, ChainAssumption, BoardAssumption, BookAssumption
<1>2. tx.op = "approve_stake" => tx.amount \in Amounts
  BY RequestFacts, ApprovalFacts DEF Transaction
<1>3. tx.op \notin {"approve_stake"} => Request(tx)
  BY ApprovalFacts DEF Transaction
<1>4. CASE BoardCall(w, tx) /\ UNCHANGED routes
  <2>1. CASE CreateDealOfferCall(w, tx)
    <3>1. tx.op = "create_deal_offer"
      BY <2>1 DEF CreateDealOfferCall
    <3>2. CreateDealOffer(w, tx.agent, tx.rate, ParseUsdcAmount(tx.min), ParseUsdcAmount(tx.max))
      BY <2>1 DEF CreateDealOfferCall
    <3>3. /\ tx.agent \in Agents /\ tx.rate \in Rates
          /\ ParseUsdcAmount(tx.min) \in Amounts /\ ParseUsdcAmount(tx.max) \in Amounts
      BY <1>3, <3>1, RequestFacts
    <3>4. BoardStep
      BY <1>1, <3>2, <3>3 DEF BoardStep
    <3> QED
      BY <1>4, <3>4 DEF ChainMoves
  <2>2. CASE AcceptDealCall(w, tx)
    <3>1. /\ tx.op = "accept_deal" /\ tx.id \in DOMAIN offers
          /\ AcceptDeal(w, tx.id, ParseUsdcAmount(tx.amount))
      BY <2>2 DEF AcceptDealCall
    <3>2. ParseUsdcAmount(tx.amount) \in Amounts
      BY <1>3, <3>1, RequestFacts
    <3>3. BoardStep
      BY <1>1, <3>1, <3>2 DEF BoardStep
    <3> QED
      BY <1>4, <3>3 DEF ChainMoves
  <2>3. CASE \/ DeactivateDealOfferCall(w, tx) \/ MarkSentCall(w, tx) \/ ConfirmReceiptCall(w, tx)
             \/ RejectDealCall(w, tx) \/ ClaimExpiredCall(w, tx)
    <3>1. BoardStep
      BY <1>1, <2>3 DEF DeactivateDealOfferCall, MarkSentCall, ConfirmReceiptCall,
                        RejectDealCall, ClaimExpiredCall, BoardStep
    <3> QED
      BY <1>4, <3>1 DEF ChainMoves
  <2> QED
    BY <1>4, <2>1, <2>2, <2>3 DEF BoardCall
<1>5. CASE BookCall(w, tx) /\ UNCHANGED boardVars
  <2>1. CASE CreateOfferCall(w, tx)
    <3>1. tx.op = "create_offer" /\ CreateOffer(w, tx.agent, tx.stake)
      BY <2>1 DEF CreateOfferCall
    <3>2. tx.agent \in Agents /\ tx.stake \in Amounts
      BY <1>3, <3>1, RequestFacts
    <3>3. BookStep
      BY <1>1, <3>1, <3>2 DEF BookStep
    <3> QED
      BY <1>5, <3>3 DEF ChainMoves
  <2>2. CASE DeactivateOfferCall(w, tx) \/ WithdrawStakeCall(w, tx)
    <3>1. BookStep
      BY <1>1, <2>2 DEF DeactivateOfferCall, WithdrawStakeCall, BookStep
    <3> QED
      BY <1>5, <3>1 DEF ChainMoves
  <2> QED
    BY <1>5, <2>1, <2>2 DEF BookCall
<1>6. CASE (ApproveUsdc(w, tx) \/ ApproveStake(w, tx)) /\ UNCHANGED <<boardVars, routes>>
  <2>1. CASE ApproveUsdc(w, tx)
    <3>1. tx.op = "approve_usdc" /\ Approve(w, Board, ParseUsdcAmount(tx.amount))
      BY <2>1 DEF ApproveUsdc
    <3>2. ParseUsdcAmount(tx.amount) \in 0..MaxUint
      BY <1>1, <1>3, <3>1, RequestFacts
    <3> QED
      BY <1>1, <1>6, <3>1, <3>2 DEF ChainMoves
  <2>2. CASE ApproveStake(w, tx)
    <3>1. tx.op = "approve_stake" /\ Approve(w, Book, tx.amount)
      BY <2>2 DEF ApproveStake
    <3>2. tx.amount \in 0..MaxUint
      BY <1>1, <1>2, <3>1
    <3> QED
      BY <1>1, <1>6, <3>1, <3>2 DEF ChainMoves
  <2> QED
    BY <1>6, <2>1, <2>2
<1> QED
  BY <1>4, <1>5, <1>6 DEF ContractCall

\* The gas estimate that lets a call be sent has looked at the entry it names.
LEMMA EstimateSees ==
  ASSUME NEW w, NEW r, Request(r), Accepted(w, r)
  PROVE  Seen(w, r)
<1>1. CASE r.op \in {"create_deal_offer", "accept_deal", "approve_usdc", "create_offer"}
  BY <1>1 DEF Seen
<1>2. CASE r.op = "deactivate_deal_offer"
  BY <1>2 DEF Accepted, Seen, CanDeactivateDealOffer
<1>3. CASE r.op \in {"mark_sent", "confirm_receipt", "reject_deal", "claim_expired"}
  BY <1>3 DEF Accepted, Seen, CanMarkFiatSent, CanConfirmReceipt, CanRejectDeal,
              CanClaimExpired, StatusIn
<1>4. CASE r.op \in {"deactivate_offer", "withdraw_stake"}
  BY <1>4 DEF Accepted, Seen, CanDeactivateOffer, CanWithdrawStake
<1> QED
  BY <1>1, <1>2, <1>3, <1>4, RequestFacts

\* What is owed can be paid: the amount of an open escrow, and every stake.
LEMMA EscrowCovered ==
  ASSUME BoardTypeOK, Solvency, NEW id \in DOMAIN escrows, escrows[id].status \in Open
  PROVE  CanPay(id)
<1> DEFINE amount == escrows[id].usdcAmount
           locked == Locked
           extra == donated[Board]
<1>1. /\ locked \in Nat /\ amount \in Nat /\ amount <= locked /\ extra \in Nat
      /\ balanceOf[Board] = locked + extra
  BY LockedType, EscrowFacts, BoardAssumption DEF Held, Solvency, BoardTypeOK, ChainTypeOK
<1>2. balanceOf[Board] >= amount
  <2> HIDE DEF amount, locked, extra
  <2> QED
    BY <1>1
<1> QED
  BY <1>2 DEF CanPay, CanTransfer

LEMMA StakeCovered ==
  ASSUME BookTypeOK, StakesBacked, NEW id \in DOMAIN routes
  PROVE  CanTransfer(Book, routes[id].stakeAmount)
<1> DEFINE f == [i \in DOMAIN routes |-> routes[i].stakeAmount]
           n == Len(routes)
           extra == donated[Book]
<1>1. n \in Nat /\ DOMAIN routes = 1..n /\ id \in 1..n
  BY LenProperties DEF BookTypeOK
<1>2. \A i \in 1..n : f[i] \in Nat
  BY <1>1, OfferFacts
<1>3. f[id] <= SumTo(f, n) /\ SumTo(f, n) \in Nat /\ f[id] \in Nat
  <2> HIDE DEF f, n
  <2> QED
    BY <1>1, <1>2, SumBoundsTerm, SumNat
<1>4. balanceOf[Book] = SumTo(f, n) + extra /\ extra \in Nat
  BY StakedType DEF StakesBacked, Staked
<1>5. balanceOf[Book] >= f[id]
  <2> DEFINE total == SumTo(f, n)
             stake == f[id]
  <2>1. stake <= total /\ total \in Nat /\ stake \in Nat /\ balanceOf[Book] = total + extra
    BY <1>3, <1>4
  <2> HIDE DEF total, stake, extra
  <2>2. balanceOf[Book] >= stake
    BY <1>4, <2>1
  <2> QED
    BY <2>2 DEF stake
<1> QED
  BY <1>5 DEF CanTransfer

\* A transaction that reverts although its estimate passed has been overtaken:
\* what it was to do is done, or can no longer be.  The contracts can always pay,
\* so the money is never the reason.
LEMMA RevertLeavesMark ==
  ASSUME ChainInv, NEW w, NEW r, Request(r), Seen(w, r), ~ Accepted(w, r)
  PROVE  Mark(r)
<1>1. BoardTypeOK /\ BookTypeOK /\ Solvency /\ StakesBacked
  BY DEF ChainInv
<1>2. ASSUME r.id \in DOMAIN escrows, escrows[r.id].status \in Open
      PROVE  CanPay(r.id)
  BY <1>1, <1>2, EscrowCovered
<1>3. ASSUME r.id \in DOMAIN escrows
      PROVE  /\ escrows[r.id].status \in Open \cup Settled
             /\ escrows[r.id].expiresAt \in Nat /\ now \in Nat
  <2>1. escrows[r.id] \in Escrow
    BY <1>1, <1>3, EscrowFacts
  <2>2. now \in Nat
    BY <1>1, ChainAssumption DEF BoardTypeOK, ChainTypeOK
  <2> QED
    BY <2>1, <2>2 DEF Escrow
<1>4. CASE r.op \in {"create_deal_offer", "accept_deal", "approve_usdc", "create_offer"}
  BY <1>4 DEF Mark
<1>5. CASE r.op = "deactivate_deal_offer"
  BY <1>5 DEF Accepted, Seen, CanDeactivateDealOffer, Mark
<1>6. CASE r.op = "mark_sent"
  <2>1. r.id \in DOMAIN escrows /\ escrows[r.id].buyer = w
    BY <1>6 DEF Seen
  <2>2. ~ (escrows[r.id].status = "Funded" /\ now < escrows[r.id].expiresAt)
    BY <1>6, <2>1 DEF Accepted, CanMarkFiatSent
  <2>3. escrows[r.id].status = "Funded" => now >= escrows[r.id].expiresAt
    BY <1>3, <2>1, <2>2
  <2>4. \/ StatusIn(r.id, Settled \cup {"Sent"})
        \/ StatusIn(r.id, {"Funded"}) /\ now >= escrows[r.id].expiresAt
    BY <1>3, <2>1, <2>3 DEF StatusIn, Open
  <2> QED
    BY <1>6, <2>4 DEF Mark
<1>7. CASE r.op = "confirm_receipt"
  <2>1. /\ r.id \in DOMAIN escrows /\ escrows[r.id].dealer = w
        /\ escrows[r.id].status \in Settled \cup {"Sent"}
    BY <1>7 DEF Seen, StatusIn
  <2>2. ~ (escrows[r.id].status = "Sent" /\ CanPay(r.id))
    BY <1>7, <2>1 DEF Accepted, CanConfirmReceipt
  <2>3. StatusIn(r.id, Settled)
    BY <1>2, <2>1, <2>2 DEF StatusIn, Open
  <2> QED
    BY <1>7, <2>3 DEF Mark
<1>8. CASE r.op = "reject_deal"
  <2>1. r.id \in DOMAIN escrows /\ escrows[r.id].dealer = w
    BY <1>8 DEF Seen
  <2>2. ~ (escrows[r.id].status = "Funded" /\ CanPay(r.id))
    BY <1>8, <2>1 DEF Accepted, CanRejectDeal
  <2>3. StatusIn(r.id, Settled \cup {"Sent"})
    BY <1>2, <1>3, <2>1, <2>2 DEF StatusIn, Open
  <2> QED
    BY <1>8, <2>3 DEF Mark
<1>9. CASE r.op = "claim_expired"
  <2>1. r.id \in DOMAIN escrows /\ now >= escrows[r.id].expiresAt
    BY <1>9 DEF Seen
  <2>2. ~ (escrows[r.id].status \in Open /\ CanPay(r.id))
    BY <1>9, <2>1 DEF Accepted, CanClaimExpired
  <2>3. StatusIn(r.id, Settled)
    BY <1>2, <1>3, <2>1, <2>2 DEF StatusIn
  <2> QED
    BY <1>9, <2>3 DEF Mark
<1>10. CASE r.op = "deactivate_offer"
  BY <1>10 DEF Accepted, Seen, CanDeactivateOffer, Mark, Deactivated
<1>11. CASE r.op = "withdraw_stake"
  <2>1. /\ r.id \in DOMAIN routes /\ routes[r.id].provider = w /\ ~ routes[r.id].active
        /\ now >= routes[r.id].deactivatedAt + WithdrawalDelay
    BY <1>11 DEF Seen
  <2>2. ~ (routes[r.id].stakeAmount # 0 /\ CanTransfer(Book, routes[r.id].stakeAmount))
    BY <1>11, <2>1 DEF Accepted, CanWithdrawStake
  <2>3. CanTransfer(Book, routes[r.id].stakeAmount)
    BY <1>1, <2>1, StakeCovered
  <2> QED
    BY <1>11, <2>1, <2>2, <2>3 DEF Mark
<1> QED
  BY <1>4, <1>5, <1>6, <1>7, <1>8, <1>9, <1>10, <1>11, RequestFacts

LEMMA StatusAfter ==
  ASSUME BoardTypeOK, NEW id \in DOMAIN escrows, NEW st \in Status,
         escrows' = [escrows EXCEPT ![id].status = st]
  PROVE  id \in DOMAIN escrows' /\ escrows'[id].status = st
<1>1. escrows[id] \in Escrow
  BY EscrowFacts
<1>2. id \in DOMAIN escrows' /\ escrows'[id] = [escrows[id] EXCEPT !.status = st]
  BY StatusFacts DEF BoardTypeOK
<1> QED
  BY <1>1, <1>2 DEF Escrow

\* A transaction that executes does what the request asks for.
LEMMA CallMarks ==
  ASSUME ChainInv, NEW w, NEW r, Request(r), ContractCall(w, r)
  PROVE  Mark(r)'
<1>1. BoardTypeOK /\ BookTypeOK
  BY DEF ChainInv
<1>2. "Sent" \in Status /\ Settled \subseteq Status
  BY DEF Status, Open
<1>3. CASE r.op = "deactivate_deal_offer"
  <2>1. /\ r.id \in DOMAIN offers
        /\ offers' = [offers EXCEPT ![r.id].active = FALSE]
    BY <1>3 DEF ContractCall, BoardCall, BookCall, DeactivateDealOfferCall, DeactivateDealOffer,
                CreateDealOfferCall, AcceptDealCall, MarkSentCall, ConfirmReceiptCall,
                RejectDealCall, ClaimExpiredCall, CreateOfferCall, DeactivateOfferCall,
                WithdrawStakeCall, ApproveUsdc, ApproveStake
  <2>2. offers[r.id] \in DealOffer
    BY <1>1, <2>1, LenProperties, ElementOfSeq DEF BoardTypeOK
  <2>3. r.id \in DOMAIN offers' /\ offers'[r.id] = [offers[r.id] EXCEPT !.active = FALSE]
    BY <1>1, <2>1, DeactivateDealFacts DEF BoardTypeOK
  <2>4. ~ offers'[r.id].active
    BY <2>2, <2>3 DEF DealOffer
  <2> QED
    BY <1>3, <2>3, <2>4 DEF Mark
<1>4. CASE r.op = "mark_sent"
  <2>1. r.id \in DOMAIN escrows /\ escrows' = [escrows EXCEPT ![r.id].status = "Sent"]
    BY <1>4 DEF ContractCall, BoardCall, BookCall, MarkSentCall, MarkFiatSent,
                DeactivateDealOfferCall, CreateDealOfferCall, AcceptDealCall, ConfirmReceiptCall,
                RejectDealCall, ClaimExpiredCall, CreateOfferCall, DeactivateOfferCall,
                WithdrawStakeCall, ApproveUsdc, ApproveStake
  <2>2. r.id \in DOMAIN escrows' /\ escrows'[r.id].status = "Sent"
    BY <1>1, <1>2, <2>1, StatusAfter
  <2> QED
    BY <1>4, <2>2 DEF Mark, StatusIn
<1>5. CASE r.op = "confirm_receipt"
  <2>1. r.id \in DOMAIN escrows /\ escrows' = [escrows EXCEPT ![r.id].status = "Completed"]
    BY <1>5 DEF ContractCall, BoardCall, BookCall, ConfirmReceiptCall, ConfirmReceipt, Settle,
                DeactivateDealOfferCall, CreateDealOfferCall, AcceptDealCall, MarkSentCall,
                RejectDealCall, ClaimExpiredCall, CreateOfferCall, DeactivateOfferCall,
                WithdrawStakeCall, ApproveUsdc, ApproveStake
  <2>2. r.id \in DOMAIN escrows' /\ escrows'[r.id].status = "Completed"
    BY <1>1, <1>2, <2>1, StatusAfter DEF Settled
  <2> QED
    BY <1>5, <2>2 DEF Mark, StatusIn, Settled
<1>6. CASE r.op = "reject_deal"
  <2>1. r.id \in DOMAIN escrows /\ escrows' = [escrows EXCEPT ![r.id].status = "Rejected"]
    BY <1>6 DEF ContractCall, BoardCall, BookCall, RejectDealCall, RejectDeal, Settle,
                DeactivateDealOfferCall, CreateDealOfferCall, AcceptDealCall, MarkSentCall,
                ConfirmReceiptCall, ClaimExpiredCall, CreateOfferCall, DeactivateOfferCall,
                WithdrawStakeCall, ApproveUsdc, ApproveStake
  <2>2. r.id \in DOMAIN escrows' /\ escrows'[r.id].status = "Rejected"
    BY <1>1, <1>2, <2>1, StatusAfter DEF Settled
  <2> QED
    BY <1>6, <2>2 DEF Mark, StatusIn, Settled
<1>7. CASE r.op = "claim_expired"
  <2>1. r.id \in DOMAIN escrows /\ escrows' = [escrows EXCEPT ![r.id].status = "Expired"]
    BY <1>7 DEF ContractCall, BoardCall, BookCall, ClaimExpiredCall, ClaimExpired, Settle,
                DeactivateDealOfferCall, CreateDealOfferCall, AcceptDealCall, MarkSentCall,
                ConfirmReceiptCall, RejectDealCall, CreateOfferCall, DeactivateOfferCall,
                WithdrawStakeCall, ApproveUsdc, ApproveStake
  <2>2. r.id \in DOMAIN escrows' /\ escrows'[r.id].status = "Expired"
    BY <1>1, <1>2, <2>1, StatusAfter DEF Settled
  <2> QED
    BY <1>7, <2>2 DEF Mark, StatusIn, Settled
<1>8. CASE r.op \in {"deactivate_offer", "withdraw_stake"}
  <2>1. /\ r.id \in DOMAIN routes
        /\ r.op = "deactivate_offer" => DeactivateOffer(w, r.id)
        /\ r.op = "withdraw_stake" => WithdrawStake(w, r.id)
    BY <1>8 DEF ContractCall, BoardCall, BookCall, ClaimExpiredCall,
                DeactivateDealOfferCall, CreateDealOfferCall, AcceptDealCall, MarkSentCall,
                ConfirmReceiptCall, RejectDealCall, CreateOfferCall, DeactivateOfferCall,
                WithdrawStakeCall, ApproveUsdc, ApproveStake
  <2> DEFINE id == r.id
  <2>2. id \in DOMAIN routes /\ routes[id] \in RouteOffer /\ now \in Nat
    BY <1>1, <2>1, OfferFacts, ChainAssumption DEF BookTypeOK, ChainTypeOK
  <2>3. Ended(id) \in RouteOffer /\ Ended(id).active = FALSE
    BY <2>2 DEF Ended, RouteOffer
  <2>4. Emptied(id) \in RouteOffer /\ Emptied(id).stakeAmount = 0
    BY <2>2 DEF Emptied, RouteOffer
  <2>5. /\ r.op = "deactivate_offer" => routes' = [routes EXCEPT ![id] = Ended(id)]
        /\ r.op = "withdraw_stake" => routes' = [routes EXCEPT ![id] = Emptied(id)]
    BY <2>1 DEF DeactivateOffer, WithdrawStake, Ended, Emptied
  <2>6. /\ r.op = "deactivate_offer" => id \in DOMAIN routes' /\ ~ routes'[id].active
        /\ r.op = "withdraw_stake" => id \in DOMAIN routes' /\ routes'[id].stakeAmount = 0
    BY <2>2, <2>3, <2>4, <2>5
  <2> QED
    BY <1>8, <2>6 DEF Mark, Deactivated
<1>9. CASE r.op \in {"create_deal_offer", "accept_deal", "approve_usdc", "create_offer"}
  BY <1>9 DEF Mark
<1> QED
  BY <1>3, <1>4, <1>5, <1>6, <1>7, <1>8, <1>9, RequestFacts

\* The id in its logs is of the entry it adds, with the request's terms.
LEMMA CallCreates ==
  ASSUME ChainInv, NEW w \in Wallets, NEW r, Request(r), ContractCall(w, r),
         NEW id, id = CreatedId(r), id # None
  PROVE  Created(w, r, id)'
<1>1. BoardTypeOK /\ BookTypeOK
  BY DEF ChainInv
<1>2. w \in Users
  BY ClientAssumption
<1>3. CASE r.op = "create_deal_offer"
  <2> DEFINE min == ParseUsdcAmount(r.min)
             max == ParseUsdcAmount(r.max)
             offer == [dealer |-> w, agentId |-> r.agent, rate |-> r.rate,
                       minAmount |-> min, maxAmount |-> max, active |-> TRUE]
  <2>1. CreateDealOffer(w, r.agent, r.rate, min, max)
    BY <1>3 DEF ContractCall, BoardCall, BookCall, ClaimExpiredCall,
                DeactivateDealOfferCall, CreateDealOfferCall, AcceptDealCall, MarkSentCall,
                ConfirmReceiptCall, RejectDealCall, CreateOfferCall, DeactivateOfferCall,
                WithdrawStakeCall, ApproveUsdc, ApproveStake
  <2>2. r.agent \in Agents /\ r.rate \in Rates /\ min \in Amounts /\ max \in Amounts
    BY <1>3, RequestFacts
  <2>3. offers' = Append(offers, offer)
    BY <2>1 DEF CreateDealOffer
  <2>4. min # 0 /\ max # 0
    BY <2>1 DEF CreateDealOffer, CanCreateDealOffer
  <2>5. offer \in DealOffer
    <3>1. min \in Nat \ {0} /\ max \in Nat \ {0} /\ r.rate \in Nat \ {0}
      <4>1. r.rate \in Nat \ {0}
        BY <2>2, BoardAssumption
      <4>2. min \in Nat /\ max \in Nat
        <5> HIDE DEF min, max
        <5> QED
          BY <2>2, ChainAssumption
      <4> HIDE DEF min, max
      <4> QED
        BY <2>4, <4>1, <4>2
    <3> HIDE DEF min, max
    <3> QED
      BY <1>2, <2>2, <3>1 DEF DealOffer
  <2>6. offer.dealer = w /\ offer.agentId = r.agent /\ offer.maxAmount = max
    OBVIOUS
  <2>7. Len(offers') = Len(offers) + 1 /\ offers'[Len(offers')] = offer
        /\ Len(offers') \in DOMAIN offers'
    <3> HIDE DEF offer
    <3> QED
      BY <1>1, <2>3, <2>5, AppendFacts, LenProperties DEF BoardTypeOK
  <2>8. id = Len(offers')
    BY <1>3 DEF CreatedId
  <2> QED
    <3> HIDE DEF offer
    <3> QED
      BY <1>3, <2>6, <2>7, <2>8 DEF Created
<1>4. CASE r.op = "accept_deal"
  <2> DEFINE amount == ParseUsdcAmount(r.amount)
             escrow == NewEscrow(w, r.id, amount)
  <2>1. r.id \in DOMAIN offers /\ AcceptDeal(w, r.id, amount)
    BY <1>4 DEF ContractCall, BoardCall, BookCall, ClaimExpiredCall,
                DeactivateDealOfferCall, CreateDealOfferCall, AcceptDealCall, MarkSentCall,
                ConfirmReceiptCall, RejectDealCall, CreateOfferCall, DeactivateOfferCall,
                WithdrawStakeCall, ApproveUsdc, ApproveStake
  <2>2. amount \in Amounts
    BY <1>4, RequestFacts
  <2>3. escrow \in Escrow /\ escrows' = Append(escrows, escrow)
    <3> HIDE DEF amount
    <3> QED
      BY <1>1, <1>2, <2>1, <2>2, AcceptFacts
  <2>4. escrow.buyer = w /\ escrow.offerId = r.id /\ escrow.usdcAmount = amount
    BY DEF NewEscrow
  <2>5. escrows'[Len(escrows')] = escrow /\ Len(escrows') \in DOMAIN escrows'
    <3> HIDE DEF escrow
    <3> QED
      BY <1>1, <2>3, AppendFacts, LenProperties DEF BoardTypeOK
  <2>6. id = Len(escrows')
    BY <1>4 DEF CreatedId
  <2> QED
    <3> HIDE DEF escrow
    <3> QED
      BY <1>4, <2>4, <2>5, <2>6 DEF Created
<1>5. CASE r.op = "create_offer"
  <2> DEFINE o == NewOffer(w, r.agent, r.stake)
  <2>1. CreateOffer(w, r.agent, r.stake)
    BY <1>5 DEF ContractCall, BoardCall, BookCall, ClaimExpiredCall,
                DeactivateDealOfferCall, CreateDealOfferCall, AcceptDealCall, MarkSentCall,
                ConfirmReceiptCall, RejectDealCall, CreateOfferCall, DeactivateOfferCall,
                WithdrawStakeCall, ApproveUsdc, ApproveStake
  <2>2. r.agent \in Agents /\ r.stake \in Amounts
    BY <1>5, RequestFacts
  <2>3. o \in RouteOffer /\ routes' = Append(routes, o)
    BY <1>1, <1>2, <2>1, <2>2, CreateFacts
  <2>4. o.provider = w /\ o.agentId = r.agent
    BY DEF NewOffer
  <2>5. routes'[Len(routes')] = o /\ Len(routes') \in DOMAIN routes'
    <3> HIDE DEF o
    <3> QED
      BY <1>1, <2>3, AppendFacts, LenProperties DEF BookTypeOK
  <2>6. id = Len(routes')
    BY <1>5 DEF CreatedId
  <2> QED
    <3> HIDE DEF o
    <3> QED
      BY <1>5, <2>4, <2>5, <2>6 DEF Created
<1>6. r.op \in {"create_deal_offer", "accept_deal", "create_offer"}
  BY DEF CreatedId
<1> QED
  BY <1>3, <1>4, <1>5, <1>6

-----------------------------------------------------------------------------
\* The steps of the clients.

ClientInv == ChainInv /\ ClientsConsistent

LEMMA EntriesFacts ==
  ASSUME ChainInv, NEW w, NEW list \in Lists
  PROVE  /\ Len(Entries(list)) \in Nat
         /\ DOMAIN Entries(list) = 1..Len(Entries(list))
         /\ Matching(w, list) \subseteq DOMAIN Entries(list)
<1>1. /\ Len(offers) \in Nat /\ DOMAIN offers = 1..Len(offers)
      /\ Len(escrows) \in Nat /\ DOMAIN escrows = 1..Len(escrows)
      /\ Len(routes) \in Nat /\ DOMAIN routes = 1..Len(routes)
  BY LenProperties DEF ChainInv, BoardTypeOK, BookTypeOK
<1>2. CASE list = "query_deals"
  BY <1>1, <1>2 DEF Entries, Matching, QueryDeals
<1>3. CASE list = "list_my_deal_offers"
  BY <1>1, <1>3 DEF Entries, Matching, ListMyDealOffers
<1>4. CASE list = "list_active_offers"
  BY <1>1, <1>4 DEF Entries, Matching, ListActiveOffers
<1>5. CASE list = "list_my_offers"
  BY <1>1, <1>5 DEF Entries, Matching, ListMyOffers
<1>6. CASE list = "list_my_escrows"
  BY <1>1, <1>6 DEF Entries, Matching, ListMyEscrows
<1> QED
  BY <1>2, <1>3, <1>4, <1>5, <1>6 DEF Lists

\* Whatever a client does, on the chain it is one of the chain's own steps.
LEMMA ClientMoves ==
  ASSUME ClientsConsistent, [ClientNext]_allVars
  PROVE  ChainMoves
<1>1. ASSUME NEW w \in Wallets, Mine(w)
      PROVE  ChainMoves
  <2>1. PICK c, pool, tx : c = call[w] /\ pool = mempool[w] /\ tx = pool[1]
    OBVIOUS
  <2>2. Transaction(tx)
    BY <1>1, <2>1 DEF ClientsConsistent, Consistent, Mine
  <2>3. ContractCall(w, tx) \/ UNCHANGED vars
    BY <1>1, <2>1 DEF Mine
  <2> QED
    BY <2>2, <2>3, CallMoves DEF ChainMoves
<1>2. CASE OtherUse
  BY <1>2 DEF OtherUse, Next, ChainMoves
<1>3. CASE UNCHANGED allVars
  BY <1>3 DEF allVars, ChainMoves
<1>4. ASSUME NEW w \in Wallets,
             \/ \E section \in Sections :
                  \/ \E r \in BoardRequests \cup BookRequests : Begin(w, r, section)
                  \/ \E list \in Lists : StartList(w, list, section)
             \/ Send(w) \/ Receive(w) \/ Fail(w) \/ ReadEntry(w)
      PROVE  ChainMoves
  BY <1>4 DEF Begin, StartList, Send, Receive, Fail, ReadEntry, ChainMoves
<1> QED
  BY <1>1, <1>2, <1>3, <1>4 DEF ClientNext, ClientStep

\* One wallet's call goes on; the others' stay as they are.
LEMMA OneWallet ==
  ASSUME ClientInv, ChainInv', Kept, NEW w \in Wallets, NEW c, NEW pool,
         call' = [call EXCEPT ![w] = c] \/ (call' = call /\ c = call[w]),
         DOMAIN mempool' = Wallets, mempool'[w] = pool,
         \A v \in Wallets : v # w => mempool'[v] = mempool[v],
         Consistent(w, c, pool)'
  PROVE  ClientsConsistent'
<1>1. ChainInv /\ DOMAIN call = Wallets
  BY DEF ClientInv, ClientsConsistent
<1>2. DOMAIN call' = Wallets /\ call'[w] = c
  BY <1>1
<1>3. SUFFICES ASSUME NEW v \in Wallets, NEW d, NEW p, d = call'[v], p = mempool'[v]
               PROVE  Consistent(v, d, p)'
  BY <1>2 DEF ClientsConsistent
<1>4. CASE v = w
  BY <1>2, <1>3, <1>4
<1>5. CASE v # w
  <2>1. d = call[v] /\ p = mempool[v]
    BY <1>1, <1>3, <1>5
  <2>2. Consistent(v, d, p)
    BY <2>1 DEF ClientInv, ClientsConsistent
  <2> QED
    BY <1>1, <2>2, ConsistentKept
<1> QED
  BY <1>4, <1>5

LEMMA BeginStep ==
  ASSUME ClientInv, ChainInv', Kept, NEW w \in Wallets,
         NEW r \in BoardRequests \cup BookRequests, NEW section, Begin(w, r, section)
  PROVE  ClientsConsistent'
<1>1. ChainInv /\ DOMAIN mempool = Wallets
  BY DEF ClientInv, ClientsConsistent
<1>2. Request(r) /\ mempool[w] = <<>>
  BY DEF Begin, Request, Free
<1>3. CASE r.op = "create_offer"
  <2>1. PICK c : /\ c = [at |-> IF allowance[w][Book] < r.stake THEN "approve" ELSE "send",
                         r |-> r]
                 /\ call' = [call EXCEPT ![w] = c]
    BY <1>3 DEF Begin, Become
  <2>2. mempool' = mempool
    BY <1>3 DEF Begin
  <2>3. c.at \in {"approve", "send"} /\ c.r = r
    BY <2>1
  <2>4. Consistent(w, c, <<>>)'
    BY <1>2, <1>3, <2>3 DEF Consistent, Executed
  <2> QED
    BY <1>1, <1>2, <2>1, <2>2, <2>4, OneWallet
<1>4. CASE r.op # "create_offer"
  <2>1. Submit(w, r, r)
    BY <1>4 DEF Begin
  <2>2. PICK c, pool : /\ c = [at |-> "receipt", r |-> r] /\ pool = <<r>>
                       /\ call' = [call EXCEPT ![w] = c]
                       /\ mempool' = [mempool EXCEPT ![w] = pool]
    BY <2>1 DEF Submit, Become
  <2>3. c.at = "receipt" /\ c.r = r /\ pool # <<>> /\ pool[1] = r
    BY <2>2
  <2>4. Seen(w, r)
    BY <1>2, <2>1, EstimateSees DEF Submit, Estimated
  <2>5. Seen(w, r)'
    BY <1>1, <2>4, SeenKept
  <2>6. Consistent(w, c, pool)'
    BY <1>2, <2>3, <2>5 DEF Consistent, Transaction, Serves, Executed
  <2> QED
    BY <1>1, <2>2, <2>6, OneWallet
<1> QED
  BY <1>3, <1>4

LEMMA SendStep ==
  ASSUME ClientInv, ChainInv', Kept, NEW w \in Wallets, Send(w)
  PROVE  ClientsConsistent'
<1>1. ChainInv /\ DOMAIN mempool = Wallets
  BY DEF ClientInv, ClientsConsistent
<1>2. PICK b, old : b = call[w] /\ old = mempool[w]
  OBVIOUS
<1>3. Consistent(w, b, old) /\ b.at \in {"approve", "send"}
  BY <1>2 DEF ClientInv, ClientsConsistent, Send
<1>4. PICK r : r = b.r
  OBVIOUS
<1>5. Request(r) /\ r.op = "create_offer"
  BY <1>3, <1>4 DEF Consistent
<1>6. r.stake \in Amounts
  BY <1>5, RequestFacts
<1>7. PICK tx : tx \in {r, Approval(r.stake)} /\ Submit(w, r, tx)
  BY <1>2, <1>4 DEF Send
<1>8. PICK c, pool : /\ c = [at |-> "receipt", r |-> r] /\ pool = <<tx>>
                     /\ call' = [call EXCEPT ![w] = c]
                     /\ mempool' = [mempool EXCEPT ![w] = pool]
  BY <1>7 DEF Submit, Become
<1>9. c.at = "receipt" /\ c.r = r /\ pool # <<>> /\ pool[1] = tx
  BY <1>8
<1>10. Serves(tx, r) /\ Transaction(tx)
  BY <1>5, <1>6, <1>7 DEF Serves, Transaction
<1>11. Seen(w, r)'
  BY <1>5 DEF Seen
<1>12. Consistent(w, c, pool)'
  BY <1>5, <1>9, <1>10, <1>11 DEF Consistent, Executed
<1> QED
  BY <1>1, <1>8, <1>12, OneWallet

LEMMA MineStep ==
  ASSUME ClientInv, ChainInv', Kept, NEW w \in Wallets, Mine(w)
  PROVE  ClientsConsistent'
<1>1. ChainInv /\ DOMAIN mempool = Wallets /\ DOMAIN call = Wallets
  BY DEF ClientInv, ClientsConsistent
<1>2. PICK b, old, tx, id : b = call[w] /\ old = mempool[w] /\ tx = old[1] /\ id = CreatedId(tx)
  OBVIOUS
<1>3. Consistent(w, b, old) /\ old # <<>>
  BY <1>2 DEF ClientInv, ClientsConsistent, Mine
<1>4. mempool' = [mempool EXCEPT ![w] = <<>>]
  BY DEF Mine
<1>5. CASE b.at = "receipt"
  <2>1. PICK r : r = b.r
    OBVIOUS
  <2>2. Request(r) /\ Serves(tx, r) /\ (tx = r => Seen(w, r))
    BY <1>2, <1>3, <1>5, <2>1 DEF Consistent
  <2>3. PICK c : /\ c = [at |-> "mined", r |-> r, tx |-> tx.op, id |-> id]
                 /\ call' = [call EXCEPT ![w] = c]
    BY <1>2, <1>5, <2>1 DEF Mine, Become
  <2>4. c.at = "mined" /\ c.r = r /\ c.tx = tx.op /\ c.id = id
    BY <2>3
  <2>5. ASSUME tx = r
        PROVE  Mark(r)' /\ (id = None \/ Created(w, r, id)')
    <3>1. CASE ContractCall(w, r)
      BY <1>1, <1>2, <2>2, <2>5, <3>1, CallMarks, CallCreates
    <3>2. CASE ~ Accepted(w, r) /\ UNCHANGED vars
      <4>1. Mark(r)
        BY <1>1, <2>2, <2>5, <3>2, RevertLeavesMark
      <4>2. Mark(r)'
        BY <1>1, <4>1, MarkKept
      <4>3. CreatedId(r) = None
        BY <3>2 DEF CreatedId, vars, boardVars
      <4> QED
        BY <1>2, <2>5, <4>2, <4>3
    <3> QED
      BY <1>2, <2>5, <3>1, <3>2 DEF Mine
  <2>6. tx = r \/ (tx.op = "approve_stake" /\ r.op = "create_offer")
    BY <2>2, ApprovalFacts DEF Serves
  <2>7. Consistent(w, c, <<>>)'
    <3>1. CASE tx = r
      <4>1. tx.op # "approve_stake"
        BY <2>2, <3>1, RequestFacts
      <4> QED
        BY <2>4, <2>5, <3>1, <4>1 DEF Consistent, Executed
    <3>2. CASE tx.op = "approve_stake" /\ r.op = "create_offer"
      BY <2>2, <2>4, <3>2 DEF Consistent, Executed
    <3> QED
      BY <2>6, <3>1, <3>2
  <2> QED
    BY <1>1, <1>4, <2>3, <2>7, OneWallet
<1>6. CASE b.at # "receipt"
  <2>1. call' = call
    BY <1>2, <1>6 DEF Mine
  <2>2. call' = call /\ b = call[w]
    BY <1>2, <2>1
  <2>3. Consistent(w, b, <<>>)
    BY <1>3, <1>6 DEF Consistent
  <2>4. Consistent(w, b, <<>>)'
    BY <1>1, <2>3, ConsistentKept
  <2> QED
    BY <1>1, <1>4, <2>2, <2>4, OneWallet
<1> QED
  BY <1>5, <1>6

LEMMA ReceiveStep ==
  ASSUME ClientInv, ChainInv', Kept, NEW w \in Wallets, Receive(w)
  PROVE  ClientsConsistent'
<1>1. ChainInv /\ DOMAIN mempool = Wallets /\ mempool' = mempool
  BY DEF ClientInv, ClientsConsistent, Receive
<1>2. PICK b, old : b = call[w] /\ old = mempool[w]
  OBVIOUS
<1>3. Consistent(w, b, old) /\ b.at = "mined"
  BY <1>2 DEF ClientInv, ClientsConsistent, Receive
<1>4. Consistent(w, b, old)'
  BY <1>1, <1>3, ConsistentKept
<1>5. PICK c : /\ c = IF b.tx = "approve_stake" THEN [at |-> "send", r |-> b.r]
                                                 ELSE [at |-> "ok", r |-> b.r, id |-> b.id]
               /\ call' = [call EXCEPT ![w] = c]
  BY <1>2 DEF Receive, Become
<1>6. CASE b.tx = "approve_stake"
  <2>1. c.at = "send" /\ c.r = b.r
    BY <1>5, <1>6
  <2>2. Consistent(w, c, old)'
    BY <1>3, <1>4, <1>6, <2>1 DEF Consistent, Executed
  <2> QED
    BY <1>1, <1>2, <1>5, <2>2, OneWallet
<1>7. CASE b.tx # "approve_stake"
  <2>1. c.at = "ok" /\ c.r = b.r /\ c.id = b.id
    BY <1>5, <1>7
  <2>2. Consistent(w, c, old)'
    BY <1>3, <1>4, <1>7, <2>1 DEF Consistent, Executed
  <2> QED
    BY <1>1, <1>2, <1>5, <2>2, OneWallet
<1> QED
  BY <1>6, <1>7

LEMMA FailStep ==
  ASSUME ClientInv, ChainInv', Kept, NEW w \in Wallets, Fail(w)
  PROVE  ClientsConsistent'
<1>1. ChainInv /\ DOMAIN mempool = Wallets /\ mempool' = mempool
  BY DEF ClientInv, ClientsConsistent, Fail
<1>2. PICK b, old, c : b = call[w] /\ old = mempool[w] /\ c = Idle
  OBVIOUS
<1>3. Consistent(w, b, old)
  BY <1>2 DEF ClientInv, ClientsConsistent
<1>4. call' = [call EXCEPT ![w] = c] /\ c.at = "idle"
  BY <1>2 DEF Fail, Become, Idle
<1>5. Consistent(w, c, old)'
  BY <1>3, <1>4 DEF Consistent, Executed
<1> QED
  BY <1>1, <1>2, <1>4, <1>5, OneWallet

LEMMA StartListStep ==
  ASSUME ClientInv, ChainInv', Kept, NEW w \in Wallets, NEW list \in Lists, NEW section,
         StartList(w, list, section)
  PROVE  ClientsConsistent'
<1>1. ChainInv /\ DOMAIN mempool = Wallets /\ mempool' = mempool
  BY DEF ClientInv, ClientsConsistent, StartList
<1>2. PICK total, matching, old :
        total = Len(Entries(list)) /\ matching = Matching(w, list) /\ old = mempool[w]
  OBVIOUS
<1>3. PICK c : /\ c = [at |-> "listing", list |-> list, total |-> total, next |-> 1,
                       found |-> {}, matching |-> matching]
               /\ call' = [call EXCEPT ![w] = c]
  BY <1>2 DEF StartList, Become
<1>4. /\ c.at = "listing" /\ c.list = list /\ c.total = total /\ c.next = 1
      /\ c.found = {} /\ c.matching = matching
  BY <1>3
<1>5. total \in Nat /\ DOMAIN Entries(list) = 1..total /\ matching \subseteq 1..total
  BY <1>1, <1>2, EntriesFacts
<1>6. c \in ListingCall
  BY <1>3, <1>5 DEF ListingCall
<1>7. Listing(w, c)
  BY <1>2, <1>4, <1>5, <1>6 DEF Listing
<1>8. Listing(w, c)'
  BY <1>7, ListingKept
<1>9. old = <<>>
  BY <1>2 DEF StartList, Free
<1>10. Consistent(w, c, old)'
  BY <1>4, <1>8, <1>9 DEF Consistent, Executed
<1> QED
  BY <1>1, <1>2, <1>3, <1>10, OneWallet

LEMMA ReadEntryStep ==
  ASSUME ClientInv, ChainInv', Kept, NEW w \in Wallets, ReadEntry(w)
  PROVE  ClientsConsistent'
<1>1. ChainInv /\ DOMAIN mempool = Wallets /\ mempool' = mempool
  BY DEF ClientInv, ClientsConsistent, ReadEntry
<1>2. PICK b, old : b = call[w] /\ old = mempool[w]
  OBVIOUS
<1>3. Consistent(w, b, old) /\ b.at = "listing"
  BY <1>2 DEF ClientInv, ClientsConsistent, ReadEntry
<1>4. Listing(w, b)
  BY <1>3 DEF Consistent
<1>5. /\ b \in ListingCall /\ b.total \in Nat /\ b.next \in Nat \ {0}
      /\ b.found \subseteq b.matching
      /\ \A id \in Matching(w, b.list) \cap 1..b.total :
           id \in b.matching /\ (id < b.next => id \in b.found)
      /\ 1..b.total \subseteq DOMAIN Entries(b.list)
  BY <1>4 DEF Listing, ListingCall
<1>6. CASE ListIsOver(b)
  <2>1. PICK c : c = [b EXCEPT !.at = "listed"] /\ call' = [call EXCEPT ![w] = c]
    BY <1>2, <1>6 DEF ReadEntry, Become
  <2>2. /\ c.at = "listed" /\ c.list = b.list /\ c.total = b.total /\ c.next = b.next
        /\ c.found = b.found /\ c.matching = b.matching /\ c \in ListingCall
    BY <1>5, <2>1 DEF ListingCall
  <2>3. ListIsOver(c)
    BY <1>6, <2>2 DEF ListIsOver
  <2>4. Listing(w, c)
    BY <1>5, <2>2, <2>3 DEF Listing
  <2>5. Listing(w, c)'
    BY <2>4, ListingKept
  <2>6. Consistent(w, c, old)'
    BY <1>3, <2>2, <2>5 DEF Consistent, Executed
  <2> QED
    BY <1>1, <1>2, <2>1, <2>6, OneWallet
<1>7. CASE ~ ListIsOver(b)
  <2>1. PICK id, found :
          /\ id = b.next
          /\ found = IF id \in Matching(w, b.list) THEN b.found \cup {id} ELSE b.found
    OBVIOUS
  <2>2. id \in Nat \ {0} /\ id \in 1..b.total
    BY <1>5, <1>7, <2>1 DEF ListIsOver
  <2>3. PICK c : /\ c = [b EXCEPT !.next = id + 1, !.found = found]
                 /\ call' = [call EXCEPT ![w] = c]
    BY <1>2, <1>7, <2>1 DEF ReadEntry, Become
  <2>4. found \subseteq b.matching /\ b.found \subseteq found
    BY <1>5, <2>1, <2>2
  <2>5. b.matching \in SUBSET Nat
    BY <1>5 DEF ListingCall
  <2>6. /\ c.at = "listing" /\ c.list = b.list /\ c.total = b.total /\ c.next = id + 1
        /\ c.found = found /\ c.matching = b.matching
    BY <1>3, <1>5, <2>3 DEF ListingCall
  <2>7. c \in ListingCall
    <3>1. found \in SUBSET Nat /\ id + 1 \in Nat \ {0}
      BY <2>2, <2>4, <2>5
    <3> QED
      BY <1>5, <2>3, <3>1 DEF ListingCall
  <2>8. ASSUME NEW k \in Matching(w, b.list) \cap 1..b.total
        PROVE  k \in b.matching /\ (k < id + 1 => k \in found)
    <3>1. k \in b.matching /\ (k < id => k \in found)
      BY <1>5, <2>1, <2>4, <2>8
    <3>2. k = id => k \in found
      BY <2>1, <2>8
    <3>3. k < id + 1 => k < id \/ k = id
      BY <2>2, <2>8
    <3> QED
      BY <3>1, <3>2, <3>3
  <2>9. Listing(w, c)
    BY <1>5, <2>4, <2>6, <2>7, <2>8 DEF Listing
  <2>10. Listing(w, c)'
    BY <2>9, ListingKept
  <2>11. Consistent(w, c, old)'
    BY <1>3, <2>6, <2>10 DEF Consistent, Executed
  <2> QED
    BY <1>1, <1>2, <2>3, <2>11, OneWallet
<1> QED
  BY <1>6, <1>7

LEMMA ClientInvStep ==
  ASSUME ClientInv, [ClientNext]_allVars
  PROVE  ClientInv'
<1>1. ChainInv /\ ClientsConsistent /\ ChainMoves
  BY ClientMoves DEF ClientInv
<1>2. ChainInv' /\ Kept
  BY <1>1, ChainInvStep, KeptStep
<1>3. ASSUME UNCHANGED clientVars
      PROVE  ClientsConsistent'
  <2>1. DOMAIN call' = Wallets /\ DOMAIN mempool' = Wallets /\ call' = call /\ mempool' = mempool
    BY <1>1, <1>3 DEF ClientsConsistent, clientVars
  <2>2. SUFFICES ASSUME NEW v \in Wallets, NEW d, NEW p, d = call'[v], p = mempool'[v]
                 PROVE  Consistent(v, d, p)'
    BY <2>1 DEF ClientsConsistent
  <2>3. Consistent(v, d, p)
    BY <1>1, <2>1, <2>2 DEF ClientsConsistent
  <2> QED
    BY <1>1, <1>2, <2>3, ConsistentKept
<1>4. CASE ClientStep
  BY <1>2, <1>4, BeginStep, StartListStep, SendStep, MineStep, ReceiveStep, FailStep,
     ReadEntryStep DEF ClientStep, ClientInv
<1>5. CASE OtherUse
  BY <1>2, <1>3, <1>5 DEF OtherUse, ClientInv
<1>6. CASE UNCHANGED allVars
  BY <1>2, <1>3, <1>6 DEF allVars, ClientInv
<1> QED
  BY <1>4, <1>5, <1>6 DEF ClientNext

LEMMA ClientInvInit ==
  ASSUME ClientInit
  PROVE  ClientInv
<1>1. ChainInv
  BY ChainInvInit DEF ClientInit
<1>2. /\ DOMAIN call = Wallets /\ DOMAIN mempool = Wallets
      /\ \A w \in Wallets : call[w].at = "idle" /\ mempool[w] = <<>>
  BY DEF ClientInit, Idle
<1>3. ClientsConsistent
  BY <1>2 DEF ClientsConsistent, Consistent, Executed
<1> QED
  BY <1>1, <1>3 DEF ClientInv

LEMMA ClientInvHolds == ClientSpec => []ClientInv
<1>1. ClientInit => ClientInv
  BY ClientInvInit
<1>2. ClientInv /\ [ClientNext]_allVars => ClientInv'
  BY ClientInvStep
<1> QED
  BY <1>1, <1>2, PTL DEF ClientSpec

\* Ok can be relied on although nobody looks at the receipt: in every execution, what
\* the call asked for has happened or can no longer happen.  The estimate has shown
\* what only moves forward, and the contracts can always pay, so a revert means that
\* somebody was faster.
THEOREM OkCorrect == ClientSpec => []OkLeavesItsMark
<1>1. ClientInv => OkLeavesItsMark
  <2> SUFFICES ASSUME ClientInv, NEW w \in Wallets, call[w].at = "ok"
               PROVE  Mark(call[w].r)
    BY DEF OkLeavesItsMark, Mark, Answered
  <2> QED
    BY DEF ClientInv, ClientsConsistent, Consistent, Executed
<1> QED
  BY <1>1, ClientInvHolds, PTL

\* The id a creation returns is of the entry that this call's transaction added, with
\* the terms it asked for, whoever else creates entries before the receipt comes.
THEOREM OwnIdCorrect == ClientSpec => []OwnIdReturned
<1>1. ClientInv => OwnIdReturned
  <2> SUFFICES ASSUME ClientInv, NEW w \in Wallets, call[w].at = "ok", call[w].id # None
               PROVE  Created(w, call[w].r, call[w].id)
    BY DEF OwnIdReturned, Created
  <2> QED
    BY DEF ClientInv, ClientsConsistent, Consistent, Executed
<1> QED
  BY <1>1, ClientInvHolds, PTL

\* A listing that reads a moving table one entry at a time misses nothing that was
\* there at its start and still matches, and shows nothing that did not match then.
THEOREM ListingsCorrect == ClientSpec => []ListingsMissNothing
<1>1. ClientInv => ListingsMissNothing
  <2> SUFFICES ASSUME ClientInv, NEW w \in Wallets, NEW c, c = call[w], c.at = "listed"
               PROVE  /\ c.found \subseteq c.matching
                      /\ \/ c.list = "list_active_offers" /\ Cardinality(c.found) >= MaxListed
                         \/ (Matching(w, c.list) \cap 1..c.total) \subseteq c.found
    BY DEF ListingsMissNothing
  <2>1. Listing(w, c)
    BY DEF ClientInv, ClientsConsistent, Consistent
  <2>2. c.total \in Nat /\ c.next \in Nat \ {0} /\ ListIsOver(c) /\ c.found \subseteq c.matching
    BY <2>1 DEF Listing, ListingCall
  <2>3. ASSUME c.next > c.total
        PROVE  (Matching(w, c.list) \cap 1..c.total) \subseteq c.found
    <3>1. \A id \in 1..c.total : id < c.next
      BY <2>2, <2>3
    <3> QED
      BY <2>1, <3>1 DEF Listing
  <2> QED
    BY <2>2, <2>3 DEF ListIsOver
<1> QED
  BY <1>1, ClientInvHolds, PTL

\* Whatever the clients and everybody else do, both contracts can pay what they owe:
\* the amount of every open escrow, and every stake.
THEOREM ContractsCanPay ==
  ClientSpec => []( /\ \A id \in DOMAIN escrows : escrows[id].status \in Open => CanPay(id)
                    /\ \A id \in DOMAIN routes : CanTransfer(Book, routes[id].stakeAmount))
<1>1. ClientInv => /\ \A id \in DOMAIN escrows : escrows[id].status \in Open => CanPay(id)
                   /\ \A id \in DOMAIN routes : CanTransfer(Book, routes[id].stakeAmount)
  BY EscrowCovered, StakeCovered DEF ClientInv, ChainInv
<1> QED
  BY <1>1, ClientInvHolds, PTL
=============================================================================
