------------------------- MODULE CreditLedgerProofs -------------------------
(***************************************************************************)
(* Proofs about CreditLedger, for any number of users and of overlapping   *)
(* calls, any price, any limits, and with kills and database errors at any *)
(* point: what every record in the database, and every record a call holds *)
(* in memory, satisfies; and, as long as calls come one at a time, that the *)
(* debts saved add up to what the sessions recorded cost, those included   *)
(* that an installation left behind when it lost its identity.             *)
(***************************************************************************)
EXTENDS CreditLedger, SumProofs, FiniteSetTheorems, TLAPS

\* A record that may be saved under anchor a.
Good(x, a) ==
  /\ x \in Account
  /\ Covered(x)
  /\ x.limit >= BaseLimit(a)
  /\ x.tier = "credit" <=> x.trial

-----------------------------------------------------------------------------
(* The operations on a record lead from good records to good records. *)

LEMMA CostCovers ==
  ASSUME NEW b \in Nat
  PROVE  Cost(b) \in Nat /\ Cost(b) * Gb >= b * Price
<1>1. Price \in Nat /\ Gb \in Nat /\ Gb > 0
  BY LedgerAssumption
<1>2. PICK x \in Nat : x = b * Price
  BY <1>1
<1>3. PICK q \in Nat : q = (x + (Gb - 1)) \div Gb
  BY <1>1, <1>2
<1>4. q * Gb > x - 1
  <2>1. x + (Gb - 1) = Gb * q + ((x + (Gb - 1)) % Gb)
    BY <1>1, <1>2, <1>3
  <2>2. (x + (Gb - 1)) % Gb \in 0..(Gb - 1)
    BY <1>1, <1>2
  <2> QED  BY <1>1, <1>2, <1>3, <2>1, <2>2
<1> QED  BY <1>1, <1>2, <1>3, <1>4 DEF Cost

LEMMA BaseLimitNat == ASSUME NEW a PROVE BaseLimit(a) \in Nat
  BY LedgerAssumption DEF BaseLimit

LEMMA FreshGood == ASSUME NEW a \in Anchors PROVE Good(Fresh(a), a)
  BY BaseLimitNat, LedgerAssumption DEF Good, Fresh, Account, Covered

LEMMA EnsuredGood ==
  ASSUME NEW a \in Anchors, NEW x, Good(x, a)
  PROVE  Good(Ensured(x, a), a)
<1>1. BaseLimit(a) \in Nat
  BY BaseLimitNat
<1> QED  BY <1>1 DEF Good, Ensured, Account, Covered, Larger

LEMMA AcceptedGood ==
  ASSUME NEW a \in Anchors, NEW x, Good(x, a)
  PROVE  Good(Accepted(x), a)
<1>1. BaseLimit(a) \in Nat
  BY BaseLimitNat
<1> QED  BY <1>1 DEF Good, Accepted, Account, Covered

LEMMA ChargedGood ==
  ASSUME NEW a \in Anchors, NEW x, Good(x, a), NEW b \in Nat
  PROVE  Good(Charged(x, b), a)
<1>1. /\ BaseLimit(a) \in Nat /\ Price \in Nat /\ Gb \in Nat
      /\ Cost(b) \in Nat /\ Cost(b) * Gb >= b * Price
  BY BaseLimitNat, LedgerAssumption, CostCovers
<1>2. x \in Account /\ x.debt \in Nat /\ x.usage \in Nat /\ x.debt * Gb >= x.usage * Price
  BY DEF Good, Account, Covered
<1>3. (x.debt + Cost(b)) * Gb >= (x.usage + b) * Price
  BY <1>1, <1>2
<1>4. PICK d \in Nat, u \in Nat :
        d = x.debt + Cost(b) /\ u = x.usage + b /\ d * Gb >= u * Price
  BY <1>1, <1>2, <1>3
<1>5. Charged(x, b) = [x EXCEPT !.usage = u, !.debt = d]
  BY <1>4 DEF Charged
<1>6. Charged(x, b) \in Account
  BY <1>2, <1>5 DEF Account
<1>7. Covered(Charged(x, b))
  BY <1>2, <1>4, <1>5 DEF Covered, Account
<1> QED  BY <1>1, <1>2, <1>5, <1>6, <1>7 DEF Good, Account

LEMMA MergedGood ==
  ASSUME NEW a \in Users, NEW x, NEW y, Good(x, a), Good(y, Install)
  PROVE  Good(Merged(x, y), a)
<1>1. /\ Price \in Nat /\ Gb \in Nat /\ LinkedLimit \in Nat /\ BaseLimit(a) = LinkedLimit
  BY LedgerAssumption DEF BaseLimit
<1>2. /\ x \in Account /\ y \in Account
      /\ x.debt \in Nat /\ x.usage \in Nat /\ y.debt \in Nat /\ y.usage \in Nat
      /\ x.limit \in Nat /\ y.limit \in Nat /\ x.limit >= BaseLimit(a)
      /\ x.debt * Gb >= x.usage * Price /\ y.debt * Gb >= y.usage * Price
  BY DEF Good, Account, Covered
<1>3. (x.debt + y.debt) * Gb >= (x.usage + y.usage) * Price
  BY <1>1, <1>2
<1>4. PICK d \in Nat, u \in Nat :
        d = x.debt + y.debt /\ u = x.usage + y.usage /\ d * Gb >= u * Price
  BY <1>2, <1>3
<1>5. PICK l \in Nat : l = Larger(x.limit, Larger(y.limit, LinkedLimit)) /\ l >= x.limit
  BY <1>1, <1>2 DEF Larger
<1> DEFINE t == IF y.trial THEN "credit" ELSE x.tier
<1>6. Merged(x, y) = [x EXCEPT !.usage = u, !.debt = d, !.limit = l,
                              !.trial = x.trial \/ y.trial, !.tier = t]
  BY <1>4, <1>5 DEF Merged
<1>7. t \in {"free", "credit"} /\ (x.trial \/ y.trial) \in BOOLEAN
  BY <1>2 DEF Account
<1>8. t = "credit" <=> (x.trial \/ y.trial)
  BY <1>2 DEF Good, Account
<1> HIDE DEF t
<1>9. Merged(x, y) \in Account
  BY <1>2, <1>6, <1>7 DEF Account
<1>10. Covered(Merged(x, y))
  BY <1>2, <1>4, <1>6 DEF Covered, Account
<1>11. Merged(x, y).limit >= BaseLimit(a)
  BY <1>1, <1>2, <1>5, <1>6 DEF Account
<1>12. Merged(x, y).tier = "credit" <=> Merged(x, y).trial
  BY <1>2, <1>6, <1>7, <1>8 DEF Account
<1> QED  BY <1>9, <1>10, <1>11, <1>12 DEF Good
-----------------------------------------------------------------------------
(* The inductive invariant: what is saved is good, and so is what a call is *)
(* about to save.                                                           *)

DbOK ==
  /\ db \in [Anchors -> Account \cup {None}]
  /\ \A a \in Anchors : db[a] # None => Good(db[a], a)

GoodCall(k) ==
  /\ k \in Call
  /\ Ready(k)
  /\ k.pc \in {"create", "save", "merge_create", "merge_save"} => Good(k.account, k.anchor)
  /\ k.from = None \/ Good(k.from, Install)
  /\ k.pc = "merge_save" => Good(k.from, Install)

CallsOK ==
  /\ DOMAIN call = Calls /\ call = [c \in Calls |-> call[c]]
  /\ \A c \in Calls : GoodCall(call[c])

RestOK ==
  /\ local \in LocalState /\ file \in Files
  /\ user \in {None} \cup Users
  /\ started \in Nat /\ charged \in Nat /\ orphaned \in Nat
  /\ overlap \in BOOLEAN /\ fault \in BOOLEAN

IInv == DbOK /\ CallsOK /\ RestOK

LEMMA InvariantImplies == IInv => TypeOK /\ DebtCoversUsage /\ TierIsEarned
<1> SUFFICES ASSUME IInv PROVE TypeOK /\ DebtCoversUsage /\ TierIsEarned
  OBVIOUS
<1>1. call \in [Calls -> Call]
  BY DEF IInv, CallsOK, GoodCall
<1>2. \A a \in Anchors : db[a] # None =>
        db[a].limit >= BaseLimit(a) /\ Covered(db[a]) /\ (db[a].tier = "credit" <=> db[a].trial)
  BY DEF IInv, DbOK, Good
<1> QED
  BY <1>1, <1>2 DEF IInv, DbOK, CallsOK, RestOK, GoodCall, TypeOK, DebtCoversUsage, TierIsEarned

-----------------------------------------------------------------------------
(* How an action may change the database and the calls. *)

LEMMA DbUpdate ==
  ASSUME DbOK, NEW a \in Anchors, NEW x, x = None \/ Good(x, a),
         db' = [db EXCEPT ![a] = x]
  PROVE  DbOK'
  BY DEF DbOK, Good

LEMMA CallUpdate ==
  ASSUME CallsOK, NEW c \in Calls, NEW k, GoodCall(k), call' = [call EXCEPT ![c] = k]
  PROVE  CallsOK'
  BY DEF CallsOK

LEMMA IdleGood == GoodCall(Idle)
  BY DEF GoodCall, Idle, NewLocal, LocalState, Call, Steps, Anchors, Ready

LEMMA GoOnUpdate ==
  ASSUME CallsOK, NEW c \in Calls, NEW a \in Anchors, NEW plan \in Seq(PlanSteps),
         GoOn(c, a, plan)
  PROVE  CallsOK'
<1> DEFINE k == IF plan = <<>> THEN Idle
                ELSE [Idle EXCEPT !.pc = Begin(plan), !.plan = plan, !.anchor = a,
                                  !.bytes = call[c].bytes]
<1>1. call' = [call EXCEPT ![c] = k]
  BY DEF GoOn
<1>2. GoodCall(k)
  <2>1. CASE plan = <<>>
    BY <2>1, IdleGood
  <2>2. CASE plan # <<>>
    <3>1. call[c].bytes \in Nat
      BY DEF CallsOK, GoodCall, Call
    <3>2. Begin(plan) \in {"load", "look", "dismiss_load"}
      BY DEF Begin
    <3> QED  BY <2>2, <3>1, <3>2 DEF GoodCall, Idle, NewLocal, LocalState, Call, Steps, Ready
  <2> QED  BY <2>1, <2>2
<1> QED  BY <1>1, <1>2, CallUpdate
-----------------------------------------------------------------------------
(* Every action preserves the inductive invariant. *)

LEMMA StartPreserves ==
  ASSUME IInv, NEW c \in Calls, Start(c)
  PROVE  IInv'
<1>1. PICK plan \in Plans, bytes \in Sizes :
        call' = [call EXCEPT ![c] = [Idle EXCEPT !.pc = "identify", !.plan = plan,
                   !.copy = local, !.bytes = IF plan = <<"usage">> THEN bytes ELSE 0]]
  BY DEF Start
<1> DEFINE k == [Idle EXCEPT !.pc = "identify", !.plan = plan,
                   !.copy = local, !.bytes = IF plan = <<"usage">> THEN bytes ELSE 0]
<1>2. plan \in Seq(PlanSteps)
  <2>1. /\ <<>> \in Seq(PlanSteps)
        /\ <<"usage">> \in Seq(PlanSteps)
        /\ <<"check">> \in Seq(PlanSteps)
    BY DEF PlanSteps
  <2>2. <<"check", "look", "nudge">> \in Seq(PlanSteps)
    BY DEF PlanSteps
  <2>3. <<"trial", "dismiss">> \in Seq(PlanSteps)
    BY DEF PlanSteps
  <2> QED  BY <2>1, <2>2, <2>3 DEF Plans
<1>3. bytes \in Nat /\ local \in LocalState
  BY LedgerAssumption DEF IInv, RestOK, LocalState
<1>4. GoodCall(k)
  BY <1>2, <1>3 DEF GoodCall, Idle, NewLocal, LocalState, Call, Steps, Ready, Anchors
<1>5. CallsOK'
  BY <1>1, <1>4, CallUpdate DEF IInv
<1>6. DbOK' /\ RestOK'
  BY DEF Start, IInv, DbOK, RestOK
<1> QED  BY <1>5, <1>6 DEF IInv

LEMMA IdentifyPreserves ==
  ASSUME IInv, NEW c \in Calls, Identify(c)
  PROVE  IInv'
<1>1. GoodCall(call[c]) /\ call[c].plan \in Seq(PlanSteps) /\ call[c].pc = "identify"
  BY DEF IInv, CallsOK, GoodCall, Call, Identify
<1>2. CallsOK'
  <2>1. CASE call' = [call EXCEPT ![c] = Idle]
    BY <2>1, IdleGood, CallUpdate DEF IInv
  <2>2. CASE GoOn(c, Install, call[c].plan)
    BY <1>1, <2>2, GoOnUpdate DEF IInv, Anchors
  <2>3. CASE user # None /\ GoOn(c, user, call[c].plan)
    BY <1>1, <2>3, GoOnUpdate DEF IInv, RestOK, Anchors
  <2>4. CASE /\ user # None
             /\ call' = [call EXCEPT ![c].pc = "merge_get", ![c].anchor = user]
    <3> DEFINE k == [call[c] EXCEPT !.pc = "merge_get", !.anchor = user]
    <3>1. call' = [call EXCEPT ![c] = k]
      BY <2>4 DEF IInv, CallsOK
    <3>2. user \in Users /\ user # Install
      BY <2>4, LedgerAssumption DEF IInv, RestOK
    <3>3. GoodCall(k)
      BY <1>1, <3>2 DEF GoodCall, Call, Ready, Steps, Anchors
    <3> QED  BY <3>1, <3>3, CallUpdate DEF IInv
  <2> QED  BY <2>1, <2>2, <2>3, <2>4 DEF Identify
<1>3. DbOK' /\ RestOK'
  BY DEF Identify, IInv, DbOK, RestOK
<1> QED  BY <1>2, <1>3 DEF IInv

LEMMA MergeGetPreserves ==
  ASSUME IInv, NEW c \in Calls, MergeGet(c)
  PROVE  IInv'
<1>c. GoodCall(call[c])
  BY DEF IInv, CallsOK
<1> DEFINE k == [call[c] EXCEPT !.pc = "merge_load", !.from = db[Install]]
<1>1. call' = [call EXCEPT ![c] = k]
  BY DEF MergeGet, IInv, CallsOK
<1>2. GoodCall(k)
  BY <1>c DEF MergeGet, GoodCall, Call, Ready, Steps, IInv, DbOK, Anchors
<1>3. CallsOK'
  BY <1>1, <1>2, CallUpdate DEF IInv
<1>4. DbOK'
  BY DEF MergeGet, IInv, DbOK
<1>5. RestOK'
  BY DEF MergeGet, IInv, RestOK
<1> QED  BY <1>3, <1>4, <1>5 DEF IInv

LEMMA MergeLoadPreserves ==
  ASSUME IInv, NEW c \in Calls, MergeLoad(c)
  PROVE  IInv'
<1>c. GoodCall(call[c]) /\ call[c].pc = "merge_load"
  BY DEF IInv, CallsOK, MergeLoad
<1> DEFINE a == call[c].anchor
<1>a. a \in Anchors /\ a # Install /\ (db[a] # None => Good(db[a], a))
  BY <1>c DEF GoodCall, Call, Ready, IInv, DbOK
<1>3. CallsOK'
  <2>1. CASE db[a] = None
    <3> DEFINE k == [call[c] EXCEPT !.pc = "merge_create", !.account = Fresh(a)]
    <3>1. call' = [call EXCEPT ![c] = k]
      BY <2>1 DEF MergeLoad
    <3>2. Good(Fresh(a), a)
      BY <1>a, FreshGood
    <3>3. GoodCall(k)
      BY <1>c, <1>a, <3>2 DEF GoodCall, Call, Ready, Steps, Good, Account
    <3> QED  BY <3>1, <3>3, CallUpdate DEF IInv
  <2>2. CASE db[a] # None
    <3> DEFINE k == [call[c] EXCEPT !.pc = AfterMergeLoad(call[c].from),
                       !.account = IF call[c].from = None THEN None ELSE Ensured(db[a], a)]
    <3>1. call' = [call EXCEPT ![c] = k]
      BY <2>2 DEF MergeLoad
    <3>2. Good(Ensured(db[a], a), a)
      BY <1>a, <2>2, EnsuredGood
    <3>3. GoodCall(k)
      BY <1>c, <1>a, <3>2 DEF GoodCall, Call, Ready, Steps, Good, Account, AfterMergeLoad, Ensured
    <3> QED  BY <3>1, <3>3, CallUpdate DEF IInv
  <2> QED  BY <2>1, <2>2
<1>4. DbOK'
  BY DEF MergeLoad, IInv, DbOK
<1>5. RestOK'
  BY DEF MergeLoad, IInv, RestOK
<1> QED  BY <1>3, <1>4, <1>5 DEF IInv

LEMMA MergeCreatePreserves ==
  ASSUME IInv, NEW c \in Calls, MergeCreate(c)
  PROVE  IInv'
<1>c. GoodCall(call[c])
  BY DEF IInv, CallsOK
<1> DEFINE k == [call[c] EXCEPT !.pc = AfterMergeLoad(call[c].from),
                       !.account = IF call[c].from = None THEN None ELSE @]
<1>1. call' = [call EXCEPT ![c] = k]
  BY DEF MergeCreate, IInv, CallsOK
<1>2. GoodCall(k)
  BY <1>c DEF MergeCreate, GoodCall, Call, Ready, Steps, AfterMergeLoad
<1>3. CallsOK'
  BY <1>1, <1>2, CallUpdate DEF IInv
<1>4. DbOK'
  <2>1. call[c].anchor \in Anchors /\ Good(call[c].account, call[c].anchor)
    BY <1>c DEF MergeCreate, GoodCall, Call
  <2> QED  BY <2>1, DbUpdate DEF MergeCreate, IInv
<1>5. RestOK'
  BY DEF MergeCreate, IInv, RestOK
<1> QED  BY <1>3, <1>4, <1>5 DEF IInv

LEMMA MergeSavePreserves ==
  ASSUME IInv, NEW c \in Calls, MergeSave(c)
  PROVE  IInv'
<1>c. GoodCall(call[c])
  BY DEF IInv, CallsOK
<1> DEFINE k == [call[c] EXCEPT !.pc = "merge_remove", !.account = None, !.from = None]
<1>1. call' = [call EXCEPT ![c] = k]
  BY DEF MergeSave, IInv, CallsOK
<1>2. GoodCall(k)
  BY <1>c DEF MergeSave, GoodCall, Call, Ready, Steps
<1>3. CallsOK'
  BY <1>1, <1>2, CallUpdate DEF IInv
<1>4. DbOK'
  <2>1. /\ call[c].anchor \in Anchors \ {Install} /\ Good(call[c].account, call[c].anchor)
        /\ Good(call[c].from, Install)
    BY <1>c DEF MergeSave, GoodCall, Call, Ready
  <2>2. Good(Merged(call[c].account, call[c].from), call[c].anchor)
    BY <2>1, MergedGood DEF Anchors
  <2> QED  BY <2>1, <2>2, DbUpdate DEF MergeSave, IInv
<1>5. RestOK'
  BY DEF MergeSave, IInv, RestOK
<1> QED  BY <1>3, <1>4, <1>5 DEF IInv

LEMMA MergeRemovePreserves ==
  ASSUME IInv, NEW c \in Calls, MergeRemove(c)
  PROVE  IInv'
<1>c. GoodCall(call[c])
  BY DEF IInv, CallsOK
<1> DEFINE k == [call[c] EXCEPT !.pc = "promote"]
<1>1. call' = [call EXCEPT ![c] = k]
  BY DEF MergeRemove, IInv, CallsOK
<1>2. GoodCall(k)
  BY <1>c DEF MergeRemove, GoodCall, Call, Ready, Steps
<1>3. CallsOK'
  BY <1>1, <1>2, CallUpdate DEF IInv
<1>4. DbOK'
  BY DbUpdate DEF MergeRemove, IInv, Anchors
<1>5. RestOK'
  BY DEF MergeRemove, IInv, RestOK
<1> QED  BY <1>3, <1>4, <1>5 DEF IInv

LEMMA MergeFailsPreserves ==
  ASSUME IInv, NEW c \in Calls, MergeFails(c)
  PROVE  IInv'
<1>c. GoodCall(call[c])
  BY DEF IInv, CallsOK
<1> DEFINE k == [call[c] EXCEPT !.pc = "promote", !.account = None, !.from = None]
<1>1. call' = [call EXCEPT ![c] = k]
  BY DEF MergeFails, IInv, CallsOK
<1>2. GoodCall(k)
  BY <1>c DEF MergeFails, GoodCall, Call, Ready, Steps
<1>3. CallsOK'
  BY <1>1, <1>2, CallUpdate DEF IInv
<1>4. DbOK'
  BY DEF MergeFails, IInv, DbOK
<1>5. RestOK'
  BY DEF MergeFails, IInv, RestOK
<1> QED  BY <1>3, <1>4, <1>5 DEF IInv

\* Cutting the file disturbs nothing but the step the call has come to.
LEMMA CutPreserves ==
  ASSUME IInv, NEW c \in Calls, Promote(c) \/ DismissSave(c)
  PROVE  IInv'
<1>c. GoodCall(call[c])
  BY DEF IInv, CallsOK
<1>1. CallsOK'
  <2>1. CASE Promote(c)
    <3> DEFINE k == [call[c] EXCEPT !.pc = "promote_write"]
    <3>1. call' = [call EXCEPT ![c] = k]
      BY <2>1 DEF Promote, Cut, IInv, CallsOK
    <3>2. GoodCall(k)
      BY <1>c, <2>1 DEF Promote, GoodCall, Call, Ready, Steps
    <3> QED  BY <3>1, <3>2, CallUpdate DEF IInv
  <2>2. CASE DismissSave(c)
    <3> DEFINE k == [call[c] EXCEPT !.pc = "dismiss_write"]
    <3>1. call' = [call EXCEPT ![c] = k]
      BY <2>2 DEF DismissSave, Cut, IInv, CallsOK
    <3>2. GoodCall(k)
      BY <1>c, <2>2 DEF DismissSave, GoodCall, Call, Ready, Steps
    <3> QED  BY <3>1, <3>2, CallUpdate DEF IInv
  <2> QED  BY <2>1, <2>2
<1>2. DbOK'
  BY DEF Promote, DismissSave, Cut, IInv, DbOK
<1>3. RestOK'
  BY DEF Promote, DismissSave, Cut, IInv, RestOK, Files
<1> QED  BY <1>1, <1>2, <1>3 DEF IInv

LEMMA PromoteWritePreserves ==
  ASSUME IInv, NEW c \in Calls, PromoteWrite(c)
  PROVE  IInv'
<1>1. /\ call[c].anchor \in Users /\ call[c].plan \in Seq(PlanSteps)
      /\ call[c].copy \in LocalState
  BY DEF IInv, CallsOK, GoodCall, Call, Ready, PromoteWrite, Anchors
<1>2. CallsOK'
  BY <1>1, GoOnUpdate DEF PromoteWrite, IInv, Anchors
<1>3. DbOK'
  BY DEF PromoteWrite, IInv, DbOK
<1>4. [call[c].copy EXCEPT !.promoted = call[c].anchor] \in LocalState
  BY <1>1 DEF LocalState
<1>5. RestOK'
  BY <1>4 DEF PromoteWrite, Write, IInv, RestOK, Files
<1> QED  BY <1>2, <1>3, <1>5 DEF IInv

LEMMA LoadPreserves ==
  ASSUME IInv, NEW c \in Calls, Load(c)
  PROVE  IInv'
<1>c. GoodCall(call[c]) /\ call[c].pc = "load"
  BY DEF IInv, CallsOK, Load
<1> DEFINE a == call[c].anchor
<1>a. a \in Anchors /\ (db[a] # None => Good(db[a], a))
  BY <1>c DEF GoodCall, Call, IInv, DbOK
<1>3. CallsOK'
  <2>1. CASE db[a] = None
    <3> DEFINE k == [call[c] EXCEPT !.pc = "create", !.account = Fresh(a)]
    <3>1. call' = [call EXCEPT ![c] = k]
      BY <2>1 DEF Load
    <3>2. Good(Fresh(a), a)
      BY <1>a, FreshGood
    <3>3. GoodCall(k)
      BY <1>c, <1>a, <3>2 DEF GoodCall, Call, Ready, Steps, Good, Account
    <3> QED  BY <3>1, <3>3, CallUpdate DEF IInv
  <2>2. CASE db[a] # None
    <3> DEFINE k == [call[c] EXCEPT !.pc = "save", !.account = Ensured(db[a], a)]
    <3>1. call' = [call EXCEPT ![c] = k]
      BY <2>2 DEF Load
    <3>2. Good(Ensured(db[a], a), a)
      BY <1>a, <2>2, EnsuredGood
    <3>3. GoodCall(k)
      BY <1>c, <1>a, <3>2 DEF GoodCall, Call, Ready, Steps, Good, Account, Ensured
    <3> QED  BY <3>1, <3>3, CallUpdate DEF IInv
  <2> QED  BY <2>1, <2>2
<1>4. DbOK'
  BY DEF Load, IInv, DbOK
<1>5. RestOK'
  BY DEF Load, IInv, RestOK
<1> QED  BY <1>3, <1>4, <1>5 DEF IInv

LEMMA CreatePreserves ==
  ASSUME IInv, NEW c \in Calls, Create(c)
  PROVE  IInv'
<1>c. GoodCall(call[c])
  BY DEF IInv, CallsOK
<1> DEFINE k == [call[c] EXCEPT !.pc = "save"]
<1>1. call' = [call EXCEPT ![c] = k]
  BY DEF Create, IInv, CallsOK
<1>2. GoodCall(k)
  BY <1>c DEF Create, GoodCall, Call, Ready, Steps
<1>3. CallsOK'
  BY <1>1, <1>2, CallUpdate DEF IInv
<1>4. DbOK'
  <2>1. call[c].anchor \in Anchors /\ Good(call[c].account, call[c].anchor)
    BY <1>c DEF Create, GoodCall, Call
  <2> QED  BY <2>1, DbUpdate DEF Create, IInv
<1>5. RestOK'
  BY DEF Create, IInv, RestOK
<1> QED  BY <1>3, <1>4, <1>5 DEF IInv

LEMMA SaveUnchangedPreserves ==
  ASSUME IInv, NEW c \in Calls, SaveUnchanged(c)
  PROVE  IInv'
<1>1. /\ call[c].anchor \in Anchors /\ call[c].bytes \in Nat
      /\ Tail(call[c].plan) \in Seq(PlanSteps)
      /\ Good(call[c].account, call[c].anchor)
  BY DEF IInv, CallsOK, GoodCall, Call, Ready, SaveUnchanged
<1>2. CallsOK'
  BY <1>1, GoOnUpdate DEF SaveUnchanged, IInv
<1>3. DbOK'
  <2>1. CASE db' = [db EXCEPT ![call[c].anchor] = call[c].account]
    BY <1>1, <2>1, DbUpdate DEF IInv
  <2>2. CASE UNCHANGED db
    BY <2>2 DEF IInv, DbOK
  <2> QED  BY <2>1, <2>2 DEF SaveUnchanged
<1>4. RestOK'
  BY DEF SaveUnchanged, IInv, RestOK
<1> QED  BY <1>2, <1>3, <1>4 DEF IInv

LEMMA LookPreserves ==
  ASSUME IInv, NEW c \in Calls, Look(c)
  PROVE  IInv'
<1>1. CallsOK'
  <2>1. /\ <<>> \in Seq(PlanSteps) /\ Install \in Anchors
        /\ call[c].anchor \in Anchors /\ Tail(call[c].plan) \in Seq(PlanSteps)
    BY DEF Anchors, IInv, CallsOK, GoodCall, Call, Ready, Look
  <2> QED  BY <2>1, GoOnUpdate DEF Look, IInv
<1>2. DbOK' /\ RestOK'
  BY DEF Look, IInv, DbOK, RestOK
<1> QED  BY <1>1, <1>2 DEF IInv

LEMMA SaveUsagePreserves ==
  ASSUME IInv, NEW c \in Calls, SaveUsage(c)
  PROVE  IInv'
<1>1. /\ call[c].anchor \in Anchors /\ call[c].bytes \in Nat
      /\ Tail(call[c].plan) \in Seq(PlanSteps)
      /\ Good(call[c].account, call[c].anchor)
  BY DEF IInv, CallsOK, GoodCall, Call, Ready, SaveUsage
<1>2. CallsOK'
  BY <1>1, GoOnUpdate DEF SaveUsage, IInv
<1>3. DbOK'
  <2>1. Good(Charged(call[c].account, call[c].bytes), call[c].anchor)
    BY <1>1, ChargedGood
  <2> QED  BY <1>1, <2>1, DbUpdate DEF SaveUsage, IInv
<1>4. RestOK'
  <2>1. Cost(call[c].bytes) \in Nat
    BY <1>1, CostCovers
  <2> QED  BY <2>1 DEF SaveUsage, IInv, RestOK
<1> QED  BY <1>2, <1>3, <1>4 DEF IInv

LEMMA SaveTrialPreserves ==
  ASSUME IInv, NEW c \in Calls, SaveTrial(c)
  PROVE  IInv'
<1>1. /\ call[c].anchor \in Anchors /\ call[c].bytes \in Nat
      /\ Tail(call[c].plan) \in Seq(PlanSteps)
      /\ Good(call[c].account, call[c].anchor)
  BY DEF IInv, CallsOK, GoodCall, Call, Ready, SaveTrial
<1>2. CallsOK'
  BY <1>1, GoOnUpdate DEF SaveTrial, IInv
<1>3. DbOK'
  <2>1. Good(Accepted(call[c].account), call[c].anchor)
    BY <1>1, AcceptedGood
  <2> QED  BY <1>1, <2>1, DbUpdate DEF SaveTrial, IInv
<1>4. RestOK'
  BY DEF SaveTrial, IInv, RestOK
<1> QED  BY <1>2, <1>3, <1>4 DEF IInv

LEMMA DismissLoadPreserves ==
  ASSUME IInv, NEW c \in Calls, DismissLoad(c)
  PROVE  IInv'
<1>c. GoodCall(call[c])
  BY DEF IInv, CallsOK
<1>1. CallsOK'
  <2>1. CASE file = "whole"
    <3> DEFINE k == [call[c] EXCEPT !.pc = "dismiss_save", !.copy = local]
    <3>1. call' = [call EXCEPT ![c] = k]
      BY <2>1 DEF DismissLoad, IInv, CallsOK
    <3>2. GoodCall(k)
      BY <1>c DEF DismissLoad, GoodCall, Call, Ready, Steps, IInv, RestOK, LocalState
    <3> QED  BY <3>1, <3>2, CallUpdate DEF IInv
  <2>2. CASE file # "whole"
    BY <2>2, IdleGood, CallUpdate DEF DismissLoad, IInv
  <2> QED  BY <2>1, <2>2
<1>2. DbOK' /\ RestOK'
  BY DEF DismissLoad, IInv, DbOK, RestOK
<1> QED  BY <1>1, <1>2 DEF IInv

LEMMA DismissWritePreserves ==
  ASSUME IInv, NEW c \in Calls, DismissWrite(c)
  PROVE  IInv'
<1>1. /\ call[c].anchor \in Anchors /\ Tail(call[c].plan) \in Seq(PlanSteps)
      /\ call[c].copy \in LocalState
  BY DEF IInv, CallsOK, GoodCall, Call, Ready, DismissWrite
<1>2. CallsOK'
  BY <1>1, GoOnUpdate DEF DismissWrite, IInv
<1>3. DbOK'
  BY DEF DismissWrite, IInv, DbOK
<1>4. [call[c].copy EXCEPT !.dismissed = TRUE] \in LocalState
  BY <1>1 DEF LocalState
<1>5. RestOK'
  BY <1>4 DEF DismissWrite, Write, IInv, RestOK, Files
<1> QED  BY <1>2, <1>3, <1>5 DEF IInv

LEMMA LedgerFailsPreserves ==
  ASSUME IInv, NEW c \in Calls, LedgerFails(c)
  PROVE  IInv'
<1>1. CallsOK'
  BY IdleGood, CallUpdate DEF LedgerFails, IInv
<1>2. DbOK' /\ RestOK'
  BY DEF LedgerFails, IInv, DbOK, RestOK
<1> QED  BY <1>1, <1>2 DEF IInv

LEMMA DebtsTyped ==
  ASSUME NEW base \in [Anchors -> Account \cup {None}]
  PROVE  LET debts == [a \in Anchors |-> DebtOf(base[a])] IN
         /\ \A a \in Anchors : DebtOf(base[a]) \in Nat
         /\ IsFiniteSet(Anchors)
         /\ SumOver(debts, Anchors) \in Nat
         /\ \A a \in Anchors : DebtOf(base[a]) <= SumOver(debts, Anchors)
<1> DEFINE debts == [a \in Anchors |-> DebtOf(base[a])]
<1>1. \A a \in Anchors : DebtOf(base[a]) \in Nat
  BY DEF DebtOf, Account
<1>2. IsFiniteSet(Anchors)
  BY LedgerAssumption, FS_AddElement, Anchors = Users \cup {Install} DEF Anchors
<1>3. \A a \in Anchors : debts[a] \in Nat /\ debts[a] = DebtOf(base[a])
  BY <1>1
<1> HIDE DEF debts
<1>4. SumOver(debts, Anchors) \in Nat /\ \A a \in Anchors : debts[a] <= SumOver(debts, Anchors)
  BY <1>2, <1>3, SumOverNat
<1>5. \A a \in Anchors : DebtOf(base[a]) <= SumOver(debts, Anchors)
  BY <1>3, <1>4
<1> QED
  BY <1>1, <1>2, <1>4, <1>5 DEF debts

LEMMA CrashPreserves == IInv /\ Crash => IInv'
<1> SUFFICES ASSUME IInv, Crash PROVE IInv'
  OBVIOUS
<1>1. CallsOK'
  BY IdleGood DEF Crash, CallsOK
<1>2. CASE UNCHANGED <<db, local, file, orphaned>>
  BY <1>1, <1>2 DEF Crash, IInv, DbOK, RestOK
<1>3. CASE /\ db' = [a \in Anchors |-> None]
           /\ local' = NewLocal /\ file' = "whole"
           /\ orphaned' = orphaned + TotalDebt
  <2>1. TotalDebt \in Nat
    BY DebtsTyped DEF IInv, DbOK, TotalDebt
  <2>2. DbOK'
    BY <1>3 DEF DbOK
  <2>3. RestOK'
    BY <1>3, <2>1 DEF Crash, IInv, RestOK, NewLocal, LocalState, Files
  <2> QED  BY <1>1, <2>2, <2>3 DEF IInv
<1> QED  BY <1>2, <1>3 DEF Crash, EnsureLocalState

LEMMA StepPreserves == IInv /\ [Next]_vars => IInv'
<1> SUFFICES ASSUME IInv, [Next]_vars PROVE IInv'
  OBVIOUS
<1>1. CASE \E c \in Calls : CallStep(c)
  <2> PICK c \in Calls : CallStep(c)
    BY <1>1
  <2> QED
    BY StartPreserves, IdentifyPreserves, MergeGetPreserves, MergeLoadPreserves,
       MergeCreatePreserves, MergeSavePreserves, MergeRemovePreserves, MergeFailsPreserves,
       CutPreserves, PromoteWritePreserves, LoadPreserves, CreatePreserves,
       SaveUnchangedPreserves, LookPreserves, SaveUsagePreserves, SaveTrialPreserves,
       DismissLoadPreserves, DismissWritePreserves, LedgerFailsPreserves DEF CallStep
<1>2. CASE ChangeUser
  BY <1>2 DEF ChangeUser, IInv, DbOK, CallsOK, RestOK
<1>3. CASE Crash
  BY <1>3, CrashPreserves
<1>4. CASE UNCHANGED vars
  BY <1>4 DEF vars, IInv, DbOK, CallsOK, RestOK
<1> QED  BY <1>1, <1>2, <1>3, <1>4 DEF Next

LEMMA InitEstablishes == Init => IInv
<1> SUFFICES ASSUME Init PROVE IInv
  OBVIOUS
<1>1. CallsOK
  BY IdleGood DEF Init, CallsOK
<1>2. DbOK /\ RestOK
  BY DEF Init, NewLocal, Files, DbOK, RestOK, LocalState
<1> QED  BY <1>1, <1>2 DEF IInv

LEMMA Inductive == Spec => []IInv
  BY InitEstablishes, StepPreserves, PTL DEF Spec

-----------------------------------------------------------------------------
\* Every reachable state is well typed; in particular no call comes to a save
\* without a record to save, and no record is below the limit of its anchor.
THEOREM TypeCorrect == Spec => []TypeOK
  BY Inductive, InvariantImplies, PTL

\* Every record owes at least what its usage costs, whatever calls overlap and
\* whatever fails.
THEOREM DebtCorrect == Spec => []DebtCoversUsage
  BY Inductive, InvariantImplies, PTL

\* The tier of every record agrees with the acceptance of its trial.
THEOREM TierCorrect == Spec => []TierIsEarned
  BY Inductive, InvariantImplies, PTL

-----------------------------------------------------------------------------
(* Sessions are counted once: the inductive invariant.                     *)

\* The debts a call has in memory are those of the database.
Current(k, base) ==
  /\ k.pc \in {"create", "save", "merge_create", "merge_save"} =>
       k.account.debt = DebtOf(base[k.anchor])
  /\ k.pc \in {"merge_load", "merge_create", "merge_save"} =>
       DebtOf(k.from) = DebtOf(base[Install])

\* Between saving a merged account and removing the account of the installation,
\* the debt of the latter is in the database twice.
Twice(pc, base) == IF pc = "merge_remove" THEN DebtOf(base[Install]) ELSE 0

Owed ==
  TotalDebt - IF \E c \in Calls : call[c].pc = "merge_remove" THEN DebtOf(db[Install]) ELSE 0

OneAtATime ==
  ~overlap =>
    /\ \A c, d \in Calls : call[c].pc # "idle" /\ call[d].pc # "idle" => c = d
    /\ \A c \in Calls : Current(call[c], db)
    /\ Owed + orphaned >= charged
    /\ ~fault => Owed = charged /\ orphaned = 0

\* Saving or removing one record changes the total by what that record owes.
LEMMA TotalChange ==
  ASSUME DbOK, NEW a \in Anchors, NEW x, DebtOf(x) \in Nat, db' = [db EXCEPT ![a] = x]
  PROVE  /\ TotalDebt' = TotalDebt - DebtOf(db[a]) + DebtOf(x)
         /\ db'[a] = x /\ \A b \in Anchors \ {a} : db'[b] = db[b]
<1> DEFINE old == [b \in Anchors |-> DebtOf(db[b])]
           new == [b \in Anchors |-> DebtOf(db'[b])]
<1>1. IsFiniteSet(Anchors) /\ \A b \in Anchors : DebtOf(db[b]) \in Nat
  BY DebtsTyped DEF DbOK
<1>2. db'[a] = x /\ \A b \in Anchors \ {a} : db'[b] = db[b]
  BY DEF DbOK
<1>3. /\ \A b \in Anchors : old[b] \in Int
      /\ new[a] \in Int
      /\ \A b \in Anchors \ {a} : new[b] = old[b]
      /\ old[a] = DebtOf(db[a]) /\ new[a] = DebtOf(x)
  BY <1>1, <1>2
<1>4. TotalDebt = SumOver(old, Anchors) /\ TotalDebt' = SumOver(new, Anchors)
  BY DEF TotalDebt
<1> HIDE DEF old, new
<1> DEFINE S == Anchors
<1>5. SumOver(new, S) = SumOver(old, S) - old[a] + new[a]
  <2>1. /\ IsFiniteSet(S) /\ a \in S
        /\ \A b \in S : old[b] \in Int
        /\ new[a] \in Int
        /\ \A b \in S \ {a} : new[b] = old[b]
    BY <1>1, <1>3
  <2> HIDE DEF S
  <2> QED
    BY <2>1, SumOverUpdate
<1> QED
  BY <1>2, <1>3, <1>4, <1>5

LEMMA OwedByOne ==
  ASSUME NEW c \in Calls, \A d \in Calls \ {c} : call[d].pc = "idle"
  PROVE  Owed = TotalDebt - Twice(call[c].pc, db)
BY DEF Owed, Twice

\* One call is under way: what it does to the debts, and what it remembers.
LEMMA OneCallMoves ==
  ASSUME IInv, OneAtATime, IInv', ~overlap,
         NEW c \in Calls, \A d \in Calls \ {c} : call[d].pc = "idle",
         call' = [call EXCEPT ![c] = call'[c]], Current(call'[c], db'), fault => fault',
         NEW cost \in Nat, charged' = charged + cost, orphaned' = orphaned,
         LET before == TotalDebt - Twice(call[c].pc, db) + cost
             after  == TotalDebt' - Twice(call'[c].pc, db') IN
         after = before \/ (fault' /\ after >= before)
  PROVE  OneAtATime'
<1>2. \A d \in Calls \ {c} : call'[d] = call[d] /\ call'[d].pc = "idle"
  BY DEF IInv, CallsOK
<1>3. \A d \in Calls : Current(call'[d], db')
  BY <1>2 DEF Current
<1>4. Owed = TotalDebt - Twice(call[c].pc, db)
  BY OwedByOne
<1>5. Owed' = TotalDebt' - Twice(call'[c].pc, db')
  BY <1>2 DEF Owed, Twice
<1>6. Owed \in Int /\ Owed' \in Int /\ charged \in Nat /\ orphaned \in Nat
  <2>1. Install \in Anchors
    BY DEF Anchors
  <2>2. TotalDebt \in Nat /\ DebtOf(db[Install]) \in Nat
    BY <2>1, DebtsTyped DEF IInv, DbOK, TotalDebt
  <2>3. TotalDebt' \in Nat /\ DebtOf(db'[Install]) \in Nat
    BY <2>1, DebtsTyped DEF IInv, DbOK, TotalDebt
  <2> QED
    BY <1>4, <1>5, <2>2, <2>3 DEF IInv, RestOK, Twice
<1>7. Owed' = Owed + cost \/ (fault' /\ Owed' >= Owed + cost)
  BY <1>4, <1>5, <1>6
<1>8. Owed + orphaned >= charged /\ (~fault => Owed = charged /\ orphaned = 0)
  BY DEF OneAtATime
<1>9. Owed' + orphaned' >= charged' /\ (~fault' => Owed' = charged' /\ orphaned' = 0)
  <2>1. charged' = charged + cost /\ orphaned' = orphaned /\ (fault => fault')
    OBVIOUS
  <2> DEFINE o == Owed
             p == Owed'
  <2>2. o \in Int /\ p \in Int /\ o + orphaned >= charged /\ (~fault => o = charged /\ orphaned = 0)
        /\ (p = o + cost \/ (fault' /\ p >= o + cost))
    BY <1>6, <1>7, <1>8
  <2> HIDE DEF o, p
  <2>3. p + orphaned' >= charged' /\ (~fault' => p = charged' /\ orphaned' = 0)
    BY <1>6, <2>1, <2>2
  <2> QED
    BY <2>3 DEF p
<1> QED
  BY <1>2, <1>3, <1>9 DEF OneAtATime

\* A step that leaves the database alone, of a call that is not removing.
LEMMA QuietMove ==
  ASSUME IInv, OneAtATime, IInv', ~overlap,
         NEW c \in Calls, \A d \in Calls \ {c} : call[d].pc = "idle",
         call' = [call EXCEPT ![c] = call'[c]], Current(call'[c], db), fault => fault',
         UNCHANGED <<db, charged, orphaned>>,
         call[c].pc # "merge_remove", call'[c].pc # "merge_remove"
  PROVE  OneAtATime'
<1>1. /\ TotalDebt' = TotalDebt /\ db' = db /\ charged' = charged
      /\ orphaned' = orphaned
      /\ Twice(call[c].pc, db) = 0 /\ Twice(call'[c].pc, db') = 0
  BY DEF TotalDebt, Twice
<1>2. TotalDebt \in Nat /\ charged \in Nat
  BY DebtsTyped DEF IInv, DbOK, TotalDebt, RestOK
<1>3. charged' = charged + 0 /\ 0 \in Nat
      /\ TotalDebt' - Twice(call'[c].pc, db') = TotalDebt - Twice(call[c].pc, db) + 0
  BY <1>1, <1>2
<1> QED
  BY <1>1, <1>3, OneCallMoves

LEMMA GoesOn ==
  ASSUME CallsOK, NEW c \in Calls, NEW a, NEW plan, GoOn(c, a, plan)
  PROVE  /\ call' = [call EXCEPT ![c] = call'[c]]
         /\ call'[c].pc \in {"idle", "load", "look", "dismiss_load"}
         /\ \A base : Current(call'[c], base)
<1>1. call' = [call EXCEPT ![c] = call'[c]]
  BY DEF GoOn, CallsOK
<1>2. call'[c].pc \in {"idle", "load", "look", "dismiss_load"}
  <2>1. CASE plan = <<>>
    <3>1. call'[c] = Idle
      BY <2>1 DEF GoOn, CallsOK
    <3> QED
      BY <3>1 DEF Idle
  <2>2. CASE plan # <<>>
    <3>1. call'[c] = [Idle EXCEPT !.pc = Begin(plan), !.plan = plan, !.anchor = a,
                                  !.bytes = call[c].bytes]
      BY <2>2 DEF GoOn, CallsOK
    <3> QED
      BY <3>1 DEF Idle, Begin
  <2> QED
    BY <2>1, <2>2
<1> QED
  BY <1>1, <1>2 DEF Current

\* The debt of a record that may be saved, and of what the database has.
LEMMA DebtFacts ==
  ASSUME IInv, NEW c \in Calls
  PROVE  /\ call[c].anchor \in Anchors /\ Install \in Anchors
         /\ \A x \in Account : DebtOf(x) = x.debt /\ x.debt \in Nat
         /\ \A a \in Anchors : db[a] # None => db[a] \in Account
         /\ \A a \in Anchors : DebtOf(db[a]) \in Nat
         /\ TotalDebt \in Nat /\ charged \in Nat
         /\ DebtOf(None) = 0
         /\ \A a : Fresh(a).debt = 0
         /\ \A x \in Account, a \in Anchors : Ensured(x, a).debt = x.debt
<1>1. call[c].anchor \in Anchors /\ Install \in Anchors
  BY DEF IInv, CallsOK, GoodCall, Call, Anchors
<1>2. \A x \in Account : x # None /\ x.debt \in Nat
  BY NoneAssumption DEF Account
<1>3. \A a \in Anchors : db[a] # None => db[a] \in Account
  BY DEF IInv, DbOK
<1>4. \A x \in Account, a \in Anchors : Ensured(x, a).debt = x.debt
  BY DEF Ensured, Account
<1>5. \A a : Fresh(a).debt = 0
  BY DEF Fresh
<1>6. charged \in Nat /\ db \in [Anchors -> Account \cup {None}]
  BY DEF IInv, RestOK, DbOK
<1>7. (\A a \in Anchors : DebtOf(db[a]) \in Nat) /\ TotalDebt \in Nat
  BY <1>6, DebtsTyped DEF TotalDebt
<1>8. DebtOf(None) = 0 /\ \A x \in Account : DebtOf(x) = x.debt
  BY <1>2 DEF DebtOf
<1> QED
  BY <1>1, <1>2, <1>3, <1>4, <1>5, <1>6, <1>7, <1>8

\* The steps that leave the database alone.
LEMMA ReadingStep ==
  ASSUME IInv, OneAtATime, IInv', ~overlap, ~overlap', NEW c \in Calls,
         \/ Start(c) \/ Identify(c) \/ MergeGet(c) \/ MergeLoad(c) \/ Promote(c)
         \/ PromoteWrite(c) \/ Load(c) \/ Look(c) \/ DismissLoad(c) \/ DismissSave(c)
         \/ DismissWrite(c) \/ LedgerFails(c)
  PROVE  OneAtATime'
<1>1. CallsOK /\ DOMAIN call = Calls /\ UNCHANGED <<db, charged, orphaned>> /\ (fault => fault')
  <2>1. CallsOK /\ DOMAIN call = Calls
    BY DEF IInv, CallsOK
  <2>2. UNCHANGED <<db, charged, orphaned>>
    BY DEF Start, Identify, MergeGet, MergeLoad, Promote, PromoteWrite, Cut, Load, Look,
           DismissLoad, DismissSave, DismissWrite, LedgerFails
  <2>3. fault' = fault \/ fault' = TRUE
    BY DEF Start, Identify, MergeGet, MergeLoad, Promote, PromoteWrite, Cut, Load, Look,
           DismissLoad, DismissSave, DismissWrite, LedgerFails
  <2> QED
    BY <2>1, <2>2, <2>3
<1>2. \A d \in Calls \ {c} : call[d].pc = "idle"
  <2>1. CASE Start(c)
    BY <2>1 DEF Start
  <2>2. CASE ~ Start(c)
    <3>1. call[c].pc # "idle"
      BY <2>2 DEF Identify, MergeGet, MergeLoad, Promote, PromoteWrite, Cut, Load, Look,
                  DismissLoad, DismissSave, DismissWrite, LedgerFails
    <3> QED
      BY <3>1 DEF OneAtATime
  <2> QED
    BY <2>1, <2>2
<1>3. Current(call[c], db)
  BY DEF OneAtATime
<1>4. call[c].pc # "merge_remove"
  BY DEF Start, Identify, MergeGet, MergeLoad, Promote, PromoteWrite, Cut, Load, Look,
         DismissLoad, DismissSave, DismissWrite, LedgerFails
<1>5. SUFFICES /\ call' = [call EXCEPT ![c] = call'[c]]
               /\ call'[c].pc # "merge_remove" /\ Current(call'[c], db)
  BY <1>1, <1>2, <1>4, QuietMove
<1>6. ASSUME NEW a, NEW plan, GoOn(c, a, plan)
      PROVE  /\ call' = [call EXCEPT ![c] = call'[c]]
             /\ call'[c].pc # "merge_remove" /\ Current(call'[c], db)
  BY <1>1, <1>6, GoesOn
<1>7. CASE Start(c)
  <2>1. PICK plan \in Plans, bytes \in Sizes :
          call' = [call EXCEPT ![c] = [Idle EXCEPT !.pc = "identify", !.plan = plan,
                     !.copy = local, !.bytes = IF plan = <<"usage">> THEN bytes ELSE 0]]
    BY <1>7 DEF Start
  <2>2. call'[c].pc = "identify"
    BY <1>1, <2>1 DEF Idle
  <2> QED
    BY <1>1, <2>1, <2>2 DEF Current
<1>8. CASE Identify(c)
  <2>1. CASE call' = [call EXCEPT ![c] = Idle]
    BY <1>1, <2>1 DEF Current, Idle
  <2>2. CASE call' = [call EXCEPT ![c].pc = "merge_get", ![c].anchor = user]
    <3>1. call' = [call EXCEPT ![c] = call'[c]] /\ call'[c].pc = "merge_get"
      <4>1. call[c] \in Call
        BY <1>1 DEF CallsOK, GoodCall
      <4>2. call' = [call EXCEPT ![c] = [call[c] EXCEPT !.pc = "merge_get", !.anchor = user]]
        BY <1>1, <2>2
      <4> QED
        BY <1>1, <4>1, <4>2 DEF Call
    <3> QED
      BY <3>1 DEF Current
  <2> QED
    BY <1>6, <1>8, <2>1, <2>2 DEF Identify
<1>9. CASE MergeGet(c)
  <2>1. call[c] \in Call
    BY <1>1 DEF CallsOK, GoodCall
  <2>2. call' = [call EXCEPT ![c] = [call[c] EXCEPT !.pc = "merge_load", !.from = db[Install]]]
    BY <1>1, <1>9 DEF MergeGet
  <2>3. call' = [call EXCEPT ![c] = call'[c]] /\ call'[c].pc = "merge_load"
        /\ call'[c].from = db[Install]
    BY <1>1, <2>1, <2>2 DEF Call
  <2> QED
    BY <2>3 DEF Current
<1>10. CASE MergeLoad(c)
  <2> DEFINE a == call[c].anchor
  <2>1. call[c] \in Call /\ call[c].pc = "merge_load" /\ DebtOf(call[c].from) = DebtOf(db[Install])
    BY <1>1, <1>3, <1>10 DEF CallsOK, GoodCall, MergeLoad, Current
  <2>2. CASE db[a] = None
    <3>1. call' = [call EXCEPT ![c] = [call[c] EXCEPT !.pc = "merge_create", !.account = Fresh(a)]]
      BY <1>10, <2>2 DEF MergeLoad
    <3>2. call' = [call EXCEPT ![c] = call'[c]] /\ call'[c].pc = "merge_create"
          /\ call'[c].account = Fresh(a) /\ call'[c].from = call[c].from /\ call'[c].anchor = a
      BY <1>1, <2>1, <3>1 DEF Call
    <3> QED
      BY <2>1, <2>2, <3>2, DebtFacts DEF Current
  <2>3. CASE db[a] # None
    <3> DEFINE k == [call[c] EXCEPT !.pc = AfterMergeLoad(call[c].from),
                       !.account = IF call[c].from = None THEN None ELSE Ensured(db[a], a)]
    <3>1. call' = [call EXCEPT ![c] = k]
      BY <1>10, <2>3 DEF MergeLoad
    <3>2. call' = [call EXCEPT ![c] = call'[c]] /\ call'[c] = k
      BY <1>1, <3>1
    <3>3. CASE call[c].from = None
      <4>1. k.pc = "promote"
        BY <2>1, <3>3 DEF AfterMergeLoad, Call
      <4> QED
        BY <3>2, <4>1 DEF Current
    <3>4. CASE call[c].from # None
      <4>1. k.pc = "merge_save" /\ k.account = Ensured(db[a], a) /\ k.from = call[c].from
            /\ k.anchor = a
        BY <2>1, <3>4 DEF AfterMergeLoad, Call
      <4>2. Ensured(db[a], a).debt = DebtOf(db[a])
        BY <2>3, DebtFacts
      <4> HIDE DEF k
      <4> QED
        BY <2>1, <3>2, <4>1, <4>2 DEF Current
    <3> QED
      BY <3>3, <3>4
  <2> QED
    BY <2>2, <2>3
<1>11. CASE Promote(c) \/ DismissSave(c)
  <2>1. call[c] \in Call
    BY <1>1 DEF CallsOK, GoodCall
  <2>2. PICK pc \in {"promote_write", "dismiss_write"} :
          call' = [call EXCEPT ![c] = [call[c] EXCEPT !.pc = pc]]
    BY <1>1, <1>11 DEF Promote, DismissSave, Cut
  <2>3. call' = [call EXCEPT ![c] = call'[c]] /\ call'[c].pc \in {"promote_write", "dismiss_write"}
    BY <1>1, <2>1, <2>2 DEF Call
  <2> QED
    BY <2>3 DEF Current
<1>12. CASE Load(c)
  <2> DEFINE a == call[c].anchor
  <2>1. call[c] \in Call
    BY <1>1 DEF CallsOK, GoodCall
  <2>2. CASE db[a] = None
    <3>1. call' = [call EXCEPT ![c] = [call[c] EXCEPT !.pc = "create", !.account = Fresh(a)]]
      BY <1>12, <2>2 DEF Load
    <3>2. call' = [call EXCEPT ![c] = call'[c]] /\ call'[c].pc = "create"
          /\ call'[c].account = Fresh(a) /\ call'[c].anchor = a
      BY <1>1, <2>1, <3>1 DEF Call
    <3> QED
      BY <2>1, <2>2, <3>2, DebtFacts DEF Current
  <2>3. CASE db[a] # None
    <3>1. call' = [call EXCEPT ![c] = [call[c] EXCEPT !.pc = "save", !.account = Ensured(db[a], a)]]
      BY <1>12, <2>3 DEF Load
    <3>2. call' = [call EXCEPT ![c] = call'[c]] /\ call'[c].pc = "save"
          /\ call'[c].account = Ensured(db[a], a) /\ call'[c].anchor = a
      BY <1>1, <2>1, <3>1 DEF Call
    <3>3. Ensured(db[a], a).debt = DebtOf(db[a])
      BY <2>3, DebtFacts
    <3> QED
      BY <3>2, <3>3 DEF Current
  <2> QED
    BY <2>2, <2>3
<1>13. CASE Look(c)
  BY <1>6, <1>13 DEF Look
<1>14. CASE DismissLoad(c)
  <2>1. call[c] \in Call
    BY <1>1 DEF CallsOK, GoodCall
  <2>2. CASE file = "whole"
    <3>1. call' = [call EXCEPT ![c] = [call[c] EXCEPT !.pc = "dismiss_save", !.copy = local]]
      BY <1>1, <1>14, <2>2 DEF DismissLoad
    <3>2. call' = [call EXCEPT ![c] = call'[c]] /\ call'[c].pc = "dismiss_save"
      BY <1>1, <2>1, <3>1 DEF Call
    <3> QED
      BY <3>2 DEF Current
  <2>3. CASE file # "whole"
    BY <1>1, <1>14, <2>3 DEF DismissLoad, Current, Idle
  <2> QED
    BY <2>2, <2>3
<1>15. CASE PromoteWrite(c) \/ DismissWrite(c)
  BY <1>6, <1>15 DEF PromoteWrite, DismissWrite
<1>16. CASE LedgerFails(c)
  BY <1>1, <1>16 DEF LedgerFails, Current, Idle
<1> QED
  BY <1>7, <1>8, <1>9, <1>10, <1>11, <1>12, <1>13, <1>14, <1>15, <1>16

\* A record is saved: the total grows by what it owes more than its predecessor.
LEMMA SaveOne ==
  ASSUME IInv, OneAtATime, IInv', ~overlap, NEW c \in Calls, call[c].pc # "idle",
         call[c].pc # "merge_remove", call'[c].pc # "merge_remove",
         call' = [call EXCEPT ![c] = call'[c]], Current(call'[c], db'), fault => fault',
         NEW x \in Account, NEW cost \in Nat, x.debt = DebtOf(db[call[c].anchor]) + cost,
         db' = [db EXCEPT ![call[c].anchor] = x], charged' = charged + cost,
         orphaned' = orphaned
  PROVE  OneAtATime'
<1> DEFINE a == call[c].anchor
<1>1. a \in Anchors /\ DebtOf(x) = x.debt /\ x.debt \in Nat
      /\ DebtOf(db[a]) \in Nat /\ TotalDebt \in Nat
  BY DebtFacts
<1>2. TotalDebt' = TotalDebt - DebtOf(db[a]) + DebtOf(x)
  <2>1. DbOK /\ DebtOf(x) \in Nat /\ db' = [db EXCEPT ![a] = x]
    BY <1>1 DEF IInv
  <2> HIDE DEF a
  <2> QED
    BY <1>1, <2>1, TotalChange
<1>3. Twice(call[c].pc, db) = 0 /\ Twice(call'[c].pc, db') = 0
  BY DEF Twice
<1>4. TotalDebt' - Twice(call'[c].pc, db') = TotalDebt - Twice(call[c].pc, db) + cost
  <2> HIDE DEF a
  <2> QED
    BY <1>1, <1>2, <1>3 DEF a
<1>5. \A d \in Calls \ {c} : call[d].pc = "idle"
  BY DEF OneAtATime
<1> QED
  BY <1>4, <1>5, OneCallMoves

\* The steps that save a record.
LEMMA SavingStep ==
  ASSUME IInv, OneAtATime, IInv', ~overlap, NEW c \in Calls,
         MergeCreate(c) \/ Create(c) \/ SaveUnchanged(c) \/ SaveUsage(c) \/ SaveTrial(c)
  PROVE  OneAtATime'
<1> DEFINE a == call[c].anchor
           x == call[c].account
<1>1. /\ call[c].pc \in {"create", "save", "merge_create"}
      /\ CallsOK /\ DOMAIN call = Calls /\ call[c] \in Call /\ call[c].bytes \in Nat
      /\ x \in Account /\ x.debt = DebtOf(db[a]) /\ DebtOf(x) = x.debt /\ x.debt \in Nat
      /\ Current(call[c], db)
  <2>1. call[c].pc \in {"create", "save", "merge_create"}
    BY DEF MergeCreate, Create, SaveUnchanged, SaveUsage, SaveTrial
  <2>2. CallsOK /\ DOMAIN call = Calls /\ GoodCall(call[c]) /\ Current(call[c], db)
    BY DEF IInv, CallsOK, OneAtATime
  <2>3. x \in Account /\ x.debt = DebtOf(db[a])
    BY <2>1, <2>2 DEF GoodCall, Ready, Current
  <2> QED
    BY <2>1, <2>2, <2>3, DebtFacts DEF GoodCall, Call
<1>2. a \in Anchors /\ Install \in Anchors /\ DebtOf(db[a]) \in Nat /\ charged \in Nat
  BY DebtFacts
<1>3. call[c].pc # "merge_remove" /\ call[c].pc # "idle" /\ 0 \in Nat
      /\ x.debt = DebtOf(db[a]) + 0 /\ charged = charged + 0
  BY <1>1, <1>2
<1>4. CASE MergeCreate(c)
  <2> DEFINE k == [call[c] EXCEPT !.pc = AfterMergeLoad(call[c].from),
                                  !.account = IF call[c].from = None THEN None ELSE @]
  <2>1. /\ call[c].pc = "merge_create" /\ call' = [call EXCEPT ![c] = k]
        /\ db' = [db EXCEPT ![a] = x] /\ UNCHANGED <<charged, orphaned, fault>>
    BY <1>1, <1>4 DEF MergeCreate
  <2>2. call' = [call EXCEPT ![c] = call'[c]] /\ call'[c] = k
    BY <1>1, <2>1
  <2>3. a # Install
    BY <1>1, <2>1 DEF CallsOK, GoodCall, Ready
  <2>4. db'[a] = x /\ db'[Install] = db[Install]
    BY <1>2, <2>1, <2>3 DEF IInv, DbOK
  <2>5. Current(k, db') /\ k.pc # "merge_remove"
    <3>1. CASE call[c].from = None
      <4>1. k.pc = "promote"
        BY <1>1, <3>1 DEF AfterMergeLoad, Call
      <4> QED
        BY <4>1 DEF Current
    <3>2. CASE call[c].from # None
      <4>1. k.pc = "merge_save" /\ k.account = x /\ k.from = call[c].from /\ k.anchor = a
        BY <1>1, <3>2 DEF AfterMergeLoad, Call
      <4>2. DebtOf(call[c].from) = DebtOf(db[Install])
        BY <1>1, <2>1 DEF Current
      <4> HIDE DEF k
      <4> QED
        BY <1>1, <2>4, <4>1, <4>2 DEF Current
    <3> QED
      BY <3>1, <3>2
  <2> HIDE DEF k
  <2> QED
    BY <1>1, <1>3, <2>1, <2>2, <2>5, SaveOne
<1>5. CASE Create(c)
  <2>1. /\ call[c].pc = "create" /\ call' = [call EXCEPT ![c] = [call[c] EXCEPT !.pc = "save"]]
        /\ db' = [db EXCEPT ![a] = x] /\ UNCHANGED <<charged, orphaned, fault>>
    BY <1>1, <1>5 DEF Create
  <2>2. /\ call' = [call EXCEPT ![c] = call'[c]] /\ call'[c].pc = "save"
        /\ call'[c].account = x /\ call'[c].anchor = a
    BY <1>1, <2>1 DEF Call
  <2>3. db'[a] = x
    BY <1>2, <2>1 DEF IInv, DbOK
  <2>4. Current(call'[c], db') /\ call'[c].pc # "merge_remove"
    BY <1>1, <2>2, <2>3 DEF Current
  <2> QED
    BY <1>1, <1>3, <2>1, <2>2, <2>4, SaveOne
<1>6. ASSUME NEW plan, GoOn(c, a, plan)
      PROVE  /\ call' = [call EXCEPT ![c] = call'[c]]
             /\ call'[c].pc # "merge_remove" /\ \A base : Current(call'[c], base)
  BY <1>1, <1>6, GoesOn
<1>7. CASE SaveUnchanged(c)
  <2>1. GoOn(c, a, Tail(call[c].plan)) /\ UNCHANGED <<charged, orphaned, fault, overlap>>
    BY <1>7 DEF SaveUnchanged
  <2>2. /\ call' = [call EXCEPT ![c] = call'[c]] /\ call'[c].pc # "merge_remove"
        /\ Current(call'[c], db') /\ Current(call'[c], db)
    BY <1>6, <2>1
  <2>3. CASE db' = [db EXCEPT ![a] = x]
    BY <1>1, <1>3, <2>1, <2>2, <2>3, SaveOne
  <2>4. CASE UNCHANGED db
    <3>1. \A d \in Calls \ {c} : call[d].pc = "idle"
      BY <1>3 DEF OneAtATime
    <3> QED
      BY <1>3, <2>1, <2>2, <2>4, <3>1, QuietMove
  <2> QED
    BY <1>7, <2>3, <2>4 DEF SaveUnchanged
<1>8. CASE SaveUsage(c)
  <2> DEFINE cost == Cost(call[c].bytes)
             y == Charged(x, call[c].bytes)
  <2>1. /\ GoOn(c, a, Tail(call[c].plan)) /\ UNCHANGED <<orphaned, fault, overlap>>
        /\ db' = [db EXCEPT ![a] = y] /\ charged' = charged + cost
    BY <1>8 DEF SaveUsage
  <2>2. /\ call' = [call EXCEPT ![c] = call'[c]] /\ call'[c].pc # "merge_remove"
        /\ Current(call'[c], db')
    BY <1>6, <2>1
  <2>3. cost \in Nat
    BY <1>1, CostCovers
  <2>4. y \in Account /\ y.debt = DebtOf(db[a]) + cost
    <3>1. y.debt = x.debt + cost
      BY <1>1 DEF Charged, Account
    <3>2. y \in Account
      <4>1. Good(x, a)
        <5>1. call[c].pc = "save"
          BY <1>8 DEF SaveUsage
        <5> QED
          BY <1>1, <5>1 DEF CallsOK, GoodCall
      <4> QED
        BY <1>1, <1>2, <4>1, ChargedGood DEF Good
    <3> QED
      BY <1>1, <3>1, <3>2
  <2> HIDE DEF cost, y
  <2> QED
    BY <1>1, <1>3, <2>1, <2>2, <2>3, <2>4, SaveOne
<1>9. CASE SaveTrial(c)
  <2>1. /\ GoOn(c, a, Tail(call[c].plan)) /\ UNCHANGED <<charged, orphaned, fault, overlap>>
        /\ db' = [db EXCEPT ![a] = Accepted(x)]
    BY <1>9 DEF SaveTrial
  <2>2. /\ call' = [call EXCEPT ![c] = call'[c]] /\ call'[c].pc # "merge_remove"
        /\ Current(call'[c], db')
    BY <1>6, <2>1
  <2>3. Accepted(x) \in Account /\ Accepted(x).debt = x.debt
    BY <1>1 DEF Accepted, Account
  <2> QED
    BY <1>1, <1>3, <2>1, <2>2, <2>3, SaveOne
<1> QED
  BY <1>4, <1>5, <1>7, <1>8, <1>9

\* The steps around the moment when a debt is saved twice.
LEMMA MergingStep ==
  ASSUME IInv, OneAtATime, IInv', ~overlap, NEW c \in Calls,
         MergeSave(c) \/ MergeRemove(c) \/ MergeFails(c)
  PROVE  OneAtATime'
<1> DEFINE a == call[c].anchor
<1>1. /\ call[c].pc \in {"merge_get", "merge_load", "merge_create", "merge_save", "merge_remove"}
      /\ CallsOK /\ DOMAIN call = Calls /\ call[c] \in Call /\ GoodCall(call[c])
      /\ Current(call[c], db) /\ charged \in Nat /\ 0 \in Nat
  <2>1. call[c].pc \in {"merge_get", "merge_load", "merge_create", "merge_save", "merge_remove"}
    BY DEF MergeSave, MergeRemove, MergeFails
  <2> QED
    BY <2>1, DebtFacts DEF IInv, CallsOK, OneAtATime, GoodCall
<1>2. /\ a \in Anchors /\ Install \in Anchors /\ a # Install
      /\ DebtOf(db[a]) \in Nat /\ DebtOf(db[Install]) \in Nat /\ TotalDebt \in Nat
  BY <1>1, DebtFacts DEF GoodCall, Ready
<1>3. \A d \in Calls \ {c} : call[d].pc = "idle"
  BY <1>1 DEF OneAtATime
<1>4. CASE MergeSave(c)
  <2> DEFINE x == Merged(call[c].account, call[c].from)
  <2>1. /\ call[c].pc = "merge_save" /\ db' = [db EXCEPT ![a] = x]
        /\ call' = [call EXCEPT ![c] =
                      [call[c] EXCEPT !.pc = "merge_remove", !.account = None, !.from = None]]
        /\ UNCHANGED <<charged, orphaned, fault>>
    BY <1>1, <1>4 DEF MergeSave
  <2>2. call' = [call EXCEPT ![c] = call'[c]] /\ call'[c].pc = "merge_remove"
    BY <1>1, <2>1 DEF Call
  <2>3. call[c].account \in Account /\ call[c].from \in Account
    BY <1>1, <2>1 DEF GoodCall, Ready
  <2>4. x \in Account /\ x.debt = call[c].account.debt + call[c].from.debt
    <3>1. x.debt = call[c].account.debt + call[c].from.debt
      BY <2>3 DEF Merged, Account
    <3>2. Good(call[c].account, a) /\ Good(call[c].from, Install) /\ a \in Users
      BY <1>1, <1>2, <2>1 DEF GoodCall, Anchors
    <3> QED
      BY <3>1, <3>2, MergedGood DEF Good
  <2>5. /\ call[c].account.debt = DebtOf(db[a])
        /\ call[c].from.debt = DebtOf(db[Install])
    BY <1>1, <2>1, <2>3, DebtFacts DEF Current
  <2> HIDE DEF x
  <2>6. DebtOf(x) = DebtOf(db[a]) + DebtOf(db[Install]) /\ DebtOf(x) \in Nat
    BY <1>2, <2>4, <2>5, DebtFacts
  <2>7. /\ TotalDebt' = TotalDebt - DebtOf(db[a]) + DebtOf(x)
        /\ db'[Install] = db[Install]
    BY <1>2, <2>1, <2>6, TotalChange DEF IInv
  <2>8. /\ Twice(call[c].pc, db) = 0
        /\ Twice(call'[c].pc, db') = DebtOf(db[Install])
    BY <2>1, <2>2, <2>7 DEF Twice
  <2>9. TotalDebt' - Twice(call'[c].pc, db') = TotalDebt - Twice(call[c].pc, db) + 0
    <3> DEFINE u == DebtOf(db[a])
               v == DebtOf(db[Install])
    <3>1. u \in Nat /\ v \in Nat /\ TotalDebt \in Nat /\ TotalDebt' = TotalDebt - u + (u + v)
      BY <1>2, <2>6, <2>7
    <3>2. Twice(call'[c].pc, db') = v
      BY <2>8
    <3> HIDE DEF u, v
    <3> QED
      BY <2>8, <3>1, <3>2
  <2>10. Current(call'[c], db') /\ charged' = charged + 0
    BY <1>1, <2>1, <2>2 DEF Current
  <2> QED
    BY <1>1, <1>3, <2>1, <2>2, <2>9, <2>10, OneCallMoves
<1>5. CASE MergeRemove(c)
  <2>1. /\ call[c].pc = "merge_remove" /\ db' = [db EXCEPT ![Install] = None]
        /\ call' = [call EXCEPT ![c] = [call[c] EXCEPT !.pc = "promote"]]
        /\ UNCHANGED <<charged, orphaned, fault>>
    BY <1>1, <1>5 DEF MergeRemove
  <2>2. call' = [call EXCEPT ![c] = call'[c]] /\ call'[c].pc = "promote"
    BY <1>1, <2>1 DEF Call
  <2>3. DebtOf(None) = 0
    BY DebtFacts
  <2>4. TotalDebt' = TotalDebt - DebtOf(db[Install]) + 0
    <3>1. DbOK /\ DebtOf(None) \in Nat
      BY <2>3 DEF IInv
    <3>2. TotalDebt' = TotalDebt - DebtOf(db[Install]) + DebtOf(None)
      BY <1>2, <2>1, <3>1, TotalChange
    <3> QED
      BY <2>3, <3>2
  <2>5. Twice(call[c].pc, db) = DebtOf(db[Install]) /\ Twice(call'[c].pc, db') = 0
    BY <2>1, <2>2 DEF Twice
  <2>6. TotalDebt' - Twice(call'[c].pc, db') = TotalDebt - Twice(call[c].pc, db) + 0
    BY <1>2, <2>4, <2>5
  <2>7. Current(call'[c], db') /\ charged' = charged + 0
    BY <1>1, <2>1, <2>2 DEF Current
  <2> QED
    BY <1>1, <1>3, <2>1, <2>2, <2>6, <2>7, OneCallMoves
<1>6. CASE MergeFails(c)
  <2>1. /\ UNCHANGED <<db, charged, orphaned>> /\ fault' = TRUE
        /\ call' = [call EXCEPT ![c] =
                      [call[c] EXCEPT !.pc = "promote", !.account = None, !.from = None]]
    BY <1>1, <1>6 DEF MergeFails
  <2>2. call' = [call EXCEPT ![c] = call'[c]] /\ call'[c].pc = "promote"
    BY <1>1, <2>1 DEF Call
  <2>3. TotalDebt' = TotalDebt /\ Twice(call'[c].pc, db') = 0 /\ Twice(call[c].pc, db) \in Nat
    BY <1>2, <2>1, <2>2 DEF TotalDebt, Twice
  <2>4. TotalDebt' - Twice(call'[c].pc, db') >= TotalDebt - Twice(call[c].pc, db) + 0
    BY <1>2, <2>3
  <2>5. Current(call'[c], db') /\ charged' = charged + 0
    BY <1>1, <2>1, <2>2 DEF Current
  <2> QED
    BY <1>1, <1>3, <2>1, <2>2, <2>4, <2>5, OneCallMoves
<1> QED
  BY <1>4, <1>5, <1>6

LEMMA NoDebts ==
  ASSUME db' = [a \in Anchors |-> None]
  PROVE  TotalDebt' = 0
<1> DEFINE debts == [a \in Anchors |-> DebtOf(db'[a])]
<1>1. \A a \in Anchors : debts[a] = 0
  BY DEF DebtOf
<1>2. IsFiniteSet(Anchors)
  BY LedgerAssumption, FS_AddElement, Anchors = Users \cup {Install} DEF Anchors
<1>3. TotalDebt' = SumOver(debts, Anchors)
  BY DEF TotalDebt
<1> HIDE DEF debts
<1> QED
  BY <1>1, <1>2, <1>3, SumOverZero

LEMMA OnceStep == IInv /\ OneAtATime /\ IInv' /\ [Next]_vars => OneAtATime'
<1> SUFFICES ASSUME IInv, OneAtATime, IInv', [Next]_vars, ~overlap' PROVE OneAtATime'
  BY DEF OneAtATime
<1>1. ~overlap
  BY DEF Next, CallStep, vars, Start, Identify, MergeGet, MergeLoad, MergeCreate, MergeSave,
         MergeRemove, MergeFails, Promote, PromoteWrite, Cut, Load, Create, SaveUnchanged, SaveUsage,
         SaveTrial, Look, DismissLoad, DismissSave, DismissWrite, LedgerFails, ChangeUser,
         Crash
<1>2. CASE \E c \in Calls : CallStep(c)
  BY <1>1, <1>2, ReadingStep, SavingStep, MergingStep DEF CallStep
<1>3. CASE ChangeUser \/ UNCHANGED vars
  BY <1>3 DEF ChangeUser, vars, OneAtATime, Current, Owed, TotalDebt
<1>4. CASE Crash
  <2>1. /\ \A c \in Calls : call'[c] = Idle
        /\ UNCHANGED charged /\ fault' = TRUE
    BY <1>4 DEF Crash
  <2>2. \A c \in Calls : call'[c].pc = "idle" /\ Current(call'[c], db')
    BY <2>1 DEF Idle, Current
  <2>3. /\ TotalDebt \in Nat /\ TotalDebt' \in Nat
        /\ charged \in Nat /\ orphaned \in Nat /\ DebtOf(db[Install]) \in Nat
    BY DebtsTyped DEF IInv, DbOK, RestOK, TotalDebt, Anchors
  <2>4. Owed' = TotalDebt' /\ Owed <= TotalDebt /\ Owed \in Int
    <3> DEFINE t == TotalDebt'
    <3>1. Owed' = t - 0 /\ t \in Nat
      BY <2>2, <2>3 DEF Owed
    <3> HIDE DEF t
    <3>2. Owed' = t
      BY <3>1
    <3>3. Owed <= TotalDebt /\ Owed \in Int
      BY <2>3 DEF Owed
    <3> QED
      BY <3>2, <3>3 DEF t
  <2>5. Owed + orphaned >= charged
    BY <1>1 DEF OneAtATime
  <2>6. TotalDebt' + orphaned' = TotalDebt + orphaned
    <3>1. CASE UNCHANGED <<db, local, file, orphaned>>
      BY <3>1 DEF TotalDebt
    <3>2. CASE /\ db' = [a \in Anchors |-> None]
               /\ orphaned' = orphaned + TotalDebt
      <4>1. TotalDebt' = 0
        BY <3>2, NoDebts
      <4> QED
        BY <2>3, <3>2, <4>1
    <3> QED
      BY <1>4, <3>1, <3>2 DEF Crash, EnsureLocalState
  <2>7. Owed' + orphaned' >= charged'
    <3>1. TotalDebt + orphaned >= charged
      BY <2>3, <2>4, <2>5
    <3>2. Owed' + orphaned' = TotalDebt + orphaned
      BY <2>4, <2>6
    <3> QED
      BY <2>1, <3>1, <3>2
  <2> QED
    BY <2>1, <2>2, <2>7 DEF OneAtATime
<1> QED
  BY <1>2, <1>3, <1>4 DEF Next

LEMMA OnceBegins == Init => OneAtATime
<1> SUFFICES ASSUME Init PROVE OneAtATime
  OBVIOUS
<1>1. \A c \in Calls : call[c].pc = "idle" /\ Current(call[c], db)
  BY DEF Init, Idle, Current
<1> DEFINE debts == [a \in Anchors |-> DebtOf(db[a])]
<1>2. \A a \in Anchors : debts[a] = 0
  BY DEF Init, DebtOf
<1>3. IsFiniteSet(Anchors)
  BY LedgerAssumption, FS_AddElement, Anchors = Users \cup {Install} DEF Anchors
<1>4. TotalDebt = SumOver(debts, Anchors)
  BY DEF TotalDebt
<1> HIDE DEF debts
<1>5. TotalDebt = 0
  BY <1>2, <1>3, <1>4, SumOverZero
<1>6. Owed = 0
  BY <1>1, <1>5 DEF Owed
<1> QED
  BY <1>1, <1>6 DEF Init, OneAtATime

\* As long as calls come one at a time, every session that was recorded is owed
\* under an anchor that is still computed, or was owed when a killed save of the
\* state file gave the installation a new identity; and as long as nothing fails,
\* each is owed exactly once, however users come and go.
THEOREM SessionsCounted == Spec => []DebtCountedOnce
<1>1. IInv /\ OneAtATime => DebtCountedOnce
  <2> SUFFICES ASSUME IInv, OneAtATime, ~overlap
               PROVE  /\ TotalDebt + orphaned >= charged
                      /\ ~fault /\ (\A c \in Calls : call[c].pc = "idle") => TotalDebt = charged
    BY DEF DebtCountedOnce
  <2>1. /\ TotalDebt \in Nat /\ charged \in Nat /\ orphaned \in Nat
        /\ DebtOf(db[Install]) \in Nat
    BY DebtsTyped DEF IInv, DbOK, RestOK, TotalDebt, Anchors
  <2>2. Owed + orphaned >= charged /\ (~fault => Owed = charged)
    BY DEF OneAtATime
  <2>3. Owed <= TotalDebt /\ ((\A c \in Calls : call[c].pc = "idle") => Owed = TotalDebt)
    BY <2>1 DEF Owed
  <2>4. Owed \in Int
    BY <2>1 DEF Owed
  <2> QED
    BY <2>1, <2>2, <2>3, <2>4
<1> QED
  BY <1>1, Inductive, OnceBegins, OnceStep, PTL DEF Spec
=============================================================================
