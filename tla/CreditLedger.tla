---------------------------- MODULE CreditLedger ----------------------------
(***************************************************************************)
(* The credit accounts of one installation: CreditLedger (hydra-econ,      *)
(* credit.rs) over its sled database, and resolve_anchor_context           *)
(* (credit_runtime.rs), which picks the account of a call and merges the   *)
(* installation's account into the account of the Telegram user the first  *)
(* time that user is seen.                                                 *)
(*                                                                         *)
(* Every operation of the ledger loads a record, changes it and saves it,  *)
(* with no transaction around; calls come from the screens and from the    *)
(* connections of the proxy, on the threads of the runtime.  The model     *)
(* takes one step per access to the database or to the state file.  A      *)
(* payment is never recorded in this system, so payment_count is zero and  *)
(* the tiers are free and credit.                                          *)
(*                                                                         *)
(* The state file holds the id and the salt from which every anchor is     *)
(* computed.  It is written in place, so a save first cuts it and then      *)
(* writes it, and an app killed in between finds no state at its next      *)
(* start, makes up a new id and a new salt, and computes none of the old   *)
(* anchors again: what was recorded under them stays in the database and   *)
(* is never looked at.  The model keeps its amount in `orphaned`.          *)
(* Left out: a start of the node while calls are under way, which would    *)
(* make up a new id if it came inside a save.                              *)
(***************************************************************************)
EXTENDS Integers, Sequences, FiniteSets, Sums

CONSTANTS
  Users,         \* Telegram users, each standing for its hashed anchor
  Calls,         \* calls that may be under way at the same time
  Install,       \* the anchor of the installation
  None,          \* no user, no account
  Price,         \* price of a GB of the premium route, in micro-USDC
  Gb,            \* bytes in a GB
  TrialLimit,    \* credit limit of an installation
  LinkedLimit,   \* credit limit of a Telegram user
  Sizes,         \* sizes of a session, in bytes
  MaxCalls,      \* bound on the number of calls that come one at a time
  MaxOverlap,    \* bound on the number of calls once two have overlapped
  Faults         \* whether the app may be killed and the database may fail

ASSUME LedgerAssumption ==
  /\ IsFiniteSet(Users)
  /\ Install \notin Users /\ None \notin Users \cup {Install}
  /\ Price \in Nat \ {0} /\ Gb \in Nat \ {0}
  /\ TrialLimit \in Nat /\ LinkedLimit \in Nat
  /\ Sizes \subseteq Nat /\ MaxCalls \in Nat /\ MaxOverlap \in Nat
  /\ Faults \in BOOLEAN

VARIABLES
  db,       \* the account saved under each anchor
  local,    \* the file credit_state.json, as it was last written
  file,     \* what a call that reads that file now finds
  user,     \* what telegram_anchor_info answers
  call,     \* the calls under way
  started,  \* number of calls so far
  charged,  \* history: debt of all sessions recorded
  orphaned, \* history: debt under anchors that are not computed any more
  overlap,  \* history: two calls have been under way at the same time
  fault     \* history: the app was killed or the database failed

vars == <<db, local, file, user, call, started, charged, orphaned, overlap, fault>>

Anchors == {Install} \cup Users

Account == [usage : Nat, debt : Nat, limit : Nat, trial : BOOLEAN, tier : {"free", "credit"}]

ASSUME NoneAssumption == None \notin Account

\* A save in progress, or one that was killed, leaves the file cut; two saves at
\* a time may leave the end of the longer one behind the shorter one, and the
\* mixture does not parse.
Files == {"whole", "cut", "mixed"}

LocalState == [promoted : {None} \cup Users, dismissed : BOOLEAN]

\* What a call does once it knows its anchor.
Plans == { <<>>, <<"check">>, <<"check", "look", "nudge">>, <<"usage">>, <<"trial", "dismiss">> }

Steps == {"idle", "identify", "merge_get", "merge_load", "merge_create", "merge_save",
          "merge_remove", "promote", "promote_write", "load", "create", "save", "look",
          "dismiss_load", "dismiss_save", "dismiss_write"}

NewLocal == [promoted |-> None, dismissed |-> FALSE]

Idle == [pc |-> "idle", plan |-> <<>>, bytes |-> 0, anchor |-> Install, copy |-> NewLocal,
         from |-> None, account |-> None]

Larger(a, b) == IF a >= b THEN a ELSE b

-----------------------------------------------------------------------------
(* Operations on a record. *)

BaseLimit(a) == IF a = Install THEN TrialLimit ELSE LinkedLimit

Fresh(a) == [usage |-> 0, debt |-> 0, limit |-> BaseLimit(a), trial |-> FALSE, tier |-> "free"]

\* ensure_limit
Ensured(account, a) == [account EXCEPT !.limit = Larger(@, BaseLimit(a))]

\* Mutant: the cost of a session is rounded down.
CostRoundedDown(bytes) == (bytes * Price) \div Gb

\* micro_usdc_for_usage
Cost(bytes) == (bytes * Price + (Gb - 1)) \div Gb

Charged(account, bytes) ==
  [account EXCEPT !.usage = @ + bytes, !.debt = @ + Cost(bytes)]

Accepted(account) == [account EXCEPT !.trial = TRUE, !.tier = "credit"]

Merged(to, from) ==
  [to EXCEPT !.usage = @ + from.usage, !.debt = @ + from.debt,
             !.limit = Larger(@, Larger(from.limit, LinkedLimit)),
             !.trial = @ \/ from.trial, !.tier = IF from.trial THEN "credit" ELSE @]

-----------------------------------------------------------------------------
Init ==
  /\ db = [a \in Anchors |-> None]
  /\ local = NewLocal
  /\ file = "whole"
  /\ user = None
  /\ call = [c \in Calls |-> Idle]
  /\ started = 0 /\ charged = 0 /\ orphaned = 0
  /\ overlap = FALSE /\ fault = FALSE

\* The step a call takes when `plan` is what is left to do.
Begin(plan) ==
  CASE Head(plan) = "dismiss" -> "dismiss_load"
    [] Head(plan) = "look"    -> "look"
    [] OTHER                  -> "load"

\* Call c goes on with `plan` for the account of `anchor`; a call with nothing
\* left to do returns.
GoOn(c, anchor, plan) ==
  call' = [call EXCEPT ![c] = IF plan = <<>> THEN Idle
             ELSE [Idle EXCEPT !.pc = Begin(plan), !.plan = plan, !.anchor = anchor,
                               !.bytes = call[c].bytes]]

\* A call loads the state file, then asks who is logged in; a call that cannot
\* load the file fails there and then.
Start(c) ==
  /\ call[c].pc = "idle" /\ file = "whole"
  /\ overlap' = (overlap \/ \E d \in Calls \ {c} : call[d].pc # "idle")
  /\ started < IF overlap' THEN MaxOverlap ELSE MaxCalls
  /\ \E plan \in Plans, bytes \in Sizes :
       call' = [call EXCEPT ![c] = [Idle EXCEPT !.pc = "identify", !.plan = plan,
                  !.copy = local, !.bytes = IF plan = <<"usage">> THEN bytes ELSE 0]]
  /\ started' = started + 1
  /\ UNCHANGED <<db, local, file, user, charged, orphaned, fault>>

\* Telegram may not answer, and then the call fails.
Identify(c) ==
  /\ call[c].pc = "identify"
  /\ \/ call' = [call EXCEPT ![c] = Idle]
     \/ /\ user = None
        /\ GoOn(c, Install, call[c].plan)
     \/ /\ user # None /\ call[c].copy.promoted = user
        /\ GoOn(c, user, call[c].plan)
     \/ /\ user # None /\ call[c].copy.promoted # user
        /\ call' = [call EXCEPT ![c].pc = "merge_get", ![c].anchor = user]
  /\ UNCHANGED <<db, local, file, user, started, charged, orphaned, overlap, fault>>

-----------------------------------------------------------------------------
(* merge_accounts *)

MergeGet(c) ==
  /\ call[c].pc = "merge_get"
  /\ call' = [call EXCEPT ![c].pc = "merge_load", ![c].from = db[Install]]
  /\ UNCHANGED <<db, local, file, user, started, charged, orphaned, overlap, fault>>

\* With nothing to merge, the account of the user is only loaded or created.
AfterMergeLoad(from) == IF from = None THEN "promote" ELSE "merge_save"

MergeLoad(c) ==
  /\ call[c].pc = "merge_load"
  /\ LET a == call[c].anchor IN
       call' = [call EXCEPT ![c] = IF db[a] = None
         THEN [@ EXCEPT !.pc = "merge_create", !.account = Fresh(a)]
         ELSE [@ EXCEPT !.pc = AfterMergeLoad(call[c].from),
                        !.account = IF call[c].from = None THEN None ELSE Ensured(db[a], a)]]
  /\ UNCHANGED <<db, local, file, user, started, charged, orphaned, overlap, fault>>

MergeCreate(c) ==
  /\ call[c].pc = "merge_create"
  /\ db' = [db EXCEPT ![call[c].anchor] = call[c].account]
  /\ call' = [call EXCEPT ![c].pc = AfterMergeLoad(call[c].from),
                          ![c].account = IF call[c].from = None THEN None ELSE @]
  /\ UNCHANGED <<local, file, user, started, charged, orphaned, overlap, fault>>

MergeSave(c) ==
  /\ call[c].pc = "merge_save"
  /\ db' = [db EXCEPT ![call[c].anchor] = Merged(call[c].account, call[c].from)]
  /\ call' = [call EXCEPT ![c].pc = "merge_remove", ![c].account = None, ![c].from = None]
  /\ UNCHANGED <<local, file, user, started, charged, orphaned, overlap, fault>>

\* Mutant: the account of the installation is left in the database.
MergeRemoveNothing(c) ==
  /\ call[c].pc = "merge_remove"
  /\ call' = [call EXCEPT ![c].pc = "promote"]
  /\ UNCHANGED <<db, local, file, user, started, charged, orphaned, overlap, fault>>

MergeRemove(c) ==
  /\ call[c].pc = "merge_remove"
  /\ db' = [db EXCEPT ![Install] = None]
  /\ call' = [call EXCEPT ![c].pc = "promote"]
  /\ UNCHANGED <<local, file, user, started, charged, orphaned, overlap, fault>>

\* The result of merge_accounts is ignored: after an error the user counts as
\* promoted all the same.
MergeFails(c) ==
  /\ Faults
  /\ call[c].pc \in {"merge_get", "merge_load", "merge_create", "merge_save", "merge_remove"}
  /\ call' = [call EXCEPT ![c].pc = "promote", ![c].account = None, ![c].from = None]
  /\ fault' = TRUE
  /\ UNCHANGED <<db, local, file, user, started, charged, orphaned, overlap>>

\* fs::write: the file is opened and cut...
Cut(c, pc) ==
  /\ file' = "cut"
  /\ call' = [call EXCEPT ![c].pc = pc]
  /\ UNCHANGED <<db, local, user, started, charged, orphaned, overlap, fault>>

\* ... and written.  Over what another save has written since, the end of that may
\* remain.
Write(state) ==
  \/ local' = state /\ file' = "whole"
  \/ file # "cut" /\ file' = "mixed" /\ UNCHANGED local

\* The state file is saved as it was loaded, with the new last_promoted_anchor.
Promote(c) == call[c].pc = "promote" /\ Cut(c, "promote_write")

PromoteWrite(c) ==
  /\ call[c].pc = "promote_write"
  /\ Write([call[c].copy EXCEPT !.promoted = call[c].anchor])
  /\ GoOn(c, call[c].anchor, call[c].plan)
  /\ UNCHANGED <<db, user, started, charged, orphaned, overlap, fault>>

-----------------------------------------------------------------------------
(* accept_trial, record_usage, check_credit and should_nudge *)

\* load_or_create
Load(c) ==
  /\ call[c].pc = "load"
  /\ LET a == call[c].anchor IN
       call' = [call EXCEPT ![c] = IF db[a] = None
         THEN [@ EXCEPT !.pc = "create", !.account = Fresh(a)]
         ELSE [@ EXCEPT !.pc = "save", !.account = Ensured(db[a], a)]]
  /\ UNCHANGED <<db, local, file, user, started, charged, orphaned, overlap, fault>>

Create(c) ==
  /\ call[c].pc = "create"
  /\ db' = [db EXCEPT ![call[c].anchor] = call[c].account]
  /\ call' = [call EXCEPT ![c].pc = "save"]
  /\ UNCHANGED <<local, file, user, started, charged, orphaned, overlap, fault>>

\* check_credit saves the record it has loaded; so does should_nudge, if it nudges.
SaveUnchanged(c) ==
  /\ call[c].pc = "save" /\ Head(call[c].plan) \in {"check", "nudge"}
  /\ \/ db' = [db EXCEPT ![call[c].anchor] = call[c].account]
     \/ /\ Head(call[c].plan) = "nudge"
        /\ UNCHANGED db
  /\ GoOn(c, call[c].anchor, Tail(call[c].plan))
  /\ UNCHANGED <<local, file, user, started, charged, orphaned, overlap, fault>>

\* get_nudge loads the state file again, and fails if it cannot; a trial offer is
\* shown instead of asking should_nudge.
Look(c) ==
  /\ call[c].pc = "look"
  /\ \/ GoOn(c, Install, <<>>)
     \/ file = "whole" /\ GoOn(c, call[c].anchor, Tail(call[c].plan))
  /\ UNCHANGED <<db, local, file, user, started, charged, orphaned, overlap, fault>>

SaveUsage(c) ==
  /\ call[c].pc = "save" /\ Head(call[c].plan) = "usage"
  /\ db' = [db EXCEPT ![call[c].anchor] = Charged(call[c].account, call[c].bytes)]
  /\ charged' = charged + Cost(call[c].bytes)
  /\ GoOn(c, call[c].anchor, Tail(call[c].plan))
  /\ UNCHANGED <<local, file, user, started, orphaned, overlap, fault>>

SaveTrial(c) ==
  /\ call[c].pc = "save" /\ Head(call[c].plan) = "trial"
  /\ db' = [db EXCEPT ![call[c].anchor] = Accepted(call[c].account)]
  /\ GoOn(c, call[c].anchor, Tail(call[c].plan))
  /\ UNCHANGED <<local, file, user, started, charged, orphaned, overlap, fault>>

\* dismiss_nudge
DismissLoad(c) ==
  /\ call[c].pc = "dismiss_load"
  /\ call' = [call EXCEPT ![c] = IF file = "whole"
       THEN [@ EXCEPT !.pc = "dismiss_save", !.copy = local]
       ELSE Idle]
  /\ UNCHANGED <<db, local, file, user, started, charged, orphaned, overlap, fault>>

DismissSave(c) == call[c].pc = "dismiss_save" /\ Cut(c, "dismiss_write")

DismissWrite(c) ==
  /\ call[c].pc = "dismiss_write"
  /\ Write([call[c].copy EXCEPT !.dismissed = TRUE])
  /\ GoOn(c, call[c].anchor, Tail(call[c].plan))
  /\ UNCHANGED <<db, user, started, charged, orphaned, overlap, fault>>

\* A failing database ends every other operation with an error, and so does a
\* failing disk, which leaves the file as it then is.
LedgerFails(c) ==
  /\ Faults
  /\ call[c].pc \in {"load", "create", "save", "promote", "promote_write",
                    "dismiss_save", "dismiss_write"}
  /\ call' = [call EXCEPT ![c] = Idle]
  /\ fault' = TRUE
  /\ UNCHANGED <<db, local, file, user, started, charged, orphaned, overlap>>

-----------------------------------------------------------------------------
\* The content engine has no user before it has started, and another one after
\* a new login.
ChangeUser ==
  /\ \E u \in {None} \cup Users : user' = u /\ u # user
  /\ UNCHANGED <<db, local, file, call, started, charged, orphaned, overlap, fault>>

DebtOf(x) == IF x = None THEN 0 ELSE x.debt

TotalDebt == SumOver([a \in Anchors |-> DebtOf(db[a])], Anchors)

\* ensure_local_state, when the app starts: a file that does not load is replaced
\* by one with a new id and a new salt, and so every anchor is a new one.
EnsureLocalState ==
  \/ /\ file = "whole"
     /\ UNCHANGED <<db, local, file, orphaned>>
  \/ /\ file # "whole"
     /\ db' = [a \in Anchors |-> None]
     /\ local' = NewLocal /\ file' = "whole"
     /\ orphaned' = orphaned + TotalDebt

\* The app is killed and started again.  Each save of the database was flushed; the
\* state file is as the save that was killed has left it.
Crash ==
  /\ Faults
  /\ EnsureLocalState
  /\ call' = [c \in Calls |-> Idle]
  /\ user' = None
  /\ fault' = TRUE
  /\ UNCHANGED <<started, charged, overlap>>

CallStep(c) ==
  \/ Start(c) \/ Identify(c)
  \/ MergeGet(c) \/ MergeLoad(c) \/ MergeCreate(c) \/ MergeSave(c) \/ MergeRemove(c)
  \/ MergeFails(c) \/ Promote(c) \/ PromoteWrite(c)
  \/ Load(c) \/ Create(c) \/ SaveUnchanged(c) \/ SaveUsage(c) \/ SaveTrial(c) \/ Look(c)
  \/ DismissLoad(c) \/ DismissSave(c) \/ DismissWrite(c) \/ LedgerFails(c)

Next == (\E c \in Calls : CallStep(c)) \/ ChangeUser \/ Crash

Spec == Init /\ [][Next]_vars

-----------------------------------------------------------------------------
PlanSteps == {"check", "look", "nudge", "usage", "trial", "dismiss"}

Call == [pc : Steps, plan : Seq(PlanSteps), bytes : Nat, anchor : Anchors,
         copy : LocalState, from : Account \cup {None},
         account : Account \cup {None}]

\* What the step a call has come to needs.
Ready(k) ==
  /\ k.pc \in {"create", "save", "merge_create", "merge_save"} => k.account \in Account
  /\ k.pc = "merge_save" => k.from \in Account
  /\ k.pc \in {"merge_get", "merge_load", "merge_create", "merge_save", "merge_remove",
               "promote", "promote_write"} => k.anchor # Install
  /\ k.pc \in {"load", "create", "save", "look", "dismiss_load", "dismiss_save",
               "dismiss_write"} => k.plan # <<>>

TypeOK ==
  /\ db \in [Anchors -> Account \cup {None}]
  /\ \A a \in Anchors : db[a] # None => db[a].limit >= BaseLimit(a)
  /\ local \in LocalState /\ file \in Files
  /\ user \in {None} \cup Users
  /\ call \in [Calls -> Call]
  /\ \A c \in Calls : Ready(call[c])
  /\ started \in Nat /\ charged \in Nat /\ orphaned \in Nat
  /\ overlap \in BOOLEAN /\ fault \in BOOLEAN

Covered(account) == account.debt * Gb >= account.usage * Price

\* Whatever is lost or repeated when calls overlap, or the app is killed, or the
\* database fails, every record owes at least what its usage costs: roundings
\* and merges never favour the user.
DebtCoversUsage == \A a \in Anchors : db[a] # None => Covered(db[a])

\* The tier of every record is credit exactly when its trial was accepted,
\* whatever overlaps and however often accounts are merged.
TierIsEarned == \A a \in Anchors : db[a] # None => (db[a].tier = "credit" <=> db[a].trial)

\* As long as calls come one at a time, every session that was recorded is owed
\* under an anchor that is still computed, or was owed when a killed save of the
\* state file gave the installation a new identity, whatever else is killed or
\* fails in between; and as long as nothing fails, each is owed exactly once,
\* however users come, go and change.
DebtCountedOnce ==
  ~overlap =>
    /\ TotalDebt + orphaned >= charged
    /\ ~fault /\ (\A c \in Calls : call[c].pc = "idle") => TotalDebt = charged
=============================================================================
