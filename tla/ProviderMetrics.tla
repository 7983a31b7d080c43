--------------------------- MODULE ProviderMetrics ---------------------------
(***************************************************************************)
(* What the tasks of the proxy record of the providers behind the          *)
(* discovered routes (ProviderMetricsLedger, provider.rs), and the sync    *)
(* that reports it to the reputation registry as feedback                  *)
(* (sync_pending_reputation_internal, provider_runtime.rs).                *)
(*                                                                         *)
(* A record is loaded, changed and saved without a transaction, by the     *)
(* task of the session, on any thread; the sync lists what is pending,     *)
(* sends one transaction per provider and then sets the pending amount to  *)
(* zero, whatever was added meanwhile.  Accesses to the same record that   *)
(* overlap lose sessions or report them twice; the history `disturbed`     *)
(* holds the sessions this may happen to.  The amounts are sums over       *)
(* sessions, so a record is modelled by the sessions its pending amount    *)
(* holds; averages, score, earnings and the sign of a feedback are         *)
(* functions of the same sessions and left out.  Each discovered route     *)
(* stands for the agent that offers it.                                    *)
(***************************************************************************)
EXTENDS Proxy

CONSTANTS
  Agents,   \* discovered routes whose agent's record is followed
  Syncs,    \* syncs that may be under way at the same time
  NoAgent

ASSUME MetricsAssumption == Agents \subseteq Dynamic /\ NoAgent \notin Routes

VARIABLES
  pending,   \* sessions in the pending_reputation_delta saved for each agent
  rating,    \* the record a task has loaded and not saved yet
  sync,      \* what each sync has listed and is reporting
  due,       \* history: sessions saved for each agent and not reported yet
  disturbed  \* history: sessions of each agent that were being added to its record,
             \* or were pending in it, while it was accessed from two sides or its
             \* report was left in doubt

metricsVars == <<pending, rating, sync, due, disturbed>>
allVars == <<task, registry, registered, debt, pending, rating, sync, due, disturbed>>

NoRating == [agent |-> NoAgent, record |-> {}, session |-> 0]

\* "at" is the agent whose feedback was accepted and who is not marked yet.
NoSync == [listed |-> [a \in Agents |-> {}], at |-> NoAgent]

MetricsInit ==
  /\ Init
  /\ pending = [a \in Agents |-> {}]
  /\ rating = [t \in Tasks |-> NoRating]
  /\ sync = [y \in Syncs |-> NoSync]
  /\ due = [a \in Agents |-> {}] /\ disturbed = [a \in Agents |-> {}]

\* Sessions that tasks are adding to the record of a.
Added(a) == {rating[t].session : t \in {u \in Tasks : rating[u].agent = a}}

\* A sync has listed a, and has not marked it yet.
Syncing(a) == \E y \in Syncs : sync[y].listed[a] # {} \/ sync[y].at = a

-----------------------------------------------------------------------------
(* record_success and record_failure.                                      *)

\* Sessions in doubt when a session is added to the record of a: those added at the
\* same time, and with a sync under way those pending, which it may mark or not.
InDoubt(a, session) ==
  IF Syncing(a) THEN pending[a] \cup Added(a) \cup {session}
  ELSE IF Added(a) # {} THEN Added(a) \cup {session}
  ELSE {}

\* The record is loaded and the session added to it; routes from the
\* configuration have no agent.
LoadRecord(t, a) ==
  IF a \notin Agents THEN UNCHANGED metricsVars
  ELSE /\ rating' = [rating EXCEPT ![t] =
            [agent |-> a, record |-> pending[a] \cup {task[t].id}, session |-> task[t].id]]
       /\ disturbed' = [disturbed EXCEPT ![a] = @ \cup InDoubt(a, task[t].id)]
       /\ UNCHANGED <<pending, sync, due>>

RecordFailure(t) == RouteFails(t) /\ LoadRecord(t, task[t].plan[task[t].next])

RecordSuccess(t) == CopyAndCharge(t) /\ LoadRecord(t, task[t].via)

\* An error of the database is only logged.
SaveRecord(t) ==
  LET r == rating[t] IN
  /\ r # NoRating
  /\ rating' = [rating EXCEPT ![t] = NoRating]
  /\ \/ /\ pending' = [pending EXCEPT ![r.agent] = r.record]
        /\ due' = [due EXCEPT ![r.agent] = @ \cup {r.session}]
     \/ UNCHANGED <<pending, due>>
  /\ UNCHANGED <<vars, sync, disturbed>>

\* The other steps of a task leave the records alone.
OtherStep(t) ==
  /\ \/ Accept(t) \/ HandshakeFails(t) \/ Request(t) \/ Plan(t)
     \/ ConnectDirect(t) \/ TryRoute(t) \/ Reply(t) \/ Refuse(t) \/ ClientGone(t) \/ Finish(t)
  /\ UNCHANGED metricsVars

-----------------------------------------------------------------------------
(* sync_pending_reputation_internal.                                       *)

\* pending_syncs: agents whose pending amount is large enough, or was not reported
\* for an hour.
ListPending(y) ==
  /\ sync[y] = NoSync
  /\ \E todo \in SUBSET {a \in Agents : pending[a] # {}} :
       /\ todo # {}
       /\ sync' = [sync EXCEPT ![y].listed =
                     [a \in Agents |-> IF a \in todo THEN pending[a] ELSE {}]]
       /\ disturbed' = [a \in Agents |->
            IF a \in todo /\ (Syncing(a) \/ Added(a) # {})
              THEN disturbed[a] \cup pending[a] \cup Added(a) ELSE disturbed[a]]
  /\ UNCHANGED <<vars, pending, rating, due>>

\* The sync reports one agent after the other, in the order of the database.
GiveFeedback(y) ==
  /\ sync[y].at = NoAgent
  /\ \E a \in Agents :
       /\ sync[y].listed[a] # {}
       /\ sync' = [sync EXCEPT ![y] = [listed |-> [@.listed EXCEPT ![a] = {}], at |-> a]]
       /\ due' = [due EXCEPT ![a] = @ \ sync[y].listed[a]]
  /\ UNCHANGED <<vars, pending, rating, disturbed>>

\* The first feedback that fails ends the sync, whoever is left; it may have failed
\* after the transaction was sent.
FeedbackFails(y) ==
  /\ sync[y].at = NoAgent
  /\ \E a \in Agents :
       /\ sync[y].listed[a] # {}
       /\ \/ disturbed' = [disturbed EXCEPT ![a] = @ \cup sync[y].listed[a]]
          \/ UNCHANGED disturbed
  /\ sync' = [sync EXCEPT ![y] = NoSync]
  /\ UNCHANGED <<vars, pending, rating, due>>

\* Mutant: what was reported stays pending.
MarkKeeping(y) ==
  /\ sync[y].at # NoAgent
  /\ sync' = [sync EXCEPT ![y].at = NoAgent]
  /\ UNCHANGED <<vars, pending, rating, due, disturbed>>

\* mark_onchain_feedback_synced; an error of the database is ignored, and what was
\* reported stays pending.
Mark(y) ==
  LET a == sync[y].at IN
  /\ a # NoAgent
  /\ sync' = [sync EXCEPT ![y].at = NoAgent]
  /\ \/ /\ pending' = [pending EXCEPT ![a] = {}]
        /\ UNCHANGED disturbed
     \/ /\ disturbed' = [disturbed EXCEPT ![a] = @ \cup pending[a]]
        /\ UNCHANGED pending
  /\ UNCHANGED <<vars, rating, due>>

-----------------------------------------------------------------------------
MetricsNext ==
  \/ \E t \in Tasks :
       \/ SaveRecord(t)
       \/ rating[t] = NoRating /\ (RecordFailure(t) \/ RecordSuccess(t) \/ OtherStep(t))
  \/ \E y \in Syncs : ListPending(y) \/ GiveFeedback(y) \/ FeedbackFails(y) \/ Mark(y)

MetricsSpec == MetricsInit /\ [][MetricsNext]_allVars

-----------------------------------------------------------------------------
Rating == [agent : Agents \cup {NoAgent}, record : SUBSET Ids, session : 0..MaxConns]
Sync == [listed : [Agents -> SUBSET Ids], at : Agents \cup {NoAgent}]

MetricsTypeOK ==
  /\ TypeOK
  /\ pending \in [Agents -> SUBSET Ids]
  /\ rating \in [Tasks -> Rating]
  /\ sync \in [Syncs -> Sync]
  /\ due \in [Agents -> SUBSET Ids]
  /\ disturbed \in [Agents -> SUBSET Ids]

\* Of the sessions whose record was not accessed from two sides while they were added
\* to it or reported: each that was saved is pending until the feedback that reports
\* it, and no sync reports it again.  A sync that stops in the middle, an overlap at
\* another agent, or an earlier one at the same agent, changes nothing in that.
SessionsRatedOnce ==
  \A a \in Agents :
    /\ (\A y \in Syncs : sync[y].at # a) => pending[a] \ disturbed[a] = due[a] \ disturbed[a]
    /\ \A y \in Syncs : sync[y].listed[a] \ disturbed[a] \subseteq due[a]
=============================================================================
