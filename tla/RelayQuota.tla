----------------------------- MODULE RelayQuota -----------------------------
(***************************************************************************)
(* The daily traffic quota of one device in the relay worker (index.ts):   *)
(* checkAndUpdateQuota reads the record of the day from the key-value      *)
(* store, and writes it back after a second await.  Connections (direct    *)
(* ones and sessions of HydraProviderSession) ask before they start and    *)
(* report what they carried when they end; nothing orders their calls.     *)
(***************************************************************************)
EXTENDS Integers, Sequences, Sums

CONSTANTS
  Connections,  \* connections of the device
  Limit,        \* bytes_limit of the record
  MaxBytes,     \* bound on what one connection carries
  MaxDay,       \* bound on the number of days
  StaleReads    \* whether the store may answer with an older record

ASSUME QuotaAssumption ==
  /\ Limit \in Nat \ {0}
  /\ MaxBytes \in Nat
  /\ MaxDay \in Nat \ {0}
  /\ StaleReads \in BOOLEAN

VARIABLES
  today,    \* the day todayKey puts in the key
  records,  \* bytes_used written so far under the key of each day, oldest first
  state,    \* of each connection
  bytes,    \* what each connection that reports has carried
  key,      \* the day under which a connection reports
  read      \* bytes_used as a connection that reports has read it

quotaVars == <<today, records, state, bytes, key, read>>

Days == 1..MaxDay

QuotaTypeOK ==
  /\ today \in Days
  /\ records \in [Days -> Seq(0..Limit)]
  /\ state \in [Connections -> {"new", "open", "reporting", "ended", "refused"}]
  /\ bytes \in [Connections -> 0..MaxBytes]
  /\ key \in [Connections -> 0..MaxDay]
  /\ read \in [Connections -> 0..Limit]

QuotaInit ==
  /\ today = 1
  /\ records = [d \in Days |-> <<0>>]
  /\ state = [c \in Connections |-> "new"]
  /\ bytes = [c \in Connections |-> 0]
  /\ key = [c \in Connections |-> 0]
  /\ read = [c \in Connections |-> 0]

-----------------------------------------------------------------------------
\* kv.get: a missing record reads as zero.
Answers(d) ==
  IF StaleReads THEN {records[d][i] : i \in DOMAIN records[d]}
                ELSE {records[d][Len(records[d])]}

\* checkAndUpdateQuota with zero bytes only reads.
Ask(c) ==
  /\ state[c] = "new"
  /\ \E used \in Answers(today) :
       state' = [state EXCEPT ![c] = IF used < Limit THEN "open" ELSE "refused"]
  /\ key' = [key EXCEPT ![c] = today]
  /\ UNCHANGED <<today, records, bytes, read>>

\* A connection that carried nothing does not report.
End(c) ==
  /\ state[c] = "open"
  /\ \E n \in 0..MaxBytes :
       IF n = 0
         THEN /\ state' = [state EXCEPT ![c] = "ended"]
              /\ UNCHANGED <<bytes, key, read>>
         ELSE /\ state' = [state EXCEPT ![c] = "reporting"]
              /\ bytes' = [bytes EXCEPT ![c] = n]
              /\ key' = [key EXCEPT ![c] = today]
              /\ \E used \in Answers(today) : read' = [read EXCEPT ![c] = used]
  /\ UNCHANGED <<today, records>>

\* Mutant: what was written is added to the record it was read from.
WriteTwice(c) ==
  /\ state[c] = "reporting"
  /\ state' = [state EXCEPT ![c] = "ended"]
  /\ records' = IF read[c] + 2 * bytes[c] <= Limit
       THEN [records EXCEPT ![key[c]] = Append(@, read[c] + 2 * bytes[c])]
       ELSE records
  /\ read' = [read EXCEPT ![c] = 0]
  /\ UNCHANGED <<today, bytes, key>>

\* kv.put; a report that would exceed the limit is not written at all.
Write(c) ==
  /\ state[c] = "reporting"
  /\ state' = [state EXCEPT ![c] = "ended"]
  /\ records' = IF read[c] + bytes[c] <= Limit
       THEN [records EXCEPT ![key[c]] = Append(@, read[c] + bytes[c])]
       ELSE records
  /\ read' = [read EXCEPT ![c] = 0]
  /\ UNCHANGED <<today, bytes, key>>

NextDay ==
  /\ today < MaxDay
  /\ today' = today + 1
  /\ UNCHANGED <<records, state, bytes, key, read>>

QuotaNext ==
  \/ \E c \in Connections : Ask(c) \/ End(c) \/ Write(c)
  \/ NextDay

QuotaSpec == QuotaInit /\ [][QuotaNext]_quotaVars

-----------------------------------------------------------------------------
Reported(d) == {c \in Connections : state[c] = "ended" /\ key[c] = d}

TotalOf(connections) == SumOver(bytes, connections)

\* Whatever order reads and writes of concurrent reports come in, and however
\* stale the store is, no value it ever held exceeds what was reported that day.
NeverOvercharged ==
  \A d \in Days : \A i \in DOMAIN records[d] : records[d][i] <= TotalOf(Reported(d))
=============================================================================
