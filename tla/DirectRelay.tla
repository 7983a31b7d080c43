---------------------------- MODULE DirectRelay ----------------------------
(***************************************************************************)
(* The transport and the quota of the relay it connects to: an upgrade     *)
(* reaches the worker, which asks for the device's quota and accepts it or *)
(* refuses it.  Each upgrade, at whichever endpoint, is a connection of its *)
(* own to the worker, which may have accepted one whose answer came too    *)
(* late for the client.                                                    *)
(***************************************************************************)
EXTENDS RelayTransport, RelayQuota

ASSUME ConnectionsAssumption == Connections = Consumers \X (1..Endpoints)

vars == <<transportVars, quotaVars>>

Connection(c) == <<c, attempt[c].endpoint>>

Init == TransportInit /\ QuotaInit

\* The upgrade of a consumer, as far as it reaches the worker.
Upgrade(c) ==
  \/ /\ c \in Consumers /\ At(c, "upgrade")
     /\ Ask(Connection(c))
     /\ \/ state'[Connection(c)] = "open" /\ Upgraded(c)
        \/ UpgradeFails(c)
  \/ UpgradeFails(c) /\ UNCHANGED quotaVars
  \/ c \in Sharers /\ Upgraded(c) /\ UNCHANGED quotaVars

\* An open connection carries bytes and ends, on either side; the one of a call
\* that failed later ends by itself.
Relay ==
  \/ \E c \in Connections : End(c) \/ Write(c)
  \/ NextDay

Next ==
  \/ \E c \in Callers : Dial(c) /\ UNCHANGED quotaVars
  \/ \E c \in Callers : Upgrade(c)
  \/ Tick /\ UNCHANGED quotaVars
  \/ Relay /\ UNCHANGED transportVars

Spec == Init /\ [][Next]_vars

\* Every stage ends, at the latest at its timeout; the wait for a permit is not
\* assumed to.
Fairness ==
  \A c \in Callers :
    WF_vars(\/ ~At(c, "queued") /\ Dial(c) /\ UNCHANGED quotaVars
            \/ Upgrade(c))

FairSpec == Spec /\ Fairness

-----------------------------------------------------------------------------
TypeOK == TransportTypeOK /\ QuotaTypeOK
=============================================================================
