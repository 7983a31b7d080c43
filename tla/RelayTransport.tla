--------------------------- MODULE RelayTransport ---------------------------
(***************************************************************************)
(* How the app reaches the relay (hydra-core/src/transport/wss.rs).  A     *)
(* connection of the proxy takes one of the transport's permits, waiting   *)
(* its turn for at most 15 s, and tries the configured endpoints one after *)
(* the other; the Share & Earn runtime goes to one endpoint without a      *)
(* permit.  An attempt connects over TCP, to one of the addresses that     *)
(* Cloudflare's DoH or else the system's DNS gives, shakes hands over TLS  *)
(* and upgrades to a WebSocket.                                            *)
(*                                                                         *)
(* Encrypted Client Hello (ECH) is attempted when the relay publishes a    *)
(* configuration for it.  A failure there is retried with standard TLS and *)
(* disables ECH for everybody for a while; a handshake in which ECH was    *)
(* accepted lifts that again.                                              *)
(*                                                                         *)
(* Every stage has a timeout, so a failure stands for a timeout too, and   *)
(* the time a stage takes is left out: only the cooldown reads the clock.  *)
(* What the relay answers to the upgrade is left to DirectRelay.           *)
(***************************************************************************)
EXTENDS Integers, Sequences, SequencesExt

CONSTANTS
  Consumers,  \* connections of the proxy that use the transport
  Sharers,    \* uses by the Share & Earn runtime
  Endpoints,  \* number of configured endpoints
  Invalid,    \* endpoints that are no URL with a host
  Permits,    \* MAX_CONCURRENT_RELAY
  Cooldown,   \* ECH_RETRY_COOLDOWN
  MaxTime     \* bound on the clock

Callers == Consumers \cup Sharers

ASSUME TransportAssumption ==
  /\ Consumers \cap Sharers = {}
  /\ Endpoints \in Nat \ {0} /\ Invalid \subseteq 1..Endpoints
  /\ Permits \in Nat \ {0}
  /\ Cooldown \in Nat \ {0} /\ MaxTime \in Nat

VARIABLES
  clock,     \* Instant::now()
  disabled,  \* ECH_DISABLED_UNTIL; 0 for None
  attempt,   \* what each caller is doing
  permits,   \* free permits
  line       \* consumers waiting for a permit, in order

transportVars == <<clock, disabled, attempt, permits, line>>

NoAttempt == [at |-> "idle", endpoint |-> 1, ech |-> FALSE, failed |-> <<>>]

Stages == {"endpoint", "connect", "handshake", "upgrade"}
Returned == {"connected", "exhausted", "queue full"}
Reasons == {"url", "relay", "ech", "tls"}
AttemptState == [at : {"idle", "queued"} \cup Stages \cup Returned,
                 endpoint : 1..Endpoints, ech : BOOLEAN, failed : Seq(Reasons)]

TransportInit ==
  /\ clock = 0
  /\ disabled = 0
  /\ attempt = [c \in Callers |-> NoAttempt]
  /\ permits = Permits
  /\ line = <<>>

At(c, stage) == attempt[c].at = stage

Goes(c, stage) == attempt' = [attempt EXCEPT ![c].at = stage]

-----------------------------------------------------------------------------
(* Permits.                                                                *)

\* The semaphore is fair: a permit goes to whoever waits longest.
Acquire(c) ==
  /\ At(c, "idle") /\ c \in Consumers
  /\ IF permits > 0
       THEN Goes(c, "endpoint") /\ permits' = permits - 1 /\ UNCHANGED line
       ELSE Goes(c, "queued") /\ line' = Append(line, c) /\ UNCHANGED permits
  /\ UNCHANGED <<clock, disabled>>

QueueTimeout(c) ==
  /\ At(c, "queued")
  /\ Goes(c, "queue full")
  /\ \E i \in DOMAIN line : line[i] = c /\ line' = RemoveAt(line, i)
  /\ UNCHANGED <<clock, disabled, permits>>

\* The Share & Earn runtime connects without a permit.
Share(c) ==
  /\ At(c, "idle") /\ c \in Sharers
  /\ Goes(c, "endpoint")
  /\ UNCHANGED <<clock, disabled, permits, line>>

\* Mutant: a call that found no endpoint keeps its permit.
ReturnsKeeping(c, end) ==
  /\ IF c \in Sharers \/ line = <<>> \/ end.at = "exhausted"
       THEN attempt' = [attempt EXCEPT ![c] = end] /\ UNCHANGED line
       ELSE /\ attempt' = [attempt EXCEPT ![c] = end, ![Head(line)].at = "endpoint"]
            /\ line' = Tail(line)
  /\ permits' = IF c \in Consumers /\ line = <<>> /\ end.at # "exhausted"
                  THEN permits + 1 ELSE permits

\* The call returns, whatever came of it, and its permit goes to the next.
Returns(c, end) ==
  /\ IF c \in Sharers \/ line = <<>>
       THEN attempt' = [attempt EXCEPT ![c] = end] /\ UNCHANGED line
       ELSE /\ attempt' = [attempt EXCEPT ![c] = end, ![Head(line)].at = "endpoint"]
            /\ line' = Tail(line)
  /\ permits' = IF c \in Consumers /\ line = <<>> THEN permits + 1 ELSE permits

-----------------------------------------------------------------------------
(* One endpoint after the other.                                           *)

LastEndpoint(c) == IF c \in Sharers THEN 1 ELSE Endpoints

\* What an endpoint is given up for.
Reason(a) ==
  CASE a.at = "endpoint" -> "url"
    [] a.at = "upgrade" -> "relay"
    [] OTHER -> IF a.ech THEN "ech" ELSE "tls"

\* This endpoint has failed for good: the loop takes the next one.
EndpointFails(c) ==
  /\ LET a == attempt[c]
         failed == Append(a.failed, Reason(a))
     IN  IF a.endpoint = LastEndpoint(c)
           THEN Returns(c, [a EXCEPT !.at = "exhausted", !.failed = failed])
           ELSE /\ attempt' = [attempt EXCEPT ![c] =
                     [NoAttempt EXCEPT !.at = "endpoint", !.endpoint = a.endpoint + 1,
                                       !.failed = failed]]
                /\ UNCHANGED <<permits, line>>
  /\ UNCHANGED <<clock, disabled>>

ParseFails(c) ==
  /\ At(c, "endpoint") /\ attempt[c].endpoint \in Invalid
  /\ EndpointFails(c)

\* should_attempt_ech: the cooldown is over, or there is none.
ShouldAttemptEch == disabled <= clock

\* The HTTPS record is asked for only then; it holds a usable configuration of
\* ECH, or not, or cannot be had.
BuildTlsConfig(c) ==
  /\ At(c, "endpoint") /\ attempt[c].endpoint \notin Invalid
  /\ \E ech \in {ShouldAttemptEch, FALSE} :
       attempt' = [attempt EXCEPT ![c].at = "connect", ![c].ech = ech]
  /\ disabled' = IF ShouldAttemptEch THEN 0 ELSE disabled
  /\ UNCHANGED <<clock, permits, line>>

-----------------------------------------------------------------------------
(* TCP and TLS.                                                            *)

\* One of the addresses DoH gives answers, or one the system's DNS gives.
Connect(c) ==
  /\ At(c, "connect")
  /\ Goes(c, "handshake")
  /\ UNCHANGED <<clock, disabled, permits, line>>

\* The retry without ECH connects anew.
EchFails(c) ==
  /\ disabled' = clock + Cooldown
  /\ attempt' = [attempt EXCEPT ![c].at = "connect", ![c].ech = FALSE]
  /\ UNCHANGED <<clock, permits, line>>

\* Mutant: only a handshake is retried, not a connection.
TlsFailsUnretried(c) ==
  /\ At(c, "connect") \/ At(c, "handshake")
  /\ IF attempt[c].ech /\ At(c, "handshake") THEN EchFails(c) ELSE EndpointFails(c)

\* attempt_tls_handshake fails, because no address answers or because of the
\* handshake: with ECH on, either counts as a failure of ECH.
TlsFails(c) ==
  /\ At(c, "connect") \/ At(c, "handshake")
  /\ IF attempt[c].ech THEN EchFails(c) ELSE EndpointFails(c)

Handshake(c) ==
  /\ At(c, "handshake")
  /\ Goes(c, "upgrade")
  /\ \/ /\ attempt[c].ech
        /\ disabled' = 0
     \/ UNCHANGED disabled
  /\ UNCHANGED <<clock, permits, line>>

-----------------------------------------------------------------------------
(* The WebSocket.                                                          *)

\* A consumer also gets its end of a loopback connection (create_tcp_pair).
Upgraded(c) ==
  /\ At(c, "upgrade")
  /\ Returns(c, [NoAttempt EXCEPT !.at = "connected", !.endpoint = attempt[c].endpoint])
  /\ UNCHANGED <<clock, disabled>>

\* The upgrade fails, or the loopback connection that follows it.
UpgradeFails(c) == At(c, "upgrade") /\ EndpointFails(c)

\* Bound: each caller calls once.
Dial(c) ==
  \/ Acquire(c) \/ Share(c) \/ QueueTimeout(c)
  \/ ParseFails(c) \/ BuildTlsConfig(c)
  \/ Connect(c) \/ TlsFails(c) \/ Handshake(c)

Tick ==
  /\ clock < MaxTime
  /\ clock' = clock + 1
  /\ UNCHANGED <<disabled, attempt, permits, line>>

-----------------------------------------------------------------------------
TransportTypeOK ==
  /\ clock \in 0..MaxTime
  /\ disabled \in 0..(MaxTime + Cooldown)
  /\ attempt \in [Callers -> AttemptState]
  /\ permits \in 0..Permits
  /\ line \in Seq(Consumers)

\* SERVICE_MANUAL.md: when ECH cannot be had or its handshake fails, the client
\* "falls back to ordinary TLS".  A call that gives up has tried every endpoint,
\* and none of them was given up because of ECH: what failed in the end was the
\* URL, the relay's answer, or a connection or handshake without ECH.
ExhaustedHonestly ==
  \A c \in Callers : At(c, "exhausted") =>
    /\ Len(attempt[c].failed) = LastEndpoint(c)
    /\ \A i \in DOMAIN attempt[c].failed :
         /\ attempt[c].failed[i] # "ech"
         /\ attempt[c].failed[i] = "url" => i \in Invalid

\* A call that waits for a permit gets its turn although every attempt of those
\* before it may fail, and every call returns.
CallsReturn ==
  \A c \in Callers : attempt[c].at \notin {"idle"} \cup Returned ~> attempt[c].at \in Returned
=============================================================================
