---------------------------- MODULE RelaySession ----------------------------
(***************************************************************************)
(* A relay-backed provider: the Durable Object HydraProviderSession of the *)
(* relay worker (index.ts) between consumers (wss.rs) and the provider     *)
(* runtime of the mobile app (provider_runtime.rs), all over WebSockets.   *)
(* Each fetch and each WebSocket event of the object is one action, except *)
(* acceptConsumer, which awaits the quota store in the middle: the object  *)
(* handles other events meanwhile.                                         *)
(*                                                                         *)
(* A socket is a pair of FIFO queues; its last message "gone" stands for   *)
(* the close frame or the error the other end gets when the peer leaves.   *)
(* The target of a consumer is named by the consumer, a frame by its       *)
(* sender and its number, and every frame is one byte long.                *)
(***************************************************************************)
EXTENDS Integers, Sequences, SequencesExt, FiniteSetsExt

CONSTANTS
  Providers,    \* WebSockets the provider runtime can open, one after another
  Requests,     \* consumer requests
  BufferLimit,  \* 64: frames kept while the provider sets up
  MaxFrames,    \* bound on the frames that consumers and targets send
  Hibernation,  \* whether the platform may evict the object
  None

ASSUME RelayAssumption ==
  /\ BufferLimit \in Nat
  /\ MaxFrames \in Nat
  /\ Hibernation \in BOOLEAN
  /\ None \notin Providers \cup Requests

VARIABLES
  \* the fields of HydraProviderSession
  provider, consumer, providerReady, consumerBytes, consumerBuffer,
  waiting,       \* consumer requests awaiting the quota store
  \* the provider runtime
  link,          \* its open WebSocket
  session,       \* the consumer whose target it is connected to
  unused,        \* WebSockets it has not opened yet
  \* the consumers
  client,        \* what each consumer request has come to
  sent,          \* frames sent by each consumer
  \* the queues
  toProvider,    \* to the runtime's open socket
  fromProvider, fromConsumer,
  \* ghosts
  served,        \* frames received by each target
  unreported,    \* bytes carried and not reported to the quota store
  data           \* frames sent by the targets

objectVars == <<provider, consumer, providerReady, consumerBytes, consumerBuffer>>
runtimeVars == <<link, session, unused>>
clientVars == <<client, sent>>
ghosts == <<served, unreported, data>>
sessionVars == <<objectVars, waiting, runtimeVars, clientVars, toProvider,
          fromProvider, fromConsumer, ghosts>>

ToConsumer(c) == [type |-> "connect", who |-> c]
Close == [type |-> "close"]
Gone == [type |-> "gone"]
Frame(c, n) == [type |-> "frame", who |-> c, number |-> n]

Frames == [type : {"frame"}, who : Requests, number : Nat]
Control == [type : {"connect"}, who : Requests] \cup {Close}

\* What the queues carry: to the runtime, from it, and from a consumer.
ToRuntime == Frames \cup Control
FromRuntime == {"ready", "error", "closed", "data", "gone"}
ToObject == Frames \cup {Gone}

ClientState == {"new", "asking", "open", "closing", "left", "refused"}

SessionTypeOK ==
  /\ provider \in Providers \cup {None}
  /\ consumer \in Requests \cup {None}
  /\ providerReady \in BOOLEAN
  /\ consumerBytes \in Nat
  /\ consumerBuffer \in Seq(Frames) /\ Len(consumerBuffer) <= BufferLimit
  /\ waiting \subseteq Requests
  /\ link \in Providers \cup {None}
  /\ session \in Requests \cup {None}
  /\ unused \subseteq Providers
  /\ client \in [Requests -> ClientState]
  /\ sent \in [Requests -> Nat]
  /\ toProvider \in Seq(ToRuntime)
  /\ fromProvider \in [Providers -> Seq(FromRuntime)]
  /\ fromConsumer \in [Requests -> Seq(ToObject)]
  /\ served \in [Requests -> Seq(Frames)]
  /\ unreported \in Nat
  /\ data \in Nat

SessionInit ==
  /\ provider = None /\ consumer = None /\ providerReady = FALSE
  /\ consumerBytes = 0 /\ consumerBuffer = <<>>
  /\ waiting = {}
  /\ link = None /\ session = None /\ unused = Providers
  /\ client = [c \in Requests |-> "new"] /\ sent = [c \in Requests |-> 0]
  /\ toProvider = <<>>
  /\ fromProvider = [p \in Providers |-> <<>>]
  /\ fromConsumer = [c \in Requests |-> <<>>]
  /\ served = [c \in Requests |-> <<>>]
  /\ unreported = 0
  /\ data = 0

FramesSent == data + MapThenSumSet(LAMBDA c : sent[c], Requests)

-----------------------------------------------------------------------------
(* Parts of the object's handlers.                                         *)

\* What provider.send(m) leaves in the queue: a frame for a socket the
\* runtime has lost is lost.
SentTo(p, messages) ==
  IF p # None /\ p = link THEN toProvider \o messages ELSE toProvider

\* closeConsumer: the attached consumer, if any, will see its socket closed.
CloseConsumer ==
  client' = [c \in Requests |->
    IF c = consumer /\ client[c] = "open" THEN "closing" ELSE client[c]]

\* flushConsumerQuota starts checkAndUpdateQuota and does not wait for it.
FlushConsumerQuota == unreported' = unreported - consumerBytes

\* A byte more is carried for the consumer.
CountOne ==
  /\ consumerBytes' = consumerBytes + 1
  /\ unreported' = unreported + 1

\* Mutant: the byte count survives the reset.
ResetConsumerStateKeepsBytes ==
  /\ consumer' = None
  /\ consumerBuffer' = <<>>
  /\ providerReady' = FALSE
  /\ UNCHANGED consumerBytes

ResetConsumerState ==
  /\ consumer' = None
  /\ consumerBytes' = 0
  /\ consumerBuffer' = <<>>
  /\ providerReady' = FALSE

-----------------------------------------------------------------------------
(* The object: fetch.                                                      *)

\* acceptProvider.  The socket it replaces has been lost by the runtime already,
\* or is that of another device of the same agent: then it is closed, and that
\* device ends with its session as when it loses the link.  From now on, the
\* runtime is that of the new device.
AcceptProvider(p) ==
  /\ p \in unused
  /\ link = None \/ link = provider
  /\ link' = p /\ unused' = unused \ {p}
  /\ session' = None /\ toProvider' = <<>>
  /\ fromProvider' = [q \in Providers |->
       IF q = link THEN Append(fromProvider[q], "gone") ELSE fromProvider[q]]
  /\ provider' = p
  /\ providerReady' = FALSE
  /\ UNCHANGED <<consumer, consumerBytes, consumerBuffer, waiting, clientVars,
                 fromConsumer, ghosts>>

\* acceptConsumer up to the await.
AskForProvider(c) ==
  /\ client[c] = "new"
  /\ IF provider = None \/ consumer # None
       THEN /\ client' = [client EXCEPT ![c] = "refused"]  \* 503, 409
            /\ UNCHANGED waiting
       ELSE /\ client' = [client EXCEPT ![c] = "asking"]
            /\ waiting' = waiting \cup {c}
  /\ UNCHANGED <<objectVars, runtimeVars, sent, toProvider, fromProvider,
                 fromConsumer, ghosts>>

\* The daily quota is used up: 429.
RefuseConsumer(c) ==
  /\ c \in waiting
  /\ waiting' = waiting \ {c}
  /\ client' = [client EXCEPT ![c] = "refused"]
  /\ UNCHANGED <<objectVars, runtimeVars, sent, toProvider, fromProvider,
                 fromConsumer, ghosts>>

\* acceptConsumer from the await on: nothing but the provider is checked
\* again, and that by notifyProvider (503).
AcceptConsumer(c) ==
  /\ c \in waiting
  /\ waiting' = waiting \ {c}
  /\ consumerBytes' = 0
  /\ consumerBuffer' = <<>>
  /\ providerReady' = FALSE
  /\ IF provider = None
       THEN /\ consumer' = None
            /\ client' = [client EXCEPT ![c] = "refused"]
       ELSE /\ consumer' = c
            /\ client' = [client EXCEPT ![c] = "open"]
  /\ toProvider' = SentTo(provider, <<ToConsumer(c)>>)
  /\ UNCHANGED <<provider, runtimeVars, sent, fromProvider, fromConsumer, ghosts>>

-----------------------------------------------------------------------------
(* The object: WebSocket events.  They are dispatched by the role attached *)
(* to the socket, provider or consumer, whichever socket of that role it is.*)

\* Mutant: the buffer is emptied from its end.
OnReadyNewestFirst ==
  /\ providerReady' = TRUE
  /\ IF provider = None
       THEN UNCHANGED <<toProvider, consumerBuffer>>
       ELSE /\ toProvider' = SentTo(provider, Reverse(consumerBuffer))
            /\ consumerBuffer' = <<>>
  /\ UNCHANGED <<provider, consumer, consumerBytes, client, unreported>>

\* The runtime's target is connected: forward what was buffered.
OnReady ==
  /\ providerReady' = TRUE
  /\ IF provider = None
       THEN UNCHANGED <<toProvider, consumerBuffer>>
       ELSE /\ toProvider' = SentTo(provider, consumerBuffer)
            /\ consumerBuffer' = <<>>
  /\ UNCHANGED <<provider, consumer, consumerBytes, client, unreported>>

\* "error" and "closed" differ only in the close code.
OnSessionEnd ==
  /\ CloseConsumer
  /\ FlushConsumerQuota
  /\ ResetConsumerState
  /\ UNCHANGED <<provider, toProvider>>

OnProviderData ==
  /\ IF providerReady /\ consumer # None
       THEN CountOne
       ELSE UNCHANGED <<consumerBytes, unreported>>
  /\ UNCHANGED <<provider, consumer, providerReady, consumerBuffer, toProvider,
                 client>>

\* Mutant: without a consumer there is nothing to do.
OnProviderGoneServing ==
  /\ provider' = IF consumer = None THEN provider ELSE None
  /\ CloseConsumer
  /\ ResetConsumerState
  /\ UNCHANGED <<toProvider, unreported>>

\* webSocketClose and webSocketError of a provider socket.
OnProviderGone ==
  /\ provider' = None
  /\ CloseConsumer
  /\ ResetConsumerState
  /\ UNCHANGED <<toProvider, unreported>>

FromProvider(p) ==
  /\ fromProvider[p] # <<>>
  /\ fromProvider' = [fromProvider EXCEPT ![p] = Tail(@)]
  /\ LET m == Head(fromProvider[p]) IN
       \/ m = "ready" /\ OnReady
       \/ m \in {"error", "closed"} /\ OnSessionEnd
       \/ m = "data" /\ OnProviderData
       \/ m = "gone" /\ OnProviderGone
  /\ UNCHANGED <<waiting, runtimeVars, sent, fromConsumer, served, data>>

\* handleConsumerMessage for a binary frame.
OnConsumerFrame(c, m) ==
  /\ \/ /\ provider # None /\ providerReady
        /\ toProvider' = SentTo(provider, <<m>>)
        /\ CountOne
        /\ UNCHANGED <<consumer, providerReady, consumerBuffer, client>>
     \/ /\ provider = None \/ ~ providerReady
        /\ Len(consumerBuffer) < BufferLimit
        /\ consumerBuffer' = Append(consumerBuffer, m)
        /\ CountOne
        /\ UNCHANGED <<consumer, providerReady, toProvider, client>>
     \/ /\ provider = None \/ ~ providerReady
        /\ Len(consumerBuffer) >= BufferLimit  \* "Provider setup timeout"
        /\ CloseConsumer
        /\ FlushConsumerQuota
        /\ ResetConsumerState
        /\ UNCHANGED toProvider
  /\ UNCHANGED provider

\* Mutant: a consumer still being set up is not cleaned up.
OnConsumerGoneIfReady ==
  IF providerReady
    THEN /\ toProvider' = SentTo(provider, <<Close>>)
         /\ FlushConsumerQuota
         /\ ResetConsumerState
         /\ UNCHANGED <<provider, client>>
    ELSE UNCHANGED <<objectVars, client, toProvider, unreported>>

\* webSocketClose and webSocketError of a consumer socket.
OnConsumerGone ==
  /\ toProvider' = SentTo(provider, <<Close>>)
  /\ FlushConsumerQuota
  /\ ResetConsumerState
  /\ UNCHANGED <<provider, client>>

FromConsumer(c) ==
  /\ fromConsumer[c] # <<>>
  /\ fromConsumer' = [fromConsumer EXCEPT ![c] = Tail(@)]
  /\ LET m == Head(fromConsumer[c]) IN
       \/ m # Gone /\ OnConsumerFrame(c, m)
       \/ m = Gone /\ OnConsumerGone
  /\ UNCHANGED <<waiting, runtimeVars, sent, fromProvider, served, data>>

\* The platform evicts an idle object and keeps its WebSockets; the next event
\* constructs it afresh.
Hibernate ==
  /\ Hibernation /\ waiting = {}
  /\ provider' = None /\ consumer' = None /\ providerReady' = FALSE
  /\ consumerBytes' = 0 /\ consumerBuffer' = <<>>
  /\ UNCHANGED <<waiting, runtimeVars, clientVars, toProvider, fromProvider,
                 fromConsumer, ghosts>>

-----------------------------------------------------------------------------
(* The provider runtime.                                                   *)

RuntimeSends(messages) ==
  fromProvider' = [fromProvider EXCEPT ![link] = @ \o messages]

\* The idle runtime connects to the target, or fails to; once connected, the
\* next connect is not read as one.
TakeConnect ==
  /\ link # None /\ toProvider # <<>> /\ Head(toProvider).type = "connect"
  /\ toProvider' = Tail(toProvider)
  /\ \/ /\ session = None
        /\ session' = Head(toProvider).who
        /\ RuntimeSends(<<"ready">>)
     \/ /\ session = None
        /\ RuntimeSends(<<"error">>)
        /\ UNCHANGED session
     \/ /\ session # None
        /\ UNCHANGED <<session, fromProvider>>
  /\ UNCHANGED <<objectVars, waiting, link, unused, clientVars, fromConsumer, ghosts>>

TakeClose ==
  /\ link # None /\ toProvider # <<>> /\ Head(toProvider).type = "close"
  /\ toProvider' = Tail(toProvider)
  /\ \/ /\ session # None
        /\ session' = None
        /\ RuntimeSends(<<"closed">>)
     \/ /\ session = None
        /\ UNCHANGED <<session, fromProvider>>
  /\ UNCHANGED <<objectVars, waiting, link, unused, clientVars, fromConsumer, ghosts>>

\* A frame goes to the connected target; the idle runtime drops it.
TakeFrame ==
  /\ link # None /\ toProvider # <<>> /\ Head(toProvider).type = "frame"
  /\ toProvider' = Tail(toProvider)
  /\ served' = [c \in Requests |->
       IF c = session THEN Append(served[c], Head(toProvider)) ELSE served[c]]
  /\ UNCHANGED <<objectVars, waiting, runtimeVars, clientVars, fromProvider,
                 fromConsumer, unreported, data>>

\* The target sends data, closes the connection, or breaks it (an error is
\* reported and then the end).
TargetSends ==
  /\ session # None /\ FramesSent < MaxFrames
  /\ data' = data + 1
  /\ RuntimeSends(<<"data">>)
  /\ UNCHANGED <<objectVars, waiting, runtimeVars, clientVars, toProvider,
                 fromConsumer, served, unreported>>

TargetEnds ==
  /\ session # None
  /\ session' = None
  /\ \E last \in {<<"closed">>, <<"error", "closed">>} : RuntimeSends(last)
  /\ UNCHANGED <<objectVars, waiting, link, unused, clientVars, toProvider,
                 fromConsumer, ghosts>>

\* The runtime loses its WebSocket: stopped, a network change, or an error
\* that ends its task.  It may connect again.  What it had sent still arrives:
\* losing the end of it is the same as losing the link earlier.
LoseLink ==
  /\ link # None
  /\ RuntimeSends(<<"gone">>)
  /\ link' = None /\ session' = None
  /\ toProvider' = <<>>
  /\ UNCHANGED <<objectVars, waiting, unused, clientVars, fromConsumer, ghosts>>

-----------------------------------------------------------------------------
(* The consumers.                                                          *)

SendFrame(c) ==
  /\ client[c] \in {"open", "closing"}
  /\ FramesSent < MaxFrames
  /\ sent' = [sent EXCEPT ![c] = @ + 1]
  /\ fromConsumer' = [fromConsumer EXCEPT ![c] = Append(@, Frame(c, sent[c] + 1))]
  /\ UNCHANGED <<objectVars, waiting, runtimeVars, client, toProvider,
                 fromProvider, ghosts>>

\* A consumer is done, or answers the close of its socket ("closing").
Leave(c) ==
  /\ client[c] \in {"open", "closing"}
  /\ client' = [client EXCEPT ![c] = "left"]
  /\ fromConsumer' = [fromConsumer EXCEPT ![c] = Append(@, Gone)]
  /\ UNCHANGED <<objectVars, waiting, runtimeVars, sent, toProvider,
                 fromProvider, ghosts>>

-----------------------------------------------------------------------------
Runtime == TakeConnect \/ TakeClose \/ TakeFrame \/ TargetSends \/ TargetEnds \/ LoseLink

SessionNext ==
  \/ \E p \in Providers : AcceptProvider(p) \/ FromProvider(p)
  \/ \E c \in Requests :
       \/ AskForProvider(c) \/ RefuseConsumer(c) \/ AcceptConsumer(c)
       \/ FromConsumer(c) \/ SendFrame(c) \/ Leave(c)
  \/ Runtime
  \/ Hibernate

SessionSpec == SessionInit /\ [][SessionNext]_sessionVars

-----------------------------------------------------------------------------
\* No byte is charged twice: what will be reported for the attached consumer was
\* carried and has not been reported yet.
NoByteChargedTwice == consumerBytes <= unreported

\* Whatever is buffered, flushed, forwarded or dropped, a target sees the
\* frames of each consumer in the order they were sent, none of them twice.
FramesInOrder ==
  \A t \in Requests : \A i, j \in DOMAIN served[t] :
    i < j /\ served[t][i].who = served[t][j].who =>
      served[t][i].number < served[t][j].number

\* A consumer that has left does not keep the provider busy: it is still
\* attached only while the event that will detach it is on its way, whatever was
\* being set up when it left.
DepartureFreesTheProvider ==
  \A c \in Requests :
    consumer = c /\ client[c] = "left" => Gone \in Range(fromConsumer[c])

\* A provider that has lost its socket does not stay registered with it: the
\* event that will unregister it is on its way.
LossIsNoticed ==
  \A p \in Providers :
    provider = p /\ link # p => "gone" \in Range(fromProvider[p])

-----------------------------------------------------------------------------
(* A statement of the documentation that the code does not meet.           *)

\* A consumer names its target in X-Hydra-Target and the runtime connects it
\* to that target: a target only receives the frames of its own consumer.
FramesReachTheirTarget ==
  \A t \in Requests : \A i \in DOMAIN served[t] : served[t][i].who = t
=============================================================================
