----------------------------- MODULE RelayProofs -----------------------------
(***************************************************************************)
(* Theorems about the relay.  First the sessions of RelaySession, for any  *)
(* number of sockets, consumers and frames and any size of the buffer;     *)
(* then DirectRelay: the permits, the line and the endpoints of the        *)
(* transport, and the quota, for any number of callers, endpoints, permits *)
(* and connections and any limit, and that the composition implements the  *)
(* quota's own specification.                                              *)
(***************************************************************************)
EXTENDS RelaySession, DirectRelay, SumProofs, SequenceTheorems, FiniteSetTheorems, TLAPS

-----------------------------------------------------------------------------
(* Queues: the set of their elements, and the order of their frames.       *)

\* Every pair of frames of one consumer is in the order of their numbers.
Rising(s) ==
  \A i, j \in DOMAIN s :
    i < j /\ s[i].type = "frame" /\ s[j].type = "frame" /\ s[i].who = s[j].who
      => s[i].number < s[j].number

FramesOf(s) == {m \in Range(s) : m.type = "frame"}

\* The frames of A come before those of B.
Before(A, B) == \A m \in A, n \in B : m.who = n.who => m.number < n.number

LEMMA TakenFacts ==
  ASSUME NEW S, NEW s \in Seq(S), s # <<>>
  PROVE  /\ Head(s) \in S /\ Tail(s) \in Seq(S)
         /\ Range(s) = {Head(s)} \cup Range(Tail(s))
<1>1. /\ Head(s) \in S /\ Tail(s) \in Seq(S)
      /\ Len(Tail(s)) = Len(s) - 1
      /\ \A i \in 1..Len(Tail(s)) : Tail(s)[i] = s[i + 1]
  BY HeadTailProperties
<1>2. Len(s) \in Nat \ {0}
  BY EmptySeq
<1>3. DOMAIN s = 1..Len(s) /\ DOMAIN Tail(s) = 1..Len(Tail(s))
  BY <1>1, LenProperties
<1>4. Head(s) = s[1]
  BY <1>2, <1>3
<1>5. Range(s) \subseteq {Head(s)} \cup Range(Tail(s))
  <2>1. SUFFICES ASSUME NEW i \in 1..Len(s), i # 1
                 PROVE  s[i] \in Range(Tail(s))
    BY <1>3, <1>4 DEF Range
  <2>2. i - 1 \in 1..Len(Tail(s)) /\ Tail(s)[i - 1] = s[i]
    BY <1>1, <1>2, <2>1
  <2> QED
    BY <1>3, <2>2 DEF Range
<1>6. {Head(s)} \cup Range(Tail(s)) \subseteq Range(s)
  <2>1. 1 \in DOMAIN s
    BY <1>2, <1>3
  <2>2. \A i \in 1..Len(Tail(s)) : i + 1 \in 1..Len(s)
    BY <1>1, <1>2
  <2> QED
    BY <1>1, <1>3, <1>4, <2>1, <2>2 DEF Range
<1> QED
  BY <1>1, <1>5, <1>6

LEMMA JoinedFacts ==
  ASSUME NEW S, NEW s \in Seq(S), NEW u \in Seq(S)
  PROVE  /\ s \o u \in Seq(S)
         /\ Range(s \o u) = Range(s) \cup Range(u)
<1>1. /\ s \o u \in Seq(S) /\ Len(s \o u) = Len(s) + Len(u)
      /\ \A i \in 1..(Len(s) + Len(u)) :
           (s \o u)[i] = IF i <= Len(s) THEN s[i] ELSE u[i - Len(s)]
  BY ConcatProperties
<1>2. /\ Len(s) \in Nat /\ DOMAIN s = 1..Len(s)
      /\ Len(u) \in Nat /\ DOMAIN u = 1..Len(u)
      /\ DOMAIN (s \o u) = 1..(Len(s) + Len(u))
  BY <1>1, LenProperties
<1>3. Range(s \o u) \subseteq Range(s) \cup Range(u)
  <2>1. SUFFICES ASSUME NEW i \in 1..(Len(s) + Len(u))
                 PROVE  (s \o u)[i] \in Range(s) \cup Range(u)
    BY <1>2 DEF Range
  <2>2. CASE i <= Len(s)
    BY <1>1, <1>2, <2>2 DEF Range
  <2>3. CASE ~ (i <= Len(s))
    <3>1. i - Len(s) \in 1..Len(u)
      BY <1>2, <2>3
    <3> QED
      BY <1>1, <1>2, <2>3, <3>1 DEF Range
  <2> QED
    BY <2>2, <2>3
<1>4. ASSUME NEW i \in 1..Len(s) PROVE s[i] \in Range(s \o u)
  <2>1. i \in 1..(Len(s) + Len(u)) /\ (s \o u)[i] = s[i]
    BY <1>1, <1>2
  <2> QED
    BY <1>2, <2>1 DEF Range
<1>5. ASSUME NEW i \in 1..Len(u) PROVE u[i] \in Range(s \o u)
  <2>1. /\ Len(s) + i \in 1..(Len(s) + Len(u)) /\ ~ (Len(s) + i <= Len(s))
        /\ (Len(s) + i) - Len(s) = i
    BY <1>2
  <2>2. (s \o u)[Len(s) + i] = u[i]
    BY <1>1, <2>1
  <2> QED
    BY <1>2, <2>1, <2>2 DEF Range
<1>6. Range(s) \cup Range(u) \subseteq Range(s \o u)
  BY <1>2, <1>4, <1>5 DEF Range
<1> QED
  BY <1>1, <1>3, <1>6

LEMMA SingleFacts ==
  ASSUME NEW S, NEW m \in S
  PROVE  <<m>> \in Seq(S) /\ Range(<<m>>) = {m} /\ Rising(<<m>>)
<1>1. <<m>> \in Seq(S) /\ DOMAIN <<m>> = {1} /\ <<m>>[1] = m
  OBVIOUS
<1> QED
  BY <1>1 DEF Range, Rising

LEMMA EmptyFacts ==
  ASSUME NEW S
  PROVE  <<>> \in Seq(S) /\ Range(<<>>) = {} /\ Rising(<<>>)
BY DEF Range, Rising

LEMMA AppendedFacts ==
  ASSUME NEW S, NEW s \in Seq(S), NEW m \in S
  PROVE  /\ Append(s, m) \in Seq(S)
         /\ Append(s, m) = s \o <<m>>
         /\ Range(Append(s, m)) = Range(s) \cup {m}
<1>1. Append(s, m) \in Seq(S) /\ Append(s, m) = s \o <<m>>
  BY AppendProperties, AppendIsConcat
<1>2. <<m>> \in Seq(S) /\ Range(<<m>>) = {m}
  BY SingleFacts
<1>3. Range(s \o <<m>>) = Range(s) \cup Range(<<m>>)
  <2> DEFINE u == <<m>>
  <2>1. u \in Seq(S)
    BY <1>2
  <2> HIDE DEF u
  <2>2. Range(s \o u) = Range(s) \cup Range(u)
    BY <2>1, JoinedFacts
  <2> QED
    BY <2>2 DEF u
<1> QED
  BY <1>1, <1>2, <1>3

LEMMA RisingTail ==
  ASSUME NEW S, NEW s \in Seq(S), s # <<>>, Rising(s)
  PROVE  /\ Rising(Tail(s))
         /\ Head(s).type = "frame" => Before({Head(s)}, FramesOf(Tail(s)))
<1>1. /\ Len(Tail(s)) = Len(s) - 1
      /\ \A i \in 1..Len(Tail(s)) : Tail(s)[i] = s[i + 1]
      /\ Len(s) \in Nat \ {0}
      /\ DOMAIN s = 1..Len(s) /\ DOMAIN Tail(s) = 1..Len(Tail(s))
      /\ Head(s) = s[1]
  BY HeadTailProperties, EmptySeq, LenProperties
<1>2. \A i \in 1..Len(Tail(s)) : i + 1 \in DOMAIN s /\ 1 < i + 1
  BY <1>1
<1>3. \A i, j \in 1..Len(Tail(s)) : i < j => i + 1 < j + 1
  OBVIOUS
<1>4. 1 \in DOMAIN s
  BY <1>1
<1>5. Rising(Tail(s))
  BY <1>1, <1>2, <1>3 DEF Rising
<1>6. ASSUME Head(s).type = "frame", NEW m \in FramesOf(Tail(s)), m.who = Head(s).who
      PROVE  Head(s).number < m.number
  <2>1. PICK i \in 1..Len(Tail(s)) : m = Tail(s)[i]
    BY <1>1, <1>6 DEF FramesOf, Range
  <2>2. m = s[i + 1] /\ m.type = "frame"
    BY <1>1, <1>6, <2>1 DEF FramesOf
  <2> QED
    BY <1>1, <1>2, <1>4, <1>6, <2>2 DEF Rising
<1> QED
  BY <1>5, <1>6 DEF Before

LEMMA RisingJoined ==
  ASSUME NEW S, NEW s \in Seq(S), NEW u \in Seq(S),
         Rising(s), Rising(u), Before(FramesOf(s), FramesOf(u))
  PROVE  Rising(s \o u)
<1>1. \A i \in 1..(Len(s) + Len(u)) :
        (s \o u)[i] = IF i <= Len(s) THEN s[i] ELSE u[i - Len(s)]
  BY ConcatProperties
<1>2. /\ Len(s) \in Nat /\ DOMAIN s = 1..Len(s)
      /\ Len(u) \in Nat /\ DOMAIN u = 1..Len(u)
      /\ DOMAIN (s \o u) = 1..(Len(s) + Len(u))
  BY ConcatProperties, LenProperties
<1>3. SUFFICES ASSUME NEW i \in 1..(Len(s) + Len(u)), NEW j \in 1..(Len(s) + Len(u)),
                      i < j,
                      (s \o u)[i].type = "frame", (s \o u)[j].type = "frame",
                      (s \o u)[i].who = (s \o u)[j].who
               PROVE  (s \o u)[i].number < (s \o u)[j].number
  BY <1>2 DEF Rising
<1>4. CASE j <= Len(s)
  <2>1. i \in DOMAIN s /\ j \in DOMAIN s /\ (s \o u)[i] = s[i] /\ (s \o u)[j] = s[j]
    BY <1>1, <1>2, <1>3, <1>4
  <2> QED
    BY <1>3, <2>1 DEF Rising
<1>5. CASE ~ (i <= Len(s))
  <2>1. /\ i - Len(s) \in DOMAIN u /\ j - Len(s) \in DOMAIN u
        /\ i - Len(s) < j - Len(s) /\ ~ (j <= Len(s))
    BY <1>2, <1>3, <1>5
  <2>2. (s \o u)[i] = u[i - Len(s)] /\ (s \o u)[j] = u[j - Len(s)]
    BY <1>1, <1>5, <2>1
  <2> QED
    BY <1>3, <2>1, <2>2 DEF Rising
<1>6. CASE i <= Len(s) /\ ~ (j <= Len(s))
  <2>1. i \in DOMAIN s /\ j - Len(s) \in DOMAIN u
    BY <1>2, <1>3, <1>6
  <2>2. (s \o u)[i] = s[i] /\ (s \o u)[j] = u[j - Len(s)]
    BY <1>1, <1>6
  <2>3. (s \o u)[i] \in FramesOf(s) /\ (s \o u)[j] \in FramesOf(u)
    BY <1>3, <2>1, <2>2 DEF FramesOf, Range
  <2> QED
    BY <1>3, <2>3 DEF Before
<1> QED
  BY <1>4, <1>5, <1>6

-----------------------------------------------------------------------------
(* Type correctness, with the count of bytes it depends on.                *)

LEMMA MessageFacts ==
  /\ Close \in ToRuntime /\ Close.type = "close"
  /\ \A c \in Requests : ToConsumer(c) \in ToRuntime /\ ToConsumer(c).type = "connect"
  /\ Gone \in ToObject /\ Gone.type = "gone"
  /\ \A m \in Frames : m.type = "frame" /\ m.who \in Requests /\ m.number \in Nat
  /\ \A m \in Control : m.type # "frame"
  /\ \A c \in Requests, n \in Nat :
       Frame(c, n) \in Frames /\ Frame(c, n).who = c /\ Frame(c, n).number = n
BY DEF ToRuntime, ToObject, Control, Frames, Close, ToConsumer, Gone, Frame

\* The bytes of a session, and no session without a socket.
Counted == SessionTypeOK /\ NoByteChargedTwice /\ (session # None => link # None)

\* What the runtime's sockets hold after it has sent messages.
LEMMA RuntimeSendsType ==
  ASSUME SessionTypeOK, link # None, NEW messages \in Seq(FromRuntime), RuntimeSends(messages)
  PROVE  /\ fromProvider' \in [Providers -> Seq(FromRuntime)]
         /\ link \in Providers
         /\ fromProvider'[link] = fromProvider[link] \o messages
         /\ \A p \in Providers : p # link => fromProvider'[p] = fromProvider[p]
<1>1. link \in Providers /\ fromProvider \in [Providers -> Seq(FromRuntime)]
  BY DEF SessionTypeOK
<1>2. fromProvider[link] \o messages \in Seq(FromRuntime)
  BY <1>1, JoinedFacts
<1> QED
  BY <1>1, <1>2 DEF RuntimeSends

LEMMA SentToType ==
  ASSUME SessionTypeOK, NEW p, NEW messages \in Seq(ToRuntime)
  PROVE  /\ SentTo(p, messages) \in Seq(ToRuntime)
         /\ Range(SentTo(p, messages)) \subseteq Range(toProvider) \cup Range(messages)
         /\ SentTo(p, messages) \in {toProvider, toProvider \o messages}
<1>1. toProvider \in Seq(ToRuntime)
  BY DEF SessionTypeOK
<1>2. /\ toProvider \o messages \in Seq(ToRuntime)
      /\ Range(toProvider \o messages) = Range(toProvider) \cup Range(messages)
  BY <1>1, JoinedFacts
<1> QED
  BY <1>1, <1>2 DEF SentTo

LEMMA RuntimeMessages ==
  /\ \A m \in FromRuntime : <<m>> \in Seq(FromRuntime) /\ Range(<<m>>) = {m}
  /\ <<"error", "closed">> \in Seq(FromRuntime)
<1>1. ASSUME NEW m \in FromRuntime
      PROVE  <<m>> \in Seq(FromRuntime) /\ Range(<<m>>) = {m}
  BY <1>1, SingleFacts
<1>2. <<"error", "closed">> \in Seq(FromRuntime)
  BY DEF FromRuntime
<1> QED
  BY <1>1, <1>2

\* The types of what the runtime and the consumers do not touch.
LEMMA CloseType ==
  ASSUME SessionTypeOK, CloseConsumer
  PROVE  client' \in [Requests -> ClientState]
BY DEF SessionTypeOK, CloseConsumer, ClientState

\* A step of the object: what it changes, and what it cannot.
LEMMA ObjectStep ==
  ASSUME Counted,
         provider' \in Providers \cup {None}, consumer' \in Requests \cup {None},
         providerReady' \in BOOLEAN,
         consumerBytes' \in Nat, unreported' \in Nat, consumerBytes' <= unreported',
         consumerBuffer' \in Seq(Frames), Len(consumerBuffer') <= BufferLimit,
         waiting' \subseteq Requests, client' \in [Requests -> ClientState],
         toProvider' \in Seq(ToRuntime),
         fromProvider' \in [Providers -> Seq(FromRuntime)],
         fromConsumer' \in [Requests -> Seq(ToObject)],
         UNCHANGED <<runtimeVars, sent, served, data>>
  PROVE  Counted'
BY DEF Counted, SessionTypeOK, NoByteChargedTwice, runtimeVars

LEMMA ResetType ==
  ASSUME consumer' = None, consumerBytes' = 0, consumerBuffer' = <<>>, providerReady' = FALSE
  PROVE  /\ consumer' \in Requests \cup {None} /\ providerReady' \in BOOLEAN
         /\ consumerBytes' \in Nat
         /\ consumerBuffer' \in Seq(Frames) /\ Len(consumerBuffer') <= BufferLimit
<1>1. consumerBuffer' \in Seq(Frames)
  OBVIOUS
<1>2. Len(consumerBuffer') <= BufferLimit
  BY RelayAssumption
<1> QED
  BY <1>1, <1>2

LEMMA CountedInit == SessionInit => Counted
<1>1. SUFFICES ASSUME SessionInit PROVE Counted
  OBVIOUS
<1>2. /\ provider \in Providers \cup {None} /\ consumer \in Requests \cup {None}
      /\ providerReady \in BOOLEAN
      /\ waiting \subseteq Requests
      /\ link \in Providers \cup {None} /\ session \in Requests \cup {None}
      /\ unused \subseteq Providers
      /\ session # None => link # None
  BY <1>1 DEF SessionInit
<1>3. consumerBytes \in Nat /\ unreported \in Nat /\ data \in Nat /\ NoByteChargedTwice
  BY <1>1 DEF SessionInit, NoByteChargedTwice
<1>4. consumerBuffer \in Seq(Frames) /\ toProvider \in Seq(ToRuntime)
  BY <1>1 DEF SessionInit
<1>5. Len(consumerBuffer) <= BufferLimit
  BY <1>1, RelayAssumption DEF SessionInit
<1>6. client \in [Requests -> ClientState] /\ sent \in [Requests -> Nat]
  BY <1>1 DEF SessionInit, ClientState
<1>7. fromProvider \in [Providers -> Seq(FromRuntime)]
  BY <1>1 DEF SessionInit
<1>8. fromConsumer \in [Requests -> Seq(ToObject)] /\ served \in [Requests -> Seq(Frames)]
  BY <1>1 DEF SessionInit
<1> QED
  BY <1>2, <1>3, <1>4, <1>5, <1>6, <1>7, <1>8 DEF Counted, SessionTypeOK

LEMMA CountedStep == Counted /\ [SessionNext]_sessionVars => Counted'
<1>1. SUFFICES ASSUME Counted, [SessionNext]_sessionVars PROVE Counted'
  OBVIOUS
<1>2. SessionTypeOK /\ NoByteChargedTwice /\ (session # None => link # None)
  BY <1>1 DEF Counted
<1>3. /\ consumerBytes \in Nat /\ unreported \in Nat /\ consumerBytes <= unreported
      /\ toProvider \in Seq(ToRuntime) /\ consumerBuffer \in Seq(Frames)
      /\ provider \in Providers \cup {None} /\ consumer \in Requests \cup {None}
      /\ providerReady \in BOOLEAN /\ waiting \subseteq Requests
      /\ client \in [Requests -> ClientState] /\ Len(consumerBuffer) <= BufferLimit
      /\ fromProvider \in [Providers -> Seq(FromRuntime)]
      /\ fromConsumer \in [Requests -> Seq(ToObject)]
      /\ served \in [Requests -> Seq(Frames)]
  BY <1>2 DEF SessionTypeOK, NoByteChargedTwice
<1>4. \A c \in Requests : <<ToConsumer(c)>> \in Seq(ToRuntime)
  <2>1. ASSUME NEW c \in Requests PROVE <<ToConsumer(c)>> \in Seq(ToRuntime)
    BY MessageFacts, SingleFacts
  <2> QED
    BY <2>1
<1>5. <<Close>> \in Seq(ToRuntime)
  BY MessageFacts, SingleFacts
<1>6. consumerBuffer \in Seq(ToRuntime)
  <2>1. Frames \subseteq ToRuntime
    BY DEF ToRuntime
  <2> QED
    BY <1>3, <2>1, SeqMonotonic
<1>7. ASSUME NEW p \in Providers, AcceptProvider(p) PROVE Counted'
  <2>1. fromProvider' \in [Providers -> Seq(FromRuntime)]
    <3>1. ASSUME NEW q \in Providers
          PROVE  (IF q = link THEN Append(fromProvider[q], "gone") ELSE fromProvider[q])
                   \in Seq(FromRuntime)
      <4>1. fromProvider[q] \in Seq(FromRuntime) /\ "gone" \in FromRuntime
        BY <1>3 DEF FromRuntime
      <4>2. Append(fromProvider[q], "gone") \in Seq(FromRuntime)
        BY <4>1, AppendProperties
      <4> QED
        BY <4>1, <4>2
    <3> QED
      BY <1>7, <3>1 DEF AcceptProvider
  <2>2. toProvider' \in Seq(ToRuntime)
    BY <1>7 DEF AcceptProvider
  <2>3. /\ session' = None /\ link' = p /\ unused' \subseteq Providers
        /\ provider' = p /\ providerReady' \in BOOLEAN
        /\ UNCHANGED <<consumer, consumerBytes, consumerBuffer, waiting, clientVars,
                       fromConsumer, ghosts>>
    BY <1>2, <1>7 DEF AcceptProvider, SessionTypeOK
  <2> QED
    BY <1>2, <2>1, <2>2, <2>3 DEF clientVars, ghosts, Counted, SessionTypeOK, NoByteChargedTwice
<1>8. ASSUME NEW c \in Requests, AskForProvider(c) PROVE Counted'
  BY <1>2, <1>8 DEF AskForProvider, ClientState, objectVars, runtimeVars, ghosts, Counted, SessionTypeOK,
     NoByteChargedTwice
<1>9. ASSUME NEW c \in Requests, RefuseConsumer(c) PROVE Counted'
  BY <1>2, <1>9 DEF RefuseConsumer, ClientState, objectVars, runtimeVars, ghosts, Counted, SessionTypeOK,
     NoByteChargedTwice
<1>10. ASSUME NEW c \in Requests, AcceptConsumer(c) PROVE Counted'
  <2>1. toProvider' \in Seq(ToRuntime)
    BY <1>2, <1>4, <1>10, SentToType DEF AcceptConsumer
  <2>2. /\ consumer' \in Requests \cup {None}
        /\ consumerBytes' = 0 /\ unreported' = unreported
    BY <1>10 DEF AcceptConsumer, ghosts
  <2>7. providerReady' \in BOOLEAN
    BY <1>10 DEF AcceptConsumer
  <2>8. consumerBytes' \in Nat /\ consumerBytes' <= unreported'
    BY <1>3, <2>2
  <2>3. consumerBuffer' \in Seq(Frames)
    BY <1>10 DEF AcceptConsumer
  <2>4. Len(consumerBuffer') <= BufferLimit
    BY <1>10, RelayAssumption DEF AcceptConsumer
  <2>5. waiting' \subseteq Requests /\ client' \in [Requests -> ClientState]
    BY <1>3, <1>10 DEF AcceptConsumer, ClientState
  <2>6. UNCHANGED <<provider, runtimeVars, sent, fromProvider, fromConsumer, ghosts>>
    BY <1>10 DEF AcceptConsumer
  <2> QED
    BY <1>1, <1>3, <2>1, <2>2, <2>3, <2>4, <2>5, <2>6, <2>7, <2>8, ObjectStep DEF ghosts
<1>11. ASSUME NEW p \in Providers, FromProvider(p) PROVE Counted'
  <2>1. fromProvider' \in [Providers -> Seq(FromRuntime)]
    <3>1. fromProvider[p] \in Seq(FromRuntime) /\ fromProvider[p] # <<>>
      BY <1>3, <1>11 DEF FromProvider
    <3>2. Tail(fromProvider[p]) \in Seq(FromRuntime)
      BY <3>1, TakenFacts
    <3> QED
      BY <1>3, <1>11, <3>2 DEF FromProvider
  <2>2. UNCHANGED <<waiting, runtimeVars, sent, fromConsumer, served, data>>
    BY <1>11 DEF FromProvider
  <2>3. CASE OnReady
    <3>1. toProvider' \in Seq(ToRuntime)
      BY <1>2, <1>3, <1>6, <2>3, SentToType DEF OnReady
    <3>2. consumerBuffer' \in Seq(Frames)
      <4>1. CASE provider = None
        BY <1>3, <2>3, <4>1 DEF OnReady
      <4>2. CASE provider # None
        <5>1. consumerBuffer' = <<>>
          BY <2>3, <4>2 DEF OnReady
        <5> QED
          BY <5>1
      <4> QED
        BY <4>1, <4>2
    <3>3. Len(consumerBuffer') <= BufferLimit
      BY <1>3, <2>3, RelayAssumption DEF OnReady
    <3>4. /\ providerReady' \in BOOLEAN
          /\ UNCHANGED <<provider, consumer, consumerBytes, client, unreported>>
      BY <2>3 DEF OnReady
    <3> QED
      BY <1>1, <1>3, <2>1, <2>2, <3>1, <3>2, <3>3, <3>4, ObjectStep
  <2>4. CASE OnSessionEnd
    <3>1. unreported' \in Nat /\ consumerBytes' = 0
      BY <1>3, <2>4 DEF OnSessionEnd, FlushConsumerQuota, ResetConsumerState
    <3>2. /\ consumer' \in Requests \cup {None} /\ providerReady' \in BOOLEAN
          /\ consumerBytes' \in Nat
          /\ consumerBuffer' \in Seq(Frames) /\ Len(consumerBuffer') <= BufferLimit
      BY <2>4, ResetType DEF OnSessionEnd, ResetConsumerState
    <3>3. client' \in [Requests -> ClientState]
      BY <1>2, <2>4, CloseType DEF OnSessionEnd
    <3>4. UNCHANGED <<provider, toProvider>> /\ consumerBytes' <= unreported'
      BY <2>4, <3>1 DEF OnSessionEnd
    <3> QED
      BY <1>1, <1>3, <2>1, <2>2, <3>1, <3>2, <3>3, <3>4, ObjectStep
  <2>5. CASE OnProviderData
    BY <1>2, <2>1, <2>2, <2>5
    DEF OnProviderData, CountOne, runtimeVars, Counted, SessionTypeOK, NoByteChargedTwice
  <2>6. CASE OnProviderGone
    <3>1. /\ consumer' \in Requests \cup {None} /\ providerReady' \in BOOLEAN
          /\ consumerBytes' \in Nat /\ consumerBytes' = 0
          /\ consumerBuffer' \in Seq(Frames) /\ Len(consumerBuffer') <= BufferLimit
      BY <2>6, ResetType DEF OnProviderGone, ResetConsumerState
    <3>2. client' \in [Requests -> ClientState]
      BY <1>2, <2>6, CloseType DEF OnProviderGone
    <3>3. provider' = None /\ UNCHANGED <<toProvider, unreported>>
      BY <2>6 DEF OnProviderGone
    <3>4. consumerBytes' <= unreported'
      BY <1>3, <3>1, <3>3
    <3> QED
      BY <1>1, <1>3, <2>1, <2>2, <3>1, <3>2, <3>3, <3>4, ObjectStep
  <2> QED
    BY <1>11, <2>3, <2>4, <2>5, <2>6 DEF FromProvider
<1>12. ASSUME NEW c \in Requests, FromConsumer(c) PROVE Counted'
  <2> DEFINE m == Head(fromConsumer[c])
  <2>1. m \in ToObject /\ Tail(fromConsumer[c]) \in Seq(ToObject)
    <3>1. fromConsumer[c] \in Seq(ToObject) /\ fromConsumer[c] # <<>>
      BY <1>3, <1>12 DEF FromConsumer
    <3> QED
      BY <3>1, TakenFacts
  <2>2. fromConsumer' \in [Requests -> Seq(ToObject)]
    BY <1>3, <1>12, <2>1 DEF FromConsumer
  <2>3. UNCHANGED <<waiting, runtimeVars, sent, fromProvider, served, data>>
    BY <1>12 DEF FromConsumer
  <2>4. (m # Gone /\ OnConsumerFrame(c, m)) \/ OnConsumerGone
    BY <1>12 DEF FromConsumer
  <2> HIDE DEF m
  <2>5. CASE m # Gone /\ OnConsumerFrame(c, m)
    <3>1. m \in Frames /\ m \in ToRuntime
      BY <2>1, <2>5 DEF ToObject, ToRuntime
    <3>2. <<m>> \in Seq(ToRuntime)
      BY <3>1, SingleFacts
    <3>3. UNCHANGED provider
      BY <2>5 DEF OnConsumerFrame
    <3>4. CASE /\ toProvider' = SentTo(provider, <<m>>) /\ CountOne
               /\ UNCHANGED <<consumer, providerReady, consumerBuffer, client>>
      <4>1. toProvider' \in Seq(ToRuntime)
        BY <1>2, <3>2, <3>4, SentToType
      <4>2. consumerBytes' \in Nat /\ unreported' \in Nat /\ consumerBytes' <= unreported'
        BY <1>3, <3>4 DEF CountOne
      <4>3. UNCHANGED <<consumer, providerReady, consumerBuffer, client>>
        BY <3>4
      <4> QED
        BY <1>1, <1>3, <2>2, <2>3, <3>3, <4>1, <4>2, <4>3, ObjectStep
    <3>5. CASE /\ Len(consumerBuffer) < BufferLimit
               /\ consumerBuffer' = Append(consumerBuffer, m) /\ CountOne
               /\ UNCHANGED <<consumer, providerReady, toProvider, client>>
      <4>1. /\ Append(consumerBuffer, m) \in Seq(Frames)
            /\ Len(Append(consumerBuffer, m)) = Len(consumerBuffer) + 1
            /\ Len(consumerBuffer) \in Nat
        BY <1>3, <3>1, AppendProperties, LenProperties
      <4>2. consumerBuffer' \in Seq(Frames) /\ Len(consumerBuffer') <= BufferLimit
        BY <3>5, <4>1, RelayAssumption
      <4>3. consumerBytes' \in Nat /\ unreported' \in Nat /\ consumerBytes' <= unreported'
        BY <1>3, <3>5 DEF CountOne
      <4>4. UNCHANGED <<consumer, providerReady, toProvider, client>>
        BY <3>5
      <4> QED
        BY <1>1, <1>3, <2>2, <2>3, <3>3, <4>2, <4>3, <4>4, ObjectStep
    <3>6. CASE /\ CloseConsumer /\ FlushConsumerQuota /\ ResetConsumerState
               /\ UNCHANGED toProvider
      <4>1. unreported' \in Nat /\ consumerBytes' = 0
        BY <1>3, <3>6 DEF FlushConsumerQuota, ResetConsumerState
      <4>2. /\ consumer' \in Requests \cup {None} /\ providerReady' \in BOOLEAN
            /\ consumerBytes' \in Nat
            /\ consumerBuffer' \in Seq(Frames) /\ Len(consumerBuffer') <= BufferLimit
        BY <3>6, ResetType DEF ResetConsumerState
      <4>3. client' \in [Requests -> ClientState]
        BY <1>2, <3>6, CloseType
      <4>4. UNCHANGED toProvider /\ consumerBytes' <= unreported'
        BY <3>6, <4>1
      <4> QED
        BY <1>1, <1>3, <2>2, <2>3, <3>3, <4>1, <4>2, <4>3, <4>4, ObjectStep
    <3> QED
      BY <2>5, <3>4, <3>5, <3>6 DEF OnConsumerFrame
  <2>6. CASE OnConsumerGone
    <3>1. toProvider' \in Seq(ToRuntime)
      BY <1>2, <1>5, <2>6, SentToType DEF OnConsumerGone
    <3>2. unreported' \in Nat /\ consumerBytes' = 0
      BY <1>3, <2>6 DEF OnConsumerGone, FlushConsumerQuota, ResetConsumerState
    <3>3. /\ consumer' \in Requests \cup {None} /\ providerReady' \in BOOLEAN
          /\ consumerBytes' \in Nat
          /\ consumerBuffer' \in Seq(Frames) /\ Len(consumerBuffer') <= BufferLimit
      BY <2>6, ResetType DEF OnConsumerGone, ResetConsumerState
    <3>4. UNCHANGED <<provider, client>> /\ consumerBytes' <= unreported'
      BY <2>6, <3>2 DEF OnConsumerGone
    <3> QED
      BY <1>1, <1>3, <2>2, <2>3, <3>1, <3>2, <3>3, <3>4, ObjectStep
  <2> QED
    BY <2>4, <2>5, <2>6
<1>13. ASSUME NEW c \in Requests, SendFrame(c) PROVE Counted'
  <2>1. sent[c] + 1 \in Nat /\ sent' \in [Requests -> Nat]
    BY <1>2, <1>13 DEF SendFrame, SessionTypeOK
  <2>2. Append(fromConsumer[c], Frame(c, sent[c] + 1)) \in Seq(ToObject)
    <3>1. fromConsumer[c] \in Seq(ToObject)
      BY <1>3
    <3>2. Frame(c, sent[c] + 1) \in ToObject
      BY <2>1, MessageFacts DEF ToObject
    <3> QED
      BY <3>1, <3>2, AppendProperties
  <2> QED
    BY <1>2, <1>13, <2>1, <2>2
    DEF SendFrame, objectVars, runtimeVars, ghosts, Counted, SessionTypeOK, NoByteChargedTwice
<1>14. ASSUME NEW c \in Requests, Leave(c) PROVE Counted'
  <2>1. Append(fromConsumer[c], Gone) \in Seq(ToObject)
    <3>1. fromConsumer[c] \in Seq(ToObject)
      BY <1>3
    <3>2. Gone \in ToObject
      BY DEF ToObject
    <3> QED
      BY <3>1, <3>2, AppendProperties
  <2> QED
    BY <1>2, <1>14, <2>1
    DEF Leave, ClientState, objectVars, runtimeVars, ghosts, Counted, SessionTypeOK,
        NoByteChargedTwice
<1>15. ASSUME Runtime PROVE Counted'
  <2>1. toProvider # <<>> => /\ Head(toProvider) \in ToRuntime
                             /\ Tail(toProvider) \in Seq(ToRuntime)
    BY <1>3, TakenFacts
  <2>2. \A m \in FromRuntime : link # None /\ RuntimeSends(<<m>>) =>
          fromProvider' \in [Providers -> Seq(FromRuntime)]
    BY <1>2, RuntimeMessages, RuntimeSendsType
  <2>3. CASE TakeConnect
    <3>1. Head(toProvider).who \in Requests
      <4>1. Head(toProvider) \in Frames \cup Control /\ Head(toProvider).type = "connect"
        BY <2>1, <2>3 DEF TakeConnect, ToRuntime
      <4> QED
        BY <4>1 DEF Control, Frames, Close
    <3>2. fromProvider' \in [Providers -> Seq(FromRuntime)]
      BY <1>3, <2>2, <2>3 DEF TakeConnect, FromRuntime
    <3>3. toProvider' \in Seq(ToRuntime)
      BY <2>1, <2>3 DEF TakeConnect
    <3>4. session' \in Requests \cup {None} /\ link # None
      BY <1>2, <2>3, <3>1 DEF TakeConnect, SessionTypeOK
    <3>5. UNCHANGED <<objectVars, waiting, link, unused, clientVars, fromConsumer, ghosts>>
      BY <2>3 DEF TakeConnect
    <3> QED
      BY <1>2, <3>2, <3>3, <3>4, <3>5
      DEF objectVars, clientVars, ghosts, Counted, SessionTypeOK, NoByteChargedTwice
  <2>4. CASE TakeClose
    <3>1. fromProvider' \in [Providers -> Seq(FromRuntime)]
      BY <1>3, <2>2, <2>4 DEF TakeClose, FromRuntime
    <3>2. toProvider' \in Seq(ToRuntime)
      BY <2>1, <2>4 DEF TakeClose
    <3>3. session' \in Requests \cup {None} /\ link # None
      BY <1>2, <2>4 DEF TakeClose, SessionTypeOK
    <3>4. UNCHANGED <<objectVars, waiting, link, unused, clientVars, fromConsumer, ghosts>>
      BY <2>4 DEF TakeClose
    <3> QED
      BY <1>2, <3>1, <3>2, <3>3, <3>4
      DEF objectVars, clientVars, ghosts, Counted, SessionTypeOK, NoByteChargedTwice
  <2>5. CASE TakeFrame
    <3>1. Head(toProvider) \in Frames
      <4>1. Head(toProvider) \in Frames \cup Control /\ Head(toProvider).type = "frame"
        BY <2>1, <2>5 DEF TakeFrame, ToRuntime
      <4> QED
        BY <4>1, MessageFacts
    <3>2. \A c \in Requests : Append(served[c], Head(toProvider)) \in Seq(Frames)
      <4>1. ASSUME NEW c \in Requests
            PROVE  Append(served[c], Head(toProvider)) \in Seq(Frames)
        <5>1. served[c] \in Seq(Frames)
          BY <1>3
        <5> QED
          BY <3>1, <5>1, AppendProperties
      <4> QED
        BY <4>1
    <3>3. served' \in [Requests -> Seq(Frames)]
      BY <1>3, <2>5, <3>2 DEF TakeFrame
    <3>4. toProvider' \in Seq(ToRuntime)
      BY <2>1, <2>5 DEF TakeFrame
    <3>5. UNCHANGED <<objectVars, waiting, runtimeVars, clientVars, fromProvider,
                      fromConsumer, unreported, data>>
      BY <2>5 DEF TakeFrame
    <3> QED
      BY <1>2, <3>3, <3>4, <3>5
      DEF objectVars, clientVars, runtimeVars, Counted, SessionTypeOK, NoByteChargedTwice
  <2>6. CASE TargetSends
    <3>1. fromProvider' \in [Providers -> Seq(FromRuntime)]
      BY <1>2, <2>2, <2>6 DEF TargetSends, FromRuntime
    <3> QED
      BY <1>2, <2>6, <3>1
      DEF TargetSends, objectVars, clientVars, runtimeVars, Counted, SessionTypeOK, NoByteChargedTwice
  <2>7. CASE TargetEnds
    <3>1. fromProvider' \in [Providers -> Seq(FromRuntime)]
      BY <1>2, <2>7, RuntimeMessages, RuntimeSendsType DEF TargetEnds, FromRuntime
    <3> QED
      BY <1>2, <2>7, <3>1
      DEF TargetEnds, objectVars, clientVars, ghosts, Counted, SessionTypeOK, NoByteChargedTwice
  <2>8. CASE LoseLink
    <3>1. fromProvider' \in [Providers -> Seq(FromRuntime)]
      BY <1>2, <2>2, <2>8 DEF LoseLink, FromRuntime
    <3>2. toProvider' \in Seq(ToRuntime)
      BY <2>8 DEF LoseLink
    <3>3. /\ link' = None /\ session' = None
          /\ UNCHANGED <<objectVars, waiting, unused, clientVars, fromConsumer, ghosts>>
      BY <2>8 DEF LoseLink
    <3> QED
      BY <1>2, <3>1, <3>2, <3>3
      DEF objectVars, clientVars, ghosts, Counted, SessionTypeOK, NoByteChargedTwice
  <2> QED
    BY <1>15, <2>3, <2>4, <2>5, <2>6, <2>7, <2>8 DEF Runtime
<1>16. CASE Hibernate
  <2>1. /\ consumer' \in Requests \cup {None} /\ providerReady' \in BOOLEAN
        /\ consumerBytes' \in Nat /\ consumerBytes' = 0
        /\ consumerBuffer' \in Seq(Frames) /\ Len(consumerBuffer') <= BufferLimit
    BY <1>16, ResetType DEF Hibernate
  <2>2. /\ provider' = None
        /\ UNCHANGED <<waiting, runtimeVars, clientVars, toProvider, fromProvider,
                       fromConsumer, ghosts>>
    BY <1>16 DEF Hibernate
  <2>3. consumerBytes' <= unreported'
    BY <1>3, <2>1, <2>2 DEF ghosts
  <2> QED
    BY <1>1, <1>3, <2>1, <2>2, <2>3, ObjectStep DEF ghosts, clientVars
<1>17. CASE UNCHANGED sessionVars
  BY <1>2, <1>17
  DEF sessionVars, objectVars, runtimeVars, clientVars, ghosts, Counted, SessionTypeOK, NoByteChargedTwice
<1> QED
  BY <1>1, <1>7, <1>8, <1>9, <1>10, <1>11, <1>12, <1>13, <1>14, <1>15, <1>16, <1>17
  DEF SessionNext

\* In every reachable state of RelaySession the fields of the object, the
\* queues and the runtime are of their types; the buffer keeps its limit.
THEOREM TypeCorrect == SessionSpec => []SessionTypeOK
<1>1. Counted => SessionTypeOK
  BY DEF Counted
<1> QED
  BY CountedInit, CountedStep, <1>1, PTL DEF SessionSpec

\* The object never charges a byte twice: whatever it will report for the
\* attached consumer has been carried and not been reported (flushConsumerQuota
\* and resetConsumerState, on every way a session ends).
THEOREM BytesCorrect == SessionSpec => []NoByteChargedTwice
<1>1. Counted => NoByteChargedTwice
  BY DEF Counted
<1> QED
  BY CountedInit, CountedStep, <1>1, PTL DEF SessionSpec

-----------------------------------------------------------------------------
(* The consumer that leaves.                                               *)

LEMMA QuietDeparture ==
  ASSUME DepartureFreesTheProvider,
         consumer' \in {consumer, None},
         \A c \in Requests : client'[c] = "left" => client[c] = "left",
         \A c \in Requests :
           Gone \in Range(fromConsumer[c]) => Gone \in Range(fromConsumer'[c])
  PROVE  DepartureFreesTheProvider'
BY RelayAssumption DEF DepartureFreesTheProvider

LEMMA ClosedNotLeft ==
  ASSUME CloseConsumer, NEW c \in Requests, client'[c] = "left"
  PROVE  client[c] = "left"
BY DEF CloseConsumer

\* The queue of a consumer that has sent m.
LEMMA SentFacts ==
  ASSUME SessionTypeOK, NEW c \in Requests, NEW m \in ToObject,
         fromConsumer' = [fromConsumer EXCEPT ![c] = Append(@, m)]
  PROVE  /\ fromConsumer'[c] = fromConsumer[c] \o <<m>>
         /\ fromConsumer[c] \in Seq(ToObject) /\ <<m>> \in Seq(ToObject)
         /\ Range(fromConsumer'[c]) = Range(fromConsumer[c]) \cup {m}
         /\ \A d \in Requests : d # c => fromConsumer'[d] = fromConsumer[d]
<1>1. fromConsumer[c] \in Seq(ToObject)
  BY DEF SessionTypeOK
<1>2. /\ Append(fromConsumer[c], m) = fromConsumer[c] \o <<m>>
      /\ Range(Append(fromConsumer[c], m)) = Range(fromConsumer[c]) \cup {m}
  BY <1>1, AppendedFacts
<1>3. /\ fromConsumer'[c] = Append(fromConsumer[c], m)
      /\ \A d \in Requests : d # c => fromConsumer'[d] = fromConsumer[d]
  BY DEF SessionTypeOK
<1>4. <<m>> \in Seq(ToObject)
  BY SingleFacts
<1> QED
  BY <1>1, <1>2, <1>3, <1>4

\* The queue of a consumer whose first message the object has taken.
LEMMA TakenFromConsumer ==
  ASSUME SessionTypeOK, NEW c \in Requests, fromConsumer[c] # <<>>,
         fromConsumer' = [fromConsumer EXCEPT ![c] = Tail(@)]
  PROVE  /\ Head(fromConsumer[c]) \in ToObject
         /\ fromConsumer[c] \in Seq(ToObject)
         /\ fromConsumer'[c] = Tail(fromConsumer[c])
         /\ Range(fromConsumer[c]) =
              {Head(fromConsumer[c])} \cup Range(fromConsumer'[c])
         /\ \A d \in Requests : d # c => fromConsumer'[d] = fromConsumer[d]
<1>1. fromConsumer[c] \in Seq(ToObject)
  BY DEF SessionTypeOK
<1>2. /\ Head(fromConsumer[c]) \in ToObject
      /\ Range(fromConsumer[c]) = {Head(fromConsumer[c])} \cup Range(Tail(fromConsumer[c]))
  BY <1>1, TakenFacts
<1>3. /\ fromConsumer'[c] = Tail(fromConsumer[c])
      /\ \A d \in Requests : d # c => fromConsumer'[d] = fromConsumer[d]
  BY DEF SessionTypeOK
<1> QED
  BY <1>1, <1>2, <1>3

LEMMA DepartureStep ==
  Counted /\ DepartureFreesTheProvider /\ [SessionNext]_sessionVars => DepartureFreesTheProvider'
<1>1. SUFFICES ASSUME Counted, DepartureFreesTheProvider, [SessionNext]_sessionVars
               PROVE  DepartureFreesTheProvider'
  OBVIOUS
<1>2. SessionTypeOK
  BY <1>1 DEF Counted
<1>3. ASSUME UNCHANGED <<consumer, client, fromConsumer>>
      PROVE  DepartureFreesTheProvider'
  BY <1>1, <1>3, QuietDeparture
<1>4. ASSUME NEW p \in Providers, AcceptProvider(p) PROVE DepartureFreesTheProvider'
  BY <1>3, <1>4 DEF AcceptProvider, clientVars
<1>5. ASSUME NEW c \in Requests, AskForProvider(c) PROVE DepartureFreesTheProvider'
  <2>1. \A d \in Requests : client'[d] = "left" => client[d] = "left"
    BY <1>2, <1>5 DEF AskForProvider, SessionTypeOK
  <2> QED
    BY <1>1, <1>5, <2>1, QuietDeparture DEF AskForProvider, objectVars
<1>6. ASSUME NEW c \in Requests, RefuseConsumer(c) PROVE DepartureFreesTheProvider'
  <2>1. \A d \in Requests : client'[d] = "left" => client[d] = "left"
    BY <1>2, <1>6 DEF RefuseConsumer, SessionTypeOK
  <2> QED
    BY <1>1, <1>6, <2>1, QuietDeparture DEF RefuseConsumer, objectVars
<1>7. ASSUME NEW c \in Requests, AcceptConsumer(c) PROVE DepartureFreesTheProvider'
  <2>1. /\ consumer' \in {None, c} /\ client'[c] # "left"
    BY <1>2, <1>7 DEF AcceptConsumer, SessionTypeOK
  <2> QED
    BY <2>1, RelayAssumption DEF DepartureFreesTheProvider
<1>8. ASSUME NEW p \in Providers, FromProvider(p) PROVE DepartureFreesTheProvider'
  <2>1. UNCHANGED fromConsumer
    BY <1>8 DEF FromProvider
  <2>2. OnReady \/ OnSessionEnd \/ OnProviderData \/ OnProviderGone
    BY <1>8 DEF FromProvider
  <2>3. CASE OnReady \/ OnProviderData
    BY <1>3, <2>1, <2>3 DEF OnReady, OnProviderData
  <2>4. CASE OnSessionEnd \/ OnProviderGone
    <3>1. CloseConsumer /\ consumer' = None
      BY <2>4 DEF OnSessionEnd, OnProviderGone, ResetConsumerState
    <3> QED
      BY <3>1, RelayAssumption DEF DepartureFreesTheProvider
  <2> QED
    BY <2>2, <2>3, <2>4
<1>9. ASSUME NEW c \in Requests, FromConsumer(c) PROVE DepartureFreesTheProvider'
  <2> DEFINE m == Head(fromConsumer[c])
  <2>1. fromConsumer[c] # <<>> /\ fromConsumer' = [fromConsumer EXCEPT ![c] = Tail(@)]
    BY <1>9 DEF FromConsumer
  <2>2. /\ Range(fromConsumer[c]) = {m} \cup Range(fromConsumer'[c])
        /\ \A d \in Requests : d # c => fromConsumer'[d] = fromConsumer[d]
    BY <1>2, <2>1, TakenFromConsumer
  <2>3. (m # Gone /\ OnConsumerFrame(c, m)) \/ OnConsumerGone
    BY <1>9 DEF FromConsumer
  <2> HIDE DEF m
  <2>4. CASE m # Gone /\ OnConsumerFrame(c, m)
    <3>1. \A d \in Requests :
            Gone \in Range(fromConsumer[d]) => Gone \in Range(fromConsumer'[d])
      BY <2>2, <2>4
    <3>2. \/ UNCHANGED <<consumer, client>>
          \/ CloseConsumer /\ consumer' = None
      BY <2>4 DEF OnConsumerFrame, ResetConsumerState
    <3>3. CASE UNCHANGED <<consumer, client>>
      BY <1>1, <3>1, <3>3, QuietDeparture
    <3>4. CASE consumer' = None
      BY <3>4, RelayAssumption DEF DepartureFreesTheProvider
    <3> QED
      BY <3>2, <3>3, <3>4
  <2>5. CASE OnConsumerGone
    BY <2>5, RelayAssumption DEF OnConsumerGone, ResetConsumerState, DepartureFreesTheProvider
  <2> QED
    BY <2>3, <2>4, <2>5
<1>10. ASSUME NEW c \in Requests, SendFrame(c) PROVE DepartureFreesTheProvider'
  <2>1. Frame(c, sent[c] + 1) \in ToObject
    BY <1>2, MessageFacts DEF ToObject, SessionTypeOK
  <2>2. UNCHANGED <<consumer, client>>
        /\ fromConsumer' = [fromConsumer EXCEPT ![c] = Append(@, Frame(c, sent[c] + 1))]
    BY <1>10 DEF SendFrame, objectVars
  <2>3. \A d \in Requests : Range(fromConsumer[d]) \subseteq Range(fromConsumer'[d])
    BY <1>2, <2>1, <2>2, SentFacts
  <2> QED
    BY <1>1, <2>2, <2>3, QuietDeparture
<1>11. ASSUME NEW c \in Requests, Leave(c) PROVE DepartureFreesTheProvider'
  <2>1. Gone \in ToObject
    BY MessageFacts
  <2>2. fromConsumer' = [fromConsumer EXCEPT ![c] = Append(@, Gone)]
    BY <1>11 DEF Leave
  <2>3. /\ Gone \in Range(fromConsumer'[c])
        /\ \A d \in Requests : d # c => fromConsumer'[d] = fromConsumer[d]
    <3>1. /\ Range(fromConsumer'[c]) = Range(fromConsumer[c]) \cup {Gone}
          /\ \A d \in Requests : d # c => fromConsumer'[d] = fromConsumer[d]
      BY <1>2, <2>1, <2>2, SentFacts
    <3> QED
      BY <3>1
  <2>4. /\ consumer' = consumer
        /\ \A d \in Requests : d # c => client'[d] = client[d]
    BY <1>2, <1>11 DEF Leave, objectVars, SessionTypeOK
  <2> QED
    BY <1>1, <2>3, <2>4 DEF DepartureFreesTheProvider
<1>12. CASE Runtime
  BY <1>3, <1>12
  DEF Runtime, TakeConnect, TakeClose, TakeFrame, TargetSends, TargetEnds, LoseLink,
      objectVars, clientVars
<1>13. CASE Hibernate
  BY <1>13, RelayAssumption DEF Hibernate, DepartureFreesTheProvider
<1>14. CASE UNCHANGED sessionVars
  BY <1>3, <1>14 DEF sessionVars, objectVars, clientVars
<1> QED
  BY <1>1, <1>4, <1>5, <1>6, <1>7, <1>8, <1>9, <1>10, <1>11, <1>12, <1>13, <1>14 DEF SessionNext

\* A consumer that has left does not keep the provider busy, whatever was being
\* set up when it left and whichever event of another socket came between.
THEOREM DepartureCorrect == SessionSpec => []DepartureFreesTheProvider
<1>1. SessionInit => DepartureFreesTheProvider
  BY RelayAssumption DEF SessionInit, DepartureFreesTheProvider
<1> QED
  BY CountedInit, CountedStep, <1>1, DepartureStep, PTL DEF SessionSpec

-----------------------------------------------------------------------------
(* The provider that loses its socket.                                     *)

LEMMA QuietLoss ==
  ASSUME LossIsNoticed, provider' \in {provider, None}, link' = link,
         \A p \in Providers :
           "gone" \in Range(fromProvider[p]) => "gone" \in Range(fromProvider'[p])
  PROVE  LossIsNoticed'
BY RelayAssumption DEF LossIsNoticed

LEMMA LossStep == Counted /\ LossIsNoticed /\ [SessionNext]_sessionVars => LossIsNoticed'
<1>1. SUFFICES ASSUME Counted, LossIsNoticed, [SessionNext]_sessionVars PROVE LossIsNoticed'
  OBVIOUS
<1>2. SessionTypeOK /\ (session # None => link # None)
  BY <1>1 DEF Counted
<1>3. ASSUME UNCHANGED <<provider, link, fromProvider>> PROVE LossIsNoticed'
  BY <1>1, <1>3, QuietLoss
<1>4. ASSUME NEW p \in Providers, AcceptProvider(p) PROVE LossIsNoticed'
  BY <1>1, <1>4 DEF AcceptProvider, LossIsNoticed
<1>5. ASSUME NEW c \in Requests,
             AskForProvider(c) \/ RefuseConsumer(c) \/ AcceptConsumer(c)
               \/ SendFrame(c) \/ Leave(c)
      PROVE  LossIsNoticed'
  BY <1>3, <1>5
  DEF AskForProvider, RefuseConsumer, AcceptConsumer, SendFrame, Leave, objectVars, runtimeVars
<1>6. ASSUME NEW c \in Requests, FromConsumer(c) PROVE LossIsNoticed'
  BY <1>3, <1>6 DEF FromConsumer, OnConsumerFrame, OnConsumerGone, runtimeVars
<1>7. ASSUME NEW p \in Providers, FromProvider(p) PROVE LossIsNoticed'
  <2> DEFINE m == Head(fromProvider[p])
  <2>1. /\ fromProvider[p] # <<>> /\ fromProvider' = [fromProvider EXCEPT ![p] = Tail(@)]
        /\ link' = link
    BY <1>7 DEF FromProvider, runtimeVars
  <2>2. fromProvider[p] \in Seq(FromRuntime)
    BY <1>2 DEF SessionTypeOK
  <2>3. Range(fromProvider[p]) = {m} \cup Range(Tail(fromProvider[p]))
    BY <2>1, <2>2, TakenFacts
  <2>4. \A q \in Providers :
          fromProvider'[q] = IF q = p THEN Tail(fromProvider[p]) ELSE fromProvider[q]
    BY <1>2, <2>1 DEF SessionTypeOK
  <2>5. (m # "gone" /\ provider' = provider) \/ provider' = None
    BY <1>7 DEF FromProvider, OnReady, OnSessionEnd, OnProviderData, OnProviderGone
  <2> HIDE DEF m
  <2>6. CASE m # "gone" /\ provider' = provider
    <3>1. \A q \in Providers :
            "gone" \in Range(fromProvider[q]) => "gone" \in Range(fromProvider'[q])
      BY <2>3, <2>4, <2>6
    <3> QED
      BY <1>1, <2>1, <2>6, <3>1, QuietLoss
  <2>7. CASE provider' = None
    BY <2>7, RelayAssumption DEF LossIsNoticed
  <2> QED
    BY <2>5, <2>6, <2>7
<1>8. ASSUME NEW messages \in Seq(FromRuntime), link # None, RuntimeSends(messages)
      PROVE  /\ \A p \in Providers : Range(fromProvider[p]) \subseteq Range(fromProvider'[p])
             /\ link \in Providers /\ Range(messages) \subseteq Range(fromProvider'[link])
  <2>1. /\ link \in Providers
        /\ fromProvider'[link] = fromProvider[link] \o messages
        /\ \A p \in Providers : p # link => fromProvider'[p] = fromProvider[p]
    BY <1>2, <1>8, RuntimeSendsType
  <2>2. fromProvider[link] \in Seq(FromRuntime)
    BY <1>2, <2>1 DEF SessionTypeOK
  <2>3. Range(fromProvider[link] \o messages) = Range(fromProvider[link]) \cup Range(messages)
    BY <1>8, <2>2, JoinedFacts
  <2> QED
    BY <2>1, <2>3
<1>9. ASSUME Runtime, ~ LoseLink PROVE LossIsNoticed'
  <2>1. provider' = provider /\ link' = link
    BY <1>9 DEF Runtime, TakeConnect, TakeClose, TakeFrame, TargetSends, TargetEnds,
       objectVars, runtimeVars
  <2>2. \/ UNCHANGED fromProvider
        \/ \E messages \in Seq(FromRuntime) : link # None /\ RuntimeSends(messages)
    <3>1. /\ <<"ready">> \in Seq(FromRuntime) /\ <<"error">> \in Seq(FromRuntime)
          /\ <<"closed">> \in Seq(FromRuntime) /\ <<"data">> \in Seq(FromRuntime)
          /\ <<"error", "closed">> \in Seq(FromRuntime)
      BY RuntimeMessages DEF FromRuntime
    <3>2. CASE TakeConnect
      BY <3>1, <3>2 DEF TakeConnect
    <3>3. CASE TakeClose
      BY <3>1, <3>3 DEF TakeClose
    <3>4. CASE TakeFrame
      BY <3>4 DEF TakeFrame
    <3>5. CASE TargetSends
      BY <1>2, <3>1, <3>5 DEF TargetSends
    <3>6. CASE TargetEnds
      BY <1>2, <3>1, <3>6 DEF TargetEnds
    <3> QED
      BY <1>9, <3>2, <3>3, <3>4, <3>5, <3>6 DEF Runtime
  <2>3. \A p \in Providers : Range(fromProvider[p]) \subseteq Range(fromProvider'[p])
    BY <1>8, <2>2
  <2> QED
    BY <1>1, <2>1, <2>3, QuietLoss
<1>10. CASE LoseLink
  <2>1. /\ link # None /\ RuntimeSends(<<"gone">>) /\ link' = None /\ provider' = provider
    BY <1>10 DEF LoseLink, objectVars
  <2>2. <<"gone">> \in Seq(FromRuntime) /\ Range(<<"gone">>) = {"gone"}
    BY RuntimeMessages DEF FromRuntime
  <2>3. /\ \A p \in Providers : Range(fromProvider[p]) \subseteq Range(fromProvider'[p])
        /\ "gone" \in Range(fromProvider'[link])
    BY <1>8, <2>1, <2>2
  <2> QED
    BY <1>1, <2>1, <2>3 DEF LossIsNoticed
<1>11. CASE Hibernate
  BY <1>11, RelayAssumption DEF Hibernate, LossIsNoticed
<1>12. CASE UNCHANGED sessionVars
  BY <1>3, <1>12 DEF sessionVars, objectVars, runtimeVars
<1> QED
  BY <1>1, <1>4, <1>5, <1>6, <1>7, <1>9, <1>10, <1>11, <1>12 DEF SessionNext

\* A provider that lost its socket is registered only while the event that will
\* unregister it is on its way, although the events of a socket it has replaced
\* are handled as its own.
THEOREM LossCorrect == SessionSpec => []LossIsNoticed
<1>1. SessionInit => LossIsNoticed
  BY RelayAssumption DEF SessionInit, LossIsNoticed
<1> QED
  BY CountedInit, CountedStep, <1>1, LossStep, PTL DEF SessionSpec

-----------------------------------------------------------------------------
(* The order of the frames.                                                *)

WasSent(m) == m.number <= sent[m.who]

\* A frame goes from its consumer's queue to the buffer or not, to the
\* runtime's queue and to a target: no stage has overtaken the one before it.
Order ==
  /\ Rising(toProvider) /\ Rising(consumerBuffer)
  /\ providerReady /\ provider # None => consumerBuffer = <<>>
  /\ \A m \in FramesOf(toProvider) \cup FramesOf(consumerBuffer) : WasSent(m)
  /\ Before(FramesOf(toProvider), FramesOf(consumerBuffer))
  /\ \A c \in Requests :
       /\ Rising(fromConsumer[c]) /\ Rising(served[c])
       /\ \A m \in FramesOf(fromConsumer[c]) : m.who = c /\ WasSent(m)
       /\ \A m \in FramesOf(served[c]) : WasSent(m)
       /\ Before(FramesOf(toProvider), FramesOf(fromConsumer[c]))
       /\ Before(FramesOf(consumerBuffer), FramesOf(fromConsumer[c]))
       /\ Before(FramesOf(served[c]), FramesOf(toProvider))
       /\ Before(FramesOf(served[c]), FramesOf(consumerBuffer))
       /\ \A d \in Requests : Before(FramesOf(served[c]), FramesOf(fromConsumer[d]))

\* Frames may be lost anywhere.
LEMMA OrderShrinks ==
  ASSUME Order, UNCHANGED <<sent, served>>,
         Rising(toProvider'), FramesOf(toProvider') \subseteq FramesOf(toProvider),
         Rising(consumerBuffer'),
         FramesOf(consumerBuffer') \subseteq FramesOf(consumerBuffer),
         providerReady' /\ provider' # None => consumerBuffer' = <<>>,
         \A c \in Requests :
           /\ Rising(fromConsumer'[c])
           /\ FramesOf(fromConsumer'[c]) \subseteq FramesOf(fromConsumer[c])
  PROVE  Order'
<1>1. ASSUME NEW A, NEW B, NEW C, NEW D, Before(A, B), C \subseteq A, D \subseteq B
      PROVE  Before(C, D)
  BY <1>1 DEF Before
<1>2. \A m \in FramesOf(toProvider') \cup FramesOf(consumerBuffer') : WasSent(m)'
  BY DEF Order, WasSent
<1>3. Before(FramesOf(toProvider'), FramesOf(consumerBuffer'))
  BY <1>1 DEF Order
<1>4. ASSUME NEW c \in Requests
      PROVE  /\ \A m \in FramesOf(fromConsumer'[c]) : m.who = c /\ WasSent(m)'
             /\ \A m \in FramesOf(served'[c]) : WasSent(m)'
             /\ Rising(served'[c])
  BY DEF Order, WasSent
<1>5. ASSUME NEW c \in Requests
      PROVE  /\ Before(FramesOf(toProvider'), FramesOf(fromConsumer'[c]))
             /\ Before(FramesOf(consumerBuffer'), FramesOf(fromConsumer'[c]))
             /\ Before(FramesOf(served'[c]), FramesOf(toProvider'))
             /\ Before(FramesOf(served'[c]), FramesOf(consumerBuffer'))
  <2>1. /\ Before(FramesOf(toProvider), FramesOf(fromConsumer[c]))
        /\ Before(FramesOf(consumerBuffer), FramesOf(fromConsumer[c]))
        /\ Before(FramesOf(served[c]), FramesOf(toProvider))
        /\ Before(FramesOf(served[c]), FramesOf(consumerBuffer))
    BY Zenon DEF Order
  <2>2. served'[c] = served[c] /\ FramesOf(served'[c]) \subseteq FramesOf(served[c])
    BY Zenon
  <2>3. FramesOf(fromConsumer'[c]) \subseteq FramesOf(fromConsumer[c])
    OBVIOUS
  <2>4. Before(FramesOf(toProvider'), FramesOf(fromConsumer'[c]))
    BY <1>1, <2>1, <2>3, Zenon
  <2>5. Before(FramesOf(consumerBuffer'), FramesOf(fromConsumer'[c]))
    BY <1>1, <2>1, <2>3, Zenon
  <2>6. Before(FramesOf(served'[c]), FramesOf(toProvider'))
    BY <1>1, <2>1, <2>2, Zenon
  <2>7. Before(FramesOf(served'[c]), FramesOf(consumerBuffer'))
    BY <1>1, <2>1, <2>2, Zenon
  <2> QED BY <2>4, <2>5, <2>6, <2>7
<1>6. ASSUME NEW c \in Requests, NEW d \in Requests
      PROVE  Before(FramesOf(served'[c]), FramesOf(fromConsumer'[d]))
  <2>1. Before(FramesOf(served[c]), FramesOf(fromConsumer[d]))
    BY Zenon DEF Order
  <2>2. served'[c] = served[c]
    BY Zenon
  <2>3. FramesOf(fromConsumer'[d]) \subseteq FramesOf(fromConsumer[d])
    OBVIOUS
  <2> QED BY <1>1, <2>1, <2>2, <2>3, Zenon
<1> QED
  BY <1>2, <1>3, <1>4, <1>5, <1>6 DEF Order

LEMMA OrderKept ==
  ASSUME Order, UNCHANGED <<sent, served, toProvider, consumerBuffer, fromConsumer,
                            providerReady, provider>>
  PROVE  Order'
BY DEF Order, WasSent

\* What the control messages and the frames do to a queue.
LEMMA SentToControl ==
  ASSUME SessionTypeOK, Rising(toProvider), NEW p, NEW m \in ToRuntime, m.type # "frame"
  PROVE  /\ Rising(SentTo(p, <<m>>))
         /\ FramesOf(SentTo(p, <<m>>)) = FramesOf(toProvider)
<1>1. toProvider \in Seq(ToRuntime) /\ <<m>> \in Seq(ToRuntime)
      /\ Range(<<m>>) = {m} /\ Rising(<<m>>)
  BY SingleFacts DEF SessionTypeOK
<1> DEFINE u == <<m>>
<1>2. u \in Seq(ToRuntime) /\ Range(u) = {m} /\ Rising(u) /\ FramesOf(u) = {}
  BY <1>1 DEF FramesOf
<1> HIDE DEF u
<1>3. /\ Range(toProvider \o u) = Range(toProvider) \cup Range(u)
      /\ Rising(toProvider \o u)
  BY <1>1, <1>2, JoinedFacts, RisingJoined DEF Before
<1>4. FramesOf(toProvider \o u) = FramesOf(toProvider)
  BY <1>2, <1>3 DEF FramesOf
<1>5. Rising(SentTo(p, u)) /\ FramesOf(SentTo(p, u)) = FramesOf(toProvider)
  BY <1>3, <1>4 DEF SentTo
<1> QED
  BY <1>5 DEF u

LEMMA SentToFrames ==
  ASSUME SessionTypeOK, Rising(toProvider), NEW p, NEW messages \in Seq(ToRuntime),
         Rising(messages), Before(FramesOf(toProvider), FramesOf(messages))
  PROVE  /\ Rising(SentTo(p, messages))
         /\ FramesOf(SentTo(p, messages)) \subseteq FramesOf(toProvider) \cup FramesOf(messages)
<1>1. toProvider \in Seq(ToRuntime)
  BY DEF SessionTypeOK
<1>2. /\ Range(toProvider \o messages) = Range(toProvider) \cup Range(messages)
      /\ Rising(toProvider \o messages)
  BY <1>1, JoinedFacts, RisingJoined
<1>3. FramesOf(toProvider \o messages) = FramesOf(toProvider) \cup FramesOf(messages)
  BY <1>2 DEF FramesOf
<1> QED
  BY <1>2, <1>3 DEF SentTo

\* The frame that the runtime takes goes to the end of one target's sequence.
LEMMA TakeFrameOrder == Counted /\ Order /\ TakeFrame => Order'
<1>1. SUFFICES ASSUME Counted, Order, TakeFrame PROVE Order'
  OBVIOUS
<1> DEFINE m == Head(toProvider)
<1>2. SessionTypeOK
  BY <1>1 DEF Counted
<1>3. /\ toProvider # <<>> /\ toProvider' = Tail(toProvider) /\ m.type = "frame"
      /\ served' = [c \in Requests |->
           IF c = session THEN Append(served[c], m) ELSE served[c]]
      /\ UNCHANGED <<provider, providerReady, consumerBuffer, fromConsumer, sent>>
  BY <1>1 DEF TakeFrame, objectVars, clientVars
<1>4. /\ m \in ToRuntime /\ Range(toProvider) = {m} \cup Range(toProvider')
      /\ Rising(toProvider') /\ Before({m}, FramesOf(toProvider'))
  BY <1>1, <1>2, <1>3, TakenFacts, RisingTail DEF SessionTypeOK, Order
<1>5. m \in Frames
  BY <1>3, <1>4, MessageFacts DEF ToRuntime
<1>6. m \in FramesOf(toProvider) /\ FramesOf(toProvider') \subseteq FramesOf(toProvider)
  BY <1>3, <1>4 DEF FramesOf
<1> HIDE DEF m
<1>7. ASSUME NEW c \in Requests
      PROVE  /\ Rising(served'[c])
             /\ FramesOf(served'[c]) \subseteq FramesOf(served[c]) \cup {m}
             /\ Before(FramesOf(served'[c]), FramesOf(toProvider'))
  <2>1. served[c] \in Seq(Frames) /\ Rising(served[c])
        /\ Before(FramesOf(served[c]), FramesOf(toProvider))
    BY <1>1, <1>2 DEF SessionTypeOK, Order
  <2>2. CASE served'[c] = served[c]
    BY <1>6, <2>1, <2>2 DEF Before
  <2>3. CASE served'[c] = Append(served[c], m)
    <3>1. /\ Append(served[c], m) = served[c] \o <<m>>
          /\ Range(Append(served[c], m)) = Range(served[c]) \cup {m}
      BY <1>5, <2>1, AppendedFacts
    <3>2. FramesOf(served'[c]) \subseteq FramesOf(served[c]) \cup {m}
      BY <2>3, <3>1 DEF FramesOf
    <3>3. Rising(served[c] \o <<m>>)
      <4> DEFINE u == <<m>>
      <4>1. u \in Seq(Frames) /\ Range(u) = {m} /\ Rising(u)
        BY <1>5, SingleFacts
      <4> HIDE DEF u
      <4>2. Before(FramesOf(served[c]), FramesOf(u))
        BY <1>6, <2>1, <4>1 DEF Before, FramesOf
      <4>3. Rising(served[c] \o u)
        BY <2>1, <4>1, <4>2, RisingJoined
      <4> QED
        BY <4>3 DEF u
    <3> QED
      BY <1>4, <1>6, <2>1, <2>3, <3>1, <3>2, <3>3 DEF Before
  <2> QED
    BY <1>3, <2>2, <2>3
<1>8. \A n \in FramesOf(toProvider') \cup FramesOf(consumerBuffer') : WasSent(n)'
  BY <1>1, <1>3, <1>6 DEF Order, WasSent
<1>9. ASSUME NEW c \in Requests
      PROVE  /\ \A n \in FramesOf(fromConsumer'[c]) : n.who = c /\ WasSent(n)'
             /\ \A n \in FramesOf(served'[c]) : WasSent(n)'
             /\ Rising(fromConsumer'[c])
  BY <1>1, <1>3, <1>6, <1>7 DEF Order, WasSent
<1>10. ASSUME NEW c \in Requests
       PROVE  /\ Before(FramesOf(toProvider'), FramesOf(fromConsumer'[c]))
              /\ Before(FramesOf(consumerBuffer'), FramesOf(fromConsumer'[c]))
              /\ Before(FramesOf(served'[c]), FramesOf(consumerBuffer'))
  BY <1>1, <1>3, <1>6, <1>7 DEF Order, Before
<1>11. ASSUME NEW c \in Requests, NEW d \in Requests
       PROVE  Before(FramesOf(served'[c]), FramesOf(fromConsumer'[d]))
  <2>1. /\ Before(FramesOf(served[c]), FramesOf(fromConsumer[d]))
        /\ Before(FramesOf(toProvider), FramesOf(fromConsumer[d]))
    BY <1>1 DEF Order
  <2>2. /\ FramesOf(served'[c]) \subseteq FramesOf(served[c]) \cup FramesOf(toProvider)
        /\ fromConsumer' = fromConsumer
    BY <1>3, <1>6, <1>7
  <2> QED
    BY <2>1, <2>2 DEF Before
<1>12. /\ Before(FramesOf(toProvider'), FramesOf(consumerBuffer'))
       /\ Rising(consumerBuffer')
       /\ providerReady' /\ provider' # None => consumerBuffer' = <<>>
  BY <1>1, <1>3, <1>6 DEF Order, Before
<1> QED
  BY <1>4, <1>7, <1>8, <1>9, <1>10, <1>11, <1>12 DEF Order

\* What was buffered goes to the runtime's queue.
LEMMA ReadyOrder ==
  Counted /\ Order /\ OnReady /\ UNCHANGED <<fromConsumer, sent, served>> => Order'
<1>1. SUFFICES ASSUME Counted, Order, OnReady, UNCHANGED <<fromConsumer, sent, served>>
               PROVE  Order'
  OBVIOUS
<1>2. SessionTypeOK /\ consumerBuffer \in Seq(ToRuntime) /\ UNCHANGED provider
  <2>1. SessionTypeOK /\ consumerBuffer \in Seq(Frames)
    BY <1>1 DEF Counted, SessionTypeOK
  <2>2. Frames \subseteq ToRuntime
    BY DEF ToRuntime
  <2> QED
    BY <1>1, <2>1, <2>2, SeqMonotonic DEF OnReady
<1>3. CASE provider = None
  BY <1>1, <1>2, <1>3 DEF OnReady, Order, WasSent
<1>4. CASE provider # None
  <2>1. toProvider' = SentTo(provider, consumerBuffer) /\ consumerBuffer' = <<>>
    BY <1>1, <1>4 DEF OnReady
  <2>2. /\ Rising(toProvider')
        /\ FramesOf(toProvider') \subseteq FramesOf(toProvider) \cup FramesOf(consumerBuffer)
    BY <1>1, <1>2, <2>1, SentToFrames DEF Order
  <2>3. Rising(consumerBuffer') /\ FramesOf(consumerBuffer') = {}
    BY <2>1, EmptyFacts DEF FramesOf
  <2>4. \A m \in FramesOf(toProvider') \cup FramesOf(consumerBuffer') : WasSent(m)'
    BY <1>1, <2>2, <2>3 DEF Order, WasSent
  <2>5. ASSUME NEW c \in Requests
        PROVE  /\ Before(FramesOf(toProvider'), FramesOf(fromConsumer'[c]))
               /\ Before(FramesOf(served'[c]), FramesOf(toProvider'))
    BY <1>1, <2>2 DEF Order, Before
  <2>6. ASSUME NEW c \in Requests
        PROVE  /\ Rising(fromConsumer'[c]) /\ Rising(served'[c])
               /\ \A m \in FramesOf(fromConsumer'[c]) : m.who = c /\ WasSent(m)'
               /\ \A m \in FramesOf(served'[c]) : WasSent(m)'
               /\ \A d \in Requests :
                    Before(FramesOf(served'[c]), FramesOf(fromConsumer'[d]))
    BY <1>1 DEF Order, WasSent
  <2>7. /\ Before(FramesOf(toProvider'), FramesOf(consumerBuffer'))
        /\ \A c \in Requests : /\ Before(FramesOf(consumerBuffer'), FramesOf(fromConsumer'[c]))
                                /\ Before(FramesOf(served'[c]), FramesOf(consumerBuffer'))
    BY <2>3 DEF Before
  <2> QED
    BY <2>1, <2>2, <2>3, <2>4, <2>5, <2>6, <2>7 DEF Order
<1> QED
  BY <1>3, <1>4

\* The first frame of a consumer's queue is forwarded, buffered or dropped.
LEMMA ConsumerFrameOrder ==
  ASSUME Counted, Order, NEW c \in Requests, fromConsumer[c] # <<>>,
         fromConsumer' = [fromConsumer EXCEPT ![c] = Tail(@)],
         Head(fromConsumer[c]) # Gone, OnConsumerFrame(c, Head(fromConsumer[c])),
         UNCHANGED <<sent, served>>
  PROVE  Order'
<1> DEFINE m == Head(fromConsumer[c])
<1>1. SessionTypeOK /\ toProvider \in Seq(ToRuntime) /\ consumerBuffer \in Seq(Frames)
  BY DEF Counted, SessionTypeOK
<1>2. /\ m \in ToObject /\ fromConsumer[c] \in Seq(ToObject)
      /\ fromConsumer'[c] = Tail(fromConsumer[c])
      /\ Range(fromConsumer[c]) = {m} \cup Range(fromConsumer'[c])
      /\ \A d \in Requests : d # c => fromConsumer'[d] = fromConsumer[d]
  BY <1>1, TakenFromConsumer
<1>3. m \in Frames /\ m \in ToRuntime /\ m.type = "frame"
  BY <1>2, MessageFacts DEF ToObject, ToRuntime
<1>4. Rising(fromConsumer'[c]) /\ Before({m}, FramesOf(fromConsumer'[c]))
  BY <1>2, <1>3, RisingTail DEF Order
<1>5. m \in FramesOf(fromConsumer[c])
      /\ FramesOf(fromConsumer'[c]) \subseteq FramesOf(fromConsumer[c])
  BY <1>2, <1>3 DEF FramesOf
<1>6. /\ provider' = provider
      /\ \/ /\ provider # None /\ providerReady /\ toProvider' = SentTo(provider, <<m>>)
            /\ UNCHANGED <<providerReady, consumerBuffer>>
         \/ /\ provider = None \/ ~ providerReady
            /\ consumerBuffer' = Append(consumerBuffer, m)
            /\ UNCHANGED <<providerReady, toProvider>>
         \/ /\ consumerBuffer' = <<>> /\ UNCHANGED toProvider
  BY DEF OnConsumerFrame, ResetConsumerState
<1> HIDE DEF m
<1>7. m.who = c /\ WasSent(m)
  BY <1>5 DEF Order
<1>8. ASSUME NEW d \in Requests
      PROVE  /\ Rising(fromConsumer'[d])
             /\ FramesOf(fromConsumer'[d]) \subseteq FramesOf(fromConsumer[d])
             /\ \A n \in FramesOf(fromConsumer'[d]) : n.who = d /\ WasSent(n)'
             /\ Before({m}, FramesOf(fromConsumer'[d]))
  <2>1. CASE d = c
    BY <1>4, <1>5, <2>1 DEF Order, WasSent
  <2>2. CASE d # c
    BY <1>2, <1>7, <2>2 DEF Order, WasSent, Before
  <2> QED
    BY <2>1, <2>2
<1>9. ASSUME NEW d \in Requests
      PROVE  /\ Rising(served'[d])
             /\ \A n \in FramesOf(served'[d]) : WasSent(n)'
             /\ \A e \in Requests : Before(FramesOf(served'[d]), FramesOf(fromConsumer'[e]))
             /\ Before(FramesOf(served'[d]), {m})
  BY <1>5, <1>8 DEF Order, WasSent, Before
<1>10. Before(FramesOf(toProvider), {m}) /\ Before(FramesOf(consumerBuffer), {m})
  BY <1>5 DEF Order, Before
<1> DEFINE u == <<m>>
<1>11. u \in Seq(ToRuntime) /\ u \in Seq(Frames) /\ Range(u) = {m} /\ Rising(u)
       /\ FramesOf(u) = {m}
  BY <1>3, SingleFacts DEF FramesOf
<1> HIDE DEF u
<1>12. CASE /\ provider # None /\ providerReady /\ toProvider' = SentTo(provider, u)
            /\ UNCHANGED <<providerReady, consumerBuffer>>
  <2>1. consumerBuffer = <<>>
    BY <1>12 DEF Order
  <2>2. FramesOf(consumerBuffer') = {} /\ Rising(consumerBuffer') /\ consumerBuffer' = <<>>
    BY <1>12, <2>1, EmptyFacts DEF FramesOf
  <2>3. /\ Rising(toProvider')
        /\ FramesOf(toProvider') \subseteq FramesOf(toProvider) \cup {m}
    <3>1. Rising(toProvider) /\ Before(FramesOf(toProvider), FramesOf(u))
      BY <1>10, <1>11 DEF Order
    <3>2. /\ Rising(SentTo(provider, u))
          /\ FramesOf(SentTo(provider, u)) \subseteq FramesOf(toProvider) \cup FramesOf(u)
      BY <1>1, <1>11, <3>1, SentToFrames
    <3> QED
      BY <1>11, <1>12, <3>2
  <2>4. \A n \in FramesOf(toProvider') \cup FramesOf(consumerBuffer') : WasSent(n)'
    BY <1>7, <2>2, <2>3 DEF Order, WasSent
  <2>5. ASSUME NEW d \in Requests
        PROVE  /\ Before(FramesOf(toProvider'), FramesOf(fromConsumer'[d]))
               /\ Before(FramesOf(served'[d]), FramesOf(toProvider'))
    BY <1>8, <1>9, <2>3 DEF Order, Before
  <2>6. /\ Before(FramesOf(toProvider'), FramesOf(consumerBuffer'))
        /\ \A d \in Requests : /\ Before(FramesOf(consumerBuffer'), FramesOf(fromConsumer'[d]))
                                /\ Before(FramesOf(served'[d]), FramesOf(consumerBuffer'))
    BY <2>2 DEF Before
  <2> QED
    BY <1>8, <1>9, <2>2, <2>3, <2>4, <2>5, <2>6 DEF Order
<1>13. CASE /\ provider = None \/ ~ providerReady
            /\ consumerBuffer' = Append(consumerBuffer, m)
            /\ UNCHANGED <<providerReady, toProvider>>
  <2>1. /\ Append(consumerBuffer, m) = consumerBuffer \o u
        /\ Range(Append(consumerBuffer, m)) = Range(consumerBuffer) \cup {m}
    BY <1>1, <1>3, AppendedFacts DEF u
  <2>2. Rising(consumerBuffer') /\ FramesOf(consumerBuffer') = FramesOf(consumerBuffer) \cup {m}
    <3>1. Rising(consumerBuffer \o u)
      BY <1>1, <1>10, <1>11, RisingJoined DEF Order
    <3> QED
      BY <1>3, <1>13, <2>1, <3>1 DEF FramesOf
  <2>3. \A n \in FramesOf(toProvider') \cup FramesOf(consumerBuffer') : WasSent(n)'
    BY <1>7, <1>13, <2>2 DEF Order, WasSent
  <2>4. ASSUME NEW d \in Requests
        PROVE  /\ Before(FramesOf(toProvider'), FramesOf(fromConsumer'[d]))
               /\ Before(FramesOf(consumerBuffer'), FramesOf(fromConsumer'[d]))
               /\ Before(FramesOf(served'[d]), FramesOf(toProvider'))
               /\ Before(FramesOf(served'[d]), FramesOf(consumerBuffer'))
    BY <1>8, <1>9, <1>13, <2>2 DEF Order, Before
  <2>5. Before(FramesOf(toProvider'), FramesOf(consumerBuffer'))
    BY <1>10, <1>13, <2>2 DEF Order, Before
  <2>6. Rising(toProvider') /\ (providerReady' /\ provider' # None => consumerBuffer' = <<>>)
    BY <1>6, <1>13 DEF Order
  <2> QED
    BY <1>8, <1>9, <2>2, <2>3, <2>4, <2>5, <2>6 DEF Order
<1>14. CASE consumerBuffer' = <<>> /\ UNCHANGED toProvider
  <2>1. Rising(consumerBuffer') /\ FramesOf(consumerBuffer') = {}
    BY <1>14, EmptyFacts DEF FramesOf
  <2> QED
    BY <1>8, <1>14, <2>1, OrderShrinks DEF Order
<1> QED
  BY <1>6, <1>12, <1>13, <1>14 DEF u

\* A consumer sends a frame, or the message that it has left.
LEMMA SendOrder ==
  ASSUME Counted, Order, NEW c \in Requests, NEW m \in ToObject,
         fromConsumer' = [fromConsumer EXCEPT ![c] = Append(@, m)],
         \/ m = Gone /\ sent' = sent
         \/ m = Frame(c, sent[c] + 1) /\ sent' = [sent EXCEPT ![c] = @ + 1],
         UNCHANGED <<toProvider, consumerBuffer, served, providerReady, provider>>
  PROVE  Order'
<1>1. SessionTypeOK /\ toProvider \in Seq(ToRuntime) /\ consumerBuffer \in Seq(Frames)
      /\ sent \in [Requests -> Nat] /\ served \in [Requests -> Seq(Frames)]
  BY DEF Counted, SessionTypeOK
<1> DEFINE u == <<m>>
<1>2. /\ fromConsumer'[c] = fromConsumer[c] \o u
      /\ fromConsumer[c] \in Seq(ToObject) /\ u \in Seq(ToObject)
      /\ Range(fromConsumer'[c]) = Range(fromConsumer[c]) \cup {m}
      /\ \A d \in Requests : d # c => fromConsumer'[d] = fromConsumer[d]
  BY <1>1, SentFacts
<1>3. Range(u) = {m} /\ Rising(u)
  BY SingleFacts
<1> HIDE DEF u
<1>4. m.type = "frame" => m.who = c /\ m.number = sent[c] + 1 /\ sent'[c] = sent[c] + 1
  BY <1>1, MessageFacts
<1>5. \A d \in Requests : sent[d] \in Nat /\ sent'[d] \in Nat /\ sent[d] <= sent'[d]
  BY <1>1
<1>6. \A n \in Frames : n.who \in Requests /\ n.number \in Nat
  BY MessageFacts
<1>7. /\ \A n \in FramesOf(toProvider) \cup FramesOf(consumerBuffer) : n \in Frames
      /\ \A d \in Requests : \A n \in FramesOf(served[d]) \cup FramesOf(fromConsumer[d]) :
           n \in Frames
  <2>1. ASSUME NEW s \in Seq(ToRuntime) PROVE \A n \in FramesOf(s) : n \in Frames
    <3>1. \A i \in DOMAIN s : s[i] \in ToRuntime
      BY LenProperties
    <3> QED
      BY <3>1, MessageFacts DEF FramesOf, Range, ToRuntime
  <2>2. ASSUME NEW s \in Seq(Frames) PROVE \A n \in FramesOf(s) : n \in Frames
    <3>1. \A i \in DOMAIN s : s[i] \in Frames
      BY LenProperties
    <3> QED
      BY <3>1 DEF FramesOf, Range
  <2>3. ASSUME NEW s \in Seq(ToObject) PROVE \A n \in FramesOf(s) : n \in Frames
    <3>1. \A i \in DOMAIN s : s[i] \in ToObject
      BY LenProperties
    <3> QED
      BY <3>1, MessageFacts DEF FramesOf, Range, ToObject
  <2>4. \A d \in Requests : served[d] \in Seq(Frames) /\ fromConsumer[d] \in Seq(ToObject)
    BY <1>1 DEF SessionTypeOK
  <2> QED
    BY <1>1, <2>1, <2>2, <2>3, <2>4
<1>8. ASSUME NEW n \in Frames, WasSent(n)
      PROVE  /\ WasSent(n)'
             /\ m.type = "frame" /\ n.who = m.who => n.number < m.number
  <2>1. n.who \in Requests /\ n.number \in Nat /\ n.number <= sent[n.who]
    BY <1>6, <1>8 DEF WasSent
  <2> QED
    BY <1>4, <1>5, <2>1 DEF WasSent
<1>9. FramesOf(fromConsumer'[c]) \subseteq FramesOf(fromConsumer[c]) \cup {m}
      /\ FramesOf(u) \subseteq {m}
  BY <1>2, <1>3 DEF FramesOf
<1>10. \A n \in FramesOf(fromConsumer'[c]) : n.type = "frame"
  BY DEF FramesOf
<1>11. Rising(fromConsumer'[c])
  <2>1. Before(FramesOf(fromConsumer[c]), FramesOf(u))
    <3>1. \A n \in FramesOf(u) : n = m /\ n.type = "frame"
      BY <1>3 DEF FramesOf
    <3>2. \A n \in FramesOf(fromConsumer[c]) : n \in Frames /\ WasSent(n)
      BY <1>7 DEF Order
    <3> QED
      BY <1>8, <3>1, <3>2 DEF Before
  <2>2. Rising(fromConsumer[c])
    BY DEF Order
  <2>3. Rising(fromConsumer[c] \o u)
    BY <1>2, <1>3, <2>1, <2>2, RisingJoined
  <2> QED
    BY <1>2, <2>3
<1>12. \A n \in FramesOf(fromConsumer'[c]) : n.who = c /\ WasSent(n)'
  <2>1. ASSUME NEW n \in FramesOf(fromConsumer[c]) PROVE n.who = c /\ WasSent(n)'
    BY <1>7, <1>8 DEF Order
  <2>2. m.type = "frame" => m.who = c /\ WasSent(m)'
    BY <1>4, <1>5 DEF WasSent
  <2> QED
    BY <1>9, <1>10, <2>1, <2>2
<1>13. ASSUME NEW A, \A n \in A : n \in Frames /\ WasSent(n),
              Before(A, FramesOf(fromConsumer[c]))
       PROVE  Before(A, FramesOf(fromConsumer'[c]))
  BY <1>8, <1>9, <1>10, <1>13 DEF Before
<1>14. Before(FramesOf(toProvider), FramesOf(fromConsumer'[c]))
  BY <1>7, <1>13 DEF Order
<1>15. Before(FramesOf(consumerBuffer), FramesOf(fromConsumer'[c]))
  BY <1>7, <1>13 DEF Order
<1>16. \A d \in Requests : Before(FramesOf(served[d]), FramesOf(fromConsumer'[c]))
  BY <1>7, <1>13 DEF Order
<1>17. ASSUME NEW d \in Requests
       PROVE  /\ Rising(fromConsumer'[d]) /\ Rising(served'[d])
              /\ \A n \in FramesOf(fromConsumer'[d]) : n.who = d /\ WasSent(n)'
              /\ \A n \in FramesOf(served'[d]) : WasSent(n)'
  <2>1. Rising(served'[d]) /\ \A n \in FramesOf(served'[d]) : WasSent(n)'
    BY <1>7, <1>8 DEF Order
  <2>2. CASE d = c
    BY <1>11, <1>12, <2>1, <2>2
  <2>3. CASE d # c
    BY <1>2, <1>7, <1>8, <2>1, <2>3 DEF Order
  <2> QED
    BY <2>2, <2>3
<1>18. ASSUME NEW d \in Requests
       PROVE  /\ Before(FramesOf(toProvider'), FramesOf(fromConsumer'[d]))
              /\ Before(FramesOf(consumerBuffer'), FramesOf(fromConsumer'[d]))
              /\ \A e \in Requests : Before(FramesOf(served'[e]), FramesOf(fromConsumer'[d]))
  <2>1. CASE d = c
    BY <1>14, <1>15, <1>16, <2>1
  <2>2. CASE d # c
    BY <1>2, <2>2 DEF Order
  <2> QED
    BY <2>1, <2>2
<1>19. \A n \in FramesOf(toProvider') \cup FramesOf(consumerBuffer') : WasSent(n)'
  BY <1>7, <1>8 DEF Order
<1>20. /\ Rising(toProvider') /\ Rising(consumerBuffer')
       /\ providerReady' /\ provider' # None => consumerBuffer' = <<>>
       /\ Before(FramesOf(toProvider'), FramesOf(consumerBuffer'))
       /\ \A d \in Requests : /\ Before(FramesOf(served'[d]), FramesOf(toProvider'))
                               /\ Before(FramesOf(served'[d]), FramesOf(consumerBuffer'))
  BY DEF Order
<1> QED
  BY <1>17, <1>18, <1>19, <1>20 DEF Order

LEMMA OrderStep == Counted /\ Order /\ [SessionNext]_sessionVars => Order'
<1>1. SUFFICES ASSUME Counted, Order, [SessionNext]_sessionVars PROVE Order'
  OBVIOUS
<1>2. SessionTypeOK /\ (session # None => link # None) /\ toProvider \in Seq(ToRuntime)
  BY <1>1 DEF Counted, SessionTypeOK
<1>3. ASSUME UNCHANGED <<sent, served, toProvider, consumerBuffer, fromConsumer,
                         providerReady, provider>>
      PROVE  Order'
  BY <1>1, <1>3, OrderKept
\* A step that leaves the consumers' queues and only loses frames.
<1>4. ASSUME UNCHANGED <<sent, served, fromConsumer>>,
             Rising(toProvider'), FramesOf(toProvider') \subseteq FramesOf(toProvider),
             \/ consumerBuffer' = <<>>
             \/ consumerBuffer' = consumerBuffer /\ ~ providerReady'
             \/ UNCHANGED <<consumerBuffer, providerReady, provider>>
      PROVE  Order'
  <2>1. /\ Rising(consumerBuffer')
        /\ FramesOf(consumerBuffer') \subseteq FramesOf(consumerBuffer)
        /\ providerReady' /\ provider' # None => consumerBuffer' = <<>>
    <3>1. CASE consumerBuffer' = <<>>
      BY <3>1, EmptyFacts DEF FramesOf
    <3>2. CASE consumerBuffer' = consumerBuffer /\ ~ providerReady'
      BY <1>1, <3>2 DEF Order
    <3>3. CASE UNCHANGED <<consumerBuffer, providerReady, provider>>
      BY <1>1, <3>3 DEF Order
    <3> QED
      BY <1>4, <3>1, <3>2, <3>3
  <2>2. \A c \in Requests : Rising(fromConsumer[c])
    BY <1>1 DEF Order
  <2> QED
    BY <1>1, <1>4, <2>1, <2>2, OrderShrinks
<1>5. Rising(toProvider)
  BY <1>1 DEF Order
<1>6. ASSUME NEW p \in Providers, AcceptProvider(p) PROVE Order'
  <2>1. Rising(toProvider') /\ FramesOf(toProvider') = {}
    BY <1>6, EmptyFacts DEF AcceptProvider, FramesOf
  <2>2. UNCHANGED <<sent, served, fromConsumer, consumerBuffer>> /\ ~ providerReady'
    BY <1>6 DEF AcceptProvider, clientVars, ghosts
  <2> QED
    BY <1>4, <2>1, <2>2
<1>7. ASSUME NEW c \in Requests, AskForProvider(c) \/ RefuseConsumer(c) PROVE Order'
  BY <1>3, <1>7 DEF AskForProvider, RefuseConsumer, objectVars, runtimeVars, ghosts
<1>8. ASSUME NEW c \in Requests, AcceptConsumer(c) PROVE Order'
  <2>1. ToConsumer(c) \in ToRuntime /\ ToConsumer(c).type # "frame"
    BY MessageFacts
  <2>2. /\ toProvider' = SentTo(provider, <<ToConsumer(c)>>) /\ consumerBuffer' = <<>>
        /\ UNCHANGED <<sent, served, fromConsumer>>
    BY <1>8 DEF AcceptConsumer, ghosts
  <2>3. Rising(toProvider') /\ FramesOf(toProvider') = FramesOf(toProvider)
    BY <1>2, <1>5, <2>1, <2>2, SentToControl
  <2> QED
    BY <1>4, <2>2, <2>3
<1>9. ASSUME NEW p \in Providers, FromProvider(p) PROVE Order'
  <2>1. UNCHANGED <<sent, served, fromConsumer>>
    BY <1>9 DEF FromProvider
  <2>2. OnReady \/ OnSessionEnd \/ OnProviderData \/ OnProviderGone
    BY <1>9 DEF FromProvider
  <2>3. CASE OnReady
    BY <1>1, <2>1, <2>3, ReadyOrder
  <2>4. CASE OnSessionEnd \/ OnProviderGone
    BY <1>4, <1>5, <2>1, <2>4 DEF OnSessionEnd, OnProviderGone, ResetConsumerState
  <2>5. CASE OnProviderData
    BY <1>3, <2>1, <2>5 DEF OnProviderData
  <2> QED
    BY <2>2, <2>3, <2>4, <2>5
<1>10. ASSUME NEW c \in Requests, FromConsumer(c) PROVE Order'
  <2>1. /\ fromConsumer[c] # <<>> /\ fromConsumer' = [fromConsumer EXCEPT ![c] = Tail(@)]
        /\ UNCHANGED <<sent, served>>
        /\ \/ Head(fromConsumer[c]) # Gone /\ OnConsumerFrame(c, Head(fromConsumer[c]))
           \/ OnConsumerGone
    BY <1>10 DEF FromConsumer
  <2>2. CASE Head(fromConsumer[c]) # Gone /\ OnConsumerFrame(c, Head(fromConsumer[c]))
    BY <1>1, <2>1, <2>2, ConsumerFrameOrder
  <2>3. CASE OnConsumerGone
    <3>1. toProvider' = SentTo(provider, <<Close>>) /\ consumerBuffer' = <<>>
      BY <2>3 DEF OnConsumerGone, ResetConsumerState
    <3>2. Rising(toProvider') /\ FramesOf(toProvider') = FramesOf(toProvider)
      BY <1>2, <1>5, <3>1, MessageFacts, SentToControl
    <3>3. /\ Range(fromConsumer[c]) =
               {Head(fromConsumer[c])} \cup Range(fromConsumer'[c])
          /\ fromConsumer[c] \in Seq(ToObject) /\ fromConsumer'[c] = Tail(fromConsumer[c])
          /\ \A d \in Requests : d # c => fromConsumer'[d] = fromConsumer[d]
      BY <1>2, <2>1, TakenFromConsumer
    <3>4. Rising(fromConsumer'[c])
          /\ FramesOf(fromConsumer'[c]) \subseteq FramesOf(fromConsumer[c])
      <4>1. Rising(Tail(fromConsumer[c]))
        BY <1>1, <2>1, <3>3, RisingTail DEF Order
      <4> QED
        BY <3>3, <4>1 DEF FramesOf
    <3>5. \A d \in Requests : /\ Rising(fromConsumer'[d])
                               /\ FramesOf(fromConsumer'[d]) \subseteq FramesOf(fromConsumer[d])
      BY <1>1, <3>3, <3>4 DEF Order
    <3>6. Rising(consumerBuffer') /\ FramesOf(consumerBuffer') = {}
      BY <3>1, EmptyFacts DEF FramesOf
    <3> QED
      BY <1>1, <2>1, <3>1, <3>2, <3>5, <3>6, OrderShrinks
  <2> QED
    BY <2>1, <2>2, <2>3
<1>11. ASSUME NEW c \in Requests, SendFrame(c) PROVE Order'
  <2> DEFINE m == Frame(c, sent[c] + 1)
  <2>1. m \in ToObject
    BY <1>2, MessageFacts DEF ToObject, SessionTypeOK
  <2>2. /\ fromConsumer' = [fromConsumer EXCEPT ![c] = Append(@, m)]
        /\ sent' = [sent EXCEPT ![c] = @ + 1]
        /\ UNCHANGED <<toProvider, consumerBuffer, served, providerReady, provider>>
    BY <1>11 DEF SendFrame, objectVars, ghosts
  <2> QED
    BY <1>1, <2>1, <2>2, SendOrder
<1>12. ASSUME NEW c \in Requests, Leave(c) PROVE Order'
  <2>1. Gone \in ToObject
    BY MessageFacts
  <2>2. /\ fromConsumer' = [fromConsumer EXCEPT ![c] = Append(@, Gone)]
        /\ UNCHANGED <<sent, toProvider, consumerBuffer, served, providerReady, provider>>
    BY <1>12 DEF Leave, objectVars, ghosts
  <2> QED
    BY <1>1, <2>1, <2>2, SendOrder
<1>13. CASE TakeConnect \/ TakeClose
  <2>1. /\ toProvider # <<>> /\ toProvider' = Tail(toProvider)
        /\ UNCHANGED <<sent, served, fromConsumer, consumerBuffer, providerReady, provider>>
    BY <1>13 DEF TakeConnect, TakeClose, objectVars, clientVars, ghosts
  <2>2. Rising(toProvider') /\ Range(toProvider) = {Head(toProvider)} \cup Range(toProvider')
    BY <1>2, <1>5, <2>1, TakenFacts, RisingTail
  <2> QED
    BY <1>4, <2>1, <2>2 DEF FramesOf
<1>14. CASE TakeFrame
  BY <1>1, <1>14, TakeFrameOrder
<1>15. CASE TargetSends \/ TargetEnds
  BY <1>3, <1>15 DEF TargetSends, TargetEnds, objectVars, clientVars, ghosts
<1>16. CASE LoseLink
  <2>1. Rising(toProvider') /\ FramesOf(toProvider') = {}
    BY <1>16, EmptyFacts DEF LoseLink, FramesOf
  <2> QED
    BY <1>4, <1>16, <2>1 DEF LoseLink, objectVars, clientVars, ghosts
<1>17. CASE Hibernate
  BY <1>4, <1>5, <1>17 DEF Hibernate, clientVars, ghosts
<1>18. CASE UNCHANGED sessionVars
  BY <1>3, <1>18 DEF sessionVars, objectVars, clientVars, ghosts
<1> QED
  BY <1>1, <1>6, <1>7, <1>8, <1>9, <1>10, <1>11, <1>12, <1>13, <1>14, <1>15, <1>16, <1>17, <1>18
  DEF SessionNext, Runtime

LEMMA OrderInit == SessionInit => Order
<1>1. SUFFICES ASSUME SessionInit PROVE Order
  OBVIOUS
<1>2. Rising(<<>>) /\ FramesOf(<<>>) = {}
  BY EmptyFacts DEF FramesOf
<1>3. /\ toProvider = <<>> /\ consumerBuffer = <<>>
      /\ \A c \in Requests : fromConsumer[c] = <<>> /\ served[c] = <<>>
  BY <1>1 DEF SessionInit
<1> QED
  BY <1>2, <1>3 DEF Order, Before

LEMMA OrderShows == Counted /\ Order => FramesInOrder
<1>1. SUFFICES ASSUME Counted, Order, NEW t \in Requests,
                      NEW i \in DOMAIN served[t], NEW j \in DOMAIN served[t],
                      i < j, served[t][i].who = served[t][j].who
               PROVE  served[t][i].number < served[t][j].number
  BY DEF FramesInOrder
<1>2. served[t] \in Seq(Frames) /\ Rising(served[t])
  BY <1>1 DEF Counted, SessionTypeOK, Order
<1>3. served[t][i] \in Frames /\ served[t][j] \in Frames
  BY <1>2, LenProperties
<1> QED
  BY <1>1, <1>2, <1>3, MessageFacts DEF Rising

\* Whatever is buffered while the provider is set up, flushed when it is ready,
\* forwarded, dropped with a lost socket or forgotten by an evicted object, a
\* target sees the frames of each consumer in the order they were sent, none of
\* them twice.
THEOREM OrderCorrect == SessionSpec => []FramesInOrder
BY CountedInit, CountedStep, OrderInit, OrderStep, OrderShows, PTL DEF SessionSpec

-----------------------------------------------------------------------------
(* The transport by itself: the inductive invariant.                       *)

\* What DirectRelay does to the transport.
TransportNext ==
  \/ \E c \in Callers : Dial(c) \/ Upgraded(c) \/ UpgradeFails(c)
  \/ Tick

\* The consumers that hold a permit.
Holders == {c \in Consumers : attempt[c].at \in Stages}

\* A permit is free or held, and none is free while somebody waits.
PermitsKept ==
  /\ IsFiniteSet(Holders)
  /\ permits + Cardinality(Holders) = Permits
  /\ line # <<>> => permits = 0

\* Everybody in the line waits, once; only consumers wait.
LineInv ==
  /\ \A i \in DOMAIN line : At(line[i], "queued")
  /\ \A i, j \in DOMAIN line : line[i] = line[j] => i = j
  /\ \A c \in Callers : At(c, "queued") => c \in Consumers

\* How far a call has come, and what every endpoint behind it failed for.
Honest(c, a) ==
  /\ a.at \in {"idle", "queued"} => a.endpoint = 1 /\ a.failed = <<>>
  /\ a.at \in Stages => a.endpoint <= LastEndpoint(c) /\ Len(a.failed) = a.endpoint - 1
  /\ a.at = "exhausted" => Len(a.failed) = LastEndpoint(c)
  /\ \A i \in DOMAIN a.failed : a.failed[i] # "ech" /\ (a.failed[i] = "url" => i \in Invalid)

TransportInv ==
  /\ TransportTypeOK
  /\ PermitsKept
  /\ LineInv
  /\ \A c \in Callers : Honest(c, attempt[c])

LEMMA EndpointBound ==
  ASSUME NEW c \in Callers
  PROVE  LastEndpoint(c) \in 1..Endpoints /\ 1 <= LastEndpoint(c)
BY TransportAssumption DEF LastEndpoint

-----------------------------------------------------------------------------
(* The line.                                                               *)

\* What leaving the line at one place does to it.
LEMMA RemovedFacts ==
  ASSUME NEW S, NEW s \in Seq(S), NEW i \in DOMAIN s,
         \A j, k \in DOMAIN s : s[j] = s[k] => j = k
  PROVE  LET t == RemoveAt(s, i) IN
         /\ t \in Seq(S)
         /\ \A j \in DOMAIN t : \E k \in DOMAIN s : k # i /\ t[j] = s[k]
         /\ \A j, k \in DOMAIN t : t[j] = t[k] => j = k
<1>1. Len(s) \in Nat /\ DOMAIN s = 1..Len(s) /\ i \in 1..Len(s)
  BY LenProperties
<1> DEFINE u == SubSeq(s, 1, i - 1)
           v == SubSeq(s, i + 1, Len(s))
           t == RemoveAt(s, i)
<1>2. /\ u \in Seq(S) /\ Len(u) = i - 1
      /\ \A j \in 1..(i - 1) : u[j] = s[j]
  <2>1. \A j \in 1..(i - 1) : s[j] \in S
    BY <1>1, ElementOfSeq
  <2>2. /\ u \in Seq(S) /\ Len(u) = IF 1 <= i - 1 THEN (i - 1) - 1 + 1 ELSE 0
        /\ \A j \in 1..((i - 1) - 1 + 1) : u[j] = s[1 + j - 1]
    BY <1>1, <2>1, SubSeqProperties
  <2> QED
    BY <1>1, <2>2
<1>3. /\ v \in Seq(S) /\ Len(v) = Len(s) - i
      /\ \A j \in 1..(Len(s) - i) : v[j] = s[i + j]
  <2>1. \A j \in (i + 1)..Len(s) : s[j] \in S
    BY <1>1, ElementOfSeq
  <2>2. /\ v \in Seq(S) /\ Len(v) = IF i + 1 <= Len(s) THEN Len(s) - (i + 1) + 1 ELSE 0
        /\ \A j \in 1..(Len(s) - (i + 1) + 1) : v[j] = s[(i + 1) + j - 1]
    BY <1>1, <2>1, SubSeqProperties
  <2> QED
    BY <1>1, <2>2
<1>4. t = u \o v
  BY DEF RemoveAt
<1> HIDE DEF u, v, t
<1>5. /\ t \in Seq(S) /\ Len(t) = Len(s) - 1 /\ DOMAIN t = 1..(Len(s) - 1)
      /\ \A j \in 1..(Len(s) - 1) : t[j] = IF j <= i - 1 THEN u[j] ELSE v[j - (i - 1)]
  <2>1. /\ u \o v \in Seq(S) /\ Len(u \o v) = Len(u) + Len(v)
        /\ \A j \in 1..(Len(u) + Len(v)) :
             (u \o v)[j] = IF j <= Len(u) THEN u[j] ELSE v[j - Len(u)]
    <3>1. u \in Seq(S) /\ v \in Seq(S)
      BY <1>2, <1>3
    <3> QED
      BY <3>1, ConcatProperties
  <2>2. Len(u) + Len(v) = Len(s) - 1
    BY <1>1, <1>2, <1>3
  <2>3. t \in Seq(S) /\ Len(t) = Len(s) - 1
    BY <1>4, <2>1, <2>2
  <2> QED
    BY <1>2, <1>4, <2>1, <2>2, <2>3, LenProperties
<1> DEFINE at(j) == IF j < i THEN j ELSE j + 1
<1>6. ASSUME NEW j \in DOMAIN t PROVE at(j) \in DOMAIN s /\ at(j) # i /\ t[j] = s[at(j)]
  <2>1. j \in 1..(Len(s) - 1) /\ j \in Int
    BY <1>5
  <2>2. CASE j < i
    <3>1. j \in 1..(i - 1) /\ j <= i - 1 /\ at(j) = j /\ j \in 1..Len(s)
      BY <1>1, <2>1, <2>2
    <3>2. t[j] = u[j] /\ u[j] = s[j]
      BY <1>2, <1>5, <2>1, <3>1
    <3> QED
      BY <1>1, <2>2, <3>1, <3>2
  <2>3. CASE ~ (j < i)
    <3>1. j - (i - 1) \in 1..(Len(s) - i) /\ i + (j - (i - 1)) = j + 1 /\ ~ (j <= i - 1)
      BY <1>1, <2>1, <2>3
    <3>2. t[j] = v[j - (i - 1)] /\ v[j - (i - 1)] = s[j + 1]
      BY <1>3, <1>5, <2>1, <3>1
    <3> QED
      BY <1>1, <2>1, <2>3, <3>2
  <2> QED
    BY <2>2, <2>3
<1>7. ASSUME NEW j \in DOMAIN t, NEW k \in DOMAIN t, t[j] = t[k] PROVE j = k
  <2>1. at(j) = at(k)
    BY <1>6, <1>7
  <2>2. j \in Int /\ k \in Int
    BY <1>5
  <2> QED
    BY <1>1, <2>1, <2>2
<1>8. \A j \in DOMAIN t : \E k \in DOMAIN s : k # i /\ t[j] = s[k]
  <2> HIDE DEF at
  <2> QED
    BY <1>6
<1> QED
  BY <1>5, <1>7, <1>8 DEF t

LEMMA TailFacts ==
  ASSUME NEW S, NEW s \in Seq(S), s # <<>>,
         \A j, k \in DOMAIN s : s[j] = s[k] => j = k
  PROVE  /\ Head(s) \in S /\ 1 \in DOMAIN s /\ Head(s) = s[1]
         /\ Tail(s) \in Seq(S)
         /\ \A j \in DOMAIN Tail(s) : \E k \in DOMAIN s : k # 1 /\ Tail(s)[j] = s[k]
         /\ \A j, k \in DOMAIN Tail(s) : Tail(s)[j] = Tail(s)[k] => j = k
<1>1. /\ Head(s) \in S /\ Tail(s) \in Seq(S) /\ Len(Tail(s)) = Len(s) - 1
      /\ \A j \in 1..Len(Tail(s)) : Tail(s)[j] = s[j + 1]
      /\ Len(s) \in Nat \ {0} /\ DOMAIN s = 1..Len(s) /\ DOMAIN Tail(s) = 1..Len(Tail(s))
      /\ Head(s) = s[1]
  BY HeadTailProperties, EmptySeq, LenProperties
<1>2. \A j \in DOMAIN Tail(s) : j + 1 \in DOMAIN s /\ j + 1 # 1 /\ j \in Int
  BY <1>1
<1>3. \A j, k \in DOMAIN Tail(s) : Tail(s)[j] = Tail(s)[k] => j = k
  BY <1>1, <1>2
<1>4. 1 \in DOMAIN s
  BY <1>1
<1> QED
  BY <1>1, <1>2, <1>3, <1>4

LEMMA QueuedFacts ==
  ASSUME NEW S, NEW s \in Seq(S), NEW c \in S,
         \A j, k \in DOMAIN s : s[j] = s[k] => j = k,
         \A j \in DOMAIN s : s[j] # c
  PROVE  /\ Append(s, c) \in Seq(S)
         /\ \A j \in DOMAIN Append(s, c) :
              Append(s, c)[j] = c \/ \E k \in DOMAIN s : Append(s, c)[j] = s[k]
         /\ \A j, k \in DOMAIN Append(s, c) : Append(s, c)[j] = Append(s, c)[k] => j = k
<1>1. /\ Append(s, c) \in Seq(S) /\ Len(Append(s, c)) = Len(s) + 1
      /\ \A j \in 1..Len(s) : Append(s, c)[j] = s[j]
      /\ Append(s, c)[Len(s) + 1] = c
      /\ Len(s) \in Nat /\ DOMAIN s = 1..Len(s)
  BY AppendProperties, LenProperties
<1>2. DOMAIN Append(s, c) = 1..(Len(s) + 1)
  BY <1>1, LenProperties
<1>3. \A j \in 1..(Len(s) + 1) : j \in 1..Len(s) \/ j = Len(s) + 1
  BY <1>1
<1> QED
  BY <1>1, <1>2, <1>3

-----------------------------------------------------------------------------
(* What a step does to one caller, to the permits and to the line.         *)

ClockTyped == clock \in 0..MaxTime /\ disabled \in 0..(MaxTime + Cooldown)

LEMMA AttemptFacts ==
  ASSUME TransportInv, NEW c \in Callers
  PROVE  /\ attempt \in [Callers -> AttemptState]
         /\ attempt[c] \in AttemptState
         /\ attempt[c].at \in {"idle", "queued"} \cup Stages \cup Returned
         /\ attempt[c].endpoint \in 1..Endpoints /\ attempt[c].ech \in BOOLEAN
         /\ attempt[c].failed \in Seq(Reasons)
         /\ Honest(c, attempt[c])
BY DEF TransportInv, TransportTypeOK, AttemptState

\* One caller changes its attempt, with neither permit nor line involved.
LEMMA MoveInv ==
  ASSUME TransportInv, NEW c \in Callers, NEW r \in AttemptState, Honest(c, r),
         attempt' = [attempt EXCEPT ![c] = r], UNCHANGED <<permits, line>>,
         attempt[c].at # "queued", r.at # "queued",
         c \in Consumers => (attempt[c].at \in Stages <=> r.at \in Stages),
         ClockTyped'
  PROVE  TransportInv'
<1>1. /\ attempt' \in [Callers -> AttemptState] /\ attempt'[c] = r
      /\ \A d \in Callers : d # c => attempt'[d] = attempt[d]
  BY AttemptFacts
<1>2. TransportTypeOK'
  BY <1>1 DEF TransportInv, TransportTypeOK, ClockTyped
<1>3. \A d \in Callers : Honest(d, attempt'[d])
  BY <1>1 DEF TransportInv
<1>4. Holders' = Holders
  BY <1>1 DEF Holders, Callers
<1>5. PermitsKept'
  BY <1>4 DEF TransportInv, PermitsKept
<1>6. LineInv'
  <2>1. line \in Seq(Consumers) /\ \A i \in DOMAIN line : line[i] \in Callers
    <3>1. line \in Seq(Consumers)
      BY DEF TransportInv, TransportTypeOK
    <3> QED
      BY <3>1, LenProperties DEF Callers
  <2>2. \A d \in Callers : attempt'[d].at = "queued" <=> attempt[d].at = "queued"
    BY <1>1
  <2> QED
    BY <2>1, <2>2 DEF TransportInv, LineInv, At
<1> QED
  BY <1>2, <1>3, <1>5, <1>6 DEF TransportInv

LEMMA InvParts ==
  ASSUME TransportInv
  PROVE  /\ TransportTypeOK /\ PermitsKept /\ LineInv
         /\ line \in Seq(Consumers) /\ permits \in 0..Permits /\ Permits \in Nat
         /\ \A i \in DOMAIN line : line[i] \in Consumers
         /\ Cardinality(Holders) \in Nat
<1>1. line \in Seq(Consumers) /\ permits \in 0..Permits
  BY DEF TransportInv, TransportTypeOK
<1>2. \A i \in DOMAIN line : line[i] \in Consumers
  BY <1>1, LenProperties
<1>3. Cardinality(Holders) \in Nat
  BY FS_CardinalityType DEF TransportInv, PermitsKept
<1> QED
  BY <1>1, <1>2, <1>3, TransportAssumption DEF TransportInv

LEMMA AcquireInv == ASSUME TransportInv, NEW c \in Callers, Acquire(c) PROVE TransportInv'
<1>1. /\ attempt \in [Callers -> AttemptState] /\ attempt[c] \in AttemptState
      /\ Honest(c, attempt[c]) /\ attempt[c].at = "idle" /\ c \in Consumers
      /\ UNCHANGED <<clock, disabled>>
  BY AttemptFacts DEF Acquire, At
<1>2. /\ PermitsKept /\ LineInv /\ line \in Seq(Consumers) /\ permits \in 0..Permits
      /\ \A i \in DOMAIN line : line[i] \in Consumers /\ line[i] # c
      /\ Cardinality(Holders) \in Nat /\ Permits \in Nat
  <2>1. \A i \in DOMAIN line : attempt[line[i]].at = "queued"
    BY DEF TransportInv, LineInv, At
  <2> QED
    BY <1>1, <2>1, InvParts
<1>3. CASE permits > 0
  <2> DEFINE r == [attempt[c] EXCEPT !.at = "endpoint"]
  <2>1. /\ attempt' = [attempt EXCEPT ![c] = r] /\ permits' = permits - 1 /\ line' = line
    BY <1>3 DEF Acquire, Goes
  <2>2. r \in AttemptState /\ r.at = "endpoint"
    BY <1>1 DEF AttemptState, Stages
  <2>3. Honest(c, r)
    BY <1>1, EndpointBound DEF Honest, AttemptState, Stages
  <2> HIDE DEF r
  <2>4. /\ attempt' \in [Callers -> AttemptState] /\ attempt'[c] = r
        /\ \A d \in Callers : d # c => attempt'[d] = attempt[d]
    BY <1>1, <2>1, <2>2
  <2>5. Holders' = Holders \cup {c} /\ c \notin Holders
    BY <1>1, <2>2, <2>4 DEF Holders, Callers, Stages
  <2>6. IsFiniteSet(Holders') /\ Cardinality(Holders') = Cardinality(Holders) + 1
    BY <1>2, <2>5, FS_AddElement DEF PermitsKept
  <2>7. line = <<>>
    BY <1>2, <1>3 DEF PermitsKept
  <2>8. PermitsKept' /\ permits' \in 0..Permits
    BY <1>2, <1>3, <2>1, <2>6, <2>7 DEF PermitsKept
  <2>9. LineInv'
    BY <1>1, <1>2, <2>1, <2>2, <2>4 DEF LineInv, At, Callers
  <2>10. \A d \in Callers : Honest(d, attempt'[d])
    BY <2>3, <2>4 DEF TransportInv
  <2>11. TransportTypeOK'
    BY <1>1, <2>1, <2>4, <2>8 DEF TransportInv, TransportTypeOK
  <2> QED
    BY <2>8, <2>9, <2>10, <2>11 DEF TransportInv
<1>4. CASE ~ (permits > 0)
  <2> DEFINE r == [attempt[c] EXCEPT !.at = "queued"]
  <2>1. /\ attempt' = [attempt EXCEPT ![c] = r] /\ permits' = permits
        /\ line' = Append(line, c)
    BY <1>4 DEF Acquire, Goes
  <2>2. r \in AttemptState /\ r.at = "queued"
    BY <1>1 DEF AttemptState
  <2>3. Honest(c, r)
    BY <1>1 DEF Honest, AttemptState, Stages
  <2> HIDE DEF r
  <2>4. /\ attempt' \in [Callers -> AttemptState] /\ attempt'[c] = r
        /\ \A d \in Callers : d # c => attempt'[d] = attempt[d]
    BY <1>1, <2>1, <2>2
  <2>5. Holders' = Holders
    BY <1>1, <2>2, <2>4 DEF Holders, Callers, Stages
  <2>6. permits = 0
    BY <1>2, <1>4
  <2>7. /\ line' \in Seq(Consumers)
        /\ \A j \in DOMAIN line' : line'[j] = c \/ \E k \in DOMAIN line : line'[j] = line[k]
        /\ \A j, k \in DOMAIN line' : line'[j] = line'[k] => j = k
    <3>1. \A j, k \in DOMAIN line : line[j] = line[k] => j = k
      BY <1>2 DEF LineInv
    <3> QED
      BY <1>1, <1>2, <2>1, <3>1, QueuedFacts
  <2>8. PermitsKept'
    BY <1>2, <2>1, <2>5, <2>6 DEF PermitsKept
  <2>9. LineInv'
    <3>1. \A j \in DOMAIN line' : attempt'[line'[j]].at = "queued"
      BY <1>2, <2>2, <2>4, <2>7 DEF LineInv, At, Callers
    <3>2. \A d \in Callers : attempt'[d].at = "queued" => d \in Consumers
      BY <1>1, <1>2, <2>4 DEF LineInv, At
    <3> QED
      BY <2>7, <3>1, <3>2 DEF LineInv, At
  <2>10. \A d \in Callers : Honest(d, attempt'[d])
    BY <2>3, <2>4 DEF TransportInv
  <2>11. TransportTypeOK'
    BY <1>1, <2>1, <2>4, <2>7 DEF TransportInv, TransportTypeOK
  <2> QED
    BY <2>8, <2>9, <2>10, <2>11 DEF TransportInv
<1> QED
  BY <1>3, <1>4

LEMMA QueueTimeoutInv ==
  ASSUME TransportInv, NEW c \in Callers, QueueTimeout(c) PROVE TransportInv'
<1> DEFINE r == [attempt[c] EXCEPT !.at = "queue full"]
<1>1. /\ attempt \in [Callers -> AttemptState] /\ attempt[c] \in AttemptState
      /\ Honest(c, attempt[c]) /\ attempt[c].at = "queued"
      /\ UNCHANGED <<clock, disabled, permits>> /\ attempt' = [attempt EXCEPT ![c] = r]
  BY AttemptFacts DEF QueueTimeout, At, Goes
<1>2. r \in AttemptState /\ r.at = "queue full"
  BY <1>1 DEF AttemptState, Returned
<1>3. Honest(c, r)
  BY <1>1 DEF Honest, AttemptState, Stages
<1> HIDE DEF r
<1>4. /\ attempt' \in [Callers -> AttemptState] /\ attempt'[c] = r
      /\ \A d \in Callers : d # c => attempt'[d] = attempt[d]
  BY <1>1, <1>2
<1>5. PICK i \in DOMAIN line : line[i] = c /\ line' = RemoveAt(line, i)
  BY DEF QueueTimeout
<1>6. /\ PermitsKept /\ LineInv /\ line \in Seq(Consumers)
      /\ \A j \in DOMAIN line : line[j] \in Consumers
      /\ \A j, k \in DOMAIN line : line[j] = line[k] => j = k
  BY InvParts DEF LineInv
<1>7. /\ line' \in Seq(Consumers)
      /\ \A j \in DOMAIN line' : \E k \in DOMAIN line : k # i /\ line'[j] = line[k]
      /\ \A j, k \in DOMAIN line' : line'[j] = line'[k] => j = k
  BY <1>5, <1>6, RemovedFacts
<1>8. Holders' = Holders
  BY <1>1, <1>2, <1>4 DEF Holders, Callers, Stages
<1>9. PermitsKept'
  <2>1. line # <<>>
    BY <1>5
  <2> QED
    BY <1>1, <1>6, <1>8, <2>1 DEF PermitsKept
<1>10. LineInv'
  <2>1. \A j \in DOMAIN line' : line'[j] \in Callers /\ attempt'[line'[j]].at = "queued"
    BY <1>4, <1>5, <1>6, <1>7 DEF LineInv, At, Callers
  <2>2. \A d \in Callers : attempt'[d].at = "queued" => d \in Consumers
    BY <1>2, <1>4, <1>6 DEF LineInv, At
  <2> QED
    BY <1>7, <2>1, <2>2 DEF LineInv, At
<1>11. \A d \in Callers : Honest(d, attempt'[d])
  BY <1>3, <1>4 DEF TransportInv
<1>12. TransportTypeOK'
  BY <1>1, <1>4, <1>7 DEF TransportInv, TransportTypeOK
<1> QED
  BY <1>9, <1>10, <1>11, <1>12 DEF TransportInv

\* A call returns: its permit is free again, or the first in the line has it.
LEMMA ReturnsInv ==
  ASSUME TransportInv, NEW c \in Callers, NEW end \in AttemptState, Honest(c, end),
         attempt[c].at \in Stages, end.at \in Returned, Returns(c, end),
         UNCHANGED <<clock, disabled>>
  PROVE  TransportInv'
<1>1. /\ attempt \in [Callers -> AttemptState] /\ attempt[c] \in AttemptState
      /\ attempt[c].at # "queued" /\ end.at # "queued" /\ end.at \notin Stages
  BY AttemptFacts DEF Stages, Returned
<1>2. /\ PermitsKept /\ LineInv /\ line \in Seq(Consumers) /\ permits \in 0..Permits
      /\ \A j \in DOMAIN line : line[j] \in Consumers
      /\ Cardinality(Holders) \in Nat /\ Permits \in Nat /\ IsFiniteSet(Holders)
      /\ permits + Cardinality(Holders) = Permits
  BY InvParts DEF PermitsKept
<1>3. CASE c \in Sharers
  <2>1. c \notin Consumers
    BY <1>3, TransportAssumption
  <2>2. attempt' = [attempt EXCEPT ![c] = end] /\ UNCHANGED <<permits, line>>
    BY <1>3, <2>1 DEF Returns
  <2>3. ClockTyped'
    BY DEF TransportInv, TransportTypeOK, ClockTyped
  <2> QED
    BY <1>1, <2>1, <2>2, <2>3, MoveInv
<1>4. CASE c \notin Sharers /\ line = <<>>
  <2>1. /\ attempt' = [attempt EXCEPT ![c] = end] /\ permits' = permits + 1 /\ line' = line
        /\ c \in Consumers
    BY <1>4 DEF Returns, Callers
  <2>2. /\ attempt' \in [Callers -> AttemptState] /\ attempt'[c] = end
        /\ \A d \in Callers : d # c => attempt'[d] = attempt[d]
    BY <1>1, <2>1
  <2>3. Holders' = Holders \ {c} /\ c \in Holders
    BY <1>1, <2>1, <2>2 DEF Holders, Callers
  <2>4. IsFiniteSet(Holders') /\ Cardinality(Holders') = Cardinality(Holders) - 1
    BY <1>2, <2>3, FS_RemoveElement
  <2>5. Cardinality(Holders') \in Nat
    BY <2>4, FS_CardinalityType
  <2>6. PermitsKept' /\ permits' \in 0..Permits
    BY <1>2, <1>4, <2>1, <2>4, <2>5 DEF PermitsKept
  <2>7. LineInv'
    BY <1>1, <1>2, <2>1, <2>2 DEF LineInv, At, Callers
  <2>8. \A d \in Callers : Honest(d, attempt'[d])
    BY <2>2 DEF TransportInv
  <2>9. TransportTypeOK'
    BY <2>1, <2>2, <2>6 DEF TransportInv, TransportTypeOK
  <2> QED
    BY <2>6, <2>7, <2>8, <2>9 DEF TransportInv
<1>5. CASE c \notin Sharers /\ line # <<>>
  <2> DEFINE n == Head(line)
             r == [attempt[n] EXCEPT !.at = "endpoint"]
  <2>1. /\ n \in Consumers /\ 1 \in DOMAIN line /\ n = line[1]
        /\ line' \in Seq(Consumers)
        /\ \A j \in DOMAIN line' : \E k \in DOMAIN line : k # 1 /\ line'[j] = line[k]
        /\ \A j, k \in DOMAIN line' : line'[j] = line'[k] => j = k
    <3>1. \A j, k \in DOMAIN line : line[j] = line[k] => j = k
      BY <1>2 DEF LineInv
    <3>2. line' = Tail(line)
      BY <1>5 DEF Returns
    <3> QED
      BY <1>2, <1>5, <3>1, <3>2, TailFacts
  <2>2. attempt[n].at = "queued" /\ n \in Callers /\ n # c
    BY <1>1, <1>2, <2>1 DEF LineInv, At, Callers
  <2>3. c \in Consumers /\ permits' = permits
    BY <1>5 DEF Returns, Callers
  <2>4. attempt' = [attempt EXCEPT ![c] = end, ![n].at = "endpoint"]
    BY <1>5 DEF Returns
  <2>5. r \in AttemptState /\ r.at = "endpoint" /\ Honest(n, r)
    <3>1. attempt[n] \in AttemptState /\ Honest(n, attempt[n])
      BY <2>2, AttemptFacts
    <3>2. r \in AttemptState /\ r.at = "endpoint"
      BY <3>1 DEF AttemptState, Stages
    <3> QED
      BY <2>2, <3>1, <3>2, EndpointBound DEF Honest, AttemptState, Stages
  <2> HIDE DEF n
  <2>6. /\ attempt'[c] = end /\ attempt'[n] = r
        /\ \A d \in Callers : d # c /\ d # n => attempt'[d] = attempt[d]
    BY <1>1, <2>2, <2>4
  <2> HIDE DEF r
  <2>7. attempt' \in [Callers -> AttemptState]
    <3>1. attempt' = [d \in Callers |-> attempt'[d]]
      BY <1>1, <2>4
    <3>2. \A d \in Callers : attempt'[d] \in AttemptState
      BY <1>1, <2>2, <2>5, <2>6
    <3> QED
      BY <3>1, <3>2
  <2>8. /\ Holders' = (Holders \ {c}) \cup {n}
        /\ c \in Holders /\ n \notin Holders
    BY <1>1, <2>1, <2>2, <2>3, <2>5, <2>6 DEF Holders, Callers, Stages
  <2>9. IsFiniteSet(Holders') /\ Cardinality(Holders') = Cardinality(Holders)
    <3> DEFINE H == Holders \ {c}
    <3>1. IsFiniteSet(H) /\ Cardinality(H) = Cardinality(Holders) - 1
      BY <1>2, <2>8, FS_RemoveElement
    <3>2. n \notin H
      BY <2>8
    <3> HIDE DEF H
    <3>3. IsFiniteSet(H \cup {n}) /\ Cardinality(H \cup {n}) = Cardinality(H) + 1
      BY <3>1, <3>2, FS_AddElement
    <3>4. Holders' = H \cup {n}
      BY <2>8 DEF H
    <3> QED
      BY <1>2, <3>1, <3>3, <3>4
  <2>10. PermitsKept'
    BY <1>2, <1>5, <2>3, <2>9 DEF PermitsKept
  <2>11. LineInv'
    <3>1. \A j \in DOMAIN line' :
            /\ line'[j] \in Callers /\ line'[j] # n /\ attempt[line'[j]].at = "queued"
      BY <1>2, <2>1 DEF LineInv, At, Callers
    <3>2. \A j \in DOMAIN line' : attempt'[line'[j]].at = "queued"
      BY <1>1, <2>6, <3>1
    <3>3. \A d \in Callers : attempt'[d].at = "queued" => d \in Consumers
      BY <1>1, <1>2, <2>5, <2>6 DEF LineInv, At
    <3> QED
      BY <2>1, <3>2, <3>3 DEF LineInv, At
  <2>12. \A d \in Callers : Honest(d, attempt'[d])
    BY <2>5, <2>6 DEF TransportInv
  <2>13. TransportTypeOK'
    BY <2>1, <2>3, <2>7 DEF TransportInv, TransportTypeOK
  <2> QED
    BY <2>10, <2>11, <2>12, <2>13 DEF TransportInv
<1> QED
  BY <1>3, <1>4, <1>5

-----------------------------------------------------------------------------
(* One endpoint after the other.                                           *)

LEMMA NoAttemptFacts ==
  /\ NoAttempt \in AttemptState
  /\ NoAttempt.at = "idle" /\ NoAttempt.endpoint = 1 /\ NoAttempt.failed = <<>>
<1>1. <<>> \in Seq(Reasons) /\ 1 \in 1..Endpoints
  BY TransportAssumption
<1> QED
  BY <1>1 DEF NoAttempt, AttemptState

\* An endpoint is given up: the next one is tried, or the call returns.
LEMMA EndpointFailsInv ==
  ASSUME TransportInv, NEW c \in Callers, attempt[c].at \in Stages,
         attempt[c].at = "endpoint" => attempt[c].endpoint \in Invalid,
         attempt[c].at \in {"connect", "handshake"} => ~ attempt[c].ech,
         EndpointFails(c)
  PROVE  TransportInv'
<1> DEFINE a == attempt[c]
           failed == Append(a.failed, Reason(a))
<1>1. /\ a \in AttemptState /\ Honest(c, a)
      /\ a.endpoint \in 1..Endpoints /\ a.failed \in Seq(Reasons)
      /\ a.endpoint <= LastEndpoint(c) /\ Len(a.failed) = a.endpoint - 1
  BY AttemptFacts DEF Honest
<1>2. Reason(a) \in Reasons /\ Reason(a) # "ech" /\ (Reason(a) = "url" => a.endpoint \in Invalid)
  BY DEF Reason, Reasons, Stages
<1>3. /\ failed \in Seq(Reasons) /\ Len(failed) = a.endpoint
      /\ \A i \in DOMAIN failed : failed[i] # "ech" /\ (failed[i] = "url" => i \in Invalid)
  <2>1. /\ failed \in Seq(Reasons) /\ Len(failed) = Len(a.failed) + 1
        /\ \A i \in 1..Len(a.failed) : failed[i] = a.failed[i]
        /\ failed[Len(a.failed) + 1] = Reason(a)
    BY <1>1, <1>2, AppendProperties
  <2>2. DOMAIN failed = 1..Len(failed) /\ DOMAIN a.failed = 1..Len(a.failed)
        /\ Len(a.failed) \in Nat
    BY <1>1, <2>1, LenProperties
  <2>3. Len(failed) = a.endpoint /\ Len(a.failed) + 1 = a.endpoint
    BY <1>1, <2>1, <2>2
  <2>4. ASSUME NEW i \in 1..Len(failed)
        PROVE  failed[i] # "ech" /\ (failed[i] = "url" => i \in Invalid)
    <3>1. CASE i = Len(a.failed) + 1
      BY <1>2, <2>1, <2>3, <3>1
    <3>2. CASE i # Len(a.failed) + 1
      <4>1. i \in 1..Len(a.failed)
        BY <2>1, <2>2, <3>2
      <4> QED
        BY <1>1, <2>1, <2>2, <4>1 DEF Honest
    <3> QED
      BY <3>1, <3>2
  <2> QED
    BY <2>1, <2>2, <2>3, <2>4
<1>4. UNCHANGED <<clock, disabled>>
  BY DEF EndpointFails
<1>5. \/ /\ a.endpoint = LastEndpoint(c)
         /\ Returns(c, [a EXCEPT !.at = "exhausted", !.failed = failed])
      \/ /\ a.endpoint # LastEndpoint(c)
         /\ attempt' = [attempt EXCEPT ![c] =
              [NoAttempt EXCEPT !.at = "endpoint", !.endpoint = a.endpoint + 1,
                                !.failed = failed]]
         /\ UNCHANGED <<permits, line>>
  BY DEF EndpointFails
<1> HIDE DEF failed
<1>6. CASE /\ a.endpoint = LastEndpoint(c)
           /\ Returns(c, [a EXCEPT !.at = "exhausted", !.failed = failed])
  <2> DEFINE end == [a EXCEPT !.at = "exhausted", !.failed = failed]
  <2>1. end \in AttemptState /\ end.at = "exhausted" /\ end.failed = failed
    BY <1>1, <1>3 DEF AttemptState, Returned
  <2>2. Honest(c, end) /\ end.at \in Returned
    BY <1>3, <1>6, <2>1 DEF Honest, Stages, Returned
  <2> HIDE DEF end
  <2> QED
    BY <1>4, <1>6, <2>1, <2>2, ReturnsInv DEF end
<1>7. CASE /\ a.endpoint # LastEndpoint(c)
           /\ attempt' = [attempt EXCEPT ![c] =
                [NoAttempt EXCEPT !.at = "endpoint", !.endpoint = a.endpoint + 1,
                                  !.failed = failed]]
           /\ UNCHANGED <<permits, line>>
  <2> DEFINE r == [NoAttempt EXCEPT !.at = "endpoint", !.endpoint = a.endpoint + 1,
                                    !.failed = failed]
  <2>2. a.endpoint + 1 \in 1..Endpoints /\ a.endpoint + 1 <= LastEndpoint(c)
        /\ (a.endpoint + 1) - 1 = a.endpoint
    <3> DEFINE e == a.endpoint
    <3>1. e \in 1..Endpoints /\ e <= LastEndpoint(c) /\ e # LastEndpoint(c)
      BY <1>1, <1>7
    <3>2. LastEndpoint(c) \in 1..Endpoints /\ Endpoints \in Nat
      BY EndpointBound, TransportAssumption
    <3> HIDE DEF e
    <3>3. e + 1 \in 1..Endpoints /\ e + 1 <= LastEndpoint(c) /\ (e + 1) - 1 = e
      BY <3>1, <3>2
    <3> QED
      BY <3>3 DEF e
  <2>1. /\ r.at = "endpoint" /\ r.endpoint = a.endpoint + 1 /\ r.failed = failed
        /\ r \in AttemptState
    BY <1>3, <2>2, NoAttemptFacts DEF AttemptState, Stages
  <2>3. r \in AttemptState /\ r.at = "endpoint"
    BY <2>1
  <2>4. Honest(c, r)
    <3> HIDE DEF r
    <3> QED
      BY <1>3, <2>1, <2>2 DEF Honest
  <2>5. /\ attempt[c].at # "queued" /\ r.at # "queued" /\ r.at \in Stages
        /\ attempt' = [attempt EXCEPT ![c] = r]
    BY <1>7, <2>3 DEF Stages
  <2>6. ClockTyped'
    BY <1>4 DEF TransportInv, TransportTypeOK, ClockTyped
  <2> HIDE DEF r
  <2> QED
    BY <1>7, <2>3, <2>4, <2>5, <2>6, MoveInv
<1> QED
  BY <1>5, <1>6, <1>7

\* The record of a call that stays with its endpoint.
LEMMA StageFacts ==
  ASSUME TransportInv, NEW c \in Callers, NEW stage \in Stages, NEW ech \in BOOLEAN,
         attempt[c].at \in Stages
  PROVE  LET r == [attempt[c] EXCEPT !.at = stage, !.ech = ech] IN
         /\ r \in AttemptState /\ Honest(c, r)
         /\ r.at \in Stages /\ r.at # "queued" /\ attempt[c].at # "queued"
<1> DEFINE r == [attempt[c] EXCEPT !.at = stage, !.ech = ech]
<1>1. attempt[c] \in AttemptState /\ Honest(c, attempt[c])
  BY AttemptFacts
<1>2. r \in AttemptState /\ r.at = stage /\ r.endpoint = attempt[c].endpoint
      /\ r.failed = attempt[c].failed
  BY <1>1 DEF AttemptState
<1>3. Honest(c, r)
  BY <1>1, <1>2 DEF Honest, Stages
<1> QED
  BY <1>2, <1>3 DEF Stages

LEMMA StageInv ==
  ASSUME TransportInv, NEW c \in Callers, NEW stage \in Stages, NEW ech \in BOOLEAN,
         attempt[c].at \in Stages,
         attempt' = [attempt EXCEPT ![c] = [attempt[c] EXCEPT !.at = stage, !.ech = ech]],
         UNCHANGED <<permits, line>>, ClockTyped'
  PROVE  TransportInv'
BY StageFacts, MoveInv

LEMMA TransportStep == TransportInv /\ [TransportNext]_transportVars => TransportInv'
<1>1. SUFFICES ASSUME TransportInv, [TransportNext]_transportVars PROVE TransportInv'
  OBVIOUS
<1>2. /\ clock \in 0..MaxTime /\ disabled \in 0..(MaxTime + Cooldown)
      /\ Cooldown \in Nat \ {0} /\ MaxTime \in Nat
  BY <1>1, TransportAssumption DEF TransportInv, TransportTypeOK
<1>3. ASSUME NEW c \in Callers, attempt[c].at \in Stages,
             NEW stage \in Stages, Goes(c, stage), UNCHANGED <<permits, line>>, ClockTyped'
      PROVE  TransportInv'
  <2>1. attempt[c].ech \in BOOLEAN /\ attempt[c] \in AttemptState
    BY <1>1, AttemptFacts
  <2>2. [attempt[c] EXCEPT !.at = stage] = [attempt[c] EXCEPT !.at = stage, !.ech = attempt[c].ech]
    BY <2>1 DEF AttemptState
  <2>3. attempt' = [attempt EXCEPT ![c] = [attempt[c] EXCEPT !.at = stage]]
    BY <1>3 DEF Goes
  <2> QED
    BY <1>1, <1>3, <2>1, <2>2, <2>3, StageInv
<1>4. ASSUME NEW c \in Callers, Share(c) PROVE TransportInv'
  <2> DEFINE r == [attempt[c] EXCEPT !.at = "endpoint"]
  <2>1. attempt[c] \in AttemptState /\ Honest(c, attempt[c]) /\ attempt[c].at = "idle"
        /\ c \notin Consumers
    BY <1>1, <1>4, AttemptFacts, TransportAssumption DEF Share, At
  <2>2. r \in AttemptState /\ r.at = "endpoint"
    BY <2>1 DEF AttemptState, Stages
  <2>3. Honest(c, r)
    BY <2>1, EndpointBound DEF Honest, AttemptState, Stages
  <2>4. attempt' = [attempt EXCEPT ![c] = r] /\ UNCHANGED <<clock, disabled, permits, line>>
    BY <1>4 DEF Share, Goes
  <2>5. ClockTyped'
    BY <1>2, <2>4 DEF ClockTyped
  <2> HIDE DEF r
  <2> QED
    BY <1>1, <2>1, <2>2, <2>3, <2>4, <2>5, MoveInv
<1>5. ASSUME NEW c \in Callers, ParseFails(c) PROVE TransportInv'
  <2>1. attempt[c].at = "endpoint" /\ attempt[c].endpoint \in Invalid /\ EndpointFails(c)
    BY <1>5 DEF ParseFails, At
  <2>2. attempt[c].at \in Stages
    BY <2>1 DEF Stages
  <2> QED
    BY <1>1, <2>1, <2>2, EndpointFailsInv
<1>6. ASSUME NEW c \in Callers, BuildTlsConfig(c) PROVE TransportInv'
  <2>1. attempt[c].at = "endpoint" /\ UNCHANGED <<clock, permits, line>>
    BY <1>6 DEF BuildTlsConfig, At
  <2>2. PICK ech \in {ShouldAttemptEch, FALSE} :
          attempt' = [attempt EXCEPT ![c].at = "connect", ![c].ech = ech]
    BY <1>6 DEF BuildTlsConfig
  <2>3. ech \in BOOLEAN
    <3>1. ShouldAttemptEch \in BOOLEAN
      BY DEF ShouldAttemptEch
    <3> QED
      BY <3>1, Zenon
  <2>4. attempt' = [attempt EXCEPT ![c] = [attempt[c] EXCEPT !.at = "connect", !.ech = ech]]
    BY <2>2
  <2>5. ClockTyped'
    BY <1>2, <1>6, <2>1 DEF BuildTlsConfig, ClockTyped
  <2>6. attempt[c].at \in Stages /\ "connect" \in Stages
    BY <2>1 DEF Stages
  <2> QED
    BY <1>1, <2>1, <2>3, <2>4, <2>5, <2>6, StageInv
<1>7. ASSUME NEW c \in Callers, Connect(c) PROVE TransportInv'
  <2>1. /\ attempt[c].at \in Stages /\ "handshake" \in Stages /\ Goes(c, "handshake")
        /\ UNCHANGED <<clock, disabled, permits, line>>
    BY <1>7 DEF Connect, At, Stages
  <2>2. ClockTyped'
    BY <1>2, <2>1 DEF ClockTyped
  <2> QED
    BY <1>3, <2>1, <2>2
<1>8. ASSUME NEW c \in Callers, TlsFails(c) PROVE TransportInv'
  <2>1. attempt[c].at \in {"connect", "handshake"} /\ attempt[c].at \in Stages
        /\ attempt[c].at # "endpoint"
    BY <1>8 DEF TlsFails, At, Stages
  <2>2. CASE attempt[c].ech
    <3>1. EchFails(c)
      BY <1>8, <2>2 DEF TlsFails
    <3>2. /\ attempt' = [attempt EXCEPT ![c] =
               [attempt[c] EXCEPT !.at = "connect", !.ech = FALSE]]
          /\ UNCHANGED <<clock, permits, line>> /\ disabled' = clock + Cooldown
      BY <3>1 DEF EchFails
    <3>3. ClockTyped'
      BY <1>2, <3>2 DEF ClockTyped
    <3>4. "connect" \in Stages /\ FALSE \in BOOLEAN
      BY DEF Stages
    <3> QED
      BY <1>1, <2>1, <3>2, <3>3, <3>4, StageInv
  <2>3. CASE ~ attempt[c].ech
    <3>1. EndpointFails(c)
      BY <1>8, <2>3 DEF TlsFails
    <3> QED
      BY <1>1, <2>1, <2>3, <3>1, EndpointFailsInv
  <2> QED
    BY <2>2, <2>3
<1>9. ASSUME NEW c \in Callers, Handshake(c) PROVE TransportInv'
  <2>1. /\ attempt[c].at \in Stages /\ "upgrade" \in Stages /\ Goes(c, "upgrade")
        /\ UNCHANGED <<clock, permits, line>> /\ disabled' \in {disabled, 0}
    BY <1>9 DEF Handshake, At, Stages
  <2>2. ClockTyped'
    BY <1>2, <2>1 DEF ClockTyped
  <2> QED
    BY <1>3, <2>1, <2>2
<1>10. ASSUME NEW c \in Callers, Upgraded(c) PROVE TransportInv'
  <2> DEFINE end == [NoAttempt EXCEPT !.at = "connected", !.endpoint = attempt[c].endpoint]
  <2>1. /\ attempt[c].at \in Stages /\ Returns(c, end) /\ UNCHANGED <<clock, disabled>>
    BY <1>10 DEF Upgraded, At, Stages
  <2>2. attempt[c].endpoint \in 1..Endpoints
    BY <1>1, AttemptFacts
  <2>4. <<>> \in Seq(Reasons) /\ DOMAIN <<>> = {}
    OBVIOUS
  <2>5. end \in AttemptState /\ end.at = "connected" /\ end.failed = <<>>
    BY <2>2, NoAttemptFacts DEF AttemptState, Returned
  <2> HIDE DEF end
  <2>6. Honest(c, end) /\ end.at \in Returned
    BY <2>4, <2>5 DEF Honest, Stages, Returned
  <2> QED
    BY <1>1, <2>1, <2>5, <2>6, ReturnsInv
<1>11. ASSUME NEW c \in Callers, UpgradeFails(c) PROVE TransportInv'
  <2>1. attempt[c].at = "upgrade" /\ attempt[c].at \in Stages /\ EndpointFails(c)
    BY <1>11 DEF UpgradeFails, At, Stages
  <2> QED
    BY <1>1, <2>1, EndpointFailsInv
<1>12. CASE Tick
  BY <1>1, <1>2, <1>12
  DEF Tick, TransportInv, TransportTypeOK, PermitsKept, Holders, LineInv, At
<1>13. CASE UNCHANGED transportVars
  BY <1>1, <1>13
  DEF transportVars, TransportInv, TransportTypeOK, PermitsKept, Holders, LineInv, At
<1> QED
  BY <1>1, <1>4, <1>5, <1>6, <1>7, <1>8, <1>9, <1>10, <1>11, <1>12, <1>13,
     AcquireInv, QueueTimeoutInv
  DEF TransportNext, Dial

LEMMA TransportBegins == TransportInit => TransportInv
<1>1. SUFFICES ASSUME TransportInit PROVE TransportInv
  OBVIOUS
<1>2. Permits \in Nat /\ Endpoints \in Nat \ {0} /\ Cooldown \in Nat /\ MaxTime \in Nat
  BY TransportAssumption
<1>3. <<>> \in Seq(Reasons) /\ <<>> \in Seq(Consumers) /\ DOMAIN <<>> = {}
  OBVIOUS
<1>4. NoAttempt \in AttemptState /\ NoAttempt.at = "idle" /\ NoAttempt.endpoint = 1
      /\ NoAttempt.failed = <<>>
  BY NoAttemptFacts
<1>5. \A c \in Callers : attempt[c] = NoAttempt
  BY <1>1 DEF TransportInit
<1>6. TransportTypeOK
  BY <1>1, <1>2, <1>3, <1>4 DEF TransportInit, TransportTypeOK
<1>7. Holders = {}
  BY <1>4, <1>5 DEF Holders, Callers, Stages
<1>8. PermitsKept
  BY <1>1, <1>2, <1>7, FS_EmptySet DEF PermitsKept, TransportInit
<1>9. LineInv
  BY <1>1, <1>3, <1>4, <1>5 DEF TransportInit, LineInv, At
<1>10. \A c \in Callers : Honest(c, NoAttempt)
  BY <1>3, <1>4 DEF Honest, Stages
<1> QED
  BY <1>5, <1>6, <1>8, <1>9, <1>10 DEF TransportInv

-----------------------------------------------------------------------------
(* What the transport promises.                                            *)

\* Every step of the composition is one of the transport, or leaves it alone.
LEMMA MapsToTransport == [Next]_vars => [TransportNext]_transportVars
BY DEF Next, vars, Upgrade, Relay, TransportNext

\* Every value a variable of the transport takes has its type.
THEOREM TransportTypeCorrect == Spec => []TransportTypeOK
<1>1. Init => TransportInv
  BY TransportBegins DEF Init
<1>2. TransportInv /\ [Next]_vars => TransportInv'
  BY TransportStep, MapsToTransport
<1>3. TransportInv => TransportTypeOK
  BY DEF TransportInv
<1> QED
  BY <1>1, <1>2, <1>3, PTL DEF Spec

\* A call that gives up has tried every endpoint, and none of them was given up
\* because of ECH or, unless it is no URL, because of its URL: wherever a call
\* ends, its permit and the line do not shorten what it does.
THEOREM HonestyCorrect == Spec => []ExhaustedHonestly
<1>1. Init => TransportInv
  BY TransportBegins DEF Init
<1>2. TransportInv /\ [Next]_vars => TransportInv'
  BY TransportStep, MapsToTransport
<1>3. TransportInv => ExhaustedHonestly
  BY DEF TransportInv, ExhaustedHonestly, Honest, At
<1> QED
  BY <1>1, <1>2, <1>3, PTL DEF Spec

\* No permit is lost or made up, whichever way a call ends, and none is free
\* while somebody waits for one; nobody is in the line twice or without waiting.
THEOREM PermitsCorrect == Spec => [](PermitsKept /\ LineInv)
<1>1. Init => TransportInv
  BY TransportBegins DEF Init
<1>2. TransportInv /\ [Next]_vars => TransportInv'
  BY TransportStep, MapsToTransport
<1>3. TransportInv => PermitsKept /\ LineInv
  BY DEF TransportInv
<1> QED
  BY <1>1, <1>2, <1>3, PTL DEF Spec

-----------------------------------------------------------------------------
(* The quota by itself: the inductive invariant.                           *)

Started == {c \in Connections : state[c] # "new"}

\* The record of a day is never empty, and a connection that reports has read
\* no more than what was reported of the day it reports under.
QuotaInv ==
  /\ QuotaTypeOK
  /\ IsFiniteSet(Started)
  /\ \A d \in Days : records[d] # <<>>
  /\ NeverOvercharged
  /\ \A c \in Connections : state[c] = "reporting" =>
       \E d \in Days : key[c] = d /\ read[c] <= TotalOf(Reported(d))

LEMMA ReportedFinite ==
  ASSUME IsFiniteSet(Started), NEW d
  PROVE  IsFiniteSet(Reported(d))
BY FS_Subset, Reported(d) \subseteq Started DEF Reported, Started

LEMMA TotalType ==
  ASSUME QuotaTypeOK, IsFiniteSet(Started), NEW d
  PROVE  TotalOf(Reported(d)) \in Nat
<1>1. \A x \in Reported(d) : bytes[x] \in Nat
  BY QuotaAssumption DEF QuotaTypeOK, Reported
<1> QED
  BY <1>1, ReportedFinite, SumOverNat DEF TotalOf

\* One connection changes, and may have reported of a day it had not before.
LEMMA TotalGrows ==
  ASSUME QuotaTypeOK, IsFiniteSet(Started), NEW c \in Connections,
         state[c] # "ended", bytes'[c] \in Nat,
         \A x \in Connections \ {c} :
           state'[x] = state[x] /\ bytes'[x] = bytes[x] /\ key'[x] = key[x],
         NEW d
  PROVE  /\ TotalOf(Reported(d)) \in Nat
         /\ TotalOf(Reported(d))' =
              TotalOf(Reported(d)) + IF state'[c] = "ended" /\ key'[c] = d THEN bytes'[c] ELSE 0
<1> DEFINE R == Reported(d)
<1>1. IsFiniteSet(R) /\ c \notin R /\ TotalOf(R) \in Nat
  BY ReportedFinite, TotalType DEF Reported
<1>2. \A x \in R : bytes[x] \in Int /\ bytes'[x] = bytes[x] /\ bytes'[x] \in Int
  BY QuotaAssumption DEF QuotaTypeOK, Reported
<1>3. SumOver(bytes', R) = SumOver(bytes, R)
  <2> HIDE DEF R
  <2> QED
    BY <1>1, <1>2, SumOverSame
<1>4. CASE state'[c] = "ended" /\ key'[c] = d
  <2>1. Reported(d)' = R \cup {c}
    BY <1>4 DEF Reported
  <2>2. bytes'[c] \in Int
    OBVIOUS
  <2>3. SumOver(bytes', R \cup {c}) = SumOver(bytes', R) + bytes'[c]
    <3> HIDE DEF R
    <3> QED
      BY <1>1, <1>2, <2>2, SumOverInsert
  <2> HIDE DEF R
  <2>4. TotalOf(Reported(d))' = SumOver(bytes', R \cup {c})
    BY <2>1 DEF TotalOf
  <2>5. TotalOf(R) = SumOver(bytes, R)
    BY DEF TotalOf
  <2> QED
    BY <1>1, <1>3, <1>4, <2>3, <2>4, <2>5 DEF R
<1>5. CASE ~ (state'[c] = "ended" /\ key'[c] = d)
  <2>1. Reported(d)' = R
    BY <1>5 DEF Reported
  <2>2. TotalOf(Reported(d))' = SumOver(bytes', R) /\ TotalOf(R) = SumOver(bytes, R)
    BY <2>1 DEF TotalOf
  <2> QED
    BY <1>1, <1>3, <1>5, <2>2
<1> QED
  BY <1>4, <1>5

\* What the store answers is a value it once held.
LEMMA AnswersFacts ==
  ASSUME QuotaInv, NEW d \in Days, NEW used \in Answers(d)
  PROVE  used \in 0..Limit /\ used <= TotalOf(Reported(d))
<1>1. records[d] \in Seq(0..Limit) /\ records[d] # <<>>
  BY DEF QuotaInv, QuotaTypeOK
<1>2. DOMAIN records[d] = 1..Len(records[d]) /\ Len(records[d]) \in Nat \ {0}
  BY <1>1, LenProperties, EmptySeq
<1>3. PICK i \in DOMAIN records[d] : used = records[d][i]
  BY <1>2 DEF Answers
<1>4. used \in 0..Limit
  BY <1>1, <1>2, <1>3, ElementOfSeq
<1> QED
  BY <1>3, <1>4 DEF QuotaInv, NeverOvercharged

LEMMA QuotaBegins == QuotaInit => QuotaInv
<1>1. SUFFICES ASSUME QuotaInit PROVE QuotaInv
  OBVIOUS
<1>2. Limit \in Nat /\ MaxBytes \in Nat /\ MaxDay \in Nat \ {0}
  BY QuotaAssumption
<1>3. <<0>> \in Seq(0..Limit) /\ <<0>> # <<>> /\ DOMAIN <<0>> = {1} /\ <<0>>[1] = 0
  BY <1>2
<1>4. QuotaTypeOK
  <2>1. records \in [Days -> Seq(0..Limit)]
    BY <1>1, <1>3 DEF QuotaInit
  <2>2. \A c \in Connections : state[c] = "new"
    BY <1>1 DEF QuotaInit
  <2> QED
    BY <1>1, <1>2, <2>1 DEF QuotaInit, QuotaTypeOK, Days
<1>5. Started = {} /\ \A d : Reported(d) = {}
  BY <1>1 DEF QuotaInit, Started, Reported
<1>6. NeverOvercharged
  BY <1>1, <1>3, <1>5, SumOverEmpty DEF QuotaInit, NeverOvercharged, TotalOf
<1> QED
  BY <1>1, <1>3, <1>4, <1>5, <1>6, FS_EmptySet DEF QuotaInv, QuotaInit

\* A step of one connection that takes no day less than it was and appends to a
\* record, if at all, a value the reports of that day reach.
LEMMA QuotaStepInv ==
  ASSUME QuotaInv, QuotaTypeOK', NEW c \in Connections, state[c] # "ended",
         UNCHANGED today,
         \A x \in Connections \ {c} :
           /\ state'[x] = state[x] /\ bytes'[x] = bytes[x]
           /\ key'[x] = key[x] /\ read'[x] = read[x],
         \/ records' = records
         \/ \E d \in Days, n \in 0..Limit :
              /\ n <= TotalOf(Reported(d))'
              /\ records' = [records EXCEPT ![d] = Append(@, n)],
         state'[c] = "reporting" =>
           \E d \in Days : key'[c] = d /\ read'[c] <= TotalOf(Reported(d))
  PROVE  QuotaInv'
<1>1. /\ QuotaTypeOK /\ IsFiniteSet(Started) /\ NeverOvercharged
      /\ \A d \in Days : records[d] # <<>>
  BY DEF QuotaInv
<1>2. bytes'[c] \in Nat
  BY QuotaAssumption DEF QuotaTypeOK
<1>3. \A d : /\ TotalOf(Reported(d)) \in Nat /\ TotalOf(Reported(d))' \in Nat
             /\ TotalOf(Reported(d)) <= TotalOf(Reported(d))'
  BY <1>1, <1>2, TotalGrows
<1>4. IsFiniteSet(Started')
  <2>1. IsFiniteSet(Started \cup {c})
    BY <1>1, FS_AddElement
  <2>2. Started' \subseteq Started \cup {c}
    BY DEF Started
  <2> QED
    BY <2>1, <2>2, FS_Subset
<1>5. ASSUME NEW d \in Days
      PROVE  /\ records'[d] # <<>>
             /\ \A i \in DOMAIN records'[d] : records'[d][i] <= TotalOf(Reported(d))'
  <2>1. /\ records[d] \in Seq(0..Limit) /\ records[d] # <<>>
        /\ \A i \in DOMAIN records[d] : records[d][i] <= TotalOf(Reported(d))
    BY <1>1 DEF QuotaTypeOK, NeverOvercharged
  <2>2. \A i \in DOMAIN records[d] : records[d][i] \in 0..Limit
    BY <2>1, ElementOfSeq, LenProperties
  <2>3. \A i \in DOMAIN records[d] : records[d][i] <= TotalOf(Reported(d))'
    <3> DEFINE old == TotalOf(Reported(d))
               new == TotalOf(Reported(d))'
    <3>1. old \in Nat /\ new \in Nat /\ old <= new
      BY <1>3
    <3>2. \A i \in DOMAIN records[d] : records[d][i] <= old
      BY <2>1
    <3> HIDE DEF old, new
    <3>3. \A i \in DOMAIN records[d] : records[d][i] <= new
      BY <2>2, <3>1, <3>2, QuotaAssumption
    <3> QED
      BY <3>3 DEF new
  <2>4. CASE records'[d] = records[d]
    BY <2>1, <2>3, <2>4
  <2>5. CASE \E n \in 0..Limit :
               n <= TotalOf(Reported(d))' /\ records'[d] = Append(records[d], n)
    <3>1. PICK n \in 0..Limit : /\ n <= TotalOf(Reported(d))'
                                /\ records'[d] = Append(records[d], n)
      BY <2>5
    <3>2. /\ records'[d] \in Seq(0..Limit) /\ Len(records'[d]) = Len(records[d]) + 1
          /\ \A i \in 1..Len(records[d]) : records'[d][i] = records[d][i]
          /\ records'[d][Len(records[d]) + 1] = n
      BY <2>1, <3>1, AppendProperties
    <3>3. /\ DOMAIN records[d] = 1..Len(records[d]) /\ Len(records[d]) \in Nat
          /\ DOMAIN records'[d] = 1..(Len(records[d]) + 1)
      BY <2>1, <3>2, LenProperties
    <3>4. ASSUME NEW i \in DOMAIN records'[d] PROVE records'[d][i] <= TotalOf(Reported(d))'
      <4>1. CASE i \in 1..Len(records[d])
        BY <2>3, <3>2, <3>3, <4>1
      <4>2. CASE i = Len(records[d]) + 1
        BY <3>1, <3>2, <4>2
      <4> QED
        BY <3>3, <4>1, <4>2
    <3>5. records'[d] # <<>>
      BY <3>2, <3>3, EmptySeq
    <3> QED
      BY <3>4, <3>5
  <2>6. records'[d] = records[d] \/ \E n \in 0..Limit :
          n <= TotalOf(Reported(d))' /\ records'[d] = Append(records[d], n)
    <3>1. DOMAIN records = Days
      BY <1>1 DEF QuotaTypeOK
    <3> QED
      BY <3>1
  <2> QED
    BY <2>4, <2>5, <2>6
<1>6. ASSUME NEW x \in Connections, state'[x] = "reporting"
      PROVE  \E d \in Days : key'[x] = d /\ read'[x] <= TotalOf(Reported(d))'
  <2>1. PICK d \in Days : key'[x] = d /\ read'[x] <= TotalOf(Reported(d))
    <3>1. CASE x = c
      BY <1>6, <3>1
    <3>2. CASE x # c
      BY <1>6, <3>2 DEF QuotaInv
    <3> QED
      BY <3>1, <3>2
  <2>2. read'[x] \in Int
    BY QuotaAssumption DEF QuotaTypeOK
  <2> DEFINE old == TotalOf(Reported(d))
             new == TotalOf(Reported(d))'
  <2>3. old \in Nat /\ new \in Nat /\ old <= new /\ read'[x] <= old
    BY <1>3, <2>1
  <2> HIDE DEF old, new
  <2>4. read'[x] <= new
    BY <2>2, <2>3
  <2> QED
    BY <2>1, <2>4 DEF new
<1> QED
  BY <1>1, <1>4, <1>5, <1>6 DEF QuotaInv, NeverOvercharged

LEMMA QuotaStep == QuotaInv /\ [QuotaNext]_quotaVars => QuotaInv'
<1>1. SUFFICES ASSUME QuotaInv, [QuotaNext]_quotaVars PROVE QuotaInv'
  OBVIOUS
<1>2. QuotaTypeOK /\ today \in Days /\ Limit \in Nat /\ MaxBytes \in Nat /\ MaxDay \in Nat
  BY <1>1, QuotaAssumption DEF QuotaInv, QuotaTypeOK
<1>3. ASSUME NEW c \in Connections, Ask(c) PROVE QuotaInv'
  <2>1. /\ state[c] = "new" /\ UNCHANGED <<today, records, bytes, read>>
        /\ key' = [key EXCEPT ![c] = today]
    BY <1>3 DEF Ask
  <2>2. PICK s \in {"open", "refused"} : state' = [state EXCEPT ![c] = s]
    BY <1>3 DEF Ask
  <2>3. QuotaTypeOK'
    BY <1>2, <2>1, <2>2 DEF QuotaTypeOK, Days
  <2>4. state'[c] = s /\ \A x \in Connections \ {c} :
          state'[x] = state[x] /\ bytes'[x] = bytes[x] /\ key'[x] = key[x] /\ read'[x] = read[x]
    BY <1>2, <2>1, <2>2 DEF QuotaTypeOK
  <2> QED
    BY <1>1, <2>1, <2>3, <2>4, QuotaStepInv
<1>4. ASSUME NEW c \in Connections, End(c) PROVE QuotaInv'
  <2>1. state[c] = "open" /\ UNCHANGED <<today, records>>
    BY <1>4 DEF End
  <2>2. PICK n \in 0..MaxBytes :
          IF n = 0
            THEN /\ state' = [state EXCEPT ![c] = "ended"]
                 /\ UNCHANGED <<bytes, key, read>>
            ELSE /\ state' = [state EXCEPT ![c] = "reporting"]
                 /\ bytes' = [bytes EXCEPT ![c] = n]
                 /\ key' = [key EXCEPT ![c] = today]
                 /\ \E used \in Answers(today) : read' = [read EXCEPT ![c] = used]
    BY <1>4 DEF End
  <2>3. CASE n = 0
    <3>1. state' = [state EXCEPT ![c] = "ended"] /\ UNCHANGED <<bytes, key, read>>
      BY <2>2, <2>3
    <3>2. QuotaTypeOK'
      BY <1>2, <2>1, <3>1 DEF QuotaTypeOK
    <3>3. state'[c] = "ended" /\ \A x \in Connections \ {c} :
            state'[x] = state[x] /\ bytes'[x] = bytes[x] /\ key'[x] = key[x] /\ read'[x] = read[x]
      BY <1>2, <3>1 DEF QuotaTypeOK
    <3> QED
      BY <1>1, <2>1, <3>2, <3>3, QuotaStepInv
  <2>4. CASE n # 0
    <3>1. PICK used \in Answers(today) : read' = [read EXCEPT ![c] = used]
      BY <2>2, <2>4
    <3>2. /\ state' = [state EXCEPT ![c] = "reporting"]
          /\ bytes' = [bytes EXCEPT ![c] = n]
          /\ key' = [key EXCEPT ![c] = today]
      BY <2>2, <2>4
    <3>3. used \in 0..Limit /\ used <= TotalOf(Reported(today))
      BY <1>1, <1>2, AnswersFacts
    <3>4. QuotaTypeOK'
      BY <1>2, <2>1, <3>1, <3>2, <3>3 DEF QuotaTypeOK, Days
    <3>5. /\ key'[c] = today /\ read'[c] = used
          /\ \A x \in Connections \ {c} :
               state'[x] = state[x] /\ bytes'[x] = bytes[x] /\ key'[x] = key[x] /\ read'[x] = read[x]
      BY <1>2, <3>1, <3>2 DEF QuotaTypeOK
    <3>6. \E d \in Days : key'[c] = d /\ read'[c] <= TotalOf(Reported(d))
      BY <1>2, <3>3, <3>5
    <3> QED
      BY <1>1, <2>1, <3>4, <3>5, <3>6, QuotaStepInv
  <2> QED
    BY <2>3, <2>4
<1>5. ASSUME NEW c \in Connections, Write(c) PROVE QuotaInv'
  <2>1. /\ state[c] = "reporting" /\ state' = [state EXCEPT ![c] = "ended"]
        /\ read' = [read EXCEPT ![c] = 0] /\ UNCHANGED <<today, bytes, key>>
        /\ records' = IF read[c] + bytes[c] <= Limit
             THEN [records EXCEPT ![key[c]] = Append(@, read[c] + bytes[c])] ELSE records
    BY <1>5 DEF Write
  <2>2. PICK d \in Days : key[c] = d /\ read[c] <= TotalOf(Reported(d))
    BY <1>1, <2>1 DEF QuotaInv
  <2>3. /\ state'[c] = "ended" /\ key'[c] = d /\ bytes'[c] = bytes[c]
        /\ \A x \in Connections \ {c} :
             state'[x] = state[x] /\ bytes'[x] = bytes[x] /\ key'[x] = key[x] /\ read'[x] = read[x]
    BY <1>2, <2>1, <2>2 DEF QuotaTypeOK
  <2>4. read[c] \in Nat /\ bytes[c] \in Nat /\ IsFiniteSet(Started)
    BY <1>1, <1>2 DEF QuotaTypeOK, QuotaInv
  <2>5. /\ TotalOf(Reported(d)) \in Nat
        /\ TotalOf(Reported(d))' = TotalOf(Reported(d)) + bytes[c]
    BY <1>2, <2>1, <2>3, <2>4, TotalGrows
  <2> DEFINE n == read[c] + bytes[c]
  <2>6. n \in Nat /\ n <= TotalOf(Reported(d))'
    <3> DEFINE old == TotalOf(Reported(d))
               new == TotalOf(Reported(d))'
    <3>1. old \in Nat /\ new = old + bytes[c] /\ read[c] <= old
      BY <2>2, <2>5
    <3> HIDE DEF old, new
    <3>2. n \in Nat /\ n <= new
      BY <2>4, <3>1
    <3> QED
      BY <3>2 DEF new
  <2>7. \/ records' = records
        \/ n \in 0..Limit /\ records' = [records EXCEPT ![d] = Append(@, n)]
    BY <1>2, <2>1, <2>2, <2>6
  <2> HIDE DEF n
  <2>8. records' \in [Days -> Seq(0..Limit)]
    <3>1. records \in [Days -> Seq(0..Limit)]
      BY <1>2 DEF QuotaTypeOK
    <3>2. n \in 0..Limit => Append(records[d], n) \in Seq(0..Limit)
      BY <3>1, AppendProperties
    <3> QED
      BY <2>7, <3>1, <3>2
  <2>9. QuotaTypeOK'
    BY <1>2, <2>1, <2>8 DEF QuotaTypeOK
  <2>10. \/ records' = records
         \/ \E e \in Days, k \in 0..Limit :
              /\ k <= TotalOf(Reported(e))'
              /\ records' = [records EXCEPT ![e] = Append(@, k)]
    BY <2>6, <2>7
  <2> QED
    BY <1>1, <2>1, <2>3, <2>9, <2>10, QuotaStepInv
<1>6. CASE NextDay \/ UNCHANGED quotaVars
  <2>1. UNCHANGED <<records, state, bytes, key, read>> /\ today' \in Days
    BY <1>2, <1>6 DEF NextDay, Days, quotaVars
  <2>2. QuotaTypeOK'
    BY <1>2, <2>1 DEF QuotaTypeOK
  <2>3. Started' = Started /\ \A d : TotalOf(Reported(d))' = TotalOf(Reported(d))
    BY <2>1 DEF TotalOf, Reported, Started
  <2>4. IsFiniteSet(Started') /\ \A d \in Days : records'[d] # <<>>
    BY <1>1, <2>1, <2>3 DEF QuotaInv
  <2>5. NeverOvercharged'
    BY <1>1, <2>1, <2>3 DEF QuotaInv, NeverOvercharged
  <2>6. \A c \in Connections : state'[c] = "reporting" =>
          \E d \in Days : key'[c] = d /\ read'[c] <= TotalOf(Reported(d))'
    BY <1>1, <2>1, <2>3 DEF QuotaInv
  <2> QED
    BY <2>2, <2>4, <2>5, <2>6 DEF QuotaInv
<1> QED
  BY <1>1, <1>3, <1>4, <1>5, <1>6 DEF QuotaNext

-----------------------------------------------------------------------------
(* The composition implements the quota's own specification.               *)

\* An upgrade is a connection of the device.
LEMMA MapsToQuota == TransportInv /\ [Next]_vars => [QuotaNext]_quotaVars
<1>1. SUFFICES ASSUME TransportInv, [Next]_vars PROVE [QuotaNext]_quotaVars
  OBVIOUS
<1>2. ASSUME NEW c \in Callers, Upgrade(c) PROVE [QuotaNext]_quotaVars
  <2>1. CASE c \in Consumers /\ Ask(Connection(c))
    <3>1. attempt[c].endpoint \in 1..Endpoints
      BY <1>1, AttemptFacts
    <3>2. Connection(c) \in Connections
      BY <2>1, <3>1, ConnectionsAssumption DEF Connection
    <3> QED
      BY <2>1, <3>2 DEF QuotaNext
  <2> QED
    BY <1>2, <2>1 DEF Upgrade
<1> QED
  BY <1>1, <1>2 DEF Next, vars, quotaVars, Relay, QuotaNext

\* Whatever the transport does, the worker's quota does what the quota alone
\* may do: a connection asks once, reports at most once and after it was open.
THEOREM ImplementsQuota == Spec => QuotaSpec
<1>1. Init => TransportInv
  BY TransportBegins DEF Init
<1>2. TransportInv /\ [Next]_vars => TransportInv'
  BY TransportStep, MapsToTransport
<1>3. Init => QuotaInit
  BY DEF Init
<1> QED
  BY <1>1, <1>2, <1>3, MapsToQuota, PTL DEF Spec, QuotaSpec

\* Every value a variable of the quota takes has its type.
THEOREM QuotaTypeCorrect == Spec => []QuotaTypeOK
<1>1. QuotaInit => QuotaInv
  BY QuotaBegins
<1>2. QuotaInv /\ [QuotaNext]_quotaVars => QuotaInv'
  BY QuotaStep
<1>3. QuotaInv => QuotaTypeOK
  BY DEF QuotaInv
<1> QED
  BY <1>1, <1>2, <1>3, ImplementsQuota, PTL DEF QuotaSpec

\* However many connections report at once, in whatever order their reads and
\* writes of the record come, over midnight and from a store as stale as can
\* be: no record of a day ever exceeds what was reported that day.
THEOREM ChargeCorrect == Spec => []NeverOvercharged
<1>1. QuotaInit => QuotaInv
  BY QuotaBegins
<1>2. QuotaInv /\ [QuotaNext]_quotaVars => QuotaInv'
  BY QuotaStep
<1>3. QuotaInv => NeverOvercharged
  BY DEF QuotaInv
<1> QED
  BY <1>1, <1>2, <1>3, ImplementsQuota, PTL DEF QuotaSpec
=============================================================================
