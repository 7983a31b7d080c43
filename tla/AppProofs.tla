------------------------------ MODULE AppProofs ------------------------------
(***************************************************************************)
(* Theorems about the app: first MobileApp, for any number of launches,    *)
(* changes of the setting and presses; then ContentFeed, for any number    *)
(* of calls, negotiators, models and events, and what the agents choose.   *)
(***************************************************************************)
EXTENDS MobileApp, ContentFeed, SequenceTheorems, FiniteSetTheorems, TLAPS

-----------------------------------------------------------------------------
(* Queues.                                                                 *)

On(s, x) == \E i \in DOMAIN s : s[i] = x

\* What a queue is after an element has joined it, and after one has left.
LEMMA AppendedFacts ==
  ASSUME NEW S, NEW s \in Seq(S), NEW x \in S
  PROVE  /\ Append(s, x) \in Seq(S) /\ Append(s, x) # <<>>
         /\ Len(s) \in Nat /\ Len(Append(s, x)) = Len(s) + 1
         /\ DOMAIN s = 1..Len(s) /\ DOMAIN Append(s, x) = 1..(Len(s) + 1)
         /\ \A i \in 1..Len(s) : Append(s, x)[i] = s[i]
         /\ Append(s, x)[Len(s) + 1] = x
<1>1. /\ Append(s, x) \in Seq(S) /\ Len(Append(s, x)) = Len(s) + 1
      /\ \A i \in 1..Len(s) : Append(s, x)[i] = s[i]
      /\ Append(s, x)[Len(s) + 1] = x
  BY AppendProperties
<1>2. Len(s) \in Nat /\ DOMAIN s = 1..Len(s)
      /\ DOMAIN Append(s, x) = 1..Len(Append(s, x))
  BY <1>1, LenProperties
<1> QED
  BY <1>1, <1>2, EmptySeq

LEMMA PoppedFacts ==
  ASSUME NEW S, NEW s \in Seq(S), s # <<>>
  PROVE  /\ Tail(s) \in Seq(S) /\ Head(s) = s[1] /\ Head(s) \in S
         /\ Len(s) \in Nat /\ Len(s) >= 1 /\ Len(Tail(s)) = Len(s) - 1
         /\ DOMAIN s = 1..Len(s) /\ DOMAIN Tail(s) = 1..(Len(s) - 1)
         /\ Tail(s) = <<>> <=> Len(s) = 1
         /\ \A i \in 1..(Len(s) - 1) : Tail(s)[i] = s[i + 1]
<1>1. /\ Tail(s) \in Seq(S) /\ Head(s) \in S /\ Len(Tail(s)) = Len(s) - 1
      /\ \A i \in 1..Len(Tail(s)) : Tail(s)[i] = s[i + 1]
  BY HeadTailProperties
<1>2. Len(s) \in Nat \ {0} /\ (Tail(s) = <<>> <=> Len(Tail(s)) = 0)
  BY <1>1, EmptySeq, LenProperties
<1>3. DOMAIN s = 1..Len(s) /\ DOMAIN Tail(s) = 1..Len(Tail(s))
  BY <1>1, LenProperties
<1> QED
  BY <1>1, <1>2, <1>3

-----------------------------------------------------------------------------
(* The VPN.                                                                *)

\* The interfaces on their way to the screen are in the order of their making, and the
\* one that is up is the last.
InterfacesInOrder ==
  /\ up # NoFd => up = lastFd
  /\ \A i \in DOMAIN toScreen : IsInterface(toScreen[i]) => toScreen[i].fd <= lastFd
  /\ \A i, j \in DOMAIN toScreen :
       i < j /\ IsInterface(toScreen[i]) /\ IsInterface(toScreen[j]) =>
         toScreen[i].fd < toScreen[j].fd

TokenCancels ==
  served => /\ token = up /\ up # NoFd
            /\ \A i \in DOMAIN toScreen : ~IsInterface(toScreen[i])

IsOff(m) == ~IsInterface(m) /\ m.value = FALSE

Asked == toActivity # <<>> /\ toActivity[1] = "status"

\* An interface that is up and not stray has its tunnel or will have it; and it will be
\* stopped, or the service knows it and the last word to the screen is that it is on.
ShownAsOn ==
  up # NoFd /\ up \notin stray =>
    /\ served \/ \E i \in DOMAIN toScreen : toScreen[i] = Interface(up)
    /\ \/ StopComes(up)
       \/ /\ currentFd = up
          /\ \A i \in DOMAIN toScreen : IsOff(toScreen[i]) =>
               \E j \in DOMAIN toScreen : i < j /\ toScreen[j] = Interface(up)
          /\ served /\ open => active \/ toScreen # <<>> \/ Asked

NoScreen == ~open => toScreen = <<>> /\ toActivity = <<>> /\ ~active

VpnInv == VpnTypeOK /\ InterfacesInOrder /\ TokenCancels /\ ShownAsOn /\ NoScreen

-----------------------------------------------------------------------------
LEMMA MessageFacts ==
  /\ \A fd \in Nat : /\ Interface(fd) \in Messages /\ IsInterface(Interface(fd))
                     /\ ~IsStop(Interface(fd)) /\ ~IsOff(Interface(fd)) /\ Interface(fd).fd = fd
  /\ \A n \in Words, v \in BOOLEAN :
       /\ Reply(n, v) \in Messages /\ ~IsInterface(Reply(n, v)) /\ Reply(n, v).value = v
       /\ IsStop(Reply(n, v)) <=> n = "stop"
  /\ \A m \in Messages : /\ IsInterface(m) => m.fd \in Nat /\ m = Interface(m.fd)
                         /\ ~IsInterface(m) => m.value \in BOOLEAN
                         /\ IsStop(m) => ~IsInterface(m)
<1>1. \A fd \in Nat : /\ Interface(fd) \in Messages /\ IsInterface(Interface(fd))
                      /\ ~IsStop(Interface(fd)) /\ ~IsOff(Interface(fd)) /\ Interface(fd).fd = fd
  BY DEF Interface, Messages, IsInterface, IsStop, IsOff
<1>2. \A n \in Words, v \in BOOLEAN :
       /\ Reply(n, v) \in Messages /\ ~IsInterface(Reply(n, v)) /\ Reply(n, v).value = v
       /\ IsStop(Reply(n, v)) <=> n = "stop"
  BY DEF Reply, Messages, IsInterface, IsStop
<1>3. \A m \in Messages : /\ IsInterface(m) => m.fd \in Nat /\ m = Interface(m.fd)
                          /\ ~IsInterface(m) => m.value \in BOOLEAN
                          /\ IsStop(m) => ~IsInterface(m)
  BY DEF Interface, Messages, IsInterface, IsStop
<1> QED BY <1>1, <1>2, <1>3

LEMMA VpnInvInit == VpnInit => VpnInv
<1> SUFFICES ASSUME VpnInit PROVE VpnInv
  OBVIOUS
<1>1. /\ toActivity = <<>> /\ toScreen = <<>> /\ ~served /\ up = NoFd /\ active = FALSE
  BY DEF VpnInit
<1>2. \A i \in DOMAIN toScreen : FALSE
  BY <1>1
<1>3. toActivity \in Seq(Words) /\ toScreen \in Seq(Messages)
  BY <1>1, EmptySeq
<1>4. intents \in Seq(Intents)
  <2>1. "connect" \in Intents
    BY DEF Intents
  <2>2. <<"connect">> \in Seq(Intents)
    BY <2>1
  <2> QED BY <2>2, EmptySeq DEF VpnInit
<1>5. VpnTypeOK
  <2>1. /\ open = FALSE /\ destroying = FALSE /\ served = FALSE
        /\ presses = 0 /\ dialogs = 0 /\ lastFd = 0
        /\ currentFd = NoFd /\ token = NoFd /\ stray = {}
    BY DEF VpnInit
  <2>2. 0 \in 0..MaxPresses
    BY VpnAssumption
  <2> QED BY <1>1, <1>3, <1>4, <2>1, <2>2 DEF VpnTypeOK, Fds
<1> QED
  BY <1>1, <1>2, <1>5 DEF VpnInv, InterfacesInOrder, TokenCancels, ShownAsOn, NoScreen

-----------------------------------------------------------------------------
\* What of the invariant is about the messages to the screen.
ScreenSound ==
  InterfacesInOrder /\ TokenCancels /\ ShownAsOn /\ NoScreen

\* A step that changes only what the invariant says nothing about.
LEMMA QuietStep ==
  ASSUME ScreenSound, UNCHANGED <<open, active, toScreen, currentFd, lastFd, tunnelVars, stray>>,
         Asked => Asked', toActivity # <<>> => open,
         toActivity' # <<>> => open
  PROVE  ScreenSound'
<1>1. UNCHANGED <<open, active, toScreen, currentFd, lastFd, token, up, served, stray>>
  BY DEF tunnelVars
<1>2. InterfacesInOrder' /\ TokenCancels'
  BY <1>1 DEF ScreenSound, InterfacesInOrder, TokenCancels
<1>3. ShownAsOn'
  BY <1>1 DEF ScreenSound, ShownAsOn, StopComes
<1>4. NoScreen'
  BY <1>1 DEF ScreenSound, NoScreen
<1> QED BY <1>2, <1>3, <1>4 DEF ScreenSound

LEMMA PressKeeps ==
  ASSUME VpnInv, Press
  PROVE  VpnInv'
<1>1. PICK w \in Words : toActivity' = Append(toActivity, w)
  BY DEF Press, Words
<1>2. toActivity \in Seq(Words)
  BY DEF VpnInv, VpnTypeOK
<1>3. /\ toActivity' \in Seq(Words)
      /\ toActivity # <<>> => toActivity' # <<>> /\ toActivity'[1] = toActivity[1]
  <2>1. /\ Append(toActivity, w) \in Seq(Words) /\ Append(toActivity, w) # <<>>
        /\ Len(toActivity) \in Nat
        /\ \A i \in 1..Len(toActivity) : Append(toActivity, w)[i] = toActivity[i]
    BY <1>2, AppendedFacts
  <2>2. toActivity # <<>> => Len(toActivity) >= 1
    BY <1>2, PoppedFacts
  <2> QED BY <1>1, <2>1, <2>2
<1>4. Asked => Asked'
  BY <1>3 DEF Asked
<1>5. ScreenSound'
  BY <1>4, QuietStep DEF Press, VpnInv, ScreenSound, serviceVars
<1>6. VpnTypeOK'
  BY <1>3, VpnAssumption DEF Press, VpnInv, VpnTypeOK, serviceVars, tunnelVars
<1> QED BY <1>5, <1>6 DEF VpnInv, ScreenSound

LEMMA ConsentKeeps ==
  ASSUME VpnInv, Consent
  PROVE  VpnInv'
<1>1. ScreenSound'
  BY QuietStep DEF Consent, VpnInv, ScreenSound, Asked
<1>2. intents' \in Seq(Intents)
  <2>1. intents \in Seq(Intents) /\ "connect" \in Intents
    BY DEF VpnInv, VpnTypeOK, Intents
  <2>2. Append(intents, "connect") \in Seq(Intents)
    BY <2>1, AppendedFacts
  <2> QED BY <2>1, <2>2 DEF Consent
<1>3. dialogs' \in Nat
  BY DEF Consent, VpnInv, VpnTypeOK
<1>4. VpnTypeOK'
  BY <1>2, <1>3 DEF Consent, VpnInv, VpnTypeOK, tunnelVars
<1> QED BY <1>1, <1>4 DEF VpnInv, ScreenSound

\* The interface goes: nothing is left to show.
LEMMA DownKeeps ==
  ASSUME VpnInv, up' = NoFd, served' = FALSE, destroying' \in BOOLEAN,
         UNCHANGED <<screenVars, intents, currentFd, lastFd, token, stray>>
  PROVE  VpnInv'
<1>1. InterfacesInOrder' /\ TokenCancels' /\ ShownAsOn' /\ NoScreen'
  BY DEF VpnInv, InterfacesInOrder, TokenCancels, ShownAsOn, NoScreen, screenVars
<1>2. VpnTypeOK'
  BY DEF VpnInv, VpnTypeOK, screenVars, Fds
<1> QED BY <1>1, <1>2 DEF VpnInv

\* The activity comes and goes.
LEMMA AppearKeeps ==
  ASSUME VpnInv, Appear
  PROVE  VpnInv'
<1>1. /\ ~open /\ open' /\ toActivity' = <<"status">>
      /\ UNCHANGED <<active, presses, dialogs, toScreen, intents, destroying, currentFd, lastFd,
                     token, up, served, stray>>
  BY DEF Appear, serviceVars, tunnelVars
<1>2. Asked'
  BY <1>1 DEF Asked
<1>3. ShownAsOn'
  BY <1>1, <1>2 DEF VpnInv, ShownAsOn, StopComes
<1>4. InterfacesInOrder' /\ TokenCancels' /\ NoScreen'
  BY <1>1 DEF VpnInv, InterfacesInOrder, TokenCancels, NoScreen
<1>5. toActivity' \in Seq(Words) /\ open' \in BOOLEAN
  <2>1. "status" \in Words
    BY DEF Words
  <2>2. <<"status">> \in Seq(Words)
    BY <2>1
  <2> QED BY <1>1, <2>2 DEF Appear
<1>6. VpnTypeOK'
  BY <1>1, <1>5 DEF VpnInv, VpnTypeOK
<1> QED BY <1>3, <1>4, <1>6 DEF VpnInv

LEMMA DisappearKeeps ==
  ASSUME VpnInv, Disappear
  PROVE  VpnInv'
<1>1. /\ open' = FALSE /\ active' = FALSE /\ toActivity' = <<>> /\ toScreen' = <<>>
      /\ dialogs' \in {0, dialogs}
      /\ UNCHANGED <<presses, intents, destroying, currentFd, lastFd, token, up, served>>
  BY DEF Disappear, serviceVars, tunnelVars
<1>2. VpnTypeOK /\ InterfacesInOrder /\ TokenCancels /\ ShownAsOn
  BY DEF VpnInv
<1>3. \A i \in DOMAIN toScreen : toScreen[i] \in Messages /\ toScreen[i] \in Range(toScreen)
  BY <1>2 DEF VpnTypeOK, Range
<1>4. /\ stray \subseteq stray' /\ stray' \subseteq Nat
      /\ \A i \in DOMAIN toScreen : IsInterface(toScreen[i]) => toScreen[i].fd \in stray'
      /\ up # NoFd /\ StopComes(up) => up \in stray'
  <2>1. stray' = stray \cup {m.fd : m \in {n \in Range(toScreen) : IsInterface(n)}}
                   \cup (IF \E m \in Range(toScreen) : IsStop(m) THEN {up} \ {NoFd} ELSE {})
    BY DEF Disappear
  <2>2. stray \subseteq Nat /\ up \in Fds
    BY <1>2 DEF VpnTypeOK
  <2>3. \A m \in Range(toScreen) : m \in Messages
    BY <1>3 DEF Range
  <2>4. {m.fd : m \in {n \in Range(toScreen) : IsInterface(n)}} \subseteq Nat
    BY <2>3, MessageFacts
  <2>5. stray' \subseteq Nat
    BY <2>1, <2>2, <2>4 DEF Fds
  <2>6. StopComes(up) => \E m \in Range(toScreen) : IsStop(m)
    BY <1>3 DEF StopComes
  <2> QED BY <1>3, <2>1, <2>5, <2>6
<1>5. \A i \in DOMAIN toScreen' : FALSE
  BY <1>1
<1>6. InterfacesInOrder' /\ TokenCancels' /\ NoScreen'
  BY <1>1, <1>2, <1>5 DEF InterfacesInOrder, TokenCancels, NoScreen
<1>7. ShownAsOn'
  <2> SUFFICES ASSUME up # NoFd, up \notin stray'
               PROVE  served /\ currentFd = up
    BY <1>1, <1>5 DEF ShownAsOn
  <2>1. up \notin stray /\ ~StopComes(up)
    BY <1>4
  <2>2. up \in Nat
    BY <1>2 DEF VpnTypeOK, Fds
  <2>3. \A i \in DOMAIN toScreen : toScreen[i] # Interface(up)
    BY <1>4, <2>2, MessageFacts
  <2> QED BY <1>2, <2>1, <2>3 DEF ShownAsOn
<1>8. VpnTypeOK'
  <2>1. toActivity' \in Seq(Words) /\ toScreen' \in Seq(Messages) /\ dialogs' \in Nat
    BY <1>1, <1>2, EmptySeq DEF VpnTypeOK
  <2> QED BY <1>1, <1>2, <1>4, <2>1 DEF VpnTypeOK
<1> QED BY <1>6, <1>7, <1>8 DEF VpnInv

-----------------------------------------------------------------------------
(* The activity.                                                           *)

\* An answer joins the others.  If it is no stop, it tells what the service knows.
LEMMA AnswerKeeps ==
  ASSUME VpnInv, open, NEW n \in Words, NEW v \in BOOLEAN,
         n # "stop" /\ currentFd # NoFd => v = TRUE,
         toScreen' = Append(toScreen, Reply(n, v)),
         UNCHANGED <<open, active, currentFd, lastFd, tunnelVars, stray>>
  PROVE  ScreenSound' /\ toScreen' \in Seq(Messages)
<1> DEFINE m == Reply(n, v)
<1>1. VpnTypeOK /\ InterfacesInOrder /\ TokenCancels /\ ShownAsOn
  BY DEF VpnInv
<1>2. m \in Messages /\ ~IsInterface(m) /\ m.value = v /\ (IsStop(m) <=> n = "stop")
  BY MessageFacts
<1> HIDE DEF m
<1>3. /\ toScreen' \in Seq(Messages) /\ toScreen' # <<>> /\ Len(toScreen) \in Nat
      /\ DOMAIN toScreen = 1..Len(toScreen) /\ DOMAIN toScreen' = 1..(Len(toScreen) + 1)
      /\ \A i \in 1..Len(toScreen) : toScreen'[i] = toScreen[i]
      /\ toScreen'[Len(toScreen) + 1] = m
  <2>1. toScreen \in Seq(Messages) /\ toScreen' = Append(toScreen, m)
    BY <1>1 DEF VpnTypeOK, m
  <2> QED BY <1>2, <2>1, AppendedFacts
<1>4. UNCHANGED <<open, active, currentFd, lastFd, token, up, served, stray>>
  BY DEF tunnelVars
<1>5. InterfacesInOrder'
  BY <1>1, <1>2, <1>3, <1>4 DEF InterfacesInOrder
<1>6. TokenCancels'
  BY <1>1, <1>2, <1>3, <1>4 DEF TokenCancels
<1>7. ShownAsOn'
  <2> SUFFICES ASSUME up # NoFd, up \notin stray PROVE ShownAsOn'
    BY <1>4 DEF ShownAsOn
  <2>1. up \in Nat /\ m # Interface(up)
    BY <1>1, <1>2, MessageFacts DEF VpnTypeOK, Fds
  <2>2. served' \/ \E i \in DOMAIN toScreen' : toScreen'[i] = Interface(up)
    BY <1>1, <1>3, <1>4 DEF ShownAsOn
  <2>3. CASE StopComes(up)
    <3>1. StopComes(up)'
      BY <1>3, <1>4, <2>1, <2>3 DEF StopComes
    <3> QED BY <1>4, <2>2, <3>1 DEF ShownAsOn
  <2>4. CASE n = "stop"
    <3>1. IsStop(toScreen'[Len(toScreen) + 1]) /\ Len(toScreen) + 1 \in DOMAIN toScreen'
      BY <1>2, <1>3, <2>4
    <3>2. \A j \in DOMAIN toScreen' : ~(j > Len(toScreen) + 1)
      BY <1>3
    <3>3. StopComes(up)'
      BY <3>1, <3>2 DEF StopComes
    <3> QED BY <1>4, <2>2, <3>3 DEF ShownAsOn
  <2>5. CASE ~StopComes(up) /\ n # "stop"
    <3>1. /\ currentFd = up
          /\ \A i \in DOMAIN toScreen : IsOff(toScreen[i]) =>
               \E j \in DOMAIN toScreen : i < j /\ toScreen[j] = Interface(up)
      BY <1>1, <2>5 DEF ShownAsOn
    <3>2. ~IsOff(m)
      BY <1>2, <2>5, <3>1 DEF IsOff
    <3>3. \A i \in DOMAIN toScreen' : IsOff(toScreen'[i]) =>
            \E j \in DOMAIN toScreen' : i < j /\ toScreen'[j] = Interface(up)
      BY <1>3, <3>1, <3>2
    <3> QED BY <1>3, <1>4, <2>2, <3>1, <3>3 DEF ShownAsOn
  <2> QED BY <2>3, <2>4, <2>5
<1>8. NoScreen'
  BY <1>4 DEF NoScreen
<1> QED BY <1>3, <1>5, <1>6, <1>7, <1>8 DEF ScreenSound

LEMMA ActivityKeeps ==
  ASSUME VpnInv, ActivityHandles
  PROVE  VpnInv'
<1>1. /\ VpnTypeOK /\ open /\ toActivity' \in Seq(Words)
      /\ UNCHANGED <<open, active, presses, destroying, currentFd, lastFd, tunnelVars, stray>>
  <2>1. toActivity \in Seq(Words) /\ toActivity # <<>>
    BY DEF VpnInv, VpnTypeOK, ActivityHandles
  <2>2. Tail(toActivity) \in Seq(Words)
    BY <2>1, PoppedFacts
  <2> QED BY <2>1, <2>2 DEF VpnInv, NoScreen, ActivityHandles
<1>2. "start" \in Words /\ "stop" \in Words /\ "status" \in Words
  BY DEF Words
<1>3. ScreenSound' /\ toScreen' \in Seq(Messages)
  <2>1. CASE toScreen' = Append(toScreen, Reply("start", TRUE))
    BY <1>1, <1>2, <2>1, AnswerKeeps
  <2>2. CASE toScreen' = Append(toScreen, Reply("stop", TRUE))
    BY <1>1, <1>2, <2>2, AnswerKeeps
  <2>3. CASE toScreen' = Append(toScreen, Reply("status", currentFd # NoFd))
    <3> DEFINE v == currentFd # NoFd
    <3>1. v \in BOOLEAN /\ ("status" # "stop" /\ currentFd # NoFd => v = TRUE)
      OBVIOUS
    <3>2. toScreen' = Append(toScreen, Reply("status", v))
      BY <2>3
    <3> HIDE DEF v
    <3> QED BY <1>1, <1>2, <3>1, <3>2, AnswerKeeps
  <2> QED BY <2>1, <2>2, <2>3 DEF ActivityHandles
<1>4. intents' \in Seq(Intents) /\ dialogs' \in Nat
  <2>1. intents \in Seq(Intents) /\ dialogs \in Nat /\ "connect" \in Intents /\ "disconnect" \in Intents
    BY <1>1 DEF VpnTypeOK, Intents
  <2>2. Append(intents, "connect") \in Seq(Intents) /\ Append(intents, "disconnect") \in Seq(Intents)
    BY <2>1, AppendedFacts
  <2>3. \/ intents' = intents
        \/ intents' = Append(intents, "connect")
        \/ intents' = Append(intents, "disconnect")
    BY DEF ActivityHandles
  <2>4. dialogs' = dialogs \/ dialogs' = dialogs + 1
    BY DEF ActivityHandles
  <2> QED BY <2>1, <2>2, <2>3, <2>4
<1>5. VpnTypeOK'
  BY <1>1, <1>3, <1>4 DEF VpnTypeOK, tunnelVars
<1> QED BY <1>3, <1>5 DEF VpnInv, ScreenSound

-----------------------------------------------------------------------------
(* The service.                                                            *)

\* Only what is certain to be stopped is forgotten without being stray.
LEMMA ForgetKeeps ==
  ASSUME VpnInv, Forget, UNCHANGED <<open, active, toActivity>>
  PROVE  ScreenSound' /\ currentFd' \in Fds /\ stray' \subseteq Nat
<1>1. /\ VpnTypeOK /\ InterfacesInOrder /\ TokenCancels /\ ShownAsOn /\ NoScreen
      /\ currentFd' = NoFd
      /\ stray' = IF currentFd = NoFd \/ StopComes(currentFd) THEN stray ELSE stray \cup {currentFd}
      /\ UNCHANGED <<open, active, toActivity, lastFd, toScreen, token, up, served>>
  BY DEF VpnInv, Forget, tunnelVars
<1>2. InterfacesInOrder' /\ TokenCancels' /\ NoScreen'
  BY <1>1 DEF InterfacesInOrder, TokenCancels, NoScreen
<1>3. ShownAsOn'
  <2> SUFFICES ASSUME up # NoFd, up \notin stray' PROVE ShownAsOn'
    BY <1>1 DEF ShownAsOn
  <2>1. up \notin stray
    BY <1>1
  <2>2. StopComes(up)
    BY <1>1, <2>1 DEF ShownAsOn
  <2>3. StopComes(up)'
    BY <1>1, <2>2 DEF StopComes
  <2> QED BY <1>1, <2>1, <2>3 DEF ShownAsOn
<1>4. currentFd' \in Fds /\ stray' \subseteq Nat
  BY <1>1 DEF VpnTypeOK, Fds
<1> QED BY <1>2, <1>3, <1>4 DEF ScreenSound

LEMMA EstablishKeeps ==
  ASSUME VpnInv, Establish, UNCHANGED <<open, active, toActivity>>
  PROVE  /\ ScreenSound' /\ currentFd' \in Fds /\ up' \in Fds /\ lastFd' \in Nat /\ served' = FALSE
         /\ stray' \subseteq Nat /\ toScreen' \in Seq(Messages)
<1> DEFINE fd == lastFd + 1
<1>1. /\ VpnTypeOK /\ InterfacesInOrder /\ NoScreen /\ lastFd \in Nat /\ toScreen \in Seq(Messages)
      /\ UNCHANGED <<open, active, toActivity, token>>
      /\ lastFd' = fd /\ currentFd' = fd /\ up' = fd /\ served' = FALSE
  BY DEF VpnInv, VpnTypeOK, Establish
<1>2. fd \in Nat /\ fd # NoFd /\ stray \subseteq Nat
  BY <1>1, VpnAssumption DEF VpnTypeOK
<1>3. CASE ~open
  <2>1. stray' = stray \cup {fd} /\ toScreen' = toScreen /\ toScreen = <<>>
    BY <1>1, <1>3 DEF Establish, NoScreen
  <2>2. \A i \in DOMAIN toScreen : FALSE
    BY <2>1
  <2>3. InterfacesInOrder' /\ TokenCancels' /\ ShownAsOn' /\ NoScreen'
    BY <1>1, <2>1, <2>2 DEF InterfacesInOrder, TokenCancels, ShownAsOn, NoScreen
  <2> QED BY <1>1, <1>2, <2>1, <2>3 DEF ScreenSound, Fds
<1>4. CASE open
  <2>1. stray' = stray /\ toScreen' = Append(toScreen, Interface(fd))
    BY <1>4 DEF Establish
  <2>2. /\ Interface(fd) \in Messages /\ IsInterface(Interface(fd)) /\ ~IsOff(Interface(fd))
        /\ Interface(fd).fd = fd
    BY <1>2, MessageFacts
  <2>3. /\ toScreen' \in Seq(Messages) /\ Len(toScreen) \in Nat
        /\ DOMAIN toScreen = 1..Len(toScreen) /\ DOMAIN toScreen' = 1..(Len(toScreen) + 1)
        /\ \A i \in 1..Len(toScreen) : toScreen'[i] = toScreen[i]
        /\ toScreen'[Len(toScreen) + 1] = Interface(fd)
    BY <1>1, <2>1, <2>2, AppendedFacts
  <2>4. \A i \in DOMAIN toScreen : toScreen[i] \in Messages
    BY <1>1
  <2>5. \A i \in DOMAIN toScreen : IsInterface(toScreen[i]) =>
          toScreen[i].fd \in Nat /\ toScreen[i].fd < fd
    BY <1>1, <2>4, MessageFacts DEF InterfacesInOrder
  <2>6. InterfacesInOrder'
    <3> HIDE DEF fd
    <3>1. \A i \in DOMAIN toScreen' : IsInterface(toScreen'[i]) => toScreen'[i].fd <= fd
      BY <1>2, <2>2, <2>3, <2>5
    <3>2. \A i, j \in DOMAIN toScreen' :
            i < j /\ IsInterface(toScreen'[i]) /\ IsInterface(toScreen'[j]) =>
              toScreen'[i].fd < toScreen'[j].fd
      BY <1>1, <2>2, <2>3, <2>5 DEF InterfacesInOrder
    <3> QED BY <1>1, <3>1, <3>2 DEF InterfacesInOrder
  <2>7. TokenCancels' /\ NoScreen'
    BY <1>1, <1>4 DEF TokenCancels, NoScreen
  <2>8. ShownAsOn'
    <3> HIDE DEF fd
    <3>1. \A i \in DOMAIN toScreen' : IsOff(toScreen'[i]) =>
            \E j \in DOMAIN toScreen' : i < j /\ toScreen'[j] = Interface(fd)
      BY <2>2, <2>3
    <3>2. \E i \in DOMAIN toScreen' : toScreen'[i] = Interface(fd)
      BY <2>3
    <3> QED BY <1>1, <3>1, <3>2 DEF ShownAsOn
  <2> QED BY <1>1, <1>2, <2>1, <2>3, <2>6, <2>7, <2>8 DEF ScreenSound, Fds
<1> QED BY <1>3, <1>4

LEMMA ServiceKeeps ==
  ASSUME VpnInv, ServiceHandles \/ Destroy
  PROVE  VpnInv'
<1>1. VpnTypeOK /\ UNCHANGED <<open, active, presses, toActivity, dialogs>>
  BY DEF VpnInv, ServiceHandles, Destroy
<1>2. intents' \in Seq(Intents)
  <2>1. intents \in Seq(Intents)
    BY <1>1 DEF VpnTypeOK
  <2>2. intents # <<>> => Tail(intents) \in Seq(Intents)
    BY <2>1, PoppedFacts
  <2> QED BY <2>1, <2>2 DEF ServiceHandles, Destroy
<1>3. ASSUME Forget, destroying' \in BOOLEAN PROVE VpnInv'
  <2>1. ScreenSound' /\ currentFd' \in Fds /\ stray' \subseteq Nat
    BY <1>1, <1>3, ForgetKeeps
  <2>2. UNCHANGED <<lastFd, toScreen, token, up, served>>
    BY <1>3 DEF Forget, tunnelVars
  <2>3. VpnTypeOK'
    BY <1>1, <1>2, <1>3, <2>1, <2>2 DEF VpnTypeOK
  <2> QED BY <2>1, <2>3 DEF VpnInv, ScreenSound
<1>4. ASSUME Establish, destroying' \in BOOLEAN PROVE VpnInv'
  <2>1. /\ ScreenSound' /\ currentFd' \in Fds /\ up' \in Fds /\ lastFd' \in Nat /\ served' = FALSE
        /\ stray' \subseteq Nat /\ toScreen' \in Seq(Messages)
    BY <1>1, <1>4, EstablishKeeps
  <2>2. token' = token
    BY <1>4 DEF Establish
  <2>3. VpnTypeOK'
    BY <1>1, <1>2, <1>4, <2>1, <2>2 DEF VpnTypeOK
  <2> QED BY <2>1, <2>3 DEF VpnInv, ScreenSound
<1>5. ASSUME UNCHANGED <<currentFd, lastFd, toScreen, tunnelVars, stray>>, destroying' \in BOOLEAN
      PROVE  VpnInv'
  <2>1. ScreenSound /\ (Asked => Asked') /\ (toActivity # <<>> => open) /\ (toActivity' # <<>> => open)
    BY <1>1 DEF VpnInv, ScreenSound, Asked, NoScreen
  <2>2. ScreenSound'
    BY <1>1, <1>5, <2>1, QuietStep
  <2>3. VpnTypeOK'
    BY <1>1, <1>2, <1>5 DEF VpnTypeOK, tunnelVars
  <2> QED BY <2>2, <2>3 DEF VpnInv, ScreenSound
<1>6. destroying' \in BOOLEAN
  BY <1>1 DEF VpnTypeOK, ServiceHandles, Destroy, Connect, Disconnect
<1>7. CASE Destroy
  BY <1>3, <1>6, <1>7 DEF Destroy
<1>8. CASE ServiceHandles
  <2>1. Connect \/ Disconnect
    BY <1>8 DEF ServiceHandles
  <2> QED BY <1>3, <1>4, <1>5, <1>6, <2>1 DEF Connect, Disconnect
<1> QED BY <1>7, <1>8

-----------------------------------------------------------------------------
(* The screen.                                                             *)

\* What the messages behind the first one are.
LEMMA ReceivedFacts ==
  ASSUME VpnInv, ScreenReceives
  PROVE  /\ Head(toScreen) \in Messages /\ Head(toScreen) = toScreen[1]
         /\ 1 \in DOMAIN toScreen /\ DOMAIN toScreen \subseteq Nat
         /\ toScreen' \in Seq(Messages)
         /\ \A i \in DOMAIN toScreen' : i \in Nat /\ i + 1 \in DOMAIN toScreen /\ toScreen'[i] = toScreen[i + 1]
         /\ \A i \in DOMAIN toScreen : i # 1 => i - 1 \in DOMAIN toScreen' /\ toScreen'[i - 1] = toScreen[i]
<1>1. toScreen \in Seq(Messages) /\ toScreen # <<>> /\ toScreen' = Tail(toScreen)
  BY DEF VpnInv, VpnTypeOK, ScreenReceives
<1>2. /\ Tail(toScreen) \in Seq(Messages) /\ Head(toScreen) = toScreen[1] /\ Head(toScreen) \in Messages
      /\ Len(toScreen) \in Nat /\ Len(toScreen) >= 1
      /\ DOMAIN toScreen = 1..Len(toScreen) /\ DOMAIN Tail(toScreen) = 1..(Len(toScreen) - 1)
      /\ \A i \in 1..(Len(toScreen) - 1) : Tail(toScreen)[i] = toScreen[i + 1]
  BY <1>1, PoppedFacts
<1> QED BY <1>1, <1>2

LEMMA ReceivedInOrder ==
  ASSUME VpnInv, ScreenReceives, UNCHANGED lastFd, up' \in {up, NoFd}
  PROVE  InterfacesInOrder'
<1>1. InterfacesInOrder
  BY DEF VpnInv
<1>2. \A i \in DOMAIN toScreen' : i \in Nat /\ i + 1 \in DOMAIN toScreen /\ toScreen'[i] = toScreen[i + 1]
  BY ReceivedFacts
<1>3. /\ \A i \in DOMAIN toScreen' : IsInterface(toScreen'[i]) => toScreen'[i].fd <= lastFd'
      /\ \A i, j \in DOMAIN toScreen' :
           i < j /\ IsInterface(toScreen'[i]) /\ IsInterface(toScreen'[j]) =>
             toScreen'[i].fd < toScreen'[j].fd
  BY <1>1, <1>2 DEF InterfacesInOrder
<1> QED BY <1>1, <1>3 DEF InterfacesInOrder

LEMMA ScreenKeeps ==
  ASSUME VpnInv, ScreenReceives
  PROVE  VpnInv'
<1> DEFINE m == Head(toScreen)
<1>1. /\ VpnTypeOK /\ InterfacesInOrder /\ TokenCancels /\ ShownAsOn /\ NoScreen
      /\ open /\ UNCHANGED <<open, presses, toActivity, dialogs, intents, destroying, currentFd, lastFd>>
  BY DEF VpnInv, NoScreen, ScreenReceives, serviceVars
<1>2. /\ m \in Messages /\ m = toScreen[1] /\ 1 \in DOMAIN toScreen /\ DOMAIN toScreen \subseteq Nat
      /\ toScreen' \in Seq(Messages)
      /\ \A i \in DOMAIN toScreen' : i \in Nat /\ i + 1 \in DOMAIN toScreen /\ toScreen'[i] = toScreen[i + 1]
      /\ \A i \in DOMAIN toScreen : i # 1 => i - 1 \in DOMAIN toScreen' /\ toScreen'[i - 1] = toScreen[i]
  BY ReceivedFacts
<1>3. NoScreen' /\ (up # NoFd => up \in Nat)
  BY <1>1 DEF NoScreen, VpnTypeOK, Fds
\* A stop behind the first message is still on its way, and an interface too.
<1>4. ASSUME NEW fd \in Nat, StopComes(fd), ~IsStop(m)
      PROVE  StopComes(fd)'
  <2>1. PICK i \in DOMAIN toScreen : /\ IsStop(toScreen[i])
                                     /\ \A j \in DOMAIN toScreen : j > i => toScreen[j] # Interface(fd)
    BY <1>4 DEF StopComes
  <2>2. i - 1 \in DOMAIN toScreen' /\ toScreen'[i - 1] = toScreen[i] /\ i \in Nat
    BY <1>2, <1>4, <2>1
  <2>3. \A j \in DOMAIN toScreen' : j > i - 1 => toScreen'[j] # Interface(fd)
    BY <1>2, <2>1, <2>2
  <2> QED BY <2>1, <2>2, <2>3 DEF StopComes
<1>5. ASSUME NEW fd \in Nat, m # Interface(fd),
             \E j \in DOMAIN toScreen : toScreen[j] = Interface(fd)
      PROVE  \E j \in DOMAIN toScreen' : toScreen'[j] = Interface(fd)
  BY <1>2, <1>5
<1>6. ASSUME NEW fd \in Nat, \A i \in DOMAIN toScreen : IsOff(toScreen[i]) =>
               \E j \in DOMAIN toScreen : i < j /\ toScreen[j] = Interface(fd)
      PROVE  \A i \in DOMAIN toScreen' : IsOff(toScreen'[i]) =>
               \E j \in DOMAIN toScreen' : i < j /\ toScreen'[j] = Interface(fd)
  <2> SUFFICES ASSUME NEW i \in DOMAIN toScreen', IsOff(toScreen'[i])
               PROVE  \E j \in DOMAIN toScreen' : i < j /\ toScreen'[j] = Interface(fd)
    OBVIOUS
  <2>1. PICK j \in DOMAIN toScreen : i + 1 < j /\ toScreen[j] = Interface(fd)
    BY <1>2, <1>6
  <2>2. i < j - 1 /\ j # 1
    BY <1>2, <2>1
  <2> QED BY <1>2, <2>1, <2>2
<1> HIDE DEF m
<1>7. CASE IsInterface(m)
  <2>1. /\ m.fd \in Nat /\ m = Interface(m.fd) /\ ~IsStop(m)
    BY <1>2, <1>7, MessageFacts
  <2>2. /\ token' = m.fd /\ served' = (served \/ m.fd = up) /\ up' = up /\ active' = active
        /\ stray' = IF active THEN stray ELSE stray \cup {m.fd}
    BY <1>7, <2>1 DEF ScreenReceives, StartVpnTunnel, m, IsStop, IsInterface
  <2>3. ~served
    BY <1>1, <1>2, <1>7 DEF TokenCancels
  <2>4. InterfacesInOrder'
    BY <1>1, <2>2, ReceivedInOrder
  <2>5. m.fd = up => \A i \in DOMAIN toScreen' : ~IsInterface(toScreen'[i])
    <3> SUFFICES ASSUME m.fd = up, NEW i \in DOMAIN toScreen', IsInterface(toScreen'[i]) PROVE FALSE
      OBVIOUS
    <3>1. up = lastFd /\ lastFd \in Nat
      BY <1>1, <2>1, VpnAssumption DEF InterfacesInOrder, VpnTypeOK
    <3>2. i \in Nat /\ i + 1 \in DOMAIN toScreen /\ IsInterface(toScreen[i + 1]) /\ 1 < i + 1
      <4>1. i \in Nat /\ i >= 1
        BY <1>2, LenProperties
      <4> QED BY <1>2, <4>1
    <3>3. m.fd < toScreen[i + 1].fd /\ toScreen[i + 1].fd <= lastFd
      BY <1>1, <1>2, <1>7, <3>2 DEF InterfacesInOrder
    <3>4. toScreen[i + 1].fd \in Nat
      <4>1. toScreen'[i] \in Messages
        BY <1>2
      <4> QED BY <1>2, <3>2, <4>1, MessageFacts
    <3> QED BY <2>1, <3>1, <3>3, <3>4
  <2>6. TokenCancels'
    BY <2>1, <2>2, <2>3, <2>5, VpnAssumption DEF TokenCancels
  <2>7. ShownAsOn'
    <3> SUFFICES ASSUME up # NoFd, up \notin stray' PROVE ShownAsOn'
      BY <2>2 DEF ShownAsOn
    <3>1. up \in Nat /\ up \notin stray
      BY <1>3, <2>2
    <3>2. CASE m.fd # up
      <4>1. m # Interface(up)
        BY <2>1, <3>1, <3>2, MessageFacts
      <4>2. \E i \in DOMAIN toScreen' : toScreen'[i] = Interface(up)
        BY <1>1, <1>5, <2>3, <3>1, <4>1 DEF ShownAsOn
      <4>3. ~served'
        BY <2>2, <2>3, <3>2
      <4>4. CASE StopComes(up)
        <5>1. StopComes(up)'
          <6>1. PICK f \in Nat : f = up
            BY <3>1
          <6>2. StopComes(f)'
            BY <1>4, <2>1, <4>4, <6>1
          <6> QED BY <2>2, <6>1, <6>2 DEF StopComes
        <5> QED BY <2>2, <4>2, <5>1 DEF ShownAsOn
      <4>5. CASE ~StopComes(up)
        <5>1. currentFd = up /\ \A i \in DOMAIN toScreen : IsOff(toScreen[i]) =>
                 \E j \in DOMAIN toScreen : i < j /\ toScreen[j] = Interface(up)
          BY <1>1, <3>1, <4>5 DEF ShownAsOn
        <5>2. \A i \in DOMAIN toScreen' : IsOff(toScreen'[i]) =>
                 \E j \in DOMAIN toScreen' : i < j /\ toScreen'[j] = Interface(up)
          BY <1>6, <3>1, <5>1
        <5> QED BY <1>1, <2>2, <4>2, <4>3, <5>1, <5>2 DEF ShownAsOn
      <4> QED BY <4>4, <4>5
    <3>3. CASE m.fd = up
      <4>1. active /\ served'
        BY <2>2, <3>3
      <4>2. CASE StopComes(up)
        <5>1. StopComes(up)'
          <6>1. PICK f \in Nat : f = up
            BY <3>1
          <6>2. StopComes(f)'
            BY <1>4, <2>1, <4>2, <6>1
          <6> QED BY <2>2, <6>1, <6>2 DEF StopComes
        <5> QED BY <2>2, <4>1, <5>1 DEF ShownAsOn
      <4>3. CASE ~StopComes(up)
        <5>1. currentFd = up /\ \A i \in DOMAIN toScreen : IsOff(toScreen[i]) =>
                 \E j \in DOMAIN toScreen : i < j /\ toScreen[j] = Interface(up)
          BY <1>1, <3>1, <4>3 DEF ShownAsOn
        <5>2. \A i \in DOMAIN toScreen' : IsOff(toScreen'[i]) =>
                 \E j \in DOMAIN toScreen' : i < j /\ toScreen'[j] = Interface(up)
          BY <1>6, <3>1, <5>1
        <5> QED BY <1>1, <2>2, <4>1, <5>1, <5>2 DEF ShownAsOn
      <4> QED BY <4>2, <4>3
    <3> QED BY <3>2, <3>3
  <2>8. VpnTypeOK'
    BY <1>1, <1>2, <2>1, <2>2 DEF VpnTypeOK, Fds
  <2> QED BY <1>3, <2>4, <2>6, <2>7, <2>8 DEF VpnInv
<1>8. CASE IsStop(m)
  <2>1. ~IsInterface(m)
    BY <1>2, <1>8, MessageFacts
  <2>2. /\ token' = NoFd /\ active' = FALSE /\ stray' = stray
        /\ IF served /\ token = up THEN up' = NoFd /\ served' = FALSE ELSE UNCHANGED <<up, served>>
    BY <1>8, <2>1 DEF ScreenReceives, StopVpnTunnel, m
  <2>3. up' \in {up, NoFd} /\ served' = FALSE
    BY <1>1, <2>2 DEF TokenCancels, VpnTypeOK
  <2>4. InterfacesInOrder'
    BY <1>1, <2>3, ReceivedInOrder
  <2>5. TokenCancels'
    BY <2>3 DEF TokenCancels
  <2>6. ShownAsOn'
    <3> SUFFICES ASSUME up' # NoFd, up' \notin stray PROVE ShownAsOn'
      BY <2>2 DEF ShownAsOn
    <3>1. up' = up /\ ~served /\ up \in Nat
      BY <1>1, <1>3, <2>2, <2>3 DEF TokenCancels
    <3>2. m # Interface(up)
      BY <2>1, <3>1, MessageFacts
    <3>3. PICK k \in DOMAIN toScreen : toScreen[k] = Interface(up)
      BY <1>1, <3>1 DEF ShownAsOn
    <3>4. \E i \in DOMAIN toScreen' : toScreen'[i] = Interface(up)
      BY <1>5, <3>1, <3>2, <3>3
    <3>5. CASE StopComes(up)
      <4>1. PICK i \in DOMAIN toScreen : /\ IsStop(toScreen[i])
                                         /\ \A j \in DOMAIN toScreen : j > i => toScreen[j] # Interface(up)
        BY <3>5 DEF StopComes
      <4>2. i # 1 /\ i \in Nat
        <5>1. i \in Nat /\ k \in Nat /\ k >= 1
          <6>1. toScreen \in Seq(Messages)
            BY <1>1 DEF VpnTypeOK
          <6> QED BY <6>1, LenProperties
        <5>2. k # 1
          BY <1>2, <3>2, <3>3
        <5> QED BY <3>3, <4>1, <5>1, <5>2
      <4>3. i - 1 \in DOMAIN toScreen' /\ toScreen'[i - 1] = toScreen[i]
        BY <1>2, <4>2
      <4>4. \A j \in DOMAIN toScreen' : j > i - 1 => toScreen'[j] # Interface(up)
        BY <1>2, <4>1, <4>2
      <4>5. StopComes(up)'
        BY <3>1, <4>1, <4>3, <4>4 DEF StopComes
      <4> QED BY <2>2, <3>1, <3>4, <4>5 DEF ShownAsOn
    <3>6. CASE ~StopComes(up)
      <4>1. currentFd = up /\ \A i \in DOMAIN toScreen : IsOff(toScreen[i]) =>
               \E j \in DOMAIN toScreen : i < j /\ toScreen[j] = Interface(up)
        BY <1>1, <2>2, <3>1, <3>6 DEF ShownAsOn
      <4>2. \A i \in DOMAIN toScreen' : IsOff(toScreen'[i]) =>
               \E j \in DOMAIN toScreen' : i < j /\ toScreen'[j] = Interface(up)
        BY <1>6, <3>1, <4>1
      <4> QED BY <1>1, <2>2, <2>3, <3>1, <3>4, <4>1, <4>2 DEF ShownAsOn
    <3> QED BY <3>5, <3>6
  <2>7. VpnTypeOK'
    BY <1>1, <1>2, <2>2, <2>3 DEF VpnTypeOK, Fds
  <2> QED BY <1>3, <2>4, <2>5, <2>6, <2>7 DEF VpnInv
<1>9. CASE ~IsInterface(m) /\ ~IsStop(m)
  <2>1. /\ active' = m.value /\ UNCHANGED <<token, up, served, stray>> /\ m.value \in BOOLEAN
    BY <1>2, <1>9, MessageFacts DEF ScreenReceives, tunnelVars, m
  <2>2. InterfacesInOrder'
    BY <1>1, <2>1, ReceivedInOrder
  <2>3. TokenCancels'
    BY <1>1, <1>2, <2>1 DEF TokenCancels
  <2>4. ShownAsOn'
    <3> SUFFICES ASSUME up # NoFd, up \notin stray PROVE ShownAsOn'
      BY <2>1 DEF ShownAsOn
    <3>1. up \in Nat /\ m # Interface(up)
      BY <1>3, <1>9, MessageFacts
    <3>2. served \/ \E i \in DOMAIN toScreen' : toScreen'[i] = Interface(up)
      BY <1>1, <1>5, <3>1 DEF ShownAsOn
    <3>3. CASE StopComes(up)
      <4>1. StopComes(up)'
        <5>1. PICK f \in Nat : f = up
          BY <3>1
        <5>2. StopComes(f)'
          BY <1>4, <1>9, <3>3, <5>1
        <5> QED BY <2>1, <5>1, <5>2 DEF StopComes
      <4> QED BY <2>1, <3>2, <4>1 DEF ShownAsOn
    <3>4. CASE ~StopComes(up)
      <4>1. currentFd = up /\ \A i \in DOMAIN toScreen : IsOff(toScreen[i]) =>
               \E j \in DOMAIN toScreen : i < j /\ toScreen[j] = Interface(up)
        BY <1>1, <3>4 DEF ShownAsOn
      <4>2. \A i \in DOMAIN toScreen' : IsOff(toScreen'[i]) =>
               \E j \in DOMAIN toScreen' : i < j /\ toScreen'[j] = Interface(up)
        BY <1>6, <3>1, <4>1
      <4>3. served => active' = TRUE
        <5> SUFFICES ASSUME served PROVE m.value = TRUE
          BY <2>1
        <5>1. \A j \in DOMAIN toScreen : toScreen[j] # Interface(up)
          BY <1>1, <3>1, MessageFacts DEF TokenCancels
        <5>2. ~IsOff(m)
          BY <1>2, <4>1, <5>1
        <5> QED BY <1>9, <2>1, <5>2 DEF IsOff
      <4> QED BY <1>1, <2>1, <3>2, <4>1, <4>2, <4>3 DEF ShownAsOn
    <3> QED BY <3>3, <3>4
  <2>5. VpnTypeOK'
    BY <1>1, <1>2, <2>1 DEF VpnTypeOK
  <2> QED BY <1>3, <2>2, <2>3, <2>4, <2>5 DEF VpnInv
<1> QED BY <1>7, <1>8, <1>9

LEMMA VpnInvStep ==
  ASSUME VpnInv, VpnNext \/ Appear \/ Disappear \/ UNCHANGED vpnVars
  PROVE  VpnInv'
<1>1. CASE UNCHANGED vpnVars
  <2>1. UNCHANGED <<open, active, presses, toActivity, dialogs, toScreen, intents, destroying,
                    currentFd, lastFd, token, up, served, stray>>
    BY <1>1 DEF vpnVars, screenVars, serviceVars, tunnelVars
  <2> QED BY <2>1 DEF VpnInv, VpnTypeOK, InterfacesInOrder, TokenCancels, ShownAsOn, NoScreen,
                     StopComes, Asked
<1>2. CASE Revoke \/ TunnelEnds
  <2>1. destroying' \in BOOLEAN
    BY <1>2 DEF Revoke, TunnelEnds, serviceVars, VpnInv, VpnTypeOK
  <2> QED BY <1>2, <2>1, DownKeeps DEF Revoke, TunnelEnds, serviceVars
<1> QED
  BY <1>1, <1>2, PressKeeps, ScreenKeeps, ActivityKeeps, ConsentKeeps, ServiceKeeps,
     AppearKeeps, DisappearKeeps DEF VpnNext

LEMMA VpnInvIsEnough == VpnInv => OffIsOff
<1> SUFFICES ASSUME VpnInv PROVE OffIsOff
  OBVIOUS
<1>1. served => token = up
  BY DEF VpnInv, TokenCancels
<1>2. ASSUME Settled, open, up # NoFd, up \notin stray PROVE active
  <2>1. toScreen = <<>> /\ toActivity = <<>>
    BY <1>2 DEF Settled
  <2>2. \A i \in DOMAIN toScreen : FALSE
    BY <2>1
  <2>3. served /\ ~StopComes(up)
    BY <1>2, <2>2 DEF VpnInv, ShownAsOn, StopComes
  <2> QED BY <1>2, <2>1, <2>3 DEF VpnInv, ShownAsOn, Asked
<1> QED BY <1>1, <1>2 DEF OffIsOff

-----------------------------------------------------------------------------
(* The node and the proxy mode.                                            *)

Starting == {"opening", "starting", "building", "built"}

\* One call goes on to start the server.
Chosen(m) == stage[m] \in Starting \/ m \in servers

Found(m, s) ==
  \/ services[s] = Started(m)
  \/ \E n \in (1..launched) \ {m} : services[s] = Prepared(n)

\* The call that starts the server has published service s.
Published(m, s) ==
  \/ stage[m] \in {"building", "built"}
  \/ m \in servers
  \/ stage[m] = "starting" /\ s <= locked[m]

LockedInv ==
  \A m \in 1..Launches :
    /\ stage[m] \notin {"preparing", "starting", "built"} => locked[m] = 0
    /\ stage[m] = "built" => locked[m] \in 0..2

ChosenInv ==
  /\ \A m \in 1..Launches : Chosen(m) => nodeStarted
  /\ \A m, n \in 1..Launches : Chosen(m) /\ Chosen(n) => m = n
  /\ \A m \in servers : stage[m] = "started"

HandlesInv ==
  /\ \A m \in 1..Launches :
       /\ m \in servers => \A h \in Handles : handles[h] = m
       /\ stage[m] = "built" => \A h \in Handles : handles[h] = m <=> h <= locked[m]
  /\ \A h \in Handles :
       handles[h] # None => stage[handles[h]] = "built" \/ handles[h] \in servers

ServicesInv ==
  \A m \in 1..Launches, s \in Services : Published(m, s) => Found(m, s)

NodeInv == LockedInv /\ ChosenInv /\ HandlesInv /\ ServicesInv

\* Behind a launch that came in its turn nothing runs.
InTurn ==
  orderly => \/ \A m \in 1..Launches : m < launched => Ended(m)
             \/ handles[ProxyModeHandle] # None

BusySetter(s) == setting[s].at \in {"storing", "setting"}

\* A launch sets the mode once its node has started.  Launches and changes that
\* come one after the other are never two at a time, and what is being set is
\* what is saved.
SettingInv ==
  /\ \A m \in 1..Launches : setting[m] # NotSetting => At(m, "started")
  /\ \A s \in Setters : BusySetter(s) => setting[s].value \in Modes
  /\ orderly =>
       /\ \A s, t \in Setters : BusySetter(s) /\ BusySetter(t) => s = t
       /\ \A s \in Setters : BusySetter(s) => setting[s].value = saved

\* What the settings show is the mode of whatever node the screens find.
ModeInv ==
  /\ orderly /\ ~Busy
  /\ open /\ setting[launched].at = "done"
  /\ handles[ProxyModeHandle] # None
  => mode[handles[ProxyModeHandle]] = saved

Settings == [at : {"no", "storing", "setting", "done"}, value : Modes \cup {None}]

AppTyped ==
  /\ RuntimeTypeOK
  /\ saved \in Modes /\ orderly \in BOOLEAN /\ open \in BOOLEAN
  /\ setting \in [Setters -> Settings]
  /\ open => launched > 0

RunInv == AppTyped /\ NodeInv /\ InTurn /\ SettingInv /\ ModeInv

AppInv == VpnInv /\ RunInv

LEMMA SettingFacts ==
  /\ NotSetting \in Settings
  /\ \A x \in Modes : /\ Setting("storing", x) \in Settings
                      /\ Setting("setting", x) \in Settings
  /\ Setting("done", None) \in Settings
  /\ \A at, x : Setting(at, x).at = at /\ Setting(at, x).value = x
  /\ NotSetting.at = "no"
BY DEF Settings, NotSetting, Setting

LEMMA HandleNames ==
  /\ Handles = 1..3 /\ ProxyModeHandle \in Handles /\ ProxyModeHandle = 2 /\ Services = 1..4
BY DEF Handles, ProxyModeHandle, Services

-----------------------------------------------------------------------------
(* The calls of a launch.                                                  *)

\* The call of launch m comes to a stage, l statics into what it sets there.
Moved(m, at, l) ==
  /\ stage' = [stage EXCEPT ![m] = at] /\ locked' = [locked EXCEPT ![m] = l]
  /\ at # "new" /\ stage[m] \in Stages \ {"new", "started", "failed"}
  /\ m # launched => stage[m] # "prepared"
  /\ at \notin {"preparing", "starting", "built"} => l = 0
  /\ at = "built" => l \in 0..2

Acts(m) == Calls(m) \/ (m = launched /\ StartHydraNode(m))

LEMMA GoesMoves ==
  ASSUME RuntimeTypeOK, LockedInv, NEW m \in 1..Launches, NEW at \in Stages \ {"new"}, Goes(m, at),
         stage[m] \in {"launched", "opening", "building"} \/ (stage[m] = "prepared" /\ m = launched)
  PROVE  Moved(m, at, 0)
<1>1. locked[m] = 0 /\ locked \in [1..Launches -> 0..3]
  BY DEF LockedInv, RuntimeTypeOK
<1>2. locked' = [locked EXCEPT ![m] = 0]
  BY <1>1 DEF Goes
<1>3. stage[m] \in Stages \ {"new", "started", "failed"}
  BY DEF Stages
<1>4. stage' = [stage EXCEPT ![m] = at]
  BY DEF Goes
<1>5. at # "new" /\ (m # launched => stage[m] # "prepared") /\ 0 \in 0..2
  OBVIOUS
<1> QED BY <1>2, <1>3, <1>4, <1>5 DEF Moved

LEMMA SetsMoves ==
  ASSUME RuntimeTypeOK, NEW m \in 1..Launches, NEW last \in {3, 4}, NEW at \in Stages,
         Sets(m, last, at), locked[m] + 1 <= last,
         \/ last = 4 /\ stage[m] \in {"preparing", "starting"}
         \/ last = 3 /\ stage[m] = "built",
         at \in {"prepared", "building", "started"}
  PROVE  /\ Moved(m, IF locked[m] + 1 = last THEN at ELSE stage[m],
                     IF locked[m] + 1 = last THEN 0 ELSE locked[m] + 1)
<1>1. locked[m] \in 0..3 /\ stage \in [1..Launches -> Stages]
  BY DEF RuntimeTypeOK
<1>2. (locked[m] + 1) % last = IF locked[m] + 1 = last THEN 0 ELSE locked[m] + 1
  <2>1. CASE last = 3
    BY <1>1, <2>1
  <2>2. CASE last = 4
    BY <1>1, <2>2
  <2> QED BY <2>1, <2>2
<1>3. stage[m] \in Stages \ {"new", "started", "failed"}
  BY DEF Stages
<1>4. /\ stage' = [stage EXCEPT ![m] = IF locked[m] + 1 = last THEN at ELSE stage[m]]
      /\ locked' = [locked EXCEPT ![m] = IF locked[m] + 1 = last THEN 0 ELSE locked[m] + 1]
  BY <1>2 DEF Sets
<1> QED BY <1>1, <1>3, <1>4 DEF Moved

\* What holds after the call of a launch has moved, whatever else it did.
LEMMA MovedFacts ==
  ASSUME RuntimeTypeOK, LockedInv, NEW m \in 1..Launches, NEW at \in Stages, NEW l \in 0..3,
         Moved(m, at, l), launched' = launched
  PROVE  /\ stage' \in [1..Launches -> Stages] /\ stage'[m] = at
         /\ \A n \in 1..Launches : n # m => stage'[n] = stage[n]
         /\ locked' \in [1..Launches -> 0..3] /\ locked'[m] = l
         /\ \A n \in 1..Launches : n # m => locked'[n] = locked[n]
         /\ m <= launched
         /\ \A n \in 1..Launches : n > launched' <=> At(n, "new")'
         /\ LockedInv'
<1>1. stage \in [1..Launches -> Stages] /\ locked \in [1..Launches -> 0..3] /\ launched \in 0..Launches
  BY DEF RuntimeTypeOK
<1>2. /\ stage' \in [1..Launches -> Stages] /\ stage'[m] = at
      /\ \A n \in 1..Launches : n # m => stage'[n] = stage[n]
      /\ locked' \in [1..Launches -> 0..3] /\ locked'[m] = l
      /\ \A n \in 1..Launches : n # m => locked'[n] = locked[n]
  BY <1>1 DEF Moved
<1>3. m <= launched
  BY <1>1 DEF Moved, RuntimeTypeOK, At
<1>4. \A n \in 1..Launches : n > launched' <=> At(n, "new")'
  BY <1>1, <1>2, <1>3 DEF Moved, RuntimeTypeOK, At
<1>5. LockedInv'
  BY <1>2 DEF Moved, LockedInv
<1> QED BY <1>2, <1>3, <1>4, <1>5

\* A call at one of the stages before "built" has no handle among the statics.
LEMMA HandlesOfOthers ==
  ASSUME RuntimeTypeOK, NodeInv, NEW m \in 1..Launches, stage[m] \notin {"built", "started"}
  PROVE  m \notin servers /\ \A h \in Handles : handles[h] # m
<1>1. m \notin servers
  BY DEF NodeInv, ChosenInv
<1>2. m # None
  BY RuntimeAssumption
<1> QED BY <1>1, <1>2 DEF NodeInv, HandlesInv

\* A step of a call that sets no static.
LEMMA QuietCall ==
  ASSUME RuntimeTypeOK, NodeInv, NEW m \in 1..Launches,
         \/ Prepare(m) \/ OpenServices(m) \/ BuildServer(m)
         \/ m = launched /\ StartHydraNode(m)
  PROVE  /\ \E at \in Stages, l \in 0..3 : Moved(m, at, l)
         /\ UNCHANGED <<launched, services, handles, servers, mode>>
         /\ RuntimeTypeOK' /\ NodeInv'
<1>1. UNCHANGED <<launched, services, handles, servers, mode>>
  BY DEF Prepare, OpenServices, BuildServer, StartHydraNode
<1>2. PICK at \in Stages \ {"new"} :
        /\ Goes(m, at)
        /\ \/ stage[m] = "launched" /\ at \in {"preparing", "failed"} /\ nodeStarted' = nodeStarted
           \/ stage[m] = "opening" /\ at \in {"starting", "failed"} /\ nodeStarted' = nodeStarted
           \/ stage[m] = "building" /\ at \in {"built", "failed"} /\ nodeStarted' = nodeStarted
           \/ /\ stage[m] = "prepared" /\ m = launched /\ nodeStarted' = TRUE
              /\ at = IF nodeStarted THEN "started" ELSE "opening"
  <2>1. /\ {"preparing", "failed", "starting", "built", "started", "opening"}
             \subseteq Stages \ {"new"}
    BY DEF Stages
  <2>2. CASE Prepare(m)
    BY <2>1, <2>2 DEF Prepare, At
  <2>3. CASE OpenServices(m)
    BY <2>1, <2>3 DEF OpenServices, At
  <2>4. CASE BuildServer(m)
    BY <2>1, <2>4 DEF BuildServer, At
  <2>5. CASE m = launched /\ StartHydraNode(m)
    BY <2>1, <2>5 DEF StartHydraNode, At
  <2> QED BY <2>2, <2>3, <2>4, <2>5
<1>3. LockedInv /\ ChosenInv /\ HandlesInv /\ ServicesInv
  BY DEF NodeInv
<1>4. Moved(m, at, 0)
  <2>1. stage[m] \in {"launched", "opening", "building"} \/ (stage[m] = "prepared" /\ m = launched)
    BY <1>2
  <2>2. Goes(m, at)
    BY <1>2
  <2> QED BY <1>3, <2>1, <2>2, GoesMoves
<1>5. 0 \in 0..3 /\ at \in Stages
  BY <1>2
<1>6. /\ stage' \in [1..Launches -> Stages] /\ stage'[m] = at
      /\ \A n \in 1..Launches : n # m => stage'[n] = stage[n]
      /\ locked' \in [1..Launches -> 0..3] /\ locked'[m] = 0
      /\ \A n \in 1..Launches : n # m => locked'[n] = locked[n]
      /\ \A n \in 1..Launches : n > launched' <=> At(n, "new")'
      /\ LockedInv'
  BY <1>1, <1>3, <1>4, <1>5, MovedFacts
<1>7. m \notin servers /\ \A h \in Handles : handles[h] # m
  BY <1>2, HandlesOfOthers
<1>8. nodeStarted' \in BOOLEAN /\ (nodeStarted => nodeStarted')
  <2>1. nodeStarted \in BOOLEAN
    BY DEF RuntimeTypeOK
  <2>2. nodeStarted' = nodeStarted \/ nodeStarted' = TRUE
    BY <1>2
  <2> QED BY <2>1, <2>2
<1>9. RuntimeTypeOK'
  BY <1>1, <1>6, <1>8 DEF RuntimeTypeOK
<1>10. \A n \in 1..Launches : Chosen(n)' => Chosen(n) \/ (n = m /\ ~nodeStarted /\ nodeStarted')
  <2> SUFFICES ASSUME NEW n \in 1..Launches, Chosen(n)', ~Chosen(n)
               PROVE  n = m /\ ~nodeStarted /\ nodeStarted'
    OBVIOUS
  <2>1. n \notin servers /\ stage'[n] \in Starting /\ stage[n] \notin Starting
    BY <1>1 DEF Chosen
  <2>2. n = m
    BY <1>6, <2>1
  <2> QED BY <1>2, <1>6, <2>1, <2>2 DEF Starting
<1>11. ChosenInv'
  <2>1. \A n \in 1..Launches : Chosen(n)' => nodeStarted'
    BY <1>3, <1>8, <1>10 DEF ChosenInv
  <2>2. \A n, k \in 1..Launches : Chosen(n)' /\ Chosen(k)' => n = k
    BY <1>3, <1>10 DEF ChosenInv
  <2>3. \A n \in servers' : stage'[n] = "started"
    BY <1>1, <1>3, <1>6, <1>7 DEF ChosenInv, RuntimeTypeOK
  <2> QED BY <2>1, <2>2, <2>3 DEF ChosenInv
<1>12. HandlesInv'
  <2>1. \A n \in 1..Launches : n \in servers' => \A h \in Handles : handles'[h] = n
    BY <1>1, <1>3 DEF HandlesInv
  <2>2. \A n \in 1..Launches :
          stage'[n] = "built" => \A h \in Handles : handles'[h] = n <=> h <= locked'[n]
    <3> SUFFICES ASSUME NEW n \in 1..Launches, stage'[n] = "built", NEW h \in Handles
                 PROVE  handles[h] = n <=> h <= locked'[n]
      BY <1>1
    <3>1. CASE n = m
      BY <1>6, <1>7, <3>1, HandleNames
    <3>2. CASE n # m
      BY <1>3, <1>6, <3>2 DEF HandlesInv
    <3> QED BY <3>1, <3>2
  <2>3. \A h \in Handles :
          handles'[h] # None => stage'[handles'[h]] = "built" \/ handles'[h] \in servers'
    <3> SUFFICES ASSUME NEW h \in Handles, handles[h] # None
                 PROVE  stage'[handles[h]] = "built" \/ handles[h] \in servers
      BY <1>1
    <3>1. handles[h] \in 1..Launches /\ handles[h] # m
      BY <1>7 DEF RuntimeTypeOK
    <3> QED BY <1>3, <1>6, <3>1 DEF HandlesInv
  <2> QED BY <2>1, <2>2, <2>3 DEF HandlesInv
<1>13. ServicesInv'
  <2> SUFFICES ASSUME NEW n \in 1..Launches, NEW s \in Services, Published(n, s)'
               PROVE  Found(n, s)'
    BY DEF ServicesInv
  <2>1. Published(n, s)
    <3>1. CASE n = m
      <4>1. stage'[m] \in {"building", "built"} \/ (stage'[m] = "starting" /\ s <= 0)
        BY <1>1, <1>6, <1>7, <3>1 DEF Published
      <4>2. stage[m] = "building"
        BY <1>2, <1>6, <4>1, HandleNames
      <4> QED BY <3>1, <4>2 DEF Published
    <3>2. CASE n # m
      BY <1>1, <1>6, <3>2 DEF Published
    <3> QED BY <3>1, <3>2
  <2>2. Found(n, s)
    BY <1>3, <2>1 DEF ServicesInv
  <2> QED BY <1>1, <2>2 DEF Found, Started, Prepared
<1> QED BY <1>1, <1>4, <1>5, <1>6, <1>9, <1>11, <1>12, <1>13 DEF NodeInv

\* A service is published: of another launch, unless by the call that starts the server.
LEMMA ServiceCall ==
  ASSUME RuntimeTypeOK, NodeInv, NEW m \in 1..Launches, PublishPrepared(m) \/ PublishStarted(m)
  PROVE  /\ \E at \in Stages, l \in 0..3 : Moved(m, at, l)
         /\ UNCHANGED <<launched, handles, servers, mode>>
         /\ RuntimeTypeOK' /\ NodeInv'
<1> DEFINE s0 == locked[m] + 1
           from == stage[m]
<1>1. UNCHANGED <<launched, nodeStarted, handles, servers, mode>>
  BY DEF PublishPrepared, PublishStarted, PublishService
<1>2. PICK owner \in Openings, next \in {"prepared", "building"} :
        /\ services' = [services EXCEPT ![s0] = owner] /\ Sets(m, 4, next)
        /\ \/ from = "preparing" /\ owner = Prepared(m) /\ next = "prepared"
           \/ from = "starting" /\ owner = Started(m) /\ next = "building"
  <2>1. Prepared(m) \in Openings /\ Started(m) \in Openings
    BY DEF Prepared, Started, Openings
  <2> QED BY <2>1 DEF PublishPrepared, PublishStarted, PublishService, At
<1>3. /\ LockedInv /\ ChosenInv /\ HandlesInv /\ ServicesInv
      /\ services \in [Services -> {None} \cup Openings] /\ locked[m] \in 0..3
      /\ launched \in 0..Launches
  BY DEF NodeInv, RuntimeTypeOK
<1> DEFINE at == IF s0 = 4 THEN next ELSE from
           l == IF s0 = 4 THEN 0 ELSE s0
<1>4. Moved(m, at, l)
  <2>1. s0 <= 4 /\ next \in Stages /\ next \in {"prepared", "building", "started"} /\ 4 \in {3, 4}
        /\ from \in {"preparing", "starting"}
    BY <1>2, <1>3 DEF Stages
  <2> QED BY <1>2, <2>1, SetsMoves
<1>5. at \in Stages /\ l \in 0..3
  <2>1. next \in Stages /\ from \in Stages
    BY <1>2 DEF Stages
  <2> QED BY <1>3, <2>1
<1>6. s0 \in 1..4 /\ s0 \in Services
  BY <1>3, HandleNames
<1>7. \/ at = from /\ l = s0
      \/ at = next /\ s0 = 4 /\ l = 0
  OBVIOUS
<1> HIDE DEF at, l
<1>8. /\ stage' \in [1..Launches -> Stages] /\ stage'[m] = at
      /\ \A n \in 1..Launches : n # m => stage'[n] = stage[n]
      /\ locked' \in [1..Launches -> 0..3] /\ locked'[m] = l
      /\ \A n \in 1..Launches : n # m => locked'[n] = locked[n]
      /\ m <= launched
      /\ \A n \in 1..Launches : n > launched' <=> At(n, "new")'
      /\ LockedInv'
  BY <1>1, <1>3, <1>4, <1>5, MovedFacts
<1>9. m \notin servers /\ \A h \in Handles : handles[h] # m
  BY <1>2, HandlesOfOthers
<1>10. services' \in [Services -> {None} \cup Openings]
  BY <1>2, <1>3
<1>11. RuntimeTypeOK'
  BY <1>1, <1>8, <1>10 DEF RuntimeTypeOK
<1>12. \A n \in 1..Launches : Chosen(n)' => Chosen(n)
  <2> SUFFICES ASSUME NEW n \in 1..Launches, Chosen(n)' PROVE Chosen(n)
    OBVIOUS
  <2>1. CASE n = m
    BY <1>1, <1>2, <1>7, <1>8, <1>9, <2>1 DEF Chosen, Starting
  <2>2. CASE n # m
    BY <1>1, <1>8, <2>2 DEF Chosen
  <2> QED BY <2>1, <2>2
<1>13. ChosenInv'
  <2>1. \A n \in servers' : stage'[n] = "started"
    BY <1>1, <1>3, <1>8, <1>9 DEF ChosenInv, RuntimeTypeOK
  <2> QED BY <1>1, <1>3, <1>12, <2>1 DEF ChosenInv
<1>14. at # "built"
  BY <1>2, <1>7
<1>15. HandlesInv'
  <2>1. \A n \in 1..Launches : n \in servers' => \A h \in Handles : handles'[h] = n
    BY <1>1, <1>3 DEF HandlesInv
  <2>2. \A n \in 1..Launches :
          stage'[n] = "built" => \A h \in Handles : handles'[h] = n <=> h <= locked'[n]
    BY <1>1, <1>3, <1>8, <1>14 DEF HandlesInv
  <2>3. \A h \in Handles :
          handles'[h] # None => stage'[handles'[h]] = "built" \/ handles'[h] \in servers'
    <3> SUFFICES ASSUME NEW h \in Handles, handles[h] # None
                 PROVE  stage'[handles[h]] = "built" \/ handles[h] \in servers
      BY <1>1
    <3>1. handles[h] \in 1..Launches /\ handles[h] # m
      BY <1>9 DEF RuntimeTypeOK
    <3> QED BY <1>3, <1>8, <3>1 DEF HandlesInv
  <2> QED BY <2>1, <2>2, <2>3 DEF HandlesInv
<1>16. ServicesInv'
  <2> SUFFICES ASSUME NEW n \in 1..Launches, NEW s \in Services, Published(n, s)'
               PROVE  Found(n, s)'
    BY DEF ServicesInv
  <2>1. CASE s # s0 \/ n # m
    <3>1. Published(n, s)
      <4>1. CASE n = m
        <5>1. from = "starting" /\ s \in 1..4 /\ s # s0
          BY <1>1, <1>2, <1>7, <1>8, <1>9, <2>1, <4>1, HandleNames DEF Published
        <5>2. s <= l \/ s0 = 4
          BY <1>1, <1>2, <1>7, <1>8, <1>9, <4>1 DEF Published
        <5>3. s <= locked[m]
          BY <1>3, <1>7, <5>1, <5>2
        <5> QED BY <4>1, <5>1, <5>3 DEF Published
      <4>2. CASE n # m
        BY <1>1, <1>8, <4>2 DEF Published
      <4> QED BY <4>1, <4>2
    <3>2. Found(n, s)
      BY <1>3, <3>1 DEF ServicesInv
    <3>3. CASE s # s0
      <4>1. services'[s] = services[s]
        BY <1>2, <1>3, <3>3
      <4> QED BY <1>1, <3>2, <4>1 DEF Found, Started, Prepared
    <3>4. CASE s = s0
      <4>1. n # m /\ services'[s] = owner
        BY <1>2, <1>3, <2>1, <3>4
      <4>2. owner = Prepared(m)
        <5>1. Chosen(n)
          BY <3>1 DEF Published, Chosen, Starting
        <5>2. ~Chosen(m)
          BY <1>3, <4>1, <5>1 DEF ChosenInv
        <5> QED BY <1>2, <5>2 DEF Chosen, Starting
      <4>3. m \in (1..launched') \ {n}
        BY <1>1, <1>3, <1>8, <4>1
      <4> QED BY <4>1, <4>2, <4>3 DEF Found, Prepared
    <3> QED BY <3>3, <3>4
  <2>2. CASE s = s0 /\ n = m
    <3>1. from = "starting"
      BY <1>1, <1>2, <1>7, <1>8, <1>9, <2>2 DEF Published
    <3>2. services'[s] = Started(m)
      BY <1>2, <1>3, <1>6, <2>2, <3>1
    <3> QED BY <2>2, <3>2 DEF Found, Started
  <2> QED BY <2>1, <2>2
<1>17. \E a \in Stages, k \in 0..3 : Moved(m, a, k)
  BY <1>4, <1>5
<1> QED BY <1>1, <1>8, <1>11, <1>13, <1>15, <1>16, <1>17 DEF NodeInv

\* A handle is published by the one call that starts the server.
LEMMA HandleCall ==
  ASSUME RuntimeTypeOK, NodeInv, NEW m \in 1..Launches, PublishHandle(m)
  PROVE  /\ \E at \in Stages, l \in 0..3 : Moved(m, at, l)
         /\ UNCHANGED <<launched, services, mode>>
         /\ RuntimeTypeOK' /\ NodeInv'
         /\ stage[m] = "built" /\ handles' = [handles EXCEPT ![locked[m] + 1] = m]
<1> DEFINE h0 == locked[m] + 1
<1>1. /\ stage[m] = "built" /\ Sets(m, 3, "started")
      /\ handles' = [handles EXCEPT ![h0] = m]
      /\ servers' = IF h0 = 3 THEN servers \cup {m} ELSE servers
      /\ UNCHANGED <<launched, nodeStarted, services, mode>>
  BY DEF PublishHandle, At
<1>2. /\ LockedInv /\ ChosenInv /\ HandlesInv /\ ServicesInv
      /\ handles \in [Handles -> {None} \cup 1..Launches] /\ locked[m] \in 0..2
      /\ servers \subseteq 1..Launches
  BY <1>1 DEF NodeInv, RuntimeTypeOK, LockedInv
<1> DEFINE at == IF h0 = 3 THEN "started" ELSE "built"
           l == IF h0 = 3 THEN 0 ELSE h0
<1>3. Moved(m, at, l)
  <2>1. h0 <= 3 /\ "started" \in Stages /\ 3 \in {3, 4}
    BY <1>2 DEF Stages
  <2>2. Moved(m, IF locked[m] + 1 = 3 THEN "started" ELSE stage[m],
                 IF locked[m] + 1 = 3 THEN 0 ELSE locked[m] + 1)
    BY <1>1, <2>1, SetsMoves
  <2> QED BY <1>1, <2>2
<1>4. at \in Stages /\ l \in 0..3
  BY <1>2 DEF Stages
<1>5. h0 \in 1..3 /\ h0 \in Handles
  BY <1>2, HandleNames
<1>6. \/ at = "built" /\ l = h0 /\ servers' = servers
      \/ at = "started" /\ h0 = 3 /\ l = 0 /\ servers' = servers \cup {m}
  BY <1>1
<1> HIDE DEF at, l
<1>7. /\ stage' \in [1..Launches -> Stages] /\ stage'[m] = at
      /\ \A n \in 1..Launches : n # m => stage'[n] = stage[n]
      /\ locked' \in [1..Launches -> 0..3] /\ locked'[m] = l
      /\ \A n \in 1..Launches : n # m => locked'[n] = locked[n]
      /\ m <= launched
      /\ \A n \in 1..Launches : n > launched' <=> At(n, "new")'
      /\ LockedInv'
  BY <1>1, <1>2, <1>3, <1>4, MovedFacts
<1>8. /\ handles' \in [Handles -> {None} \cup 1..Launches]
      /\ handles'[h0] = m /\ \A h \in Handles : h # h0 => handles'[h] = handles[h]
      /\ servers' \subseteq 1..Launches
  BY <1>1, <1>2, <1>5
<1>9. RuntimeTypeOK'
  BY <1>1, <1>7, <1>8 DEF RuntimeTypeOK
<1>10. Chosen(m) /\ m \notin servers /\ \A n \in 1..Launches : Chosen(n) => n = m
  BY <1>1, <1>2 DEF ChosenInv, Chosen, Starting
<1>11. \A n \in 1..Launches : Chosen(n)' => n = m
  BY <1>1, <1>7, <1>10 DEF Chosen
<1>12. servers = {}
  BY <1>2, <1>10 DEF Chosen
<1>13. ChosenInv'
  <2>1. nodeStarted'
    BY <1>1, <1>2, <1>10 DEF ChosenInv
  <2>2. \A n \in servers' : stage'[n] = "started"
    BY <1>6, <1>7, <1>12
  <2> QED BY <1>11, <2>1, <2>2 DEF ChosenInv
<1>14. \A h \in Handles : handles[h] = m <=> h <= locked[m]
  BY <1>1, <1>2 DEF HandlesInv
<1>15. \A h \in Handles : handles'[h] = m <=> h <= h0
  BY <1>2, <1>5, <1>8, <1>14, HandleNames
<1>16. HandlesInv'
  <2>1. \A n \in 1..Launches : n \in servers' => \A h \in Handles : handles'[h] = n
    BY <1>6, <1>12, <1>15, HandleNames
  <2>2. \A n \in 1..Launches :
          stage'[n] = "built" => \A h \in Handles : handles'[h] = n <=> h <= locked'[n]
    <3> SUFFICES ASSUME NEW n \in 1..Launches, stage'[n] = "built", NEW h \in Handles
                 PROVE  handles'[h] = n <=> h <= locked'[n]
      OBVIOUS
    <3>1. n = m
      BY <1>11 DEF Chosen, Starting
    <3> QED BY <1>6, <1>7, <1>15, <3>1
  <2>3. \A h \in Handles :
          handles'[h] # None => stage'[handles'[h]] = "built" \/ handles'[h] \in servers'
    <3> SUFFICES ASSUME NEW h \in Handles, handles'[h] # None
                 PROVE  stage'[handles'[h]] = "built" \/ handles'[h] \in servers'
      OBVIOUS
    <3>1. handles'[h] = m
      <4>1. CASE h = h0
        BY <1>8, <4>1
      <4>2. CASE h # h0
        <5>1. handles[h] \in 1..Launches /\ Chosen(handles[h])
          BY <1>2, <1>8, <4>2 DEF HandlesInv, Chosen, Starting
        <5> QED BY <1>8, <1>10, <4>2, <5>1
      <4> QED BY <4>1, <4>2
    <3> QED BY <1>6, <1>7, <3>1
  <2> QED BY <2>1, <2>2, <2>3 DEF HandlesInv
<1>17. ServicesInv'
  <2> SUFFICES ASSUME NEW n \in 1..Launches, NEW s \in Services, Published(n, s)'
               PROVE  Found(n, s)'
    BY DEF ServicesInv
  <2>1. n = m
    <3>1. Chosen(n)'
      BY DEF Published, Chosen, Starting
    <3> QED BY <1>11, <3>1
  <2>2. Found(n, s)
    BY <1>1, <1>2, <2>1 DEF ServicesInv, Published
  <2> QED BY <1>1, <2>2 DEF Found, Started, Prepared
<1>18. \E a \in Stages, k \in 0..3 : Moved(m, a, k)
  BY <1>3, <1>4
<1> QED BY <1>1, <1>7, <1>9, <1>13, <1>16, <1>17, <1>18 DEF NodeInv

-----------------------------------------------------------------------------
(* The steps of the app.                                                   *)

\* A handle keeps what the mode is in force for.
LEMMA ActsKeep ==
  ASSUME RunInv, NEW m \in 1..Launches, Acts(m), UNCHANGED <<appVars, open>>
  PROVE  RunInv'
<1>1. /\ RuntimeTypeOK /\ NodeInv /\ InTurn /\ SettingInv /\ ModeInv /\ AppTyped
      /\ stage \in [1..Launches -> Stages] /\ launched \in 0..Launches
      /\ UNCHANGED <<saved, setting, orderly, open>>
  BY DEF RunInv, AppTyped, RuntimeTypeOK, appVars
<1>2. CASE PublishHandle(m)
  <2>1. /\ \E at \in Stages, l \in 0..3 : Moved(m, at, l)
        /\ RuntimeTypeOK' /\ NodeInv' /\ UNCHANGED <<launched, mode>>
        /\ stage[m] = "built" /\ handles' = [handles EXCEPT ![locked[m] + 1] = m]
    BY <1>1, <1>2, HandleCall
  <2>2. locked[m] \in 0..2 /\ handles \in [Handles -> {None} \cup 1..Launches]
    BY <1>1, <2>1 DEF NodeInv, LockedInv, RuntimeTypeOK
  <2>3. handles[ProxyModeHandle] # None => handles'[ProxyModeHandle] = handles[ProxyModeHandle]
    <3>1. ASSUME handles[ProxyModeHandle] # None PROVE handles[ProxyModeHandle] = m
      <4>1. /\ handles[ProxyModeHandle] \in 1..Launches /\ Chosen(handles[ProxyModeHandle])
            /\ Chosen(m)
        BY <1>1, <2>1, <2>2, <3>1, HandleNames DEF NodeInv, HandlesInv, Chosen, Starting
      <4> QED BY <1>1, <4>1 DEF NodeInv, ChosenInv
    <3> QED BY <2>1, <2>2, <3>1, HandleNames
  <2>4. handles'[ProxyModeHandle] = handles[ProxyModeHandle] \/ handles'[ProxyModeHandle] = m
    BY <2>1, <2>2, HandleNames
  <2>5. (m # launched /\ m <= launched) \/ setting[launched].at # "done"
    <3>1. CASE m = launched
      <4>1. setting[launched] = NotSetting
        BY <1>1, <2>1, <3>1 DEF SettingInv, At
      <4> QED BY <4>1, SettingFacts
    <3>2. CASE m # launched
      <4>1. m <= launched
        BY <1>1, <2>1 DEF RuntimeTypeOK, At
      <4> QED BY <3>2, <4>1
    <3> QED BY <3>1, <3>2
  <2>6. orderly /\ m # launched /\ m <= launched => handles[ProxyModeHandle] # None
    BY <1>1, <2>1 DEF InTurn, Ended
  <2>7. ModeInv'
    BY <1>1, <2>1, <2>3, <2>5, <2>6 DEF ModeInv, Busy
  <2>8. m # None
    BY RuntimeAssumption
  <2>9. InTurn'
    <3>1. handles[ProxyModeHandle] # None => handles'[ProxyModeHandle] # None
      BY <2>3
    <3>2. ASSUME orderly, handles[ProxyModeHandle] = None, NEW n \in 1..Launches, n < launched
          PROVE  Ended(n)'
      <4>1. Ended(n) /\ n # m
        BY <1>1, <2>1, <3>2 DEF InTurn, Ended
      <4>2. stage'[n] = stage[n]
        BY <1>1, <2>1, <4>1 DEF Moved
      <4> QED BY <4>1, <4>2 DEF Ended
    <3> QED BY <1>1, <2>1, <3>1, <3>2 DEF InTurn
  <2>10. SettingInv'
    <3>1. \A n \in 1..Launches : setting[n] # NotSetting => stage'[n] = "started"
      BY <1>1, <2>1 DEF SettingInv, At, Moved
    <3> QED BY <1>1, <3>1 DEF SettingInv, At, BusySetter
  <2> QED BY <1>1, <2>1, <2>7, <2>9, <2>10 DEF RunInv, AppTyped
<1>3. ASSUME \E at \in Stages, l \in 0..3 : Moved(m, at, l), RuntimeTypeOK', NodeInv',
             UNCHANGED <<launched, handles, mode>>
      PROVE  RunInv'
  <2>1. /\ \A n \in 1..Launches : n # m => stage'[n] = stage[n]
        /\ stage[m] \notin {"new", "started", "failed"}
        /\ m # launched => stage[m] # "prepared"
    BY <1>1, <1>3 DEF Moved
  <2>2. ModeInv'
    BY <1>1, <1>3 DEF ModeInv, Busy
  <2>3. InTurn'
    <3>1. ASSUME orderly, handles[ProxyModeHandle] = None, NEW n \in 1..Launches, n < launched
          PROVE  Ended(n)'
      <4>1. Ended(n) /\ n # m
        BY <1>1, <2>1, <3>1 DEF InTurn, Ended
      <4> QED BY <2>1, <4>1 DEF Ended
    <3> QED BY <1>1, <1>3, <3>1 DEF InTurn
  <2>4. SettingInv'
    <3>1. \A n \in 1..Launches : setting[n] # NotSetting => stage'[n] = "started"
      BY <1>1, <2>1 DEF SettingInv, At
    <3> QED BY <1>1, <3>1 DEF SettingInv, At, BusySetter
  <2> QED BY <1>1, <1>3, <2>2, <2>3, <2>4 DEF RunInv, AppTyped
<1>4. CASE PublishPrepared(m) \/ PublishStarted(m)
  <2>1. /\ \E at \in Stages, l \in 0..3 : Moved(m, at, l)
        /\ RuntimeTypeOK' /\ NodeInv' /\ UNCHANGED <<launched, handles, mode>>
    BY <1>1, <1>4, ServiceCall
  <2> QED BY <1>3, <2>1
<1>5. CASE \/ Prepare(m) \/ OpenServices(m) \/ BuildServer(m)
           \/ m = launched /\ StartHydraNode(m)
  <2>1. /\ \E at \in Stages, l \in 0..3 : Moved(m, at, l)
        /\ RuntimeTypeOK' /\ NodeInv' /\ UNCHANGED <<launched, handles, mode>>
    BY <1>1, <1>5, QuietCall
  <2> QED BY <1>3, <2>1
<1> QED BY <1>2, <1>4, <1>5 DEF Acts, Calls

LEMMA LaunchKeeps ==
  ASSUME RunInv, Launch
  PROVE  RunInv'
<1> DEFINE m == launched + 1
<1>1. /\ RuntimeTypeOK /\ NodeInv /\ SettingInv /\ AppTyped
      /\ launched \in 0..Launches /\ stage \in [1..Launches -> Stages]
  BY DEF RunInv, AppTyped, RuntimeTypeOK
<1>2. /\ m <= Launches /\ launched' = m /\ stage' = [stage EXCEPT ![m] = "launched"]
      /\ UNCHANGED <<locked, nodeStarted, services, handles, servers, mode, saved, setting>>
      /\ orderly' = (orderly /\ \A n \in 1..launched : Ended(n))
      /\ open' = TRUE
  BY DEF Launch, Goes, Appear
<1>3. m \in 1..Launches /\ m \in Setters /\ launched' \in 1..Launches
  BY <1>1, <1>2, RuntimeAssumption DEF Setters
<1>4. /\ stage' \in [1..Launches -> Stages] /\ stage'[m] = "launched"
      /\ \A n \in 1..Launches : n # m => stage'[n] = stage[n]
  BY <1>1, <1>2, <1>3 DEF Stages
<1>5. stage[m] = "new"
  BY <1>1, <1>3 DEF RuntimeTypeOK, At
<1>6. \A n \in 1..Launches : n > m <=> stage'[n] = "new"
  <2> SUFFICES ASSUME NEW n \in 1..Launches PROVE n > m <=> stage'[n] = "new"
    OBVIOUS
  <2>1. CASE n = m
    BY <1>1, <1>4, <2>1
  <2>2. CASE n # m
    BY <1>1, <1>4, <2>2 DEF RuntimeTypeOK, At
  <2> QED BY <2>1, <2>2
<1>7. RuntimeTypeOK'
  BY <1>1, <1>2, <1>3, <1>4, <1>6 DEF RuntimeTypeOK, At
<1>8. m \notin servers /\ \A h \in Handles : handles[h] # m
  BY <1>1, <1>3, <1>5, HandlesOfOthers
<1>9. LockedInv /\ ChosenInv /\ HandlesInv /\ ServicesInv
  BY <1>1 DEF NodeInv
<1>10. LockedInv' /\ ChosenInv'
  <2>1. LockedInv'
    BY <1>2, <1>4, <1>5, <1>9 DEF LockedInv
  <2>2. \A n \in 1..Launches : Chosen(n)' => Chosen(n)
    BY <1>2, <1>4, <1>8 DEF Chosen, Starting
  <2>3. \A n \in servers' : stage'[n] = "started"
    BY <1>1, <1>2, <1>4, <1>8, <1>9 DEF ChosenInv, RuntimeTypeOK
  <2> QED BY <1>2, <1>9, <2>1, <2>2, <2>3 DEF ChosenInv
<1>11. HandlesInv'
  <2>1. \A h \in Handles :
          handles'[h] # None => stage'[handles'[h]] = "built" \/ handles'[h] \in servers'
    <3> SUFFICES ASSUME NEW h \in Handles, handles[h] # None
                 PROVE  stage'[handles[h]] = "built" \/ handles[h] \in servers
      BY <1>2
    <3>1. handles[h] \in 1..Launches /\ handles[h] # m
      BY <1>1, <1>8 DEF RuntimeTypeOK
    <3> QED BY <1>4, <1>9, <3>1 DEF HandlesInv
  <2> QED BY <1>2, <1>4, <1>9, <2>1 DEF HandlesInv
<1>12. ServicesInv'
  <2> SUFFICES ASSUME NEW n \in 1..Launches, NEW s \in Services, Published(n, s)'
               PROVE  Found(n, s)'
    BY DEF ServicesInv
  <2>1. n # m
    BY <1>2, <1>4, <1>8 DEF Published
  <2>2. Found(n, s)
    BY <1>2, <1>4, <1>9, <2>1 DEF ServicesInv, Published
  <2>3. 1..launched \subseteq 1..launched'
    BY <1>1, <1>2
  <2> QED BY <1>2, <2>2, <2>3 DEF Found, Started, Prepared
<1>13. setting[m] = NotSetting
  BY <1>1, <1>3, <1>5 DEF SettingInv, At
<1>14. SettingInv'
  <2>1. \A n \in 1..Launches : setting'[n] # NotSetting => stage'[n] = "started"
    BY <1>1, <1>2, <1>4, <1>13 DEF SettingInv, At
  <2>2. \A s \in Setters : BusySetter(s)' <=> BusySetter(s)
    BY <1>2 DEF BusySetter
  <2> QED BY <1>1, <1>2, <2>1, <2>2 DEF SettingInv, At
<1>15. ModeInv'
  BY <1>2, <1>13, SettingFacts DEF ModeInv
<1>16. InTurn'
  <2> SUFFICES ASSUME orderly', NEW n \in 1..Launches, n < m PROVE Ended(n)'
    BY <1>2 DEF InTurn
  <2>1. n \in 1..launched /\ n # m
    BY <1>1
  <2> QED BY <1>2, <1>4, <2>1 DEF Ended
<1>17. AppTyped'
  <2>1. orderly' \in BOOLEAN
    BY <1>2
  <2> QED BY <1>1, <1>2, <1>3, <1>7, <2>1 DEF AppTyped
<1> QED BY <1>10, <1>11, <1>12, <1>14, <1>15, <1>16, <1>17 DEF RunInv, NodeInv

\* A step that leaves the calls alone.
LEMMA RuntimeStays ==
  ASSUME RunInv, UNCHANGED <<launched, stage, locked, nodeStarted, services, handles, servers>>,
         mode' \in [1..Launches -> Modes]
  PROVE  RuntimeTypeOK' /\ NodeInv'
<1>1. RuntimeTypeOK /\ LockedInv /\ ChosenInv /\ HandlesInv /\ ServicesInv
  BY DEF RunInv, AppTyped, NodeInv
<1>2. RuntimeTypeOK'
  BY <1>1 DEF RuntimeTypeOK, At
<1>3. LockedInv' /\ HandlesInv'
  BY <1>1 DEF LockedInv, HandlesInv
<1>4. ChosenInv'
  BY <1>1 DEF ChosenInv, Chosen
<1>5. ServicesInv'
  BY <1>1 DEF ServicesInv, Published, Found, Started, Prepared
<1> QED BY <1>2, <1>3, <1>4, <1>5 DEF NodeInv

\* Nothing of the node changes, and it is shown no longer or just as before.
LEMMA NodeAside ==
  ASSUME RunInv, UNCHANGED runtimeVars, SettingInv', ModeInv', saved' \in Modes,
         orderly' => orderly \/ handles[ProxyModeHandle] # None, orderly' \in BOOLEAN,
         setting' \in [Setters -> Settings], open' \in BOOLEAN, open' => open
  PROVE  RunInv'
<1>1. AppTyped /\ RuntimeTypeOK /\ InTurn
  BY DEF RunInv, AppTyped
<1>2. /\ UNCHANGED <<launched, stage, locked, nodeStarted, services, handles, servers>>
      /\ mode' = mode
  BY DEF runtimeVars
<1>3. RuntimeTypeOK' /\ NodeInv'
  BY <1>1, <1>2, RuntimeStays DEF RuntimeTypeOK
<1>4. InTurn'
  BY <1>1, <1>2 DEF InTurn, Ended
<1>5. AppTyped'
  BY <1>1, <1>2, <1>3 DEF AppTyped
<1> QED BY <1>3, <1>4, <1>5 DEF RunInv

LEMMA LeaveKeeps ==
  ASSUME RunInv, Leave
  PROVE  RunInv'
<1>1. /\ SettingInv /\ setting \in [Setters -> Settings] /\ saved \in Modes /\ orderly \in BOOLEAN
  BY DEF RunInv, AppTyped
<1>2. /\ setting' = [s \in Setters |-> IF setting[s].at = "storing" THEN NotSetting ELSE setting[s]]
      /\ UNCHANGED <<runtimeVars, saved, orderly>> /\ open' = FALSE
  BY DEF Leave, Disappear
<1>3. /\ setting' \in [Setters -> Settings]
      /\ \A s \in Setters : setting'[s] = setting[s] \/ setting'[s] = NotSetting
  BY <1>1, <1>2, SettingFacts
<1>4. \A s \in Setters : BusySetter(s)' => BusySetter(s) /\ setting'[s] = setting[s]
  BY <1>3, SettingFacts DEF BusySetter
<1>5. SettingInv'
  <2>1. \A n \in 1..Launches : setting'[n] # NotSetting => stage'[n] = "started"
    BY <1>1, <1>2, <1>3 DEF SettingInv, At, Setters, runtimeVars
  <2> QED BY <1>1, <1>2, <1>4, <2>1 DEF SettingInv, At
<1>6. ModeInv'
  BY <1>2 DEF ModeInv
<1> QED BY <1>1, <1>2, <1>3, <1>5, <1>6, NodeAside

\* A setter becomes busy with the saved mode, and is orderly if no other is busy.
LEMMA SetterStarts ==
  ASSUME RunInv, NEW s \in Setters, NEW at \in {"storing", "setting"},
         saved' \in Modes, setting' = [setting EXCEPT ![s] = Setting(at, saved')], Begins,
         s \in 1..Launches => At(s, "started"),
         UNCHANGED <<runtimeVars, vpnVars>>
  PROVE  RunInv'
<1>1. SettingInv /\ setting \in [Setters -> Settings] /\ orderly \in BOOLEAN /\ open \in BOOLEAN
  BY DEF RunInv, AppTyped
<1>2. /\ Setting(at, saved') \in Settings
      /\ Setting(at, saved').at = at /\ Setting(at, saved').value = saved'
  BY SettingFacts
<1>3. /\ setting' \in [Setters -> Settings] /\ setting'[s] = Setting(at, saved')
      /\ \A t \in Setters : t # s => setting'[t] = setting[t]
  BY <1>1, <1>2
<1>4. \A n \in 1..Launches : setting'[n] # NotSetting => At(n, "started")'
  <2> SUFFICES ASSUME NEW n \in 1..Launches, setting'[n] # NotSetting PROVE stage[n] = "started"
    BY DEF At, runtimeVars
  <2> QED
    BY <1>1, <1>3 DEF SettingInv, At, Setters
<1>5. BusySetter(s)' /\ Busy'
  BY <1>2, <1>3 DEF BusySetter, Busy
<1>6. /\ orderly' => ~Busy /\ (orderly \/ handles[ProxyModeHandle] # None)
      /\ orderly' \in BOOLEAN
  BY DEF Begins
<1>7. orderly' => \A t \in Setters : BusySetter(t)' => t = s
  BY <1>3, <1>6 DEF BusySetter, Busy
<1>8. \A t \in Setters : BusySetter(t)' => setting'[t].value \in Modes
  <2> SUFFICES ASSUME NEW t \in Setters, BusySetter(t)' PROVE setting'[t].value \in Modes
    OBVIOUS
  <2>1. CASE t = s
    BY <1>2, <1>3, <2>1
  <2>2. CASE t # s
    BY <1>1, <1>3, <2>2 DEF SettingInv, BusySetter
  <2> QED BY <2>1, <2>2
<1>9. SettingInv'
  BY <1>2, <1>3, <1>4, <1>7, <1>8 DEF SettingInv
<1>10. ModeInv'
  BY <1>5 DEF ModeInv
<1>11. open' = open
  BY DEF vpnVars, screenVars
<1> QED BY <1>1, <1>3, <1>6, <1>9, <1>10, <1>11, NodeAside

LEMMA StoredKeeps ==
  ASSUME RunInv, NEW c \in Changes, Stored(c)
  PROVE  RunInv'
<1>1. /\ SettingInv /\ setting \in [Setters -> Settings] /\ c \in Setters /\ c \notin 1..Launches
      /\ saved \in Modes /\ orderly \in BOOLEAN /\ open \in BOOLEAN
  BY AppAssumption DEF RunInv, AppTyped, Setters
<1>2. /\ setting[c] \in Settings /\ setting[c].at = "storing"
      /\ setting' = [setting EXCEPT ![c].at = "setting"]
      /\ UNCHANGED <<runtimeVars, vpnVars, saved, orderly>>
  BY <1>1 DEF Stored
<1>3. [setting[c] EXCEPT !.at = "setting"] \in Settings
  BY <1>2 DEF Settings
<1>4. /\ setting' \in [Setters -> Settings]
      /\ setting'[c].at = "setting" /\ setting'[c].value = setting[c].value
      /\ \A t \in Setters : t # c => setting'[t] = setting[t]
  BY <1>1, <1>2, <1>3 DEF Settings
<1>5. \A t \in Setters : /\ BusySetter(t)' <=> BusySetter(t)
                         /\ setting'[t].value = setting[t].value
  BY <1>2, <1>4 DEF BusySetter
<1>6. \A n \in 1..Launches : setting'[n] # NotSetting => At(n, "started")'
  <2> SUFFICES ASSUME NEW n \in 1..Launches, setting'[n] # NotSetting PROVE stage[n] = "started"
    BY <1>2 DEF At, runtimeVars
  <2>1. n \in Setters /\ n # c
    BY <1>1 DEF Setters
  <2> QED
    BY <1>1, <1>4, <2>1 DEF SettingInv, At
<1>7. SettingInv'
  BY <1>1, <1>2, <1>5, <1>6 DEF SettingInv
<1>8. ModeInv'
  <2>1. Busy'
    BY <1>1, <1>4 DEF Busy
  <2> QED BY <2>1 DEF ModeInv
<1>9. open' = open
  BY <1>2 DEF vpnVars, screenVars
<1> QED BY <1>1, <1>2, <1>4, <1>7, <1>8, <1>9, NodeAside

\* The node gets the mode: the only one being set, when things are orderly.
LEMMA SetterSetsKeeps ==
  ASSUME RunInv, NEW s \in Setters, SetterSets(s)
  PROVE  RunInv'
<1> DEFINE m == handles[ProxyModeHandle]
<1>1. /\ AppTyped /\ RuntimeTypeOK /\ SettingInv /\ ModeInv /\ InTurn
      /\ setting \in [Setters -> Settings] /\ m \in {None} \cup 1..Launches
      /\ mode \in [1..Launches -> Modes]
  BY HandleNames DEF RunInv, AppTyped, RuntimeTypeOK
<1>2. /\ setting[s] \in Settings /\ setting[s].at = "setting"
      /\ mode' = IF m = None THEN mode ELSE [mode EXCEPT ![m] = setting[s].value]
      /\ setting' = [setting EXCEPT ![s] = Setting("done", None)]
      /\ UNCHANGED <<launched, stage, locked, nodeStarted, services, handles, servers,
                     saved, orderly, open>>
  BY <1>1 DEF SetterSets, SetProxyMode, vpnVars, screenVars
<1>3. /\ setting' \in [Setters -> Settings] /\ setting'[s] = Setting("done", None)
      /\ \A t \in Setters : t # s => setting'[t] = setting[t]
  BY <1>1, <1>2, SettingFacts
<1>4. BusySetter(s) /\ ~BusySetter(s)'
  BY <1>2, <1>3, SettingFacts DEF BusySetter
<1>5. \A t \in Setters : BusySetter(t)' => BusySetter(t) /\ setting'[t] = setting[t]
  BY <1>3, <1>4 DEF BusySetter
<1>6. \A n \in 1..Launches : setting'[n] # NotSetting => At(n, "started")'
  <2> SUFFICES ASSUME NEW n \in 1..Launches, setting'[n] # NotSetting PROVE stage[n] = "started"
    BY <1>2 DEF At
  <2>1. setting[n] # NotSetting
    <3>1. CASE n = s
      BY <1>2, <3>1, SettingFacts
    <3>2. CASE n # s
      BY <1>3, <3>2 DEF Setters
    <3> QED
      BY <3>1, <3>2
  <2> QED
    BY <1>1, <2>1 DEF SettingInv, At
<1>7. SettingInv'
  BY <1>1, <1>2, <1>5, <1>6 DEF SettingInv
<1>8. setting[s].value \in Modes /\ (orderly => setting[s].value = saved)
  BY <1>1, <1>4 DEF SettingInv
<1>9. mode' \in [1..Launches -> Modes] /\ (m # None => mode'[m] = setting[s].value)
  BY <1>1, <1>2, <1>8
<1>10. RuntimeTypeOK' /\ NodeInv'
  BY <1>2, <1>9, RuntimeStays
<1>11. ModeInv'
  BY <1>2, <1>8, <1>9 DEF ModeInv
<1>12. InTurn' /\ AppTyped'
  BY <1>1, <1>2, <1>3, <1>10 DEF InTurn, Ended, AppTyped
<1> QED BY <1>7, <1>10, <1>11, <1>12 DEF RunInv

LEMMA AppInvInit == Init => AppInv
<1> SUFFICES ASSUME Init PROVE AppInv
  OBVIOUS
<1>1. RuntimeInit /\ VpnInit /\ saved \in Modes /\ orderly = TRUE
      /\ setting = [s \in Setters |-> NotSetting]
  BY DEF Init
<1>2. VpnInv /\ open = FALSE
  BY <1>1, VpnInvInit DEF VpnInit
<1>3. /\ launched = 0 /\ nodeStarted = FALSE /\ servers = {}
      /\ stage = [m \in 1..Launches |-> "new"] /\ locked = [m \in 1..Launches |-> 0]
      /\ services = [s \in Services |-> None] /\ handles = [h \in Handles |-> None]
      /\ mode = [m \in 1..Launches |-> ConfigMode]
  BY <1>1 DEF RuntimeInit
<1>4. RuntimeTypeOK
  <2>1. launched \in 0..Launches
    BY <1>3, RuntimeAssumption
  <2>2. /\ stage \in [1..Launches -> Stages] /\ mode \in [1..Launches -> Modes]
        /\ locked \in [1..Launches -> 0..3]
    BY <1>3, RuntimeAssumption DEF Stages
  <2>3. \A m \in 1..Launches : m > launched <=> At(m, "new")
    BY <1>3, RuntimeAssumption DEF At
  <2> QED
    BY <1>3, <2>1, <2>2, <2>3 DEF RuntimeTypeOK
<1>5. setting \in [Setters -> Settings] /\ \A s \in Setters : setting[s] = NotSetting
  BY <1>1, SettingFacts
<1>6. AppTyped
  BY <1>1, <1>2, <1>4, <1>5 DEF AppTyped
<1>7. NodeInv
  <2>1. LockedInv /\ HandlesInv
    BY <1>3 DEF LockedInv, HandlesInv
  <2>2. \A m \in 1..Launches : ~Chosen(m)
    BY <1>3 DEF Chosen, Starting
  <2>3. ChosenInv
    BY <1>3, <2>2 DEF ChosenInv
  <2>4. ServicesInv
    BY <1>3 DEF ServicesInv, Published
  <2> QED BY <2>1, <2>3, <2>4 DEF NodeInv
<1>8. SettingInv
  <2>1. \A s \in Setters : ~BusySetter(s)
    BY <1>5, SettingFacts DEF BusySetter
  <2>2. \A m \in 1..Launches : setting[m] = NotSetting
    BY <1>5 DEF Setters
  <2> QED
    BY <2>1, <2>2 DEF SettingInv
<1>9. ModeInv /\ InTurn
  BY <1>2, <1>3, RuntimeAssumption DEF ModeInv, InTurn
<1> QED
  BY <1>2, <1>6, <1>7, <1>8, <1>9 DEF AppInv, RunInv

\* The VPN does not know of the node.
LEMMA VpnAside ==
  ASSUME RunInv, UNCHANGED <<runtimeVars, appVars, open>>
  PROVE  RunInv'
<1>1. /\ SettingInv /\ ModeInv /\ saved \in Modes /\ orderly \in BOOLEAN /\ open \in BOOLEAN
      /\ setting \in [Setters -> Settings]
  BY DEF RunInv, AppTyped
<1>2. /\ UNCHANGED <<launched, stage, handles, mode, saved, setting, orderly, open>>
  BY DEF runtimeVars, appVars
<1>3. SettingInv'
  BY <1>1, <1>2 DEF SettingInv, BusySetter, At
<1>4. ModeInv'
  BY <1>1, <1>2 DEF ModeInv, Busy
<1> QED BY <1>1, <1>2, <1>3, <1>4, NodeAside

LEMMA AppInvStep == AppInv /\ [Next]_vars => AppInv'
<1> SUFFICES ASSUME AppInv, [Next]_vars PROVE AppInv'
  OBVIOUS
<1>1. VpnInv /\ RunInv /\ AppTyped /\ RuntimeTypeOK /\ SettingInv
  BY DEF AppInv, RunInv, AppTyped
<1>2. /\ UNCHANGED vpnVars => open' = open
      /\ VpnNext => open' = open
  BY DEF vpnVars, screenVars, VpnNext, Press, ScreenReceives, ActivityHandles, Consent,
         ServiceHandles, Destroy, Revoke, TunnelEnds
<1>3. VpnNext \/ Appear \/ Disappear \/ UNCHANGED vpnVars
  BY DEF Next, Launch, Leave, MainStarts, MainApplies, Stored, SaveProxyMode, SetterSets, Vpn, vars
<1>4. VpnInv'
  BY <1>1, <1>3, VpnInvStep
<1>5. CASE Launch
  BY <1>1, <1>4, <1>5, LaunchKeeps DEF AppInv
<1>6. CASE Leave
  BY <1>1, <1>4, <1>6, LeaveKeeps DEF AppInv
<1>7. ASSUME NEW m \in 1..Launches, Acts(m), UNCHANGED <<vpnVars, appVars>>
      PROVE  AppInv'
  <2>1. RunInv'
    BY <1>1, <1>2, <1>7, ActsKeep
  <2> QED BY <1>4, <2>1 DEF AppInv
<1>8. CASE MainStarts
  <2>1. launched \in 1..Launches
    BY <1>1, <1>8 DEF MainStarts, AppTyped, RuntimeTypeOK
  <2> QED BY <1>7, <1>8, <2>1 DEF MainStarts, Acts
<1>9. ASSUME NEW m \in 1..Launches, Calls(m), UNCHANGED <<vpnVars, appVars>>
      PROVE  AppInv'
  BY <1>7, <1>9 DEF Acts
<1>10. CASE MainApplies
  <2>1. launched \in 1..Launches /\ launched \in Setters
    BY <1>1, <1>10 DEF MainApplies, AppTyped, RuntimeTypeOK, Setters
  <2>2. /\ At(launched, "started") /\ Begins /\ UNCHANGED <<runtimeVars, vpnVars>>
        /\ setting' = [setting EXCEPT ![launched] = Setting("setting", saved')]
        /\ saved' \in Modes
    BY <1>1, <1>10 DEF MainApplies, AppTyped
  <2>3. RunInv'
    BY <1>1, <2>1, <2>2, SetterStarts
  <2> QED BY <1>4, <2>3 DEF AppInv
<1>11. ASSUME NEW c \in Changes, NEW x \in Modes, SaveProxyMode(c, x)
       PROVE  AppInv'
  <2>1. c \in Setters /\ c \notin 1..Launches
    BY AppAssumption DEF Setters
  <2>2. /\ setting' = [setting EXCEPT ![c] = Setting("storing", saved')]
        /\ Begins /\ UNCHANGED <<runtimeVars, vpnVars>> /\ saved' \in Modes
    BY <1>11 DEF SaveProxyMode
  <2>3. RunInv'
    BY <1>1, <2>1, <2>2, SetterStarts
  <2> QED BY <1>4, <2>3 DEF AppInv
<1>12. ASSUME NEW c \in Changes, Stored(c)
       PROVE  AppInv'
  BY <1>1, <1>4, <1>12, StoredKeeps DEF AppInv
<1>13. ASSUME NEW s \in Setters, SetterSets(s)
       PROVE  AppInv'
  BY <1>1, <1>4, <1>13, SetterSetsKeeps DEF AppInv
<1>14. CASE Vpn
  BY <1>1, <1>2, <1>4, <1>14, VpnAside DEF AppInv, Vpn
<1>15. CASE UNCHANGED vars
  BY <1>1, <1>2, <1>4, <1>15, VpnAside DEF AppInv, vars
<1> QED
  BY <1>5, <1>6, <1>8, <1>9, <1>10, <1>11, <1>12, <1>13, <1>14, <1>15 DEF Next

LEMMA AppInvAlways == Spec => []AppInv
<1> QED
  BY AppInvInit, AppInvStep, PTL DEF Spec

LEMMA AppInvIsEnough == AppInv => TypeOK /\ SavedModeIsInForce /\ ScreensSeeOneNode /\ OffIsOff
<1> SUFFICES ASSUME AppInv PROVE TypeOK /\ SavedModeIsInForce /\ ScreensSeeOneNode /\ OffIsOff
  OBVIOUS
<1>1. /\ VpnInv /\ AppTyped /\ RuntimeTypeOK /\ ModeInv
      /\ ChosenInv /\ HandlesInv /\ ServicesInv
  BY DEF AppInv, RunInv, AppTyped, NodeInv
<1>2. OffIsOff
  BY <1>1, VpnInvIsEnough
<1>3. TypeOK
  BY <1>1 DEF TypeOK, AppTyped, VpnInv, Settings
<1>4. servers \subseteq 1..Launches /\ handles \in [Handles -> {None} \cup 1..Launches]
  BY <1>1 DEF RuntimeTypeOK
<1>5. SavedModeIsInForce
  <2> SUFFICES ASSUME orderly, ~Busy, open, setting[launched].at = "done", NEW m \in servers
               PROVE  mode[m] = saved
    BY DEF SavedModeIsInForce
  <2>1. handles[ProxyModeHandle] = m /\ m # None
    BY <1>1, <1>4, HandleNames, RuntimeAssumption DEF HandlesInv
  <2> QED BY <1>1, <2>1 DEF ModeInv
<1>6. ScreensSeeOneNode
  <2>1. \A h \in Handles : handles[h] # None => handles[h] \in 1..Launches /\ Chosen(handles[h])
    BY <1>1, <1>4 DEF HandlesInv, Chosen, Starting
  <2>2. \A g, h \in Handles : handles[g] # None /\ handles[h] # None => handles[g] = handles[h]
    BY <1>1, <2>1 DEF ChosenInv
  <2>3. \A m \in servers : \A h \in Handles : handles[h] = m
    BY <1>1, <1>4 DEF HandlesInv
  <2>4. \A m \in servers : \A s \in Services : Found(m, s)
    BY <1>1, <1>4 DEF ServicesInv, Published
  <2> QED BY <2>2, <2>3, <2>4 DEF ScreensSeeOneNode, Found
<1> QED
  BY <1>2, <1>3, <1>5, <1>6

\* Every variable of the app keeps its type.
THEOREM AppTypeCorrect == Spec => []TypeOK
BY AppInvAlways, AppInvIsEnough, PTL

\* While the app is open and one at a time sets the mode, the server works in the mode
\* the settings show.
THEOREM SavedModeCorrect == Spec => []SavedModeIsInForce
BY AppInvAlways, AppInvIsEnough, PTL

\* However launches overlap and fail, the screens find the handles of one server, and of
\* its credit what it has opened itself or another launch has opened anew.
THEOREM ScreensCorrect == Spec => []ScreensSeeOneNode
BY AppInvAlways, AppInvIsEnough, PTL

\* When the screen shows the VPN as off, no interface takes the traffic but one whose
\* start and stop missed each other, and the tunnel of whatever interface is up can be
\* cancelled.
THEOREM OffCorrect == Spec => []OffIsOff
BY AppInvAlways, AppInvIsEnough, PTL

-----------------------------------------------------------------------------
(* The mutexes.                                                            *)

\* x is before y.
Ahead(s, x, y) == \E i, j \in DOMAIN s : i < j /\ s[i] = x /\ s[j] = y

Unique(s) == \A i, j \in DOMAIN s : s[i] = s[j] => i = j

\* A call in state x has asked for mutex l, or holds it.
AskedFor(x, l, sh, en) ==
  \/ /\ l = "shared"
     /\ \/ x.op \in {"start", "activate", "analyze"}
        \/ x.op = "connect" /\ x.at = "shared"
  \/ /\ l = "engine"
     /\ \/ x.op \in {"phone", "code", "password", "disconnect", "query", "fetch", "record"}
        \/ x.op = "connect" /\ x.at # "shared"
  \/ x.op \in {"activate", "analyze"} /\ x.at = "infer" /\ l = sh
  \/ x.op = "consult" /\ l = x.ai
  \/ x.op = "fetch" /\ x.at = "infer" /\ l = en.ai

\* The model is asked by who keeps the mutex it has taken before.
KeepsTheFirst(c) ==
  /\ call[c].op \in {"activate", "analyze"} /\ call[c].at = "infer" =>
       Holds(c, "shared") /\ shared # Nothing
  /\ call[c].op = "fetch" /\ call[c].at = "infer" =>
       Holds(c, "engine") /\ engine # NoEngine

LockInv ==
  /\ \A l \in Locks : Unique(queue[l])
  /\ \A l \in Locks, c \in Callers : On(queue[l], c) <=> AskedFor(call[c], l, shared, engine)
  /\ \A c \in Callers : KeepsTheFirst(c)

-----------------------------------------------------------------------------
(* The screens.                                                            *)

Doing(c, op) == call[c].op = op
ShownDoing(c, op) == call[c].op = op /\ call[c].shown

\* Call c to connect is ahead of call d.
ConnectsBefore(c, d) ==
  \/ /\ call[c].at = "shared" /\ call[d].at = "shared"
     /\ Ahead(queue["shared"], c, d)
  \/ /\ call[c].at = "replace" /\ call[d].at = "replace"
     /\ Ahead(queue["engine"], c, d)
  \/ /\ call[c].at = "connect" /\ call[d].at = "connect"
     /\ Ahead(queue["engine"], c, d)
  \/ call[c].at \in {"replace", "connect"} /\ call[d].at = "shared"
  \/ call[c].at = "connect" /\ call[d].at = "replace"

\* While a call connects, the screen shows that there is no connection, and no
\* chat; the call of the shown screen is the last one.
ConnectInv ==
  /\ \A c \in Callers : Doing(c, "connect") => screen = "disconnected" /\ chat = "none"
  /\ \A c, d \in Callers :
       Doing(c, "connect") /\ ShownDoing(d, "connect") /\ c # d => ConnectsBefore(c, d)
  /\ \A c, d \in Callers :
       Doing(c, "connect") => ~ (call[d].op \in {"phone", "code", "password"} /\ call[d].shown)

\* One chat is loaded at a time, and none while the user is being logged out.
ChatInv ==
  /\ \A c \in Callers : ShownDoing(c, "fetch") => chat = "loading"
  /\ \A c, d \in Callers : ShownDoing(c, "fetch") /\ ShownDoing(d, "fetch") => c = d
  /\ \A d \in Callers : ShownDoing(d, "disconnect") =>
       /\ chat # "loaded"
       /\ \A c \in Callers : ShownDoing(c, "fetch") => Ahead(queue["engine"], d, c)
       /\ \A c \in Callers : ShownDoing(c, "record") => Ahead(queue["engine"], c, d)
  /\ screen = "disconnected" =>
       /\ chat # "none" /\ engine # NoEngine => ~ engine.client
       /\ chat # "loaded"
       /\ \A c \in Callers : ~ ShownDoing(c, "record")

\* What was acknowledged is in the file, in the engine and in the engine that
\* is about to replace it.
EventsInv ==
  /\ acked \subseteq store
  /\ engine # NoEngine => acked \subseteq engine.events
  /\ \A c \in Callers : Doing(c, "connect") /\ call[c].at = "replace" =>
       acked \subseteq call[c].engine.events

TokensInv ==
  /\ TokensMatchState
  /\ \A c \in Callers : Doing(c, "connect") /\ call[c].at = "replace" =>
       call[c].engine.state = "disconnected"

FeedInv == FeedTypeOK /\ LockInv /\ ConnectInv /\ ChatInv /\ EventsInv /\ TokensInv

-----------------------------------------------------------------------------
LEMMA AppendOrder ==
  ASSUME NEW S, NEW s \in Seq(S), NEW x \in S
  PROVE  /\ Append(s, x) \in Seq(S)
         /\ \A y : On(Append(s, x), y) <=> On(s, y) \/ y = x
         /\ \A y, z : Ahead(Append(s, x), y, z) <=> Ahead(s, y, z) \/ (On(s, y) /\ z = x)
         /\ Unique(s) /\ ~ On(s, x) => Unique(Append(s, x))
<1> DEFINE t == Append(s, x)
           n == Len(s)
<1>1. /\ t \in Seq(S) /\ n \in Nat /\ DOMAIN s = 1..n /\ DOMAIN t = 1..(n + 1)
      /\ \A i \in 1..n : t[i] = s[i]
      /\ t[n + 1] = x
  BY AppendedFacts
<1> HIDE DEF t, n
<1>2. \A y : On(t, y) <=> On(s, y) \/ y = x
  BY <1>1 DEF On
<1>3. ASSUME NEW y, NEW z
      PROVE  Ahead(t, y, z) <=> Ahead(s, y, z) \/ (On(s, y) /\ z = x)
  <2>1. ASSUME Ahead(t, y, z) PROVE Ahead(s, y, z) \/ (On(s, y) /\ z = x)
    <3>1. PICK i \in 1..(n + 1), j \in 1..(n + 1) : i < j /\ t[i] = y /\ t[j] = z
      BY <1>1, <2>1 DEF Ahead
    <3>2. i \in 1..n /\ s[i] = y
      BY <1>1, <3>1
    <3>3. CASE j = n + 1
      BY <1>1, <3>1, <3>2, <3>3 DEF On
    <3>4. CASE j # n + 1
      <4>1. j \in 1..n /\ s[j] = z
        BY <1>1, <3>1, <3>4
      <4> QED
        BY <1>1, <3>1, <3>2, <4>1 DEF Ahead
    <3> QED
      BY <3>3, <3>4
  <2>2. ASSUME Ahead(s, y, z) PROVE Ahead(t, y, z)
    <3>1. PICK i \in 1..n, j \in 1..n : i < j /\ s[i] = y /\ s[j] = z
      BY <1>1, <2>2 DEF Ahead
    <3>2. i \in 1..(n + 1) /\ j \in 1..(n + 1) /\ t[i] = y /\ t[j] = z
      BY <1>1, <3>1
    <3> QED
      BY <1>1, <3>1, <3>2 DEF Ahead
  <2>3. ASSUME On(s, y), z = x PROVE Ahead(t, y, z)
    <3>1. PICK i \in 1..n : s[i] = y
      BY <1>1, <2>3 DEF On
    <3>2. i \in 1..(n + 1) /\ n + 1 \in 1..(n + 1) /\ i < n + 1 /\ t[i] = y /\ t[n + 1] = z
      BY <1>1, <2>3, <3>1
    <3> QED
      BY <1>1, <3>2 DEF Ahead
  <2> QED
    BY <2>1, <2>2, <2>3
<1>4. ASSUME Unique(s), ~ On(s, x) PROVE Unique(t)
  <2> SUFFICES ASSUME NEW i \in 1..(n + 1), NEW j \in 1..(n + 1), t[i] = t[j] PROVE i = j
    BY <1>1 DEF Unique
  <2>1. CASE i \in 1..n /\ j \in 1..n
    BY <1>1, <1>4, <2>1 DEF Unique
  <2>2. CASE i = n + 1 \/ j = n + 1
    BY <1>1, <1>4, <2>2 DEF On
  <2> QED
    BY <1>1, <2>1, <2>2
<1> QED
  BY <1>1, <1>2, <1>3, <1>4 DEF t

LEMMA PopOrder ==
  ASSUME NEW S, NEW s \in Seq(S), s # <<>>, Unique(s)
  PROVE  /\ Tail(s) \in Seq(S) /\ Unique(Tail(s))
         /\ \A y : On(Tail(s), y) <=> On(s, y) /\ y # Head(s)
         /\ \A y, z : Ahead(Tail(s), y, z) <=> Ahead(s, y, z) /\ y # Head(s)
<1> DEFINE t == Tail(s)
           n == Len(s)
           h == Head(s)
<1>1. /\ t \in Seq(S) /\ n \in Nat /\ n >= 1 /\ h = s[1]
      /\ DOMAIN s = 1..n /\ DOMAIN t = 1..(n - 1)
      /\ \A i \in 1..(n - 1) : t[i] = s[i + 1]
  BY PoppedFacts
<1> HIDE DEF t, n, h
<1>2. \A i \in 1..(n - 1) : i + 1 \in 1..n /\ i + 1 # 1
  BY <1>1
<1>3. \A i \in 1..n : i # 1 => i - 1 \in 1..(n - 1) /\ t[i - 1] = s[i]
  BY <1>1
<1>4. \A i \in 1..n : s[i] = h <=> i = 1
  BY <1>1 DEF Unique
<1>5. ASSUME NEW i \in 1..(n - 1), NEW j \in 1..(n - 1), t[i] = t[j] PROVE i = j
  <2>1. i + 1 = j + 1
    BY <1>1, <1>2, <1>5 DEF Unique
  <2> QED
    BY <2>1
<1>6. \A y : On(t, y) <=> On(s, y) /\ y # h
  <2> SUFFICES ASSUME NEW y PROVE On(t, y) <=> On(s, y) /\ y # h
    OBVIOUS
  <2>1. ASSUME On(t, y) PROVE On(s, y) /\ y # h
    BY <1>1, <1>2, <1>4, <2>1 DEF On
  <2>2. ASSUME On(s, y), y # h PROVE On(t, y)
    <3>1. PICK i \in 1..n : s[i] = y
      BY <1>1, <2>2 DEF On
    <3>2. i # 1
      BY <1>1, <2>2, <3>1
    <3> QED
      BY <1>1, <1>3, <3>1, <3>2 DEF On
  <2> QED
    BY <2>1, <2>2
<1>7. ASSUME NEW y, NEW z
      PROVE  Ahead(t, y, z) <=> Ahead(s, y, z) /\ y # h
  <2>1. ASSUME Ahead(t, y, z) PROVE Ahead(s, y, z) /\ y # h
    <3>1. PICK i \in 1..(n - 1), j \in 1..(n - 1) : i < j /\ t[i] = y /\ t[j] = z
      BY <1>1, <2>1 DEF Ahead
    <3>2. i + 1 \in 1..n /\ j + 1 \in 1..n /\ i + 1 < j + 1 /\ s[i + 1] = y /\ s[j + 1] = z
      BY <1>1, <1>2, <3>1
    <3>3. y # h
      BY <1>2, <1>4, <3>1, <3>2
    <3> QED
      BY <1>1, <3>2, <3>3 DEF Ahead
  <2>2. ASSUME Ahead(s, y, z), y # h PROVE Ahead(t, y, z)
    <3>1. PICK i \in 1..n, j \in 1..n : i < j /\ s[i] = y /\ s[j] = z
      BY <1>1, <2>2 DEF Ahead
    <3>2. i # 1 /\ j # 1
      BY <1>1, <2>2, <3>1
    <3>3. i - 1 < j - 1
      BY <3>1
    <3> QED
      BY <1>1, <1>3, <3>1, <3>2, <3>3 DEF Ahead
  <2> QED
    BY <2>1, <2>2
<1> QED
  BY <1>1, <1>5, <1>6, <1>7 DEF Unique, t, h

\* Who is first has nobody ahead.
LEMMA FirstOrder ==
  ASSUME NEW S, NEW s \in Seq(S), Unique(s), NEW x
  PROVE  (s # <<>> /\ Head(s) = x) <=> On(s, x) /\ \A y \in S : ~ Ahead(s, y, x)
<1> DEFINE n == Len(s)
<1>1. CASE s = <<>>
  <2>1. \A i \in DOMAIN s : FALSE
    BY <1>1
  <2> QED
    BY <1>1, <2>1 DEF On
<1>2. CASE s # <<>>
  <2>1. n \in Nat /\ n >= 1 /\ Head(s) = s[1] /\ DOMAIN s = 1..n
    BY <1>2, PoppedFacts
  <2>2. \A i \in 1..n : s[i] \in S
    BY <2>1
  <2> HIDE DEF n
  <2>3. ASSUME s[1] = x PROVE On(s, x) /\ \A y \in S : ~ Ahead(s, y, x)
    <3>1. 1 \in 1..n
      BY <2>1
    <3>2. On(s, x)
      BY <2>1, <2>3, <3>1 DEF On
    <3>3. \A j \in 1..n : s[j] = x => j = 1
      BY <2>1, <2>3, <3>1 DEF Unique
    <3>4. \A i, j \in 1..n : i < j => s[j] # x
      BY <2>1, <3>3
    <3> QED
      BY <2>1, <3>2, <3>4 DEF Ahead
  <2>4. ASSUME On(s, x), \A y \in S : ~ Ahead(s, y, x) PROVE s[1] = x
    <3>1. PICK i \in 1..n : s[i] = x
      BY <2>1, <2>4 DEF On
    <3>2. 1 \in 1..n /\ s[1] \in S
      BY <2>1, <2>2
    <3>3. ~ (1 < i)
      BY <2>1, <2>4, <3>1, <3>2 DEF Ahead
    <3> QED
      BY <2>1, <3>1, <3>3
  <2> QED
    BY <1>2, <2>1, <2>3, <2>4
<1> QED
  BY <1>1, <1>2

-----------------------------------------------------------------------------
(* What a call can be doing.                                               *)

AnyCalls == AiCalls \cup FeedCalls

ScreenOps == {"connect", "phone", "code", "password", "disconnect", "fetch", "record"}

LEMMA CallShape ==
  ASSUME NEW x \in AiCalls \cup FeedCalls
  PROVE  /\ x.op = "idle" <=> x = Idle
         /\ x.op \in {"idle", "start", "download", "activate", "analyze", "consult", "query"}
                       \cup ScreenOps
         /\ "shown" \in DOMAIN x <=> x.op \in ScreenOps
         /\ x.op \in ScreenOps => x.shown \in BOOLEAN
         /\ x.op = "start" => x.at = "shared" /\ x.ai \in Ais
         /\ x.op \in {"download", "activate"} => x.model \in Models
         /\ x.op \in {"activate", "analyze"} => x.at \in {"shared", "infer"}
         /\ x.op = "consult" => x.at = "infer" /\ x.ai \in Ais
         /\ x.op = "connect" => x.at \in {"shared", "replace", "connect"}
         /\ x.op = "connect" /\ x.at = "replace" => x.engine \in Engines
         /\ x.op \in {"phone", "code", "password", "disconnect", "query", "record"} =>
              x.at = "engine"
         /\ x.op = "fetch" => x.at \in {"engine", "infer"}
         /\ x.op = "record" => x.event \in Events
<1>1. CASE x = Idle
  BY <1>1 DEF Idle, ScreenOps
<1>2. CASE x \in [op : {"start"}, at : {"shared"}, ai : Ais]
  BY <1>2 DEF Idle, ScreenOps
<1>3. CASE x \in [op : {"download"}, model : Models]
  BY <1>3 DEF Idle, ScreenOps
<1>4. CASE x \in [op : {"activate"}, at : {"shared", "infer"}, model : Models]
  BY <1>4 DEF Idle, ScreenOps
<1>5. CASE x \in [op : {"analyze"}, at : {"shared", "infer"}]
  BY <1>5 DEF Idle, ScreenOps
<1>6. CASE x \in [op : {"consult"}, at : {"infer"}, ai : Ais]
  BY <1>6 DEF Idle, ScreenOps
<1>7. CASE x \in [op : {"query"}, at : {"engine"}]
  BY <1>7 DEF Idle, ScreenOps
<1>8. CASE x \in [op : {"connect"}, at : {"shared", "connect"}, shown : BOOLEAN]
  BY <1>8 DEF Idle, ScreenOps
<1>9. CASE x \in [op : {"connect"}, at : {"replace"}, shown : BOOLEAN, engine : Engines]
  BY <1>9 DEF Idle, ScreenOps
<1>10. CASE x \in [op : {"phone", "code", "password", "disconnect"}, at : {"engine"}, shown : BOOLEAN]
  BY <1>10 DEF Idle, ScreenOps
<1>11. CASE x \in [op : {"fetch"}, at : {"engine", "infer"}, shown : BOOLEAN]
  BY <1>11 DEF Idle, ScreenOps
<1>12. CASE x \in [op : {"record"}, at : {"engine"}, shown : BOOLEAN, event : Events]
  BY <1>12 DEF Idle, ScreenOps
<1> QED
  BY <1>1, <1>2, <1>3, <1>4, <1>5, <1>6, <1>7, <1>8, <1>9, <1>10, <1>11, <1>12
     DEF AiCalls, FeedCalls

LEMMA CallMade ==
  /\ Idle \in AnyCalls
  /\ \A ai \in Ais : /\ [op |-> "start", at |-> "shared", ai |-> ai] \in AnyCalls
                     /\ [op |-> "consult", at |-> "infer", ai |-> ai] \in AnyCalls
  /\ \A m \in Models : /\ [op |-> "download", model |-> m] \in AnyCalls
                       /\ [op |-> "activate", at |-> "shared", model |-> m] \in AnyCalls
  /\ [op |-> "analyze", at |-> "shared"] \in AnyCalls
  /\ [op |-> "analyze", at |-> "infer"] \in AnyCalls
  /\ [op |-> "query", at |-> "engine"] \in AnyCalls
BY DEF AnyCalls, AiCalls, FeedCalls

LEMMA ScreenCallMade ==
  ASSUME NEW b \in BOOLEAN
  PROVE  /\ [op |-> "connect", at |-> "shared", shown |-> b] \in AnyCalls
         /\ [op |-> "connect", at |-> "connect", shown |-> b] \in AnyCalls
         /\ \A e \in Engines : [op |-> "connect", at |-> "replace", shown |-> b, engine |-> e] \in AnyCalls
         /\ \A op \in {"phone", "code", "password", "disconnect", "fetch"} :
              [op |-> op, at |-> "engine", shown |-> b] \in AnyCalls
         /\ \A e \in Events : [op |-> "record", at |-> "engine", shown |-> b, event |-> e] \in AnyCalls
<1>1. /\ [op |-> "connect", at |-> "shared", shown |-> b] \in AnyCalls
      /\ [op |-> "connect", at |-> "connect", shown |-> b] \in AnyCalls
  BY DEF AnyCalls, FeedCalls
<1>2. \A e \in Engines : [op |-> "connect", at |-> "replace", shown |-> b, engine |-> e] \in AnyCalls
  BY DEF AnyCalls, FeedCalls
<1>3. \A op \in {"phone", "code", "password", "disconnect", "fetch"} :
              [op |-> op, at |-> "engine", shown |-> b] \in AnyCalls
  BY DEF AnyCalls, FeedCalls
<1>4. \A e \in Events : [op |-> "record", at |-> "engine", shown |-> b, event |-> e] \in AnyCalls
  BY DEF AnyCalls, FeedCalls
<1> QED
  BY <1>1, <1>2, <1>3, <1>4

LEMMA CallGoesOn ==
  ASSUME NEW x \in AnyCalls, x.op \in {"activate", "fetch"}, NEW at \in {"engine", "infer"},
         x.op = "activate" => at = "infer"
  PROVE  /\ [x EXCEPT !.at = at] \in AnyCalls
         /\ [x EXCEPT !.at = at].op = x.op /\ [x EXCEPT !.at = at].at = at
         /\ x.op = "fetch" => [x EXCEPT !.at = at].shown = x.shown
<1>1. CASE x \in [op : {"activate"}, at : {"shared", "infer"}, model : Models]
  BY <1>1 DEF AnyCalls, AiCalls
<1>2. CASE x \in [op : {"fetch"}, at : {"engine", "infer"}, shown : BOOLEAN]
  BY <1>2 DEF AnyCalls, FeedCalls
<1> QED
  BY <1>1, <1>2 DEF AnyCalls, AiCalls, FeedCalls, Idle

LEMMA CallUnshown ==
  ASSUME NEW x \in AnyCalls, x.op \in ScreenOps
  PROVE  /\ [x EXCEPT !.shown = FALSE] \in AnyCalls
         /\ [x EXCEPT !.shown = FALSE].op = x.op
         /\ [x EXCEPT !.shown = FALSE].at = x.at
         /\ [x EXCEPT !.shown = FALSE].shown = FALSE
         /\ x.op = "connect" /\ x.at = "replace" => [x EXCEPT !.shown = FALSE].engine = x.engine
<1>1. CASE x \in [op : {"connect"}, at : {"shared", "connect"}, shown : BOOLEAN]
  BY <1>1 DEF AnyCalls, FeedCalls
<1>2. CASE x \in [op : {"connect"}, at : {"replace"}, shown : BOOLEAN, engine : Engines]
  BY <1>2 DEF AnyCalls, FeedCalls
<1>3. CASE x \in [op : {"phone", "code", "password", "disconnect"}, at : {"engine"}, shown : BOOLEAN]
  BY <1>3 DEF AnyCalls, FeedCalls
<1>4. CASE x \in [op : {"fetch"}, at : {"engine", "infer"}, shown : BOOLEAN]
  BY <1>4 DEF AnyCalls, FeedCalls
<1>5. CASE x \in [op : {"record"}, at : {"engine"}, shown : BOOLEAN, event : Events]
  BY <1>5 DEF AnyCalls, FeedCalls
<1> QED
  BY <1>1, <1>2, <1>3, <1>4, <1>5 DEF AnyCalls, AiCalls, FeedCalls, Idle, ScreenOps

-----------------------------------------------------------------------------
(* What taking and giving back a mutex does to the queues.                 *)

QueuesOK == queue \in [Locks -> Seq(Callers)] /\ \A l \in Locks : Unique(queue[l])

LEMMA HoldsOrder ==
  ASSUME QueuesOK, NEW l \in Locks, NEW c
  PROVE  Holds(c, l) <=> On(queue[l], c) /\ \A d \in Callers : ~ Ahead(queue[l], d, c)
<1>1. queue[l] \in Seq(Callers) /\ Unique(queue[l])
  BY DEF QueuesOK
<1> QED
  BY <1>1, FirstOrder DEF Holds

LEMMA LockOrder ==
  ASSUME QueuesOK, NEW c \in Callers, NEW l \in Locks, NEW x, Lock(c, l, x), ~ On(queue[l], c)
  PROVE  /\ QueuesOK'
         /\ \A k \in Locks : \A d : On(queue'[k], d) <=> On(queue[k], d) \/ (k = l /\ d = c)
         /\ \A k \in Locks : \A d, e : Ahead(queue'[k], d, e) <=>
              Ahead(queue[k], d, e) \/ (k = l /\ e = c /\ On(queue[l], d))
<1>1. queue \in [Locks -> Seq(Callers)] /\ \A k \in Locks : Unique(queue[k])
  BY DEF QueuesOK
<1>2. queue' = [queue EXCEPT ![l] = Append(queue[l], c)]
  BY DEF Lock
<1>3. /\ Append(queue[l], c) \in Seq(Callers) /\ Unique(Append(queue[l], c))
      /\ \A y : On(Append(queue[l], c), y) <=> On(queue[l], y) \/ y = c
      /\ \A y, z : Ahead(Append(queue[l], c), y, z) <=>
           Ahead(queue[l], y, z) \/ (On(queue[l], y) /\ z = c)
  BY <1>1, AppendOrder
<1>4. /\ queue' \in [Locks -> Seq(Callers)] /\ queue'[l] = Append(queue[l], c)
      /\ \A k \in Locks : k # l => queue'[k] = queue[k]
  BY <1>1, <1>2, <1>3
<1>5. QueuesOK'
  BY <1>1, <1>3, <1>4 DEF QueuesOK
<1> QED
  BY <1>3, <1>4, <1>5

LEMMA ReturnOrder ==
  ASSUME QueuesOK, NEW c \in Callers, Return(c), \A k \in Locks : On(queue[k], c) => Holds(c, k)
  PROVE  /\ QueuesOK'
         /\ \A k \in Locks : \A d : On(queue'[k], d) <=> On(queue[k], d) /\ d # c
         /\ \A k \in Locks : \A d, e : Ahead(queue'[k], d, e) <=> Ahead(queue[k], d, e) /\ d # c
<1>1. queue \in [Locks -> Seq(Callers)] /\ \A k \in Locks : Unique(queue[k])
  BY DEF QueuesOK
<1>2. ASSUME NEW k \in Locks
      PROVE  /\ queue'[k] \in Seq(Callers) /\ Unique(queue'[k])
             /\ \A d : On(queue'[k], d) <=> On(queue[k], d) /\ d # c
             /\ \A d, e : Ahead(queue'[k], d, e) <=> Ahead(queue[k], d, e) /\ d # c
  <2>1. queue'[k] = Without(queue[k], c)
    BY <1>2 DEF Return
  <2>2. CASE Holds(c, k)
    <3>1. queue[k] # <<>> /\ Head(queue[k]) = c /\ queue'[k] = Tail(queue[k])
      BY <2>1, <2>2 DEF Holds, Without
    <3> QED
      BY <1>1, <3>1, PopOrder
  <2>3. CASE ~ Holds(c, k)
    <3>1. queue'[k] = queue[k] /\ ~ On(queue[k], c)
      BY <2>1, <2>3 DEF Holds, Without
    <3>2. \A e : ~ Ahead(queue[k], c, e)
      BY <3>1 DEF Ahead, On
    <3> QED
      BY <1>1, <3>1, <3>2
  <2> QED
    BY <2>2, <2>3
<1>3. queue' \in [Locks -> Seq(Callers)]
  <2>1. queue' = [k \in Locks |-> Without(queue[k], c)]
    BY DEF Return
  <2>2. \A k \in Locks : Without(queue[k], c) \in Seq(Callers)
    BY <1>2, <2>1
  <2> QED
    BY <2>1, <2>2
<1>4. QueuesOK'
  BY <1>2, <1>3 DEF QueuesOK
<1> QED
  BY <1>2, <1>4

\* Call c has left queue k and joined queue l.
Swapped(c, k, l) ==
  /\ QueuesOK'
  /\ \A j \in Locks : \A d : On(queue'[j], d) <=>
       (On(queue[j], d) /\ (j = k => d # c)) \/ (j = l /\ d = c)
  /\ \A j \in Locks : \A d, e : Ahead(queue'[j], d, e) <=>
       \/ Ahead(queue[j], d, e) /\ (j = k => d # c)
       \/ j = l /\ e = c /\ d # c /\ On(queue[l], d)

LEMMA SwapOrder ==
  ASSUME QueuesOK, NEW c \in Callers, NEW k \in Locks, NEW l \in Locks, NEW x, Swap(c, k, l, x),
         Holds(c, k), l # k => ~ On(queue[l], c)
  PROVE  Swapped(c, k, l)
<1> DEFINE q == [queue EXCEPT ![k] = Without(queue[k], c)]
<1>1. queue \in [Locks -> Seq(Callers)] /\ \A j \in Locks : Unique(queue[j])
  BY DEF QueuesOK
<1>2. queue[k] # <<>> /\ Head(queue[k]) = c /\ Without(queue[k], c) = Tail(queue[k])
  BY DEF Holds, Without
<1>3. /\ Tail(queue[k]) \in Seq(Callers) /\ Unique(Tail(queue[k]))
      /\ \A y : On(Tail(queue[k]), y) <=> On(queue[k], y) /\ y # c
      /\ \A y, z : Ahead(Tail(queue[k]), y, z) <=> Ahead(queue[k], y, z) /\ y # c
  BY <1>1, <1>2, PopOrder
<1>4. /\ q \in [Locks -> Seq(Callers)] /\ q[k] = Tail(queue[k])
      /\ \A j \in Locks : j # k => q[j] = queue[j]
  BY <1>1, <1>2, <1>3
<1>5. queue' = [q EXCEPT ![l] = Append(q[l], c)]
  BY DEF Swap
<1> HIDE DEF q
<1>6. \A j \in Locks : Unique(q[j])
  BY <1>1, <1>3, <1>4
<1>7. \A j \in Locks : \A d : On(q[j], d) <=> On(queue[j], d) /\ (j = k => d # c)
  BY <1>3, <1>4
<1>8. \A j \in Locks : \A d, e : Ahead(q[j], d, e) <=> Ahead(queue[j], d, e) /\ (j = k => d # c)
  BY <1>3, <1>4
<1>9. q[l] \in Seq(Callers) /\ Unique(q[l]) /\ ~ On(q[l], c)
  BY <1>4, <1>6, <1>7
<1>10. /\ Append(q[l], c) \in Seq(Callers) /\ Unique(Append(q[l], c))
       /\ \A y : On(Append(q[l], c), y) <=> On(q[l], y) \/ y = c
       /\ \A y, z : Ahead(Append(q[l], c), y, z) <=>
            Ahead(q[l], y, z) \/ (On(q[l], y) /\ z = c)
  BY <1>9, AppendOrder
<1>11. /\ queue' \in [Locks -> Seq(Callers)] /\ queue'[l] = Append(q[l], c)
       /\ \A j \in Locks : j # l => queue'[j] = q[j]
  BY <1>4, <1>5, <1>10
<1>12. QueuesOK'
  BY <1>6, <1>10, <1>11 DEF QueuesOK
<1>13. \A j \in Locks : \A d : On(queue'[j], d) <=>
              (On(queue[j], d) /\ (j = k => d # c)) \/ (j = l /\ d = c)
  BY <1>7, <1>10, <1>11
<1>14. \A d : On(q[l], d) <=> On(queue[l], d) /\ d # c
  BY <1>7, <1>9
<1>15. \A j \in Locks : \A d, e : Ahead(queue'[j], d, e) <=>
              \/ Ahead(queue[j], d, e) /\ (j = k => d # c)
              \/ j = l /\ e = c /\ d # c /\ On(queue[l], d)
  BY <1>8, <1>10, <1>11, <1>14
<1> QED
  BY <1>12, <1>13, <1>15 DEF Swapped

-----------------------------------------------------------------------------
(* Whoever is in a queue has asked for the mutex.                          *)

\* Call c is the only one to move, to state x.
Moves(c, x) ==
  /\ call' \in [Callers -> AnyCalls] /\ call'[c] = x
  /\ \A d \in Callers : d # c => call'[d] = call[d]

\* The order among the other calls is not touched.
Undisturbed(c) ==
  \A k \in Locks, d, e \in Callers : d # c /\ e # c =>
    (Ahead(queue'[k], d, e) <=> Ahead(queue[k], d, e))

LEMMA OneHolds ==
  ASSUME NEW c, NEW d, NEW l, Holds(c, l), Holds(d, l)
  PROVE  c = d
BY DEF Holds

LEMMA SomeoneMoves ==
  ASSUME FeedTypeOK, LockInv, NEW c \in Callers, NEW x \in AnyCalls,
         call' = [call EXCEPT ![c] = x], QueuesOK',
         \A l \in Locks, d \in Callers : d # c =>
           /\ On(queue'[l], d) <=> On(queue[l], d)
           /\ \A e \in Callers : Ahead(queue'[l], e, d) => Ahead(queue[l], e, d),
         \A l \in Locks : On(queue'[l], c) <=> AskedFor(x, l, shared', engine'),
         KeepsTheFirst(c)',
         shared' = shared \/ Holds(c, "shared"),
         engine' = engine \/ Holds(c, "engine")
  PROVE  LockInv' /\ Moves(c, x)
<1>1. call \in [Callers -> AnyCalls] /\ queue \in [Locks -> Seq(Callers)]
  BY DEF FeedTypeOK, AiTypeOK, AnyCalls
<1>2. Moves(c, x)
  BY <1>1 DEF Moves
<1>3. QueuesOK
  BY <1>1 DEF QueuesOK, LockInv
<1>4. "shared" \in Locks /\ "engine" \in Locks
  BY DEF Locks
<1>5. ASSUME NEW d \in Callers, d # c
      PROVE  /\ \A l \in Locks : AskedFor(call[d], l, shared', engine') <=>
                                 AskedFor(call[d], l, shared, engine)
             /\ KeepsTheFirst(d)'
  <2>1. KeepsTheFirst(d) /\ call'[d] = call[d]
    BY <1>2, <1>5 DEF LockInv, Moves
  <2>2. \A l \in Locks : Holds(d, l) => Holds(d, l)'
    <3> SUFFICES ASSUME NEW l \in Locks, Holds(d, l) PROVE Holds(d, l)'
      OBVIOUS
    <3>1. On(queue[l], d) /\ \A e \in Callers : ~ Ahead(queue[l], e, d)
      BY <1>3, HoldsOrder
    <3>2. queue'[l] \in Seq(Callers) /\ Unique(queue'[l])
      BY DEF QueuesOK
    <3>3. On(queue'[l], d) /\ \A e \in Callers : ~ Ahead(queue'[l], e, d)
      BY <1>5, <3>1
    <3>4. queue'[l] # <<>> /\ Head(queue'[l]) = d
      BY <3>2, <3>3, FirstOrder
    <3> QED
      BY <3>4 DEF Holds
  <2>3. /\ Holds(d, "shared") => shared' = shared
        /\ Holds(d, "engine") => engine' = engine
    BY <1>5, OneHolds
  <2>4. KeepsTheFirst(d)'
    BY <1>4, <2>1, <2>2, <2>3 DEF KeepsTheFirst
  <2>5. \A l \in Locks : AskedFor(call[d], l, shared', engine') <=>
                         AskedFor(call[d], l, shared, engine)
    BY <2>1, <2>3 DEF KeepsTheFirst, AskedFor
  <2> QED
    BY <2>4, <2>5
<1>6. \A l \in Locks, d \in Callers :
        On(queue'[l], d) <=> AskedFor(call'[d], l, shared', engine')
  <2> SUFFICES ASSUME NEW l \in Locks, NEW d \in Callers
               PROVE  On(queue'[l], d) <=> AskedFor(call'[d], l, shared', engine')
    OBVIOUS
  <2>1. CASE d = c
    BY <1>2, <2>1 DEF Moves
  <2>2. CASE d # c
    BY <1>2, <1>5, <2>2 DEF Moves, LockInv
  <2> QED
    BY <2>1, <2>2
<1>7. \A d \in Callers : KeepsTheFirst(d)'
  BY <1>5
<1> QED
  BY <1>2, <1>6, <1>7 DEF LockInv, QueuesOK

LEMMA QueuesFromInv ==
  ASSUME FeedTypeOK, LockInv
  PROVE  QueuesOK /\ call \in [Callers -> AnyCalls]
         /\ "shared" \in Locks /\ "engine" \in Locks /\ Ais \subseteq Locks
BY DEF FeedTypeOK, AiTypeOK, LockInv, QueuesOK, AnyCalls, Locks

LEMMA LockKeeps ==
  ASSUME FeedTypeOK, LockInv, NEW c \in Callers, NEW l \in Locks, NEW x \in AnyCalls, Lock(c, l, x),
         UNCHANGED <<shared, engine>>,
         ~ AskedFor(call[c], l, shared, engine),
         \A k \in Locks : AskedFor(x, k, shared, engine) <=>
                          AskedFor(call[c], k, shared, engine) \/ k = l,
         x.op \in {"activate", "analyze"} /\ x.at = "infer" => Holds(c, "shared") /\ shared # Nothing,
         x.op = "fetch" /\ x.at = "infer" => Holds(c, "engine") /\ engine # NoEngine
  PROVE  /\ LockInv' /\ Moves(c, x) /\ queue' \in [Locks -> Seq(Callers)] /\ Undisturbed(c)
         /\ \A k \in Locks : \A d, e : Ahead(queue'[k], d, e) <=>
              Ahead(queue[k], d, e) \/ (k = l /\ e = c /\ On(queue[l], d))
<1>1. QueuesOK /\ call \in [Callers -> AnyCalls] /\ "shared" \in Locks /\ "engine" \in Locks
  BY QueuesFromInv
<1>2. ~ On(queue[l], c)
  BY DEF LockInv
<1>3. /\ QueuesOK'
      /\ \A k \in Locks : \A d : On(queue'[k], d) <=> On(queue[k], d) \/ (k = l /\ d = c)
      /\ \A k \in Locks : \A d, e : Ahead(queue'[k], d, e) <=>
              Ahead(queue[k], d, e) \/ (k = l /\ e = c /\ On(queue[l], d))
  BY <1>1, <1>2, LockOrder
<1>4. call' = [call EXCEPT ![c] = x]
  BY DEF Lock
<1>5. \A k \in Locks : k # l => queue'[k] = queue[k]
  BY <1>1 DEF Lock, QueuesOK
<1>6. KeepsTheFirst(c)'
  <2>1. call'[c] = x
    BY <1>1, <1>4
  <2>3. x.op = "fetch" /\ x.at = "infer" => l # "engine" \/ ~ Holds(c, "engine")
    BY <1>1, <1>2, HoldsOrder
  <2>4. x.op \in {"activate", "analyze"} /\ x.at = "infer" => l # "shared" \/ ~ Holds(c, "shared")
    BY <1>1, <1>2, HoldsOrder
  <2> QED
    BY <1>1, <1>5, <2>1, <2>3, <2>4 DEF KeepsTheFirst, Holds
<1>7. LockInv' /\ Moves(c, x)
  <2>1. \A k \in Locks, d \in Callers : d # c =>
           /\ On(queue'[k], d) <=> On(queue[k], d)
           /\ \A e \in Callers : Ahead(queue'[k], e, d) => Ahead(queue[k], e, d)
    BY <1>3
  <2>2. \A k \in Locks : On(queue'[k], c) <=> AskedFor(x, k, shared', engine')
    BY <1>3 DEF LockInv
  <2> QED
    BY <1>3, <1>4, <1>6, <2>1, <2>2, SomeoneMoves
<1> QED
  BY <1>3, <1>7 DEF QueuesOK, Undisturbed

LEMMA ReturnKeeps ==
  ASSUME FeedTypeOK, LockInv, NEW c \in Callers, Return(c),
         \A k \in Locks : AskedFor(call[c], k, shared, engine) => Holds(c, k),
         shared' = shared \/ Holds(c, "shared"),
         engine' = engine \/ Holds(c, "engine")
  PROVE  /\ LockInv' /\ Moves(c, Idle) /\ queue' \in [Locks -> Seq(Callers)] /\ Undisturbed(c)
         /\ \A k \in Locks : \A d, e : Ahead(queue'[k], d, e) <=> Ahead(queue[k], d, e) /\ d # c
<1>1. QueuesOK /\ call \in [Callers -> AnyCalls]
  BY QueuesFromInv
<1>2. \A k \in Locks : On(queue[k], c) => Holds(c, k)
  BY DEF LockInv
<1>3. /\ QueuesOK'
      /\ \A k \in Locks : \A d : On(queue'[k], d) <=> On(queue[k], d) /\ d # c
      /\ \A k \in Locks : \A d, e : Ahead(queue'[k], d, e) <=> Ahead(queue[k], d, e) /\ d # c
  BY <1>1, <1>2, ReturnOrder
<1>4. call' = [call EXCEPT ![c] = Idle] /\ Idle \in AnyCalls
  BY CallMade DEF Return
<1>5. \A k \in Locks : ~ AskedFor(Idle, k, shared', engine')
  BY DEF AskedFor, Idle
<1>6. KeepsTheFirst(c)'
  BY <1>1, <1>4 DEF KeepsTheFirst, Idle
<1>7. LockInv' /\ Moves(c, Idle)
  <2>1. \A k \in Locks, d \in Callers : d # c =>
           /\ On(queue'[k], d) <=> On(queue[k], d)
           /\ \A e \in Callers : Ahead(queue'[k], e, d) => Ahead(queue[k], e, d)
    BY <1>3
  <2>2. \A k \in Locks : On(queue'[k], c) <=> AskedFor(Idle, k, shared', engine')
    BY <1>3, <1>5
  <2> QED
    BY <1>3, <1>4, <1>6, <2>1, <2>2, SomeoneMoves
<1> QED
  BY <1>3, <1>7 DEF QueuesOK, Undisturbed

LEMMA SwapKeeps ==
  ASSUME FeedTypeOK, LockInv, NEW c \in Callers, NEW k \in Locks, NEW l \in Locks, NEW x \in AnyCalls,
         Swap(c, k, l, x), Holds(c, k),
         \A j \in Locks : AskedFor(call[c], j, shared, engine) <=> j = k,
         \A j \in Locks : AskedFor(x, j, shared', engine') <=> j = l,
         x.op = "connect",
         shared' = shared \/ Holds(c, "shared"),
         engine' = engine \/ Holds(c, "engine")
  PROVE  LockInv' /\ Moves(c, x) /\ queue' \in [Locks -> Seq(Callers)] /\ Swapped(c, k, l) /\ Undisturbed(c)
<1>1. QueuesOK /\ call \in [Callers -> AnyCalls]
  BY QueuesFromInv
<1>2. l # k => ~ On(queue[l], c)
  BY DEF LockInv
<1>3. Swapped(c, k, l)
  BY <1>1, <1>2, SwapOrder
<1>4. call' = [call EXCEPT ![c] = x]
  BY DEF Swap
<1>5. KeepsTheFirst(c)'
  BY <1>1, <1>4 DEF KeepsTheFirst
<1>6. LockInv' /\ Moves(c, x)
  <2>1. \A j \in Locks, d \in Callers : d # c =>
           /\ On(queue'[j], d) <=> On(queue[j], d)
           /\ \A e \in Callers : Ahead(queue'[j], e, d) => Ahead(queue[j], e, d)
    BY <1>3 DEF Swapped
  <2>2. \A j \in Locks : On(queue'[j], c) <=> AskedFor(x, j, shared', engine')
    BY <1>3 DEF LockInv, Swapped
  <2> QED
    BY <1>3, <1>4, <1>5, <2>1, <2>2, SomeoneMoves DEF Swapped
<1> QED
  BY <1>3, <1>6 DEF QueuesOK, Swapped, Undisturbed
-----------------------------------------------------------------------------
(* What a step that moves one call keeps of the rest.                      *)

NobodyElseConnects(c) == \A d \in Callers : d # c => ~ Doing(d, "connect")

LEMMA ConnectFrame ==
  ASSUME ConnectInv, NEW c \in Callers, NEW x \in AnyCalls, Moves(c, x), Undisturbed(c),
         x.op # "connect",
         x.op \in {"phone", "code", "password"} => NobodyElseConnects(c),
         NobodyElseConnects(c) \/ (screen' \in {screen, "disconnected"} /\ chat' = chat)
  PROVE  ConnectInv'
<1>1. "shared" \in Locks /\ "engine" \in Locks
  BY DEF Locks
<1>2. \A d \in Callers : Doing(d, "connect")' => d # c /\ Doing(d, "connect") /\ call'[d] = call[d]
  BY DEF Moves, Doing
<1>3. \A d \in Callers : Doing(d, "connect")' => screen' = "disconnected" /\ chat' = "none"
  BY <1>2 DEF ConnectInv, NobodyElseConnects
<1>4. ASSUME NEW d \in Callers, NEW e \in Callers,
             Doing(d, "connect")', ShownDoing(e, "connect")', d # e
      PROVE  ConnectsBefore(d, e)'
  <2>1. e # c /\ call'[e] = call[e] /\ ShownDoing(e, "connect")
    BY <1>2, <1>4 DEF Doing, ShownDoing
  <2>2. d # c /\ call'[d] = call[d] /\ Doing(d, "connect")
    BY <1>2, <1>4
  <2>3. ConnectsBefore(d, e)
    BY <1>4, <2>1, <2>2 DEF ConnectInv
  <2>4. /\ Ahead(queue'["shared"], d, e) <=> Ahead(queue["shared"], d, e)
        /\ Ahead(queue'["engine"], d, e) <=> Ahead(queue["engine"], d, e)
    BY <1>1, <2>1, <2>2 DEF Undisturbed
  <2> QED
    BY <2>1, <2>2, <2>3, <2>4 DEF ConnectsBefore
<1>5. ASSUME NEW d \in Callers, NEW e \in Callers, Doing(d, "connect")',
             call'[e].op \in {"phone", "code", "password"}, call'[e].shown
      PROVE  FALSE
  <2>1. d # c /\ Doing(d, "connect")
    BY <1>2, <1>5
  <2>2. e # c
    BY <1>5, <2>1 DEF Moves, NobodyElseConnects
  <2> QED
    BY <1>5, <2>1, <2>2 DEF ConnectInv, Moves
<1> QED
  BY <1>3, <1>4, <1>5 DEF ConnectInv

LEMMA ChatFrame ==
  ASSUME ChatInv, NEW c \in Callers, NEW x \in AnyCalls, Moves(c, x), Undisturbed(c),
         x.op \notin {"fetch", "disconnect", "record"},
         \/ chat' = chat
         \/ \A d \in Callers : d # c =>
              ~ ShownDoing(d, "fetch") /\ (ShownDoing(d, "disconnect") => chat' # "loaded"),
         screen' = "disconnected" =>
           /\ chat' # "none" /\ engine' # NoEngine => ~ engine'.client
           /\ chat' # "loaded"
           /\ \A d \in Callers : d # c => ~ ShownDoing(d, "record")
  PROVE  ChatInv'
<1>1. "engine" \in Locks
  BY DEF Locks
<1>2. \A d \in Callers, op \in {"fetch", "disconnect", "record"} :
        ShownDoing(d, op)' => d # c /\ ShownDoing(d, op)
  BY DEF Moves, ShownDoing
<1>3. \A d, e \in Callers : d # c /\ e # c =>
        (Ahead(queue'["engine"], d, e) <=> Ahead(queue["engine"], d, e))
  BY <1>1 DEF Undisturbed
<1>4. \A d \in Callers : ShownDoing(d, "fetch")' => chat' = "loading"
  BY <1>2 DEF ChatInv
<1>5. \A d, e \in Callers : ShownDoing(d, "fetch")' /\ ShownDoing(e, "fetch")' => d = e
  BY <1>2 DEF ChatInv
<1>6. ASSUME NEW d \in Callers, ShownDoing(d, "disconnect")'
      PROVE  /\ chat' # "loaded"
             /\ \A e \in Callers : ShownDoing(e, "fetch")' => Ahead(queue'["engine"], d, e)
             /\ \A e \in Callers : ShownDoing(e, "record")' => Ahead(queue'["engine"], e, d)
  BY <1>2, <1>3, <1>6 DEF ChatInv
<1>7. screen' = "disconnected" =>
       /\ chat' # "none" /\ engine' # NoEngine => ~ engine'.client
       /\ chat' # "loaded"
       /\ \A d \in Callers : ~ ShownDoing(d, "record")'
  BY <1>2
<1> QED
  BY <1>4, <1>5, <1>6, <1>7 DEF ChatInv, NoEngine

LEMMA EventsFrame ==
  ASSUME EventsInv, NEW c \in Callers, NEW x \in AnyCalls, Moves(c, x),
         x.op # "connect" \/ x.at # "replace",
         acked' \subseteq store',
         engine' # NoEngine => acked' \subseteq engine'.events,
         acked' \subseteq acked \/ NobodyElseConnects(c)
  PROVE  EventsInv'
<1>1. \A d \in Callers : Doing(d, "connect")' /\ call'[d].at = "replace" =>
        d # c /\ Doing(d, "connect") /\ call'[d] = call[d]
  BY DEF Moves, Doing
<1>2. \A d \in Callers : Doing(d, "connect")' /\ call'[d].at = "replace" =>
        acked' \subseteq call'[d].engine.events
  BY <1>1 DEF EventsInv, NobodyElseConnects
<1> QED
  BY <1>2 DEF EventsInv, NoEngine

LEMMA TokensFrame ==
  ASSUME TokensInv, NEW c \in Callers, NEW x \in AnyCalls, Moves(c, x),
         x.op # "connect" \/ x.at # "replace", TokensMatchState'
  PROVE  TokensInv'
<1>1. \A d \in Callers : Doing(d, "connect")' /\ call'[d].at = "replace" =>
        d # c /\ Doing(d, "connect") /\ call'[d] = call[d]
  BY DEF Moves, Doing
<1> QED
  BY <1>1 DEF TokensInv
-----------------------------------------------------------------------------
(* The calls that are not of these screens.                                *)

\* A call that is none of the screens' has moved, and left their state alone.
LEMMA PlainMove ==
  ASSUME FeedInv, NEW c \in Callers, NEW x \in AnyCalls, Moves(c, x), Undisturbed(c),
         x.op \notin ScreenOps, UNCHANGED feedVars
  PROVE  ConnectInv' /\ ChatInv' /\ EventsInv' /\ TokensInv'
<1>1. ConnectInv /\ ChatInv /\ EventsInv /\ TokensInv
  BY DEF FeedInv
<1>2. /\ screen' = screen /\ chat' = chat /\ engine' = engine
      /\ acked' = acked /\ store' = store
  BY DEF feedVars
<1>3. x.op \notin {"connect", "fetch", "disconnect", "record", "phone", "code", "password"}
  BY DEF ScreenOps
<1>4. ConnectInv'
  BY <1>1, <1>2, <1>3, ConnectFrame
<1>5. ChatInv'
  <2>1. screen' = "disconnected" =>
          /\ chat # "none" /\ engine' # NoEngine => ~ engine'.client
          /\ chat # "loaded"
          /\ \A d \in Callers : d # c => ~ ShownDoing(d, "record")
    BY <1>1, <1>2 DEF ChatInv
  <2> QED
    BY <1>1, <1>2, <1>3, <2>1, ChatFrame
<1>6. EventsInv'
  <2>1. /\ acked' \subseteq store'
        /\ engine' # NoEngine => acked' \subseteq engine'.events
    BY <1>1, <1>2 DEF EventsInv
  <2> QED
    BY <1>1, <1>2, <1>3, <2>1, EventsFrame
<1>7. TokensInv'
  <2>1. TokensMatchState'
    BY <1>1, <1>2 DEF TokensInv, TokensMatchState, NoEngine
  <2> QED
    BY <1>1, <1>3, <2>1, TokensFrame
<1> QED
  BY <1>4, <1>5, <1>6, <1>7

LEMMA IdleAsksNothing == \A k, sh, en : ~ AskedFor(Idle, k, sh, en)
BY DEF AskedFor, Idle

\* A call that was idle asks for its first mutex.
LEMMA FirstLock ==
  ASSUME FeedTypeOK, LockInv, NEW c \in Callers, NEW l \in Locks, NEW x \in AnyCalls,
         call[c] = Idle, Lock(c, l, x), UNCHANGED <<shared, engine>>,
         \A k \in Locks : AskedFor(x, k, shared, engine) <=> k = l,
         x.op \in {"activate", "analyze", "fetch"} => x.at # "infer"
  PROVE  /\ LockInv' /\ Moves(c, x) /\ queue' \in [Locks -> Seq(Callers)] /\ Undisturbed(c)
         /\ \A k \in Locks : \A d, e : Ahead(queue'[k], d, e) <=>
              Ahead(queue[k], d, e) \/ (k = l /\ e = c /\ On(queue[l], d))
<1>1. \A k : ~ AskedFor(call[c], k, shared, engine)
  BY IdleAsksNothing
<1>2. \A k \in Locks : AskedFor(x, k, shared, engine) <=>
                       AskedFor(call[c], k, shared, engine) \/ k = l
  BY <1>1
<1>3. /\ x.op \in {"activate", "analyze"} /\ x.at = "infer" => Holds(c, "shared") /\ shared # Nothing
      /\ x.op = "fetch" /\ x.at = "infer" => Holds(c, "engine") /\ engine # NoEngine
  OBVIOUS
<1>4. ~ AskedFor(call[c], l, shared, engine)
  BY <1>1
<1> QED
  BY <1>2, <1>3, <1>4, LockKeeps

\* A call that took part in no mutex goes on without one.
LEMMA NoLock ==
  ASSUME FeedTypeOK, LockInv, NEW c \in Callers, NEW x \in AnyCalls,
         call[c] = Idle, call' = [call EXCEPT ![c] = x], UNCHANGED <<shared, engine, queue>>,
         x.op = "download"
  PROVE  LockInv' /\ Moves(c, x) /\ queue' \in [Locks -> Seq(Callers)] /\ Undisturbed(c)
<1>1. QueuesOK /\ QueuesOK' /\ call \in [Callers -> AnyCalls]
  BY QueuesFromInv DEF QueuesOK
<1>2. \A l \in Locks : ~ On(queue[l], c)
  BY IdleAsksNothing DEF LockInv
<1>3. \A l \in Locks : On(queue'[l], c) <=> AskedFor(x, l, shared', engine')
  BY <1>2 DEF AskedFor
<1>4. KeepsTheFirst(c)'
  BY <1>1 DEF KeepsTheFirst
<1>5. \A l \in Locks, d \in Callers : d # c =>
           /\ On(queue'[l], d) <=> On(queue[l], d)
           /\ \A e \in Callers : Ahead(queue'[l], e, d) => Ahead(queue[l], e, d)
  OBVIOUS
<1>6. LockInv' /\ Moves(c, x)
  BY <1>1, <1>3, <1>4, <1>5, SomeoneMoves
<1> QED
  BY <1>1, <1>6 DEF QueuesOK, Undisturbed

\* One call has moved, and the mutexes are as they should be.
Stepped(c) ==
  /\ LockInv' /\ queue' \in [Locks -> Seq(Callers)] /\ Undisturbed(c)
  /\ \E x \in AnyCalls : Moves(c, x) /\ x.op \notin ScreenOps

LEMMA StepTyped ==
  ASSUME FeedTypeOK, NEW c, Stepped(c), UNCHANGED feedVars,
         shared' \in Ais \cup {Nothing},
         loaded' \in [Ais -> Models \cup {Nothing, "unmade"}],
         files' \in [Models -> {"none", "partial", "whole"}]
  PROVE  FeedTypeOK'
<1>1. call' \in [Callers -> AiCalls \cup FeedCalls]
  BY DEF Stepped, Moves, AnyCalls
<1>2. AiTypeOK'
  BY DEF Stepped, AiTypeOK
<1> QED
  BY <1>1, <1>2 DEF FeedTypeOK, feedVars

LEMMA StepKeeps ==
  ASSUME FeedInv, NEW c \in Callers, Stepped(c), UNCHANGED feedVars,
         shared' \in Ais \cup {Nothing},
         loaded' \in [Ais -> Models \cup {Nothing, "unmade"}],
         files' \in [Models -> {"none", "partial", "whole"}]
  PROVE  FeedInv'
<1>1. FeedTypeOK'
  BY StepTyped DEF FeedInv
<1>2. PICK x \in AnyCalls : Moves(c, x) /\ x.op \notin ScreenOps
  BY DEF Stepped
<1>3. ConnectInv' /\ ChatInv' /\ EventsInv' /\ TokensInv'
  BY <1>2, PlainMove DEF Stepped
<1> QED
  BY <1>1, <1>3 DEF FeedInv, Stepped

LEMMA AiBegins ==
  ASSUME FeedInv, NEW c \in Callers, UNCHANGED feedVars,
         \/ Start(c) \/ Analyze(c)
         \/ \E m \in Models : Activate(c, m)
         \/ \E ai \in Ais : Consult(c, ai)
  PROVE  Stepped(c)
<1>1. FeedTypeOK /\ LockInv
  BY DEF FeedInv
<1>2. "shared" \in Locks /\ Ais \subseteq Locks /\ engine' = engine
  BY DEF Locks, feedVars
<1>3. ASSUME NEW l \in Locks, NEW x \in AnyCalls, call[c] = Idle, Lock(c, l, x), UNCHANGED shared,
             x.op \notin ScreenOps, \A k \in Locks : AskedFor(x, k, shared, engine) <=> k = l,
             x.op \in {"activate", "analyze", "fetch"} => x.at # "infer"
      PROVE  Stepped(c)
  BY <1>1, <1>2, <1>3, FirstLock DEF Stepped
<1>4. CASE Start(c)
  <2>1. PICK ai \in Ais : Lock(c, "shared", [op |-> "start", at |-> "shared", ai |-> ai])
    BY <1>4 DEF Start
  <2> DEFINE x == [op |-> "start", at |-> "shared", ai |-> ai]
  <2>2. x \in AnyCalls
    BY CallMade
  <2>3. \A k \in Locks : AskedFor(x, k, shared, engine) <=> k = "shared"
    BY DEF AskedFor
  <2>4. x.op \notin ScreenOps
    BY DEF ScreenOps
  <2>5. call[c] = Idle /\ UNCHANGED shared
    BY <1>4 DEF Start
  <2> QED
    BY <1>2, <1>3, <2>1, <2>2, <2>3, <2>4, <2>5
<1>5. CASE Analyze(c)
  <2> DEFINE x == [op |-> "analyze", at |-> "shared"]
  <2>1. call[c] = Idle /\ UNCHANGED shared /\ Lock(c, "shared", x)
    BY <1>5 DEF Analyze
  <2>2. x \in AnyCalls
    BY CallMade
  <2>3. \A k \in Locks : AskedFor(x, k, shared, engine) <=> k = "shared"
    BY DEF AskedFor
  <2>4. x.op \notin ScreenOps
    BY DEF ScreenOps
  <2> QED
    BY <1>2, <1>3, <2>1, <2>2, <2>3, <2>4
<1>6. ASSUME NEW m \in Models, Activate(c, m) PROVE Stepped(c)
  <2> DEFINE x == [op |-> "activate", at |-> "shared", model |-> m]
  <2>1. call[c] = Idle /\ UNCHANGED shared /\ Lock(c, "shared", x)
    BY <1>6 DEF Activate
  <2>2. x \in AnyCalls
    BY CallMade
  <2>3. \A k \in Locks : AskedFor(x, k, shared, engine) <=> k = "shared"
    BY DEF AskedFor
  <2>4. x.op \notin ScreenOps
    BY DEF ScreenOps
  <2> QED
    BY <1>2, <1>3, <2>1, <2>2, <2>3, <2>4
<1>7. ASSUME NEW ai \in Ais, Consult(c, ai) PROVE Stepped(c)
  <2> DEFINE x == [op |-> "consult", at |-> "infer", ai |-> ai]
  <2>1. call[c] = Idle /\ UNCHANGED shared /\ Lock(c, ai, x)
    BY <1>7 DEF Consult
  <2>2. x \in AnyCalls
    BY CallMade
  <2>3. \A k \in Locks : AskedFor(x, k, shared, engine) <=> k = ai
    BY DEF AskedFor
  <2>4. x.op \notin ScreenOps
    BY DEF ScreenOps
  <2> QED
    BY <1>2, <1>3, <2>1, <2>2, <2>3, <2>4
<1> QED
  BY <1>4, <1>5, <1>6, <1>7

LEMMA AiEnds ==
  ASSUME FeedInv, NEW c \in Callers, UNCHANGED feedVars, Return(c),
         \/ Publish(c) \/ EndDownload(c) \/ LoadModel(c) \/ InstallModel(c)
         \/ AskModel(c) \/ Answer(c) \/ Decide(c)
  PROVE  Stepped(c)
<1>1. FeedTypeOK /\ LockInv /\ KeepsTheFirst(c)
  BY DEF FeedInv, LockInv
<1>2. engine' = engine
  BY DEF feedVars
<1>3. call[c] \in AnyCalls /\ AiAssumption
  BY <1>1, AiAssumption, QueuesFromInv
<1>4. shared' = shared \/ Holds(c, "shared")
  BY DEF Publish, EndDownload, LoadModel, InstallModel, AskModel, Answer, Decide, Runs
<1>5. \A k \in Locks : AskedFor(call[c], k, shared, engine) => Holds(c, k)
  <2>1. CASE Publish(c)
    BY <2>1 DEF Publish, Runs, AskedFor
  <2>2. CASE EndDownload(c)
    BY <2>2 DEF EndDownload, AskedFor
  <2>3. CASE LoadModel(c)
    BY <2>3 DEF LoadModel, Runs, AskedFor
  <2>4. CASE InstallModel(c)
    BY <1>1, <2>4 DEF InstallModel, Runs, AskedFor, KeepsTheFirst
  <2>5. CASE AskModel(c)
    BY <2>5 DEF AskModel, Runs, AskedFor
  <2>6. CASE Answer(c)
    BY <1>1, <2>6 DEF Answer, Runs, AskedFor, KeepsTheFirst
  <2>7. CASE Decide(c)
    BY <2>7 DEF Decide, AskedFor
  <2> QED
    BY <2>1, <2>2, <2>3, <2>4, <2>5, <2>6, <2>7
<1>6. /\ LockInv' /\ Moves(c, Idle) /\ queue' \in [Locks -> Seq(Callers)] /\ Undisturbed(c)
  BY <1>1, <1>2, <1>4, <1>5, ReturnKeeps
<1> QED
  BY <1>6, CallMade DEF Stepped, Idle, ScreenOps

LEMMA AiGoesOn ==
  ASSUME FeedInv, NEW c \in Callers, UNCHANGED <<shared, feedVars>>, shared # Nothing,
         NEW x \in AnyCalls, x.op = call[c].op, x.at = "infer", Lock(c, shared, x),
         Runs(c, "activate", "shared", "shared") \/ Runs(c, "analyze", "shared", "shared")
  PROVE  Stepped(c)
<1>1. FeedTypeOK /\ LockInv
  BY DEF FeedInv
<1>2. engine' = engine
  BY DEF feedVars
<1>3. shared \in Ais /\ shared # "shared" /\ shared \in Locks
  BY <1>1, AiAssumption DEF FeedTypeOK, AiTypeOK, AiAssumption, Locks
<1>4. /\ ~ AskedFor(call[c], shared, shared, engine)
      /\ x.op \in {"activate", "analyze"} /\ Holds(c, "shared")
      /\ x.op \notin ScreenOps
  BY <1>3 DEF Runs, AskedFor, ScreenOps
<1>5. \A k \in Locks : AskedFor(x, k, shared, engine) <=>
                       AskedFor(call[c], k, shared, engine) \/ k = shared
  BY <1>3, <1>4 DEF Runs, AskedFor
<1>6. x.op # "fetch"
  BY <1>4
<1>7. /\ LockInv' /\ Moves(c, x) /\ queue' \in [Locks -> Seq(Callers)] /\ Undisturbed(c)
  BY <1>1, <1>2, <1>3, <1>4, <1>5, <1>6, LockKeeps
<1> QED
  BY <1>4, <1>7 DEF Stepped

LEMMA DownloadStepped ==
  ASSUME FeedInv, NEW c \in Callers, UNCHANGED feedVars, NEW m \in Models, Download(c, m)
  PROVE  Stepped(c)
<1> DEFINE x == [op |-> "download", model |-> m]
<1>1. FeedTypeOK /\ LockInv /\ engine' = engine
  BY DEF FeedInv, feedVars
<1>2. x \in AnyCalls /\ x.op = "download" /\ x.op \notin ScreenOps
  BY CallMade DEF ScreenOps
<1>3. call[c] = Idle /\ call' = [call EXCEPT ![c] = x] /\ UNCHANGED <<shared, queue>>
  BY DEF Download
<1> HIDE DEF x
<1>4. LockInv' /\ Moves(c, x) /\ queue' \in [Locks -> Seq(Callers)] /\ Undisturbed(c)
  BY <1>1, <1>2, <1>3, NoLock
<1> QED
  BY <1>2, <1>4 DEF Stepped

LEMMA AiStepKeeps ==
  ASSUME FeedInv, AiStep, UNCHANGED feedVars
  PROVE  FeedInv'
<1>1. AiTypeOK /\ call \in [Callers -> AnyCalls]
  BY DEF FeedInv, FeedTypeOK, AnyCalls
<1> DEFINE Typed == /\ shared' \in Ais \cup {Nothing}
                    /\ loaded' \in [Ais -> Models \cup {Nothing, "unmade"}]
                    /\ files' \in [Models -> {"none", "partial", "whole"}]
<1>2. ASSUME NEW c \in Callers, UNCHANGED <<shared, loaded, files>> PROVE Typed
  BY <1>1, <1>2 DEF AiTypeOK
<1>3. ASSUME NEW c \in Callers, Stepped(c), Typed PROVE FeedInv'
  BY <1>3, StepKeeps
<1>4. ASSUME NEW c \in Callers, Start(c) PROVE FeedInv'
  <2>1. Stepped(c)
    BY <1>4, AiBegins
  <2>2. Typed
    BY <1>1, <1>4 DEF Start, AiTypeOK
  <2> QED
    BY <1>3, <2>1, <2>2
<1>5. ASSUME NEW c \in Callers, Publish(c) PROVE FeedInv'
  <2>1. Stepped(c)
    BY <1>5, AiEnds DEF Publish
  <2>2. call[c].ai \in Ais
    BY <1>1, <1>5, CallShape DEF Publish, Runs, AnyCalls
  <2>3. Typed
    BY <1>1, <1>5, <2>2 DEF Publish, AiTypeOK
  <2> QED
    BY <1>3, <2>1, <2>3
<1>6. ASSUME NEW c \in Callers, NEW m \in Models, Download(c, m) PROVE FeedInv'
  <2>1. Stepped(c)
    BY <1>6, DownloadStepped
  <2>2. Typed
    BY <1>1, <1>6 DEF Download, AiTypeOK
  <2> QED
    BY <1>3, <2>1, <2>2
<1>7. ASSUME NEW c \in Callers, NEW m \in Models, Activate(c, m) PROVE FeedInv'
  <2>1. Stepped(c)
    BY <1>7, AiBegins
  <2>2. Typed
    BY <1>2, <1>7 DEF Activate
  <2> QED
    BY <1>3, <2>1, <2>2
<1>8. ASSUME NEW c \in Callers, EndDownload(c) PROVE FeedInv'
  <2>1. Stepped(c)
    BY <1>8, AiEnds DEF EndDownload
  <2>2. call[c].model \in Models
    BY <1>1, <1>8, CallShape DEF EndDownload, AnyCalls
  <2>3. Typed
    BY <1>1, <1>8, <2>2 DEF EndDownload, AiTypeOK
  <2> QED
    BY <1>3, <2>1, <2>3
<1>9. ASSUME NEW c \in Callers, LoadModel(c) PROVE FeedInv'
  <2>1. Typed
    BY <1>2, <1>9 DEF LoadModel
  <2>2. CASE Return(c)
    BY <1>3, <1>9, <2>1, <2>2, AiEnds
  <2>3. CASE ~ Return(c)
    <3>1. /\ shared # Nothing /\ Runs(c, "activate", "shared", "shared") /\ UNCHANGED shared
          /\ Lock(c, shared, [call[c] EXCEPT !.at = "infer"])
      BY <1>9, <2>3 DEF LoadModel
    <3>2. call[c] \in AnyCalls /\ call[c].op = "activate"
      BY <1>1, <3>1 DEF Runs
    <3>3. /\ [call[c] EXCEPT !.at = "infer"] \in AnyCalls
          /\ [call[c] EXCEPT !.at = "infer"].op = call[c].op
          /\ [call[c] EXCEPT !.at = "infer"].at = "infer"
      BY <3>2, CallGoesOn
    <3>4. Stepped(c)
      BY <3>1, <3>3, AiGoesOn
    <3> QED
      BY <1>3, <2>1, <3>4
  <2> QED
    BY <2>2, <2>3
<1>10. ASSUME NEW c \in Callers, InstallModel(c) PROVE FeedInv'
  <2>1. Stepped(c)
    BY <1>10, AiEnds DEF InstallModel
  <2>2. call[c].model \in Models
    BY <1>1, <1>10, CallShape DEF InstallModel, Runs, AnyCalls
  <2>3. Typed
    BY <1>1, <1>10, <2>2 DEF InstallModel, AiTypeOK
  <2> QED
    BY <1>3, <2>1, <2>3
<1>11. ASSUME NEW c \in Callers, Analyze(c) PROVE FeedInv'
  <2>1. Stepped(c)
    BY <1>11, AiBegins
  <2>2. Typed
    BY <1>2, <1>11 DEF Analyze
  <2> QED
    BY <1>3, <2>1, <2>2
<1>12. ASSUME NEW c \in Callers, AskModel(c) PROVE FeedInv'
  <2>1. Typed
    BY <1>2, <1>12 DEF AskModel
  <2>2. CASE Return(c)
    BY <1>3, <1>12, <2>1, <2>2, AiEnds
  <2>3. CASE ~ Return(c)
    <3>1. /\ shared # Nothing /\ Runs(c, "analyze", "shared", "shared") /\ UNCHANGED shared
          /\ Lock(c, shared, [op |-> "analyze", at |-> "infer"])
      BY <1>12, <2>3 DEF AskModel
    <3>2. [op |-> "analyze", at |-> "infer"] \in AnyCalls /\ call[c].op = "analyze"
      BY <3>1, CallMade DEF Runs
    <3>3. Stepped(c)
      BY <3>1, <3>2, AiGoesOn
    <3> QED
      BY <1>3, <2>1, <3>3
  <2> QED
    BY <2>2, <2>3
<1>13. ASSUME NEW c \in Callers, Answer(c) PROVE FeedInv'
  <2>1. Stepped(c)
    BY <1>13, AiEnds DEF Answer
  <2>2. Typed
    BY <1>2, <1>13 DEF Answer
  <2> QED
    BY <1>3, <2>1, <2>2
<1>14. ASSUME NEW c \in Callers, NEW ai \in Ais, Consult(c, ai) PROVE FeedInv'
  <2>1. Stepped(c)
    BY <1>14, AiBegins
  <2>2. Typed
    BY <1>2, <1>14 DEF Consult
  <2> QED
    BY <1>3, <2>1, <2>2
<1>15. ASSUME NEW c \in Callers, Decide(c) PROVE FeedInv'
  <2>1. Stepped(c)
    BY <1>15, AiEnds DEF Decide
  <2>2. Typed
    BY <1>2, <1>15 DEF Decide
  <2> QED
    BY <1>3, <2>1, <2>2
<1> HIDE DEF Typed
<1> QED
  BY <1>4, <1>5, <1>6, <1>7, <1>8, <1>9, <1>10, <1>11, <1>12, <1>13, <1>14, <1>15 DEF AiStep
-----------------------------------------------------------------------------
(* Connecting.                                                             *)

LEMMA ShownMeans ==
  ASSUME FeedTypeOK, NEW c \in Callers, call[c].op \in ScreenOps
  PROVE  (Shown(c) <=> call[c].shown) /\ call[c].shown \in BOOLEAN /\ Shown(c) \in BOOLEAN
<1>1. call[c] \in AiCalls \cup FeedCalls
  BY DEF FeedTypeOK
<1> QED
  BY <1>1, CallShape DEF Shown

LEMMA FeedTyped ==
  ASSUME FeedTypeOK, NEW c, NEW x, Moves(c, x), queue' \in [Locks -> Seq(Callers)],
         UNCHANGED <<shared, loaded, files>>, engine' \in Engines \cup {NoEngine},
         session' \in BOOLEAN, store' \subseteq Events, acked' \subseteq Events,
         screen' \in AuthStates, chat' \in {"none", "loading", "loaded", "failed"}
  PROVE  FeedTypeOK'
<1>1. call' \in [Callers -> AiCalls \cup FeedCalls]
  BY DEF Moves, AnyCalls
<1>2. AiTypeOK'
  BY DEF FeedTypeOK, AiTypeOK
<1> QED
  BY <1>1, <1>2 DEF FeedTypeOK

LEMMA FeedReturns ==
  ASSUME FeedTypeOK, LockInv, NEW c \in Callers, NEW op, NEW at, NEW l \in {"shared", "engine"},
         Runs(c, op, at, l), Return(c), op \in ScreenOps \cup {"query"}, at # "infer",
         l = "shared" <=> op = "connect" /\ at = "shared",
         shared' = shared, engine' = engine \/ l = "engine"
  PROVE  LockInv' /\ Moves(c, Idle) /\ queue' \in [Locks -> Seq(Callers)] /\ Undisturbed(c)
<1>1. \A k \in Locks : AskedFor(call[c], k, shared, engine) => k = l
  BY DEF AskedFor, Runs, ScreenOps
<1>2. Holds(c, l)
  BY DEF Runs
<1> QED
  BY <1>1, <1>2, ReturnKeeps

\* A call that connects has moved.
LEMMA ConnectMoves ==
  ASSUME ConnectInv, NEW c \in Callers, NEW x \in AnyCalls, Moves(c, x), Undisturbed(c),
         x.op = "connect", screen' = "disconnected", chat' = "none",
         \A d \in Callers : d # c =>
           /\ ~ (call[d].op \in {"phone", "code", "password"} /\ call[d].shown)
           /\ Doing(d, "connect") /\ x.shown => ConnectsBefore(d, c)'
           /\ ShownDoing(d, "connect") => ConnectsBefore(c, d)'
  PROVE  ConnectInv'
<1>1. "shared" \in Locks /\ "engine" \in Locks
  BY DEF Locks
<1>2. call'[c] = x /\ \A d \in Callers : d # c => call'[d] = call[d]
  BY DEF Moves
<1>3. ASSUME NEW d \in Callers, NEW e \in Callers,
             Doing(d, "connect")', ShownDoing(e, "connect")', d # e
      PROVE  ConnectsBefore(d, e)'
  <2>1. CASE d = c
    BY <1>2, <1>3, <2>1 DEF ShownDoing
  <2>2. CASE e = c
    BY <1>2, <1>3, <2>2 DEF Doing, ShownDoing
  <2>3. CASE d # c /\ e # c
    <3>1. /\ call'[e] = call[e] /\ ShownDoing(e, "connect")
          /\ call'[d] = call[d] /\ Doing(d, "connect")
      BY <1>2, <1>3, <2>3 DEF Doing, ShownDoing
    <3>2. ConnectsBefore(d, e)
      BY <1>3, <3>1 DEF ConnectInv
    <3>3. /\ Ahead(queue'["shared"], d, e) <=> Ahead(queue["shared"], d, e)
          /\ Ahead(queue'["engine"], d, e) <=> Ahead(queue["engine"], d, e)
      BY <1>1, <2>3 DEF Undisturbed
    <3> QED
      BY <3>1, <3>2, <3>3 DEF ConnectsBefore
  <2> QED
    BY <2>1, <2>2, <2>3
<1>4. \A d \in Callers : ~ (call'[d].op \in {"phone", "code", "password"} /\ call'[d].shown)
  BY <1>2
<1> QED
  BY <1>3, <1>4 DEF ConnectInv

LEMMA PressConnectKeeps ==
  ASSUME FeedInv, NEW c \in Callers, PressConnect(c)
  PROVE  FeedInv'
<1> DEFINE x == [op |-> "connect", at |-> "shared", shown |-> TRUE]
<1>1. FeedTypeOK /\ LockInv /\ ConnectInv /\ ChatInv /\ EventsInv /\ TokensInv
  BY DEF FeedInv
<1>2. /\ call[c] = Idle /\ ~ Loading /\ chat = "none" /\ screen = "disconnected"
      /\ Lock(c, "shared", x) /\ UNCHANGED <<shared, loaded, files, feedVars>>
  BY DEF PressConnect, AuthView
<1>3. /\ engine' = engine /\ session' = session /\ store' = store /\ screen' = screen
      /\ chat' = chat /\ acked' = acked /\ shared' = shared
  BY <1>2 DEF feedVars
<1>4. x \in AnyCalls /\ x.op = "connect" /\ x.at = "shared" /\ x.shown
  BY ScreenCallMade
<1> HIDE DEF x
<1>5. \A k \in Locks : AskedFor(x, k, shared, engine) <=> k = "shared"
  BY <1>4 DEF AskedFor
<1>6. /\ LockInv' /\ Moves(c, x) /\ queue' \in [Locks -> Seq(Callers)] /\ Undisturbed(c)
      /\ \A k \in Locks : \A d, e : Ahead(queue'[k], d, e) <=>
           Ahead(queue[k], d, e) \/ (k = "shared" /\ e = c /\ On(queue["shared"], d))
  <2>1. "shared" \in Locks
    BY DEF Locks
  <2>2. x.op \in {"activate", "analyze", "fetch"} => x.at # "infer"
    BY <1>4
  <2>3. /\ call[c] = Idle /\ Lock(c, "shared", x) /\ UNCHANGED <<shared, engine>>
    BY <1>2, <1>3
  <2> QED
    BY <1>1, <1>4, <1>5, <2>1, <2>2, <2>3, FirstLock
<1>7. \A d \in Callers : call[d].op \in {"connect", "phone", "code", "password"} => ~ call[d].shown
  <2> SUFFICES ASSUME NEW d \in Callers, call[d].op \in {"connect", "phone", "code", "password"}
               PROVE  ~ call[d].shown
    OBVIOUS
  <2>1. ~ Shown(d)
    BY <1>2 DEF Loading, LoginOps
  <2> QED
    BY <1>1, <2>1, ShownMeans DEF ScreenOps
<1>8. ConnectInv'
  <2>1. ASSUME NEW d \in Callers, d # c, Doing(d, "connect") PROVE ConnectsBefore(d, c)'
    <3>1. call'[d] = call[d] /\ call'[c] = x /\ "shared" \in Locks /\ call[d] \in AnyCalls
      BY <1>1, <1>6, <2>1, QueuesFromInv DEF Moves
    <3>2. call[d].at \in {"shared", "replace", "connect"}
      BY <2>1, <3>1, CallShape DEF Doing, AnyCalls
    <3>3. CASE call[d].at = "shared"
      <4>1. On(queue["shared"], d)
        BY <1>1, <2>1, <3>1, <3>3 DEF LockInv, AskedFor, Doing
      <4>2. Ahead(queue'["shared"], d, c)
        BY <1>6, <3>1, <4>1
      <4> QED
        BY <1>4, <3>1, <3>3, <4>2 DEF ConnectsBefore
    <3> QED
      BY <1>4, <3>1, <3>2, <3>3 DEF ConnectsBefore
  <2>2. \A d \in Callers : d # c =>
           /\ ~ (call[d].op \in {"phone", "code", "password"} /\ call[d].shown)
           /\ Doing(d, "connect") /\ x.shown => ConnectsBefore(d, c)'
           /\ ShownDoing(d, "connect") => ConnectsBefore(c, d)'
    BY <1>7, <2>1 DEF ShownDoing
  <2>3. screen' = "disconnected" /\ chat' = "none"
    BY <1>2, <1>3
  <2> QED
    BY <1>1, <1>4, <1>6, <2>2, <2>3, ConnectMoves
<1>9. ChatInv'
  <2>1. screen' = "disconnected" =>
          /\ chat # "none" /\ engine' # NoEngine => ~ engine'.client
          /\ chat # "loaded"
          /\ \A d \in Callers : d # c => ~ ShownDoing(d, "record")
    BY <1>1, <1>3 DEF ChatInv
  <2> QED
    BY <1>1, <1>3, <1>4, <1>6, <2>1, ChatFrame
<1>10. EventsInv' /\ TokensInv'
  <2>1. acked' \subseteq store' /\ (engine' # NoEngine => acked' \subseteq engine'.events)
    BY <1>1, <1>3 DEF EventsInv
  <2>2. TokensMatchState'
    BY <1>1, <1>3 DEF TokensInv, TokensMatchState, NoEngine
  <2> QED
    BY <1>1, <1>3, <1>4, <1>6, <2>1, <2>2, EventsFrame, TokensFrame
<1>11. FeedTypeOK'
  BY <1>1, <1>2, <1>3, <1>6, FeedTyped DEF FeedTypeOK
<1> QED
  BY <1>6, <1>8, <1>9, <1>10, <1>11 DEF FeedInv

\* A call that ends with the state of the feed as it was.
LEMMA ReturnsQuietly ==
  ASSUME FeedInv, NEW c \in Callers, NEW op, NEW at, NEW l \in {"shared", "engine"},
         Runs(c, op, at, l), Return(c), op \in ScreenOps \cup {"query"}, at # "infer",
         l = "shared" <=> op = "connect" /\ at = "shared",
         UNCHANGED <<shared, loaded, files, feedVars>>
  PROVE  FeedInv'
<1>1. FeedTypeOK /\ LockInv /\ shared' = shared /\ loaded' = loaded /\ files' = files
  BY DEF FeedInv
<1>2. engine' = engine
  BY DEF feedVars
<1>3. LockInv' /\ Moves(c, Idle) /\ queue' \in [Locks -> Seq(Callers)] /\ Undisturbed(c)
  BY <1>1, <1>2, FeedReturns
<1>4. Idle \in AnyCalls /\ Idle.op \notin ScreenOps
  BY CallMade DEF Idle, ScreenOps
<1>5. Stepped(c)
  BY <1>3, <1>4 DEF Stepped
<1>6. /\ shared' \in Ais \cup {Nothing}
      /\ loaded' \in [Ais -> Models \cup {Nothing, "unmade"}]
      /\ files' \in [Models -> {"none", "partial", "whole"}]
  BY <1>1 DEF FeedTypeOK, AiTypeOK
<1> QED
  BY <1>5, <1>6, StepKeeps

LEMMA FirstInLine ==
  ASSUME FeedTypeOK, LockInv, NEW c, NEW l \in Locks, Holds(c, l)
  PROVE  \A d \in Callers : ~ Ahead(queue[l], d, c)
BY QueuesFromInv, HoldsOrder

LEMMA CreateEngineKeeps ==
  ASSUME FeedInv, NEW c \in Callers, CreateEngine(c)
  PROVE  FeedInv'
<1>1. FeedTypeOK /\ LockInv /\ ConnectInv /\ ChatInv /\ EventsInv /\ TokensInv
  BY DEF FeedInv
<1>2. Runs(c, "connect", "shared", "shared") /\ UNCHANGED <<shared, loaded, files, feedVars>>
  BY DEF CreateEngine
<1>3. CASE shared = Nothing
  <2>1. Return(c)
    BY <1>3 DEF CreateEngine
  <2> QED
    BY <1>2, <2>1, ReturnsQuietly DEF ScreenOps
<1>4. CASE shared # Nothing
  <2> DEFINE x == [op |-> "connect", at |-> "replace", shown |-> Shown(c), engine |-> NewEngine(shared)]
  <2>1. Swap(c, "shared", "engine", x)
    BY <1>4 DEF CreateEngine
  <2>2. /\ engine' = engine /\ session' = session /\ store' = store /\ screen' = screen
        /\ chat' = chat /\ acked' = acked /\ shared' = shared
    BY <1>2 DEF feedVars
  <2>3. /\ call[c].op = "connect" /\ call[c].at = "shared" /\ Holds(c, "shared")
        /\ call[c].op \in ScreenOps
    BY <1>2 DEF Runs, ScreenOps
  <2>4. (Shown(c) <=> call[c].shown) /\ Shown(c) \in BOOLEAN
    BY <1>1, <2>3, ShownMeans
  <2>5. NewEngine(shared) \in Engines
    BY <1>1, <1>4 DEF FeedTypeOK, AiTypeOK, NewEngine, Engines, AuthStates
  <2>6. x \in AnyCalls
    BY <2>4, <2>5, ScreenCallMade
  <2>7. x.op = "connect" /\ x.at = "replace" /\ (x.shown <=> call[c].shown)
        /\ x.engine = NewEngine(shared)
    BY <2>4
  <2> HIDE DEF x
  <2>8. "shared" \in Locks /\ "engine" \in Locks
    BY DEF Locks
  <2>9. LockInv' /\ Moves(c, x) /\ queue' \in [Locks -> Seq(Callers)]
        /\ Swapped(c, "shared", "engine") /\ Undisturbed(c)
    <3>1. \A j \in Locks : AskedFor(call[c], j, shared, engine) <=> j = "shared"
      BY <2>3 DEF AskedFor
    <3>2. \A j \in Locks : AskedFor(x, j, shared', engine') <=> j = "engine"
      BY <2>7 DEF AskedFor
    <3> QED
      BY <1>1, <2>1, <2>2, <2>3, <2>6, <2>7, <2>8, <3>1, <3>2, SwapKeeps
  <2>10. \A d \in Callers : ~ Ahead(queue["shared"], d, c)
    BY <1>1, <2>3, <2>8, FirstInLine
  <2>11. ConnectInv'
    <3>1. screen' = "disconnected" /\ chat' = "none"
          /\ \A d \in Callers : ~ (call[d].op \in {"phone", "code", "password"} /\ call[d].shown)
      BY <1>1, <2>2, <2>3 DEF ConnectInv, Doing
    <3>2. call'[c] = x /\ \A d \in Callers : d # c => call'[d] = call[d]
      BY <2>9 DEF Moves
    <3>3. ASSUME NEW d \in Callers, d # c, Doing(d, "connect"), x.shown
          PROVE  ConnectsBefore(d, c)'
      <4>1. ConnectsBefore(d, c)
        BY <1>1, <2>3, <2>7, <3>3 DEF ConnectInv, ShownDoing
      <4>2. call[d].at \in {"replace", "connect"}
        BY <2>3, <2>10, <4>1 DEF ConnectsBefore
      <4>3. On(queue["engine"], d)
        BY <1>1, <2>8, <3>3, <4>2 DEF LockInv, AskedFor, Doing
      <4>4. Ahead(queue'["engine"], d, c)
        BY <2>8, <2>9, <3>3, <4>3 DEF Swapped
      <4> QED
        BY <2>7, <3>2, <3>3, <4>2, <4>4 DEF ConnectsBefore
    <3>4. ASSUME NEW d \in Callers, d # c, ShownDoing(d, "connect")
          PROVE  ConnectsBefore(c, d)'
      <4>1. ConnectsBefore(c, d)
        BY <1>1, <2>3, <3>4 DEF ConnectInv, Doing
      <4>2. call[d].at = "shared"
        BY <2>3, <4>1 DEF ConnectsBefore
      <4> QED
        BY <2>7, <3>2, <3>4, <4>2 DEF ConnectsBefore
    <3> QED
      BY <1>1, <2>6, <2>7, <2>9, <3>1, <3>3, <3>4, ConnectMoves
  <2>12. ChatInv'
    <3>1. screen' = "disconnected" =>
          /\ chat # "none" /\ engine' # NoEngine => ~ engine'.client
          /\ chat # "loaded"
          /\ \A d \in Callers : d # c => ~ ShownDoing(d, "record")
      BY <1>1, <2>2 DEF ChatInv
    <3> QED
      BY <1>1, <2>2, <2>6, <2>7, <2>9, <3>1, ChatFrame
  <2>13. /\ call'[c] = x /\ NewEngine(shared).events = store
         /\ NewEngine(shared).state = "disconnected"
         /\ \A d \in Callers : d # c => call'[d] = call[d]
    BY <2>9 DEF Moves, NewEngine
  <2>14. EventsInv'
    <3>1. \A d \in Callers : Doing(d, "connect")' /\ call'[d].at = "replace" =>
             acked' \subseteq call'[d].engine.events
      BY <1>1, <2>2, <2>7, <2>13 DEF EventsInv, Doing
    <3> QED
      BY <1>1, <2>2, <3>1 DEF EventsInv, NoEngine
  <2>15. TokensInv'
    <3>1. \A d \in Callers : Doing(d, "connect")' /\ call'[d].at = "replace" =>
             call'[d].engine.state = "disconnected"
      BY <1>1, <2>7, <2>13 DEF TokensInv, Doing
    <3>2. TokensMatchState'
      BY <1>1, <2>2 DEF TokensInv, TokensMatchState, NoEngine
    <3> QED
      BY <3>1, <3>2 DEF TokensInv
  <2>16. FeedTypeOK'
    BY <1>1, <1>2, <2>2, <2>9, FeedTyped DEF FeedTypeOK
  <2> QED
    BY <2>9, <2>11, <2>12, <2>14, <2>15, <2>16 DEF FeedInv
<1> QED
  BY <1>3, <1>4

LEMMA ReplaceEngineKeeps ==
  ASSUME FeedInv, NEW c \in Callers, ReplaceEngine(c)
  PROVE  FeedInv'
<1> DEFINE x == [op |-> "connect", at |-> "connect", shown |-> Shown(c)]
<1>1. FeedTypeOK /\ LockInv /\ ConnectInv /\ ChatInv /\ EventsInv /\ TokensInv
  BY DEF FeedInv
<1>2. /\ session' = session /\ store' = store /\ screen' = screen /\ chat' = chat
      /\ acked' = acked /\ shared' = shared /\ loaded' = loaded /\ files' = files
      /\ engine' = call[c].engine /\ Swap(c, "engine", "engine", x)
  BY DEF ReplaceEngine
<1>3. /\ call[c].op = "connect" /\ call[c].at = "replace" /\ Holds(c, "engine")
      /\ call[c].op \in ScreenOps /\ call[c] \in AiCalls \cup FeedCalls
  BY <1>1 DEF ReplaceEngine, Runs, ScreenOps, FeedTypeOK
<1>4. (Shown(c) <=> call[c].shown) /\ Shown(c) \in BOOLEAN
  BY <1>1, <1>3, ShownMeans
<1>5. call[c].engine \in Engines
  BY <1>3, CallShape
<1>6. x \in AnyCalls
  BY <1>4, ScreenCallMade
<1>7. x.op = "connect" /\ x.at = "connect" /\ (x.shown <=> call[c].shown)
  BY <1>4
<1> HIDE DEF x
<1>8. "shared" \in Locks /\ "engine" \in Locks
  BY DEF Locks
<1>9. LockInv' /\ Moves(c, x) /\ queue' \in [Locks -> Seq(Callers)]
      /\ Swapped(c, "engine", "engine") /\ Undisturbed(c)
  <2>1. \A j \in Locks : AskedFor(call[c], j, shared, engine) <=> j = "engine"
    BY <1>3 DEF AskedFor
  <2>2. \A j \in Locks : AskedFor(x, j, shared', engine') <=> j = "engine"
    BY <1>7 DEF AskedFor
  <2> QED
    BY <1>1, <1>2, <1>3, <1>6, <1>7, <1>8, <2>1, <2>2, SwapKeeps
<1>10. \A d \in Callers : ~ Ahead(queue["engine"], d, c)
  BY <1>1, <1>3, <1>8, FirstInLine
<1>11. screen = "disconnected" /\ chat = "none"
       /\ \A d \in Callers : ~ (call[d].op \in {"phone", "code", "password"} /\ call[d].shown)
  BY <1>1, <1>3 DEF ConnectInv, Doing
<1>12. call'[c] = x /\ \A d \in Callers : d # c => call'[d] = call[d]
  BY <1>9 DEF Moves
<1>13. ConnectInv'
  <2>1. ASSUME NEW d \in Callers, d # c, Doing(d, "connect"), x.shown
        PROVE  ConnectsBefore(d, c)'
    <3>1. ConnectsBefore(d, c)
      BY <1>1, <1>3, <1>7, <2>1 DEF ConnectInv, ShownDoing
    <3>2. call[d].at = "connect"
      BY <1>3, <1>10, <3>1 DEF ConnectsBefore
    <3>3. On(queue["engine"], d)
      BY <1>1, <1>8, <2>1, <3>2 DEF LockInv, AskedFor, Doing
    <3>4. Ahead(queue'["engine"], d, c)
      BY <1>8, <1>9, <2>1, <3>3 DEF Swapped
    <3> QED
      BY <1>7, <1>12, <2>1, <3>2, <3>4 DEF ConnectsBefore
  <2>2. ASSUME NEW d \in Callers, d # c, ShownDoing(d, "connect")
        PROVE  ConnectsBefore(c, d)'
    <3>1. ConnectsBefore(c, d)
      BY <1>1, <1>3, <2>2 DEF ConnectInv, Doing
    <3>2. call[d].at \in {"shared", "replace"}
      BY <1>3, <3>1 DEF ConnectsBefore
    <3> QED
      BY <1>7, <1>12, <2>2, <3>2 DEF ConnectsBefore
  <2> QED
    BY <1>1, <1>2, <1>6, <1>7, <1>9, <1>11, <2>1, <2>2, ConnectMoves
<1>14. ChatInv'
  <2>1. screen' = "disconnected" =>
        /\ chat # "none" /\ engine' # NoEngine => ~ engine'.client
        /\ chat # "loaded"
        /\ \A d \in Callers : d # c => ~ ShownDoing(d, "record")
    BY <1>1, <1>11 DEF ChatInv
  <2> QED
    BY <1>1, <1>2, <1>6, <1>7, <1>9, <2>1, ChatFrame
<1>15. EventsInv'
  <2>1. acked' \subseteq store' /\ acked' \subseteq engine'.events
    BY <1>1, <1>2, <1>3 DEF EventsInv, Doing
  <2> QED
    BY <1>1, <1>2, <1>6, <1>7, <1>9, <2>1, EventsFrame
<1>16. TokensInv'
  <2>1. engine'.state = "disconnected"
    BY <1>1, <1>2, <1>3 DEF TokensInv, Doing
  <2>2. TokensMatchState'
    BY <2>1 DEF TokensMatchState
  <2> QED
    BY <1>1, <1>6, <1>7, <1>9, <2>2, TokensFrame
<1>17. FeedTypeOK'
  BY <1>1, <1>2, <1>5, <1>9, FeedTyped DEF FeedTypeOK
<1> QED
  BY <1>9, <1>13, <1>14, <1>15, <1>16, <1>17 DEF FeedInv

\* A call of these screens has returned, and left the state in order.
LEMMA ReturnsInOrder ==
  ASSUME FeedInv, NEW c \in Callers, NEW op \in ScreenOps, NEW at \in {"engine", "connect"},
         Runs(c, op, at, "engine"), Return(c), UNCHANGED <<shared, loaded, files>>,
         engine' \in Engines \cup {NoEngine}, session' \in BOOLEAN,
         store' \subseteq Events, acked' \subseteq Events, screen' \in AuthStates,
         chat' \in {"none", "loading", "loaded", "failed"},
         NobodyElseConnects(c) \/ (screen' \in {screen, "disconnected"} /\ chat' = chat),
         \/ chat' = chat
         \/ \A d \in Callers : d # c =>
              ~ ShownDoing(d, "fetch") /\ (ShownDoing(d, "disconnect") => chat' # "loaded"),
         screen' = "disconnected" =>
           /\ chat' # "none" /\ engine' # NoEngine => ~ engine'.client
           /\ chat' # "loaded"
           /\ \A d \in Callers : d # c => ~ ShownDoing(d, "record"),
         acked' \subseteq store', engine' # NoEngine => acked' \subseteq engine'.events,
         acked' \subseteq acked \/ NobodyElseConnects(c),
         TokensMatchState'
  PROVE  FeedInv'
<1>1. FeedTypeOK /\ LockInv /\ ConnectInv /\ ChatInv /\ EventsInv /\ TokensInv
  BY DEF FeedInv
<1>2. shared' = shared
  OBVIOUS
<1>3. LockInv' /\ Moves(c, Idle) /\ queue' \in [Locks -> Seq(Callers)] /\ Undisturbed(c)
  BY <1>1, <1>2, FeedReturns
<1>4. /\ Idle \in AnyCalls
      /\ Idle.op \notin {"connect", "fetch", "disconnect", "record", "phone", "code", "password"}
  BY CallMade DEF Idle
<1>5. FeedTypeOK'
  BY <1>1, <1>3, FeedTyped
<1>6. ConnectInv'
  BY <1>1, <1>3, <1>4, ConnectFrame
<1>7. ChatInv'
  BY <1>1, <1>3, <1>4, ChatFrame
<1>8. EventsInv'
  BY <1>1, <1>3, <1>4, EventsFrame
<1>9. TokensInv'
  BY <1>1, <1>3, <1>4, TokensFrame
<1> QED
  BY <1>3, <1>5, <1>6, <1>7, <1>8, <1>9 DEF FeedInv

LEMMA EngineShape ==
  ASSUME NEW e \in Engines, NEW s \in AuthStates, NEW b \in BOOLEAN
  PROVE  /\ e # NoEngine
         /\ e.ai \in Ais /\ e.client \in BOOLEAN /\ e.state \in AuthStates
         /\ e.login \in BOOLEAN /\ e.password \in BOOLEAN /\ e.events \subseteq Events
BY DEF Engines, NoEngine

LEMMA TelegramConnectKeeps ==
  ASSUME FeedInv, NEW c \in Callers, TelegramConnect(c)
  PROVE  FeedInv'
<1>1. FeedTypeOK /\ LockInv /\ ConnectInv /\ ChatInv /\ EventsInv /\ TokensInv
  BY DEF FeedInv
<1>2. /\ Runs(c, "connect", "connect", "engine") /\ Return(c)
      /\ UNCHANGED <<shared, loaded, files>> /\ store' = store /\ chat' = chat /\ acked' = acked
  BY DEF TelegramConnect
<1>3. /\ call[c].op = "connect" /\ call[c].at = "connect" /\ Holds(c, "engine")
      /\ call[c].op \in ScreenOps /\ "engine" \in Locks
  BY <1>2 DEF Runs, ScreenOps, Locks
<1>4. (Shown(c) <=> call[c].shown) /\ Shown(c) \in BOOLEAN
  BY <1>1, <1>3, ShownMeans
<1>5. screen = "disconnected" /\ chat = "none"
  BY <1>1, <1>3 DEF ConnectInv, Doing
<1>6. \A d \in Callers : ~ ShownDoing(d, "record")
  BY <1>1, <1>5 DEF ChatInv
<1>7. Shown(c) => NobodyElseConnects(c)
  <2> SUFFICES ASSUME Shown(c), NEW d \in Callers, d # c, Doing(d, "connect") PROVE FALSE
    BY DEF NobodyElseConnects
  <2>1. ConnectsBefore(d, c)
    BY <1>1, <1>3, <1>4 DEF ConnectInv, ShownDoing
  <2>2. ~ Ahead(queue["engine"], d, c)
    BY <1>1, <1>3, FirstInLine
  <2> QED
    BY <1>3, <2>1, <2>2 DEF ConnectsBefore
<1>8. CASE UNCHANGED <<engine, session, screen>>
  <2>1. TokensMatchState' /\ (engine' # NoEngine => acked' \subseteq engine'.events)
    BY <1>1, <1>2, <1>8 DEF TokensInv, TokensMatchState, NoEngine, EventsInv
  <2>2. /\ engine' \in Engines \cup {NoEngine} /\ session' \in BOOLEAN /\ store' \subseteq Events
        /\ acked' \subseteq Events /\ screen' \in AuthStates
        /\ chat' \in {"none", "loading", "loaded", "failed"} /\ acked' \subseteq store'
    BY <1>1, <1>2, <1>8 DEF FeedTypeOK, EventsInv
  <2> QED
    BY <1>2, <1>3, <1>5, <1>6, <1>8, <2>1, <2>2, ReturnsInOrder
<1>9. ASSUME NEW authorized \in {FALSE, session}, NEW s \in {"authorized", "need_phone"},
             s = IF authorized THEN "authorized" ELSE "need_phone",
             engine' = [engine EXCEPT !.client = TRUE, !.state = s],
             session' = authorized, ShowAfter(c, s)
      PROVE  FeedInv'
  <2>1. CASE engine = NoEngine
    <3>2. engine' = NoEngine
      BY <1>9, <2>1 DEF NoEngine
    <3>3. screen' \in {screen, s} /\ (screen' = screen \/ NobodyElseConnects(c))
      BY <1>7, <1>9 DEF ShowAfter
    <3>4. /\ engine' \in Engines \cup {NoEngine} /\ session' \in BOOLEAN /\ store' \subseteq Events
          /\ acked' \subseteq Events /\ screen' \in AuthStates
          /\ chat' \in {"none", "loading", "loaded", "failed"} /\ acked' \subseteq store'
      BY <1>1, <1>2, <1>9, <3>2, <3>3 DEF FeedTypeOK, EventsInv, AuthStates
    <3>5. TokensMatchState'
      BY <3>2 DEF TokensMatchState, NoEngine
    <3> QED
      BY <1>2, <1>3, <1>5, <1>6, <3>2, <3>3, <3>4, <3>5, ReturnsInOrder DEF NoEngine
  <2>2. CASE engine # NoEngine
    <3>1. engine \in Engines
      BY <1>1, <2>2 DEF FeedTypeOK
    <3>2. /\ engine' \in Engines /\ engine'.state = s /\ engine'.client
          /\ engine'.events = engine.events
      BY <1>9, <3>1 DEF Engines, AuthStates
    <3>3. screen' \in {screen, s} /\ (screen' = screen \/ NobodyElseConnects(c))
      BY <1>7, <1>9 DEF ShowAfter
    <3>4. /\ engine' \in Engines \cup {NoEngine} /\ session' \in BOOLEAN /\ store' \subseteq Events
          /\ acked' \subseteq Events /\ screen' \in AuthStates
          /\ chat' \in {"none", "loading", "loaded", "failed"} /\ acked' \subseteq store'
      BY <1>1, <1>2, <1>9, <3>2, <3>3 DEF FeedTypeOK, EventsInv, AuthStates
    <3>5. TokensMatchState'
      BY <1>9, <3>2 DEF TokensMatchState
    <3>6. acked' \subseteq engine'.events
      BY <1>1, <1>2, <2>2, <3>2 DEF EventsInv
    <3> QED
      BY <1>2, <1>3, <1>5, <1>6, <3>3, <3>4, <3>5, <3>6, ReturnsInOrder
  <2> QED
    BY <2>1, <2>2
<1> QED
  BY <1>8, <1>9 DEF TelegramConnect

-----------------------------------------------------------------------------
(* Logging in.                                                             *)

LEMMA SubmitKeeps ==
  ASSUME FeedInv, NEW c \in Callers, Submit(c)
  PROVE  FeedInv'
<1>1. FeedTypeOK /\ LockInv /\ ConnectInv /\ ChatInv /\ EventsInv /\ TokensInv
  BY DEF FeedInv
<1>2. /\ call[c] = Idle /\ screen # "disconnected"
      /\ UNCHANGED <<shared, loaded, files>> /\ engine' = engine /\ session' = session
      /\ store' = store /\ screen' = screen /\ chat' = chat /\ acked' = acked
  BY DEF Submit, feedVars
<1>3. PICK op \in {"phone", "code", "password"} :
        Lock(c, "engine", [op |-> op, at |-> "engine", shown |-> TRUE])
  BY DEF Submit, Ask
<1> DEFINE x == [op |-> op, at |-> "engine", shown |-> TRUE]
<1>4. x \in AnyCalls /\ x.op = op /\ x.at = "engine" /\ "engine" \in Locks
  BY ScreenCallMade DEF Locks
<1>5. Lock(c, "engine", x)
  BY <1>3
<1> HIDE DEF x
<1>6. \A k \in Locks : AskedFor(x, k, shared, engine) <=> k = "engine"
  BY <1>4 DEF AskedFor
<1>7. LockInv' /\ Moves(c, x) /\ queue' \in [Locks -> Seq(Callers)] /\ Undisturbed(c)
  <2>1. x.op \in {"activate", "analyze", "fetch"} => x.at # "infer"
    BY <1>4
  <2> QED
    BY <1>1, <1>2, <1>4, <1>5, <1>6, <2>1, FirstLock
<1>8. NobodyElseConnects(c)
  BY <1>1, <1>2 DEF ConnectInv, NobodyElseConnects
<1>9. ConnectInv'
  BY <1>1, <1>4, <1>7, <1>8, ConnectFrame
<1>10. ChatInv'
  BY <1>1, <1>2, <1>4, <1>7, ChatFrame
<1>11. EventsInv' /\ TokensInv'
  <2>1. acked' \subseteq store' /\ (engine' # NoEngine => acked' \subseteq engine'.events)
    BY <1>1, <1>2 DEF EventsInv
  <2>2. TokensMatchState'
    BY <1>1, <1>2 DEF TokensInv, TokensMatchState, NoEngine
  <2> QED
    BY <1>1, <1>2, <1>4, <1>7, <2>1, <2>2, EventsFrame, TokensFrame
<1>12. FeedTypeOK'
  BY <1>1, <1>2, <1>7, FeedTyped DEF FeedTypeOK
<1> QED
  BY <1>7, <1>9, <1>10, <1>11, <1>12 DEF FeedInv

\* A login call that ends with an engine as well connected as before.
LEMMA LoginStep ==
  ASSUME FeedInv, NEW c \in Callers, NEW op \in {"phone", "code", "password"},
         Runs(c, op, "engine", "engine"), Return(c),
         UNCHANGED <<shared, loaded, files, store, chat, acked>>,
         engine' \in Engines \cup {NoEngine}, session' \in BOOLEAN,
         engine' = engine \/ (/\ engine \in Engines /\ engine'.client = engine.client
                              /\ engine'.events = engine.events),
         TokensMatchState',
         screen' = screen \/ \E s \in {"need_code", "need_password", "authorized"} : ShowAfter(c, s)
  PROVE  FeedInv'
<1>1. FeedTypeOK /\ LockInv /\ ConnectInv /\ ChatInv /\ EventsInv /\ TokensInv
  BY DEF FeedInv
<1>2. call[c].op = op /\ op \in ScreenOps /\ op # "connect"
  BY DEF Runs, ScreenOps
<1>3. (Shown(c) <=> call[c].shown) /\ Shown(c) \in BOOLEAN
  BY <1>1, <1>2, ShownMeans
<1>4. Shown(c) => NobodyElseConnects(c)
  BY <1>1, <1>2, <1>3 DEF ConnectInv, NobodyElseConnects
<1>5. /\ screen' = screen \/ (NobodyElseConnects(c) /\ screen' \in {"need_code", "need_password", "authorized"})
      /\ screen' \in AuthStates
  BY <1>1, <1>4 DEF ShowAfter, FeedTypeOK, AuthStates
<1>6. screen' = "disconnected" =>
           /\ chat' # "none" /\ engine' # NoEngine => ~ engine'.client
           /\ chat' # "loaded"
           /\ \A d \in Callers : d # c => ~ ShownDoing(d, "record")
  BY <1>1, <1>5, EngineShape DEF ChatInv, AuthStates
<1>7. engine' # NoEngine => acked' \subseteq engine'.events
  BY <1>1, EngineShape DEF EventsInv, AuthStates
<1>8. /\ store' \subseteq Events /\ acked' \subseteq Events /\ acked' \subseteq store'
      /\ chat' \in {"none", "loading", "loaded", "failed"} /\ chat' = chat /\ acked' = acked
  BY <1>1 DEF FeedTypeOK, EventsInv
<1>9. UNCHANGED <<shared, loaded, files>> /\ "engine" \in {"engine", "connect"}
      /\ (NobodyElseConnects(c) \/ (screen' \in {screen, "disconnected"} /\ chat' = chat))
  BY <1>5
<1> QED
  BY <1>2, <1>5, <1>6, <1>7, <1>8, <1>9, ReturnsInOrder

LEMMA SendPhoneKeeps ==
  ASSUME FeedInv, NEW c \in Callers, SendPhone(c)
  PROVE  FeedInv'
<1>1. FeedTypeOK /\ TokensMatchState
  BY DEF FeedInv, TokensInv
<1>2. /\ Runs(c, "phone", "engine", "engine") /\ Return(c)
      /\ UNCHANGED <<shared, loaded, files, store, chat, acked>>
  BY DEF SendPhone
<1>3. CASE Refuse(engine)
  <2>1. engine' = engine /\ screen' = screen /\ engine' \in Engines \cup {NoEngine}
        /\ session' \in BOOLEAN
    BY <1>1, <1>3 DEF Refuse, FeedTypeOK
  <2>2. TokensMatchState'
    BY <1>1, <2>1 DEF TokensMatchState, NoEngine
  <2> QED
    BY <1>2, <2>1, <2>2, LoginStep
<1>4. ASSUME engine # NoEngine, engine.client,
             Enter(c, [engine EXCEPT !.login = TRUE], "need_code")
      PROVE  FeedInv'
  <2>1. engine \in Engines
    BY <1>1, <1>4 DEF FeedTypeOK
  <2>2. /\ engine' \in Engines /\ engine'.client = engine.client /\ engine'.events = engine.events
        /\ engine'.state = "need_code" /\ engine'.login
    BY <1>4, <2>1 DEF Enter, Engines, AuthStates
  <2>3. TokensMatchState'
    BY <1>4, <2>2 DEF TokensMatchState
  <2>4. session' \in BOOLEAN /\ ShowAfter(c, "need_code")
    BY <1>1, <1>4 DEF Enter, FeedTypeOK
  <2>5. \E s \in {"need_code", "need_password", "authorized"} : ShowAfter(c, s)
    BY <2>4
  <2> QED
    BY <1>2, <2>1, <2>2, <2>3, <2>4, <2>5, LoginStep
<1> QED
  BY <1>3, <1>4 DEF SendPhone

LEMMA SendCodeKeeps ==
  ASSUME FeedInv, NEW c \in Callers, SendCode(c)
  PROVE  FeedInv'
<1>1. FeedTypeOK /\ TokensMatchState
  BY DEF FeedInv, TokensInv
<1>2. /\ Runs(c, "code", "engine", "engine") /\ Return(c)
      /\ UNCHANGED <<shared, loaded, files, store, chat, acked>>
  BY DEF SendCode
<1>3. CASE Refuse(engine)
  <2>1. engine' = engine /\ screen' = screen /\ engine' \in Engines \cup {NoEngine}
        /\ session' \in BOOLEAN
    BY <1>1, <1>3 DEF Refuse, FeedTypeOK
  <2>2. TokensMatchState'
    BY <1>1, <2>1 DEF TokensMatchState, NoEngine
  <2> QED
    BY <1>2, <2>1, <2>2, LoginStep
<1>4. CASE engine # NoEngine /\ engine.client /\ engine.login
  <2> DEFINE taken == [engine EXCEPT !.login = FALSE]
  <2>1. engine \in Engines
    BY <1>1, <1>4 DEF FeedTypeOK
  <2>2. /\ taken \in Engines /\ taken.client = engine.client /\ taken.events = engine.events
    BY <2>1 DEF Engines
  <2>3. \/ Enter(c, taken, "authorized")
        \/ Enter(c, [taken EXCEPT !.password = TRUE], "need_password")
        \/ Refuse([taken EXCEPT !.state = "error"])
    BY <1>4 DEF SendCode
  <2> HIDE DEF taken
  <2>4. CASE Enter(c, taken, "authorized")
    <3>1. /\ engine' \in Engines /\ engine'.client = engine.client /\ engine'.events = engine.events
          /\ engine'.state = "authorized"
      BY <2>2, <2>4 DEF Enter, Engines, AuthStates
    <3>2. TokensMatchState'
      BY <1>4, <3>1 DEF TokensMatchState
    <3>3. session' \in BOOLEAN /\ ShowAfter(c, "authorized")
      BY <1>1, <2>4 DEF Enter, FeedTypeOK
    <3>4. \E s \in {"need_code", "need_password", "authorized"} : ShowAfter(c, s)
      BY <3>3
    <3> QED
      BY <1>2, <2>1, <3>1, <3>2, <3>3, <3>4, LoginStep
  <2>5. CASE Enter(c, [taken EXCEPT !.password = TRUE], "need_password")
    <3>1. /\ engine' \in Engines /\ engine'.client = engine.client /\ engine'.events = engine.events
          /\ engine'.state = "need_password" /\ engine'.password
      BY <2>2, <2>5 DEF Enter, Engines, AuthStates
    <3>2. TokensMatchState'
      BY <1>4, <3>1 DEF TokensMatchState
    <3>3. session' \in BOOLEAN /\ ShowAfter(c, "need_password")
      BY <1>1, <2>5 DEF Enter, FeedTypeOK
    <3>4. \E s \in {"need_code", "need_password", "authorized"} : ShowAfter(c, s)
      BY <3>3
    <3> QED
      BY <1>2, <2>1, <3>1, <3>2, <3>3, <3>4, LoginStep
  <2>6. CASE Refuse([taken EXCEPT !.state = "error"])
    <3>1. /\ engine' \in Engines /\ engine'.client = engine.client /\ engine'.events = engine.events
          /\ engine'.state = "error" /\ screen' = screen /\ session' = session
      BY <2>2, <2>6 DEF Refuse, Engines, AuthStates
    <3>2. TokensMatchState' /\ session' \in BOOLEAN
      BY <1>1, <3>1 DEF TokensMatchState, FeedTypeOK
    <3> QED
      BY <1>2, <2>1, <3>1, <3>2, LoginStep
  <2> QED
    BY <2>3, <2>4, <2>5, <2>6
<1> QED
  BY <1>3, <1>4 DEF SendCode

LEMMA SendPasswordKeeps ==
  ASSUME FeedInv, NEW c \in Callers, SendPassword(c)
  PROVE  FeedInv'
<1>1. FeedTypeOK /\ TokensMatchState
  BY DEF FeedInv, TokensInv
<1>2. /\ Runs(c, "password", "engine", "engine") /\ Return(c)
      /\ UNCHANGED <<shared, loaded, files, store, chat, acked>>
  BY DEF SendPassword
<1>3. CASE Refuse(engine)
  <2>1. engine' = engine /\ screen' = screen /\ engine' \in Engines \cup {NoEngine}
        /\ session' \in BOOLEAN
    BY <1>1, <1>3 DEF Refuse, FeedTypeOK
  <2>2. TokensMatchState'
    BY <1>1, <2>1 DEF TokensMatchState, NoEngine
  <2> QED
    BY <1>2, <2>1, <2>2, LoginStep
<1>4. CASE engine # NoEngine /\ engine.client /\ engine.password
  <2> DEFINE taken == [engine EXCEPT !.password = FALSE]
  <2>1. engine \in Engines
    BY <1>1, <1>4 DEF FeedTypeOK
  <2>2. /\ taken \in Engines /\ taken.client = engine.client /\ taken.events = engine.events
    BY <2>1 DEF Engines
  <2>3. Enter(c, taken, "authorized") \/ Refuse([taken EXCEPT !.state = "error"])
    BY <1>4 DEF SendPassword
  <2> HIDE DEF taken
  <2>4. CASE Enter(c, taken, "authorized")
    <3>1. /\ engine' \in Engines /\ engine'.client = engine.client /\ engine'.events = engine.events
          /\ engine'.state = "authorized"
      BY <2>2, <2>4 DEF Enter, Engines, AuthStates
    <3>2. TokensMatchState'
      BY <1>4, <3>1 DEF TokensMatchState
    <3>3. session' \in BOOLEAN /\ ShowAfter(c, "authorized")
      BY <1>1, <2>4 DEF Enter, FeedTypeOK
    <3>4. \E s \in {"need_code", "need_password", "authorized"} : ShowAfter(c, s)
      BY <3>3
    <3> QED
      BY <1>2, <2>1, <3>1, <3>2, <3>3, <3>4, LoginStep
  <2>5. CASE Refuse([taken EXCEPT !.state = "error"])
    <3>1. /\ engine' \in Engines /\ engine'.client = engine.client /\ engine'.events = engine.events
          /\ engine'.state = "error" /\ screen' = screen /\ session' = session
      BY <2>2, <2>5 DEF Refuse, Engines, AuthStates
    <3>2. TokensMatchState' /\ session' \in BOOLEAN
      BY <1>1, <3>1 DEF TokensMatchState, FeedTypeOK
    <3> QED
      BY <1>2, <2>1, <3>1, <3>2, LoginStep
  <2> QED
    BY <2>3, <2>4, <2>5
<1> QED
  BY <1>3, <1>4 DEF SendPassword

-----------------------------------------------------------------------------
(* Reading.                                                                *)

\* A call to read, to log out or to record is made.
LEMMA ScreenAsks ==
  ASSUME FeedInv, NEW c \in Callers, NEW x \in AnyCalls, x.op \in {"disconnect", "fetch", "record"},
         x.at = "engine", call[c] = Idle, Lock(c, "engine", x),
         UNCHANGED <<shared, loaded, files>>, engine' = engine, session' = session,
         store' = store, screen' = screen, acked' = acked,
         chat' \in {"none", "loading", "loaded", "failed"},
         screen # "disconnected" \/ chat # "none"
  PROVE  /\ FeedTypeOK' /\ LockInv' /\ ConnectInv' /\ EventsInv' /\ TokensInv'
         /\ Moves(c, x) /\ Undisturbed(c)
         /\ \A d \in Callers : On(queue["engine"], d) => Ahead(queue'["engine"], d, c)
<1>1. FeedTypeOK /\ LockInv /\ ConnectInv /\ ChatInv /\ EventsInv /\ TokensInv
  BY DEF FeedInv
<1>2. "engine" \in Locks
  BY DEF Locks
<1>3. \A k \in Locks : AskedFor(x, k, shared, engine) <=> k = "engine"
  BY DEF AskedFor
<1>4. /\ LockInv' /\ Moves(c, x) /\ queue' \in [Locks -> Seq(Callers)] /\ Undisturbed(c)
      /\ \A k \in Locks : \A d, e : Ahead(queue'[k], d, e) <=>
              Ahead(queue[k], d, e) \/ (k = "engine" /\ e = c /\ On(queue["engine"], d))
  <2>1. x.op \in {"activate", "analyze", "fetch"} => x.at # "infer"
    OBVIOUS
  <2>2. UNCHANGED <<shared, engine>>
    OBVIOUS
  <2> QED
    BY <1>1, <1>2, <1>3, <2>1, <2>2, FirstLock
<1>5. NobodyElseConnects(c)
  BY <1>1 DEF ConnectInv, NobodyElseConnects
<1>6. ConnectInv'
  BY <1>1, <1>4, <1>5, ConnectFrame
<1>7. EventsInv'
  <2>1. acked' \subseteq store' /\ (engine' # NoEngine => acked' \subseteq engine'.events)
    BY <1>1 DEF EventsInv
  <2> QED
    BY <1>1, <1>4, <2>1, EventsFrame
<1>8. TokensInv'
  <2>1. TokensMatchState'
    BY <1>1 DEF TokensInv, TokensMatchState, NoEngine
  <2> QED
    BY <1>1, <1>4, <2>1, TokensFrame
<1>9. FeedTypeOK'
  BY <1>1, <1>4, FeedTyped DEF FeedTypeOK
<1>10. \A d \in Callers : On(queue["engine"], d) => Ahead(queue'["engine"], d, c)
  BY <1>2, <1>4
<1> QED
  BY <1>4, <1>6, <1>7, <1>8, <1>9, <1>10

\* Who has asked for the engine is in its queue.
LEMMA WaitsForEngine ==
  ASSUME LockInv, NEW c \in Callers, call[c].op \in {"disconnect", "fetch", "record"}
  PROVE  On(queue["engine"], c)
<1>1. "engine" \in Locks /\ AskedFor(call[c], "engine", shared, engine)
  BY DEF Locks, AskedFor
<1> QED
  BY <1>1 DEF LockInv

LEMMA PressLogoutKeeps ==
  ASSUME FeedInv, NEW c \in Callers, PressLogout(c)
  PROVE  FeedInv'
<1> DEFINE x == [op |-> "disconnect", at |-> "engine", shown |-> TRUE]
<1>1. FeedTypeOK /\ LockInv /\ ChatInv
  BY DEF FeedInv
<1>2. /\ call[c] = Idle /\ chat = "none" /\ screen = "authorized" /\ Lock(c, "engine", x)
      /\ UNCHANGED <<shared, loaded, files>> /\ engine' = engine /\ session' = session
      /\ store' = store /\ screen' = screen /\ chat' = chat /\ acked' = acked
  BY DEF PressLogout, FeedView, Ask, feedVars
<1>3. x \in AnyCalls /\ x.op = "disconnect" /\ x.at = "engine" /\ "engine" \in Locks
  BY ScreenCallMade DEF Locks
<1> HIDE DEF x
<1>4. /\ FeedTypeOK' /\ LockInv' /\ ConnectInv' /\ EventsInv' /\ TokensInv'
      /\ Moves(c, x) /\ Undisturbed(c)
      /\ \A d \in Callers : On(queue["engine"], d) => Ahead(queue'["engine"], d, c)
  <2>1. chat' \in {"none", "loading", "loaded", "failed"} /\ screen # "disconnected"
    BY <1>2
  <2> QED
    BY <1>2, <1>3, <2>1, ScreenAsks
<1>5. call'[c] = x /\ \A d \in Callers : d # c => call'[d] = call[d]
  BY <1>4 DEF Moves
<1>6. \A d \in Callers : ~ ShownDoing(d, "fetch")'
  BY <1>1, <1>2, <1>3, <1>5 DEF ChatInv, ShownDoing
<1>7. ASSUME NEW d \in Callers, NEW e \in Callers,
             ShownDoing(d, "disconnect")', ShownDoing(e, "record")'
      PROVE  Ahead(queue'["engine"], e, d)
  <2>1. e # c /\ ShownDoing(e, "record")
    BY <1>3, <1>5, <1>7 DEF ShownDoing
  <2>2. CASE d = c
    BY <1>1, <1>4, <2>1, <2>2, WaitsForEngine DEF ShownDoing
  <2>3. CASE d # c
    <3>1. Ahead(queue["engine"], e, d)
      BY <1>1, <1>5, <1>7, <2>1, <2>3 DEF ChatInv, ShownDoing
    <3> QED
      BY <1>3, <1>4, <2>1, <2>3, <3>1 DEF Undisturbed
  <2> QED
    BY <2>2, <2>3
<1>8. ChatInv'
  BY <1>2, <1>6, <1>7 DEF ChatInv
<1> QED
  BY <1>4, <1>8 DEF FeedInv

LEMMA TelegramDisconnectKeeps ==
  ASSUME FeedInv, NEW c \in Callers, TelegramDisconnect(c)
  PROVE  FeedInv'
<1>1. FeedTypeOK /\ LockInv /\ ConnectInv /\ ChatInv /\ EventsInv /\ TokensInv
  BY DEF FeedInv
<1>2. /\ Runs(c, "disconnect", "engine", "engine") /\ Return(c)
      /\ UNCHANGED <<shared, loaded, files>> /\ session' = session /\ store' = store
      /\ chat' = chat /\ acked' = acked /\ ShowAfter(c, "disconnected")
  BY DEF TelegramDisconnect
<1>3. /\ call[c].op = "disconnect" /\ Holds(c, "engine")
      /\ call[c].op \in ScreenOps /\ "engine" \in Locks
  BY <1>2 DEF Runs, ScreenOps, Locks
<1>4. (Shown(c) <=> call[c].shown) /\ Shown(c) \in BOOLEAN
  BY <1>1, <1>3, ShownMeans
<1>5. \/ engine = NoEngine /\ engine' = NoEngine
      \/ /\ engine \in Engines /\ engine' \in Engines /\ ~ engine'.client
         /\ engine'.events = engine.events /\ engine'.state = "disconnected"
  BY <1>1 DEF TelegramDisconnect, FeedTypeOK, Engines, AuthStates
<1>6. engine' # NoEngine =>
        /\ ~ engine'.client /\ engine'.state = "disconnected" /\ acked' \subseteq engine'.events
  <2>1. CASE engine' = NoEngine
    BY <2>1
  <2>2. CASE engine' # NoEngine
    <3>1. engine \in Engines /\ engine'.events = engine.events /\ engine # NoEngine
      BY <1>5, <2>2, EngineShape DEF AuthStates
    <3> QED
      BY <1>1, <1>2, <1>5, <2>2, <3>1 DEF EventsInv
  <2> QED
    BY <2>1, <2>2
<1>7. TokensMatchState'
  BY <1>6 DEF TokensMatchState
<1>8. screen' \in {screen, "disconnected"} /\ (screen' = screen \/ Shown(c))
  BY <1>2 DEF ShowAfter
<1>9. screen' = "disconnected" =>
        chat' # "loaded" /\ \A d \in Callers : ~ ShownDoing(d, "record")
  <2>1. CASE screen = "disconnected"
    BY <1>1, <1>2, <2>1 DEF ChatInv
  <2>2. CASE screen # "disconnected" /\ screen' = "disconnected"
    <3>1. ShownDoing(c, "disconnect")
      BY <1>3, <1>4, <1>8, <2>2 DEF ShownDoing
    <3>2. \A d \in Callers : ~ Ahead(queue["engine"], d, c)
      BY <1>1, <1>3, FirstInLine
    <3> QED
      BY <1>1, <1>2, <3>1, <3>2 DEF ChatInv
  <2> QED
    BY <2>1, <2>2
<1>10. /\ engine' \in Engines \cup {NoEngine} /\ session' \in BOOLEAN /\ store' \subseteq Events
       /\ acked' \subseteq Events /\ screen' \in AuthStates /\ acked' \subseteq store'
       /\ chat' \in {"none", "loading", "loaded", "failed"}
  BY <1>1, <1>2, <1>5, <1>8 DEF FeedTypeOK, EventsInv, AuthStates
<1>11. screen' = "disconnected" =>
           /\ chat' # "none" /\ engine' # NoEngine => ~ engine'.client
           /\ chat' # "loaded"
           /\ \A d \in Callers : d # c => ~ ShownDoing(d, "record")
  BY <1>6, <1>9
<1>12. "disconnect" \in ScreenOps /\ acked' \subseteq acked
  BY <1>2 DEF ScreenOps
<1> QED
  BY <1>2, <1>6, <1>7, <1>8, <1>10, <1>11, <1>12, ReturnsInOrder

LEMMA QueryKeeps ==
  ASSUME FeedInv, NEW c \in Callers, Query(c)
  PROVE  FeedInv'
<1> DEFINE x == [op |-> "query", at |-> "engine"]
<1>1. FeedTypeOK /\ LockInv
  BY DEF FeedInv
<1>2. call[c] = Idle /\ Lock(c, "engine", x) /\ UNCHANGED <<shared, loaded, files, feedVars>>
  BY DEF Query
<1>3. x \in AnyCalls /\ x.op = "query" /\ "engine" \in Locks
  BY CallMade DEF Locks
<1> HIDE DEF x
<1>4. \A k \in Locks : AskedFor(x, k, shared, engine) <=> k = "engine"
  BY <1>3 DEF AskedFor
<1>5. LockInv' /\ Moves(c, x) /\ queue' \in [Locks -> Seq(Callers)] /\ Undisturbed(c)
  <2>1. x.op \in {"activate", "analyze", "fetch"} => x.at # "infer"
    BY <1>3
  <2>2. UNCHANGED <<shared, engine>>
    BY <1>2 DEF feedVars
  <2> QED
    BY <1>1, <1>2, <1>3, <1>4, <2>1, <2>2, FirstLock
<1>6. Stepped(c)
  BY <1>3, <1>5 DEF Stepped, ScreenOps
<1>7. /\ shared' \in Ais \cup {Nothing}
      /\ loaded' \in [Ais -> Models \cup {Nothing, "unmade"}]
      /\ files' \in [Models -> {"none", "partial", "whole"}]
  BY <1>1, <1>2 DEF FeedTypeOK, AiTypeOK
<1> QED
  BY <1>2, <1>6, <1>7, StepKeeps

LEMMA AnswerQueryKeeps ==
  ASSUME FeedInv, NEW c \in Callers, AnswerQuery(c)
  PROVE  FeedInv'
BY ReturnsQuietly DEF AnswerQuery

LEMMA LoadMessagesKeeps ==
  ASSUME FeedInv, NEW c \in Callers, LoadMessages(c)
  PROVE  FeedInv'
<1> DEFINE x == [op |-> "fetch", at |-> "engine", shown |-> TRUE]
<1>1. FeedTypeOK /\ LockInv /\ ChatInv
  BY DEF FeedInv
<1>2. /\ call[c] = Idle /\ chat' = "loading" /\ Lock(c, "engine", x)
      /\ UNCHANGED <<shared, loaded, files>> /\ engine' = engine /\ session' = session
      /\ store' = store /\ screen' = screen /\ acked' = acked
  BY DEF LoadMessages, Ask
<1>3. /\ screen # "disconnected" \/ chat # "none"
      /\ chat # "loading"
  BY DEF LoadMessages, FeedView
<1>4. x \in AnyCalls /\ x.op = "fetch" /\ x.at = "engine" /\ "engine" \in Locks
  BY ScreenCallMade DEF Locks
<1> HIDE DEF x
<1>5. /\ FeedTypeOK' /\ LockInv' /\ ConnectInv' /\ EventsInv' /\ TokensInv'
      /\ Moves(c, x) /\ Undisturbed(c)
      /\ \A d \in Callers : On(queue["engine"], d) => Ahead(queue'["engine"], d, c)
  <2>1. chat' \in {"none", "loading", "loaded", "failed"}
    BY <1>2
  <2> QED
    BY <1>2, <1>3, <1>4, <2>1, ScreenAsks
<1>6. call'[c] = x /\ \A d \in Callers : d # c => call'[d] = call[d]
  BY <1>5 DEF Moves
<1>7. \A d \in Callers : ShownDoing(d, "fetch")' => d = c
  BY <1>1, <1>3, <1>6 DEF ChatInv, ShownDoing
<1>8. ASSUME NEW d \in Callers, ShownDoing(d, "disconnect")'
      PROVE  /\ \A e \in Callers : ShownDoing(e, "fetch")' => Ahead(queue'["engine"], d, e)
             /\ \A e \in Callers : ShownDoing(e, "record")' => Ahead(queue'["engine"], e, d)
  <2>1. d # c /\ ShownDoing(d, "disconnect")
    BY <1>4, <1>6, <1>8 DEF ShownDoing
  <2>2. Ahead(queue'["engine"], d, c)
    BY <1>1, <1>5, <2>1, WaitsForEngine DEF ShownDoing
  <2>3. ASSUME NEW e \in Callers, ShownDoing(e, "record")' PROVE Ahead(queue'["engine"], e, d)
    <3>1. e # c /\ ShownDoing(e, "record")
      BY <1>4, <1>6, <2>3 DEF ShownDoing
    <3>2. Ahead(queue["engine"], e, d)
      BY <1>1, <2>1, <3>1 DEF ChatInv
    <3> QED
      BY <1>4, <1>5, <2>1, <3>1, <3>2 DEF Undisturbed
  <2> QED
    BY <1>7, <2>2, <2>3
<1>9. screen' = "disconnected" =>
        /\ chat' # "none" /\ engine' # NoEngine => ~ engine'.client
        /\ chat' # "loaded"
        /\ \A d \in Callers : ~ ShownDoing(d, "record")'
  BY <1>1, <1>2, <1>3, <1>4, <1>6 DEF ChatInv, ShownDoing
<1>10. ChatInv'
  BY <1>2, <1>7, <1>8, <1>9 DEF ChatInv, NoEngine
<1> QED
  BY <1>5, <1>10 DEF FeedInv

\* A fetch goes on, and takes or gives back the model.
LEMMA FetchMoves ==
  ASSUME FeedInv, NEW c \in Callers, NEW x \in AnyCalls, Moves(c, x), Undisturbed(c), LockInv',
         queue' \in [Locks -> Seq(Callers)], UNCHANGED <<shared, loaded, files, feedVars>>,
         call[c].op = "fetch", x.op = "fetch", x.shown = call[c].shown,
         \A d \in Callers : Ahead(queue["engine"], d, c) => Ahead(queue'["engine"], d, c)
  PROVE  FeedInv'
<1>1. FeedTypeOK /\ ConnectInv /\ ChatInv /\ EventsInv /\ TokensInv
  BY DEF FeedInv
<1>2. /\ engine' = engine /\ session' = session /\ store' = store /\ screen' = screen
      /\ chat' = chat /\ acked' = acked
  BY DEF feedVars
<1>3. "engine" \in Locks
  BY DEF Locks
<1>4. ConnectInv'
  BY <1>1, <1>2, ConnectFrame
<1>5. \A d \in Callers, op \in {"fetch", "disconnect", "record"} :
        ShownDoing(d, op)' <=> ShownDoing(d, op)
  BY DEF Moves, ShownDoing
<1>6. ASSUME NEW d \in Callers, ShownDoing(d, "disconnect")
      PROVE  /\ \A e \in Callers : ShownDoing(e, "fetch") => Ahead(queue'["engine"], d, e)
             /\ \A e \in Callers : ShownDoing(e, "record") => Ahead(queue'["engine"], e, d)
  <2>1. d # c
    BY <1>6 DEF ShownDoing
  <2>2. ASSUME NEW e \in Callers, ShownDoing(e, "fetch") PROVE Ahead(queue'["engine"], d, e)
    BY <1>1, <1>3, <1>6, <2>1, <2>2 DEF ChatInv, Undisturbed
  <2>3. ASSUME NEW e \in Callers, ShownDoing(e, "record") PROVE Ahead(queue'["engine"], e, d)
    <3>1. e # c
      BY <2>3 DEF ShownDoing
    <3> QED
      BY <1>1, <1>3, <1>6, <2>1, <2>3, <3>1 DEF ChatInv, Undisturbed
  <2> QED
    BY <2>2, <2>3
<1>7. ChatInv'
  <2>1. \A d \in Callers : ShownDoing(d, "fetch")' => chat' = "loading"
    BY <1>1, <1>2, <1>5 DEF ChatInv
  <2>2. \A d, e \in Callers : ShownDoing(d, "fetch")' /\ ShownDoing(e, "fetch")' => d = e
    BY <1>1, <1>5 DEF ChatInv
  <2>3. \A d \in Callers : ShownDoing(d, "disconnect")' =>
          /\ chat' # "loaded"
          /\ \A e \in Callers : ShownDoing(e, "fetch")' => Ahead(queue'["engine"], d, e)
          /\ \A e \in Callers : ShownDoing(e, "record")' => Ahead(queue'["engine"], e, d)
    BY <1>1, <1>2, <1>5, <1>6 DEF ChatInv
  <2>4. screen' = "disconnected" =>
          /\ chat' # "none" /\ engine' # NoEngine => ~ engine'.client
          /\ chat' # "loaded"
          /\ \A d \in Callers : ~ ShownDoing(d, "record")'
    BY <1>1, <1>2, <1>5 DEF ChatInv
  <2> QED
    BY <2>1, <2>2, <2>3, <2>4 DEF ChatInv, NoEngine
<1>8. EventsInv' /\ TokensInv'
  <2>1. acked' \subseteq store' /\ (engine' # NoEngine => acked' \subseteq engine'.events)
    BY <1>1, <1>2 DEF EventsInv
  <2>2. TokensMatchState'
    BY <1>1, <1>2 DEF TokensInv, TokensMatchState, NoEngine
  <2> QED
    BY <1>1, <1>2, <2>1, <2>2, EventsFrame, TokensFrame
<1>9. FeedTypeOK'
  BY <1>1, <1>2, FeedTyped DEF FeedTypeOK
<1> QED
  BY <1>4, <1>7, <1>8, <1>9 DEF FeedInv

LEMMA FetchKeeps ==
  ASSUME FeedInv, NEW c \in Callers, Fetch(c)
  PROVE  FeedInv'
<1>1. FeedTypeOK /\ LockInv /\ ConnectInv /\ ChatInv /\ EventsInv /\ TokensInv
  BY DEF FeedInv
<1>2. /\ Runs(c, "fetch", "engine", "engine") /\ UNCHANGED <<shared, loaded, files>>
      /\ engine' = engine /\ session' = session /\ store' = store /\ screen' = screen
      /\ acked' = acked
  BY DEF Fetch
<1>3. /\ call[c].op = "fetch" /\ call[c].at = "engine" /\ Holds(c, "engine")
      /\ call[c].op \in ScreenOps /\ "engine" \in Locks /\ call[c] \in AnyCalls
  BY <1>1, <1>2, QueuesFromInv DEF Runs, ScreenOps, Locks
<1>4. (Shown(c) <=> call[c].shown) /\ Shown(c) \in BOOLEAN
  BY <1>1, <1>3, ShownMeans
<1>5. ASSUME NEW s \in {"loaded", "failed"}, ChatAfter(c, s), Return(c),
             s = "loaded" => engine # NoEngine /\ engine.client
      PROVE  FeedInv'
  <2>1. chat' = chat \/ (Shown(c) /\ chat' = s)
    BY <1>5 DEF ChatAfter
  <2>2. \A d \in Callers : ~ Ahead(queue["engine"], d, c)
    BY <1>1, <1>3, FirstInLine
  <2>3. Shown(c) => ShownDoing(c, "fetch")
    BY <1>3, <1>4 DEF ShownDoing
  <2>4. Shown(c) => chat = "loading" /\ NobodyElseConnects(c)
    BY <1>1, <2>3 DEF ChatInv, ConnectInv, NobodyElseConnects
  <2>5. Shown(c) => \A d \in Callers : d # c =>
              ~ ShownDoing(d, "fetch") /\ ~ ShownDoing(d, "disconnect")
    BY <1>1, <2>2, <2>3 DEF ChatInv
  <2>6. screen' = "disconnected" =>
           /\ chat' # "none" /\ engine' # NoEngine => ~ engine'.client
           /\ chat' # "loaded"
           /\ \A d \in Callers : d # c => ~ ShownDoing(d, "record")
    BY <1>1, <1>2, <1>5, <2>1, <2>4 DEF ChatInv
  <2>7. /\ engine' \in Engines \cup {NoEngine} /\ session' \in BOOLEAN /\ store' \subseteq Events
        /\ acked' \subseteq Events /\ screen' \in AuthStates /\ acked' \subseteq store'
        /\ chat' \in {"none", "loading", "loaded", "failed"}
    BY <1>1, <1>2, <2>1 DEF FeedTypeOK, EventsInv
  <2>8. TokensMatchState' /\ (engine' # NoEngine => acked' \subseteq engine'.events)
    BY <1>1, <1>2 DEF TokensInv, TokensMatchState, NoEngine, EventsInv
  <2>9. /\ "fetch" \in ScreenOps /\ acked' \subseteq acked
        /\ NobodyElseConnects(c) \/ (screen' \in {screen, "disconnected"} /\ chat' = chat)
    BY <1>2, <2>1, <2>4 DEF ScreenOps
  <2>10. \/ chat' = chat
         \/ \A d \in Callers : d # c =>
              ~ ShownDoing(d, "fetch") /\ (ShownDoing(d, "disconnect") => chat' # "loaded")
    BY <2>1, <2>5
  <2> QED
    BY <1>2, <1>5, <2>6, <2>7, <2>8, <2>9, <2>10, ReturnsInOrder
<1>6. ASSUME engine # NoEngine, Lock(c, engine.ai, [call[c] EXCEPT !.at = "infer"]), UNCHANGED chat
      PROVE  FeedInv'
  <2> DEFINE x == [call[c] EXCEPT !.at = "infer"]
  <2>1. x \in AnyCalls /\ x.op = "fetch" /\ x.at = "infer" /\ x.shown = call[c].shown
    BY <1>3, CallGoesOn
  <2>2. Lock(c, engine.ai, x)
    BY <1>6
  <2> HIDE DEF x
  <2>3. engine.ai \in Ais /\ engine.ai # "engine" /\ engine.ai # "shared" /\ engine.ai \in Locks
    <3>1. engine \in Engines
      BY <1>1, <1>6 DEF FeedTypeOK
    <3>2. engine.ai \in Ais
      BY <3>1 DEF Engines
    <3> QED
      BY <3>2, AiAssumption DEF AiAssumption, Locks
  <2>4. \A k \in Locks : AskedFor(x, k, shared, engine) <=>
                         AskedFor(call[c], k, shared, engine) \/ k = engine.ai
    BY <1>3, <2>1 DEF AskedFor
  <2>5. ~ AskedFor(call[c], engine.ai, shared, engine)
    BY <1>3, <2>3 DEF AskedFor
  <2>6. /\ LockInv' /\ Moves(c, x) /\ queue' \in [Locks -> Seq(Callers)] /\ Undisturbed(c)
        /\ \A k \in Locks : \A d, e : Ahead(queue'[k], d, e) <=>
              Ahead(queue[k], d, e) \/ (k = engine.ai /\ e = c /\ On(queue[engine.ai], d))
    <3>1. UNCHANGED <<shared, engine>>
      BY <1>2
    <3>2. /\ x.op \in {"activate", "analyze"} /\ x.at = "infer" => Holds(c, "shared") /\ shared # Nothing
          /\ x.op = "fetch" /\ x.at = "infer" => Holds(c, "engine") /\ engine # NoEngine
      BY <1>3, <1>6, <2>1
    <3> QED
      BY <1>1, <2>1, <2>2, <2>3, <2>4, <2>5, <3>1, <3>2, LockKeeps
  <2>7. \A d \in Callers : Ahead(queue["engine"], d, c) => Ahead(queue'["engine"], d, c)
    BY <1>3, <2>6
  <2>8. UNCHANGED <<shared, loaded, files, feedVars>>
    BY <1>2, <1>6 DEF feedVars
  <2> QED
    BY <1>3, <2>1, <2>6, <2>7, <2>8, FetchMoves
<1>7. \/ ChatAfter(c, "failed") /\ Return(c)
      \/ engine # NoEngine /\ engine.client /\ ChatAfter(c, "loaded") /\ Return(c)
      \/ engine # NoEngine /\ Lock(c, engine.ai, [call[c] EXCEPT !.at = "infer"]) /\ UNCHANGED chat
  BY DEF Fetch
<1> QED
  BY <1>5, <1>6, <1>7

LEMMA SummarizeKeeps ==
  ASSUME FeedInv, NEW c \in Callers, Summarize(c)
  PROVE  FeedInv'
<1> DEFINE x == [call[c] EXCEPT !.at = "engine"]
           ai == engine.ai
<1>1. FeedTypeOK /\ LockInv
  BY DEF FeedInv
<1>2. /\ engine # NoEngine /\ Runs(c, "fetch", "infer", ai)
      /\ queue' = [queue EXCEPT ![ai] = Tail(queue[ai])]
      /\ call' = [call EXCEPT ![c] = x]
      /\ UNCHANGED <<shared, loaded, files, feedVars>>
  BY DEF Summarize
<1>3. /\ call[c].op = "fetch" /\ call[c].at = "infer" /\ Holds(c, ai)
      /\ "engine" \in Locks /\ call[c] \in AnyCalls /\ QueuesOK
  BY <1>1, <1>2, QueuesFromInv DEF Runs
<1>4. x \in AnyCalls /\ x.op = "fetch" /\ x.at = "engine" /\ x.shown = call[c].shown
  BY <1>3, CallGoesOn
<1>5. ai \in Ais /\ ai # "engine" /\ ai # "shared" /\ ai \in Locks
  <2>1. engine \in Engines
    BY <1>1, <1>2 DEF FeedTypeOK
  <2>2. ai \in Ais
    BY <2>1 DEF Engines
  <2> QED
    BY <2>2, AiAssumption DEF AiAssumption, Locks
<1>6. engine' = engine /\ shared' = shared /\ Holds(c, "engine")
  BY <1>1, <1>2, <1>3 DEF feedVars, LockInv, KeepsTheFirst
<1> HIDE DEF x, ai
<1>7. queue[ai] \in Seq(Callers) /\ queue[ai] # <<>> /\ Unique(queue[ai]) /\ Head(queue[ai]) = c
  BY <1>3, <1>5 DEF QueuesOK, Holds
<1>8. /\ Tail(queue[ai]) \in Seq(Callers) /\ Unique(Tail(queue[ai]))
      /\ \A y : On(Tail(queue[ai]), y) <=> On(queue[ai], y) /\ y # c
      /\ \A y, z : Ahead(Tail(queue[ai]), y, z) <=> Ahead(queue[ai], y, z) /\ y # c
  BY <1>7, PopOrder
<1>9. /\ queue' \in [Locks -> Seq(Callers)] /\ queue'[ai] = Tail(queue[ai])
      /\ \A k \in Locks : k # ai => queue'[k] = queue[k]
  BY <1>2, <1>3, <1>5, <1>8 DEF QueuesOK
<1>10. QueuesOK'
  BY <1>3, <1>8, <1>9 DEF QueuesOK
<1>11. LockInv' /\ Moves(c, x)
  <2>1. \A l \in Locks, d \in Callers : d # c =>
           /\ On(queue'[l], d) <=> On(queue[l], d)
           /\ \A e \in Callers : Ahead(queue'[l], e, d) => Ahead(queue[l], e, d)
    BY <1>8, <1>9
  <2>2. ASSUME NEW l \in Locks PROVE On(queue'[l], c) <=> AskedFor(x, l, shared', engine')
    <3>1. CASE l = ai
      BY <1>4, <1>5, <1>8, <1>9, <3>1 DEF AskedFor
    <3>2. CASE l # ai
      <4>1. On(queue[l], c) <=> l = "engine"
        BY <1>1, <1>3, <3>2 DEF LockInv, AskedFor, ai
      <4>2. AskedFor(x, l, shared', engine') <=> l = "engine"
        BY <1>4 DEF AskedFor
      <4> QED
        BY <1>9, <3>2, <4>1, <4>2
    <3> QED
      BY <3>1, <3>2
  <2>3. KeepsTheFirst(c)'
    <3>1. call'[c] = x
      BY <1>1, <1>2, QueuesFromInv
    <3> QED
      BY <1>4, <3>1 DEF KeepsTheFirst
  <2> QED
    BY <1>1, <1>2, <1>4, <1>6, <1>10, <2>1, <2>2, <2>3, SomeoneMoves
<1>12. Undisturbed(c)
  BY <1>8, <1>9 DEF Undisturbed
<1>13. \A d \in Callers : Ahead(queue["engine"], d, c) => Ahead(queue'["engine"], d, c)
  BY <1>3, <1>5, <1>9
<1> QED
  BY <1>2, <1>3, <1>4, <1>9, <1>11, <1>12, <1>13, FetchMoves

\* The screens are left, or the chat is: calls go on unshown.
LEMMA CallsHidden ==
  ASSUME FeedInv, call' \in [Callers -> AnyCalls],
         \A d \in Callers : \/ call'[d] = call[d]
                            \/ call[d].op \in ScreenOps /\ call'[d] = [call[d] EXCEPT !.shown = FALSE],
         \A d \in Callers : ~ ShownDoing(d, "fetch")',
         UNCHANGED <<shared, loaded, files, queue, engine, session, store, acked>>,
         chat' = "none", screen' \in {screen, "disconnected"},
         screen' = screen \/ \A d \in Callers : ~ ShownDoing(d, "record")'
  PROVE  FeedInv'
<1>1. FeedTypeOK /\ LockInv /\ ConnectInv /\ ChatInv /\ EventsInv /\ TokensInv
  BY DEF FeedInv
<1>2. call \in [Callers -> AnyCalls]
  BY <1>1, QueuesFromInv
<1>3. ASSUME NEW d \in Callers
      PROVE  /\ call'[d].op = call[d].op
             /\ \A l \in Locks : AskedFor(call'[d], l, shared, engine) <=>
                                 AskedFor(call[d], l, shared, engine)
             /\ call[d].op \in ScreenOps \cup {"activate", "analyze"} => call'[d].at = call[d].at
             /\ call[d].op \in ScreenOps /\ call'[d].shown => call[d].shown
             /\ call[d].op = "connect" /\ call[d].at = "replace" =>
                  call'[d].engine = call[d].engine
  <2>1. CASE call'[d] = call[d]
    BY <2>1
  <2>2. CASE call[d].op \in ScreenOps /\ call'[d] = [call[d] EXCEPT !.shown = FALSE]
    <3>1. /\ call'[d].op = call[d].op /\ call'[d].at = call[d].at /\ call'[d].shown = FALSE
          /\ call[d].op = "connect" /\ call[d].at = "replace" => call'[d].engine = call[d].engine
      BY <1>2, <2>2, CallUnshown
    <3>2. \A l \in Locks : AskedFor(call'[d], l, shared, engine) <=>
                           AskedFor(call[d], l, shared, engine)
      BY <2>2, <3>1 DEF AskedFor, ScreenOps
    <3> QED
      BY <2>2, <3>1, <3>2
  <2> QED
    BY <2>1, <2>2
<1>4. \A d \in Callers, op \in ScreenOps : ShownDoing(d, op)' => ShownDoing(d, op)
  BY <1>3 DEF ShownDoing
<1>5. LockInv'
  <2>1. \A d \in Callers : KeepsTheFirst(d)'
    BY <1>1, <1>3 DEF LockInv, KeepsTheFirst, Holds, ScreenOps
  <2>2. \A l \in Locks, d \in Callers :
          On(queue'[l], d) <=> AskedFor(call'[d], l, shared', engine')
    BY <1>1, <1>3 DEF LockInv
  <2> QED
    BY <1>1, <2>1, <2>2 DEF LockInv
<1>6. \A d \in Callers : Doing(d, "connect")' => Doing(d, "connect") /\ call'[d].at = call[d].at
  BY <1>3 DEF Doing, ScreenOps
<1>7. ConnectInv'
  <2>1. \A d \in Callers : Doing(d, "connect")' => screen' = "disconnected" /\ chat' = "none"
    BY <1>1, <1>6 DEF ConnectInv
  <2>2. ASSUME NEW d \in Callers, NEW e \in Callers,
               Doing(d, "connect")', ShownDoing(e, "connect")', d # e
        PROVE  ConnectsBefore(d, e)'
    <3>1. ShownDoing(e, "connect") /\ Doing(d, "connect")
          /\ call'[d].at = call[d].at /\ call'[e].at = call[e].at
      BY <1>4, <1>6, <2>2 DEF Doing, ShownDoing, ScreenOps
    <3>2. ConnectsBefore(d, e)
      BY <1>1, <2>2, <3>1 DEF ConnectInv
    <3> QED
      BY <3>1, <3>2 DEF ConnectsBefore
  <2>3. \A d, e \in Callers : Doing(d, "connect")' =>
          ~ (call'[e].op \in {"phone", "code", "password"} /\ call'[e].shown)
    BY <1>1, <1>3, <1>6 DEF ConnectInv, ScreenOps
  <2> QED
    BY <2>1, <2>2, <2>3 DEF ConnectInv
<1>8. ChatInv'
  <2>1. \A d \in Callers : ShownDoing(d, "disconnect")' =>
          /\ chat' # "loaded"
          /\ \A e \in Callers : ShownDoing(e, "fetch")' => Ahead(queue'["engine"], d, e)
          /\ \A e \in Callers : ShownDoing(e, "record")' => Ahead(queue'["engine"], e, d)
    BY <1>1, <1>4 DEF ChatInv, ScreenOps
  <2>2. screen' = "disconnected" => \A d \in Callers : ~ ShownDoing(d, "record")'
    BY <1>1, <1>4 DEF ChatInv, ScreenOps
  <2> QED
    BY <2>1, <2>2 DEF ChatInv
<1>9. EventsInv' /\ TokensInv'
  <2>1. \A d \in Callers : Doing(d, "connect")' /\ call'[d].at = "replace" =>
          /\ Doing(d, "connect") /\ call[d].at = "replace" /\ call'[d].engine = call[d].engine
    BY <1>3, <1>6 DEF Doing
  <2>2. TokensMatchState'
    BY <1>1 DEF TokensInv, TokensMatchState, NoEngine
  <2> QED
    BY <1>1, <2>1, <2>2 DEF EventsInv, TokensInv, NoEngine
<1>10. FeedTypeOK'
  <2>1. AiTypeOK'
    BY <1>1 DEF FeedTypeOK, AiTypeOK
  <2>2. call' \in [Callers -> AiCalls \cup FeedCalls]
    BY DEF AnyCalls
  <2>3. screen' \in AuthStates
    BY <1>1 DEF FeedTypeOK, AuthStates
  <2> QED
    BY <1>1, <2>1, <2>2, <2>3 DEF FeedTypeOK, NoEngine
<1> QED
  BY <1>5, <1>7, <1>8, <1>9, <1>10 DEF FeedInv

LEMMA CloseChatKeeps ==
  ASSUME FeedInv, CloseChat
  PROVE  FeedInv'
<1>1. call \in [Callers -> AnyCalls]
  BY QueuesFromInv DEF FeedInv
<1>2. \A d \in Callers :
        call'[d] = IF call[d].op = "fetch" THEN [call[d] EXCEPT !.shown = FALSE] ELSE call[d]
  BY DEF CloseChat
<1>3. ASSUME NEW d \in Callers
      PROVE  /\ call'[d] \in AnyCalls /\ ~ ShownDoing(d, "fetch")'
             /\ \/ call'[d] = call[d]
                \/ call[d].op \in ScreenOps /\ call'[d] = [call[d] EXCEPT !.shown = FALSE]
  <2>1. CASE call[d].op = "fetch"
    <3>1. call[d].op \in ScreenOps /\ call'[d] = [call[d] EXCEPT !.shown = FALSE]
      BY <1>2, <2>1 DEF ScreenOps
    <3> QED
      BY <1>1, <3>1, CallUnshown DEF ShownDoing
  <2>2. CASE call[d].op # "fetch"
    BY <1>1, <1>2, <2>2 DEF ShownDoing
  <2> QED
    BY <2>1, <2>2
<1>4. call' \in [Callers -> AnyCalls]
  BY <1>3 DEF CloseChat
<1> QED
  BY <1>3, <1>4, CallsHidden DEF CloseChat

LEMMA NewScreensKeeps ==
  ASSUME FeedInv, NewScreens
  PROVE  FeedInv'
<1>1. call \in [Callers -> AnyCalls] /\ FeedTypeOK
  BY QueuesFromInv DEF FeedInv
<1>2. \A d \in Callers :
        call'[d] = IF Shown(d) THEN [call[d] EXCEPT !.shown = FALSE] ELSE call[d]
  BY DEF NewScreens
<1>3. ASSUME NEW d \in Callers
      PROVE  /\ call'[d] \in AnyCalls
             /\ \/ call'[d] = call[d]
                \/ call[d].op \in ScreenOps /\ call'[d] = [call[d] EXCEPT !.shown = FALSE]
             /\ \A op \in ScreenOps : ~ ShownDoing(d, op)'
  <2>1. "shown" \in DOMAIN call[d] <=> call[d].op \in ScreenOps
    BY <1>1, CallShape DEF AnyCalls
  <2>2. CASE Shown(d)
    <3>1. call[d].op \in ScreenOps /\ call'[d] = [call[d] EXCEPT !.shown = FALSE]
      BY <1>2, <2>1, <2>2 DEF Shown
    <3> QED
      BY <1>1, <3>1, CallUnshown DEF ShownDoing
  <2>3. CASE ~ Shown(d)
    <3>1. call'[d] = call[d]
      BY <1>2, <2>3
    <3> QED
      BY <1>1, <2>1, <2>3, <3>1 DEF ShownDoing, Shown
  <2> QED
    BY <2>2, <2>3
<1>4. call' \in [Callers -> AnyCalls]
  BY <1>3 DEF NewScreens
<1>5. "fetch" \in ScreenOps /\ "record" \in ScreenOps
  BY DEF ScreenOps
<1> QED
  BY <1>3, <1>4, <1>5, CallsHidden DEF NewScreens

-----------------------------------------------------------------------------
(* Attention.                                                              *)

LEMMA AttendKeeps ==
  ASSUME FeedInv, NEW c \in Callers, Attend(c)
  PROVE  FeedInv'
<1>1. FeedTypeOK /\ LockInv /\ ChatInv
  BY DEF FeedInv
<1>2. PICK event \in Events :
        Lock(c, "engine", [op |-> "record", at |-> "engine", shown |-> TRUE, event |-> event])
  BY DEF Attend
<1> DEFINE x == [op |-> "record", at |-> "engine", shown |-> TRUE, event |-> event]
<1>3. /\ call[c] = Idle /\ chat = "loaded" /\ Lock(c, "engine", x)
      /\ UNCHANGED <<shared, loaded, files>> /\ engine' = engine /\ session' = session
      /\ store' = store /\ screen' = screen /\ chat' = chat /\ acked' = acked
  BY <1>2 DEF Attend, feedVars
<1>4. x \in AnyCalls /\ x.op = "record" /\ x.at = "engine"
  BY ScreenCallMade
<1> HIDE DEF x
<1>5. /\ FeedTypeOK' /\ LockInv' /\ ConnectInv' /\ EventsInv' /\ TokensInv' /\ Moves(c, x)
  <2>1. chat' \in {"none", "loading", "loaded", "failed"} /\ chat # "none"
    BY <1>3
  <2> QED
    BY <1>3, <1>4, <2>1, ScreenAsks
<1>6. call'[c] = x /\ \A d \in Callers : d # c => call'[d] = call[d]
  BY <1>5 DEF Moves
<1>7. /\ \A d \in Callers : ~ ShownDoing(d, "fetch")' /\ ~ ShownDoing(d, "disconnect")'
      /\ screen # "disconnected"
  BY <1>1, <1>3, <1>4, <1>6 DEF ChatInv, ShownDoing
<1>8. ChatInv'
  BY <1>3, <1>7 DEF ChatInv
<1> QED
  BY <1>5, <1>8 DEF FeedInv

LEMMA RecordKeeps ==
  ASSUME FeedInv, NEW c \in Callers, Record(c)
  PROVE  FeedInv'
<1>1. FeedTypeOK /\ LockInv /\ ConnectInv /\ ChatInv /\ EventsInv /\ TokensInv
  BY DEF FeedInv
<1>2. /\ Runs(c, "record", "engine", "engine") /\ Return(c) /\ UNCHANGED <<shared, loaded, files>>
      /\ session' = session /\ screen' = screen /\ chat' = chat
  BY DEF Record
<1>3. call[c].op = "record" /\ call[c].op \in ScreenOps /\ call[c] \in AiCalls \cup FeedCalls
  BY <1>1, <1>2 DEF Runs, ScreenOps, FeedTypeOK
<1>4. (Shown(c) <=> call[c].shown) /\ call[c].event \in Events
  BY <1>1, <1>3, ShownMeans, CallShape
<1>5. Shown(c) => NobodyElseConnects(c)
  <2> SUFFICES ASSUME Shown(c) PROVE NobodyElseConnects(c)
    OBVIOUS
  <2>1. ShownDoing(c, "record")
    BY <1>3, <1>4 DEF ShownDoing
  <2>2. screen # "disconnected"
    BY <1>1, <2>1 DEF ChatInv
  <2> QED
    BY <1>1, <2>2 DEF ConnectInv, NobodyElseConnects
<1>6. CASE engine = NoEngine
  <2>1. engine' = engine /\ store' = store /\ acked' = acked
    BY <1>6 DEF Record
  <2> QED
    BY <1>2, <2>1, ReturnsQuietly DEF feedVars, ScreenOps
<1>7. CASE engine # NoEngine
  <2>1. engine \in Engines
    BY <1>1, <1>7 DEF FeedTypeOK
  <2>2. /\ engine' = [engine EXCEPT !.events = engine.events \cup {call[c].event}]
        /\ \/ store' = engine'.events /\ Acknowledge(c)
           \/ store' = {} /\ acked' = {}
    BY <1>7 DEF Record
  <2>3. /\ engine' \in Engines /\ engine'.client = engine.client /\ engine'.state = engine.state
        /\ engine'.login = engine.login /\ engine'.password = engine.password
        /\ engine'.events = engine.events \cup {call[c].event}
    BY <1>4, <2>1, <2>2 DEF Engines
  <2>4. /\ acked' \subseteq engine.events \cup {call[c].event}
        /\ acked' \subseteq store' /\ store' \subseteq Events /\ acked' \subseteq Events
        /\ acked' \subseteq acked \/ NobodyElseConnects(c)
    <3>1. acked \subseteq engine.events /\ engine.events \subseteq Events /\ acked \subseteq Events
      BY <1>1, <1>7, <2>1 DEF EventsInv, FeedTypeOK, Engines
    <3>2. CASE store' = engine'.events /\ Acknowledge(c)
      BY <1>4, <1>5, <2>3, <3>1, <3>2 DEF Acknowledge
    <3>3. CASE store' = {} /\ acked' = {}
      BY <3>3
    <3> QED
      BY <2>2, <3>2, <3>3
  <2>5. TokensMatchState'
    BY <1>1, <1>7, <2>3 DEF TokensInv, TokensMatchState
  <2>6. screen' = "disconnected" =>
           /\ chat' # "none" /\ engine' # NoEngine => ~ engine'.client
           /\ chat' # "loaded"
           /\ \A d \in Callers : d # c => ~ ShownDoing(d, "record")
    BY <1>1, <1>2, <1>7, <2>3 DEF ChatInv
  <2>7. /\ engine' \in Engines \cup {NoEngine} /\ session' \in BOOLEAN /\ screen' \in AuthStates
        /\ chat' \in {"none", "loading", "loaded", "failed"}
    BY <1>1, <1>2, <2>3 DEF FeedTypeOK
  <2>8. acked' \subseteq engine'.events
    BY <2>3, <2>4
  <2> QED
    BY <1>2, <1>3, <2>4, <2>5, <2>6, <2>7, <2>8, ReturnsInOrder DEF Runs
<1> QED
  BY <1>6, <1>7

-----------------------------------------------------------------------------
(* The app starts, and starts again.                                       *)

\* The state of an app nobody has used yet.
Fresh ==
  /\ shared \in Ais \cup {Nothing}
  /\ loaded \in [Ais -> Models \cup {Nothing, "unmade"}]
  /\ files \in [Models -> {"none", "partial", "whole"}]
  /\ queue = [l \in Locks |-> <<>>]
  /\ call = [c \in Callers |-> Idle]
  /\ engine = NoEngine /\ screen = "disconnected" /\ chat = "none"
  /\ session \in BOOLEAN /\ store \subseteq Events /\ acked \subseteq store

LEMMA PreparedTypes ==
  ASSUME NEW p \in AfterPrepare
  PROVE  p.shared \in Ais \cup {Nothing} /\ p.loaded \in [Ais -> Models \cup {Nothing, "unmade"}]
BY DEF AfterPrepare

LEMMA FreshInv == Fresh => FeedInv
<1> SUFFICES ASSUME Fresh PROVE FeedInv
  OBVIOUS
<1>1. \A c \in Callers : call[c] = Idle
  BY DEF Fresh
<1>2. Idle.op = "idle"
  BY DEF Idle
<1>3. \A l \in Locks : queue[l] = <<>>
  BY DEF Fresh
<1>4. FeedTypeOK
  <2>1. queue \in [Locks -> Seq(Callers)]
    BY EmptySeq DEF Fresh
  <2>2. AiTypeOK
    BY <2>1 DEF Fresh, AiTypeOK
  <2>3. call \in [Callers -> AiCalls \cup FeedCalls]
    BY CallMade DEF Fresh, AnyCalls
  <2> QED
    BY <2>2, <2>3 DEF FeedTypeOK, Fresh, AuthStates
<1>5. LockInv
  <2>1. \A s : s = <<>> => \A i \in DOMAIN s : FALSE
    OBVIOUS
  <2>2. \A l \in Locks : Unique(queue[l]) /\ \A c : ~ On(queue[l], c)
    BY <1>3, <2>1 DEF Unique, On
  <2> QED
    BY <1>1, <1>2, <2>2, IdleAsksNothing DEF LockInv, KeepsTheFirst
<1>6. ConnectInv
  BY <1>1, <1>2 DEF ConnectInv, Doing
<1>7. ChatInv
  BY <1>1, <1>2 DEF ChatInv, ShownDoing, Fresh
<1>8. EventsInv /\ TokensInv
  BY <1>1, <1>2 DEF EventsInv, TokensInv, TokensMatchState, Doing, Fresh
<1> QED
  BY <1>4, <1>5, <1>6, <1>7, <1>8 DEF FeedInv

LEMMA FeedInitInv == FeedInit => FeedInv
<1> SUFFICES ASSUME FeedInit PROVE Fresh
  BY FreshInv
<1>1. shared \in Ais \cup {Nothing} /\ loaded \in [Ais -> Models \cup {Nothing, "unmade"}]
  BY PreparedTypes DEF FeedInit, AiInit
<1> QED
  BY <1>1 DEF FeedInit, AiInit, Fresh

LEMMA KillKeeps ==
  ASSUME FeedInv, Kill
  PROVE  FeedInv'
<1>1. shared' \in Ais \cup {Nothing} /\ loaded' \in [Ais -> Models \cup {Nothing, "unmade"}]
  BY PreparedTypes DEF Kill
<1>2. /\ files' \in [Models -> {"none", "partial", "whole"}] /\ session' \in BOOLEAN
      /\ store' \subseteq Events /\ acked' \subseteq store'
  BY DEF Kill, FeedInv, FeedTypeOK, AiTypeOK, EventsInv
<1>3. Fresh'
  BY <1>1, <1>2 DEF Kill, Fresh
<1> QED
  BY <1>3, FreshInv, PTL

LEMMA FeedStepKeeps ==
  ASSUME FeedInv, FeedStep
  PROVE  FeedInv'
BY PressConnectKeeps, CreateEngineKeeps, ReplaceEngineKeeps, TelegramConnectKeeps, SubmitKeeps,
   SendPhoneKeeps, SendCodeKeeps, SendPasswordKeeps, PressLogoutKeeps, TelegramDisconnectKeeps,
   QueryKeeps, AnswerQueryKeeps, LoadMessagesKeeps, FetchKeeps, SummarizeKeeps, AttendKeeps,
   RecordKeeps, CloseChatKeeps, NewScreensKeeps DEF FeedStep

LEMMA FeedStutters ==
  ASSUME FeedInv, UNCHANGED contentVars
  PROVE  FeedInv'
BY DEF contentVars, aiVars, feedVars, FeedInv, FeedTypeOK, AiTypeOK, LockInv, KeepsTheFirst, Holds,
       ConnectInv, ConnectsBefore, Doing, ShownDoing, ChatInv, EventsInv, TokensInv,
       TokensMatchState, NoEngine

LEMMA FeedInvariant == FeedSpec => []FeedInv
<1>1. FeedInv /\ [FeedNext]_contentVars => FeedInv'
  BY AiStepKeeps, FeedStepKeeps, KillKeeps, FeedStutters DEF FeedNext
<1> QED
  BY <1>1, FeedInitInv, PTL DEF FeedSpec

-----------------------------------------------------------------------------
(* The mutexes are handed on.                                              *)

LEMMA QueuedIsBusy ==
  ASSUME FeedInv, NEW l \in Locks, NEW c, c \in Range(queue[l])
  PROVE  On(queue[l], c) /\ c \in BusyCallers
<1>1. queue[l] \in Seq(Callers) /\ LockInv
  BY QueuesFromInv DEF FeedInv, QueuesOK
<1>2. PICK i \in DOMAIN queue[l] : queue[l][i] = c
  BY DEF Range
<1>3. c \in Callers /\ On(queue[l], c)
  BY <1>1, <1>2 DEF On
<1>4. call[c] # Idle
  BY <1>1, <1>3, IdleAsksNothing DEF LockInv
<1> QED
  BY <1>3, <1>4 DEF BusyCallers

\* The first in the queue holds the mutex.
LEMMA HeadHolds ==
  ASSUME FeedInv, NEW l \in Locks, queue[l] # <<>>
  PROVE  /\ Head(queue[l]) \in Callers /\ Holds(Head(queue[l]), l)
         /\ Head(queue[l]) \in BusyCallers
         /\ AskedFor(call[Head(queue[l])], l, shared, engine)
<1>1. queue[l] \in Seq(Callers) /\ LockInv /\ QueuesOK
  BY QueuesFromInv DEF FeedInv, QueuesOK
<1> DEFINE h == Head(queue[l])
<1>2. h \in Callers /\ Holds(h, l)
  BY <1>1, HeadTailProperties DEF Holds
<1>3. On(queue[l], h)
  BY <1>1, <1>2, HoldsOrder
<1>4. AskedFor(call[h], l, shared, engine)
  BY <1>1, <1>2, <1>3 DEF LockInv
<1>5. call[h] # Idle
  BY <1>4, IdleAsksNothing
<1> QED
  BY <1>2, <1>4, <1>5 DEF BusyCallers

\* A call waits only for mutexes it has asked for.
LEMMA NotWaiting ==
  ASSUME FeedInv, NEW c \in Callers,
         \A l \in Locks : AskedFor(call[c], l, shared, engine) => Holds(c, l)
  PROVE  ~ Waits(c)
<1> SUFFICES ASSUME NEW l \in Locks, NEW i \in DOMAIN queue[l], i # 1, queue[l][i] = c
             PROVE  FALSE
  BY DEF Waits
<1>1. queue[l] \in Seq(Callers) /\ Unique(queue[l])
  BY QueuesFromInv DEF FeedInv, LockInv, QueuesOK
<1>2. Holds(c, l)
  <2>1. On(queue[l], c)
    BY DEF On
  <2> QED
    BY <2>1 DEF FeedInv, LockInv
<1>3. 1 \in DOMAIN queue[l] /\ queue[l][1] = c
  BY <1>1, <1>2 DEF Holds
<1> QED
  BY <1>1, <1>3 DEF Unique

LEMMA FeedInvLocks == FeedInv => LocksAreHandedOn
<1> SUFFICES ASSUME FeedInv PROVE LocksAreHandedOn
  OBVIOUS
<1>1. FeedTypeOK /\ LockInv /\ call \in [Callers -> AnyCalls]
  BY QueuesFromInv DEF FeedInv
<1>2. \A l \in Locks : Range(queue[l]) \subseteq BusyCallers
  BY QueuedIsBusy
<1>3. ASSUME NEW b \in BusyCallers PROVE \E c \in BusyCallers : ~ Waits(c)
  <2>0. shared \notin {"engine", "shared"} /\ "shared" \in Locks /\ "engine" \in Locks
    BY <1>1, AiAssumption DEF FeedTypeOK, AiTypeOK, AiAssumption, Nothing, Locks
  <2>1. ASSUME NEW ai \in Ais, queue[ai] # <<>> PROVE \E c \in BusyCallers : ~ Waits(c)
    <3> DEFINE h == Head(queue[ai])
    <3>1. ai \in Locks /\ ai # "shared" /\ ai # "engine"
      BY AiAssumption DEF AiAssumption, Locks
    <3>2. /\ h \in Callers /\ Holds(h, ai) /\ h \in BusyCallers
          /\ AskedFor(call[h], ai, shared, engine)
      BY <2>1, <3>1, HeadHolds
    <3> HIDE DEF h
    <3>3. KeepsTheFirst(h)
      BY <1>1, <3>2 DEF LockInv
    <3>4. \A l \in Locks : AskedFor(call[h], l, shared, engine) => Holds(h, l)
      BY <3>1, <3>2, <3>3 DEF AskedFor, KeepsTheFirst
    <3> QED
      BY <3>2, <3>4, NotWaiting
  <2>2. ASSUME \A ai \in Ais : queue[ai] = <<>>, queue["engine"] # <<>>
        PROVE  \E c \in BusyCallers : ~ Waits(c)
    <3> DEFINE h == Head(queue["engine"])
    <3>1. /\ h \in Callers /\ Holds(h, "engine") /\ h \in BusyCallers
          /\ AskedFor(call[h], "engine", shared, engine)
      BY <2>0, <2>2, HeadHolds
    <3> HIDE DEF h
    <3>2. \A ai \in Ais : ~ AskedFor(call[h], ai, shared, engine)
      <4> SUFFICES ASSUME NEW ai \in Ais, AskedFor(call[h], ai, shared, engine) PROVE FALSE
        OBVIOUS
      <4>1. On(queue[ai], h) /\ ai \in Locks
        BY <1>1, <3>1 DEF LockInv, Locks
      <4>2. queue[ai] = <<>>
        BY <2>2
      <4> QED
        BY <4>1, <4>2 DEF On
    <3>3. call[h].op = "consult" => call[h].ai \in Ais
      BY <1>1, <3>1, CallShape DEF AnyCalls
    <3>4. ~ AskedFor(call[h], "shared", shared, engine)
      <4>1. "engine" \notin Ais /\ "shared" \notin Ais
        BY AiAssumption DEF AiAssumption
      <4>2. call[h].op \notin {"start", "activate", "analyze"}
        BY <2>0, <3>1 DEF AskedFor
      <4>3. call[h].op = "fetch" /\ call[h].at = "infer" => engine.ai \in Ais
        <5>1. call[h].op = "fetch" /\ call[h].at = "infer" => engine # NoEngine
          BY <1>1, <3>1 DEF LockInv, KeepsTheFirst
        <5>2. engine # NoEngine => engine.ai \in Ais
          BY <1>1 DEF FeedTypeOK, Engines
        <5> QED
          BY <5>1, <5>2
      <4> QED
        BY <3>1, <3>3, <4>1, <4>2, <4>3 DEF AskedFor
    <3>5. \A l \in Locks : AskedFor(call[h], l, shared, engine) => Holds(h, l)
      BY <3>1, <3>2, <3>4 DEF Locks
    <3> QED
      BY <3>1, <3>5, NotWaiting
  <2>3. ASSUME \A l \in Locks : l # "shared" => queue[l] = <<>>, queue["shared"] # <<>>
        PROVE  \E c \in BusyCallers : ~ Waits(c)
    <3> DEFINE h == Head(queue["shared"])
    <3>1. h \in Callers /\ Holds(h, "shared") /\ h \in BusyCallers
      BY <2>0, <2>3, HeadHolds
    <3> HIDE DEF h
    <3>2. ASSUME NEW l \in Locks, AskedFor(call[h], l, shared, engine) PROVE Holds(h, l)
      <4>1. On(queue[l], h)
        BY <1>1, <3>1, <3>2 DEF LockInv
      <4>2. queue[l] # <<>>
        BY <4>1 DEF On
      <4> QED
        BY <2>3, <3>1, <4>2
    <3> QED
      BY <3>1, <3>2, NotWaiting
  <2>4. ASSUME \A l \in Locks : queue[l] = <<>> PROVE \E c \in BusyCallers : ~ Waits(c)
    <3>1. b \in Callers
      BY DEF BusyCallers
    <3>2. ASSUME NEW l \in Locks, AskedFor(call[b], l, shared, engine) PROVE FALSE
      <4>1. On(queue[l], b)
        BY <1>1, <3>1, <3>2 DEF LockInv
      <4> QED
        BY <2>4, <4>1 DEF On
    <3> QED
      BY <3>1, <3>2, NotWaiting
  <2> QED
    BY <2>0, <2>1, <2>2, <2>3, <2>4 DEF Locks
<1> QED
  BY <1>2, <1>3 DEF LocksAreHandedOn

-----------------------------------------------------------------------------
\* The variables of the feed and of the calls keep their types.
THEOREM FeedTypeCorrect == FeedSpec => []FeedTypeOK
BY FeedInvariant, PTL DEF FeedInv

\* Every mutex of the model and of the content engine is held by a call that is
\* under way, and while there are calls one of them is waiting for no mutex.
THEOREM LocksCorrect == FeedSpec => []LocksAreHandedOn
BY FeedInvariant, FeedInvLocks, PTL

\* The login step the client is waiting for has its connection and its token.
THEOREM TokensCorrect == FeedSpec => []TokensMatchState
<1>1. FeedInv => TokensMatchState
  BY DEF FeedInv, TokensInv
<1> QED
  BY <1>1, FeedInvariant, PTL

\* An attention event the screen was told is recorded is in the file, however
\* many calls connect, replace the engine and record at the same time.
THEOREM AttentionCorrect == FeedSpec => []AttentionKept
<1>1. FeedInv => AttentionKept
  BY DEF FeedInv, EventsInv, AttentionKept
<1> QED
  BY <1>1, FeedInvariant, PTL

-----------------------------------------------------------------------------
(* The agents' choices.                                                    *)

\* R orders the elements of S.
Orders(S, R) ==
  /\ \A x \in S : <<x, x>> \notin R
  /\ \A x, y \in S : x = y \/ <<x, y>> \in R \/ <<y, x>> \in R
  /\ \A x, y, z \in S : <<x, y>> \in R /\ <<y, z>> \in R => <<x, z>> \in R

\* An element has fewer predecessors than the elements after it.
LEMMA BelowGrows ==
  ASSUME NEW S, IsFiniteSet(S), NEW R, Orders(S, R), NEW x \in S, NEW y \in S,
         <<x, y>> \in R
  PROVE  Cardinality(Below(S, R, x)) < Cardinality(Below(S, R, y))
<1> DEFINE a == Below(S, R, x)
           b == Below(S, R, y)
<1>1. a \subseteq S /\ b \subseteq S /\ x \notin a /\ x \in b
  BY DEF Below, Orders
<1>2. a \subseteq b
  BY DEF Below, Orders
<1> HIDE DEF a, b
<1>3. IsFiniteSet(b) /\ IsFiniteSet(a)
  BY <1>1, FS_Subset
<1>4. Cardinality(a) <= Cardinality(b) /\ (Cardinality(b) = Cardinality(a) => b = a)
  BY <1>2, <1>3, FS_Subset
<1>5. Cardinality(a) \in Nat /\ Cardinality(b) \in Nat
  BY <1>3, FS_CardinalityType
<1> QED
  BY <1>1, <1>4, <1>5 DEF a, b

\* InOrder lists every element of S, and nothing comes before the first.
LEMMA InOrderFacts ==
  ASSUME NEW S, IsFiniteSet(S), NEW R, Orders(S, R)
  PROVE  /\ InOrder(S, R) \in Seq(S)
         /\ Len(InOrder(S, R)) = Cardinality(S)
         /\ DOMAIN InOrder(S, R) = 1..Cardinality(S)
         /\ Cardinality(S) \in Nat /\ (Cardinality(S) = 0 <=> S = {})
         /\ \A x \in S : \E k \in 1..Cardinality(S) : InOrder(S, R)[k] = x
         /\ \A x \in S : x = InOrder(S, R)[1] \/ <<InOrder(S, R)[1], x>> \in R
<1> DEFINE n == Cardinality(S)
           rank == [x \in S |-> Cardinality(Below(S, R, x))]
           s == InOrder(S, R)
<1>1. n \in Nat /\ (n = 0 <=> S = {})
  BY FS_CardinalityType, FS_EmptySet
<1>2. ASSUME NEW x \in S PROVE rank[x] \in 0..(n - 1)
  <2>1. Below(S, R, x) \subseteq S \ {x}
    BY DEF Below, Orders
  <2>2. IsFiniteSet(S \ {x}) /\ Cardinality(S \ {x}) = n - 1
    BY FS_RemoveElement
  <2>3. /\ IsFiniteSet(Below(S, R, x))
        /\ Cardinality(Below(S, R, x)) <= n - 1
    BY <2>1, <2>2, FS_Subset
  <2>4. Cardinality(Below(S, R, x)) \in Nat
    BY <2>3, FS_CardinalityType
  <2> QED
    BY <1>1, <2>3, <2>4
<1>3. \A x, y \in S : <<x, y>> \in R => rank[x] < rank[y]
  BY BelowGrows
<1>4. \A x \in S : rank[x] = Cardinality(Below(S, R, x))
  OBVIOUS
<1>5. s = [k \in 1..n |-> CHOOSE x \in S : Cardinality(Below(S, R, x)) = k - 1]
  BY DEF InOrder
<1> HIDE DEF n, rank, s
<1>12. \A x, y \in S : rank[x] = rank[y] => x = y
  <2> SUFFICES ASSUME NEW x \in S, NEW y \in S, rank[x] = rank[y] PROVE x = y
    OBVIOUS
  <2>1. ~ (rank[x] < rank[y]) /\ ~ (rank[y] < rank[x])
    BY <1>2
  <2> QED
    BY <1>3, <2>1 DEF Orders
<1>6. \A k \in 1..n : \E x \in S : rank[x] = k - 1
  <2> SUFFICES ASSUME NEW k \in 1..n, \A x \in S : rank[x] # k - 1 PROVE FALSE
    OBVIOUS
  <2> DEFINE T == (0..(n - 1)) \ {k - 1}
  <2>1. IsFiniteSet(0..(n - 1)) /\ Cardinality(0..(n - 1)) = n /\ k - 1 \in 0..(n - 1)
    <3>1. /\ IsFiniteSet(0..(n - 1))
          /\ Cardinality(0..(n - 1)) = IF 0 > n - 1 THEN 0 ELSE (n - 1) - 0 + 1
      BY <1>1, FS_Interval
    <3> QED
      BY <1>1, <3>1
  <2>2. IsFiniteSet(T) /\ Cardinality(T) = n - 1
    BY <2>1, FS_RemoveElement
  <2>3. \A x \in S : rank[x] \in T
    BY <1>2
  <2> HIDE DEF T
  <2>4. rank \in [S -> T]
    BY <2>3 DEF rank
  <2>5. Cardinality(T) < Cardinality(S)
    BY <1>1, <2>2 DEF n
  <2>6. \E x, y \in S : x # y /\ rank[x] = rank[y]
    BY <2>2, <2>4, <2>5, FS_PigeonHole
  <2> QED
    BY <1>12, <2>6
<1>7. \A k \in 1..n : s[k] \in S /\ rank[s[k]] = k - 1
  BY <1>4, <1>5, <1>6
<1>8. \A x \in S : rank[x] + 1 \in 1..n /\ s[rank[x] + 1] = x
  <2> SUFFICES ASSUME NEW x \in S PROVE rank[x] + 1 \in 1..n /\ s[rank[x] + 1] = x
    OBVIOUS
  <2>1. rank[x] + 1 \in 1..n /\ rank[x] = (rank[x] + 1) - 1
    BY <1>1, <1>2
  <2>2. s[rank[x] + 1] \in S /\ rank[s[rank[x] + 1]] = rank[x]
    BY <1>7, <2>1
  <2> QED
    BY <1>12, <2>1, <2>2
<1>9. ASSUME NEW x \in S PROVE x = s[1] \/ <<s[1], x>> \in R
  <2>1. 1 \in 1..n
    BY <1>1
  <2>2. s[1] \in S /\ rank[s[1]] = 0
    BY <1>7, <2>1
  <2>3. ~ (rank[x] < rank[s[1]])
    BY <1>2, <2>2
  <2> QED
    BY <1>3, <2>2, <2>3 DEF Orders
<1>10. s \in [1..n -> S] /\ DOMAIN s = 1..n
  BY <1>5, <1>7
<1>11. s \in Seq(S) /\ Len(s) = n
  BY <1>1, <1>10
<1> QED
  BY <1>1, <1>8, <1>9, <1>10, <1>11 DEF n, s

LEMMA AscendingFacts ==
  ASSUME NEW n \in Nat, NEW S \in SUBSET (1..n)
  PROVE  /\ Ascending(S) \in Seq(S)
         /\ DOMAIN Ascending(S) = 1..Len(Ascending(S))
         /\ \A x \in S : \E k \in DOMAIN Ascending(S) : Ascending(S)[k] = x
<1> DEFINE R == {r \in S \X S : r[1] < r[2]}
<1>1. IsFiniteSet(S)
  <2>1. IsFiniteSet(1..n)
    BY FS_Interval, 1 \in Int, n \in Int
  <2> QED
    BY <2>1, FS_Subset
<1>2. \A x, y \in S : <<x, y>> \in R <=> x < y
  OBVIOUS
<1>3. \A x \in S : x \in Int
  OBVIOUS
<1>4. Ascending(S) = InOrder(S, R)
  BY DEF Ascending
<1> HIDE DEF R
<1>5. Orders(S, R)
  BY <1>2, <1>3 DEF Orders
<1> QED
  BY <1>1, <1>4, <1>5, InOrderFacts

-----------------------------------------------------------------------------
LEMMA Cancels ==
  ASSUME NEW a \in Nat, NEW b \in Nat, NEW q \in Nat \ {0}
  PROVE  /\ a * q >= b * q => a >= b
         /\ a * q > b * q => a > b
<1>1. ASSUME b > a PROVE b * q > a * q
  <2>1. b = a + (b - a) /\ b - a \in Nat \ {0}
    BY <1>1
  <2>2. b * q = a * q + (b - a) * q
    BY <2>1
  <2>3. (b - a) * q > 0
    BY <2>1
  <2>4. a * q \in Int /\ b * q \in Int /\ (b - a) * q \in Int
    BY <2>1
  <2> QED
    BY <2>2, <2>3, <2>4
<1>2. a * q \in Nat /\ b * q \in Nat
  OBVIOUS
<1>3. a = b => a * q = b * q
  OBVIOUS
<1> QED
  BY <1>1, <1>2, <1>3

LEMMA Scales ==
  ASSUME NEW a \in Nat, NEW b \in Nat, NEW q \in Nat \ {0}
  PROVE  /\ a >= b => a * q >= b * q
         /\ a > b => a * q > b * q
<1>1. a * q \in Nat /\ b * q \in Nat
  OBVIOUS
<1>2. ~ (b * q > a * q) \/ b > a
  BY Cancels
<1>3. ~ (b * q >= a * q) \/ b >= a
  BY Cancels
<1> QED
  BY <1>1, <1>2, <1>3

IsFraction(a) == a.num \in Nat /\ a.den \in Nat \ {0}

\* Fractions are compared as numbers are.
LEMMA FractionsOrdered ==
  ASSUME NEW a, NEW b, NEW c, IsFraction(a), IsFraction(b), IsFraction(c),
         ~ Exceeds(b, a), ~ Exceeds(c, b)
  PROVE  /\ ~ Exceeds(c, a)
         /\ Exceeds(a, b) \/ Exceeds(b, c) => Exceeds(a, c)
<1> DEFINE x == a.num
           p == a.den
           y == b.num
           q == b.den
           z == c.num
           r == c.den
<1>1. /\ x \in Nat /\ y \in Nat /\ z \in Nat
      /\ p \in Nat \ {0} /\ q \in Nat \ {0} /\ r \in Nat \ {0}
  BY DEF IsFraction
<1>2. /\ ~ (y * p > x * q) /\ ~ (z * q > y * r)
      /\ Exceeds(a, b) <=> x * q > y * p
      /\ Exceeds(b, c) <=> y * r > z * q
      /\ Exceeds(a, c) <=> x * r > z * p
      /\ Exceeds(c, a) <=> z * p > x * r
  BY DEF Exceeds
<1> HIDE DEF x, p, y, q, z, r
<1>3. /\ x * q \in Nat /\ y * p \in Nat /\ y * r \in Nat /\ z * q \in Nat
      /\ x * r \in Nat /\ z * p \in Nat
  BY <1>1
<1>4. x * q >= y * p /\ y * r >= z * q
  BY <1>2, <1>3
<1>5. /\ (x * q) * r >= (y * p) * r
      /\ x * q > y * p => (x * q) * r > (y * p) * r
  BY <1>1, <1>3, <1>4, Scales
<1>6. /\ (y * r) * p >= (z * q) * p
      /\ y * r > z * q => (y * r) * p > (z * q) * p
  BY <1>1, <1>3, <1>4, Scales
<1>7. /\ (x * q) * r = (x * r) * q /\ (y * p) * r = (y * r) * p
      /\ (z * q) * p = (z * p) * q
  BY <1>1
<1>8. (x * r) * q \in Nat /\ (z * p) * q \in Nat /\ (y * r) * p \in Nat
  BY <1>1, <1>3
<1>9. /\ (x * r) * q >= (z * p) * q
      /\ x * q > y * p \/ y * r > z * q => (x * r) * q > (z * p) * q
  BY <1>5, <1>6, <1>7, <1>8
<1>10. x * r >= z * p /\ (x * q > y * p \/ y * r > z * q => x * r > z * p)
  BY <1>1, <1>3, <1>9, Cancels
<1> QED
  BY <1>2, <1>3, <1>10

-----------------------------------------------------------------------------
LEMMA ReputationFacts ==
  ASSUME NEW o, o.reputation \in Int
  PROVE  ReputationScore(o) = IF o.reputation < 0 THEN 0
                              ELSE IF o.reputation > 100 THEN 100 ELSE o.reputation
<1> DEFINE m == Max({o.reputation, 0})
<1>1. m = IF o.reputation < 0 THEN 0 ELSE o.reputation
  BY DEF Max
<1>2. m \in Int
  BY <1>1
<1>3. ReputationScore(o) = Min({m, 100})
  BY DEF ReputationScore
<1> HIDE DEF m
<1>4. Min({m, 100}) = IF m > 100 THEN 100 ELSE m
  BY <1>2 DEF Min
<1> QED
  BY <1>1, <1>3, <1>4

LEMMA ScoreFacts ==
  ASSUME NEW o, o.reputation \in Int, o.rate \in Nat \ {0}
  PROVE  /\ ReputationScore(o) \in Nat /\ PaymentMethodScore(o) \in Nat
         /\ Score(o).den = RateUnit + o.rate
         /\ Score(o).num = (2 * ReputationScore(o) + 10 * PaymentMethodScore(o)) * (RateUnit + o.rate)
                             + 200 * RateUnit
         /\ IsFraction(Score(o))
<1>1. ReputationScore(o) \in Nat
  BY ReputationFacts
<1>2. PaymentMethodScore(o) \in Nat
  BY DEF PaymentMethodScore
<1>3. RateScore(o) = [num |-> RateUnit, den |-> RateUnit + o.rate]
  BY DEF RateScore
<1>4. /\ Score(o).den = RateUnit + o.rate
      /\ Score(o).num = (2 * ReputationScore(o) + 10 * PaymentMethodScore(o)) * (RateUnit + o.rate)
                          + 200 * RateUnit
  BY <1>3 DEF Score
<1>5. RateUnit + o.rate \in Nat \ {0} /\ RateUnit \in Nat
  BY AgentAssumption DEF AgentAssumption
<1>6. (2 * ReputationScore(o) + 10 * PaymentMethodScore(o)) * (RateUnit + o.rate) \in Nat
  <2> DEFINE a == 2 * ReputationScore(o) + 10 * PaymentMethodScore(o)
             b == RateUnit + o.rate
  <2>1. a \in Nat /\ b \in Nat
    BY <1>1, <1>2, <1>5
  <2> HIDE DEF a, b
  <2>2. a * b \in Nat
    BY <2>1
  <2> QED
    BY <2>2 DEF a, b
<1> QED
  BY <1>1, <1>2, <1>4, <1>5, <1>6 DEF IsFraction

\* A lower rate makes the better score, the rest being as good.
LEMMA CheaperExceeds ==
  ASSUME NEW o, o.reputation \in Int, o.rate \in Nat \ {0},
         NEW p, p.reputation \in Int, p.rate \in Nat \ {0},
         Cheaper(o, p)
  PROVE  Exceeds(Score(o), Score(p))
<1> DEFINE a == 2 * ReputationScore(o) + 10 * PaymentMethodScore(o)
           b == 2 * ReputationScore(p) + 10 * PaymentMethodScore(p)
           u == RateUnit
           d == RateUnit + o.rate
           e == RateUnit + p.rate
<1>1. /\ a \in Nat /\ b \in Nat /\ a >= b
  <2>1. ReputationScore(o) >= ReputationScore(p)
    BY ReputationFacts DEF Cheaper
  <2>2. PaymentMethodScore(o) >= PaymentMethodScore(p)
    BY DEF Cheaper
  <2> QED
    BY <2>1, <2>2, ScoreFacts
<1>2. u \in Nat \ {0} /\ d \in Nat \ {0} /\ e \in Nat \ {0} /\ e > d
  BY AgentAssumption DEF AgentAssumption, Cheaper
<1>3. /\ Score(o).num = a * d + 200 * u /\ Score(o).den = d
      /\ Score(p).num = b * e + 200 * u /\ Score(p).den = e
  BY ScoreFacts
<1> HIDE DEF a, b, u, d, e
<1>4. (a * d) * e >= (b * d) * e
  <2>1. a * d \in Nat /\ b * d \in Nat
    BY <1>1, <1>2
  <2>2. a * d >= b * d
    BY <1>1, <1>2, Scales
  <2> QED
    BY <1>2, <2>1, <2>2, Scales
<1>5. e * (200 * u) > d * (200 * u)
  <2>1. 200 * u \in Nat \ {0}
    BY <1>2
  <2> QED
    BY <1>2, <2>1, Scales
<1>6. /\ (a * d + 200 * u) * e = (a * d) * e + e * (200 * u)
      /\ (b * e + 200 * u) * d = (b * d) * e + d * (200 * u)
  BY <1>1, <1>2
<1>7. /\ (a * d) * e \in Nat /\ (b * d) * e \in Nat
      /\ e * (200 * u) \in Nat /\ d * (200 * u) \in Nat
  <2>1. a * d \in Nat /\ b * d \in Nat /\ 200 * u \in Nat
    BY <1>1, <1>2
  <2> QED
    BY <1>2, <2>1
<1>8. (a * d + 200 * u) * e > (b * e + 200 * u) * d
  BY <1>4, <1>5, <1>6, <1>7
<1> QED
  BY <1>3, <1>8 DEF Exceeds

-----------------------------------------------------------------------------
Accepted(listing) == {i \in DOMAIN listing : Eligible(listing[i])}
ByScore(listing, S) == {r \in S \X S : Precedes(listing, r[1], r[2])}

\* What is known of a listing and of its positions.
LEMMA ListingFacts ==
  ASSUME NEW listing, IsListing(listing)
  PROVE  /\ Len(listing) \in Nat /\ DOMAIN listing = 1..Len(listing)
         /\ \A i \in DOMAIN listing :
              /\ listing[i] \in Range(listing)
              /\ listing[i].reputation \in Int /\ listing[i].rate \in Nat \ {0}
              /\ IsFraction(Score(listing[i]))
<1>1. Len(listing) \in Nat /\ DOMAIN listing = 1..Len(listing)
  BY LenProperties DEF IsListing
<1>2. \A i \in DOMAIN listing : listing[i] \in Range(listing)
  BY DEF Range
<1>3. \A i \in DOMAIN listing :
        listing[i].reputation \in Int /\ listing[i].rate \in Nat \ {0}
  BY <1>2 DEF IsListing
<1> QED
  BY <1>1, <1>2, <1>3, ScoreFacts

LEMMA RankingOrders ==
  ASSUME NEW listing, IsListing(listing), NEW S \in SUBSET (DOMAIN listing)
  PROVE  Orders(S, ByScore(listing, S))
<1>1. \A x \in S : x \in Int /\ IsFraction(Score(listing[x]))
  BY ListingFacts
<1>2. \A x, y \in S : <<x, y>> \in ByScore(listing, S) <=> Precedes(listing, x, y)
  BY DEF ByScore
<1>3. ASSUME NEW x \in S, NEW y \in S
      PROVE  /\ ~ Exceeds(Score(listing[x]), Score(listing[x]))
             /\ ~ (Exceeds(Score(listing[x]), Score(listing[y]))
                   /\ Exceeds(Score(listing[y]), Score(listing[x])))
  <2> DEFINE a == Score(listing[x])
             b == Score(listing[y])
  <2>1. IsFraction(a) /\ IsFraction(b)
    BY <1>1
  <2> HIDE DEF a, b
  <2>2. a.num * a.den \in Nat /\ a.num * b.den \in Nat /\ b.num * a.den \in Nat
    BY <2>1 DEF IsFraction
  <2>3. ~ Exceeds(a, a) /\ ~ (Exceeds(a, b) /\ Exceeds(b, a))
    BY <2>2 DEF Exceeds
  <2> QED
    BY <2>3 DEF a, b
<1>4. \A x \in S : ~ Precedes(listing, x, x)
  BY <1>1, <1>3 DEF Precedes
<1>5. \A x, y \in S : x = y \/ Precedes(listing, x, y) \/ Precedes(listing, y, x)
  BY <1>1, <1>3 DEF Precedes
<1>6. ASSUME NEW x \in S, NEW y \in S, NEW z \in S,
             Precedes(listing, x, y), Precedes(listing, y, z)
      PROVE  Precedes(listing, x, z)
  <2> DEFINE a == Score(listing[x])
             b == Score(listing[y])
             c == Score(listing[z])
  <2>1. IsFraction(a) /\ IsFraction(b) /\ IsFraction(c)
    BY <1>1
  <2>2. /\ Exceeds(a, b) \/ (~ Exceeds(b, a) /\ x < y)
        /\ Exceeds(b, c) \/ (~ Exceeds(c, b) /\ y < z)
    BY <1>6 DEF Precedes
  <2>3. ~ Exceeds(b, a) /\ ~ Exceeds(c, b)
    BY <1>3, <2>2
  <2>4. Exceeds(a, c) \/ (~ Exceeds(c, a) /\ x < z) => Precedes(listing, x, z)
    BY DEF Precedes
  <2> HIDE DEF a, b, c
  <2>5. ~ Exceeds(c, a) /\ (Exceeds(a, b) \/ Exceeds(b, c) => Exceeds(a, c))
    BY <2>1, <2>3, FractionsOrdered
  <2>6. x \in Int /\ y \in Int /\ z \in Int
    BY <1>1
  <2>7. x < y /\ y < z => x < z
    BY <2>6
  <2> QED
    BY <2>2, <2>4, <2>5, <2>7
<1> QED
  BY <1>2, <1>4, <1>5, <1>6 DEF Orders

\* The scored offers are the accepted ones, none exceeding the first.
LEMMA ScoredFacts ==
  ASSUME NEW listing, IsListing(listing)
  PROVE  /\ Scored(listing) \in Seq(Range(listing))
         /\ DOMAIN Scored(listing) = 1..Len(Scored(listing))
         /\ Range(Scored(listing)) = {o \in Range(listing) : Eligible(o)}
         /\ \A o \in Range(Scored(listing)) : ~ Exceeds(Score(o), Score(Scored(listing)[1]))
<1> DEFINE S == Accepted(listing)
           R == ByScore(listing, S)
           s == InOrder(S, R)
           n == Cardinality(S)
<1>1. S \subseteq DOMAIN listing /\ (\A i \in DOMAIN listing : i \in S <=> Eligible(listing[i]))
  BY DEF Accepted
<1>2. IsFiniteSet(S)
  <2>1. Len(listing) \in Int /\ 1 \in Int
    BY ListingFacts
  <2>2. IsFiniteSet(1..Len(listing))
    BY <2>1, FS_Interval
  <2> QED
    BY <1>1, <2>2, ListingFacts, FS_Subset
<1>3. Orders(S, R)
  BY <1>1, RankingOrders
<1>4. Ranking(listing) = s
  BY DEF Ranking, Accepted, ByScore
<1>5. \A x, y \in S : <<x, y>> \in R => Precedes(listing, x, y)
  BY DEF ByScore
<1> HIDE DEF S, R, s
<1>6. /\ s \in Seq(S) /\ DOMAIN s = 1..n /\ n \in Nat
      /\ \A x \in S : \E k \in 1..n : s[k] = x
      /\ \A x \in S : x = s[1] \/ <<s[1], x>> \in R
  BY <1>2, <1>3, InOrderFacts DEF s
<1> HIDE DEF n
<1>7. \A k \in 1..n : s[k] \in S
  BY <1>6
<1>8. Scored(listing) = [k \in 1..n |-> listing[s[k]]]
  BY <1>4, <1>6 DEF Scored
<1> DEFINE t == Scored(listing)
<1>9. DOMAIN t = 1..n /\ \A k \in 1..n : t[k] = listing[s[k]]
  BY <1>8
<1>10. \A k \in 1..n : t[k] \in Range(listing) /\ Eligible(t[k])
  BY <1>1, <1>7, <1>9, ListingFacts
<1>11. t \in [1..n -> Range(listing)]
  BY <1>8, <1>10
<1> HIDE DEF t
<1>12. t \in Seq(Range(listing)) /\ Len(t) = n
  BY <1>6, <1>11
<1>13. \A x \in S : \E k \in 1..n : t[k] = listing[x]
  BY <1>6, <1>9
<1>14. Range(t) = {o \in Range(listing) : Eligible(o)}
  <2>1. ASSUME NEW o \in Range(t) PROVE o \in Range(listing) /\ Eligible(o)
    BY <1>9, <1>10, <2>1 DEF Range
  <2>2. ASSUME NEW o \in Range(listing), Eligible(o) PROVE o \in Range(t)
    <3>1. PICK i \in DOMAIN listing : listing[i] = o
      BY <2>2 DEF Range
    <3>2. i \in S
      BY <1>1, <2>2, <3>1
    <3> QED
      BY <1>9, <1>13, <3>1, <3>2 DEF Range
  <2> QED
    BY <2>1, <2>2
<1>15. ASSUME NEW o \in Range(t) PROVE ~ Exceeds(Score(o), Score(t[1]))
  <2>1. PICK k \in 1..n : o = listing[s[k]]
    BY <1>9 DEF Range
  <2>2. 1 \in 1..n
    BY <1>6
  <2>3. t[1] = listing[s[1]] /\ s[1] \in S /\ s[k] \in S
    BY <1>7, <1>9, <2>2
  <2>4. s[k] = s[1] \/ Precedes(listing, s[1], s[k])
    BY <1>5, <1>6, <2>3
  <2>5. IsFraction(Score(t[1])) /\ IsFraction(Score(o))
    BY <1>1, <2>1, <2>3, ListingFacts
  <2> DEFINE a == Score(o)
             b == Score(t[1])
  <2>6. a = b \/ Exceeds(b, a) \/ ~ Exceeds(a, b)
    BY <2>1, <2>3, <2>4 DEF Precedes
  <2>7. IsFraction(a) /\ IsFraction(b)
    BY <2>5
  <2> HIDE DEF a, b
  <2>8. a.num * a.den \in Nat /\ a.num * b.den \in Nat /\ b.num * a.den \in Nat
    BY <2>7 DEF IsFraction
  <2>9. ~ Exceeds(a, b)
    BY <2>6, <2>8 DEF Exceeds
  <2> QED
    BY <2>9 DEF a, b
<1> QED
  BY <1>9, <1>12, <1>14, <1>15 DEF t

LEMMA ListOf ==
  ASSUME NEW n \in Nat, NEW S, NEW f \in [1..n -> S]
  PROVE  f \in Seq(S) /\ Len(f) = n /\ DOMAIN f = 1..n
OBVIOUS

\* The model reorders the offers, and neither drops nor invents one.
LEMMA RerankedFacts ==
  ASSUME NEW S, NEW scored \in Seq(S), DOMAIN scored = 1..Len(scored),
         NEW ids \in Seq(Nat),
         \A o, p \in Range(scored) : o.id = p.id => o = p
  PROVE  Reranked(scored, ids) \in Seq(S) /\ Range(Reranked(scored, ids)) = Range(scored)
<1> DEFINE T == {n \in DOMAIN ids : \E k \in DOMAIN scored : scored[k].id = ids[n]}
           U == {k \in DOMAIN scored : scored[k].id \notin Range(ids)}
           known == Ascending(T)
           others == Ascending(U)
           a == Named(scored, ids)
           b == LeftOut(scored, ids)
<1>1. DOMAIN ids = 1..Len(ids) /\ Len(ids) \in Nat /\ Len(scored) \in Nat
      /\ \A k \in DOMAIN scored : scored[k] \in S /\ scored[k] \in Range(scored)
  BY LenProperties DEF Range
<1>2. T \subseteq 1..Len(ids) /\ U \subseteq 1..Len(scored)
  BY <1>1
<1>3. /\ \A n \in DOMAIN ids : n \in T <=> \E k \in DOMAIN scored : scored[k].id = ids[n]
      /\ \A k \in DOMAIN scored : k \in U <=> scored[k].id \notin Range(ids)
  OBVIOUS
<1>4. a = [m \in DOMAIN known |-> OfferOf(scored, ids[known[m]])]
  BY DEF Named
<1>5. b = [m \in DOMAIN others |-> scored[others[m]]]
  BY DEF LeftOut
<1>6. Reranked(scored, ids) = a \o b
  BY DEF Reranked
<1> HIDE DEF T, U, a, b
<1>7. /\ known \in Seq(T) /\ DOMAIN known = 1..Len(known)
      /\ \A n \in T : \E m \in DOMAIN known : known[m] = n
  <2>1. Len(ids) \in Nat /\ T \in SUBSET (1..Len(ids))
    BY <1>1, <1>2
  <2> QED
    BY <2>1, AscendingFacts
<1>8. /\ others \in Seq(U) /\ DOMAIN others = 1..Len(others)
      /\ \A k \in U : \E m \in DOMAIN others : others[m] = k
  <2>1. Len(scored) \in Nat /\ U \in SUBSET (1..Len(scored))
    BY <1>1, <1>2
  <2> QED
    BY <2>1, AscendingFacts
<1> HIDE DEF known, others
<1>9. Len(known) \in Nat /\ Len(others) \in Nat
  BY <1>7, <1>8, LenProperties
<1>10. ASSUME NEW n \in T
       PROVE  /\ OfferOf(scored, ids[n]) \in S /\ OfferOf(scored, ids[n]) \in Range(scored)
              /\ OfferOf(scored, ids[n]).id = ids[n]
  <2>1. n \in DOMAIN ids
    BY <1>1, <1>2
  <2>2. \E k \in DOMAIN scored : scored[k].id = ids[n]
    BY <1>3, <2>1
  <2> DEFINE j == CHOOSE k \in DOMAIN scored : scored[k].id = ids[n]
  <2>3. j \in DOMAIN scored /\ scored[j].id = ids[n]
    BY <2>2
  <2>4. OfferOf(scored, ids[n]) = scored[j]
    BY DEF OfferOf
  <2> HIDE DEF j
  <2> QED
    BY <1>1, <2>3, <2>4
<1>11. \A m \in DOMAIN known : known[m] \in T /\ a[m] = OfferOf(scored, ids[known[m]])
  BY <1>4, <1>7
<1>12. \A m \in DOMAIN others : others[m] \in U /\ b[m] = scored[others[m]]
  BY <1>5, <1>8
<1>13. a \in [1..Len(known) -> S]
  BY <1>4, <1>7, <1>10, <1>11
<1>14. b \in [1..Len(others) -> S]
  BY <1>1, <1>2, <1>5, <1>8, <1>12
<1>15. /\ a \in Seq(S) /\ Len(a) = Len(known) /\ DOMAIN a = DOMAIN known
       /\ b \in Seq(S) /\ Len(b) = Len(others) /\ DOMAIN b = DOMAIN others
  <2>1. /\ a \in Seq(S) /\ DOMAIN a = 1..Len(known)
        /\ b \in Seq(S) /\ DOMAIN b = 1..Len(others)
        /\ Len(a) = Len(known) /\ Len(b) = Len(others)
    BY <1>9, <1>13, <1>14, ListOf
  <2> QED
    BY <1>7, <1>8, <2>1
<1> DEFINE c == a \o b
<1>16. /\ c \in Seq(S) /\ Len(c) = Len(a) + Len(b)
       /\ \A i \in 1..(Len(a) + Len(b)) : c[i] = IF i <= Len(a) THEN a[i] ELSE b[i - Len(a)]
  <2>1. a \in Seq(S) /\ b \in Seq(S)
    BY <1>15
  <2> QED
    BY <2>1, ConcatProperties
<1>17. DOMAIN c = 1..(Len(a) + Len(b))
  BY <1>16, LenProperties
<1> HIDE DEF c
<1>18. /\ \A m \in DOMAIN a : m \in DOMAIN c /\ c[m] = a[m]
       /\ \A m \in DOMAIN b : m + Len(a) \in DOMAIN c /\ c[m + Len(a)] = b[m]
  <2>1. /\ Len(a) \in Nat /\ Len(b) \in Nat
        /\ DOMAIN a = 1..Len(a) /\ DOMAIN b = 1..Len(b)
    BY <1>7, <1>8, <1>9, <1>15
  <2>2. ASSUME NEW m \in DOMAIN a PROVE m \in DOMAIN c /\ c[m] = a[m]
    <3>1. m \in 1..(Len(a) + Len(b)) /\ m <= Len(a)
      BY <2>1
    <3> QED
      BY <1>16, <1>17, <3>1
  <2>3. ASSUME NEW m \in DOMAIN b
        PROVE  m + Len(a) \in DOMAIN c /\ c[m + Len(a)] = b[m]
    <3>1. /\ m + Len(a) \in 1..(Len(a) + Len(b)) /\ ~ (m + Len(a) <= Len(a))
          /\ (m + Len(a)) - Len(a) = m
      BY <2>1
    <3> QED
      BY <1>16, <1>17, <3>1
  <2> QED
    BY <2>2, <2>3
<1>19. \A i \in DOMAIN c : (\E m \in DOMAIN a : c[i] = a[m]) \/ (\E m \in DOMAIN b : c[i] = b[m])
  <2> SUFFICES ASSUME NEW i \in DOMAIN c
               PROVE  (\E m \in DOMAIN a : c[i] = a[m]) \/ (\E m \in DOMAIN b : c[i] = b[m])
    OBVIOUS
  <2>1. CASE i <= Len(a)
    <3>1. i \in DOMAIN a /\ c[i] = a[i]
      BY <1>7, <1>9, <1>15, <1>16, <1>17, <2>1
    <3> QED
      BY <3>1
  <2>2. CASE i > Len(a)
    <3>1. i - Len(a) \in DOMAIN b /\ c[i] = b[i - Len(a)]
      BY <1>7, <1>8, <1>9, <1>15, <1>16, <1>17, <2>2
    <3> QED
      BY <3>1
  <2> QED
    BY <1>9, <1>15, <1>17, <2>1, <2>2
<1>20. ASSUME NEW o \in Range(c) PROVE o \in Range(scored)
  <2>1. PICK i \in DOMAIN c : c[i] = o
    BY DEF Range
  <2>2. \A m \in DOMAIN a : a[m] \in Range(scored)
    BY <1>10, <1>11, <1>15
  <2>3. \A m \in DOMAIN b : b[m] \in Range(scored)
    BY <1>1, <1>2, <1>12, <1>15
  <2> QED
    BY <1>19, <2>1, <2>2, <2>3
<1>21. ASSUME NEW o \in Range(scored) PROVE o \in Range(c)
  <2>1. PICK k \in DOMAIN scored : scored[k] = o
    BY DEF Range
  <2>2. CASE o.id \in Range(ids)
    <3>1. PICK n \in DOMAIN ids : ids[n] = o.id
      BY <2>2 DEF Range
    <3>2. n \in T
      BY <1>3, <2>1, <3>1
    <3>3. PICK m \in DOMAIN known : known[m] = n
      BY <1>7, <3>2
    <3>4. a[m] = OfferOf(scored, ids[n])
      BY <1>11, <3>3
    <3>5. a[m] \in Range(scored) /\ a[m].id = o.id
      BY <1>10, <3>1, <3>2, <3>4
    <3>6. a[m] = o
      BY <1>21, <3>5
    <3>7. m \in DOMAIN c /\ c[m] = o
      BY <1>15, <1>18, <3>6
    <3> QED
      BY <3>7 DEF Range
  <2>3. CASE o.id \notin Range(ids)
    <3>1. k \in U
      BY <1>3, <2>1, <2>3
    <3>2. PICK m \in DOMAIN others : others[m] = k
      BY <1>8, <3>1
    <3>3. b[m] = o /\ m \in DOMAIN b
      BY <1>12, <1>15, <2>1, <3>2
    <3>4. m + Len(a) \in DOMAIN c /\ c[m + Len(a)] = o
      BY <1>18, <3>3
    <3> QED
      BY <3>4 DEF Range
  <2> QED
    BY <2>2, <2>3
<1> QED
  BY <1>6, <1>16, <1>20, <1>21 DEF c

-----------------------------------------------------------------------------
\* What the agent settles on is justified, for every listing and every reply.
LEMMA DealsCorrect ==
  ASSUME NEW listing, IsListing(listing), NEW amount \in Nat,
         NEW reply, reply = Unusable \/ reply \in Seq(Nat)
  PROVE  DealIsJustified(listing, amount, reply)
<1> DEFINE scored == Scored(listing)
           eligible == {o \in Range(listing) : Eligible(o)}
           list == Rerank(scored, reply)
           deal == FindBestDeal(listing, amount, reply)
<1>1. /\ scored \in Seq(Range(listing)) /\ DOMAIN scored = 1..Len(scored)
      /\ Range(scored) = eligible
      /\ \A o \in Range(scored) : ~ Exceeds(Score(o), Score(scored[1]))
  BY ScoredFacts
<1>2. \A o, p \in eligible : o.id = p.id => o = p
  BY DEF IsListing
<1>3. \A o \in eligible : o.reputation \in Int /\ o.rate \in Nat \ {0}
  BY DEF IsListing
<1>4. amount \in Int /\ AutoSpendLimit \in Int
  BY AgentAssumption DEF AgentAssumption
<1>5. deal = IF scored = <<>> THEN NoDeal
             ELSE [kind |-> IF amount <= AutoSpendLimit THEN "AutoApproved"
                            ELSE "NeedsConfirmation",
                   offer |-> Head(list)]
  BY DEF FindBestDeal
<1>6. list = IF reply = Unusable \/ Len(scored) <= 1 THEN scored ELSE Reranked(scored, reply)
  BY DEF Rerank
<1>7. DealIsJustified(listing, amount, reply) <=>
        IF eligible = {} THEN deal = NoDeal
        ELSE /\ deal.offer \in eligible
             /\ Range(list) = eligible
             /\ reply = Unusable => \A o \in eligible : ~ Cheaper(o, deal.offer)
             /\ deal.kind = "AutoApproved" <=> amount <= AutoSpendLimit
  BY DEF DealIsJustified
<1> HIDE DEF scored, eligible, list, deal
<1>8. scored = <<>> <=> eligible = {}
  <2>1. Len(scored) \in Nat /\ (scored = <<>> <=> Len(scored) = 0)
    BY <1>1, EmptySeq, LenProperties
  <2>2. eligible = {scored[k] : k \in 1..Len(scored)}
    BY <1>1 DEF Range
  <2>3. Len(scored) # 0 => scored[1] \in eligible
    BY <2>1, <2>2
  <2>4. Len(scored) = 0 => eligible = {}
    BY <2>2
  <2> QED
    BY <2>1, <2>3, <2>4
<1>9. CASE eligible = {}
  BY <1>5, <1>7, <1>8, <1>9
<1>10. CASE eligible # {}
  <2>1. list \in Seq(Range(listing)) /\ Range(list) = eligible
    <3>1. CASE reply = Unusable \/ Len(scored) <= 1
      BY <1>1, <1>6, <3>1
    <3>2. CASE ~ (reply = Unusable \/ Len(scored) <= 1)
      <4>1. reply \in Seq(Nat) /\ list = Reranked(scored, reply)
        BY <1>6, <3>2
      <4>2. \A o, p \in Range(scored) : o.id = p.id => o = p
        BY <1>1, <1>2
      <4> QED
        BY <1>1, <4>1, <4>2, RerankedFacts
    <3> QED
      BY <3>1, <3>2
  <2>2. Len(list) \in Nat /\ DOMAIN list = 1..Len(list)
    BY <2>1, LenProperties
  <2>3. list # <<>> /\ 1 \in DOMAIN list
    <3>1. PICK o : o \in Range(list)
      BY <1>10, <2>1
    <3>2. PICK k \in DOMAIN list : list[k] = o
      BY <3>1 DEF Range
    <3>3. Len(list) # 0
      BY <2>2, <3>2
    <3> QED
      BY <2>1, <2>2, <3>3, EmptySeq
  <2>4. Head(list) = list[1]
    BY <2>1, <2>3
  <2>5. list[1] \in eligible
    BY <2>1, <2>3 DEF Range
  <2>6. deal.offer = list[1] /\ (deal.kind = "AutoApproved" <=> amount <= AutoSpendLimit)
    BY <1>4, <1>5, <1>8, <1>10, <2>4
  <2>7. ASSUME reply = Unusable, NEW o \in eligible PROVE ~ Cheaper(o, deal.offer)
    <3>1. deal.offer = scored[1]
      BY <1>6, <2>6, <2>7
    <3>2. ~ Exceeds(Score(o), Score(scored[1]))
      BY <1>1
    <3>3. scored[1] \in eligible
      BY <2>5, <2>6, <3>1
    <3> QED
      BY <1>3, <3>1, <3>2, <3>3, CheaperExceeds
  <2> QED
    BY <1>7, <1>10, <2>1, <2>5, <2>6, <2>7
<1> QED
  BY <1>9, <1>10

\* Without the model a route is justified, whoever the peers are.
LEMMA RoutesCorrect ==
  ASSUME NEW peers \in Seq([trust : Int, debt : Int]), NEW localhost \in BOOLEAN
  PROVE  RouteIsJustified(peers, localhost)
<1> DEFINE D == DOMAIN peers
           R == {r \in D \X D : Preferable(peers, r[1], r[2])}
           best == InOrder(D, R)[1]
           path == DecideRoute(peers, localhost, Unusable)
           trusted == {i \in D : peers[i].trust >= 50}
           t == [i \in D |-> peers[i].trust]
           debt == [i \in D |-> peers[i].debt]
<1>1. /\ Len(peers) \in Nat /\ D = 1..Len(peers)
      /\ \A i \in D : peers[i].trust \in Int /\ peers[i].debt \in Int
      /\ peers = <<>> <=> Len(peers) = 0
  <2>1. Len(peers) \in Nat /\ D = 1..Len(peers) /\ peers \in [D -> [trust : Int, debt : Int]]
    BY LenProperties
  <2>2. peers = <<>> <=> Len(peers) = 0
    BY EmptySeq
  <2> QED
    BY <2>1, <2>2
<1>2. path = IF peers = <<>> \/ localhost THEN Direct
             ELSE IF peers[best].trust < 50 THEN Direct ELSE <<best>>
  BY DEF DecideRoute, Fallback
<1>3. RouteIsJustified(peers, localhost) <=>
        IF localhost \/ trusted = {} THEN path = Direct
        ELSE /\ path[1] \in trusted
             /\ \A i \in trusted : peers[i].trust <= peers[path[1]].trust
             /\ \A i \in trusted : peers[i].trust = peers[path[1]].trust =>
                  peers[i].debt >= peers[path[1]].debt
  BY DEF RouteIsJustified
<1>4. \A i, j \in D : <<i, j>> \in R <=> Preferable(peers, i, j)
  OBVIOUS
<1>5. \A i \in D : i \in trusted <=> peers[i].trust >= 50
  OBVIOUS
<1>6. trusted \subseteq D
  OBVIOUS
<1>13. \A i \in D : t[i] = peers[i].trust /\ debt[i] = peers[i].debt
  OBVIOUS
<1> HIDE DEF D, R, best, path, trusted, t, debt
<1>14. \A i \in D : t[i] \in Int /\ debt[i] \in Int /\ i \in Int
  BY <1>1, <1>13
<1>15. \A i, j \in D : Preferable(peers, i, j) <=>
         \/ t[i] > t[j]
         \/ t[i] = t[j] /\ debt[i] < debt[j]
         \/ t[i] = t[j] /\ debt[i] = debt[j] /\ i < j
  BY <1>13 DEF Preferable
<1>7. IsFiniteSet(D)
  <2>1. 1 \in Int /\ Len(peers) \in Int
    BY <1>1
  <2> QED
    BY <1>1, <2>1, FS_Interval
<1>9. Orders(D, R)
  <2>1. \A i \in D : ~ Preferable(peers, i, i)
    BY <1>14, <1>15
  <2>2. \A i, j \in D : i = j \/ Preferable(peers, i, j) \/ Preferable(peers, j, i)
    BY <1>14, <1>15
  <2>3. \A i, j, k \in D :
          Preferable(peers, i, j) /\ Preferable(peers, j, k) => Preferable(peers, i, k)
    BY <1>14, <1>15
  <2> QED
    BY <1>4, <2>1, <2>2, <2>3 DEF Orders
<1>10. CASE peers = <<>>
  <2>1. trusted = {}
    BY <1>1, <1>6, <1>10
  <2> QED
    BY <1>2, <1>3, <1>10, <2>1
<1>11. CASE localhost
  BY <1>2, <1>3, <1>11
<1>12. CASE peers # <<>> /\ ~ localhost
  <2>1. /\ best \in D
        /\ \A i \in D : i = best \/ Preferable(peers, best, i)
    <3>1. /\ InOrder(D, R) \in Seq(D) /\ DOMAIN InOrder(D, R) = 1..Cardinality(D)
          /\ Cardinality(D) \in Nat /\ (Cardinality(D) = 0 <=> D = {})
          /\ \A i \in D : i = InOrder(D, R)[1] \/ <<InOrder(D, R)[1], i>> \in R
      BY <1>7, <1>9, InOrderFacts
    <3>2. D # {}
      BY <1>1, <1>12
    <3>3. 1 \in DOMAIN InOrder(D, R)
      BY <3>1, <3>2
    <3>4. best \in D
      BY <3>1, <3>3 DEF best
    <3>5. \A i \in D : i = best \/ <<best, i>> \in R
      BY <3>1 DEF best
    <3> QED
      BY <1>4, <3>4, <3>5
  <2>2. ASSUME NEW i \in D
        PROVE  /\ peers[i].trust <= peers[best].trust
               /\ peers[i].trust = peers[best].trust => peers[i].debt >= peers[best].debt
    <3>1. i = best \/ Preferable(peers, best, i)
      BY <2>1
    <3>2. t[i] <= t[best] /\ (t[i] = t[best] => debt[i] >= debt[best])
      BY <1>14, <1>15, <2>1, <3>1
    <3> QED
      BY <1>13, <2>1, <3>2
  <2>3. CASE peers[best].trust < 50
    <3>1. \A i \in D : ~ (peers[i].trust >= 50)
      BY <1>1, <2>1, <2>2, <2>3
    <3>2. trusted = {}
      BY <1>5, <1>6, <3>1
    <3> QED
      BY <1>2, <1>3, <2>3, <3>2
  <2>4. CASE ~ (peers[best].trust < 50)
    <3>1. best \in trusted
      BY <1>1, <1>5, <2>1, <2>4
    <3>2. path = <<best>>
      BY <1>2, <1>12, <2>4
    <3>3. path[1] = best
      BY <3>2
    <3>4. /\ \A i \in trusted : peers[i].trust <= peers[best].trust
          /\ \A i \in trusted : peers[i].trust = peers[best].trust =>
               peers[i].debt >= peers[best].debt
      BY <1>6, <2>2
    <3> QED
      BY <1>3, <1>12, <3>1, <3>3, <3>4
  <2> QED
    BY <2>3, <2>4
<1> QED
  BY <1>10, <1>11, <1>12

LEMMA AllJustified == JustifiedWithout /\ JustifiedWith
<1>1. ASSUME NEW listing \in Listings, NEW amount \in Spendings,
             NEW reply \in Replies \cup {Unusable}
      PROVE  DealIsJustified(listing, amount, reply)
  <2>1. IsListing(listing) /\ amount \in Nat /\ (reply = Unusable \/ reply \in Seq(Nat))
    BY AgentAssumption DEF AgentAssumption
  <2> QED
    BY <2>1, DealsCorrect
<1>2. ASSUME NEW peers \in PeerLists, NEW localhost \in BOOLEAN
      PROVE  RouteIsJustified(peers, localhost)
  <2>1. peers \in Seq([trust : Int, debt : Int])
    BY AgentAssumption DEF AgentAssumption
  <2> QED
    BY <2>1, RoutesCorrect
<1> QED
  BY <1>1, <1>2 DEF JustifiedWithout, JustifiedWith, DealsAreJustified


\* What a call takes from the model, or decides without it, is justified, for
\* every listing, amount, list of peers and reply.
THEOREM ChoiceCorrect == FeedSpec => []ChoiceIsJustified
<1>1. ChoiceIsJustified
  BY AllJustified DEF ChoiceIsJustified
<1> QED
  BY <1>1, PTL
=============================================================================
