----------------------------- MODULE VpnTunnel -----------------------------
(***************************************************************************)
(* The VPN of the Android app.  The connect screen (connect_screen.dart)   *)
(* asks the activity (MainActivity.kt), which asks for the user's consent  *)
(* and sends intents to the service (HydraVpnService.kt); the service      *)
(* establishes an interface and tells the screen, which starts tun2proxy   *)
(* on it in Rust (api/vpn.rs).  Stopping takes two ways at once: an intent *)
(* to the service, and the cancellation token in Rust.  The service also   *)
(* forgets its interface when the system destroys it, some time after it   *)
(* has stopped itself.                                                     *)
(*                                                                         *)
(* Messages between Dart and the activity, and intents, arrive in order.   *)
(* A device has one interface at most: establishing another takes the one  *)
(* before away.  A tunnel that is cancelled closes its interface.          *)
(***************************************************************************)
EXTENDS Integers, Sequences, FiniteSets, SequencesExt

CONSTANTS
  MaxPresses,  \* bound on what the screen asks the activity
  NoFd         \* -1

ASSUME VpnAssumption == MaxPresses \in Nat /\ NoFd \notin Nat

VARIABLES
  open,       \* there is an activity, and in it the connect screen
  active,     \* gIsVpnActive
  presses,    \* calls the screen has made
  toActivity, \* calls on their way to the activity
  dialogs,    \* consent dialogs the user has not answered
  intents,    \* intents on their way to the service
  destroying, \* the service has stopped itself, and the system may destroy it
  currentFd,  \* of the service, with isRunning
  lastFd,     \* interfaces established so far
  toScreen,   \* replies and interfaces on their way to the screen
  token,      \* VPN_CANCEL_TOKEN: the interface of the tunnel it cancels
  up,         \* the interface that takes the traffic of the device
  served,     \* a tunnel runs on it
  stray       \* history: interfaces whose start and stop missed each other

screenVars == <<open, active, presses, toActivity, dialogs, toScreen>>
serviceVars == <<intents, destroying, currentFd, lastFd>>
tunnelVars == <<token, up, served>>
vpnVars == <<screenVars, serviceVars, tunnelVars, stray>>

\* The app keeps nothing of this over the death of its process; but the system then
\* starts a service that returned START_STICKY again, with no intent, which it takes
\* for one to connect.
VpnInit ==
  /\ open = FALSE /\ active = FALSE
  /\ presses = 0
  /\ toActivity = <<>> /\ dialogs = 0 /\ toScreen = <<>>
  /\ intents \in {<<>>, <<"connect">>}
  /\ destroying = FALSE
  /\ currentFd = NoFd /\ lastFd = 0
  /\ token = NoFd /\ up = NoFd /\ served = FALSE
  /\ stray = {}

Reply(name, value) == [type |-> "reply", name |-> name, value |-> value]
Interface(fd) == [type |-> "interface", fd |-> fd]

IsStop(m) == m.type = "reply" /\ m.name = "stop"
IsInterface(m) == m.type = "interface"

\* The answer to a stop is on its way to the screen, with the interface not behind it.
StopComes(fd) ==
  \E i \in DOMAIN toScreen :
    /\ IsStop(toScreen[i])
    /\ \A j \in DOMAIN toScreen : j > i => toScreen[j] # Interface(fd)

Settled == toActivity = <<>> /\ dialogs = 0 /\ intents = <<>> /\ toScreen = <<>>

-----------------------------------------------------------------------------
(* The screen.                                                             *)

\* The activity is created, and the screen asks whether there is an interface
\* (_syncVpnStatus).
Appear ==
  /\ ~open
  /\ open' = TRUE
  /\ toActivity' = <<"status">>
  /\ UNCHANGED <<active, presses, dialogs, toScreen, serviceVars, tunnelVars, stray>>

\* The activity is destroyed: what was on its way to it or to the screen is lost, the
\* answer to a dialog perhaps not.  A stop whose answer is lost does not get to Rust.
Disappear ==
  /\ open
  /\ open' = FALSE /\ active' = FALSE
  /\ toActivity' = <<>> /\ toScreen' = <<>>
  /\ dialogs' \in {0, dialogs}
  /\ stray' = stray \cup {m.fd : m \in {n \in Range(toScreen) : IsInterface(n)}}
                   \cup IF \E m \in Range(toScreen) : IsStop(m) THEN {up} \ {NoFd} ELSE {}
  /\ UNCHANGED <<presses, serviceVars, tunnelVars>>

\* _toggleVpn and _autoStartVpn, up to the answer of the activity.
Press ==
  /\ open /\ presses < MaxPresses
  /\ presses' = presses + 1
  /\ toActivity' = Append(toActivity, IF active THEN "stop" ELSE "start")
  /\ UNCHANGED <<open, active, dialogs, toScreen, serviceVars, tunnelVars, stray>>

\* stop_vpn_tunnel.
StopVpnTunnel ==
  /\ token' = NoFd
  /\ IF served /\ token = up THEN up' = NoFd /\ served' = FALSE
     ELSE UNCHANGED <<up, served>>

\* Mutant: a token that was set is kept.
StartVpnTunnelKeeping(fd) ==
  /\ token' = IF token = NoFd THEN fd ELSE token
  /\ served' = (served \/ fd = up)
  /\ UNCHANGED up

\* start_vpn_tunnel: a tunnel on an interface that is gone ends by itself.
StartVpnTunnel(fd) ==
  /\ token' = fd
  /\ served' = (served \/ fd = up)
  /\ UNCHANGED up

\* An interface for the tunnel, or the answer of the activity.
ScreenReceives ==
  /\ toScreen # <<>>
  /\ toScreen' = Tail(toScreen)
  /\ LET m == Head(toScreen) IN
       \/ /\ IsInterface(m) /\ StartVpnTunnel(m.fd)
          /\ stray' = IF active THEN stray ELSE stray \cup {m.fd}
          /\ UNCHANGED active
       \/ IsStop(m) /\ StopVpnTunnel /\ active' = FALSE /\ UNCHANGED stray
       \/ /\ ~IsInterface(m) /\ ~IsStop(m)
          /\ active' = m.value /\ UNCHANGED <<tunnelVars, stray>>
  /\ UNCHANGED <<open, presses, toActivity, dialogs, serviceVars>>

-----------------------------------------------------------------------------
(* The activity.                                                           *)

\* The method call handler: whether the user has yet to consent is up to the
\* system; the answer does not wait for it.
ActivityHandles ==
  /\ toActivity # <<>>
  /\ toActivity' = Tail(toActivity)
  /\ \/ /\ Head(toActivity) = "start"
        /\ \/ dialogs' = dialogs + 1 /\ UNCHANGED intents
           \/ intents' = Append(intents, "connect") /\ UNCHANGED dialogs
        /\ toScreen' = Append(toScreen, Reply("start", TRUE))
     \/ /\ Head(toActivity) = "stop"
        /\ intents' = Append(intents, "disconnect")
        /\ toScreen' = Append(toScreen, Reply("stop", TRUE))
        /\ UNCHANGED dialogs
     \/ /\ Head(toActivity) = "status"
        /\ toScreen' = Append(toScreen, Reply("status", currentFd # NoFd))
        /\ UNCHANGED <<dialogs, intents>>
  /\ UNCHANGED <<open, active, presses, destroying, currentFd, lastFd, tunnelVars, stray>>

\* onActivityResult.
Consent ==
  /\ open /\ dialogs > 0
  /\ dialogs' = dialogs - 1
  /\ \/ intents' = Append(intents, "connect")
     \/ UNCHANGED intents
  /\ UNCHANGED <<open, active, presses, toActivity, toScreen, destroying, currentFd,
                 lastFd, tunnelVars, stray>>

-----------------------------------------------------------------------------
(* The service.                                                            *)

\* An interface is established, and the screen is told if there is one.
Establish ==
  LET fd == lastFd + 1 IN
  /\ lastFd' = fd /\ currentFd' = fd /\ up' = fd /\ served' = FALSE
  /\ IF open THEN toScreen' = Append(toScreen, Interface(fd)) /\ UNCHANGED stray
     ELSE stray' = stray \cup {fd} /\ UNCHANGED toScreen
  /\ UNCHANGED token

\* startVpn of the service: there is an interface already, or one is established, or
\* that fails and the service stops itself.  A service that was about to be destroyed
\* may go on.
Connect ==
  \/ /\ currentFd # NoFd
     /\ destroying' \in {destroying, FALSE}
     /\ UNCHANGED <<currentFd, lastFd, toScreen, tunnelVars, stray>>
  \/ /\ currentFd = NoFd
     /\ destroying' \in {destroying, FALSE}
     /\ Establish
  \/ /\ currentFd = NoFd
     /\ destroying' = TRUE
     /\ UNCHANGED <<currentFd, lastFd, toScreen, tunnelVars, stray>>

\* stopVpn of the service.
Forget ==
  /\ currentFd' = NoFd
  /\ stray' = IF currentFd = NoFd \/ StopComes(currentFd) THEN stray ELSE stray \cup {currentFd}
  /\ UNCHANGED <<lastFd, toScreen, tunnelVars>>

Disconnect == Forget /\ destroying' = TRUE

\* onStartCommand.
ServiceHandles ==
  /\ intents # <<>>
  /\ intents' = Tail(intents)
  /\ \/ Head(intents) = "connect" /\ Connect
     \/ Head(intents) = "disconnect" /\ Disconnect
  /\ UNCHANGED <<open, active, presses, toActivity, dialogs>>

\* onDestroy: stopVpn again, perhaps after the service was asked to connect once more.
Destroy ==
  /\ destroying
  /\ destroying' = FALSE
  /\ Forget
  /\ UNCHANGED <<open, active, presses, toActivity, dialogs, intents>>

\* The user or another app revokes the VPN: the service, which does not override
\* onRevoke, stops itself.
Revoke ==
  /\ up # NoFd
  /\ up' = NoFd /\ served' = FALSE
  /\ destroying' = TRUE
  /\ UNCHANGED <<screenVars, intents, currentFd, lastFd, token, stray>>

\* The tunnel breaks; Rust keeps the token.
TunnelEnds ==
  /\ served
  /\ up' = NoFd /\ served' = FALSE
  /\ UNCHANGED <<screenVars, serviceVars, token, stray>>

VpnNext ==
  \/ Press \/ ScreenReceives \/ ActivityHandles \/ Consent
  \/ ServiceHandles \/ Destroy \/ Revoke \/ TunnelEnds

-----------------------------------------------------------------------------
Words == {"start", "stop", "status"}
Intents == {"connect", "disconnect"}
Messages == [type : {"reply"}, name : Words, value : BOOLEAN]
              \cup [type : {"interface"}, fd : Nat]
Fds == Nat \cup {NoFd}

VpnTypeOK ==
  /\ open \in BOOLEAN /\ active \in BOOLEAN /\ destroying \in BOOLEAN /\ served \in BOOLEAN
  /\ presses \in 0..MaxPresses
  /\ toActivity \in Seq(Words) /\ intents \in Seq(Intents) /\ toScreen \in Seq(Messages)
  /\ dialogs \in Nat /\ lastFd \in Nat
  /\ currentFd \in Fds /\ token \in Fds /\ up \in Fds
  /\ stray \subseteq Nat

\* When nothing is under way and the screen shows the VPN as off, the traffic of the
\* device is taken by no interface but one whose start and stop missed each other: it
\* came to a screen that was off again, gone or not there yet, or the service forgot it
\* with no stop on its way to the tunnel, as when it is destroyed late.  And the tunnel
\* of whatever interface is up, a stray one too, is the one that the token cancels, so
\* that it can be stopped.
OffIsOff ==
  /\ Settled /\ open /\ up # NoFd => active \/ up \in stray
  /\ served => token = up
=============================================================================
