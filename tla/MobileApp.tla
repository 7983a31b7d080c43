----------------------------- MODULE MobileApp -----------------------------
(***************************************************************************)
(* The Android app: main() (main.dart) prepares and starts the node and    *)
(* then applies the proxy mode the user has saved; the settings screen     *)
(* (settings_screen.dart) saves another and applies it; the connect screen *)
(* starts and stops the VPN.  Calls into Rust are run by its own threads,  *)
(* which may take the one made later first.                                *)
(***************************************************************************)
EXTENDS NodeRuntime, VpnTunnel

CONSTANTS Changes  \* changes of the proxy mode in the settings

ASSUME AppAssumption == Changes \cap (1..Launches) = {}

VARIABLES
  saved,    \* the proxy mode in the preferences
  setting,  \* what launches and changes are setting the mode to
  orderly   \* history: the mode was set by one at a time, and either no launch came
            \* during another's calls or a change was made alone since, with the node up

appVars == <<saved, setting, orderly>>
vars == <<runtimeVars, vpnVars, appVars>>

Setters == (1..Launches) \cup Changes

\* "storing": the preferences are being written.
NotSetting == [at |-> "no", value |-> None]
Setting(at, x) == [at |-> at, value |-> x]

Busy == \E s \in Setters : setting[s].at \in {"storing", "setting"}

Init ==
  /\ RuntimeInit /\ VpnInit
  /\ saved \in Modes
  /\ setting = [s \in Setters |-> NotSetting]
  /\ orderly = TRUE

-----------------------------------------------------------------------------
\* main() runs, for the first time or because the activity was created again.
Launch ==
  LET m == launched + 1 IN
  /\ m <= Launches
  /\ launched' = m
  /\ Goes(m, "launched")
  /\ Appear
  /\ orderly' = (orderly /\ \A n \in 1..launched : Ended(n))
  /\ UNCHANGED <<nodeStarted, services, handles, servers, mode, saved, setting>>

\* The activity goes and the process stays: what the Dart code was about to do is not
\* done any more, what it has called goes on.
Leave ==
  /\ Disappear
  /\ setting' = [s \in Setters |->
       IF setting[s].at = "storing" THEN NotSetting ELSE setting[s]]
  /\ UNCHANGED <<runtimeVars, saved, orderly>>

\* main() awaits prepare_local_runtime before it starts the node.
MainStarts ==
  /\ open /\ StartHydraNode(launched)
  /\ UNCHANGED <<vpnVars, appVars>>

\* A setting of the mode begins.
Begins == orderly' = (~Busy /\ (orderly \/ handles[ProxyModeHandle] # None))

\* Mutant: the mode of hydra.toml is applied, not the saved one.
MainAppliesConfigMode ==
  /\ open /\ At(launched, "started") /\ setting[launched] = NotSetting
  /\ setting' = [setting EXCEPT ![launched] = Setting("setting", ConfigMode)]
  /\ Begins
  /\ UNCHANGED <<runtimeVars, vpnVars, saved>>

\* Once the node has started, main() applies the saved mode.
MainApplies ==
  /\ open /\ At(launched, "started") /\ setting[launched] = NotSetting
  /\ setting' = [setting EXCEPT ![launched] = Setting("setting", saved)]
  /\ Begins
  /\ UNCHANGED <<runtimeVars, vpnVars, saved>>

\* _saveProxyMode: the preferences answer with the new mode at once, and the
\* node gets it when they are stored.
SaveProxyMode(c, x) ==
  /\ open /\ setting[c] = NotSetting
  /\ saved' = x
  /\ setting' = [setting EXCEPT ![c] = Setting("storing", x)]
  /\ Begins
  /\ UNCHANGED <<runtimeVars, vpnVars>>

Stored(c) ==
  /\ setting[c].at = "storing"
  /\ setting' = [setting EXCEPT ![c].at = "setting"]
  /\ UNCHANGED <<runtimeVars, vpnVars, saved, orderly>>

SetterSets(s) ==
  /\ setting[s].at = "setting"
  /\ SetProxyMode(setting[s].value)
  /\ setting' = [setting EXCEPT ![s] = Setting("done", None)]
  /\ UNCHANGED <<launched, stage, locked, nodeStarted, services, handles, servers,
                 vpnVars, saved, orderly>>

Vpn == VpnNext /\ UNCHANGED <<runtimeVars, appVars>>

Next ==
  \/ Launch \/ Leave \/ MainStarts \/ MainApplies
  \/ \E m \in 1..Launches : Calls(m) /\ UNCHANGED <<vpnVars, appVars>>
  \/ \E c \in Changes : Stored(c) \/ \E x \in Modes : SaveProxyMode(c, x)
  \/ \E s \in Setters : SetterSets(s)
  \/ Vpn

Spec == Init /\ [][Next]_vars

-----------------------------------------------------------------------------
TypeOK ==
  /\ RuntimeTypeOK /\ VpnTypeOK
  /\ saved \in Modes /\ orderly \in BOOLEAN
  /\ setting \in [Setters -> [at : {"no", "storing", "setting", "done"},
                             value : Modes \cup {None}]]

\* While the app is open and nothing is being set, the server works in the mode the
\* settings show, although a change made before the node was up was refused; unless the
\* mode was last set from two sides at once, or a launch came during another's calls:
\* then the next change that is made alone puts it right.
SavedModeIsInForce ==
  /\ orderly /\ ~Busy
  /\ open /\ setting[launched].at = "done"
  => \A m \in servers : mode[m] = saved

\* However launches overlap and fail, one server runs at most, every handle the screens
\* find is of that server, and so is what they find of its credit, except what another
\* launch has opened for itself.
ScreensSeeOneNode ==
  /\ \A g, h \in Handles : handles[g] # None /\ handles[h] # None => handles[g] = handles[h]
  /\ \A m \in servers :
       /\ \A h \in Handles : handles[h] = m
       /\ \A s \in Services :
            \/ services[s] = Started(m)
            \/ \E n \in (1..launched) \ {m} : services[s] = Prepared(n)
=============================================================================
