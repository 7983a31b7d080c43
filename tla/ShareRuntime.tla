---------------------------- MODULE ShareRuntime ----------------------------
(***************************************************************************)
(* The Share & Earn switch of the mobile app (provider_runtime.rs): calls  *)
(* from the user interface, the background task that keeps the session     *)
(* with the relay, the state file of each profile, which both write, and   *)
(* the SHARE_RUNTIME mutex around the handle of the task.                  *)
(*                                                                         *)
(* Calls and task run on threads of their own, so one action is the code   *)
(* from one await, or one access to a shared file, to the next: a state is *)
(* loaded, changed in memory, and saved by fs::write, which empties the    *)
(* file before it fills it.  Nothing keeps another load or save out.       *)
(*                                                                         *)
(* Left out: graduation to the RouteBook, which needs settled earnings that *)
(* nothing in the app ever sets.  The provider metrics and the reputation  *)
(* sync, which touch neither the file nor the task, are in ProviderMetrics. *)
(***************************************************************************)
EXTENDS Integers, FiniteSets

CONSTANTS
  Profiles,
  Calls,     \* calls that can be in progress at the same time
  Tasks,     \* background tasks that can be alive at the same time
  Settings,  \* values of ShareSettings
  DefaultSettings,
  MaxStarts, \* bound on the number of calls
  None

ASSUME ShareAssumption ==
  /\ DefaultSettings \in Settings
  /\ MaxStarts \in Nat
  /\ None \notin Profiles \cup Calls \cup Tasks \cup Settings

VARIABLES
  file,     \* ProviderState of each profile, as it was last written in full
  torn,     \* profiles whose file is cut short: a save has emptied it and not
            \* filled it again, or two saves have mixed what they wrote
  lock,     \* the call that holds SHARE_RUNTIME across an await
  handle,   \* the task in SHARE_RUNTIME
  call,     \* the calls in progress
  task,     \* the tasks
  started,  \* number of calls started, which the bound MaxStarts ends
  orderly   \* ghost: calls came one after the other, and the app was not killed

vars == <<file, torn, lock, handle, call, task, started, orderly>>

ProviderState ==
  [enabled : BOOLEAN, active : BOOLEAN, registered : BOOLEAN,
   settings : Settings]

Default ==
  [enabled |-> FALSE, active |-> FALSE, registered |-> FALSE,
   settings |-> DefaultSettings]

\* "copy" is what the call or the task has loaded and changed and will save, and
\* "then" is where it goes when it has.
Idle == [at |-> "idle", profile |-> None, copy |-> Default, then |-> "idle", joins |-> None]
Finished ==
  [at |-> "finished", profile |-> None, copy |-> Default, then |-> "finished", stop |-> FALSE]

Live(t) == task[t].at # "finished"

CallPlaces ==
  {"idle", "registering", "ensuring", "locking", "joining", "saving", "writing", "answering"}

CallState ==
  [at : CallPlaces, profile : Profiles \cup {None}, copy : ProviderState,
   then : {"idle", "ensuring", "answering"}, joins : Tasks \cup {None}]

TaskPlaces ==
  {"finished", "top", "connecting", "backoff", "publishing", "announcing", "serving",
   "session", "failing", "saving", "writing"}

TaskState ==
  [at : TaskPlaces, profile : Profiles \cup {None}, copy : ProviderState,
   then : TaskPlaces \ {"announcing", "saving", "writing"}, stop : BOOLEAN]

\* A call in progress and a live task have a profile; the mutex is held across
\* an await exactly while a call waits for a task; a call that saves goes on.
TypeOK ==
  /\ file \in [Profiles -> ProviderState]
  /\ torn \subseteq Profiles
  /\ lock \in Calls \cup {None}
  /\ handle \in Tasks \cup {None}
  /\ call \in [Calls -> CallState]
  /\ task \in [Tasks -> TaskState]
  /\ started \in 0 .. MaxStarts
  /\ orderly \in BOOLEAN
  /\ \A c \in Calls :
       /\ lock = c <=> call[c].at = "joining"
       /\ call[c].at = "joining" <=> call[c].joins # None
       /\ call[c].at = "idle" <=> call[c].profile = None
       /\ call[c].at \in {"saving", "writing"} => call[c].then # "idle"
  /\ \A t \in Tasks : Live(t) <=> task[t].profile # None

Init ==
  /\ file = [p \in Profiles |-> Default]
  /\ torn = {}
  /\ lock = None
  /\ handle = None
  /\ call = [c \in Calls |-> Idle]
  /\ task = [t \in Tasks |-> Finished]
  /\ started = 0
  /\ orderly = TRUE

-----------------------------------------------------------------------------
(* fs::write: the file is emptied, and then filled from its start.  When   *)
(* another save came in between, what it left may stay behind the end.     *)

Cut(p) == torn' = torn \cup {p} /\ UNCHANGED file

Write(p, state) ==
  /\ file' = [file EXCEPT ![p] = state]
  /\ \/ torn' = torn \ {p}
     \/ p \notin torn /\ torn' = torn \cup {p}

\* A call goes to a place with a state it will save there or later; it saves the
\* state it has made of the one it loaded.
At(place, p, state) == [Idle EXCEPT !.at = place, !.profile = p, !.copy = state]

SaveAs(c, p, state, place) ==
  call' = [call EXCEPT ![c] = [At("saving", p, state) EXCEPT !.then = place]]

CallCut(c) ==
  /\ call[c].at = "saving"
  /\ Cut(call[c].profile)
  /\ call' = [call EXCEPT ![c].at = "writing"]
  /\ UNCHANGED <<lock, handle, task, started, orderly>>

CallWrite(c) ==
  /\ call[c].at = "writing"
  /\ Write(call[c].profile, call[c].copy)
  /\ call' = [call EXCEPT ![c] = At(call[c].then, call[c].profile, Default)]
  /\ UNCHANGED <<lock, handle, task, started, orderly>>

-----------------------------------------------------------------------------
(* set_share_earn_enabled(true).  A call that cannot load its file fails   *)
(* at once, which changes nothing.                                         *)

Enabled(state) == [state EXCEPT !.registered = TRUE, !.enabled = TRUE]

Returns(c) == call' = [call EXCEPT ![c] = Idle]
Answering(c) ==
  call' = [call EXCEPT ![c] = At("answering", call[c].profile, Default)]

\* Saved before the task is known to start.  Without an agent the call first
\* registers one on chain, keeping what it loaded.
Enable(c, p) ==
  /\ call[c].at = "idle" /\ p \notin torn
  /\ IF file[p].registered
       THEN SaveAs(c, p, Enabled(file[p]), "ensuring")
       ELSE call' = [call EXCEPT ![c] = At("registering", p, Enabled(file[p]))]
  /\ UNCHANGED <<file, torn, lock, handle, task>>

Register(c) ==
  /\ call[c].at = "registering"
  /\ SaveAs(c, call[c].profile, call[c].copy, "ensuring") \/ Returns(c)
  /\ UNCHANGED <<file, torn, lock, handle, task, started, orderly>>

\* Any task that is not alive: it makes no difference which.
NewTask == CHOOSE t \in Tasks : ~ Live(t)

\* ensure_runtime: a live task of another profile is an error.
EnsureRuntime(c) ==
  /\ call[c].at = "ensuring" /\ lock = None
  /\ IF handle # None /\ Live(handle)
       THEN /\ IF task[handle].profile = call[c].profile THEN Answering(c) ELSE Returns(c)
            /\ UNCHANGED <<handle, task>>
       ELSE /\ NewTask \in Tasks
            /\ task' = [task EXCEPT ![NewTask] =
                 [Finished EXCEPT !.at = "top", !.profile = call[c].profile]]
            /\ handle' = NewTask
            /\ Answering(c)
  /\ UNCHANGED <<file, torn, lock, started, orderly>>

-----------------------------------------------------------------------------
(* set_share_earn_enabled(false).                                          *)

\* Mutant: what is saved still says that the profile is active.
DisabledOnly(state) == [state EXCEPT !.enabled = FALSE]

Disabled(state) == [state EXCEPT !.enabled = FALSE, !.active = FALSE]

Disable(c, p) ==
  /\ call[c].at = "idle" /\ p \notin torn
  /\ call' = [call EXCEPT ![c] = At("locking", p, Disabled(file[p]))]
  /\ UNCHANGED <<file, torn, lock, handle, task>>

SaveDisabled(c) == SaveAs(c, call[c].profile, call[c].copy, "answering")

LeavesAlone(c) == handle = None \/ (Live(handle) /\ task[handle].profile # call[c].profile)
TellsToStop == handle' = None /\ task' = [task EXCEPT ![handle].stop = Live(handle)]

\* Mutant: the task is told to stop and not waited for.
DisableRuntimeNoJoin(c) ==
  /\ call[c].at = "locking" /\ lock = None
  /\ SaveDisabled(c)
  /\ IF LeavesAlone(c) THEN UNCHANGED <<handle, task>> ELSE TellsToStop
  /\ UNCHANGED <<file, torn, lock, started, orderly>>

\* Mutant: the mutex is released before the task is waited for.
DisableRuntimeUnlocked(c) ==
  /\ call[c].at = "locking" /\ lock = None
  /\ IF LeavesAlone(c)
       THEN SaveDisabled(c) /\ UNCHANGED <<handle, task>>
       ELSE /\ TellsToStop
            /\ call' = [call EXCEPT ![c] = [@ EXCEPT !.at = "joining", !.joins = handle]]
  /\ UNCHANGED <<file, torn, lock, started, orderly>>

\* disable_runtime: a live task of another profile is left alone; otherwise the
\* handle is taken, and the mutex is held until the task has ended.
DisableRuntime(c) ==
  /\ call[c].at = "locking" /\ lock = None
  /\ IF LeavesAlone(c)
       THEN SaveDisabled(c) /\ UNCHANGED <<lock, handle, task>>
       ELSE /\ lock' = c
            /\ TellsToStop
            /\ call' = [call EXCEPT ![c] = [@ EXCEPT !.at = "joining", !.joins = handle]]
  /\ UNCHANGED <<file, torn, started, orderly>>

Join(c) ==
  /\ call[c].at = "joining" /\ ~ Live(call[c].joins)
  /\ lock' = None
  /\ SaveDisabled(c)
  /\ UNCHANGED <<file, torn, handle, task, started, orderly>>

-----------------------------------------------------------------------------
(* update_share_settings, and the end of every call.                       *)

UpdateShareSettings(c, p, s) ==
  /\ call[c].at = "idle" /\ p \notin torn
  /\ SaveAs(c, p, [file[p] EXCEPT !.settings = s], "answering")
  /\ UNCHANGED <<file, torn, lock, handle, task>>

\* get_share_earn_status, with which every call ends, loads the file and takes the
\* mutex; when it cannot load the file the call fails.
Answer(c) ==
  /\ call[c].at = "answering"
  /\ lock = None \/ call[c].profile \in torn
  /\ Returns(c)
  /\ UNCHANGED <<file, torn, lock, handle, task, started, orderly>>

-----------------------------------------------------------------------------
(* run_provider_runtime.                                                   *)

Goes(t, place) ==
  task' = [task EXCEPT ![t] = [@ EXCEPT !.at = place, !.copy = Default, !.then = "finished"]]
Ends(t) == task' = [task EXCEPT ![t] = Finished]

\* update_state: the state is loaded here and saved in the two steps that follow;
\* a file that cannot be loaded is an error of the caller.
SetActive(t, value, place) ==
  /\ task[t].profile \notin torn
  /\ task' = [task EXCEPT ![t] = [@ EXCEPT !.at = "saving", !.then = place,
       !.copy = [file[task[t].profile] EXCEPT !.active = value]]]

\* update_state(..)?: its error ends run_provider_runtime.
SetActiveOrFail(t, value, place) ==
  SetActive(t, value, place) \/ (task[t].profile \in torn /\ Goes(t, "failing"))

TaskCut(t) ==
  /\ task[t].at \in {"saving", "announcing"}
  /\ Cut(task[t].profile)
  /\ task' = [task EXCEPT ![t].at = "writing"]
  /\ UNCHANGED <<lock, handle, call, started, orderly>>

TaskWrite(t) ==
  /\ task[t].at = "writing"
  /\ Write(task[t].profile, task[t].copy)
  /\ IF task[t].then = "finished" THEN Ends(t) ELSE Goes(t, task[t].then)
  /\ UNCHANGED <<lock, handle, call, started, orderly>>

\* "let _ =": an error in saving is passed over.
Top(t) ==
  /\ task[t].at = "top"
  /\ IF task[t].stop
       THEN SetActive(t, FALSE, "finished") \/ (task[t].profile \in torn /\ Ends(t))
       ELSE Goes(t, "connecting")
  /\ UNCHANGED <<file, torn, lock, handle, call, started, orderly>>

Connect(t) ==
  /\ task[t].at = "connecting"
  /\ SetActiveOrFail(t, TRUE, "publishing") \/ SetActiveOrFail(t, FALSE, "backoff")
  /\ UNCHANGED <<file, torn, lock, handle, call, started, orderly>>

Backoff(t) ==
  /\ task[t].at = "backoff"
  /\ IF task[t].stop THEN Ends(t) ELSE Goes(t, "top")
  /\ UNCHANGED <<file, torn, lock, handle, call, started, orderly>>

Tick(t) ==
  /\ task[t].at = "serving"
  /\ Goes(t, "publishing")
  /\ UNCHANGED <<file, torn, lock, handle, call, started, orderly>>

\* publish_announcement up to the second await, after which the state loaded here
\* is saved: there may be no peer-to-peer service to publish with, and a disabled
\* profile is not announced.
Publish(t) ==
  /\ task[t].at = "publishing"
  /\ LET p == task[t].profile
     IN  \/ Goes(t, "serving")
         \/ p \in torn /\ Goes(t, "failing")
         \/ /\ p \notin torn /\ file[p].enabled
            /\ task' = [task EXCEPT ![t] = [@ EXCEPT
                 !.at = "announcing", !.copy = file[p], !.then = "serving"]]
  /\ UNCHANGED <<file, torn, lock, handle, call, started, orderly>>

\* Mutant: the task takes the mutex when it is stopped.
StopLocked(t) ==
  /\ task[t].at = "serving" /\ task[t].stop /\ lock = None
  /\ SetActiveOrFail(t, FALSE, "finished")
  /\ UNCHANGED <<file, torn, lock, handle, call, started, orderly>>

Stop(t) ==
  /\ task[t].at = "serving" /\ task[t].stop
  /\ SetActiveOrFail(t, FALSE, "finished")
  /\ UNCHANGED <<file, torn, lock, handle, call, started, orderly>>

\* The relay closes the session: reconnect.
Disconnect(t) ==
  /\ task[t].at = "serving"
  /\ SetActiveOrFail(t, FALSE, "top")
  /\ UNCHANGED <<file, torn, lock, handle, call, started, orderly>>

\* handle_provider_session does not look at the stop signal.
StartSession(t) ==
  /\ task[t].at = "serving"
  /\ Goes(t, "session")
  /\ UNCHANGED <<file, torn, lock, handle, call, started, orderly>>

EndSession(t) ==
  /\ task[t].at = "session"
  /\ Goes(t, "serving")
  /\ UNCHANGED <<file, torn, lock, handle, call, started, orderly>>

\* An error that "?" hands out of run_provider_runtime: publishing, answering a
\* ping, or writing to either side of a session failed.
Fail(t) ==
  /\ task[t].at \in {"announcing", "serving", "session"}
  /\ Goes(t, "failing")
  /\ UNCHANGED <<file, torn, lock, handle, call, started, orderly>>

\* It ends the task, which says so in the file if it can.
Failed(t) ==
  /\ task[t].at = "failing"
  /\ SetActive(t, FALSE, "finished") \/ (task[t].profile \in torn /\ Ends(t))
  /\ UNCHANGED <<file, torn, lock, handle, call, started, orderly>>

-----------------------------------------------------------------------------
\* The app is killed; at the next start only the files are left, as they are.
Crash ==
  /\ lock' = None /\ handle' = None
  /\ call' = [c \in Calls |-> Idle]
  /\ task' = [t \in Tasks |-> Finished]
  /\ orderly' = FALSE
  /\ UNCHANGED <<file, torn, started>>

NoCall == \A c \in Calls : call[c].at = "idle"

Start(c) ==
  /\ started < MaxStarts
  /\ \E p \in Profiles :
       \/ Enable(c, p) \/ Disable(c, p)
       \/ \E s \in Settings : UpdateShareSettings(c, p, s)
  /\ started' = started + 1
  /\ orderly' = (orderly /\ NoCall)

Locks(c) == EnsureRuntime(c) \/ DisableRuntime(c) \/ Answer(c)

Continue(c) == Register(c) \/ Join(c) \/ CallCut(c) \/ CallWrite(c)

\* What the task does by itself; the rest depends on the relay and its consumers.
Runs(t) ==
  \/ Top(t) \/ Connect(t) \/ Backoff(t) \/ Publish(t) \/ Stop(t)
  \/ Failed(t) \/ TaskCut(t) \/ TaskWrite(t)

Relayed(t) == Tick(t) \/ Disconnect(t) \/ StartSession(t) \/ EndSession(t) \/ Fail(t)

Next ==
  \/ \E c \in Calls : Start(c) \/ Locks(c) \/ Continue(c)
  \/ \E t \in Tasks : Runs(t) \/ Relayed(t)
  \/ Crash

Spec == Init /\ [][Next]_vars

\* The runtime polls every call and the task; the mutex is first come, first
\* served; select! does not neglect the stop signal; and connecting times out.
\* Nothing is assumed of a session with a consumer: it may last for ever.
Fairness ==
  /\ \A c \in Calls : SF_vars(Locks(c)) /\ WF_vars(Continue(c))
  /\ \A t \in Tasks : WF_vars(Runs(t)) /\ SF_vars(Stop(t))

FairSpec == Spec /\ Fairness

-----------------------------------------------------------------------------
\* However calls overlap, there is never a second task: two tasks would
\* register the agent twice with the relay and fight over the state file.
OneTask == Cardinality({t \in Tasks : Live(t)}) <= 1

\* As long as calls come one after the other, when none is in progress a profile
\* that is switched off is not being shared: no announcement that was under way,
\* and no state loaded before the switch and saved after it, has undone the switch.
DisabledDoesNotShare ==
  orderly /\ NoCall => \A t \in Tasks : Live(t) => file[task[t].profile].enabled

\* And a profile that is switched off is not shown as active, although the task
\* and the calls save over each other's changes of the same file.  (A profile that
\* is switched on can be shown as active without a task: README.)
OffIsShownOff ==
  orderly /\ NoCall => \A p \in Profiles : file[p].active => file[p].enabled

\* Every call comes to an end, although disabling waits for the task with the
\* mutex held and the task writes the same file; or else it waits for ever for
\* a session that a consumer does not let end, which no signal interrupts.
SessionLastsForEver == [](\E t \in Tasks : task[t].at = "session" /\ task[t].stop)

CallsReturn ==
  \A c \in Calls :
    call[c].at # "idle" ~> (call[c].at = "idle" \/ SessionLastsForEver)
=============================================================================
