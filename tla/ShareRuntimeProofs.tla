------------------------- MODULE ShareRuntimeProofs -------------------------
(***************************************************************************)
(* Theorems about ShareRuntime, for any number of profiles, calls, tasks   *)
(* and settings, and any bound on the calls started.                       *)
(***************************************************************************)
EXTENDS ShareRuntime, FiniteSetTheorems, TLAPS

USE DEF Live

-----------------------------------------------------------------------------
(* Type correctness, with what the program counters say of the mutex.      *)

\* A record that a call may have.
Shape(r) ==
  /\ r \in CallState
  /\ r.at = "joining" <=> r.joins # None
  /\ r.at = "idle" <=> r.profile = None
  /\ r.at \in {"saving", "writing"} => r.then # "idle"

\* A call that changes itself and at most the mutex it holds or takes.
LEMMA CallChange ==
  ASSUME TypeOK, NEW c \in Calls, NEW r, Shape(r),
         call' = [call EXCEPT ![c] = r],
         \/ lock' = lock /\ (r.at = "joining" <=> lock = c)
         \/ lock = None /\ lock' = c /\ r.at = "joining"
         \/ lock = c /\ lock' = None /\ r.at # "joining"
  PROVE  /\ call' \in [Calls -> CallState]
         /\ lock' \in Calls \cup {None}
         /\ \A d \in Calls :
              /\ lock' = d <=> call'[d].at = "joining"
              /\ call'[d].at = "joining" <=> call'[d].joins # None
              /\ call'[d].at = "idle" <=> call'[d].profile = None
              /\ call'[d].at \in {"saving", "writing"} => call'[d].then # "idle"
<1>1. None \notin Calls
  BY ShareAssumption
<1>2. call' \in [Calls -> CallState] /\ lock' \in Calls \cup {None}
  BY DEF TypeOK, Shape
<1>3. call'[c] = r /\ \A d \in Calls : d # c => call'[d] = call[d]
  BY DEF TypeOK
<1>4. ASSUME NEW d \in Calls
      PROVE  /\ lock' = d <=> call'[d].at = "joining"
             /\ call'[d].at = "joining" <=> call'[d].joins # None
             /\ call'[d].at = "idle" <=> call'[d].profile = None
             /\ call'[d].at \in {"saving", "writing"} => call'[d].then # "idle"
  <2>1. CASE d = c
    BY <1>1, <1>3, <2>1 DEF Shape
  <2>2. CASE d # c
    BY <1>1, <1>3, <2>2 DEF TypeOK
  <2> QED
    BY <2>1, <2>2
<1> QED
  BY <1>2, <1>4

\* A record that a task may have.
TaskShape(q) == q \in TaskState /\ (q.at # "finished" <=> q.profile # None)

\* A task that changes itself.
LEMMA TaskChange ==
  ASSUME TypeOK, NEW t \in Tasks, NEW q, TaskShape(q),
         task' = [task EXCEPT ![t] = q]
  PROVE  /\ task' \in [Tasks -> TaskState]
         /\ \A u \in Tasks : Live(u)' <=> task'[u].profile # None
<1>1. task'[t] = q /\ \A u \in Tasks : u # t => task'[u] = task[u]
  BY DEF TypeOK
<1> QED
  BY <1>1 DEF TypeOK, TaskShape

LEMMA DefaultType == Default \in ProviderState /\ ~ Default.active /\ ~ Default.enabled
  BY ShareAssumption DEF Default, ProviderState

\* What the records that calls go to are.
LEMMA AtFacts ==
  ASSUME NEW p \in Profiles, NEW s \in ProviderState,
         NEW place \in {"registering", "ensuring", "locking", "answering"}
  PROVE  /\ Shape(At(place, p, s))
         /\ At(place, p, s).at = place /\ At(place, p, s).profile = p
         /\ At(place, p, s).copy = s
<1>1. Idle = [at |-> "idle", profile |-> None, copy |-> Default, then |-> "idle",
              joins |-> None] /\ Default \in ProviderState /\ p # None
  BY DefaultType, ShareAssumption DEF Idle
<1> HIDE DEF Idle
<1> QED
  BY <1>1 DEF At, Shape, CallState, CallPlaces

Saved(p, s, place) == [At("saving", p, s) EXCEPT !.then = place]

LEMMA SavedFacts ==
  ASSUME NEW p \in Profiles, NEW s \in ProviderState, NEW place \in {"ensuring", "answering"}
  PROVE  LET r == Saved(p, s, place)
         IN  /\ Shape(r)
             /\ r.at = "saving" /\ r.profile = p /\ r.copy = s /\ r.then = place
<1>1. Idle = [at |-> "idle", profile |-> None, copy |-> Default, then |-> "idle",
              joins |-> None] /\ Default \in ProviderState /\ p # None
  BY DefaultType, ShareAssumption DEF Idle
<1> HIDE DEF Idle
<1> QED
  BY <1>1 DEF Saved, At, Shape, CallState, CallPlaces

LEMMA IdleFacts == Shape(Idle) /\ Idle.at = "idle" /\ Idle.copy = Default
  BY DefaultType DEF Idle, Shape, CallState, CallPlaces

LEMMA FinishedFacts ==
  /\ TaskShape(Finished) /\ Finished.at = "finished"
  BY DefaultType DEF Finished, TaskShape, TaskState, TaskPlaces

\* What the state of a file may be changed to.
LEMMA StateFacts ==
  ASSUME NEW s \in ProviderState
  PROVE  /\ Enabled(s) \in ProviderState /\ Enabled(s).enabled
         /\ Disabled(s) \in ProviderState /\ ~ Disabled(s).enabled /\ ~ Disabled(s).active
         /\ \A v \in BOOLEAN : /\ [s EXCEPT !.active = v] \in ProviderState
                               /\ [s EXCEPT !.active = v].enabled = s.enabled
         /\ \A x \in Settings : /\ [s EXCEPT !.settings = x] \in ProviderState
                                /\ [s EXCEPT !.settings = x].enabled = s.enabled
                                /\ [s EXCEPT !.settings = x].active = s.active
  BY DEF ProviderState, Enabled, Disabled

\* A call that is busy has a profile.
LEMMA BusyFacts ==
  ASSUME TypeOK, NEW c \in Calls
  PROVE  /\ call[c] \in CallState /\ call[c].copy \in ProviderState
         /\ call[c].at # "idle" => call[c].profile \in Profiles
  BY DEF TypeOK, CallState

\* The places a call in a mutex or saving step comes to.
CallStep(c) ==
  \/ \E p \in Profiles :
       Enable(c, p) \/ Disable(c, p) \/ \E s \in Settings : UpdateShareSettings(c, p, s)
  \/ Locks(c)
  \/ Continue(c)

\* What a step makes of the call that takes it: r is its new record.
Becomes(c, r) ==
  \/ r = Idle
  \/ \E p \in Profiles, s \in ProviderState :
       \/ \E place \in {"registering", "ensuring", "locking", "answering"} : r = At(place, p, s)
       \/ \E place \in {"ensuring", "answering"} : r = Saved(p, s, place)
  \/ call[c].at = "saving" /\ r = [call[c] EXCEPT !.at = "writing"]
  \/ \E t \in Tasks : /\ call[c].at = "locking"
                      /\ r = [call[c] EXCEPT !.at = "joining", !.joins = t]

LEMMA BecomesShape ==
  ASSUME TypeOK, NEW c \in Calls, NEW r, Becomes(c, r)
  PROVE  Shape(r)
<1>0. call[c] \in CallState /\ None \notin Tasks
  BY BusyFacts, ShareAssumption
<1>1. CASE r = Idle
  BY <1>1, IdleFacts
<1>2. ASSUME NEW p \in Profiles, NEW s \in ProviderState,
             NEW place \in {"registering", "ensuring", "locking", "answering"},
             r = At(place, p, s)
      PROVE  Shape(r)
  BY <1>2, AtFacts
<1>3. ASSUME NEW p \in Profiles, NEW s \in ProviderState,
             NEW place \in {"ensuring", "answering"}, r = Saved(p, s, place)
      PROVE  Shape(r)
  BY <1>3, SavedFacts
<1>4. CASE call[c].at = "saving" /\ r = [call[c] EXCEPT !.at = "writing"]
  BY <1>0, <1>4 DEF TypeOK, Shape, CallState, CallPlaces
<1>5. ASSUME NEW t \in Tasks, call[c].at = "locking",
             r = [call[c] EXCEPT !.at = "joining", !.joins = t]
      PROVE  Shape(r)
  BY <1>0, <1>5 DEF TypeOK, Shape, CallState, CallPlaces
<1> QED
  BY <1>1, <1>2, <1>3, <1>4, <1>5, IdleFacts DEF Becomes

\* A step of a call: it changes itself and at most the mutex it holds or takes.
Changes(c) ==
  \E r : /\ Becomes(c, r)
         /\ call' = [call EXCEPT ![c] = r]
         /\ \/ lock' = lock /\ (r.at = "joining" <=> lock = c)
            \/ lock = None /\ lock' = c /\ r.at = "joining"
            \/ lock = c /\ lock' = None /\ r.at # "joining"

LEMMA CallEffect ==
  ASSUME TypeOK, NEW c \in Calls, CallStep(c)
  PROVE  Changes(c)
<1> DEFINE p == call[c].profile
<1>0. /\ call[c] \in CallState /\ call[c].copy \in ProviderState
      /\ call[c].at # "idle" => p \in Profiles
      /\ None \notin Calls /\ None \notin Tasks
      /\ lock = c <=> call[c].at = "joining"
  BY BusyFacts, ShareAssumption DEF TypeOK
<1>1. ASSUME NEW r, Becomes(c, r), call' = [call EXCEPT ![c] = r], r.at # "joining",
             lock # c, lock' = lock
      PROVE  Changes(c)
  BY <1>1 DEF Changes
<1>2. ASSUME NEW q \in Profiles, NEW s \in ProviderState,
             NEW place \in {"registering", "ensuring", "locking", "answering"},
             call' = [call EXCEPT ![c] = At(place, q, s)], lock # c, lock' = lock
      PROVE  Changes(c)
  <2>1. Becomes(c, At(place, q, s)) /\ At(place, q, s).at # "joining"
    BY <1>2, AtFacts DEF Becomes
  <2> QED
    BY <1>1, <1>2, <2>1
<1>3. ASSUME NEW q \in Profiles, NEW s \in ProviderState,
             NEW place \in {"ensuring", "answering"},
             SaveAs(c, q, s, place), (lock # c /\ lock' = lock) \/ (lock = c /\ lock' = None)
      PROVE  Changes(c)
  <2>1. Becomes(c, Saved(q, s, place)) /\ Saved(q, s, place).at # "joining"
    <3>1. Saved(q, s, place).at = "saving"
      BY SavedFacts
    <3> QED
      BY <3>1 DEF Becomes
  <2>2. call' = [call EXCEPT ![c] = Saved(q, s, place)]
    BY <1>3 DEF SaveAs, Saved
  <2> HIDE DEF p
  <2> QED
    BY <1>0, <1>3, <2>1, <2>2 DEF Changes
<1>4. ASSUME Returns(c), lock # c, lock' = lock
      PROVE  Changes(c)
  BY <1>1, <1>4, IdleFacts DEF Returns, Becomes
<1>5. ASSUME NEW q \in Profiles, Enable(c, q)
      PROVE  Changes(c)
  <2>1. file[q] \in ProviderState /\ Enabled(file[q]) \in ProviderState /\ lock # c /\ lock' = lock
    BY <1>0, <1>5, StateFacts DEF Enable, TypeOK
  <2> QED
    BY <1>2, <1>3, <1>5, <2>1 DEF Enable
<1>6. ASSUME NEW q \in Profiles, Disable(c, q)
      PROVE  Changes(c)
  <2>1. file[q] \in ProviderState /\ Disabled(file[q]) \in ProviderState /\ lock # c /\ lock' = lock
    BY <1>0, <1>6, StateFacts DEF Disable, TypeOK
  <2> QED
    BY <1>2, <1>6, <2>1 DEF Disable
<1>7. ASSUME NEW q \in Profiles, NEW x \in Settings, UpdateShareSettings(c, q, x)
      PROVE  Changes(c)
  <2> DEFINE s == [file[q] EXCEPT !.settings = x]
  <2>1. file[q] \in ProviderState /\ lock # c /\ lock' = lock
    BY <1>0, <1>7 DEF UpdateShareSettings, TypeOK
  <2>2. s \in ProviderState /\ SaveAs(c, q, s, "answering")
    BY <1>7, <2>1, StateFacts DEF UpdateShareSettings
  <2> HIDE DEF s
  <2> QED
    BY <1>3, <2>1, <2>2
<1>8. CASE Register(c)
  BY <1>0, <1>3, <1>4, <1>8 DEF Register
<1>9. CASE Join(c)
  <2>1. lock = c /\ lock' = None /\ p \in Profiles /\ SaveAs(c, p, call[c].copy, "answering")
    BY <1>0, <1>9 DEF Join, SaveDisabled
  <2> QED
    BY <1>0, <1>3, <2>1
<1>10. CASE CallCut(c)
  <2> DEFINE r == [call[c] EXCEPT !.at = "writing"]
  <2>1. call' = [call EXCEPT ![c] = r] /\ call[c].at = "saving" /\ lock' = lock /\ lock # c
    BY <1>0, <1>10 DEF CallCut
  <2>2. Becomes(c, r) /\ r.at # "joining"
    BY <1>0, <2>1 DEF Becomes, CallState
  <2> HIDE DEF r
  <2> QED
    BY <1>1, <2>1, <2>2
<1>11. CASE CallWrite(c)
  <2>1. call[c].then \in {"ensuring", "answering"} /\ lock # c /\ lock' = lock
    BY <1>0, <1>11 DEF CallWrite, TypeOK, CallState
  <2>2. call' = [call EXCEPT ![c] = At(call[c].then, p, Default)] /\ p \in Profiles
    BY <1>0, <1>11 DEF CallWrite
  <2> QED
    BY <1>2, <2>1, <2>2, DefaultType
<1>12. CASE EnsureRuntime(c)
  <2>1. lock # c /\ lock' = lock /\ p \in Profiles
    BY <1>0, <1>12 DEF EnsureRuntime
  <2>2. Answering(c) \/ Returns(c)
    BY <1>12 DEF EnsureRuntime
  <2> QED
    BY <1>2, <1>4, <2>1, <2>2, DefaultType DEF Answering
<1>13. CASE Answer(c)
  BY <1>0, <1>4, <1>13 DEF Answer
<1>14. CASE DisableRuntime(c)
  <2>1. call[c].at = "locking" /\ lock = None /\ p \in Profiles
    BY <1>0, <1>14 DEF DisableRuntime
  <2>2. CASE LeavesAlone(c)
    BY <1>0, <1>3, <1>14, <2>1, <2>2 DEF DisableRuntime, SaveDisabled
  <2>3. CASE ~ LeavesAlone(c)
    <3> DEFINE r == [call[c] EXCEPT !.at = "joining", !.joins = handle]
    <3>1. lock' = c /\ call' = [call EXCEPT ![c] = r] /\ handle \in Tasks
      BY <1>14, <2>3 DEF DisableRuntime, LeavesAlone, TypeOK
    <3>2. Becomes(c, r) /\ r.at = "joining"
      BY <1>0, <2>1, <3>1 DEF Becomes, CallState
    <3> HIDE DEF r
    <3> QED
      BY <2>1, <3>1, <3>2 DEF Changes
  <2> QED
    BY <2>2, <2>3
<1> QED
  BY <1>5, <1>6, <1>7, <1>8, <1>9, <1>10, <1>11, <1>12, <1>13, <1>14
     DEF CallStep, Locks, Continue

\* A step of a task: it ends, or it goes on for the same profile; a state it will
\* save is the one in the file, with or without "active"; and it may fill the file.
Moves(t) ==
  \E q : /\ TaskShape(q)
         /\ task' = [task EXCEPT ![t] = q]
         /\ q.at # "finished" => q.profile = task[t].profile
         /\ q.at \in {"announcing", "saving"} =>
              q.copy.enabled = file[task[t].profile].enabled
         /\ q.at = "writing" =>
              q.copy = task[t].copy /\ task[t].at \in {"announcing", "saving"}
         /\ \/ UNCHANGED file
            \/ /\ task[t].at = "writing"
               /\ file' = [file EXCEPT ![task[t].profile] = task[t].copy]

LEMMA MovesFacts ==
  ASSUME TypeOK, NEW t \in Tasks, Live(t),
         \/ UNCHANGED file
         \/ /\ task[t].at = "writing"
            /\ file' = [file EXCEPT ![task[t].profile] = task[t].copy]
  PROVE  /\ Ends(t) => Moves(t)
         /\ \A place \in TaskPlaces \ {"finished", "announcing", "saving", "writing"} :
              Goes(t, place) => Moves(t)
         /\ \A v \in BOOLEAN, place \in TaskPlaces \ {"announcing", "saving", "writing"} :
              SetActive(t, v, place) => Moves(t)
<1>1. /\ task[t] \in TaskState /\ task[t].profile \in Profiles /\ task[t].profile # None
      /\ Default \in ProviderState
  BY DefaultType, ShareAssumption DEF TypeOK, TaskState
<1>2. Ends(t) => Moves(t)
  BY FinishedFacts DEF Ends, Moves
<1>3. ASSUME NEW place \in TaskPlaces \ {"finished", "announcing", "saving", "writing"},
             Goes(t, place)
      PROVE  Moves(t)
  <2> DEFINE q == [task[t] EXCEPT !.at = place, !.copy = Default, !.then = "finished"]
  <2>1. /\ TaskShape(q) /\ q.at = place /\ q.profile = task[t].profile
        /\ place \notin {"finished", "announcing", "saving", "writing"}
    BY <1>1 DEF TaskShape, TaskState, TaskPlaces
  <2>2. task' = [task EXCEPT ![t] = q]
    BY <1>3 DEF Goes
  <2> HIDE DEF q
  <2> QED
    BY <2>1, <2>2 DEF Moves
<1>4. ASSUME NEW v \in BOOLEAN, NEW place \in TaskPlaces \ {"announcing", "saving", "writing"},
             SetActive(t, v, place)
      PROVE  Moves(t)
  <2> DEFINE s == [file[task[t].profile] EXCEPT !.active = v]
             q == [task[t] EXCEPT !.at = "saving", !.then = place, !.copy = s]
  <2>0. file[task[t].profile] \in ProviderState
    BY <1>1 DEF TypeOK
  <2>1. s \in ProviderState /\ s.enabled = file[task[t].profile].enabled
    BY <2>0, StateFacts
  <2>2. task' = [task EXCEPT ![t] = q]
    BY <1>4 DEF SetActive
  <2> HIDE DEF s
  <2>3. TaskShape(q) /\ q.at = "saving" /\ q.profile = task[t].profile /\ q.copy = s
    BY <1>1, <2>1 DEF TaskShape, TaskState, TaskPlaces
  <2> HIDE DEF q
  <2> QED
    BY <2>1, <2>2, <2>3 DEF Moves
<1> QED
  BY <1>2, <1>3, <1>4

LEMMA TaskEffect ==
  ASSUME TypeOK, NEW t \in Tasks, Runs(t) \/ Relayed(t)
  PROVE  /\ Live(t) /\ Moves(t)
         /\ torn' \subseteq Profiles
         /\ UNCHANGED <<lock, handle, call, started, orderly>>
<1>1. Live(t) /\ UNCHANGED <<lock, handle, call, started, orderly>>
  BY DEF Runs, Relayed, Tick, Disconnect, StartSession, EndSession, Fail, Failed, Top, Connect,
         Backoff, Publish, Stop, TaskCut, TaskWrite
<1>2. task[t] \in TaskState /\ task[t].profile \in Profiles /\ task[t].profile # None
  BY <1>1, ShareAssumption DEF TypeOK, TaskState
<1>3. ASSUME UNCHANGED <<file, torn>>,
             \/ Ends(t)
             \/ \E place \in TaskPlaces \ {"finished", "announcing", "saving", "writing"} :
                  Goes(t, place)
             \/ \E v \in BOOLEAN, place \in TaskPlaces \ {"announcing", "saving", "writing"} :
                  SetActive(t, v, place)
      PROVE  Moves(t) /\ torn' \subseteq Profiles
  BY <1>1, <1>3, MovesFacts DEF TypeOK
<1>4. CASE Top(t) \/ Failed(t)
  BY <1>3, <1>4 DEF Top, Failed, TaskPlaces
<1>5. CASE Connect(t) \/ Stop(t) \/ Disconnect(t)
  BY <1>3, <1>5 DEF Connect, Stop, Disconnect, SetActiveOrFail, TaskPlaces
<1>6. CASE Backoff(t) \/ Tick(t) \/ StartSession(t) \/ EndSession(t) \/ Fail(t)
  BY <1>3, <1>6 DEF Backoff, Tick, StartSession, EndSession, Fail, TaskPlaces
<1>7. CASE Publish(t)
  <2> DEFINE p == task[t].profile
             q == [task[t] EXCEPT !.at = "announcing", !.copy = file[p], !.then = "serving"]
  <2>1. CASE \E place \in {"serving", "failing"} : Goes(t, place)
    BY <1>1, <1>3, <1>7, <2>1 DEF Publish, TaskPlaces
  <2>2. CASE task' = [task EXCEPT ![t] = q]
    <3>1. file[p] \in ProviderState
      BY <1>2 DEF TypeOK
    <3>2. TaskShape(q) /\ q.at = "announcing" /\ q.profile = p /\ q.copy = file[p]
      BY <1>2, <3>1 DEF TaskShape, TaskState, TaskPlaces
    <3>3. UNCHANGED file /\ torn' \subseteq Profiles
      BY <1>7 DEF Publish, TypeOK
    <3> HIDE DEF q
    <3>4. Moves(t)
      BY <2>2, <3>2, <3>3 DEF Moves
    <3> QED
      BY <1>1, <3>3, <3>4
  <2>3. \/ \E place \in {"serving", "failing"} : Goes(t, place)
        \/ task' = [task EXCEPT ![t] = q]
    BY <1>7 DEF Publish
  <2> HIDE DEF p, q
  <2> QED
    BY <1>1, <2>1, <2>2, <2>3
<1>8. CASE TaskCut(t)
  <2> DEFINE q == [task[t] EXCEPT !.at = "writing"]
  <2>1. /\ task' = [task EXCEPT ![t] = q] /\ UNCHANGED file /\ torn' \subseteq Profiles
        /\ task[t].at \in {"announcing", "saving"}
    BY <1>2, <1>8 DEF TaskCut, Cut, TypeOK
  <2>2. TaskShape(q) /\ q.at = "writing" /\ q.profile = task[t].profile /\ q.copy = task[t].copy
    BY <1>2 DEF TaskShape, TaskState, TaskPlaces
  <2> HIDE DEF q
  <2> QED
    BY <1>1, <2>1, <2>2 DEF Moves
<1>9. CASE TaskWrite(t)
  <2>1. /\ task[t].at = "writing" /\ torn' \subseteq Profiles
        /\ file' = [file EXCEPT ![task[t].profile] = task[t].copy]
        /\ task[t].then \in TaskPlaces \ {"announcing", "saving", "writing"}
    BY <1>2, <1>9 DEF TaskWrite, Write, TypeOK, TaskState
  <2>2. CASE task[t].then = "finished"
    BY <1>1, <1>9, <2>1, <2>2, MovesFacts DEF TaskWrite
  <2>3. CASE task[t].then # "finished"
    BY <1>1, <1>9, <2>1, <2>3, MovesFacts DEF TaskWrite
  <2> QED
    BY <2>1, <2>2, <2>3
<1> QED
  BY <1>1, <1>4, <1>5, <1>6, <1>7, <1>8, <1>9 DEF Runs, Relayed

LEMMA FileType ==
  ASSUME TypeOK, NEW p \in Profiles, NEW s \in ProviderState, Cut(p) \/ Write(p, s)
  PROVE  file' \in [Profiles -> ProviderState] /\ torn' \subseteq Profiles
  BY DEF TypeOK, Cut, Write

LEMMA TypeStep ==
  ASSUME TypeOK, [Next]_vars
  PROVE  TypeOK'
<1>1. ASSUME NEW c \in Calls, CallStep(c), started' \in 0 .. MaxStarts, orderly' \in BOOLEAN
      PROVE  TypeOK'
  <2>1. PICK r : /\ Becomes(c, r)
                 /\ call' = [call EXCEPT ![c] = r]
                 /\ \/ lock' = lock /\ (r.at = "joining" <=> lock = c)
                    \/ lock = None /\ lock' = c /\ r.at = "joining"
                    \/ lock = c /\ lock' = None /\ r.at # "joining"
    BY <1>1, CallEffect DEF Changes
  <2>2. Shape(r)
    BY <2>1, BecomesShape
  <2>3. /\ call' \in [Calls -> CallState]
        /\ lock' \in Calls \cup {None}
        /\ \A d \in Calls :
              /\ lock' = d <=> call'[d].at = "joining"
              /\ call'[d].at = "joining" <=> call'[d].joins # None
              /\ call'[d].at = "idle" <=> call'[d].profile = None
              /\ call'[d].at \in {"saving", "writing"} => call'[d].then # "idle"
    BY <2>1, <2>2, CallChange
  <2>4. file' \in [Profiles -> ProviderState] /\ torn' \subseteq Profiles
    <3>1. CASE CallCut(c) \/ CallWrite(c)
      BY <3>1, BusyFacts, FileType DEF CallCut, CallWrite
    <3>2. CASE UNCHANGED <<file, torn>>
      BY <3>2 DEF TypeOK
    <3> QED
      BY <1>1, <3>1, <3>2 DEF CallStep, Locks, Continue, Enable, Disable, UpdateShareSettings,
         Register, Join, EnsureRuntime, DisableRuntime, Answer
  <2>5. /\ handle' \in Tasks \cup {None} /\ task' \in [Tasks -> TaskState]
        /\ \A u \in Tasks : Live(u)' <=> task'[u].profile # None
    <3>1. CASE UNCHANGED <<handle, task>>
      BY <3>1 DEF TypeOK
    <3>2. CASE EnsureRuntime(c) /\ ~ (handle # None /\ Live(handle))
      <4> DEFINE q == [Finished EXCEPT !.at = "top", !.profile = call[c].profile]
      <4>1. /\ NewTask \in Tasks /\ handle' = NewTask
            /\ task' = [task EXCEPT ![NewTask] = q]
            /\ call[c].profile \in Profiles
        BY <3>2, BusyFacts DEF EnsureRuntime
      <4>2. TaskShape(q)
        BY <4>1, FinishedFacts, ShareAssumption DEF TaskShape, TaskState, TaskPlaces
      <4> HIDE DEF q
      <4> QED
        BY <4>1, <4>2, TaskChange
    <3>3. CASE DisableRuntime(c) /\ ~ LeavesAlone(c)
      <4> DEFINE q == [task[handle] EXCEPT !.stop = Live(handle)]
      <4>1. handle \in Tasks /\ handle' = None /\ task' = [task EXCEPT ![handle] = q]
        BY <3>3 DEF DisableRuntime, LeavesAlone, TellsToStop, TypeOK
      <4>2. TaskShape(q)
        BY <4>1 DEF TypeOK, TaskShape, TaskState
      <4> HIDE DEF q
      <4> QED
        BY <4>1, <4>2, TaskChange
    <3> QED
      BY <1>1, <3>1, <3>2, <3>3 DEF CallStep, Locks, Continue, Enable, Disable,
         UpdateShareSettings, Register, Join, CallCut, CallWrite, EnsureRuntime,
         DisableRuntime, Answer
  <2> QED
    BY <1>1, <2>3, <2>4, <2>5 DEF TypeOK
<1>2. ASSUME NEW c \in Calls, Start(c)
      PROVE  TypeOK'
  <2>1. started' \in 0 .. MaxStarts /\ orderly' \in BOOLEAN
    BY <1>2, ShareAssumption DEF Start, TypeOK
  <2> QED
    BY <1>1, <1>2, <2>1 DEF Start, CallStep
<1>3. ASSUME NEW c \in Calls, Locks(c) \/ Continue(c)
      PROVE  TypeOK'
  <2>1. UNCHANGED <<started, orderly>>
    BY <1>3 DEF Locks, Continue, Register, Join, CallCut, CallWrite, EnsureRuntime,
       DisableRuntime, Answer
  <2> QED
    BY <1>1, <1>3, <2>1 DEF CallStep, TypeOK
<1>4. ASSUME NEW t \in Tasks, Runs(t) \/ Relayed(t)
      PROVE  TypeOK'
  <2>1. Live(t) /\ torn' \subseteq Profiles /\ UNCHANGED <<lock, handle, call, started, orderly>>
    BY <1>4, TaskEffect
  <2>2. PICK q : /\ TaskShape(q)
                 /\ task' = [task EXCEPT ![t] = q]
                 /\ \/ UNCHANGED file
                    \/ file' = [file EXCEPT ![task[t].profile] = task[t].copy]
    BY <1>4, TaskEffect DEF Moves
  <2>3. /\ task' \in [Tasks -> TaskState]
        /\ \A u \in Tasks : Live(u)' <=> task'[u].profile # None
    BY <2>2, TaskChange
  <2>4. file' \in [Profiles -> ProviderState]
    BY <2>2 DEF TypeOK, TaskState
  <2> QED
    BY <2>1, <2>3, <2>4 DEF TypeOK
<1>5. CASE Crash
  BY <1>5, IdleFacts, FinishedFacts, ShareAssumption DEF Crash, TypeOK, Shape, TaskShape
<1>6. CASE UNCHANGED vars
  BY <1>6 DEF vars, TypeOK
<1> QED
  BY <1>2, <1>3, <1>4, <1>5, <1>6 DEF Next

\* No overlap of calls, no kill and no failure of a task leads to an ill-typed state:
\* the mutex is held exactly by a call that waits for a task, and whoever has
\* something to do has a profile to do it for.
THEOREM TypeCorrect == Spec => []TypeOK
<1>1. Init => TypeOK
  BY DefaultType, IdleFacts, FinishedFacts, ShareAssumption
     DEF Init, TypeOK, Shape, TaskShape
<1>2. TypeOK /\ [Next]_vars => TypeOK'
  BY TypeStep
<1> QED
  BY <1>1, <1>2, PTL DEF Spec

-----------------------------------------------------------------------------
(* One task.  A live task is either in the handle or waited for by the     *)
(* call that holds the mutex, and while that call waits nobody can put     *)
(* another one into the handle.                                            *)

Held ==
  /\ lock # None => handle = None
  /\ \A t \in Tasks : Live(t) =>
       \/ t = handle
       \/ lock # None /\ t = call[lock].joins

LEMMA HeldStep ==
  ASSUME TypeOK, Held, [Next]_vars
  PROVE  Held'
<1>1. None \notin Tasks /\ None \notin Calls
  BY ShareAssumption
<1>2. ASSUME NEW c \in Calls, Start(c) \/ Register(c) \/ CallCut(c) \/ CallWrite(c)
      PROVE  Held'
  <2>1. lock # c /\ UNCHANGED <<lock, handle, task>>
    BY <1>2 DEF Start, Enable, Disable, UpdateShareSettings, Register, CallCut, CallWrite, TypeOK
  <2>2. PICK r : call' = [call EXCEPT ![c] = r]
    BY <1>2, CallEffect DEF Start, CallStep, Continue, Changes
  <2>3. \A d \in Calls : d # c => call'[d] = call[d]
    BY <2>2 DEF TypeOK
  <2> QED
    BY <2>1, <2>3 DEF Held, TypeOK
<1>3. ASSUME NEW c \in Calls, Locks(c)
      PROVE  Held'
  <2>1. (lock = None /\ \A t \in Tasks : Live(t) => t = handle) \/ Answer(c)
    BY <1>3 DEF Locks, EnsureRuntime, DisableRuntime, Held
  <2>2. CASE EnsureRuntime(c)
    <3>0. lock = None /\ \A t \in Tasks : Live(t) => t = handle
      BY <2>2 DEF EnsureRuntime, Held
    <3>1. CASE handle # None /\ Live(handle)
      BY <2>2, <3>0, <3>1 DEF EnsureRuntime, Held
    <3>2. CASE ~ (handle # None /\ Live(handle))
      <4>1. handle' = NewTask /\ \A u \in Tasks : u # NewTask => task'[u] = task[u]
        BY <2>2, <3>2 DEF EnsureRuntime, TypeOK
      <4>2. \A u \in Tasks : ~ Live(u)
        BY <1>1, <3>0, <3>2
      <4> QED
        BY <2>2, <3>0, <4>1, <4>2 DEF EnsureRuntime, Held
    <3> QED
      BY <3>1, <3>2
  <2>3. CASE DisableRuntime(c)
    <3>0. lock = None /\ \A t \in Tasks : Live(t) => t = handle
      BY <2>3 DEF DisableRuntime, Held
    <3>1. CASE LeavesAlone(c)
      BY <2>3, <3>0, <3>1 DEF DisableRuntime, Held
    <3>2. CASE ~ LeavesAlone(c)
      <4>1. /\ lock' = c /\ handle' = None
            /\ call'[c].joins = handle
            /\ \A u \in Tasks : task'[u].at = task[u].at
        <5> DEFINE q == [task[handle] EXCEPT !.stop = Live(handle)]
                   r == [call[c] EXCEPT !.at = "joining", !.joins = handle]
        <5>1. handle \in Tasks /\ task[handle] \in TaskState /\ call[c] \in CallState
          BY <3>2 DEF TypeOK, LeavesAlone
        <5>2. q.at = task[handle].at /\ task' = [task EXCEPT ![handle] = q]
          BY <2>3, <3>2, <5>1 DEF DisableRuntime, TellsToStop, TaskState
        <5>3. lock' = c /\ handle' = None /\ call' = [call EXCEPT ![c] = r]
          BY <2>3, <3>2 DEF DisableRuntime, TellsToStop
        <5>4. r.joins = handle
          BY <5>1 DEF CallState
        <5> HIDE DEF q, r
        <5> QED
          BY <5>1, <5>2, <5>3, <5>4 DEF TypeOK
      <4> QED
        BY <1>1, <3>0, <4>1 DEF Held
    <3> QED
      BY <3>1, <3>2
  <2>4. CASE Answer(c)
    <3>1. lock # c /\ UNCHANGED <<lock, handle, task>>
      BY <2>4 DEF Answer, TypeOK
    <3>2. \A d \in Calls : d # c => call'[d] = call[d]
      BY <2>4 DEF Answer, Returns, TypeOK
    <3> QED
      BY <3>1, <3>2 DEF Held, TypeOK
  <2> QED
    BY <1>3, <2>2, <2>3, <2>4 DEF Locks
<1>4. ASSUME NEW c \in Calls, Join(c)
      PROVE  Held'
  <2>1. lock = c /\ ~ Live(call[c].joins) /\ lock' = None /\ UNCHANGED <<handle, task>>
    BY <1>4 DEF Join, TypeOK
  <2> QED
    BY <1>1, <2>1 DEF Held
<1>5. ASSUME NEW t \in Tasks, Runs(t) \/ Relayed(t)
      PROVE  Held'
  <2>1. Live(t) /\ UNCHANGED <<lock, handle, call>>
    BY <1>5, TaskEffect
  <2>2. \A u \in Tasks : u # t => task'[u] = task[u]
    BY <1>5, TaskEffect DEF Moves, TypeOK
  <2> QED
    BY <2>1, <2>2 DEF Held
<1>6. CASE Crash
  BY <1>6, FinishedFacts DEF Crash, Held
<1>7. CASE UNCHANGED vars
  BY <1>7 DEF vars, Held
<1> QED
  BY <1>2, <1>3, <1>4, <1>5, <1>6, <1>7 DEF Next, Continue

\* However calls overlap and whenever the app is killed, at most one task is alive.
THEOREM OneTaskCorrect == Spec => []OneTask
<1>1. Init => Held
  BY DEF Init, Held, Finished
<1>2. TypeOK /\ Held => OneTask
  <2> DEFINE S == {t \in Tasks : Live(t)}
  <2>1. ASSUME TypeOK, Held
        PROVE  \E x : S \subseteq {x}
    <3>1. CASE lock = None
      BY <2>1, <3>1 DEF Held
    <3>2. CASE lock # None
      BY <2>1, <3>2, ShareAssumption DEF Held
    <3> QED
      BY <3>1, <3>2
  <2>2. ASSUME NEW x, S \subseteq {x}
        PROVE  Cardinality(S) <= 1
    <3>1. S = {} \/ S = {x}
      BY <2>2
    <3> HIDE DEF S
    <3>2. Cardinality({}) = 0 /\ Cardinality({x}) = 1
      BY FS_EmptySet, FS_Singleton
    <3> QED
      BY <3>1, <3>2
  <2> QED
    BY <2>1, <2>2 DEF OneTask
<1> QED
  BY <1>1, <1>2, HeldStep, TypeCorrect, PTL DEF Spec

-----------------------------------------------------------------------------
(* A switch stays where it was put.  As long as calls come one after the   *)
(* other, the file of a live task's profile says enabled, whatever the     *)
(* task is about to save says the same, and a call that is about to save   *)
(* "disabled" has seen the task end, or has found none.                    *)

Alone == \A c, d \in Calls : call[c].at # "idle" /\ call[d].at # "idle" => c = d

FilesSound == \A p \in Profiles : file[p].active => file[p].enabled

TasksSound ==
  \A t \in Tasks :
    /\ Live(t) => file[task[t].profile].enabled
    /\ task[t].at \in {"announcing", "saving", "writing"} => task[t].copy.enabled

Sound(r) ==
  /\ r.copy.active => r.copy.enabled
  /\ r.at = "registering" => r.copy.enabled
  /\ r.at \in {"saving", "writing"} /\ r.then = "ensuring" => r.copy.enabled
  /\ r.at \in {"saving", "writing"} /\ ~ r.copy.enabled =>
       \A t \in Tasks : Live(t) => task[t].profile # r.profile
  /\ r.at = "ensuring" => file[r.profile].enabled

CallsSound == \A c \in Calls : Sound(call[c])

Tidy == Alone /\ FilesSound /\ TasksSound /\ CallsSound

InStep == orderly => Tidy

LEMMA SoundFacts ==
  ASSUME NEW p \in Profiles, NEW s \in ProviderState, s.active => s.enabled
  PROVE  /\ Sound(Idle)
         /\ Sound(At("answering", p, s)) /\ Sound(At("locking", p, s))
         /\ s.enabled => /\ Sound(At("registering", p, s))
                         /\ Sound(Saved(p, s, "ensuring")) /\ Sound(Saved(p, s, "answering"))
         /\ (\A t \in Tasks : Live(t) => task[t].profile # p) => Sound(Saved(p, s, "answering"))
         /\ file[p].enabled => Sound(At("ensuring", p, s))
  BY AtFacts, SavedFacts, IdleFacts, DefaultType DEF Sound

\* A call changes itself alone, while the files and the tasks stay.
LEMMA CallTidy ==
  ASSUME TypeOK, Tidy, NEW c \in Calls, NEW r, Sound(r), call' = [call EXCEPT ![c] = r],
         \A d \in Calls : d # c => call[d].at = "idle",
         UNCHANGED <<file, task>>
  PROVE  Tidy'
<1>1. call'[c] = r /\ \A d \in Calls : d # c => call'[d] = call[d]
  BY DEF TypeOK
<1>2. Alone'
  BY <1>1 DEF Alone
<1>3. FilesSound' /\ TasksSound'
  BY DEF Tidy, FilesSound, TasksSound
<1>4. ASSUME NEW d \in Calls
      PROVE  Sound(call[d])'
  <2>1. CASE d = c
    BY <1>1, <2>1 DEF Sound
  <2>2. CASE d # c
    BY <1>1, <2>2 DEF Tidy, CallsSound, Sound
  <2> QED
    BY <2>1, <2>2
<1> QED
  BY <1>2, <1>3, <1>4 DEF Tidy, CallsSound

LEMMA StartTidy ==
  ASSUME TypeOK, Tidy, NEW c \in Calls, NoCall, NEW p \in Profiles,
         Enable(c, p) \/ Disable(c, p) \/ \E s \in Settings : UpdateShareSettings(c, p, s)
  PROVE  Tidy'
<1>1. /\ \A d \in Calls : d # c => call[d].at = "idle"
      /\ file[p] \in ProviderState /\ (file[p].active => file[p].enabled)
      /\ UNCHANGED <<file, task>>
  BY DEF NoCall, TypeOK, Tidy, FilesSound, Enable, Disable, UpdateShareSettings
<1>2. ~ file[p].enabled => \A t \in Tasks : Live(t) => task[t].profile # p
  BY DEF Tidy, TasksSound
<1>3. CASE Enable(c, p)
  <2> DEFINE s == Enabled(file[p])
  <2>1. s \in ProviderState /\ s.enabled
    BY <1>1, StateFacts
  <2>2. \/ call' = [call EXCEPT ![c] = Saved(p, s, "ensuring")]
        \/ call' = [call EXCEPT ![c] = At("registering", p, s)]
    BY <1>3 DEF Enable, SaveAs, Saved
  <2> HIDE DEF s
  <2> QED
    BY <1>1, <2>1, <2>2, SoundFacts, CallTidy
<1>4. CASE Disable(c, p)
  <2> DEFINE s == Disabled(file[p])
  <2>1. s \in ProviderState /\ ~ s.active
    BY <1>1, StateFacts
  <2>2. call' = [call EXCEPT ![c] = At("locking", p, s)]
    BY <1>4 DEF Disable
  <2> HIDE DEF s
  <2> QED
    BY <1>1, <2>1, <2>2, SoundFacts, CallTidy
<1>5. ASSUME NEW x \in Settings, UpdateShareSettings(c, p, x)
      PROVE  Tidy'
  <2> DEFINE s == [file[p] EXCEPT !.settings = x]
  <2>1. s \in ProviderState /\ s.enabled = file[p].enabled /\ s.active = file[p].active
    BY <1>1 DEF ProviderState
  <2>2. call' = [call EXCEPT ![c] = Saved(p, s, "answering")]
    BY <1>5 DEF UpdateShareSettings, SaveAs, Saved
  <2> HIDE DEF s
  <2>3. Sound(Saved(p, s, "answering"))
    BY <1>1, <1>2, <2>1, SoundFacts
  <2> QED
    BY <1>1, <2>2, <2>3, CallTidy
<1> QED
  BY <1>3, <1>4, <1>5

LEMMA CallStepTidy ==
  ASSUME TypeOK, Held, Tidy, NEW c \in Calls, Locks(c) \/ Continue(c)
  PROVE  Tidy'
<1> DEFINE p == call[c].profile
           s == call[c].copy
<1>1. /\ call[c] \in CallState /\ call[c].at # "idle" /\ p \in Profiles /\ s \in ProviderState
      /\ Sound(call[c])
      /\ None \notin Tasks /\ None \notin Profiles /\ None \notin Calls
  BY BusyFacts, ShareAssumption DEF Locks, Continue, Register, Join, CallCut, CallWrite,
     EnsureRuntime, DisableRuntime, Answer, Tidy, CallsSound
<1>2. \A d \in Calls : d # c => call[d].at = "idle"
  BY <1>1 DEF Tidy, Alone
<1>3. /\ Default \in ProviderState /\ (Default.active => Default.enabled)
      /\ s.active => s.enabled
  BY <1>1, DefaultType DEF Sound
<1>4. ASSUME Returns(c), UNCHANGED <<file, task>>
      PROVE  Tidy'
  BY <1>1, <1>2, <1>3, <1>4, SoundFacts, CallTidy DEF Returns
<1>5. ASSUME Answering(c), UNCHANGED <<file, task>>
      PROVE  Tidy'
  BY <1>1, <1>2, <1>3, <1>5, SoundFacts, CallTidy DEF Answering
<1>6. ASSUME SaveDisabled(c), UNCHANGED <<file, task>>,
             \A t \in Tasks : Live(t) => task[t].profile # p
      PROVE  Tidy'
  <2>1. call' = [call EXCEPT ![c] = Saved(p, s, "answering")]
    BY <1>6 DEF SaveDisabled, SaveAs, Saved
  <2>2. Sound(Saved(p, s, "answering"))
    BY <1>1, <1>3, <1>6, SoundFacts
  <2> HIDE DEF p, s
  <2> QED
    BY <1>2, <1>6, <2>1, <2>2, CallTidy
<1>7. CASE Register(c)
  <2>1. s.enabled /\ UNCHANGED <<file, task>>
    BY <1>1, <1>7 DEF Register, Sound
  <2>2. CASE SaveAs(c, p, s, "ensuring")
    <3>1. call' = [call EXCEPT ![c] = Saved(p, s, "ensuring")]
      BY <2>2 DEF SaveAs, Saved
    <3>2. Sound(Saved(p, s, "ensuring"))
      BY <1>1, <1>3, <2>1, SoundFacts
    <3> HIDE DEF p, s
    <3> QED
      BY <1>2, <2>1, <3>1, <3>2, CallTidy
  <2> QED
    BY <1>4, <1>7, <2>1, <2>2 DEF Register
<1>8. CASE Join(c)
  <2>1. lock = c /\ ~ Live(call[c].joins) /\ SaveDisabled(c) /\ UNCHANGED <<file, task>>
    BY <1>8 DEF Join, TypeOK
  <2>2. \A t \in Tasks : ~ Live(t)
    BY <1>1, <2>1 DEF Held
  <2> QED
    BY <1>6, <2>1, <2>2
<1>9. CASE Answer(c)
  BY <1>4, <1>9 DEF Answer
<1>10. CASE CallCut(c)
  <2> DEFINE r == [call[c] EXCEPT !.at = "writing"]
  <2>1. /\ call' = [call EXCEPT ![c] = r] /\ call[c].at = "saving"
        /\ UNCHANGED <<file, task>>
    BY <1>10 DEF CallCut, Cut
  <2>2. Sound(r)
    BY <1>1, <2>1 DEF Sound, CallState
  <2> HIDE DEF r
  <2> QED
    BY <1>2, <2>1, <2>2, CallTidy
<1>11. CASE CallWrite(c)
  <2>1. /\ call[c].at = "writing" /\ UNCHANGED task
        /\ file' = [file EXCEPT ![p] = s]
        /\ call' = [call EXCEPT ![c] = At(call[c].then, p, Default)]
        /\ call[c].then \in {"ensuring", "answering"}
    BY <1>1, <1>11 DEF CallWrite, Write, TypeOK, CallState
  <2> HIDE DEF p, s
  <2>2. file'[p] = s /\ \A q \in Profiles : q # p => file'[q] = file[q]
    BY <1>1, <2>1 DEF TypeOK
  <2>3. FilesSound'
    BY <1>3, <2>2 DEF Tidy, FilesSound
  <2>4. ~ s.enabled => \A t \in Tasks : Live(t) => task[t].profile # p
    BY <1>1, <2>1 DEF Sound, p, s
  <2>5. TasksSound'
    <3>1. \A t \in Tasks : Live(t) => task[t].profile \in Profiles
      BY DEF TypeOK, TaskState
    <3> QED
      BY <2>1, <2>2, <2>4, <3>1 DEF Tidy, TasksSound
  <2>6. /\ call'[c] = At(call[c].then, p, Default)
        /\ \A d \in Calls : d # c => call'[d] = call[d]
    BY <2>1 DEF TypeOK
  <2>7. Sound(call[c])'
    <3>1. call[c].then = "ensuring" => s.enabled
      BY <1>1, <2>1 DEF Sound, s
    <3>2. /\ call'[c].copy = Default /\ call'[c].at = call[c].then /\ call'[c].profile = p
      BY <1>1, <2>1, <2>6, AtFacts, DefaultType
    <3> QED
      BY <2>1, <2>2, <3>1, <3>2, DefaultType DEF Sound
  <2>8. ASSUME NEW d \in Calls, d # c
        PROVE  Sound(call[d])'
    BY <1>2, <2>6, <2>8 DEF Tidy, CallsSound, Sound
  <2>9. Alone'
    BY <1>2, <2>6 DEF Alone
  <2> QED
    BY <2>3, <2>5, <2>7, <2>8, <2>9 DEF Tidy, CallsSound
<1>12. CASE EnsureRuntime(c)
  <2>1. UNCHANGED file /\ call[c].at = "ensuring" /\ file[p].enabled
    BY <1>1, <1>12 DEF EnsureRuntime, Sound
  <2>2. CASE handle # None /\ Live(handle)
    BY <1>4, <1>5, <1>12, <2>1, <2>2 DEF EnsureRuntime
  <2>3. CASE ~ (handle # None /\ Live(handle))
    <3>1. /\ NewTask \in Tasks /\ Answering(c)
          /\ task' = [task EXCEPT ![NewTask] = [Finished EXCEPT !.at = "top", !.profile = p]]
      BY <1>12, <2>3 DEF EnsureRuntime
    <3>2. /\ task'[NewTask].at = "top" /\ task'[NewTask].profile = p
          /\ \A u \in Tasks : u # NewTask => task'[u] = task[u]
      BY <3>1 DEF TypeOK, Finished
    <3> HIDE DEF p, s
    <3>3. TasksSound'
      BY <2>1, <3>2 DEF Tidy, TasksSound
    <3>4. /\ call'[c] = At("answering", p, Default)
          /\ \A d \in Calls : d # c => call'[d] = call[d]
      BY <3>1 DEF Answering, TypeOK, p
    <3>5. call'[c].at = "answering" /\ call'[c].copy = Default
      BY <1>1, <3>4, AtFacts, DefaultType
    <3>6. \A d \in Calls : Sound(call[d])'
      BY <1>2, <2>1, <3>4, <3>5, DefaultType DEF Tidy, CallsSound, Sound
    <3>7. Alone' /\ FilesSound'
      BY <1>2, <2>1, <3>4 DEF Tidy, Alone, FilesSound
    <3> QED
      BY <3>3, <3>6, <3>7 DEF Tidy, CallsSound
  <2> QED
    BY <2>2, <2>3
<1>13. CASE DisableRuntime(c)
  <2>1. /\ call[c].at = "locking" /\ lock = None /\ UNCHANGED file
        /\ \A t \in Tasks : Live(t) => t = handle
    BY <1>13 DEF DisableRuntime, Held
  <2>2. CASE LeavesAlone(c)
    BY <1>1, <1>6, <1>13, <2>1, <2>2 DEF DisableRuntime, LeavesAlone
  <2>3. CASE ~ LeavesAlone(c)
    <3> DEFINE r == [call[c] EXCEPT !.at = "joining", !.joins = handle]
               q == [task[handle] EXCEPT !.stop = Live(handle)]
    <3>1. /\ task' = [task EXCEPT ![handle] = q]
          /\ call' = [call EXCEPT ![c] = r]
          /\ handle \in Tasks /\ task[handle] \in TaskState
      BY <1>13, <2>3 DEF DisableRuntime, LeavesAlone, TellsToStop, TypeOK
    <3>2. r.at = "joining" /\ r.copy = s
      BY <1>1 DEF CallState
    <3>3. q.at = task[handle].at /\ q.profile = task[handle].profile /\ q.copy = task[handle].copy
      BY <3>1 DEF TaskState
    <3> HIDE DEF q, r
    <3>4. \A u \in Tasks : /\ task'[u].at = task[u].at
                           /\ task'[u].profile = task[u].profile
                           /\ task'[u].copy = task[u].copy
      BY <3>1, <3>3 DEF TypeOK
    <3>5. call'[c] = r /\ \A d \in Calls : d # c => call'[d] = call[d]
      BY <3>1 DEF TypeOK
    <3>6. TasksSound' /\ FilesSound'
      BY <2>1, <3>4 DEF Tidy, TasksSound, FilesSound
    <3>7. \A d \in Calls : Sound(call[d])'
      BY <1>2, <1>3, <2>1, <3>2, <3>4, <3>5 DEF Tidy, CallsSound, Sound
    <3>8. Alone'
      BY <1>2, <3>5 DEF Alone
    <3> QED
      BY <3>6, <3>7, <3>8 DEF Tidy, CallsSound
  <2> QED
    BY <2>2, <2>3
<1> QED
  BY <1>7, <1>8, <1>9, <1>10, <1>11, <1>12, <1>13 DEF Locks, Continue

LEMMA TaskStepTidy ==
  ASSUME TypeOK, Held, Tidy, NEW t \in Tasks, Runs(t) \/ Relayed(t)
  PROVE  Tidy'
<1> DEFINE p == task[t].profile
<1>1. /\ Live(t) /\ p \in Profiles /\ UNCHANGED call /\ task[t] \in TaskState
      /\ file[p].enabled
      /\ task[t].at \in {"announcing", "saving", "writing"} => task[t].copy.enabled
  BY TaskEffect, ShareAssumption DEF TypeOK, TaskState, Tidy, TasksSound
<1>2. PICK q : /\ TaskShape(q)
               /\ task' = [task EXCEPT ![t] = q]
               /\ q.at # "finished" => q.profile = p
               /\ q.at \in {"announcing", "saving"} => q.copy.enabled = file[p].enabled
               /\ q.at = "writing" =>
                    q.copy = task[t].copy /\ task[t].at \in {"announcing", "saving"}
               /\ \/ UNCHANGED file
                  \/ task[t].at = "writing" /\ file' = [file EXCEPT ![p] = task[t].copy]
  BY TaskEffect DEF Moves
<1>3. task'[t] = q /\ \A u \in Tasks : u # t => task'[u] = task[u]
  BY <1>2 DEF TypeOK
<1>4. /\ file'[p].enabled
      /\ \A x \in Profiles : x # p => file'[x] = file[x]
  BY <1>1, <1>2 DEF TypeOK
<1>5. FilesSound'
  BY <1>4 DEF Tidy, FilesSound
<1>6. \A u \in Tasks : Live(u) => task[u].profile \in Profiles
  BY DEF TypeOK, TaskState
<1> HIDE DEF p
<1>7. q.at = "writing" => q.copy.enabled
  BY <1>1, <1>2
<1>8. TasksSound'
  <2>1. ASSUME NEW u \in Tasks, u # t
        PROVE  /\ Live(u)' => file'[task'[u].profile].enabled
               /\ task'[u].at \in {"announcing", "saving", "writing"} => task'[u].copy.enabled
    BY <1>3, <1>4, <1>6, <2>1 DEF Tidy, TasksSound
  <2>2. /\ Live(t)' => file'[task'[t].profile].enabled
        /\ task'[t].at \in {"announcing", "saving", "writing"} => task'[t].copy.enabled
    BY <1>1, <1>2, <1>3, <1>4, <1>7
  <2> QED
    BY <2>1, <2>2 DEF TasksSound
<1>9. \A c \in Calls : Sound(call[c])'
  <2>1. ASSUME NEW c \in Calls
        PROVE  Sound(call[c])'
    <3>1. Sound(call[c]) /\ (call[c].at # "idle" => call[c].profile \in Profiles)
      BY BusyFacts DEF Tidy, CallsSound
    <3>2. \A u \in Tasks : Live(u)' => Live(u) /\ task'[u].profile = task[u].profile
      BY <1>1, <1>2, <1>3 DEF p
    <3> QED
      BY <1>1, <1>4, <3>1, <3>2 DEF Sound
  <2> QED
    BY <2>1
<1>10. Alone'
  BY <1>1 DEF Tidy, Alone
<1> QED
  BY <1>5, <1>8, <1>9, <1>10 DEF Tidy, CallsSound

LEMMA InStepStep ==
  ASSUME TypeOK, Held, InStep, [Next]_vars
  PROVE  InStep'
<1>1. SUFFICES ASSUME orderly' PROVE Tidy'
  BY DEF InStep
<1>2. ASSUME NEW c \in Calls, Start(c)
      PROVE  Tidy'
  <2>1. orderly /\ NoCall
    BY <1>1, <1>2 DEF Start, TypeOK
  <2> QED
    BY <1>2, <2>1, StartTidy DEF Start, InStep
<1>3. ASSUME NEW c \in Calls, Locks(c) \/ Continue(c)
      PROVE  Tidy'
  <2>1. orderly
    BY <1>1, <1>3 DEF Locks, Continue, Register, Join, CallCut, CallWrite, EnsureRuntime,
       DisableRuntime, Answer
  <2> QED
    BY <1>3, <2>1, CallStepTidy DEF InStep
<1>4. ASSUME NEW t \in Tasks, Runs(t) \/ Relayed(t)
      PROVE  Tidy'
  <2>1. orderly
    BY <1>1, <1>4, TaskEffect
  <2> QED
    BY <1>4, <2>1, TaskStepTidy DEF InStep
<1>5. CASE Crash
  BY <1>1, <1>5 DEF Crash
<1>6. CASE UNCHANGED vars
  BY <1>1, <1>6 DEF vars, InStep, Tidy, Alone, FilesSound, TasksSound, CallsSound, Sound
<1> QED
  BY <1>2, <1>3, <1>4, <1>5, <1>6 DEF Next

LEMMA InStepAlways == Spec => [](TypeOK /\ InStep)
<1>1. Init => Held /\ InStep
  BY IdleFacts, FinishedFacts, DefaultType
     DEF Init, Held, InStep, Tidy, Alone, FilesSound, TasksSound, CallsSound, Sound
<1>2. TypeOK /\ Held /\ [Next]_vars => Held'
  BY HeldStep
<1>3. TypeOK /\ Held /\ InStep /\ [Next]_vars => InStep'
  BY InStepStep
<1> QED
  BY <1>1, <1>2, <1>3, TypeCorrect, PTL DEF Spec

\* As long as calls come one at a time, a profile that is switched off is not shared,
\* whatever the task was in the middle of saving when it was switched off.
THEOREM DisabledCorrect == Spec => []DisabledDoesNotShare
<1>1. TypeOK /\ InStep => DisabledDoesNotShare
  BY DEF InStep, Tidy, TasksSound, DisabledDoesNotShare
<1> QED
  BY <1>1, InStepAlways, PTL

\* As long as calls come one at a time, a profile that is switched off is not shown as
\* active, whichever of the task's and the calls' saves of its file comes last.
THEOREM OffShownCorrect == Spec => []OffIsShownOff
<1>1. TypeOK /\ InStep => OffIsShownOff
  BY DEF InStep, Tidy, FilesSound, OffIsShownOff
<1> QED
  BY <1>1, InStepAlways, PTL
=============================================================================
