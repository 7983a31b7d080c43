---------------------------- MODULE AiNegotiator ----------------------------
(***************************************************************************)
(* The local language model of the app: the negotiator published in         *)
(* SHARED_AI, the inference engine each negotiator keeps behind a mutex of  *)
(* its own, and the model file the user downloads and activates.  Calls     *)
(* from the screens and from the node run on several threads.  A tokio      *)
(* mutex is fair: it is the queue of the calls that asked for it, and the   *)
(* first of them holds it.  A call gives up everything it holds when it     *)
(* returns.                                                                 *)
(*                                                                         *)
(* Left out: the progress of a download, the texts, the cache of            *)
(* decide_route (a hit repeats an earlier answer and changes nothing).      *)
(***************************************************************************)
EXTENDS DealAgent, FiniteSets

CONSTANTS
  Callers,  \* calls that can be under way at the same time
  Ais,      \* negotiators: one is made whenever the runtime or node starts
  Models    \* models the app offers

Nothing == "none"

ASSUME AiAssumption ==
  /\ Ais \cap {Nothing, "shared", "engine"} = {}
  /\ Models \cap {Nothing, "unmade"} = {}

VARIABLES
  shared,   \* SHARED_AI, or Nothing
  loaded,   \* the model in each negotiator's engine, Nothing, or "unmade"
  files,    \* the file of each model: "none", "partial" or "whole"
  queue,    \* who holds each mutex (first) and who waits for it
  call      \* what each caller is doing

aiVars == <<shared, loaded, files, queue, call>>

Locks == {"shared", "engine"} \cup Ais

Idle == [op |-> "idle"]

BusyCallers == {c \in Callers : call[c] # Idle}

\* main() waits for prepare_local_runtime before there are screens; that may
\* have failed.
AfterPrepare ==
  LET unmade == [ai \in Ais |-> "unmade"] IN
  {[shared |-> Nothing, loaded |-> unmade]}
    \cup {[shared |-> ai, loaded |-> [unmade EXCEPT ![ai] = Nothing]] : ai \in Ais}

AiInit ==
  /\ \E p \in AfterPrepare : shared = p.shared /\ loaded = p.loaded
  /\ files = [m \in Models |-> "none"]
  /\ queue = [l \in Locks |-> <<>>]
  /\ call = [c \in Callers |-> Idle]

-----------------------------------------------------------------------------
(* Mutexes and calls.                                                      *)

Holds(c, l) == queue[l] # <<>> /\ Head(queue[l]) = c

Without(line, c) == IF line # <<>> /\ Head(line) = c THEN Tail(line) ELSE line

\* The call goes on to wait for mutex l, keeping what it holds.
Lock(c, l, state) ==
  /\ queue' = [queue EXCEPT ![l] = Append(@, c)]
  /\ call' = [call EXCEPT ![c] = state]

\* The call drops mutex k and goes on to wait for l.
Swap(c, k, l, state) ==
  /\ queue' = [[queue EXCEPT ![k] = Without(@, c)] EXCEPT ![l] = Append(@, c)]
  /\ call' = [call EXCEPT ![c] = state]

Return(c) ==
  /\ queue' = [l \in Locks |-> Without(queue[l], c)]
  /\ call' = [call EXCEPT ![c] = Idle]

\* The call is doing op and has got mutex l at step at.
Runs(c, op, at, l) == call[c].op = op /\ call[c].at = at /\ Holds(c, l)

-----------------------------------------------------------------------------
(* start_hydra_node publishes a new negotiator, and so does                 *)
(* prepare_local_runtime when main() runs again.                            *)

Start(c) ==
  /\ call[c] = Idle
  /\ \E ai \in Ais :
       /\ loaded[ai] = "unmade"
       /\ loaded' = [loaded EXCEPT ![ai] = Nothing]
       /\ Lock(c, "shared", [op |-> "start", at |-> "shared", ai |-> ai])
  /\ UNCHANGED <<shared, files>>

Publish(c) ==
  /\ Runs(c, "start", "shared", "shared")
  /\ shared' = call[c].ai
  /\ Return(c)
  /\ UNCHANGED <<loaded, files>>

-----------------------------------------------------------------------------
(* Model files: get_available_models shows a model as downloaded when its   *)
(* file exists, and offers the download otherwise.                          *)

IsDownloaded(m) == files[m] # "none"

\* The file is created before the first byte arrives.
Download(c, m) ==
  /\ call[c] = Idle
  /\ ~ IsDownloaded(m)
  /\ files' = [files EXCEPT ![m] = "partial"]
  /\ call' = [call EXCEPT ![c] = [op |-> "download", model |-> m]]
  /\ UNCHANGED <<shared, loaded, queue>>

\* It is complete, or the download breaks off and the file stays as it is.
EndDownload(c) ==
  /\ call[c].op = "download"
  /\ \/ files' = [files EXCEPT ![call[c].model] = "whole"]
     \/ UNCHANGED files
  /\ Return(c)
  /\ UNCHANGED <<shared, loaded>>

-----------------------------------------------------------------------------
(* set_active_model and load_model: SHARED_AI is held throughout.           *)

Activate(c, m) ==
  /\ call[c] = Idle
  /\ IsDownloaded(m)
  /\ Lock(c, "shared", [op |-> "activate", at |-> "shared", model |-> m])
  /\ UNCHANGED <<shared, loaded, files>>

\* Only a whole file can be loaded; that too may fail, without an effect.
LoadModel(c) ==
  /\ Runs(c, "activate", "shared", "shared")
  /\ \/ /\ shared # Nothing /\ files[call[c].model] = "whole"
        /\ Lock(c, shared, [call[c] EXCEPT !.at = "infer"])
     \/ Return(c)
  /\ UNCHANGED <<shared, loaded, files>>

InstallModel(c) ==
  /\ Runs(c, "activate", "infer", shared)
  /\ loaded' = [loaded EXCEPT ![shared] = call[c].model]
  /\ Return(c)
  /\ UNCHANGED <<shared, files>>

-----------------------------------------------------------------------------
(* Who asks the model.                                                     *)

\* analyze_connections and analyze_host.
Analyze(c) ==
  /\ call[c] = Idle
  /\ Lock(c, "shared", [op |-> "analyze", at |-> "shared"])
  /\ UNCHANGED <<shared, loaded, files>>

AskModel(c) ==
  /\ Runs(c, "analyze", "shared", "shared")
  /\ IF shared = Nothing THEN Return(c)
     ELSE Lock(c, shared, [op |-> "analyze", at |-> "infer"])
  /\ UNCHANGED <<shared, loaded, files>>

Answer(c) ==
  /\ shared # Nothing /\ Runs(c, "analyze", "infer", shared)
  /\ Return(c)
  /\ UNCHANGED <<shared, loaded, files>>

\* decide_route after a miss, or llm_rerank, by whoever has a negotiator.
Consult(c, ai) ==
  /\ call[c] = Idle
  /\ loaded[ai] # "unmade"
  /\ Lock(c, ai, [op |-> "consult", at |-> "infer", ai |-> ai])
  /\ UNCHANGED <<shared, loaded, files>>

Decide(c) ==
  /\ call[c].op = "consult" /\ Holds(c, call[c].ai)
  /\ Return(c)
  /\ UNCHANGED <<shared, loaded, files>>

-----------------------------------------------------------------------------
AiStep ==
  \E c \in Callers :
    \/ Start(c) \/ Publish(c)
    \/ \E m \in Models : Download(c, m) \/ Activate(c, m)
    \/ EndDownload(c)
    \/ LoadModel(c) \/ InstallModel(c)
    \/ Analyze(c) \/ AskModel(c) \/ Answer(c)
    \/ \E ai \in Ais : Consult(c, ai)
    \/ Decide(c)

-----------------------------------------------------------------------------
\* What a caller of the model can be doing.
AiCalls ==
  {Idle}
    \cup [op : {"start"}, at : {"shared"}, ai : Ais]
    \cup [op : {"download"}, model : Models]
    \cup [op : {"activate"}, at : {"shared", "infer"}, model : Models]
    \cup [op : {"analyze"}, at : {"shared", "infer"}]
    \cup [op : {"consult"}, at : {"infer"}, ai : Ais]

AiTypeOK ==
  /\ shared \in Ais \cup {Nothing}
  /\ loaded \in [Ais -> Models \cup {Nothing, "unmade"}]
  /\ files \in [Models -> {"none", "partial", "whole"}]
  /\ queue \in [Locks -> Seq(Callers)]

\* Whatever a call that has got the model asks for, what it goes away with is
\* justified: by its own rules if no model is loaded or its answer is of no
\* use, and within the limits it sets the model otherwise.
ChoiceIsJustified ==
  \A c \in Callers : (call[c].op = "consult" /\ Holds(c, call[c].ai)) =>
    JustifiedWithout /\ (loaded[call[c].ai] \in Models => JustifiedWith)
=============================================================================
