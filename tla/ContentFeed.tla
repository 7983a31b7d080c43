---------------------------- MODULE ContentFeed ----------------------------
(***************************************************************************)
(* The content feed of the app: the ContentEngine behind CONTENT_ENGINE     *)
(* with its Telegram client, its summarizer and the tracker of the user's   *)
(* attention, and the two screens that call it.  It shares the language     *)
(* model with the rest of the app, and its mutex is held across every       *)
(* network request; a request is therefore one step of the call that holds  *)
(* it.  The app may be killed at any time, and its screens may be rebuilt   *)
(* (main() runs again) while calls of the former ones go on.  A call asks   *)
(* for its first mutex when its button is pressed: that a later press       *)
(* overtakes it between Dart and the mutex is left out.                     *)
(*                                                                         *)
(* Left out: missing API credentials, message contents and fold levels, the *)
(* cache of processed messages and the live updates (nothing calls them).   *)
(***************************************************************************)
EXTENDS AiNegotiator

CONSTANT
  Events  \* attention events the user can cause

VARIABLES
  engine,   \* CONTENT_ENGINE: NoEngine, or the engine's state
  session,  \* does the Telegram session file hold a login?
  store,    \* events in the attention file; an unreadable file has none
  screen,   \* _authState of the content screen
  chat,     \* the chat screen: "none", "loading", "loaded" or "failed"
  acked     \* history: events the shown screens have been answered Ok for,
            \* since a write of the file was last torn

feedVars == <<engine, session, store, screen, chat, acked>>
contentVars == <<aiVars, feedVars>>

\* ContentEngine::new, which also reads the attention file.
NewEngine(ai) ==
  [ai |-> ai, client |-> FALSE, state |-> "disconnected",
   login |-> FALSE, password |-> FALSE, events |-> store]

NoEngine == [initialized |-> FALSE]

FeedInit ==
  /\ AiInit
  /\ engine = NoEngine
  /\ session = FALSE
  /\ store = {}
  /\ screen = "disconnected"
  /\ chat = "none"
  /\ acked = {}

\* A call of the screens that are shown, not of former ones.
Shown(c) == "shown" \in DOMAIN call[c] /\ call[c].shown

\* _isLoading: a login call is under way and the screen shows a spinner.
LoginOps == {"connect", "phone", "code", "password"}
Loading == \E c \in Callers : call[c].op \in LoginOps /\ Shown(c)

ShowAfter(c, s) == screen' = IF Shown(c) THEN s ELSE screen

Ask(c, op) == Lock(c, "engine", [op |-> op, at |-> "engine", shown |-> TRUE])

-----------------------------------------------------------------------------
(* Logging in, from the authorization view.                                *)

AuthView == ~ Loading /\ chat = "none"

\* _connectTelegram: init_content_engine and then telegram_connect.
PressConnect(c) ==
  /\ call[c] = Idle
  /\ AuthView /\ screen = "disconnected"
  /\ Lock(c, "shared", [op |-> "connect", at |-> "shared", shown |-> TRUE])
  /\ UNCHANGED <<shared, loaded, files, feedVars>>

\* The new engine is complete, the attention file read, before CONTENT_ENGINE
\* is locked.
CreateEngine(c) ==
  /\ Runs(c, "connect", "shared", "shared")
  /\ IF shared = Nothing THEN Return(c)
     ELSE Swap(c, "shared", "engine",
               [op |-> "connect", at |-> "replace", shown |-> Shown(c),
                engine |-> NewEngine(shared)])
  /\ UNCHANGED <<shared, loaded, files, feedVars>>

ReplaceEngine(c) ==
  /\ Runs(c, "connect", "replace", "engine")
  /\ engine' = call[c].engine
  /\ Swap(c, "engine", "engine", [op |-> "connect", at |-> "connect", shown |-> Shown(c)])
  /\ UNCHANGED <<shared, loaded, files, session, store, screen, chat, acked>>

\* The session may have been revoked from another device.
TelegramConnect(c) ==
  /\ Runs(c, "connect", "connect", "engine")
  /\ \/ \E authorized \in {FALSE, session} :
          LET s == IF authorized THEN "authorized" ELSE "need_phone" IN
          /\ engine' = [engine EXCEPT !.client = TRUE, !.state = s]
          /\ session' = authorized
          /\ ShowAfter(c, s)
     \/ UNCHANGED <<engine, session, screen>>
  /\ Return(c)
  /\ UNCHANGED <<shared, loaded, files, store, chat, acked>>

\* The buttons that send the phone number, the code and the password.
Submit(c) ==
  /\ call[c] = Idle
  /\ AuthView
  /\ \/ screen = "need_phone" /\ Ask(c, "phone")
     \/ screen = "need_code" /\ Ask(c, "code")
     \/ screen = "need_password" /\ Ask(c, "password")
  /\ UNCHANGED <<shared, loaded, files, feedVars>>

\* The call ends with Ok in this state, which the screen then shows.
Enter(c, e, s) ==
  /\ engine' = [e EXCEPT !.state = s]
  /\ session' = (session \/ s = "authorized")
  /\ ShowAfter(c, s)

\* The call ends with an error: the screen stays where it is.
Refuse(e) == engine' = e /\ UNCHANGED <<session, screen>>

SendPhone(c) ==
  /\ Runs(c, "phone", "engine", "engine")
  /\ \/ engine # NoEngine /\ engine.client
          /\ Enter(c, [engine EXCEPT !.login = TRUE], "need_code")
     \/ Refuse(engine)
  /\ Return(c)
  /\ UNCHANGED <<shared, loaded, files, store, chat, acked>>

\* Mutant: the token of the login is kept for another attempt that the state
\* no longer asks for, and the one of the password is not stored.
SendCodeForgetting(c) ==
  /\ Runs(c, "code", "engine", "engine")
  /\ IF engine # NoEngine /\ engine.client /\ engine.login
       THEN LET taken == [engine EXCEPT !.login = FALSE] IN
            \/ Enter(c, taken, "authorized")
            \/ Enter(c, taken, "need_password")
            \/ Refuse([taken EXCEPT !.state = "error"])
       ELSE Refuse(engine)
  /\ Return(c)
  /\ UNCHANGED <<shared, loaded, files, store, chat, acked>>

\* The token is taken before the code is checked.
SendCode(c) ==
  /\ Runs(c, "code", "engine", "engine")
  /\ IF engine # NoEngine /\ engine.client /\ engine.login
       THEN LET taken == [engine EXCEPT !.login = FALSE] IN
            \/ Enter(c, taken, "authorized")
            \/ Enter(c, [taken EXCEPT !.password = TRUE], "need_password")
            \/ Refuse([taken EXCEPT !.state = "error"])
       ELSE Refuse(engine)
  /\ Return(c)
  /\ UNCHANGED <<shared, loaded, files, store, chat, acked>>

SendPassword(c) ==
  /\ Runs(c, "password", "engine", "engine")
  /\ IF engine # NoEngine /\ engine.client /\ engine.password
       THEN LET taken == [engine EXCEPT !.password = FALSE] IN
            Enter(c, taken, "authorized") \/ Refuse([taken EXCEPT !.state = "error"])
       ELSE Refuse(engine)
  /\ Return(c)
  /\ UNCHANGED <<shared, loaded, files, store, chat, acked>>

-----------------------------------------------------------------------------
(* Reading, from the view of a logged-in user.                             *)

FeedView == ~ Loading /\ chat = "none" /\ screen = "authorized"

\* The logout button, which shows no spinner.
PressLogout(c) ==
  /\ call[c] = Idle /\ FeedView
  /\ Ask(c, "disconnect")
  /\ UNCHANGED <<shared, loaded, files, feedVars>>

\* telegram_disconnect; the tokens stay.
TelegramDisconnect(c) ==
  /\ Runs(c, "disconnect", "engine", "engine")
  /\ engine' = IF engine = NoEngine THEN NoEngine
               ELSE [engine EXCEPT !.client = FALSE, !.state = "disconnected"]
  /\ ShowAfter(c, "disconnected")
  /\ Return(c)
  /\ UNCHANGED <<shared, loaded, files, session, store, chat, acked>>

\* What only looks at the engine: the auth state, the dialogs, the statistics
\* and, for every credit check, telegram_anchor_info.
Query(c) ==
  /\ call[c] = Idle
  /\ Lock(c, "engine", [op |-> "query", at |-> "engine"])
  /\ UNCHANGED <<shared, loaded, files, feedVars>>

AnswerQuery(c) ==
  /\ Runs(c, "query", "engine", "engine")
  /\ Return(c)
  /\ UNCHANGED <<shared, loaded, files, feedVars>>

\* A chat is opened, refreshed or retried.
LoadMessages(c) ==
  /\ call[c] = Idle
  /\ FeedView \/ chat \in {"loaded", "failed"}
  /\ chat' = "loading"
  /\ Ask(c, "fetch")
  /\ UNCHANGED <<shared, loaded, files, engine, session, store, screen, acked>>

ChatAfter(c, s) == chat' = IF Shown(c) THEN s ELSE chat

\* fetch_channel_messages up to a message that is long enough for a summary,
\* to the end, or to an error.
Fetch(c) ==
  /\ Runs(c, "fetch", "engine", "engine")
  /\ \/ /\ engine # NoEngine /\ engine.client
        /\ \/ ChatAfter(c, "loaded") /\ Return(c)
           \/ /\ Lock(c, engine.ai, [call[c] EXCEPT !.at = "infer"])
              /\ UNCHANGED chat
     \/ ChatAfter(c, "failed") /\ Return(c)
  /\ UNCHANGED <<shared, loaded, files, engine, session, store, screen, acked>>

\* Mutant: the model is kept for the next message, which asks for it again.
SummarizeKeeping(c) ==
  /\ engine # NoEngine /\ Runs(c, "fetch", "infer", engine.ai)
  /\ call' = [call EXCEPT ![c].at = "engine"]
  /\ UNCHANGED <<shared, loaded, files, queue, feedVars>>

\* Summarizer::process, by the model or by sentences; then the next message.
Summarize(c) ==
  /\ engine # NoEngine /\ Runs(c, "fetch", "infer", engine.ai)
  /\ queue' = [queue EXCEPT ![engine.ai] = Tail(@)]
  /\ call' = [call EXCEPT ![c].at = "engine"]
  /\ UNCHANGED <<shared, loaded, files, feedVars>>

\* The chat is closed; a fetch that is still under way has nobody to show it.
CloseChat ==
  /\ chat # "none"
  /\ chat' = "none"
  /\ call' = [c \in Callers |->
       IF call[c].op = "fetch" THEN [call[c] EXCEPT !.shown = FALSE] ELSE call[c]]
  /\ UNCHANGED <<shared, loaded, files, queue,
                 engine, session, store, screen, acked>>

-----------------------------------------------------------------------------
(* Attention.                                                              *)

Recording == {call[c].event : c \in {d \in Callers : call[d].op = "record"}}

\* _onAttention is fired and forgotten, while messages are shown.
Attend(c) ==
  /\ call[c] = Idle
  /\ chat = "loaded"
  /\ \E event \in Events \ (Recording \cup acked) :
       Lock(c, "engine", [op |-> "record", at |-> "engine", shown |-> TRUE, event |-> event])
  /\ UNCHANGED <<shared, loaded, files, feedVars>>

\* The event is in the file, and the screen is told if it is still there.
Acknowledge(c) ==
  acked' = IF Shown(c) THEN acked \cup {call[c].event} ELSE acked

\* Mutant: the event is remembered, and the file is left to later.
RecordLater(c) ==
  /\ Runs(c, "record", "engine", "engine")
  /\ IF engine = NoEngine THEN UNCHANGED <<engine, acked>>
     ELSE /\ engine' = [engine EXCEPT !.events = @ \cup {call[c].event}]
          /\ Acknowledge(c)
  /\ Return(c)
  /\ UNCHANGED <<shared, loaded, files, session, screen, chat, store>>

\* record_event appends the event and writes the whole file; a write that
\* fails has emptied it.
Record(c) ==
  /\ Runs(c, "record", "engine", "engine")
  /\ IF engine = NoEngine THEN UNCHANGED <<engine, store, acked>>
     ELSE /\ engine' = [engine EXCEPT !.events = @ \cup {call[c].event}]
          /\ \/ store' = engine'.events /\ Acknowledge(c)
             \/ store' = {} /\ acked' = {}
  /\ Return(c)
  /\ UNCHANGED <<shared, loaded, files, session, screen, chat>>

-----------------------------------------------------------------------------
(* The app.                                                                *)

\* The activity is created again: new screens, the same process.
NewScreens ==
  /\ screen' = "disconnected"
  /\ chat' = "none"
  /\ call' = [c \in Callers |->
       IF Shown(c) THEN [call[c] EXCEPT !.shown = FALSE] ELSE call[c]]
  /\ UNCHANGED <<shared, loaded, files, queue, engine, session, store, acked>>

\* The process dies, perhaps while the file is written, and starts again.
Kill ==
  /\ \E p \in AfterPrepare : shared' = p.shared /\ loaded' = p.loaded
  /\ queue' = [l \in Locks |-> <<>>]
  /\ call' = [c \in Callers |-> Idle]
  /\ engine' = NoEngine
  /\ screen' = "disconnected"
  /\ chat' = "none"
  /\ \/ UNCHANGED <<store, acked>>
     \/ /\ \E c \in Callers : Runs(c, "record", "engine", "engine")
        /\ store' = {} /\ acked' = {}
  /\ UNCHANGED <<files, session>>

-----------------------------------------------------------------------------
FeedStep ==
  \/ \E c \in Callers :
       \/ PressConnect(c) \/ CreateEngine(c) \/ ReplaceEngine(c) \/ TelegramConnect(c)
       \/ Submit(c) \/ SendPhone(c) \/ SendCode(c) \/ SendPassword(c)
       \/ PressLogout(c) \/ TelegramDisconnect(c)
       \/ Query(c) \/ AnswerQuery(c)
       \/ LoadMessages(c) \/ Fetch(c) \/ Summarize(c)
       \/ Attend(c) \/ Record(c)
  \/ CloseChat
  \/ NewScreens

FeedNext ==
  \/ AiStep /\ UNCHANGED feedVars
  \/ FeedStep
  \/ Kill

FeedSpec == FeedInit /\ [][FeedNext]_contentVars

-----------------------------------------------------------------------------
AuthStates == {"disconnected", "need_phone", "need_code", "need_password",
               "authorized", "error"}

Engines == [ai : Ais, client : BOOLEAN, state : AuthStates, login : BOOLEAN,
            password : BOOLEAN, events : SUBSET Events]

FeedCalls ==
  [op : {"query"}, at : {"engine"}]
    \cup [op : {"connect"}, at : {"shared", "connect"}, shown : BOOLEAN]
    \cup [op : {"connect"}, at : {"replace"}, shown : BOOLEAN, engine : Engines]
    \cup [op : {"phone", "code", "password", "disconnect"}, at : {"engine"}, shown : BOOLEAN]
    \cup [op : {"fetch"}, at : {"engine", "infer"}, shown : BOOLEAN]
    \cup [op : {"record"}, at : {"engine"}, shown : BOOLEAN, event : Events]

FeedTypeOK ==
  /\ AiTypeOK
  /\ call \in [Callers -> AiCalls \cup FeedCalls]
  /\ engine \in Engines \cup {NoEngine}
  /\ session \in BOOLEAN
  /\ store \subseteq Events /\ acked \subseteq Events
  /\ screen \in AuthStates
  /\ chat \in {"none", "loading", "loaded", "failed"}

\* Every mutex is held by a call that is under way, and while calls are under
\* way one of them is not waiting: three mutexes are taken in turn (SHARED_AI
\* and then the engine of a negotiator, CONTENT_ENGINE and then the same), by
\* calls that hold one while they wait for the next.
\* A call that asks for a mutex it holds waits for itself.
Waits(c) == \E l \in Locks : \E i \in DOMAIN queue[l] : i # 1 /\ queue[l][i] = c

LocksAreHandedOn ==
  /\ \A l \in Locks : Range(queue[l]) \subseteq BusyCallers
  /\ BusyCallers # {} => \E c \in BusyCallers : ~ Waits(c)

\* A login step the client is waiting for can be taken: it has the connection
\* and the token of that step, whatever calls of former screens, new engines
\* and reconnections came in between.
TokensMatchState ==
  engine # NoEngine =>
    /\ engine.state \notin {"disconnected", "error"} => engine.client
    /\ engine.state = "need_code" => engine.login
    /\ engine.state = "need_password" => engine.password

\* An event the user's screen was told is recorded stays in the attention
\* file until a write of it is torn.  A login replaces the engine by one that
\* read the file before it waited for the mutex: what keeps it from overwriting
\* a later event is that the mutex is fair and that the screens let the user
\* log out only when no chat is open.
AttentionKept == acked \subseteq store
=============================================================================
