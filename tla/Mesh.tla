-------------------------------- MODULE Mesh --------------------------------
(***************************************************************************)
(* The peer-to-peer layer (hydra-p2p): every node runs one event loop that *)
(* serves, one at a time, the commands its own tasks queue and what comes  *)
(* from the other nodes: gossiped service announcements, diagnostic        *)
(* requests, their responses and failures.  A diagnostic request makes the *)
(* loop wait for a TCP connection, and nothing else is served meanwhile.   *)
(*                                                                         *)
(* libp2p is external: it delivers a message at most once, in any order,   *)
(* late or never, and reports a request it gives up as an OutboundFailure. *)
(* Kademlia, mDNS and ping telemetry are left out; tunnels are in Tunnels.  *)
(* All nodes read the same clock.                                           *)
(***************************************************************************)
EXTENDS Integers, Sequences

CONSTANTS
  Nodes,         \* the nodes of the mesh
  TTL,           \* SERVICE_ANNOUNCEMENT_TTL_SECS
  MaxTime,       \* bound on the clock
  Scripts        \* what the tasks may do: per node, a sequence of commands

Kinds == {"GetPeers", "OpenStream", "DiagnosticRequest", "PublishServiceAnnouncement"}

ASSUME MeshAssumption ==
  /\ TTL \in Nat /\ MaxTime \in Nat
  /\ \A s \in Scripts : s \in [Nodes -> Seq(Kinds)]
  /\ "nobody" \notin Nodes

VARIABLES
  script,   \* the commands each node's task issues in this behaviour
  now,      \* epoch seconds
  up,       \* the time until which a node ran; MaxTime + 1 while it runs
  loop,     \* the request a node's event loop is busy with, Free if none
  queue,    \* the command channel of each node
  caller,   \* the task that issues the node's commands
  pending,  \* pending_diag_requests of each node
  store,    \* service_announcements of each node
  wire      \* messages under way

meshVars == <<script, now, up, loop, queue, caller, pending, store, wire>>

Free == [from |-> "nobody", id |-> 0]

Up(n) == up[n] > MaxTime

AnnouncementType == [from : Nodes, at : Nat]

Messages ==
  [kind : {"gossip"}, about : AnnouncementType, to : Nodes]
    \cup [kind : {"request", "response"}, id : Nat, from : Nodes, to : Nodes]

MeshTypeOK ==
  /\ script \in Scripts
  /\ now \in 0..MaxTime
  /\ up \in [Nodes -> 0..MaxTime + 1]
  /\ loop \in [Nodes -> {Free} \cup [from : Nodes, id : Nat]]
  /\ queue \in [Nodes -> Seq(Kinds)]
  /\ caller \in [Nodes -> [at : {"idle", "queued", "waiting", "ok", "err"},
                           id : Nat, since : Nat, answers : Nat]]
  /\ pending \in [Nodes -> SUBSET Nat]
  /\ store \in [Nodes -> SUBSET AnnouncementType]
  /\ wire \subseteq Messages

MeshInit ==
  /\ script \in Scripts
  /\ now = 0
  /\ up = [n \in Nodes |-> MaxTime + 1]
  /\ loop = [n \in Nodes |-> Free]
  /\ queue = [n \in Nodes |-> <<>>]
  /\ caller = [n \in Nodes |-> [at |-> "idle", id |-> 0, since |-> 0, answers |-> 0]]
  /\ pending = [n \in Nodes |-> {}]
  /\ store = [n \in Nodes |-> {}]
  /\ wire = {}

-----------------------------------------------------------------------------
(* The handle's side of a command: queue it, wait for the answer.          *)

\* The task queues its next command; an announcement carries the time it was
\* made, which may be long before the loop takes it.
Issue(n) ==
  /\ Up(n)
  /\ caller[n].at \notin {"queued", "waiting"}
  /\ caller[n].id < Len(script[n])
  /\ LET kind == script[n][caller[n].id + 1]
         since == IF kind = "PublishServiceAnnouncement" THEN now ELSE 0
     IN  /\ queue' = [queue EXCEPT ![n] = Append(@, kind)]
         /\ caller' = [caller EXCEPT ![n] =
                 [at |-> "queued", id |-> @.id + 1, since |-> since, answers |-> 0]]
  /\ UNCHANGED <<script, now, up, loop, pending, store, wire>>

\* The command's answer, which for a request is that of the request id.
Answer(n, at, id) == [caller EXCEPT ![n].at = at, ![n].since = 0, ![n].answers = id]

-----------------------------------------------------------------------------
(* The event loop.                                                         *)

Ready(n) == Up(n) /\ loop[n] = Free

Sent(messages) == wire' = wire \cup messages

\* One entry per agent and endpoint, whatever the times of the two are.
Remembered(announcements, a) == {b \in announcements : b.from # a.from} \cup {a}

Announcement(n) == [from |-> n, at |-> caller[n].since]

Gossip(n) == [kind : {"gossip"}, about : {Announcement(n)}, to : Nodes \ {n}]

\* The node remembers its own announcement if gossipsub took it; with too few
\* peers it does not.
TakePublish(n) ==
  /\ \/ /\ Sent(Gossip(n))
        /\ store' = [store EXCEPT ![n] = Remembered(@, Announcement(n))]
        /\ caller' = Answer(n, "ok", caller[n].id)
     \/ /\ caller' = Answer(n, "err", caller[n].id)
        /\ UNCHANGED <<store, wire>>
  /\ UNCHANGED pending

TakeDiagnosticRequest(n) ==
  /\ \E peer \in Nodes \ {n} :
       Sent({[kind |-> "request", id |-> caller[n].id, from |-> n, to |-> peer]})
  /\ pending' = [pending EXCEPT ![n] = @ \cup {caller[n].id}]
  /\ caller' = [caller EXCEPT ![n].at = "waiting"]
  /\ UNCHANGED store

\* The stream is opened by a task of its own.
TakeOpenStream(n) ==
  /\ caller' = [caller EXCEPT ![n].at = "waiting"]
  /\ UNCHANGED <<pending, store, wire>>

StreamOpened(n) ==
  /\ Up(n)
  /\ caller[n].at = "waiting" /\ script[n][caller[n].id] = "OpenStream"
  /\ \E at \in {"ok", "err"} : caller' = Answer(n, at, caller[n].id)
  /\ UNCHANGED <<script, now, up, loop, queue, pending, store, wire>>

TakeGetPeers(n) ==
  /\ caller' = Answer(n, "ok", caller[n].id)
  /\ UNCHANGED <<pending, store, wire>>

TakeCommand(n) ==
  /\ Ready(n)
  /\ queue[n] # <<>>
  /\ queue' = [queue EXCEPT ![n] = Tail(@)]
  /\ CASE Head(queue[n]) = "PublishServiceAnnouncement" -> TakePublish(n)
       [] Head(queue[n]) = "DiagnosticRequest" -> TakeDiagnosticRequest(n)
       [] Head(queue[n]) = "OpenStream" -> TakeOpenStream(n)
       [] Head(queue[n]) = "GetPeers" -> TakeGetPeers(n)
  /\ UNCHANGED <<script, now, up, loop>>

\* Mutant: the announcement is dated when it arrives.
ReceiveGossipNow(n, m) ==
  /\ Ready(n) /\ m.kind = "gossip"
  /\ store' = [store EXCEPT ![n] = Remembered(@, [m.about EXCEPT !.at = now])]
  /\ wire' = wire \ {m}
  /\ UNCHANGED <<script, now, up, loop, queue, caller, pending>>

ReceiveGossip(n, m) ==
  /\ Ready(n) /\ m.kind = "gossip"
  /\ store' = [store EXCEPT ![n] = Remembered(@, m.about)]
  /\ wire' = wire \ {m}
  /\ UNCHANGED <<script, now, up, loop, queue, caller, pending>>

\* The loop starts to connect to the target and waits.
ReceiveRequest(n, m) ==
  /\ Ready(n) /\ m.kind = "request"
  /\ loop' = [loop EXCEPT ![n] = [from |-> m.from, id |-> m.id]]
  /\ wire' = wire \ {m}
  /\ UNCHANGED <<script, now, up, queue, caller, pending, store>>

\* The connection is there or has failed: the response goes out.
FinishRequest(n) ==
  /\ Up(n) /\ loop[n] # Free
  /\ Sent({[kind |-> "response", id |-> loop[n].id, from |-> n, to |-> loop[n].from]})
  /\ loop' = [loop EXCEPT ![n] = Free]
  /\ UNCHANGED <<script, now, up, queue, caller, pending, store>>

\* Mutant: the answer goes to whoever waits for this kind of answer.
ReceiveResponseToAnyone(n, m) ==
  /\ Ready(n) /\ m.kind = "response"
  /\ IF pending[n] # {}
       THEN /\ caller' = Answer(n, "ok", m.id)
            /\ pending' = [pending EXCEPT ![n] = {}]
       ELSE UNCHANGED <<caller, pending>>
  /\ wire' = wire \ {m}
  /\ UNCHANGED <<script, now, up, loop, queue, store>>

\* An answer nobody waits for any more is dropped.
ReceiveResponse(n, m) ==
  /\ Ready(n) /\ m.kind = "response"
  /\ IF m.id \in pending[n]
       THEN /\ caller' = Answer(n, "ok", m.id)
            /\ pending' = [pending EXCEPT ![n] = @ \ {m.id}]
       ELSE UNCHANGED <<caller, pending>>
  /\ wire' = wire \ {m}
  /\ UNCHANGED <<script, now, up, loop, queue, store>>

\* Mutant: a failed request is forgotten without an answer.
RequestFailsSilently(n, id) ==
  /\ Ready(n) /\ id \in pending[n]
  /\ pending' = [pending EXCEPT ![n] = @ \ {id}]
  /\ UNCHANGED <<script, now, up, loop, queue, caller, store, wire>>

\* OutboundFailure: the request timed out or the peer is gone.  The response
\* may still be under way.
RequestFails(n, id) ==
  /\ Ready(n) /\ id \in pending[n]
  /\ caller' = Answer(n, "err", id)
  /\ pending' = [pending EXCEPT ![n] = @ \ {id}]
  /\ UNCHANGED <<script, now, up, loop, queue, store, wire>>

-----------------------------------------------------------------------------
(* The network and the nodes' lives.                                       *)

Lose(m) ==
  /\ wire' = wire \ {m}
  /\ UNCHANGED <<script, now, up, loop, queue, caller, pending, store>>

\* The app is killed; what its node knew is gone with it.
Stop(n) ==
  /\ Up(n)
  /\ up' = [up EXCEPT ![n] = now]
  /\ UNCHANGED <<script, now, loop, queue, caller, pending, store, wire>>

MeshStep ==
  \/ \E n \in Nodes :
       \/ Issue(n) \/ TakeCommand(n) \/ StreamOpened(n) \/ FinishRequest(n) \/ Stop(n)
       \/ \E id \in pending[n] : RequestFails(n, id)
  \/ \E m \in wire :
       ReceiveGossip(m.to, m) \/ ReceiveRequest(m.to, m) \/ ReceiveResponse(m.to, m)
         \/ Lose(m)

-----------------------------------------------------------------------------
\* get_service_announcements: what the node shows its tasks.
Announcements(n) == {a \in store[n] : now - a.at <= TTL}

\* A task that asked for a diagnosis gets the answer to its own request, not
\* the late answer to one that was given up before.
AnswersMatch ==
  \A n \in Nodes :
    caller[n].at \in {"ok", "err"} => caller[n].answers = caller[n].id

\* Every command of a running node is answered, although the loop may be busy
\* with somebody else's request and the peer may have stopped.
EveryCallAnswered ==
  \A n \in Nodes :
    caller[n].at \in {"queued", "waiting"} ~>
      (caller[n].at \in {"ok", "err"} \/ ~ Up(n))

\* A provider that has stopped is no longer advertised once its last
\* announcement is too old, however late that one arrived.
SilenceIsForgotten ==
  \A n, provider \in Nodes :
    ~ Up(provider) /\ now - up[provider] > TTL =>
      \A a \in Announcements(n) : a.from # provider
=============================================================================
