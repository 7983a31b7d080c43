------------------------------ MODULE Tunnels ------------------------------
(***************************************************************************)
(* One circuit through the mesh: OnionRouter::build_circuit (hydra-core,   *)
(* onion.rs; nothing in the app calls it yet) opens a stream to the first  *)
(* node of a path and has every hop extended in turn to the next one and   *)
(* the last one to the target; every node serves such streams with         *)
(* handle_incoming_tunnel (hydra-p2p, lib.rs), a task of its own.          *)
(*                                                                         *)
(* Position 0 is the client, 1..Len(Path) are the hops and the last one is *)
(* the target; stream i connects positions i - 1 and i.  An end of a stream *)
(* that is dropped, or whose node stops, is noticed at the other end, which *)
(* may have lost what was under way.  Payload is left out: what goes down  *)
(* a stream is the names of the next hops, what comes up their answers.    *)
(***************************************************************************)
EXTENDS Mesh

CONSTANTS
  Client,      \* the node that builds the circuit
  Path,        \* the nodes it asks for, in order
  WithCircuit  \* the Scripts explored together with a circuit

Target == "target"

ASSUME TunnelAssumption ==
  /\ Client \in Nodes
  /\ Path \in Seq(Nodes) /\ Path # <<>>
  /\ Target \notin Nodes

VARIABLES
  client,  \* build_circuit and the stream it returns
  hop,     \* handle_incoming_tunnel at each hop
  names,   \* per stream: names going down
  bytes,   \* per stream: answers coming up
  answers  \* does the target keep its end of the connection?

tunnelVars == <<client, hop, names, bytes, answers>>

LastHop == Len(Path)
Hops == 1..LastHop
Streams == 1..(LastHop + 1)

\* What position i is asked to connect to.
Successor(i) == IF i = LastHop THEN Target ELSE Path[i + 1]

NoHop == [at |-> "none", to |-> "nobody"]

TunnelTypeOK ==
  /\ client.at \in {"absent", "idle", "telling", "waiting", "connected", "over"}
  /\ client.told \in 0..LastHop
  /\ hop \in [Hops -> [at : {"none", "arrived", "reading", "opening", "copying", "ended", "failed"},
                       to : Nodes \cup {Target, "nobody"}]]
  /\ names \in [Streams -> Seq(Nodes \cup {Target})]
  /\ bytes \in [Streams -> Seq({"ok", "err"})]
  /\ answers \in BOOLEAN

TunnelInit ==
  /\ client = [at |-> IF script \in WithCircuit THEN "idle" ELSE "absent", told |-> 0]
  /\ hop = [i \in Hops |-> NoHop]
  /\ names = [i \in Streams |-> <<>>]
  /\ bytes = [i \in Streams |-> <<>>]
  /\ answers = FALSE

-----------------------------------------------------------------------------
(* Streams.                                                                *)

\* Does position i hold its end of stream i, and of stream i + 1?
HoldsBelow(i) ==
  IF i = LastHop + 1 THEN answers
  ELSE Up(Path[i]) /\ hop[i].at \in {"arrived", "reading", "opening", "copying"}

HoldsAbove(i) ==
  IF i = 0 THEN Up(Client) /\ client.at \in {"telling", "waiting", "connected"}
  ELSE Up(Path[i]) /\ hop[i].at = "copying"

\* The command to open a stream waits for the loop of node n, and the peer's
\* swarm accepts it.
Opens(n, peer) == Ready(n) /\ Up(peer)

Arrived(i) == [hop EXCEPT ![i].at = "arrived"]

-----------------------------------------------------------------------------
(* build_circuit.                                                          *)

GivesUp == client' = [client EXCEPT !.at = "over"]

OpenCircuit ==
  /\ client.at = "idle" /\ Ready(Client)
  /\ \/ /\ Opens(Client, Path[1])
        /\ client' = [at |-> "telling", told |-> 0]
        /\ hop' = Arrived(1)
     \/ GivesUp /\ UNCHANGED hop
  /\ UNCHANGED <<names, bytes, answers>>

\* The next name goes to whoever ends the circuit so far.
Tell ==
  /\ client.at = "telling" /\ Up(Client)
  /\ client' = [at |-> "waiting", told |-> client.told + 1]
  /\ names' = [names EXCEPT ![1] = Append(@, Successor(client.told + 1))]
  /\ UNCHANGED <<hop, bytes, answers>>

Hear ==
  /\ client.at = "waiting" /\ Up(Client)
  /\ bytes[1] # <<>>
  /\ IF Head(bytes[1]) = "ok"
       THEN client' = [client EXCEPT !.at = IF client.told = LastHop THEN "connected" ELSE "telling"]
       ELSE GivesUp
  /\ bytes' = [bytes EXCEPT ![1] = Tail(@)]
  /\ UNCHANGED <<hop, names, answers>>

\* Writing or reading fails, or whoever uses the stream is done with it.
Abandon ==
  /\ client.at \in {"telling", "waiting", "connected"} /\ Up(Client)
  /\ client.at = "connected" \/ ~ HoldsBelow(1)
  /\ GivesUp
  /\ UNCHANGED <<hop, names, bytes, answers>>

-----------------------------------------------------------------------------
(* handle_incoming_tunnel.                                                 *)

\* The loop takes the stream and spawns the task.
AcceptStream(i) ==
  /\ hop[i].at = "arrived" /\ Ready(Path[i])
  /\ hop' = [hop EXCEPT ![i].at = "reading"]
  /\ UNCHANGED <<client, names, bytes, answers>>

ReadName(i) ==
  /\ hop[i].at = "reading" /\ Up(Path[i])
  /\ names[i] # <<>>
  /\ hop' = [hop EXCEPT ![i] = [at |-> "opening", to |-> Head(names[i])]]
  /\ names' = [names EXCEPT ![i] = Tail(@)]
  /\ UNCHANGED <<client, bytes, answers>>

Answers(i, byte) == bytes' = [bytes EXCEPT ![i] = Append(@, byte)]

\* The stream to the next peer, or the TCP connection to the target, is open.
Extend(i) ==
  /\ hop[i].at = "opening" /\ Up(Path[i])
  /\ IF hop[i].to = Target
       THEN answers' = TRUE /\ hop' = [hop EXCEPT ![i].at = "copying"]
       ELSE /\ Opens(Path[i], hop[i].to)
            /\ hop' = [Arrived(i + 1) EXCEPT ![i].at = "copying"]
            /\ UNCHANGED answers
  /\ Answers(i, "ok")
  /\ UNCHANGED <<client, names>>

Ends(i, how) == hop' = [hop EXCEPT ![i].at = how]

\* Mutant: success is answered before the next hop is there.
ExtendFailsLate(i) ==
  /\ hop[i].at = "opening" /\ Up(Path[i])
  /\ hop[i].to # Target => Ready(Path[i])
  /\ Ends(i, "failed")
  /\ Answers(i, "ok")
  /\ UNCHANGED <<client, names, answers>>

ExtendFails(i) ==
  /\ hop[i].at = "opening" /\ Up(Path[i])
  /\ hop[i].to # Target => Ready(Path[i])
  /\ Ends(i, "failed")
  /\ Answers(i, "err")
  /\ UNCHANGED <<client, names, answers>>

\* The stream ends before a whole name has come.
ReadFails(i) ==
  /\ hop[i].at = "reading" /\ Up(Path[i])
  /\ ~ HoldsAbove(i - 1)
  /\ Ends(i, "failed")
  /\ UNCHANGED <<client, names, bytes, answers>>

CopyDown(i) ==
  /\ hop[i].at = "copying" /\ Up(Path[i])
  /\ names[i] # <<>>
  /\ names' = [names EXCEPT ![i] = Tail(@), ![i + 1] = Append(@, Head(names[i]))]
  /\ UNCHANGED <<client, hop, bytes, answers>>

CopyUp(i) ==
  /\ hop[i].at = "copying" /\ Up(Path[i])
  /\ bytes[i + 1] # <<>>
  /\ bytes' = [bytes EXCEPT ![i + 1] = Tail(@), ![i] = Append(@, Head(bytes[i + 1]))]
  /\ UNCHANGED <<client, hop, names, answers>>

\* Mutant: both directions are waited for (join instead of select).
CopyEndsTwice(i) ==
  /\ hop[i].at = "copying" /\ Up(Path[i])
  /\ ~ HoldsAbove(i - 1) /\ ~ HoldsBelow(i + 1)
  /\ Ends(i, "ended")
  /\ UNCHANGED <<client, names, bytes, answers>>

\* One direction has ended, or an end of it is gone: the task drops both streams,
\* whatever the other direction still had to carry.
CopyEnds(i) ==
  /\ hop[i].at = "copying" /\ Up(Path[i])
  /\ ~ HoldsAbove(i - 1) \/ ~ HoldsBelow(i + 1)
  /\ Ends(i, "ended")
  /\ UNCHANGED <<client, names, bytes, answers>>

-----------------------------------------------------------------------------
\* The target closes the connection.
TargetCloses ==
  /\ answers
  /\ answers' = FALSE
  /\ UNCHANGED <<client, hop, names, bytes>>

HopStep(i) ==
  \/ AcceptStream(i) \/ ReadName(i) \/ ReadFails(i) \/ Extend(i) \/ ExtendFails(i)
  \/ CopyDown(i) \/ CopyUp(i) \/ CopyEnds(i)

TunnelStep ==
  \/ OpenCircuit \/ Tell \/ Hear \/ Abandon
  \/ \E i \in Hops : HopStep(i)
  \/ TargetCloses

-----------------------------------------------------------------------------
\* The client is told that its circuit is there only when every hop has reached
\* its own successor, and the last one the target, however the answers of the
\* hops before it, failures and stopping nodes came in between.
CircuitIsWhole ==
  client.at = "connected" =>
    \A i \in Hops : hop[i].to = Successor(i) /\ hop[i].at \in {"copying", "ended"}

\* A circuit whose client has given up or is gone is taken down at every hop that
\* still runs, although nobody tells the hops and the target may never close.
CircuitsUnwind ==
  (client.at = "over" \/ ~ Up(Client)) ~>
    \A i \in Hops : hop[i].at \in {"none", "ended", "failed"} \/ ~ Up(Path[i])
=============================================================================
