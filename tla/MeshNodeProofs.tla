--------------------------- MODULE MeshNodeProofs ---------------------------
(***************************************************************************)
(* Proofs about the nodes of the mesh, for any number of nodes, any        *)
(* commands, any offers and any path of a circuit, whichever nodes stop,   *)
(* are busy and fail.  NodeInv has three parts that do not depend on one   *)
(* another:                                                                *)
(*   IInv     follows a circuit as it grows: until the client gives up, at *)
(*            most one name or answer is under way, and every hop before   *)
(*            the one being extended has reached its successor;            *)
(*   MeshInv  relates what a node has queued, waits for and has been told  *)
(*            to the call its task is at, and dates every announcement;    *)
(*   Fresh    bounds the age of what a listing has found and cached.       *)
(***************************************************************************)
EXTENDS MeshNode, FiniteSetTheorems, TLAPS

Places == {"none", "arrived", "reading", "opening", "copying", "ended", "failed"}

Typed ==
  /\ client \in [at : {"absent", "idle", "telling", "waiting", "connected", "over"},
                 told : 0..LastHop]
  /\ hop \in [Hops -> [at : Places, to : Nodes \cup {Target, "nobody"}]]
  /\ names \in [Streams -> Seq(Nodes \cup {Target})]
  /\ bytes \in [Streams -> Seq({"ok", "err"})]

Made(i) == hop[i].to = Successor(i) /\ hop[i].at \in {"copying", "ended"}
Unread(i) == hop[i].at \in {"none", "arrived", "reading", "failed"}

Quiet(f) == \A i \in Streams : f[i] = <<>>
Only(f, j, x) == \A i \in Streams : f[i] = IF i = j THEN <<x>> ELSE <<>>

\* The name of the successor of hop k is on its way to k.
Asked(k) ==
  /\ Unread(k) /\ Quiet(bytes)
  /\ \E j \in 1..k : Only(names, j, Successor(k))

\* Hop k tries to connect to its successor.
Trying(k) ==
  /\ hop[k].at = "opening" /\ hop[k].to = Successor(k)
  /\ Quiet(names) /\ Quiet(bytes)

\* The answer of hop k is on its way to the client.
Answered(k) ==
  /\ Quiet(names)
  /\ Made(k) \/ hop[k].at = "failed"
  /\ \E j \in 1..k, b \in {"ok", "err"} : Only(bytes, j, b) /\ (b = "ok" => Made(k))

Telling ==
  /\ client.told < LastHop
  /\ \A i \in Hops : IF i <= client.told THEN Made(i) ELSE Unread(i)
  /\ Quiet(names) /\ Quiet(bytes)

Waiting ==
  /\ client.told \in Hops
  /\ \A i \in Hops : (i < client.told => Made(i)) /\ (i > client.told => Unread(i))
  /\ Asked(client.told) \/ Trying(client.told) \/ Answered(client.told)

Grows ==
  /\ client.at \in {"absent", "idle"} => client.told = 0
  /\ client.at \in {"absent", "idle", "telling"} => Telling
  /\ client.at = "waiting" => Waiting
  /\ client.at = "connected" => \A i \in Hops : Made(i)

IInv == Typed /\ Grows

-----------------------------------------------------------------------------
LEMMA PathFacts ==
  /\ LastHop \in Nat \ {0}
  /\ \A i \in Hops : Path[i] \in Nodes
  /\ \A i \in Hops : Successor(i) \in Nodes \cup {Target}
  /\ \A i \in Hops : Successor(i) = Target <=> i = LastHop
<1>1. Path \in Seq(Nodes) /\ Path # <<>> /\ Target \notin Nodes
  BY TunnelAssumption
<1>2. LastHop \in Nat \ {0}
  BY <1>1 DEF LastHop
<1>3. \A i \in Hops : Path[i] \in Nodes
  BY <1>1 DEF Hops, LastHop
<1>4. ASSUME NEW i \in Hops, i # LastHop PROVE Path[i + 1] \in Nodes
  <2>1. i + 1 \in Hops
    BY <1>2, <1>4 DEF Hops
  <2> QED BY <2>1, <1>3
<1> QED BY <1>1, <1>2, <1>3, <1>4 DEF Successor

LEMMA IInvInit == TunnelInit => IInv
<1> SUFFICES ASSUME TunnelInit PROVE IInv
  OBVIOUS
<1>1. Typed
  BY PathFacts DEF TunnelInit, Typed, NoHop, Places
<1>2. Telling /\ client.told = 0 /\ client.at \in {"absent", "idle"}
  BY PathFacts DEF TunnelInit, Telling, Quiet, Unread, NoHop, Hops, Streams
<1> QED BY <1>1, <1>2 DEF IInv, Grows

-----------------------------------------------------------------------------
(* Steps.                                                                  *)

LEMMA HopTyped ==
  ASSUME Typed, NEW i \in Hops, NEW a \in Places
  PROVE  [hop EXCEPT ![i].at = a] \in [Hops -> [at : Places, to : Nodes \cup {Target, "nobody"}]]
BY DEF Typed

LEMMA TypedHop ==
  ASSUME Typed, NEW i \in Hops, HopStep(i)
  PROVE  Typed'
<1> USE PathFacts DEF Typed
<1>0. i \in Streams /\ i + 1 \in Streams
  BY DEF Hops, Streams
<1>p. "reading" \in Places /\ "failed" \in Places /\ "ended" \in Places /\ "copying" \in Places
        /\ "opening" \in Places /\ "arrived" \in Places
  BY DEF Places
<1>1. CASE AcceptStream(i) \/ ReadFails(i) \/ CopyEnds(i)
  <2>1. PICK a \in Places : hop' = [hop EXCEPT ![i].at = a]
    BY <1>1, <1>p DEF AcceptStream, ReadFails, CopyEnds, Ends
  <2>2. UNCHANGED <<client, names, bytes>>
    BY <1>1 DEF AcceptStream, ReadFails, CopyEnds
  <2> QED BY <2>1, <2>2, HopTyped
<1>2. CASE ReadName(i)
  <2>1. Head(names[i]) \in Nodes \cup {Target} /\ Tail(names[i]) \in Seq(Nodes \cup {Target})
    BY <1>0, <1>2 DEF ReadName
  <2>2. hop' \in [Hops -> [at : Places, to : Nodes \cup {Target, "nobody"}]]
    BY <1>p, <1>2, <2>1 DEF ReadName
  <2>3. names' \in [Streams -> Seq(Nodes \cup {Target})]
    BY <1>0, <1>2, <2>1 DEF ReadName
  <2> QED BY <1>2, <2>2, <2>3 DEF ReadName
<1>3. CASE Extend(i)
  <2>1. bytes' \in [Streams -> Seq({"ok", "err"})]
    BY <1>0, <1>3 DEF Extend, Answers
  <2>2. CASE hop' = [hop EXCEPT ![i].at = "copying"]
    BY <1>3, <1>p, <2>1, <2>2, HopTyped DEF Extend
  <2>3. CASE hop' = [Arrived(i + 1) EXCEPT ![i].at = "copying"]
    <3>1. Arrived(i + 1) \in [Hops -> [at : Places, to : Nodes \cup {Target, "nobody"}]]
      BY <1>p DEF Arrived
    <3>2. hop' \in [Hops -> [at : Places, to : Nodes \cup {Target, "nobody"}]]
      BY <1>p, <2>3, <3>1
    <3> QED BY <1>3, <2>1, <3>2 DEF Extend
  <2> QED BY <1>3, <2>2, <2>3 DEF Extend
<1>4. CASE ExtendFails(i)
  <2>1. bytes' \in [Streams -> Seq({"ok", "err"})]
    BY <1>0, <1>4 DEF ExtendFails, Answers
  <2> QED BY <1>4, <1>p, <2>1, HopTyped DEF ExtendFails, Ends
<1>5. CASE CopyDown(i)
  <2>1. Head(names[i]) \in Nodes \cup {Target} /\ Tail(names[i]) \in Seq(Nodes \cup {Target})
    BY <1>0, <1>5 DEF CopyDown
  <2>2. names' \in [Streams -> Seq(Nodes \cup {Target})]
    <3>1. i # i + 1 /\ Append(names[i + 1], Head(names[i])) \in Seq(Nodes \cup {Target})
      BY <1>0, <2>1 DEF Hops
    <3>2. names' = [[names EXCEPT ![i] = Tail(names[i])]
                      EXCEPT ![i + 1] = Append(names[i + 1], Head(names[i]))]
      BY <1>0, <1>5, <3>1 DEF CopyDown
    <3> QED BY <1>0, <2>1, <3>1, <3>2
  <2> QED BY <1>5, <2>2 DEF CopyDown
<1>6. CASE CopyUp(i)
  <2>1. Head(bytes[i + 1]) \in {"ok", "err"} /\ Tail(bytes[i + 1]) \in Seq({"ok", "err"})
    BY <1>0, <1>6 DEF CopyUp
  <2>2. bytes' \in [Streams -> Seq({"ok", "err"})]
    <3>1. i # i + 1 /\ Append(bytes[i], Head(bytes[i + 1])) \in Seq({"ok", "err"})
      BY <1>0, <2>1 DEF Hops
    <3>2. bytes' = [[bytes EXCEPT ![i + 1] = Tail(bytes[i + 1])]
                      EXCEPT ![i] = Append(bytes[i], Head(bytes[i + 1]))]
      BY <1>0, <1>6, <3>1 DEF CopyUp
    <3> QED BY <1>0, <2>1, <3>1, <3>2
  <2> QED BY <1>6, <2>2 DEF CopyUp
<1> QED BY <1>1, <1>2, <1>3, <1>4, <1>5, <1>6 DEF HopStep

LEMMA TypedStep ==
  ASSUME IInv, TunnelStep
  PROVE  Typed'
<1> USE PathFacts DEF IInv, Typed
<1>1. CASE OpenCircuit
  <2>1. "arrived" \in Places
    BY DEF Places
  <2>2. hop' \in [Hops -> [at : Places, to : Nodes \cup {Target, "nobody"}]]
    <3>1. 1 \in Hops
      BY DEF Hops
    <3> QED BY <1>1, <2>1, <3>1, HopTyped DEF OpenCircuit, Arrived
  <2>3. client' \in [at : {"absent", "idle", "telling", "waiting", "connected", "over"}, told : 0..LastHop]
    BY <1>1 DEF OpenCircuit, GivesUp
  <2> QED BY <1>1, <2>2, <2>3 DEF OpenCircuit
<1>2. CASE Tell
  <2>1. client.told + 1 \in Hops /\ 1 \in Streams
    BY <1>2 DEF Tell, Grows, Telling, Hops, Streams
  <2>2. client' \in [at : {"absent", "idle", "telling", "waiting", "connected", "over"}, told : 0..LastHop]
    BY <1>2, <2>1 DEF Tell, Hops
  <2>3. names' \in [Streams -> Seq(Nodes \cup {Target})]
    BY <1>2, <2>1 DEF Tell
  <2> QED BY <1>2, <2>2, <2>3 DEF Tell
<1>3. CASE Hear
  <2>1. 1 \in Streams
    BY DEF Streams
  <2>2. bytes' \in [Streams -> Seq({"ok", "err"})]
    BY <1>3, <2>1 DEF Hear
  <2>3. client' \in [at : {"absent", "idle", "telling", "waiting", "connected", "over"}, told : 0..LastHop]
    BY <1>3 DEF Hear, GivesUp
  <2> QED BY <1>3, <2>2, <2>3 DEF Hear
<1>4. CASE Abandon
  BY <1>4 DEF Abandon, GivesUp
<1>5. CASE \E i \in Hops : HopStep(i)
  BY <1>5, TypedHop
<1>6. CASE TargetCloses
  BY <1>6 DEF TargetCloses
<1> QED BY <1>1, <1>2, <1>3, <1>4, <1>5, <1>6 DEF TunnelStep

\* The client's steps.
LEMMA GrowsClient ==
  ASSUME IInv, OpenCircuit \/ Tell \/ Hear \/ Abandon \/ TargetCloses
  PROVE  Grows'
<1> USE PathFacts DEF IInv, Typed
<1>0. 1 \in Streams /\ 1 \in Hops
  BY DEF Streams, Hops
<1>1. CASE OpenCircuit
  <2>1. Telling /\ client.told = 0
    BY <1>1 DEF OpenCircuit, Grows
  <2>2. CASE client'.at = "over"
    BY <2>2 DEF Grows
  <2>3. CASE client' = [at |-> "telling", told |-> 0] /\ hop' = Arrived(1)
    <3>1. \A i \in Hops : Unread(i)'
      BY <2>1, <2>3 DEF Telling, Unread, Arrived, Hops
    <3>2. Telling'
      BY <1>1, <2>1, <2>3, <3>1 DEF Telling, Quiet, OpenCircuit, Hops
    <3> QED BY <2>3, <3>2 DEF Grows
  <2> QED BY <1>1, <2>2, <2>3 DEF OpenCircuit, GivesUp
<1>2. CASE Tell
  <2>0. PICK k \in Nat : k = client.told + 1
    OBVIOUS
  <2>1. Telling /\ k \in Hops /\ client'.told = k /\ client'.at = "waiting"
    BY <1>2, <2>0 DEF Tell, Grows, Telling, Hops
  <2>2. \A i \in Hops : (i < k => Made(i)) /\ (i >= k => Unread(i))
    BY <2>0, <2>1 DEF Telling, Hops
  <2>3. (\A i \in Hops : Made(i)' <=> Made(i)) /\ (\A i \in Hops : Unread(i)' <=> Unread(i))
    BY <1>2 DEF Tell, Made, Unread
  <2>4. \A i \in Streams : names'[i] = IF i = 1 THEN <<Successor(k)>> ELSE <<>>
    <3>1. names[1] = <<>> /\ Append(<<>>, Successor(k)) = <<Successor(k)>>
      BY <1>0, <2>1 DEF Telling, Quiet
    <3>2. \A i \in Streams : names'[i] = IF i = 1 THEN Append(names[1], Successor(k)) ELSE names[i]
      BY <1>0, <1>2, <2>0 DEF Tell
    <3> QED BY <2>1, <3>1, <3>2 DEF Telling, Quiet
  <2>5. Asked(k)'
    <3>1. Quiet(bytes)'
      BY <1>2, <2>1 DEF Tell, Telling, Quiet
    <3>2. Unread(k)'
      BY <2>1, <2>2, <2>3 DEF Hops
    <3>3. 1 \in 1..k
      BY <2>1 DEF Hops
    <3>4. Only(names, 1, Successor(k))'
      BY <2>4 DEF Only, Successor
    <3> QED BY <3>1, <3>2, <3>3, <3>4 DEF Asked
  <2>6. Waiting'
    BY <2>1, <2>2, <2>3, <2>5 DEF Waiting, Hops
  <2> QED BY <2>1, <2>6 DEF Grows
<1>3. CASE Hear
  <2>0. PICK k \in Nat : k = client.told
    OBVIOUS
  <2>1. Waiting /\ bytes[1] # <<>> /\ k \in Hops
    BY <1>3, <2>0 DEF Hear, Grows, Waiting
  <2>2. Answered(k)
    BY <1>0, <2>0, <2>1 DEF Waiting, Asked, Trying, Quiet
  <2>3. PICK j \in 1..k, b \in {"ok", "err"} : Only(bytes, j, b) /\ (b = "ok" => Made(k))
    BY <2>2 DEF Answered
  <2>4. j = 1 /\ bytes[1] = <<b>>
    BY <1>0, <2>1, <2>3 DEF Only
  <2>5. Head(bytes[1]) = b /\ Tail(bytes[1]) = <<>>
    BY <2>4
  <2>6. CASE b = "err"
    <3>1. client'.at = "over"
      BY <1>3, <2>5, <2>6 DEF Hear, GivesUp
    <3> QED BY <3>1 DEF Grows
  <2>7. CASE b = "ok"
    <3>1. \A i \in Hops : (i <= k => Made(i)) /\ (i > k => Unread(i))
      BY <2>0, <2>1, <2>3, <2>7 DEF Waiting, Hops
    <3>2. \A i \in Hops : (i <= k => Made(i)') /\ (i > k => Unread(i)')
      BY <1>3, <3>1 DEF Hear, Made, Unread, Successor
    <3>3. client' = [client EXCEPT !.at = IF k = LastHop THEN "connected" ELSE "telling"]
      BY <1>3, <2>0, <2>5, <2>7 DEF Hear
    <3>4. CASE k = LastHop
      <4>1. client'.at = "connected"
        BY <2>0, <3>3, <3>4
      <4>2. \A i \in Hops : Made(i)'
        BY <3>2, <3>4 DEF Hops
      <4> QED BY <4>1, <4>2 DEF Grows
    <3>5. CASE k # LastHop
      <4>1. client'.at = "telling" /\ client'.told = k
        BY <2>0, <3>3, <3>5
      <4>2. Quiet(bytes)'
        BY <1>0, <1>3, <2>3, <2>4, <2>5 DEF Hear, Quiet, Only
      <4>3. Quiet(names)'
        BY <1>3, <2>2 DEF Hear, Quiet, Answered
      <4>4. Telling'
        BY <2>1, <3>2, <3>5, <4>1, <4>2, <4>3 DEF Telling, Hops
      <4> QED BY <4>1, <4>4 DEF Grows
    <3> QED BY <3>4, <3>5
  <2> QED BY <2>6, <2>7
<1>4. CASE Abandon
  BY <1>4 DEF Abandon, GivesUp, Grows
<1>5. CASE TargetCloses
  BY <1>5 DEF TargetCloses, Grows, Telling, Waiting, Made, Unread, Quiet, Only, Asked, Trying,
          Answered, Successor
<1> QED BY <1>1, <1>2, <1>3, <1>4, <1>5

\* Accepting, failing to read and ending concern the hop alone.
LEMMA HopAlone ==
  ASSUME Typed, NEW i \in Hops, AcceptStream(i) \/ ReadFails(i) \/ CopyEnds(i)
  PROVE  /\ UNCHANGED <<client, names, bytes>>
         /\ \A h \in Hops :
              /\ Made(h) => Made(h)'
              /\ Unread(h) => Unread(h)'
              /\ hop[h].at \in {"opening", "failed"} => hop'[h] = hop[h]
<1> USE DEF Typed
<1>1. CASE AcceptStream(i)
  BY <1>1 DEF AcceptStream, Made, Unread, Successor
<1>2. CASE ReadFails(i)
  BY <1>2 DEF ReadFails, Ends, Made, Unread, Successor
<1>3. CASE CopyEnds(i)
  BY <1>3 DEF CopyEnds, Ends, Made, Unread, Successor
<1> QED BY <1>1, <1>2, <1>3

LEMMA GrowsHop ==
  ASSUME IInv, NEW i \in Hops, HopStep(i)
  PROVE  Grows'
<1> USE PathFacts DEF IInv, Typed
<1>0. i \in Streams /\ i + 1 \in Streams
  BY DEF Hops, Streams
<1>c. UNCHANGED client
  BY DEF HopStep, AcceptStream, ReadName, ReadFails, Extend, ExtendFails, CopyDown, CopyUp, CopyEnds
<1>n. i # i + 1
  BY DEF Hops
<1>a. ASSUME hop[i].at # "opening", names[i] = <<>>, bytes[i + 1] = <<>>
      PROVE  AcceptStream(i) \/ ReadFails(i) \/ CopyEnds(i)
  BY <1>a DEF HopStep, ReadName, Extend, ExtendFails, CopyDown, CopyUp
<1>1. CASE client.at \in {"absent", "idle", "telling"}
  <2>1. Telling
    BY <1>1 DEF Grows
  <2>2. AcceptStream(i) \/ ReadFails(i) \/ CopyEnds(i)
    BY <1>0, <1>a, <2>1 DEF Telling, Made, Unread, Quiet
  <2>3. Telling'
    BY <2>1, <2>2, HopAlone DEF Telling, Quiet
  <2> QED BY <1>1, <1>c, <2>3 DEF Grows
<1>2. CASE client.at = "connected"
  <2>1. \A h \in Hops : Made(h)
    BY <1>2 DEF Grows
  <2>2. \A h \in Hops : Made(h)'
    <3>1. hop[i].at \in {"copying", "ended"}
      BY <2>1 DEF Made
    <3>2. CASE UNCHANGED hop
      BY <2>1, <3>2 DEF Made, Successor
    <3>3. CASE CopyEnds(i)
      BY <2>1, <3>3, HopAlone
    <3> QED BY <3>1, <3>2, <3>3 DEF HopStep, AcceptStream, ReadName, ReadFails, Extend, ExtendFails,
                                    CopyDown, CopyUp
  <2> QED BY <1>2, <1>c, <2>2 DEF Grows
<1>3. CASE client.at = "over"
  BY <1>3, <1>c DEF Grows
<1>4. CASE client.at = "waiting"
  <2>1. PICK k \in Hops : k = client.told
    BY <1>4 DEF Grows, Waiting
  <2>k. k \in Streams /\ k \in 1..k /\ Successor(k) \in Nodes \cup {Target}
    BY DEF Hops, Streams
  <2>2. \A h \in Hops : (h < k => Made(h)) /\ (h > k => Unread(h))
    BY <1>4, <2>1 DEF Grows, Waiting
  <2>i. /\ i < k \/ i = k \/ i > k
        /\ i < k => hop[i].at \in {"copying", "ended"}
        /\ i > k => hop[i].at \in {"none", "arrived", "reading", "failed"}
    <3>1. i < k \/ i = k \/ i > k
      BY DEF Hops
    <3> QED BY <2>2, <3>1 DEF Made, Unread
  <2>3. SUFFICES /\ \A h \in Hops : (h < k => Made(h)') /\ (h > k => Unread(h)')
                 /\ Asked(k)' \/ Trying(k)' \/ Answered(k)'
    BY <1>4, <1>c, <2>1 DEF Grows, Waiting
  <2>4. CASE Asked(k)
    <3>1. PICK j \in 1..k : Only(names, j, Successor(k))
      BY <2>4 DEF Asked
    <3>2. Unread(k) /\ Quiet(bytes) /\ bytes[i + 1] = <<>>
      BY <1>0, <2>4 DEF Asked, Quiet
    <3>3. CASE AcceptStream(i) \/ ReadFails(i) \/ CopyEnds(i)
      <4>1. Asked(k)'
        <5>1. UNCHANGED <<names, bytes>> /\ (Unread(k) => Unread(k)')
          BY <3>3, HopAlone
        <5>2. Only(names, j, Successor(k))' /\ Quiet(bytes)'
          BY <3>1, <3>2, <5>1 DEF Only, Quiet, Successor
        <5> QED BY <3>1, <3>2, <5>1, <5>2 DEF Asked
      <4> QED BY <2>2, <3>3, <4>1, HopAlone
    <3>4. CASE i = j /\ ReadName(i)
      <4>1. i = k
        <5>1. ~ (i > k)
          BY <3>1, <3>4 DEF Hops
        <5>2. ~ (i < k)
          BY <2>i, <3>4 DEF ReadName
        <5> QED BY <2>i, <5>1, <5>2
      <4>2. names[k] = <<Successor(k)>>
        BY <2>k, <3>1, <3>4, <4>1 DEF Only
      <4>3. hop' = [hop EXCEPT ![k] = [at |-> "opening", to |-> Successor(k)]]
        BY <3>4, <4>1, <4>2 DEF ReadName
      <4>4. Quiet(names)'
        BY <2>k, <3>1, <3>4, <4>1, <4>2 DEF ReadName, Quiet, Only
      <4>5. Quiet(bytes)'
        BY <3>2, <3>4 DEF ReadName, Quiet
      <4>6. Trying(k)'
        BY <4>3, <4>4, <4>5 DEF Trying, Successor
      <4>7. \A h \in Hops : h # k => hop'[h] = hop[h]
        BY <4>3
      <4> QED BY <2>2, <4>6, <4>7 DEF Made, Unread, Successor, Hops
    <3>5. CASE i = j /\ CopyDown(i)
      <4>1. i < k
        BY <3>1, <3>2, <3>5 DEF CopyDown, Unread, Hops
      <4>2. names[i] = <<Successor(k)>> /\ names[i + 1] = <<>>
        BY <1>0, <1>n, <3>1, <3>5 DEF Only
      <4>3. names' = [[names EXCEPT ![i] = <<>>] EXCEPT ![i + 1] = <<Successor(k)>>]
        <5>1. Tail(names[i]) = <<>> /\ Append(names[i + 1], Head(names[i])) = <<Successor(k)>>
          BY <2>k, <4>2
        <5> QED BY <1>0, <1>n, <3>5, <5>1 DEF CopyDown
      <4>4. \A h \in Streams : names'[h] = IF h = i + 1 THEN <<Successor(k)>> ELSE <<>>
        BY <1>0, <3>1, <3>5, <4>3 DEF Only
      <4>5. Only(names, i + 1, Successor(k))'
        BY <4>4 DEF Only, Successor
      <4>6. i + 1 \in 1..k
        BY <4>1 DEF Hops
      <4>7. UNCHANGED <<hop, bytes>>
        BY <3>5 DEF CopyDown
      <4>8. Asked(k)'
        BY <3>2, <4>5, <4>6, <4>7 DEF Asked, Unread, Quiet
      <4> QED BY <2>2, <4>7, <4>8 DEF Made, Unread, Successor
    <3>6. hop[i].at # "opening"
      BY <2>i, <3>2 DEF Unread
    <3>7. i # j => names[i] = <<>>
      BY <1>0, <3>1 DEF Only
    <3> QED BY <3>2, <3>3, <3>4, <3>5, <3>6, <3>7 DEF HopStep, ReadName, Extend, ExtendFails, CopyDown, CopyUp
  <2>5. CASE Trying(k)
    <3>1. hop[k].at = "opening" /\ hop[k].to = Successor(k) /\ Quiet(names) /\ Quiet(bytes)
      BY <2>5 DEF Trying
    <3>2. names[i] = <<>> /\ bytes[i + 1] = <<>> /\ bytes[k] = <<>>
      BY <1>0, <2>k, <3>1 DEF Quiet
    <3>3. CASE i # k
      <4>1. AcceptStream(i) \/ ReadFails(i) \/ CopyEnds(i)
        BY <1>a, <2>i, <3>2, <3>3
      <4>2. Trying(k)'
        BY <3>1, <4>1, HopAlone DEF Trying, Quiet, Successor
      <4> QED BY <2>2, <4>1, <4>2, HopAlone
    <3>4. CASE i = k /\ Extend(i)
      <4>1. bytes' = [bytes EXCEPT ![k] = <<"ok">>] /\ UNCHANGED names
        <5>1. Append(bytes[k], "ok") = <<"ok">>
          BY <3>2
        <5> QED BY <2>k, <3>4, <5>1 DEF Extend, Answers
      <4>2. Only(bytes, k, "ok")'
        BY <2>k, <3>1, <4>1 DEF Only, Quiet
      <4>3. /\ hop'[k].at = "copying" /\ hop'[k].to = Successor(k)
            /\ \A h \in Hops : h # k => hop'[h] = hop[h] \/ (h = k + 1 /\ hop'[h].at = "arrived")
        <5>1. CASE hop' = [hop EXCEPT ![k].at = "copying"]
          BY <3>1, <5>1
        <5>2. CASE hop' = [Arrived(k + 1) EXCEPT ![k].at = "copying"]
          <6>1. /\ Arrived(k + 1) \in [Hops -> [at : Places, to : Nodes \cup {Target, "nobody"}]]
                /\ \A h \in Hops : h # k + 1 => Arrived(k + 1)[h] = hop[h]
                /\ k + 1 \in Hops => Arrived(k + 1)[k + 1].at = "arrived"
            BY DEF Arrived, Places
          <6>2. k # k + 1
            BY <1>n, <3>4
          <6>3. \A h \in Hops : h # k => hop'[h] = Arrived(k + 1)[h]
            BY <5>2, <6>1
          <6>4. hop'[k] = [Arrived(k + 1)[k] EXCEPT !.at = "copying"]
            BY <5>2, <6>1
          <6>5. hop'[k] = [hop[k] EXCEPT !.at = "copying"]
            BY <6>1, <6>2, <6>4
          <6> QED BY <3>1, <6>1, <6>3, <6>5
        <5> QED BY <3>4, <5>1, <5>2 DEF Extend
      <4>4. Made(k)'
        BY <4>3 DEF Made, Successor
      <4>5. Answered(k)'
        BY <2>k, <3>1, <4>1, <4>2, <4>4 DEF Answered, Quiet
      <4> QED BY <2>2, <4>3, <4>5 DEF Made, Unread, Successor, Hops
    <3>5. CASE i = k /\ ExtendFails(i)
      <4>1. bytes' = [bytes EXCEPT ![k] = <<"err">>] /\ UNCHANGED names
        <5>1. Append(bytes[k], "err") = <<"err">>
          BY <3>2
        <5> QED BY <2>k, <3>5, <5>1 DEF ExtendFails, Answers
      <4>2. Only(bytes, k, "err")'
        BY <2>k, <3>1, <4>1 DEF Only, Quiet
      <4>3. hop'[k].at = "failed" /\ \A h \in Hops : h # k => hop'[h] = hop[h]
        BY <3>5 DEF ExtendFails, Ends
      <4>4. Answered(k)'
        BY <2>k, <3>1, <4>1, <4>2, <4>3 DEF Answered, Quiet
      <4> QED BY <2>2, <4>3, <4>4 DEF Made, Unread, Successor, Hops
    <3> QED BY <3>1, <3>2, <3>3, <3>4, <3>5
         DEF HopStep, AcceptStream, ReadName, ReadFails, CopyDown, CopyUp, CopyEnds
  <2>6. CASE Answered(k)
    <3>1. PICK j \in 1..k, b \in {"ok", "err"} : Only(bytes, j, b) /\ (b = "ok" => Made(k))
      BY <2>6 DEF Answered
    <3>2. Quiet(names) /\ names[i] = <<>> /\ (Made(k) \/ hop[k].at = "failed")
      BY <1>0, <2>6 DEF Answered, Quiet
    <3>3. hop[i].at # "opening"
      BY <2>i, <3>2 DEF Made
    <3>4. CASE AcceptStream(i) \/ ReadFails(i) \/ CopyEnds(i)
      <4>1. Answered(k)'
        <5>1. /\ UNCHANGED <<names, bytes>>
              /\ Made(k) => Made(k)'
              /\ hop[k].at = "failed" => hop'[k].at = "failed"
          BY <3>4, HopAlone
        <5>2. Only(bytes, j, b)' /\ Quiet(names)'
          BY <3>1, <3>2, <5>1 DEF Only, Quiet
        <5> QED BY <3>1, <3>2, <5>1, <5>2 DEF Answered
      <4> QED BY <2>2, <3>4, <4>1, HopAlone
    <3>5. CASE CopyUp(i)
      <4>1. i + 1 = j
        BY <1>0, <3>1, <3>5 DEF CopyUp, Only
      <4>2. bytes[i + 1] = <<b>> /\ bytes[i] = <<>>
        BY <1>0, <1>n, <3>1, <4>1 DEF Only
      <4>3. bytes' = [[bytes EXCEPT ![i + 1] = <<>>] EXCEPT ![i] = <<b>>]
        <5>1. Tail(bytes[i + 1]) = <<>> /\ Append(bytes[i], Head(bytes[i + 1])) = <<b>>
          BY <4>2
        <5> QED BY <1>0, <1>n, <3>5, <5>1 DEF CopyUp
      <4>4. \A h \in Streams : bytes'[h] = IF h = i THEN <<b>> ELSE <<>>
        BY <1>0, <1>n, <3>1, <4>1, <4>3 DEF Only
      <4>5. i \in 1..k
        BY <4>1 DEF Hops
      <4>6. UNCHANGED <<hop, names>>
        BY <3>5 DEF CopyUp
      <4>7. Answered(k)'
        <5>1. Only(bytes, i, b)'
          BY <4>4 DEF Only
        <5>2. (Made(k)' <=> Made(k)) /\ Quiet(names)'
          BY <3>2, <4>6 DEF Made, Quiet, Successor
        <5> QED BY <3>1, <3>2, <4>5, <4>6, <5>1, <5>2 DEF Answered
      <4> QED BY <2>2, <4>6, <4>7 DEF Made, Unread, Successor
    <3> QED BY <3>2, <3>3, <3>4, <3>5 DEF HopStep, ReadName, Extend, ExtendFails, CopyDown
  <2> QED BY <1>4, <2>1, <2>4, <2>5, <2>6 DEF Grows, Waiting
<1> QED BY <1>1, <1>2, <1>3, <1>4

-----------------------------------------------------------------------------
(* The event loops: what a node has queued, waits for and has been told    *)
(* belongs to the one command its task has issued last, and no             *)
(* announcement, wherever it is, is younger than its provider.             *)

CallMatches(n) ==
  /\ queue[n] = IF caller[n].at = "queued" THEN <<script[n][caller[n].id]>> ELSE <<>>
  /\ pending[n] \subseteq {caller[n].id}
  /\ pending[n] # {} =>
       caller[n].at = "waiting" /\ script[n][caller[n].id] = "DiagnosticRequest"
  /\ caller[n].at \in {"ok", "err"} => caller[n].answers = caller[n].id
  /\ caller[n].at # "idle" => caller[n].id \in 1..Len(script[n])

Timely(a) == a.at <= now /\ a.at <= up[a.from]

Dated ==
  /\ \A n \in Nodes : caller[n].since <= now
  /\ \A n \in Nodes : IsFiniteSet(store[n]) /\ \A a \in store[n] : Timely(a)
  /\ \A m \in wire : m.kind = "gossip" => Timely(m.about)

MeshInv == MeshTypeOK /\ (\A n \in Nodes : CallMatches(n)) /\ Dated

CallType == [at : {"idle", "queued", "waiting", "ok", "err"},
             id : Nat, since : Nat, answers : Nat]

LEMMA MeshInvInit == MeshInit => MeshInv
<1> SUFFICES ASSUME MeshInit PROVE MeshInv
  OBVIOUS
<1>1. MeshTypeOK
  BY MeshAssumption DEF MeshInit, MeshTypeOK, Free
<1>2. ASSUME NEW n \in Nodes PROVE CallMatches(n)
  BY DEF MeshInit, CallMatches
<1>3. Dated
  BY FS_EmptySet DEF MeshInit, Dated
<1> QED BY <1>1, <1>2, <1>3 DEF MeshInv

\* A step of one node that changes its call, queue and pending requests.
LEMMA CallChange ==
  ASSUME MeshTypeOK, \A n \in Nodes : CallMatches(n), NEW n \in Nodes,
         NEW c \in CallType, NEW q \in Seq(Kinds), NEW p \in SUBSET Nat,
         caller' = [caller EXCEPT ![n] = c], queue' = [queue EXCEPT ![n] = q],
         pending' = [pending EXCEPT ![n] = p], UNCHANGED script,
         q = IF c.at = "queued" THEN <<script[n][c.id]>> ELSE <<>>,
         p \subseteq {c.id},
         p # {} => c.at = "waiting" /\ script[n][c.id] = "DiagnosticRequest",
         c.at \in {"ok", "err"} => c.answers = c.id,
         c.at # "idle" => c.id \in 1..Len(script[n])
  PROVE  /\ caller' \in [Nodes -> CallType]
         /\ queue' \in [Nodes -> Seq(Kinds)]
         /\ pending' \in [Nodes -> SUBSET Nat]
         /\ \A k \in Nodes : CallMatches(k)'
<1>1. caller \in [Nodes -> CallType]
  BY DEF MeshTypeOK, CallType
<1>2. /\ caller' \in [Nodes -> CallType]
      /\ queue' \in [Nodes -> Seq(Kinds)]
      /\ pending' \in [Nodes -> SUBSET Nat]
  BY <1>1 DEF MeshTypeOK
<1>3. caller'[n] = c /\ queue'[n] = q /\ pending'[n] = p
  BY <1>1 DEF MeshTypeOK
<1>4. \A k \in Nodes : k # n =>
        caller'[k] = caller[k] /\ queue'[k] = queue[k] /\ pending'[k] = pending[k]
  BY <1>1 DEF MeshTypeOK
<1>5. ASSUME NEW k \in Nodes PROVE CallMatches(k)'
  <2>1. CASE k = n
    BY <1>3, <2>1 DEF CallMatches
  <2>2. CASE k # n
    BY <1>4, <2>2 DEF CallMatches
  <2> QED BY <2>1, <2>2
<1> QED BY <1>2, <1>5

\* What CallMatches says of a node by the state of its call.
LEMMA CallFacts ==
  ASSUME MeshTypeOK, NEW n \in Nodes, CallMatches(n)
  PROVE  /\ caller[n] \in CallType
         /\ script[n] \in Seq(Kinds)
         /\ caller[n].at # "waiting" => pending[n] = {}
         /\ caller[n].at # "queued" => queue[n] = <<>>
         /\ queue[n] # <<>> => /\ caller[n].at = "queued"
                               /\ Head(queue[n]) = script[n][caller[n].id]
                               /\ Tail(queue[n]) = <<>>
         /\ \A id \in pending[n] : id = caller[n].id /\ pending[n] \ {id} = {}
<1>1. caller[n] \in CallType
  BY DEF MeshTypeOK, CallType
<1>2. script[n] \in Seq(Kinds)
  BY MeshAssumption DEF MeshTypeOK
<1> QED BY <1>1, <1>2 DEF CallMatches

\* An announcement is remembered in place of its provider's former one.
LEMMA StoreChange ==
  ASSUME MeshTypeOK, Dated, NEW n \in Nodes, NEW a \in AnnouncementType, Timely(a),
         store' = [store EXCEPT ![n] = Remembered(@, a)], UNCHANGED <<now, up>>
  PROVE  /\ store' \in [Nodes -> SUBSET AnnouncementType]
         /\ \A k \in Nodes : IsFiniteSet(store'[k]) /\ \A b \in store'[k] : Timely(b)'
<1>1. store \in [Nodes -> SUBSET AnnouncementType]
  BY DEF MeshTypeOK
<1>2. store'[n] = {b \in store[n] : b.from # a.from} \cup {a}
  BY <1>1 DEF Remembered
<1>3. IsFiniteSet({b \in store[n] : b.from # a.from})
  BY FS_Subset DEF Dated
<1>4. IsFiniteSet(store'[n])
  BY <1>2, <1>3, FS_AddElement
<1>5. store' \in [Nodes -> SUBSET AnnouncementType]
  BY <1>1 DEF Remembered
<1>6. \A k \in Nodes : k # n => store'[k] = store[k]
  BY <1>1
<1>7. \A b : Timely(b) => Timely(b)'
  BY DEF Timely
<1>8. \A b \in store'[n] : Timely(b)'
  BY <1>2, <1>7 DEF Dated
<1> QED BY <1>4, <1>5, <1>6, <1>7, <1>8 DEF Dated

\* Messages are sent.
LEMMA WireChange ==
  ASSUME MeshTypeOK, Dated, NEW S \in SUBSET Messages, wire' \subseteq wire \cup S,
         \A m \in S : m.kind = "gossip" => Timely(m.about), UNCHANGED <<now, up>>
  PROVE  /\ wire' \subseteq Messages
         /\ \A m \in wire' : m.kind = "gossip" => Timely(m.about)'
<1>1. wire' \subseteq Messages
  BY DEF MeshTypeOK
<1>2. ASSUME NEW m \in wire', m.kind = "gossip" PROVE Timely(m.about)'
  BY <1>2 DEF Dated, Timely
<1> QED BY <1>1, <1>2

LEMMA IssueStep ==
  ASSUME MeshInv, NEW n \in Nodes, Issue(n)
  PROVE  MeshInv'
<1> USE DEF MeshInv
<1> DEFINE kind == script[n][caller[n].id + 1]
           since == IF kind = "PublishServiceAnnouncement" THEN now ELSE 0
           c == [at |-> "queued", id |-> caller[n].id + 1, since |-> since, answers |-> 0]
<1>1. /\ caller[n] \in CallType /\ script[n] \in Seq(Kinds)
      /\ pending[n] = {} /\ queue[n] = <<>>
  BY CallFacts DEF Issue
<1>2. now \in Nat
  BY MeshAssumption DEF MeshTypeOK
<1>3. caller[n].id + 1 \in 1..Len(script[n]) /\ kind \in Kinds
  BY <1>1 DEF Issue, CallType
<1>4. since \in Nat /\ since <= now
  BY <1>2
<1>5. c \in CallType
  BY <1>1, <1>4 DEF CallType
<1>6. /\ caller' = [caller EXCEPT ![n] = c]
      /\ queue' = [queue EXCEPT ![n] = <<kind>>]
      /\ pending' = [pending EXCEPT ![n] = {}]
      /\ UNCHANGED script
  BY <1>1 DEF Issue, MeshTypeOK
<1>7. <<kind>> \in Seq(Kinds) /\ {} \in SUBSET Nat
  BY <1>3
<1>8. c.at = "queued" /\ c.id = caller[n].id + 1 /\ c.since = since
  OBVIOUS
<1> HIDE DEF c, since
<1>9. /\ caller' \in [Nodes -> CallType] /\ queue' \in [Nodes -> Seq(Kinds)]
      /\ pending' \in [Nodes -> SUBSET Nat] /\ \A k \in Nodes : CallMatches(k)'
  BY <1>3, <1>5, <1>6, <1>7, <1>8, CallChange
<1>10. \A k \in Nodes : caller'[k].since <= now
  BY <1>4, <1>6, <1>8 DEF Dated, MeshTypeOK
<1>11. UNCHANGED <<script, now, up, loop, store, wire>>
  BY DEF Issue
<1>12. MeshTypeOK'
  BY <1>9, <1>11 DEF MeshTypeOK, CallType
<1>13. Dated'
  BY <1>10, <1>11 DEF Dated, Timely
<1> QED BY <1>9, <1>12, <1>13

\* What a call becomes when it is answered.
LEMMA AnswerFacts ==
  ASSUME MeshTypeOK, NEW n \in Nodes, NEW at \in {"ok", "err"},
         caller' = Answer(n, at, caller[n].id)
  PROVE  \E c \in CallType :
           /\ caller' = [caller EXCEPT ![n] = c]
           /\ c.at = at /\ c.id = caller[n].id /\ c.since = 0 /\ c.answers = c.id
<1> DEFINE c == [caller[n] EXCEPT !.at = at, !.since = 0, !.answers = caller[n].id]
<1>1. caller \in [Nodes -> CallType]
  BY DEF MeshTypeOK, CallType
<1>2. c \in CallType /\ c.at = at /\ c.id = caller[n].id /\ c.since = 0 /\ c.answers = c.id
  BY <1>1 DEF CallType
<1>3. caller' = [caller EXCEPT ![n] = c]
  BY <1>1 DEF Answer, CallType
<1> QED BY <1>2, <1>3

\* A call changes, with its command taken; messages may be sent.
LEMMA LoopStep ==
  ASSUME MeshInv, NEW n \in Nodes, NEW c \in CallType, NEW p \in SUBSET Nat,
         caller' = [caller EXCEPT ![n] = c], c.at # "queued",
         queue' = [queue EXCEPT ![n] = <<>>],
         pending' = [pending EXCEPT ![n] = p],
         p \subseteq {c.id},
         p # {} => c.at = "waiting" /\ script[n][c.id] = "DiagnosticRequest",
         c.at \in {"ok", "err"} => c.answers = c.id,
         c.id = caller[n].id, c.since <= caller[n].since, caller[n].at # "idle",
         UNCHANGED <<script, now, up, loop>>,
         /\ store' \in [Nodes -> SUBSET AnnouncementType]
         /\ \A k \in Nodes : IsFiniteSet(store'[k]) /\ \A b \in store'[k] : Timely(b)',
         /\ wire' \subseteq Messages
         /\ \A m \in wire' : m.kind = "gossip" => Timely(m.about)'
  PROVE  MeshInv'
<1> USE DEF MeshInv
<1>1. <<>> \in Seq(Kinds) /\ caller \in [Nodes -> CallType]
  BY DEF MeshTypeOK, CallType
<1>2. caller[n].id \in 1..Len(script[n])
  BY DEF CallMatches
<1>3. /\ caller' \in [Nodes -> CallType] /\ queue' \in [Nodes -> Seq(Kinds)]
      /\ pending' \in [Nodes -> SUBSET Nat] /\ \A k \in Nodes : CallMatches(k)'
  BY <1>1, <1>2, CallChange
<1>4. \A k \in Nodes : caller'[k].since <= now
  <2>1. now \in Nat /\ caller[n].since \in Nat /\ c.since \in Nat /\ caller[n].since <= now
    BY <1>1, MeshAssumption DEF MeshTypeOK, CallType, Dated
  <2>2. c.since <= now
    BY <2>1
  <2> QED BY <1>1, <2>2 DEF Dated
<1>5. MeshTypeOK'
  BY <1>3 DEF MeshTypeOK, CallType
<1>6. Dated'
  BY <1>4 DEF Dated
<1> QED BY <1>3, <1>5, <1>6

\* A step that leaves the store and the messages alone.
LEMMA StoreKept ==
  ASSUME MeshInv, UNCHANGED <<now, up, store>>
  PROVE  /\ store' \in [Nodes -> SUBSET AnnouncementType]
         /\ \A k \in Nodes : IsFiniteSet(store'[k]) /\ \A b \in store'[k] : Timely(b)'
BY DEF MeshInv, MeshTypeOK, Dated, Timely

LEMMA WireKept ==
  ASSUME MeshInv, UNCHANGED <<now, up>>, wire' \subseteq wire
  PROVE  /\ wire' \subseteq Messages
         /\ \A m \in wire' : m.kind = "gossip" => Timely(m.about)'
BY DEF MeshInv, MeshTypeOK, Dated, Timely

LEMMA TakeCommandStep ==
  ASSUME MeshInv, NEW n \in Nodes, TakeCommand(n)
  PROVE  MeshInv'
<1>1. /\ caller[n] \in CallType /\ caller[n].at = "queued" /\ pending[n] = {}
      /\ Head(queue[n]) = script[n][caller[n].id]
      /\ caller[n].id \in Nat
  BY CallFacts DEF MeshInv, TakeCommand, CallType
<1>2. /\ queue' = [queue EXCEPT ![n] = <<>>]
      /\ UNCHANGED <<script, now, up, loop>>
  BY CallFacts DEF MeshInv, TakeCommand, MeshTypeOK
<1>3. pending \in [Nodes -> SUBSET Nat] /\ pending = [pending EXCEPT ![n] = {}]
  BY <1>1 DEF MeshInv, MeshTypeOK
<1>4. caller[n].at # "idle"
  BY <1>1
<1>w. caller \in [Nodes -> CallType]
  BY DEF MeshInv, MeshTypeOK, CallType
<1>5. CASE TakePublish(n)
  <2>1. PICK at \in {"ok", "err"} : caller' = Answer(n, at, caller[n].id)
    BY <1>5 DEF TakePublish
  <2>2. PICK c \in CallType :
          /\ caller' = [caller EXCEPT ![n] = c]
          /\ c.at = at /\ c.id = caller[n].id /\ c.since = 0 /\ c.answers = c.id
    BY <2>1, AnswerFacts DEF MeshInv
  <2>3. /\ store' \in [Nodes -> SUBSET AnnouncementType]
        /\ \A k \in Nodes : IsFiniteSet(store'[k]) /\ \A b \in store'[k] : Timely(b)'
        /\ wire' \subseteq Messages
        /\ \A m \in wire' : m.kind = "gossip" => Timely(m.about)'
    <3>1. CASE UNCHANGED <<store, wire>>
      BY <1>2, <3>1, StoreKept, WireKept
    <3>2. CASE /\ Sent(Gossip(n))
               /\ store' = [store EXCEPT ![n] = Remembered(@, Announcement(n))]
      <4>1. Announcement(n) \in AnnouncementType
        BY <1>1 DEF Announcement, AnnouncementType, CallType
      <4>2. Timely(Announcement(n))
        <5>1. Up(n) /\ now \in 0..MaxTime /\ up[n] \in 0..MaxTime + 1
          BY DEF TakeCommand, Ready, MeshInv, MeshTypeOK
        <5>2. caller[n].since <= now
          BY DEF MeshInv, Dated
        <5> QED BY <5>1, <5>2, <1>1, MeshAssumption DEF Timely, Announcement, Up, CallType
      <4>3. Gossip(n) \in SUBSET Messages
        BY <4>1 DEF Gossip, Messages
      <4>4. \A m \in Gossip(n) : m.about = Announcement(n)
        BY DEF Gossip
      <4>5. wire' \subseteq wire \cup Gossip(n)
        BY <3>2 DEF Sent
      <4> HIDE DEF MeshInv
      <4> QED BY <1>2, <3>2, <4>1, <4>2, <4>3, <4>4, <4>5, StoreChange, WireChange DEF MeshInv
    <3> QED BY <1>5, <3>1, <3>2 DEF TakePublish
  <2>4. UNCHANGED pending
    BY <1>5 DEF TakePublish
  <2>5. c.since <= caller[n].since
    BY <1>1, <2>2 DEF CallType
  <2> QED BY <1>2, <1>3, <1>4, <2>2, <2>3, <2>4, <2>5, LoopStep
<1>6. CASE script[n][caller[n].id] = "DiagnosticRequest" /\ TakeDiagnosticRequest(n)
  <2> DEFINE c == [caller[n] EXCEPT !.at = "waiting"]
  <2>1. /\ c \in CallType /\ c.at = "waiting" /\ c.id = caller[n].id
        /\ c.since <= caller[n].since
        /\ caller' = [caller EXCEPT ![n] = c]
    <3>1. c \in CallType /\ c.at = "waiting" /\ c.id = caller[n].id /\ c.since = caller[n].since
      BY <1>1 DEF CallType
    <3>2. c.since <= caller[n].since
      BY <1>1, <3>1 DEF CallType
    <3>3. caller' = [caller EXCEPT ![n] = c]
      BY <1>w, <1>6 DEF TakeDiagnosticRequest
    <3> QED BY <3>1, <3>2, <3>3
  <2>2. pending' = [pending EXCEPT ![n] = {c.id}] /\ {c.id} \in SUBSET Nat
    BY <1>1, <1>3, <1>6, <2>1 DEF TakeDiagnosticRequest
  <2>3. PICK peer \in Nodes \ {n} :
          wire' = wire \cup {[kind |-> "request", id |-> caller[n].id, from |-> n, to |-> peer]}
    BY <1>6 DEF TakeDiagnosticRequest, Sent
  <2>5. /\ wire' \subseteq Messages
        /\ \A m \in wire' : m.kind = "gossip" => Timely(m.about)'
    <3> DEFINE r == [kind |-> "request", id |-> caller[n].id, from |-> n, to |-> peer]
    <3>1. r \in Messages /\ r.kind # "gossip"
      BY <1>1 DEF Messages
    <3>2. wire' \subseteq wire \cup {r}
      BY <2>3
    <3> HIDE DEF r
    <3>3. {r} \in SUBSET Messages /\ \A m \in {r} : m.kind = "gossip" => Timely(m.about)
      BY <3>1
    <3>4. MeshTypeOK /\ Dated /\ UNCHANGED <<now, up>>
      BY <1>2 DEF MeshInv
    <3> QED BY <3>2, <3>3, <3>4, WireChange
  <2>6. UNCHANGED store
    BY <1>6 DEF TakeDiagnosticRequest
  <2> HIDE DEF c
  <2> QED BY <1>2, <1>4, <1>6, <2>1, <2>2, <2>5, <2>6, StoreKept, LoopStep
<1>7. CASE TakeOpenStream(n)
  <2> DEFINE c == [caller[n] EXCEPT !.at = "waiting"]
  <2>1. /\ c \in CallType /\ c.at = "waiting" /\ c.id = caller[n].id
        /\ c.since <= caller[n].since
        /\ caller' = [caller EXCEPT ![n] = c]
    <3>1. c \in CallType /\ c.at = "waiting" /\ c.id = caller[n].id /\ c.since = caller[n].since
      BY <1>1 DEF CallType
    <3>2. c.since <= caller[n].since
      BY <1>1, <3>1 DEF CallType
    <3>3. caller' = [caller EXCEPT ![n] = c]
      BY <1>w, <1>7 DEF TakeOpenStream
    <3> QED BY <3>1, <3>2, <3>3
  <2>2. UNCHANGED <<pending, store, wire>>
    BY <1>7 DEF TakeOpenStream
  <2> HIDE DEF c
  <2> QED BY <1>2, <1>3, <1>4, <2>1, <2>2, StoreKept, WireKept, LoopStep
<1>8. CASE TakeGetPeers(n)
  <2>1. PICK c \in CallType :
          /\ caller' = [caller EXCEPT ![n] = c]
          /\ c.at = "ok" /\ c.id = caller[n].id /\ c.since = 0 /\ c.answers = c.id
    BY <1>8, AnswerFacts DEF MeshInv, TakeGetPeers
  <2>2. UNCHANGED <<pending, store, wire>>
    BY <1>8 DEF TakeGetPeers
  <2>3. c.since <= caller[n].since
    BY <1>1, <2>1 DEF CallType
  <2> QED BY <1>2, <1>3, <1>4, <2>1, <2>2, <2>3, StoreKept, WireKept, LoopStep
<1> QED
  <2>1. Head(queue[n]) \in Kinds
    BY DEF TakeCommand, MeshInv, MeshTypeOK
  <2> QED BY <1>1, <1>5, <1>6, <1>7, <1>8, <2>1 DEF TakeCommand, Kinds

\* A pending request, which belongs to the call under way, is answered.
LEMMA AnswerStep ==
  ASSUME MeshInv, NEW n \in Nodes, NEW id \in pending[n], NEW at \in {"ok", "err"},
         caller' = Answer(n, at, id), pending' = [pending EXCEPT ![n] = @ \ {id}],
         wire' \subseteq wire, UNCHANGED <<script, now, up, loop, queue, store>>
  PROVE  MeshInv'
<1>1. /\ id = caller[n].id /\ pending[n] \ {id} = {} /\ caller[n].at = "waiting"
      /\ queue[n] = <<>> /\ caller[n] \in CallType
  <2>1. caller[n].at = "waiting"
    BY DEF MeshInv, CallMatches
  <2> QED BY <2>1, CallFacts DEF MeshInv
<1>2. PICK c \in CallType :
        /\ caller' = [caller EXCEPT ![n] = c]
        /\ c.at = at /\ c.id = caller[n].id /\ c.since = 0 /\ c.answers = c.id
  BY <1>1, AnswerFacts DEF MeshInv
<1>3. queue' = [queue EXCEPT ![n] = <<>>]
  BY <1>1 DEF MeshInv, MeshTypeOK
<1>4. pending' = [pending EXCEPT ![n] = {}]
  BY <1>1
<1>5. c.since <= caller[n].since /\ caller[n].at # "idle"
  BY <1>1, <1>2 DEF CallType
<1>6. c.at # "queued" /\ {} \in SUBSET Nat /\ {} \subseteq {c.id} /\ c.id = caller[n].id /\ c.answers = c.id
  BY <1>2
<1>7. /\ store' \in [Nodes -> SUBSET AnnouncementType]
      /\ \A k \in Nodes : IsFiniteSet(store'[k]) /\ \A b \in store'[k] : Timely(b)'
  BY StoreKept
<1>8. /\ wire' \subseteq Messages
      /\ \A m \in wire' : m.kind = "gossip" => Timely(m.about)'
  BY WireKept
<1>9. caller' = [caller EXCEPT ![n] = c]
  BY <1>2
<1> HIDE DEF MeshInv
<1> QED BY <1>3, <1>4, <1>5, <1>6, <1>7, <1>8, <1>9, LoopStep

\* A step that leaves the calls alone.
LEMMA CallsKept ==
  ASSUME MeshInv, UNCHANGED <<script, now, up, queue, caller, pending>>,
         loop' \in [Nodes -> {Free} \cup [from : Nodes, id : Nat]],
         /\ store' \in [Nodes -> SUBSET AnnouncementType]
         /\ \A k \in Nodes : IsFiniteSet(store'[k]) /\ \A b \in store'[k] : Timely(b)',
         /\ wire' \subseteq Messages
         /\ \A m \in wire' : m.kind = "gossip" => Timely(m.about)'
  PROVE  MeshInv'
<1>1. MeshTypeOK'
  BY DEF MeshInv, MeshTypeOK
<1>2. \A n \in Nodes : CallMatches(n)'
  BY DEF MeshInv, CallMatches
<1>3. Dated'
  BY DEF MeshInv, Dated
<1> QED BY <1>1, <1>2, <1>3 DEF MeshInv

LEMMA ReceiveStep ==
  ASSUME MeshInv, NEW m \in wire,
         ReceiveGossip(m.to, m) \/ ReceiveRequest(m.to, m) \/ ReceiveResponse(m.to, m) \/ Lose(m)
  PROVE  MeshInv'
<1>1. m \in Messages /\ m.to \in Nodes
  <2>1. m \in Messages
    BY DEF MeshInv, MeshTypeOK
  <2> QED BY <2>1 DEF Messages
<1>2. loop \in [Nodes -> {Free} \cup [from : Nodes, id : Nat]]
  BY DEF MeshInv, MeshTypeOK
<1>3. wire' \subseteq wire
  BY DEF ReceiveGossip, ReceiveRequest, ReceiveResponse, Lose
<1>4. CASE ReceiveGossip(m.to, m)
  <2>1. m.kind = "gossip" /\ m.about \in AnnouncementType
    BY <1>1, <1>4 DEF ReceiveGossip, Messages
  <2>2. Timely(m.about)
    BY <2>1 DEF MeshInv, Dated
  <2>3. /\ store' \in [Nodes -> SUBSET AnnouncementType]
        /\ \A k \in Nodes : IsFiniteSet(store'[k]) /\ \A b \in store'[k] : Timely(b)'
    BY <1>1, <1>4, <2>1, <2>2, StoreChange DEF ReceiveGossip, MeshInv
  <2>4. UNCHANGED <<script, now, up, loop, queue, caller, pending>>
    BY <1>4 DEF ReceiveGossip
  <2> QED BY <1>2, <1>3, <2>3, <2>4, WireKept, CallsKept
<1>5. CASE ReceiveRequest(m.to, m)
  <2>1. m.kind = "request" /\ m.from \in Nodes /\ m.id \in Nat
    BY <1>1, <1>5 DEF ReceiveRequest, Messages
  <2>2. loop' \in [Nodes -> {Free} \cup [from : Nodes, id : Nat]]
    BY <1>1, <1>2, <1>5, <2>1 DEF ReceiveRequest
  <2>3. UNCHANGED <<script, now, up, queue, caller, pending, store>>
    BY <1>5 DEF ReceiveRequest
  <2> QED BY <1>3, <2>2, <2>3, StoreKept, WireKept, CallsKept
<1>6. CASE ReceiveResponse(m.to, m)
  <2>1. UNCHANGED <<script, now, up, loop, queue, store>>
    BY <1>6 DEF ReceiveResponse
  <2>2. CASE m.id \in pending[m.to]
    <3>1. /\ caller' = Answer(m.to, "ok", m.id)
          /\ pending' = [pending EXCEPT ![m.to] = @ \ {m.id}]
      BY <1>6, <2>2 DEF ReceiveResponse
    <3> QED BY <1>1, <1>3, <2>1, <2>2, <3>1, AnswerStep
  <2>3. CASE m.id \notin pending[m.to]
    <3>1. UNCHANGED <<caller, pending>>
      BY <1>6, <2>3 DEF ReceiveResponse
    <3> QED BY <1>2, <1>3, <2>1, <3>1, StoreKept, WireKept, CallsKept
  <2> QED BY <2>2, <2>3
<1>7. CASE Lose(m)
  <2>1. UNCHANGED <<script, now, up, loop, queue, caller, pending, store>>
    BY <1>7 DEF Lose
  <2> QED BY <1>2, <1>3, <2>1, StoreKept, WireKept, CallsKept
<1> QED BY <1>4, <1>5, <1>6, <1>7

LEMMA MeshInvStep ==
  ASSUME MeshInv, MeshStep
  PROVE  MeshInv'
<1>1. ASSUME NEW n \in Nodes, StreamOpened(n) PROVE MeshInv'
  <2>1. /\ caller[n].at = "waiting" /\ caller[n].id \in Nat
        /\ queue[n] = <<>> /\ pending[n] = {} /\ caller[n] \in CallType
    BY <1>1, CallFacts DEF StreamOpened, MeshInv, CallMatches, CallType
  <2>2. PICK at \in {"ok", "err"} : caller' = Answer(n, at, caller[n].id)
    BY <1>1 DEF StreamOpened
  <2>3. PICK c \in CallType :
          /\ caller' = [caller EXCEPT ![n] = c]
          /\ c.at = at /\ c.id = caller[n].id /\ c.since = 0 /\ c.answers = c.id
    BY <2>2, AnswerFacts DEF MeshInv
  <2>4. UNCHANGED <<script, now, up, loop, queue, pending, store, wire>>
    BY <1>1 DEF StreamOpened
  <2>5. queue' = [queue EXCEPT ![n] = <<>>] /\ pending' = [pending EXCEPT ![n] = {}]
    BY <2>1, <2>4 DEF MeshInv, MeshTypeOK
  <2>6. c.since <= caller[n].since /\ caller[n].at # "idle"
    BY <2>1, <2>3 DEF CallType
  <2> QED BY <2>3, <2>4, <2>5, <2>6, StoreKept, WireKept, LoopStep
<1>2. ASSUME NEW n \in Nodes, FinishRequest(n) PROVE MeshInv'
  <2> DEFINE r == [kind |-> "response", id |-> loop[n].id, from |-> n, to |-> loop[n].from]
  <2>1. r \in Messages /\ r.kind # "gossip"
    BY <1>2 DEF FinishRequest, MeshInv, MeshTypeOK, Messages
  <2>2. wire' = wire \cup {r}
    BY <1>2 DEF FinishRequest, Sent
  <2>3. UNCHANGED <<script, now, up, queue, caller, pending, store>>
    BY <1>2 DEF FinishRequest
  <2>4. loop' \in [Nodes -> {Free} \cup [from : Nodes, id : Nat]]
    BY <1>2 DEF FinishRequest, MeshInv, MeshTypeOK
  <2> HIDE DEF r
  <2>5. {r} \in SUBSET Messages /\ \A m \in {r} : m.kind = "gossip" => Timely(m.about)
    BY <2>1
  <2>6. MeshTypeOK /\ Dated /\ wire' \subseteq wire \cup {r}
    BY <2>2 DEF MeshInv
  <2>7. /\ wire' \subseteq Messages
        /\ \A m \in wire' : m.kind = "gossip" => Timely(m.about)'
    BY <2>3, <2>5, <2>6, WireChange
  <2> QED BY <2>3, <2>4, <2>7, StoreKept, CallsKept
<1>3. ASSUME NEW n \in Nodes, Stop(n) PROVE MeshInv'
  <2>1. /\ up' = [up EXCEPT ![n] = now]
        /\ UNCHANGED <<script, now, loop, queue, caller, pending, store, wire>>
    BY <1>3 DEF Stop
  <2>0. MeshTypeOK
    BY DEF MeshInv
  <2>a. now \in 0..MaxTime + 1
    BY <2>0, MeshAssumption DEF MeshTypeOK
  <2>b. up' \in [Nodes -> 0..MaxTime + 1]
    BY <2>0, <2>1, <2>a DEF MeshTypeOK
  <2>2. MeshTypeOK'
    BY <2>0, <2>1, <2>b DEF MeshTypeOK
  <2>3. \A k \in Nodes : CallMatches(k)'
    BY <2>1 DEF MeshInv, CallMatches
  <2>4. \A a \in AnnouncementType : Timely(a) => Timely(a)'
    BY <2>1 DEF Timely, MeshInv, MeshTypeOK, AnnouncementType
  <2>5. (\A k \in Nodes : store[k] \subseteq AnnouncementType)
          /\ \A m \in wire : m.kind = "gossip" => m.about \in AnnouncementType
    BY DEF MeshInv, MeshTypeOK, Messages
  <2>6. Dated'
    BY <2>1, <2>4, <2>5 DEF MeshInv, Dated
  <2> QED BY <2>2, <2>3, <2>6 DEF MeshInv
<1>4. ASSUME NEW n \in Nodes, NEW id \in pending[n], RequestFails(n, id) PROVE MeshInv'
  BY <1>4, AnswerStep DEF RequestFails
<1> QED BY <1>1, <1>2, <1>3, <1>4, IssueStep, TakeCommandStep, ReceiveStep DEF MeshStep

-----------------------------------------------------------------------------
(* The discovery service: a refresh lasts no longer than its timeout, so   *)
(* what it found was active not long before it is cached.                  *)

Listing == refresh # NoRefresh

Fresh ==
  /\ cache.at <= now
  /\ \A i \in cache.offers : cache.at <= ended[i] + RpcTimeout
  /\ Listing => /\ refresh.next \in 1..Len(OnChain) + 1
                /\ refresh.since <= now /\ now <= refresh.since + RpcTimeout
                /\ \A i \in refresh.found : refresh.since <= ended[i]

DiscoveryInv == TypeOK /\ MeshInv /\ Fresh

LEMMA Numbers ==
  ASSUME TypeOK
  PROVE  /\ now \in Nat /\ MaxTime \in Nat /\ RpcTimeout \in Nat \ {0} /\ now <= MaxTime
         /\ Len(OnChain) \in Nat /\ Offers = 1..Len(OnChain)
         /\ cache.at \in Nat /\ refresh.since \in Nat
         /\ \A i \in Offers : ended[i] \in Nat
BY MeshAssumption, DiscoveryAssumption DEF TypeOK, MeshTypeOK, Offers

LEMMA DiscoveryInit == Init => DiscoveryInv
<1> SUFFICES ASSUME Init PROVE DiscoveryInv
  OBVIOUS
<1>1. MeshInv
  BY MeshInvInit DEF Init
<1>2. TypeOK
  <2>1. Len(OnChain) \in Nat /\ MaxTime \in Nat
    BY MeshAssumption, DiscoveryAssumption
  <2> QED BY <1>1, <2>1 DEF Init, TypeOK, MeshInv, NoRefresh
<1>3. Fresh
  <2>1. ~ Listing /\ cache = [offers |-> {}, at |-> 0] /\ now = 0
    BY DEF Init, MeshInit, Listing
  <2> QED BY <2>1 DEF Fresh
<1> QED BY <1>1, <1>2, <1>3 DEF DiscoveryInv

LEMMA TickStep ==
  ASSUME DiscoveryInv, Tick
  PROVE  DiscoveryInv'
<1> USE DEF DiscoveryInv
<1>1. /\ now' = now + 1 /\ now < MaxTime
      /\ UNCHANGED <<script, up, loop, queue, caller, pending, store, wire>>
      /\ UNCHANGED <<ended, polling, refresh, cache>>
  BY DEF Tick, discoveryVars
<1>2. MeshTypeOK'
  BY <1>1, Numbers DEF MeshInv, MeshTypeOK
<1>3. TypeOK'
  BY <1>1, <1>2 DEF TypeOK
<1>4. \A n \in Nodes : CallMatches(n)'
  BY <1>1 DEF MeshInv, CallMatches
<1>5. Dated'
  <2>1. \A t \in Nat : t <= now => t <= now'
    BY <1>1, Numbers
  <2>2. \A a \in AnnouncementType : Timely(a) => Timely(a)'
    BY <1>1, <2>1 DEF Timely, AnnouncementType
  <2>3. (\A n \in Nodes : caller[n].since \in Nat /\ store[n] \subseteq AnnouncementType)
          /\ \A m \in wire : m.kind = "gossip" => m.about \in AnnouncementType
    BY DEF MeshInv, MeshTypeOK, Messages
  <2> QED BY <1>1, <2>1, <2>2, <2>3 DEF MeshInv, Dated
<1>6. Fresh'
  <2>1. Listing => now < refresh.since + RpcTimeout
    BY DEF Tick, Listing
  <2> QED BY <1>1, <2>1, Numbers DEF Fresh, Listing
<1> QED BY <1>2, <1>3, <1>4, <1>5, <1>6 DEF MeshInv

LEMMA DiscoveryStepKeeps ==
  ASSUME DiscoveryInv, DiscoveryStep
  PROVE  DiscoveryInv'
<1> USE DEF DiscoveryInv
<1>m. UNCHANGED meshVars
  BY DEF DiscoveryStep, Deactivate, StartPolling, StartRefresh, ReadOffer, Insert, GiveUp
<1>1. MeshInv' /\ now' = now
  BY <1>m DEF meshVars, MeshInv, MeshTypeOK, CallMatches, Dated, Timely
<1>n. cache \in [offers : SUBSET Offers, at : 0..MaxTime]
        /\ refresh \in [since : 0..MaxTime, next : 0..Len(OnChain) + 1, found : SUBSET Offers]
        /\ ended \in [Offers -> 0..MaxTime + 1] /\ polling \in {"absent", "off", "on"}
        /\ now \in 0..MaxTime
  BY DEF TypeOK, MeshTypeOK
<1>2. CASE \E i \in Offers : Deactivate(i)
  <2>1. PICK i \in Offers : ended' = [ended EXCEPT ![i] = now] /\ UNCHANGED <<polling, refresh, cache>>
    BY <1>2 DEF Deactivate
  <2>2. TypeOK'
    BY <1>1, <1>n, <2>1, Numbers DEF TypeOK, MeshInv
  <2>3. Fresh'
    BY <1>1, <1>n, <2>1, Numbers DEF Fresh, Listing
  <2> QED BY <1>1, <2>2, <2>3
<1>3. CASE StartPolling
  BY <1>1, <1>3 DEF StartPolling, TypeOK, Fresh, MeshInv, Listing
<1>4. CASE StartRefresh
  <2>1. refresh' = [since |-> now, next |-> 1, found |-> {}] /\ UNCHANGED <<ended, polling, cache>>
    BY <1>4 DEF StartRefresh
  <2>2. TypeOK'
    BY <1>1, <1>n, <2>1, Numbers DEF TypeOK, MeshInv
  <2>3. Fresh'
    BY <1>1, <2>1, Numbers DEF Fresh
  <2> QED BY <1>1, <2>2, <2>3
<1>5. CASE ReadOffer
  <2>1. Listing /\ refresh.next \in 1..Len(OnChain) /\ UNCHANGED <<ended, polling, cache>>
    BY <1>5, Numbers DEF ReadOffer, Fresh, Listing
  <2>2. /\ refresh'.since = refresh.since /\ refresh'.next = refresh.next + 1
        /\ refresh' \in [since : 0..MaxTime, next : 0..Len(OnChain) + 1, found : SUBSET Offers]
        /\ \A i \in refresh'.found : i \in refresh.found \/ (i = refresh.next /\ Active(i))
    <3> DEFINE F == IF Active(refresh.next) THEN refresh.found \cup {refresh.next} ELSE refresh.found
    <3>1. refresh' = [refresh EXCEPT !.next = refresh.next + 1, !.found = F]
      BY <1>5 DEF ReadOffer
    <3>2. refresh.next \in Offers /\ refresh.next + 1 \in 0..Len(OnChain) + 1
      BY <2>1, Numbers
    <3>3. F \in SUBSET Offers /\ \A i \in F : i \in refresh.found \/ (i = refresh.next /\ Active(i))
      BY <1>n, <3>2
    <3> HIDE DEF F
    <3> QED BY <1>n, <3>1, <3>2, <3>3
  <2>3. TypeOK'
    BY <1>1, <1>n, <2>1, <2>2 DEF TypeOK, MeshInv
  <2>4. \A i \in refresh'.found : refresh'.since <= ended'[i]
    BY <1>n, <2>1, <2>2, Numbers DEF Fresh, Active
  <2>5. Fresh'
    BY <1>1, <2>1, <2>2, <2>4, Numbers DEF Fresh
  <2> QED BY <1>1, <2>3, <2>5
<1>6. CASE Insert
  <2>1. /\ Listing
        /\ cache' = [offers |-> {i \in refresh.found : Usable(OnChain[i])}, at |-> now]
        /\ refresh' = NoRefresh /\ UNCHANGED <<ended, polling>>
    BY <1>6 DEF Insert, Listing
  <2>2. TypeOK'
    BY <1>1, <1>n, <2>1, Numbers DEF TypeOK, MeshInv, NoRefresh
  <2>3. ~ Listing'
    BY <2>1 DEF Listing, NoRefresh
  <2>4. \A i \in cache'.offers : cache'.at <= ended'[i] + RpcTimeout
    <3>1. ASSUME NEW i \in refresh.found PROVE now <= ended[i] + RpcTimeout
      <4>1. i \in Offers /\ refresh.since <= ended[i] /\ now <= refresh.since + RpcTimeout
        BY <1>n, <2>1 DEF Fresh
      <4> QED BY <4>1, Numbers
    <3> QED BY <2>1, <3>1
  <2>5. Fresh'
    BY <1>1, <1>n, <2>1, <2>3, <2>4 DEF Fresh
  <2> QED BY <1>1, <2>2, <2>5
<1>7. CASE GiveUp
  <2>1. refresh' = NoRefresh /\ UNCHANGED <<ended, polling, cache>>
    BY <1>7 DEF GiveUp
  <2>2. TypeOK'
    BY <1>1, <1>n, <2>1, Numbers DEF TypeOK, MeshInv, NoRefresh
  <2>3. Fresh'
    BY <1>1, <2>1 DEF Fresh, Listing, NoRefresh
  <2> QED BY <1>1, <2>2, <2>3
<1> QED BY <1>2, <1>3, <1>4, <1>5, <1>6, <1>7 DEF DiscoveryStep

LEMMA MeshStepKeeps ==
  ASSUME DiscoveryInv, MeshStep, UNCHANGED discoveryVars
  PROVE  DiscoveryInv'
<1>1. MeshInv'
  BY MeshInvStep DEF DiscoveryInv
<1>2. now' = now
  BY DEF MeshStep, Issue, TakeCommand, StreamOpened, FinishRequest, Stop, RequestFails,
         ReceiveGossip, ReceiveRequest, ReceiveResponse, Lose
<1>3. UNCHANGED <<ended, polling, refresh, cache>>
  BY DEF discoveryVars
<1>4. TypeOK'
  BY <1>1, <1>3 DEF DiscoveryInv, TypeOK, MeshInv
<1>5. Fresh'
  BY <1>2, <1>3 DEF DiscoveryInv, Fresh, Listing
<1> QED BY <1>1, <1>4, <1>5 DEF DiscoveryInv

-----------------------------------------------------------------------------
(* The routes of a state, and how they are ranked.                         *)

LEMMA ChainFields ==
  ASSUME NEW i \in Offers
  PROVE  /\ ChainRoute(i).offer = i /\ ChainRoute(i).staked /\ ChainRoute(i).createdAt = 0
         /\ ChainRoute(i).price \in Nat /\ ChainRoute(i).bandwidth \in Nat
         /\ ChainRoute(i).agent \in DOMAIN Metrics /\ ChainRoute(i).regionValid \in BOOLEAN
         /\ ChainRoute(i).feedback \in Nat /\ ChainRoute(i).reputation \in Int
<1>1. OnChain[i] \in RatedType /\ i # 0
  BY DiscoveryAssumption DEF Offers
<1> QED BY <1>1 DEF ChainRoute, Route, RatedType

LEMMA GossipFields ==
  ASSUME NEW a \in AnnouncementType
  PROVE  /\ GossipRoute(a).offer = 0 /\ GossipRoute(a).staked = FALSE
         /\ GossipRoute(a).createdAt \in Nat /\ GossipRoute(a).feedback = 0
         /\ GossipRoute(a).reputation = 0
<1>1. a.at \in Nat
  BY DEF AnnouncementType
<1> QED BY <1>1 DEF GossipRoute, Route

\* What a node offers its tasks: listed offers, and announcements it still shows.
LEMMA RoutesAre ==
  ASSUME DiscoveryInv
  PROVE  /\ \A r \in Routes :
              \/ \E i \in Offers : r = ChainRoute(i)
              \/ \E a \in AnnouncementType : r = GossipRoute(a)
         /\ \A r \in CachedRoutes : \E i \in cache.offers :
              r = ChainRoute(i) /\ now < cache.at + PollInterval
         /\ IsFiniteSet(Routes)
<1> DEFINE shown == {b \in Announcements(Local) : Usable(Service[b.from])}
<1>1. cache.offers \subseteq Offers /\ IsFiniteSet(Offers)
  <2>1. cache.offers \subseteq Offers /\ Offers = 1..Len(OnChain) /\ Len(OnChain) \in Nat
    BY Numbers DEF DiscoveryInv, TypeOK
  <2>2. IsFiniteSet(1..Len(OnChain))
    <3>1. 1 \in Int /\ Len(OnChain) \in Int
      BY <2>1
    <3> QED BY <3>1, FS_Interval
  <2> QED BY <2>1, <2>2
<1>2. shown \subseteq store[Local] /\ store[Local] \subseteq AnnouncementType
        /\ IsFiniteSet(store[Local])
  BY DiscoveryAssumption DEF Announcements, DiscoveryInv, MeshInv, MeshTypeOK, Dated
<1>3. IsFiniteSet(shown) /\ IsFiniteSet(cache.offers)
  BY <1>1, <1>2, FS_Subset
<1> HIDE DEF shown
<1>4. Routes = CachedRoutes \cup {GossipRoute(a) : a \in shown}
  BY DEF Routes, shown
<1>5. CachedRoutes = {} \/ (CachedRoutes = {ChainRoute(i) : i \in cache.offers}
                             /\ now < cache.at + PollInterval)
  BY DEF CachedRoutes
<1>6. IsFiniteSet({GossipRoute(a) : a \in shown}) /\ IsFiniteSet({ChainRoute(i) : i \in cache.offers})
  <2> DEFINE G == {GossipRoute(a) : a \in shown}
             C == {ChainRoute(i) : i \in cache.offers}
             g == [a \in shown |-> GossipRoute(a)]
             c == [i \in cache.offers |-> ChainRoute(i)]
  <2>1. g \in [shown -> G] /\ \A r \in G : \E a \in shown : g[a] = r
    OBVIOUS
  <2>2. c \in [cache.offers -> C] /\ \A r \in C : \E i \in cache.offers : c[i] = r
    OBVIOUS
  <2>3. g \in Surjection(shown, G) /\ c \in Surjection(cache.offers, C)
    BY <2>1, <2>2 DEF Surjection
  <2> HIDE DEF G, C, g, c
  <2>4. IsFiniteSet(G) /\ IsFiniteSet(C)
    BY <1>3, <2>3, FS_Surjection
  <2> QED BY <2>4 DEF G, C
<1>7. IsFiniteSet(CachedRoutes)
  BY <1>5, <1>6, FS_EmptySet
<1>8. IsFiniteSet(Routes)
  BY <1>4, <1>6, <1>7, FS_Union
<1> QED BY <1>1, <1>2, <1>4, <1>5, <1>8

LEMMA AtLeastZero ==
  ASSUME NEW x \in Int
  PROVE  Max({0, x}) = IF x > 0 THEN x ELSE 0
<1> DEFINE m == IF x > 0 THEN x ELSE 0
<1>1. m \in {0, x} /\ \A y \in {0, x} : m >= y
  OBVIOUS
<1>2. \A z \in {0, x} : (\A y \in {0, x} : z >= y) => z = m
  OBVIOUS
<1> HIDE DEF m
<1>3. Max({0, x}) = m
  BY <1>1, <1>2 DEF Max
<1> QED BY <1>3 DEF m

LEMMA AtMostFive ==
  ASSUME NEW x \in Nat
  PROVE  Min({x, 5}) \in Nat
<1> DEFINE m == IF x < 5 THEN x ELSE 5
<1>1. m \in {x, 5} /\ \A y \in {x, 5} : m <= y
  OBVIOUS
<1>2. \A z \in {x, 5} : (\A y \in {x, 5} : z <= y) => z = m
  OBVIOUS
<1>3. m \in Nat
  OBVIOUS
<1> HIDE DEF m
<1> QED BY <1>1, <1>2, <1>3 DEF Min

\* Of two routes to the same service, the staked one has 12 points more before the
\* score saturates.
LEMMA StakeCounts ==
  ASSUME DiscoveryInv, NEW a \in Routes, NEW b \in Routes,
         a.staked, ~ b.staked, SameService(a, b), a.reputation >= 0
  PROVE  \E x, y \in Int :
           /\ x >= y + 1200
           /\ RouteScore(a, Routes) = IF x > 0 THEN x ELSE 0
           /\ RouteScore(b, Routes) = IF y > 0 THEN y ELSE 0
<1> DEFINE rivals == Cardinality({s \in Routes : s.endpoint = a.endpoint})
           cheap == IsPremium(a) /\ a.price < (MedianPrice(Routes) * 35) \div 100
           failed == Min({Metrics[a.agent].failures, 5})
<1>a. PICK i \in Offers : a = ChainRoute(i)
  BY RoutesAre, GossipFields
<1>b. PICK g \in AnnouncementType : b = GossipRoute(g)
  BY RoutesAre, ChainFields
<1>1. rivals \in Nat
  BY RoutesAre, FS_Subset, FS_CardinalityType
<1>2. a.price \in Nat /\ a.bandwidth \in Nat /\ a.feedback \in Nat /\ a.reputation \in Nat
        /\ a.staked /\ a.createdAt = 0 /\ a.agent \in DOMAIN Metrics /\ a.regionValid \in BOOLEAN
  <2>1. a.reputation \in Int
    BY <1>a, ChainFields
  <2> QED BY <1>a, <2>1, ChainFields
<1>3. b.staked = FALSE /\ b.createdAt \in Nat /\ b.feedback = 0 /\ b.reputation = 0
  BY <1>b, GossipFields
<1>4. b.agent = a.agent /\ b.endpoint = a.endpoint /\ b.regionValid = a.regionValid
        /\ b.price = a.price /\ b.bandwidth = a.bandwidth
  BY DEF SameService
<1>5. failed \in Nat /\ Metrics[a.agent].score \in Nat
  BY <1>2, AtMostFive, DiscoveryAssumption
<1>6. now \in Nat /\ FreshFor \in Nat
  BY Numbers, DiscoveryAssumption DEF DiscoveryInv
<1> HIDE DEF rivals, failed
<1>7. BaseScore(a) \in Int /\ BaseScore(b) \in Int /\ BaseScore(a) >= BaseScore(b)
  BY <1>2, <1>3, <1>4 DEF BaseScore, IsPremium
<1>8. Bonus(a) \in Int /\ Bonus(b) \in Int /\ Bonus(a) >= Bonus(b)
  BY <1>2, <1>3, <1>4, <1>5 DEF Bonus, PenaltyIf
<1>9. Penalty(a, Routes) \in Int /\ Penalty(b, Routes) \in Int
        /\ Penalty(b, Routes) >= Penalty(a, Routes) + 1200
  <2> DEFINE common == PenaltyIf(cheap, 1800) + 300 * (rivals - 1)
                         + PenaltyIf(~ a.regionValid, 600) + 200 * failed
  <2>1. common \in Int
    BY <1>1, <1>5 DEF PenaltyIf
  <2>2. PenaltyIf(cheap, 1800) \in Int /\ 300 * (rivals - 1) \in Int
          /\ PenaltyIf(~ a.regionValid, 600) \in Int /\ 200 * failed \in Int
    BY <1>1, <1>5 DEF PenaltyIf
  <2>3. Penalty(a, Routes) = PenaltyIf(cheap, 1800) + PenaltyIf(now < FreshFor, 400) + 0
          + PenaltyIf(a.feedback < 3, 400) + 0 + 300 * (rivals - 1)
          + PenaltyIf(~ a.regionValid, 600) + 200 * failed
    BY <1>2, <1>6 DEF Penalty, PenaltyIf, StakePenalty, rivals, failed
  <2>4. Penalty(b, Routes) = PenaltyIf(cheap, 1800) + PenaltyIf(now - b.createdAt < FreshFor, 400) + 1200
          + 400 + 0 + 300 * (rivals - 1)
          + PenaltyIf(~ a.regionValid, 600) + 200 * failed
    BY <1>3, <1>4 DEF Penalty, PenaltyIf, StakePenalty, IsPremium, rivals, failed
  <2> HIDE DEF common, cheap
  <2>5. PenaltyIf(now < FreshFor, 400) <= PenaltyIf(now - b.createdAt < FreshFor, 400)
          /\ PenaltyIf(now < FreshFor, 400) \in Int
          /\ PenaltyIf(now - b.createdAt < FreshFor, 400) \in Int
          /\ PenaltyIf(a.feedback < 3, 400) \in Int /\ PenaltyIf(a.feedback < 3, 400) <= 400
    BY <1>2, <1>3, <1>6 DEF PenaltyIf
  <2> QED BY <2>2, <2>3, <2>4, <2>5
<1> DEFINE x == BaseScore(a) + Bonus(a) - Penalty(a, Routes)
           y == BaseScore(b) + Bonus(b) - Penalty(b, Routes)
<1>10. x \in Int /\ y \in Int /\ x >= y + 1200
  BY <1>7, <1>8, <1>9
<1>11. RouteScore(a, Routes) = Max({0, x}) /\ RouteScore(b, Routes) = Max({0, y})
  BY DEF RouteScore
<1> HIDE DEF x, y
<1>12. /\ RouteScore(a, Routes) = IF x > 0 THEN x ELSE 0
       /\ RouteScore(b, Routes) = IF y > 0 THEN y ELSE 0
  BY <1>10, <1>11, AtLeastZero
<1> QED BY <1>10, <1>12

-----------------------------------------------------------------------------
(* Theorems.                                                               *)

NodeInv == DiscoveryInv /\ IInv

LEMMA NodeInvStep ==
  ASSUME NodeInv, [NodeNext]_nodeVars
  PROVE  NodeInv'
<1> USE DEF NodeInv
<1>1. ASSUME UNCHANGED tunnelVars PROVE IInv'
  BY <1>1 DEF tunnelVars, IInv, Typed, Grows, Telling, Waiting, Made, Unread, Quiet, Only,
       Asked, Trying, Answered, Successor
<1>2. ASSUME UNCHANGED vars PROVE DiscoveryInv'
  BY <1>2 DEF vars, meshVars, discoveryVars, DiscoveryInv, TypeOK, MeshInv, MeshTypeOK,
       CallMatches, Dated, Timely, Fresh, Listing
<1>3. CASE Next /\ UNCHANGED tunnelVars
  <2>1. DiscoveryInv'
    BY <1>3, MeshStepKeeps, DiscoveryStepKeeps, TickStep DEF Next
  <2> QED BY <1>1, <1>3, <2>1
<1>4. CASE TunnelStep /\ UNCHANGED vars
  <2>1. IInv'
    BY <1>4, TypedStep, GrowsClient, GrowsHop DEF TunnelStep, IInv
  <2> QED BY <1>2, <1>4, <2>1
<1>5. CASE UNCHANGED nodeVars
  BY <1>1, <1>2, <1>5 DEF nodeVars
<1> QED BY <1>3, <1>4, <1>5 DEF NodeNext

\* Every variable of the event loops and of the discovery service keeps its type, and what
\* the invariants of the loops, the listings and the circuit say holds in every reachable
\* state (P2PNode::run, RouteDiscoveryService::refresh, handle_incoming_tunnel).
THEOREM NodeCorrect == NodeSpec => []NodeInv
<1>1. NodeInit => NodeInv
  BY DiscoveryInit, IInvInit DEF NodeInit, NodeInv
<1> QED BY <1>1, NodeInvStep, PTL DEF NodeSpec

\* Variables keep their types.
THEOREM TypeCorrect == NodeSpec => []TypeOK
<1>1. NodeInv => TypeOK
  BY DEF NodeInv, DiscoveryInv
<1> QED BY <1>1, NodeCorrect, PTL

\* Names and answers under way, the hops that have them and the client's count agree in
\* every reachable state (build_circuit and handle_incoming_tunnel).
THEOREM CircuitGrows == NodeSpec => []IInv
<1>1. NodeInv => IInv
  BY DEF NodeInv
<1> QED BY <1>1, NodeCorrect, PTL

\* A client of build_circuit that gets its stream has all its hops connected, each to its
\* own successor, for any path, whichever nodes stop, are busy or fail.
THEOREM CircuitCorrect == NodeSpec => []CircuitIsWhole
<1>1. IInv => CircuitIsWhole
  BY DEF IInv, Grows, Made, CircuitIsWhole
<1> QED BY <1>1, CircuitGrows, PTL

\* A task is never given the answer to a request it has given up (pending_diag_requests),
\* however late a response arrives, for any commands and any number of nodes.
THEOREM AnswersCorrect == NodeSpec => []AnswersMatch
<1>1. NodeInv => AnswersMatch
  BY DEF NodeInv, DiscoveryInv, MeshInv, CallMatches, AnswersMatch
<1> QED BY <1>1, NodeCorrect, PTL

\* A provider that has been silent for longer than the time to live of an announcement is
\* offered by nobody (get_service_announcements), however late its last one arrived.
THEOREM SilenceCorrect == NodeSpec => []SilenceIsForgotten
<1>1. ASSUME NodeInv, NEW n \in Nodes, NEW provider \in Nodes, now - up[provider] > TTL,
             NEW a \in Announcements(n)
      PROVE  a.from # provider
  <2>1. a \in store[n] /\ a \in AnnouncementType /\ Timely(a) /\ now - a.at <= TTL
    BY <1>1 DEF Announcements, NodeInv, DiscoveryInv, MeshInv, MeshTypeOK, Dated
  <2>2. now \in Int /\ up[provider] \in Int /\ a.at \in Int /\ TTL \in Int
    BY <1>1, <2>1, MeshAssumption DEF NodeInv, DiscoveryInv, MeshInv, MeshTypeOK, AnnouncementType
  <2> QED BY <1>1, <2>1, <2>2 DEF Timely
<1>2. NodeInv => SilenceIsForgotten
  BY <1>1 DEF SilenceIsForgotten
<1> QED BY <1>2, NodeCorrect, PTL

\* A cached offer was active at most one listing and one polling interval ago (refresh,
\* cached_routes), whatever the RPC does.
THEOREM CacheCorrect == NodeSpec => []CacheIsRecent
<1>1. ASSUME NodeInv, NEW r \in CachedRoutes
      PROVE  now - ended[r.offer] <= PollInterval + RpcTimeout
  <2>1. DiscoveryInv
    BY <1>1 DEF NodeInv
  <2>2. PICK i \in cache.offers : r = ChainRoute(i) /\ now < cache.at + PollInterval
    BY <2>1, RoutesAre
  <2>3. i \in Offers /\ cache.at <= ended[i] + RpcTimeout
    BY <2>1, <2>2 DEF DiscoveryInv, TypeOK, Fresh
  <2>4. r.offer = i
    BY <2>2, <2>3, ChainFields
  <2>5. now \in Nat /\ cache.at \in Nat /\ ended[i] \in Nat /\ RpcTimeout \in Nat /\ PollInterval \in Nat
    BY <2>1, <2>3, Numbers, DiscoveryAssumption DEF DiscoveryInv
  <2> QED BY <2>2, <2>3, <2>4, <2>5
<1>2. NodeInv => CacheIsRecent
  BY <1>1 DEF CacheIsRecent
<1> QED BY <1>2, NodeCorrect, PTL

\* An announced route never displaces the staked one to the same service (sort_routes after
\* apply_risk_penalties), for any prices, ratings and number of routes.
THEOREM RankingCorrect == NodeSpec => []UnstakedRanksBelow
<1>1. ASSUME NodeInv, NEW a \in Routes, NEW b \in Routes,
             a.staked, ~ b.staked, SameService(a, b), a.reputation >= 0
      PROVE  /\ ~ Before(b, a, Routes)
             /\ RouteScore(a, Routes) > 0 => Before(a, b, Routes)
  <2>1. DiscoveryInv
    BY <1>1 DEF NodeInv
  <2>2. PICK x \in Int, y \in Int :
          /\ x >= y + 1200
          /\ RouteScore(a, Routes) = IF x > 0 THEN x ELSE 0
          /\ RouteScore(b, Routes) = IF y > 0 THEN y ELSE 0
    BY <1>1, <2>1, StakeCounts
  <2>3. /\ ~ (RouteScore(b, Routes) > RouteScore(a, Routes))
        /\ RouteScore(a, Routes) > 0 => RouteScore(a, Routes) > RouteScore(b, Routes)
    BY <2>2
  <2>4. IsPremium(a) = IsPremium(b)
    BY <1>1 DEF SameService, IsPremium
  <2> QED BY <2>3, <2>4 DEF Before
<1>2. NodeInv => UnstakedRanksBelow
  BY <1>1 DEF UnstakedRanksBelow
<1> QED BY <1>2, NodeCorrect, PTL
=============================================================================
