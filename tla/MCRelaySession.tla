-------------------------- MODULE MCRelaySession --------------------------
(* Instances of RelaySession for TLC. *)
EXTENDS RelaySession, TLC

\* Sockets and consumers are interchangeable: no definition names one.
Symmetry == Permutations(Providers) \cup Permutations(Requests)

\* No more messages pile up between the object and the runtime.
ShortQueues == \A p \in Providers : Len(fromProvider[p]) <= 3 /\ Len(toProvider) <= 3
=============================================================================
