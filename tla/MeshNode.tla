------------------------------ MODULE MeshNode ------------------------------
(***************************************************************************)
(* The nodes of the mesh with what runs beside their event loops: the      *)
(* discovery service of one of them and the tunnels of a circuit.  Which   *)
(* of the two there is depends on the script.                              *)
(***************************************************************************)
EXTENDS RouteDiscovery, Tunnels

nodeVars == <<vars, tunnelVars>>

NodeInit == Init /\ TunnelInit

NodeNext ==
  \/ Next /\ UNCHANGED tunnelVars
  \/ TunnelStep /\ UNCHANGED vars

\* A task of a tunnel goes on while its node runs, and opening a stream or a
\* connection ends, one way or the other.
TunnelFairness == \A i \in Hops : WF_nodeVars(HopStep(i) /\ UNCHANGED vars)

NodeSpec == NodeInit /\ [][NodeNext]_nodeVars /\ Fairness /\ TunnelFairness
=============================================================================
