---------------------------- MODULE MCMobileApp ----------------------------
(***************************************************************************)
(* Instances of MobileApp for TLC.  Each behaviour explores one of two     *)
(* parts that have only the launches in common: the node and the proxy     *)
(* mode, with no VPN; or the VPN, with no call into the node.              *)
(***************************************************************************)
EXTENDS MobileApp, TLC

VARIABLE explored

Symmetry == Permutations(Changes)

MCInit ==
  /\ Init
  /\ explored \in {"node", "vpn"}
  /\ explored = "node" => intents = <<>>

MCNext ==
  /\ Next
  /\ UNCHANGED explored
  /\ explored = "node" => UNCHANGED <<presses, toActivity>> \/ open' # open
  /\ explored = "vpn" =>
       /\ UNCHANGED <<saved, setting, nodeStarted>>
       /\ \A m \in 1..Launches : stage'[m] \in {"new", "launched"}

MCSpec == MCInit /\ [][MCNext]_<<vars, explored>>
=============================================================================
