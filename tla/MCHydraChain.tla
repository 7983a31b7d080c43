---------------------------- MODULE MCHydraChain ----------------------------
(***************************************************************************)
(* Instances of HydraChain for TLC.  Together the contracts have too many   *)
(* states, so each behaviour uses one of them, with all that users and time *)
(* do around it; that they do not touch each other is proved.               *)
(***************************************************************************)
EXTENDS HydraChain

VARIABLE used  \* the contract in use

OnlyUsed ==
  /\ used # Board => UNCHANGED boardVars
  /\ used # Book => UNCHANGED routes
  /\ \A c \in Contracts \ {used} :
       /\ balanceOf'[c] = balanceOf[c]
       /\ \A u \in Users : allowance'[u][c] = allowance[u][c]

MCInit == Init /\ used \in Contracts

MCNext == Next /\ OnlyUsed /\ UNCHANGED used

MCSpec == MCInit /\ [][MCNext]_<<vars, used>> /\ ChainFairness
=============================================================================
