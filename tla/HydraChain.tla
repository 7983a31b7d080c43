----------------------------- MODULE HydraChain -----------------------------
(***************************************************************************)
(* Both contracts on one chain: the same users deal and provide routes,    *)
(* with the same USDC and the same agents.                                 *)
(***************************************************************************)
EXTENDS DealBoard, RouteBook

ASSUME TwoContracts == Board # Book

vars == <<chainVars, boardVars, routes>>

Init == BoardInit /\ BookInit

Next ==
  \/ BoardStep /\ UNCHANGED routes
  \/ BookStep /\ UNCHANGED boardVars
  \/ ChainStep /\ UNCHANGED <<boardVars, routes>>

Spec == Init /\ [][Next]_vars

\* Blocks keep coming, and an escrow that stays claimable is claimed by
\* somebody: claimExpired is open to anyone and pays the buyer.
ChainFairness ==
  /\ WF_vars(Tick /\ UNCHANGED <<boardVars, routes>>)
  /\ \A id \in 1..MaxEscrows :
       WF_vars(id \in DOMAIN escrows /\ ClaimExpired(id) /\ UNCHANGED routes)
=============================================================================
