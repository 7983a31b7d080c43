------------------------------ MODULE Custody ------------------------------
(***************************************************************************)
(* What a Hydra contract promises about the USDC it is given: money comes  *)
(* in as a deposit, which is written down, or as a gift, which is not; and *)
(* it leaves only by paying out one whole deposit, once.                   *)
(***************************************************************************)
EXTENDS Integers, Sequences

CONSTANT Deposits  \* amounts that can be deposited

VARIABLES
  held,  \* per deposit, in order: what is still held of it
  pot    \* the USDC the contract owns

custodyVars == <<held, pot>>

Init == held = <<>> /\ pot = 0

Deposit ==
  \E amount \in Deposits : held' = Append(held, amount) /\ pot' = pot + amount

PayOut(i) ==
  /\ held[i] > 0
  /\ held' = [held EXCEPT ![i] = 0]
  /\ pot' = pot - held[i]

Gift == pot' > pot /\ UNCHANGED held

Next == Deposit \/ (\E i \in DOMAIN held : PayOut(i)) \/ Gift

Spec == Init /\ [][Next]_custodyVars
=============================================================================
