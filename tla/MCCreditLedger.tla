--------------------------- MODULE MCCreditLedger ---------------------------
(* Instances of CreditLedger for TLC. *)
EXTENDS CreditLedger, TLC

\* Calls are interchangeable, and so are users.
Symmetry == Permutations(Calls) \cup Permutations(Users)
=============================================================================
