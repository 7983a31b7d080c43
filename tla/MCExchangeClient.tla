-------------------------- MODULE MCExchangeClient --------------------------
(* Instances of ExchangeClient for TLC. *)
EXTENDS ExchangeClient

Section(board, usdc) ==
  [enabled |-> TRUE, chain |-> "BASE-SEPOLIA", rpc_url |-> "valid",
   route_book_address |-> "valid", deal_board_address |-> board,
   identity_registry_address |-> "valid", reputation_registry_address |-> "empty",
   usdc_address |-> usdc]

\* A complete section, one a call cannot use for the board, and one it cannot
\* use at all.
SomeSections == {Section("valid", "valid"), Section("empty", "valid"), Section("valid", "empty")}

\* "1", "0", and "0.5", which has too many decimals when Decimals is 0.
SomeTexts == {[whole |-> 1, digits |-> 0, fraction |-> 0],
              [whole |-> 0, digits |-> 0, fraction |-> 0],
              [whole |-> 0, digits |-> 1, fraction |-> 5]}
=============================================================================
