SPECIFICATION BoardSpec
CONSTANTS
  Users = {u1, u2}
  Contracts = {board}
  Board = board
  Agents = {a1}
  MaxUint = 3
  MaxTime = 2
  Fund = 1
  Amounts = {1}
  Approvals = {1}
  EscrowTimeout = 1
  U64 = 16
  Scale = 2
  Rates = {1}
  MaxOffers = 1
  MaxEscrows = 1
INVARIANTS
  FeedbackOnCompletionAndRejection
