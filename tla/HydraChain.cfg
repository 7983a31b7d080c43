SPECIFICATION MCSpec
CONSTANTS
  Users = {u1, u2}
  Contracts = {board, book}
  Board = board
  Book = book
  Agents = {a1}
  MaxUint = 3
  MaxTime = 2
  Fund = 1
  Amounts = {1, 2}
  Approvals = {2}
  EscrowTimeout = 1
  U64 = 16
  Scale = 2
  Rates = {1}
  MaxOffers = 1
  MaxEscrows = 2
  WithdrawalDelay = 1
  MaxRoutes = 2
INVARIANTS
  DealerHasTheWholeWindow
  ReputationMatchesSettlements
PROPERTIES
  BoardKeepsCustody
  EntitledArePaid
  EveryEscrowSettles
  BookKeepsCustody
  StakeComesFree
