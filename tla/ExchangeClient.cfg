SPECIFICATION ClientSpec
CONSTANTS
  Users = {u1, u2}
  Wallets = {u1}
  Contracts = {board, book}
  Board = board
  Book = book
  Agents = {a1}
  MaxUint = 2
  MaxTime = 1
  Fund = 1
  Amounts = {0, 1}
  Approvals = {1}
  EscrowTimeout = 1
  U64 = 16
  Scale = 2
  Rates = {2}
  MaxOffers = 1
  MaxEscrows = 1
  WithdrawalDelay = 1
  MaxRoutes = 2
  Sections <- SomeSections
  Texts <- SomeTexts
  Decimals = 0
  MaxListed = 1
INVARIANTS
  OkLeavesItsMark
  OwnIdReturned
  ListingsMissNothing
