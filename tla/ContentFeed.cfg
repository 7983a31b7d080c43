SPECIFICATION FeedSpec
CONSTANTS
  Callers = {c1, c2, c3}
  Ais = {n1}
  Models = {m1}
  Events = {e1, e2}
  MinReputation = 0
  Preferred = {"sbp"}
  AutoSpendLimit = 1
  RateUnit = 2
  Listings <- SomeListings
  Spendings = {1, 2}
  PeerLists <- SomePeerLists
  Replies <- SomeReplies
SYMMETRY CallSymmetry
INVARIANTS
  LocksAreHandedOn
  TokensMatchState
  AttentionKept
  ChoiceIsJustified
