SPECIFICATION FairSpec
CONSTANTS
  Users = {u1, u2}
  HugIds = {h1, h2}
  Workers = {w1, w2}
  UnknownHug = unknown
  NoOne = none
  Operations = {"suggest", "accept", "block"}
  DefaultCooldown = 1
  Reduction = 1
  MinCooldown = 1
  DeclineCooldown = 0
  Window = 0
  UpgradeCost = 1
  SlotPrice = 1
  MaxHugSlots = 1
  MaxAmount = 1
  StartBalance = 0
  BodyAmounts = {}
  MaxTime = 0
VIEW StateWithoutReply
INVARIANTS
  CoinsAccounted
  OnlyAcceptsDeadlock
PROPERTIES
  EveryRequestAnswered
  OverdueHugsLeave
