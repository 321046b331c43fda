SPECIFICATION Spec
CONSTANTS
  Users = {u1, u2, u3}
  HugIds = {h1, h2}
  Workers = {w1}
  UnknownHug = unknown
  NoOne = none
  Operations = {"suggest", "accept", "decline", "cancel", "buySlot"}
  DefaultCooldown = 2
  Reduction = 1
  MinCooldown = 1
  DeclineCooldown = 1
  Window = 2
  UpgradeCost = 1
  SlotPrice = 1
  MaxHugSlots = 2
  MaxAmount = 1
  StartBalance = 0
  BodyAmounts = {}
  MaxTime = 3
SYMMETRY Symmetry
INVARIANTS
  OnePendingPerPair
  SuggestedAfterCooldown
  WithinSlots
  CompletedHugHasCooldown
