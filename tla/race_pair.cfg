SPECIFICATION Spec
CONSTANTS
  Users = {u1, u2}
  HugIds = {h1, h2}
  Workers = {w1, w2}
  UnknownHug = unknown
  NoOne = none
  Operations = {"suggest"}
  DefaultCooldown = 2
  Reduction = 1
  MinCooldown = 1
  DeclineCooldown = 1
  Window = 2
  UpgradeCost = 1
  SlotPrice = 1
  MaxHugSlots = 3
  MaxAmount = 6
  StartBalance = 2
  BodyAmounts = {}
  MaxTime = 3
SYMMETRY Symmetry
INVARIANTS
  OnePendingPerPair
