SPECIFICATION Spec
CONSTANTS
  Users = {u1, u2}
  HugIds = {h1}
  Workers = {w1, w2}
  UnknownHug = unknown
  NoOne = none
  Operations = {"suggest", "accept", "decline", "cancel", "upgrade", "buySlot",
                "setBalance"}
  DefaultCooldown = 3
  Reduction = 1
  MinCooldown = 1
  DeclineCooldown = 0
  Window = 0
  UpgradeCost = 1
  SlotPrice = 1
  MaxHugSlots = 3
  MaxAmount = 2
  StartBalance = 2
  BodyAmounts = {1, 3, 7}
  MaxTime = 0
SYMMETRY Symmetry
INVARIANTS
  TypeOK
  UncommittedWorkHolds
  CoinsAccounted
PROPERTIES
  StatusIsFinal
  ImplementsLedger
VIEW StateWithoutReply
