SPECIFICATION Spec
CONSTANTS
  Users = {u1}
  Workers = {w1, w2}
  NoOne = none
  DayLength = 2
  BaseReward = 1
  MaxBonus = 1
  MaxAmount = 10
  MaxTime = 3
SYMMETRY Symmetry
INVARIANTS
  NoDoubleClaim
