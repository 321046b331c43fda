SPECIFICATION Spec
CONSTANTS
  Users = {u1}
  Workers = {w1, w2}
  NoOne = none
  DayLength = 2
  BaseReward = 1
  MaxBonus = 1
  MaxAmount = 7
  MaxTime = 7
SYMMETRY Symmetry
INVARIANTS
  TypeOK
  StreakEarned
  StreakIsRun
  PaidOnLaterDay
PROPERTIES
  StreakLostByAbsence
