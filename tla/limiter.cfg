SPECIFICATION WindowSpec
CONSTANTS
  k1 = k1
  k2 = k2
  k3 = k3
  Keys = {k1, k2, k3}
  Full <- FullOf
  Cost <- CostOf
  TTL <- TTLOf
  Workers = {w1, w2, w3}
  None = none
  MaxStall = 1
  MaxWindow = 5
SYMMETRY Symmetry
INVARIANTS
  TypeOK
  LookupStays
  RateHolds
PROPERTIES
  ImplementsTokenBucket
