SPECIFICATION FairSpec
CONSTANTS
  page = page
  activity = activity
  Keys = {page, activity}
  Leaderboard = {page}
  TTL <- TTLOf
  Workers = {w1, w2}
  None = none
  MaxQuery = 1
  MaxVersion = 3
  MaxAge = 4
INVARIANTS
  TypeOK
  StalenessBounded
  AcceptShows
PROPERTIES
  CachesCatchUp
