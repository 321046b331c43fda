SPECIFICATION Spec
CONSTANTS
  Users = {u1}
  Admins = {}
  Names = {n1}
  Tokens = {t1, t2, t3}
  Workers = {w1, w2}
  None = none
  AccessTTL = 1
  RefreshTTL = 1
SYMMETRY Symmetry
INVARIANTS
  TypeOK
  SessionHasOneToken
  CookieWorks
  BarredLoseAccess
  NoTokenOfDeleted
PROPERTIES
  EndedSessionsStayEnded
