CONSTANTS
  Principals = {p1, p2}
  Tools = {t1}
  Args = {a1, a2}
  Requests <- AllRequests
  Threads = {h1, h2}
  Ttl = 1
  MaxEntries = 3
  MaxPerPrincipal = 2
  MaxIds = 4
  MaxClock = 1
  NoStamp = NoStamp
  NoConfirm = NoConfirm
  Malformed = Malformed
SPECIFICATION Spec
SYMMETRY Symmetry
INVARIANTS
  Caps
  NewestSurvive
  StrangersLearnNothing
  SingleUse
PROPERTIES
  OthersDisplacedOnlyWhenFull
