CONSTANTS
  Principals = {p1}
  Tools = {t1}
  Args = {a1, a2}
  Requests <- AllRequests
  Threads = {h1, h2}
  Ttl = 1
  MaxEntries = 2
  MaxPerPrincipal = 2
  MaxIds = 2
  MaxClock = 1
  NoStamp = NoStamp
  NoConfirm = NoConfirm
  Malformed = Malformed
SPECIFICATION GateSpec
SYMMETRY Symmetry
INVARIANTS
  OneWritePerConfirmation
  AuditAccountsForWrites
PROPERTIES
  KeepsContract
