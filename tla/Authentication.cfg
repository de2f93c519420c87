CONSTANTS
  o1 = o1
  o2 = o2
  t1 = t1
  t2 = t2
  k1 = k1
  k2 = k2
  Operators <- MCOperators
  Owners = {u1}
  AllowEmpty = TRUE
  MaxTokens = 3
  MaxCommands = 3
  MaxWork = 3
  Threads <- MCThreads
  Kids <- MCKids
  NoKid = NoKid
  Ttl = 1
  Cooldown = 2
  Boots <- MCBoots
  MaxClock = 6
SPECIFICATION Spec
CHECK_DEADLOCK FALSE
SYMMETRY Symmetry
INVARIANTS
  RevokedIsRefused
PROPERTIES
  KeysMoveForward
  KeysAgeOut
