SPECIFICATION Spec
CONSTANTS
  Actors = {a1, a2}
  Redmine = redmine
  GitLab = gitlab
  Backends <- MCBackends
  Portal = {p1, p2}
  Callers = {c1}
  Threads = {p1, p2, c1}
  NoThread = nothread
  Keys = {k1}
  NoKey = nokey
  NoBackend = nobackend
  NoSecret = nosecret
  Corrupt = corrupt
  Shared = shared
  MaxSets = 1
  MaxEdits = 1
  MaxRestarts = 1
SYMMETRY MCSymmetry
INVARIANTS OnlyOwnSecrets RemovedStaysRemoved EnrolledNotShared SharedWritesAreSignedOnRedmine
PROPERTY OthersUndisturbed
CHECK_DEADLOCK FALSE
