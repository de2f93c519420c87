SPECIFICATION Spec
CONSTANTS
  Actors = {a1, a2}
  Redmine = redmine
  GitLab = gitlab
  Backends <- MCBackends
  Portal = {p1}
  Callers = {c1}
  Threads = {p1, c1}
  NoThread = nothread
  Keys = {k1}
  NoKey = nokey
  NoBackend = nobackend
  NoSecret = nosecret
  Corrupt = corrupt
  Shared = shared
  MaxSets = 1
  MaxEdits = 0
  MaxRestarts = 0
SYMMETRY MCSymmetry
INVARIANT NoCredentialWithoutToken
CHECK_DEADLOCK FALSE
