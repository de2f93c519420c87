CONSTANTS
  p1 = p1
  p2 = p2
  s1 = s1
  s2 = s2
  Threads = {t1, t2}
  Projects = {p1, p2}
  Specs = {s1, s2}
  NoSpec = NoSpec
  NoSnapshot = NoSnapshot
  Interval = 1
  GitTime = 1
  FirstRegistry <- OneServed
  Stuck = {p2}
  MaxClock = 2
  MaxCommits = 2
  MaxEdits = 1
  MaxCalls = 3
SPECIFICATION Spec
CHECK_DEADLOCK FALSE
INVARIANTS
  AnswersItsRepository
  FreshUnlessGitFailed
PROPERTIES
  SnapshotsMoveForward
  OthersNotHeldUp
