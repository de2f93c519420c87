CONSTANTS
  Threads = {t1, t2}
  Actors = {a1, a2}
  Repos = {r1, r2}
  NoRepo = NoRepo
  NoDoc = NoDoc
  MaxChanges = 3
  MaxMoves = 1
  MaxTalks = 2
  MaxWork = 4
SPECIFICATION Spec
CHECK_DEADLOCK FALSE
SYMMETRY Symmetry
INVARIANTS
  AnswersAreTrue
  OnlyAuthorsWithdraw
PROPERTIES
  NoChangeLost
