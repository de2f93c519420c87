CONSTANTS
  Threads = {t1, t2}
  Handlers = {t1, t2}
  Users = {u1, u2}
  PerMinute <- FewPerMinute
  PerDay = 1
  Minute = 2
  Day = 2
  Stall = 1
  MaxTime = 3
  Jobs = {j1, j2}
  Triggerable <- OneOfTwoJobs
  Streams = 1
  Cap = 1
  MaxItems = 2
  MaxCalls = 3
SPECIFICATION Spec
CHECK_DEADLOCK FALSE
SYMMETRY Symmetry
INVARIANTS
  QuotaPerMinute
  QuotaPerDay
  AlreadyQueuedIsCertain
  OnlyOwnCancelled
  LogNamesNoOlderBuild
  SlotsComeBack
  DownloadsAreAccounted
