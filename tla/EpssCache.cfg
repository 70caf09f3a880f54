SPECIFICATION Spec
CONSTANTS
  Procs = {p1, p2}
  Cves = {c1, c2}
  Batch = 1
  MaxAge = 1
  Policies = {"default", "refresh", "noCache"}
  MaxTime = 2
INVARIANTS
  EveryCveIsAnswered
PROPERTY
  NoScoreIsForgotten
