SPECIFICATION Spec
CONSTANTS
  None = None
  Torn = Torn
  PageSize <- MCPageSize
  MorePages <- MCMorePages
  Batch <- MCBatch
  MaxAge <- MCMaxAge
  MaxTime <- MCMaxTime
  MaxRuns <- MCMaxRuns
  Runs <- MCRuns
  Editions <- MCEditions
INVARIANTS
  UnavailableWentUnanswered
