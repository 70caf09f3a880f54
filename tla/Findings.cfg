SPECIFICATION Spec
CONSTANTS
  None = None
  Spelling <- MCSpelling
  CpeTable <- MCCpeTable
  Misspelt = Misspelt
  Jobs <- MCJobs
INVARIANTS
  DuplicatesAreOne
  GateIsExact
  PolicyIsExact
  EveryReportAgrees
CHECK_DEADLOCK FALSE
