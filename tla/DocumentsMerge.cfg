SPECIFICATION ScanSpec
CONSTANTS
  None = None
  Spelling <- MCSpelling
  Fragments <- MCFragments
  Keyed <- MCKeyed
  Inputs <- MCInputs
  Later <- MCGood
  Filters <- MCFilters
  OutputFormats <- MCFormats
  ClassifierTable <- MCTable
  HostedProjects <- MCHosted
  CpeTable <- MCCpeTable
  Upstream <- MCUpstream
  Options <- MCOptions
  Hidden <- MCHidden
  Tree <- MCTree
  Arguments <- MCArguments
INVARIANTS
  InputsStayApart
CHECK_DEADLOCK FALSE
