SPECIFICATION ScanSpec
CONSTANTS
  None = None
  Spelling <- MCSpelling
  Fragments <- MCFragments
  Keyed <- MCKeyed
  Inputs <- MCAllInputs
  Later <- MCAllLater
  Filters <- MCFilters
  OutputFormats <- MCFormats
  ClassifierTable <- MCTable
  HostedProjects <- MCHosted
  CpeTable <- MCCpeTable
  Upstream <- MCUpstream
  Options <- MCOptions
  Hidden <- MCHidden
  Tree <- MCTree
  Arguments <- MCArguments
INVARIANTS
  DocumentsGoApart
  UvIsReadExactly
  NeededIsRequired
  FilterIsExact
  DocumentsSurvive
  MergeKeepsGraphs
  NoChangeIsMissed
  MetadataIsOwn
  EveryLackIsSaid
  ExplainIsTrue
PROPERTIES
  ReadingEnds
CHECK_DEADLOCK FALSE
