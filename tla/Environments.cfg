SPECIFICATION Spec
CONSTANTS
  None = None
  Spelling <- MCSpelling
  Cran <- MCCran
  Stdlib <- MCStdlib
  Skipped <- MCSkipped
  Unspeakable <- MCUnspeakable
  Importable <- MCImportable
  Pieces <- MCPieces
  Keyed <- MCSpelling
  Jobs <- MCJobs
INVARIANTS
  ReleasesAreListed
  ComponentsHangTogether
  DocumentNamesNoPlace
  UsageIsExact
  PythonIsExact
  ListingsAreWhole
CHECK_DEADLOCK FALSE
