SPECIFICATION Spec
CONSTANTS
  p1 = p1
  p2 = p2
  metadata = metadata
  license = license
  sbom = sbom
  Absent = Absent
  Procs <- MCProcs
  Writers <- MCOne
  Allowed <- MCDefault
  Layouts <- MCBoth
  Members <- MCMembers
  Marker <- metadata
  Sbom <- sbom
INVARIANTS
  PublishedIsComplete
  NoCacheAnswerIsComplete
PROPERTIES
  ImplementsStore
  NoCacheLeavesTheCache
