SPECIFICATION Spec
CONSTANTS
  l1 = l1
  l2 = l2
  None = None
  Torn = Torn
  Bad = Bad
  Loaders <- MCLoaders
  Services <- MCServices
  MaxAge = 0
  WriteLag = 1
  MaxTime = 2
SYMMETRY MCSymmetry
INVARIANTS
  TypeOK
  NoSilentStaleness
