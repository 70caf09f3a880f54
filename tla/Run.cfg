SPECIFICATION Spec
CONSTANTS
  i1 = i1
  i2 = i2
  Missing = Missing
  Running = Running
  Killed = Killed
  Lines <- MCLines
  MaxTargets = 2
  Inputs <- MCInputs
  MaxTexts = 2
  TextBudget = 1
  LateErrors = {TRUE, FALSE}
INVARIANTS
  TypeOK
  ExitNamesTheGates
  ArtifactIsLeft
  IncompleteIsSaid
