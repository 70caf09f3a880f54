SPECIFICATION Spec
CHECK_DEADLOCK FALSE
CONSTANTS
  Unset = Unset
  Runs <- MCRuns
  Sharing <- MCBoth
  Configs <- MCConfigs
  Grants <- MCGrants
  MaxAttempts = 4
  FirstBackoff = 300
  MaxBackoff = 2400
  DefaultNetwork = 1
  SaneNetwork = 8
  Cores = 4
INVARIANTS
  NeverMoreThanConfigured
PROPERTY
  EveryDocumentIsFinished
