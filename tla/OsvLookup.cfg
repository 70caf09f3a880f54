SPECIFICATION Spec
CONSTANTS
  requests = requests
  urllib3 = urllib3
  six = six
  ghsa = ghsa
  pysec = pysec
  None = None
  PurlOrder <- MCPurls
  Advisories <- MCAdvisories
  CacheName <- MCNames
  PageSize = 1
  BatchSize = 2
  MaxAge = 1
  Unstamped <- MCOne
  MaxTime = 1
  Unmodified <- MCOne
INVARIANTS
  AdvisoriesAreExact
  RecordIsRecent
PROPERTY
  LookupEnds
