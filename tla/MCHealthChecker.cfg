SPECIFICATION FairSpec
CONSTANTS
  n1 = n1
  n2 = n2
  n3 = n3
  e1 = e1
  e2 = e2
  None = None
  Nodes = {n1, n2, n3}
  Configured <- MCConfigured
  Endpoints = {e1, e2}
  Endpoint <- MCEndpoint
  Heights = {0, 2}
  MaxLag = 1
  Probed = {n1}
  MaxRemoved = 1
INVARIANTS
  ReplacedNeverMissing
PROPERTIES
  CaughtUpSpared
  LaggardPaused
  Resumes
  RoundEnds
