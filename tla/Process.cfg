SPECIFICATION FairSpec
CONSTANTS
  Calls = {c1, c2}
  Options <- MCOptions
  Requests <- MCRequests
  Pods = {podA}
  LocalPorts = {p1}
  HasBaseURL = TRUE
  DirectURL = DirectURL
  DefaultURL = DefaultURL
  NoTarget = NoTarget
  Nobody = Nobody
  Unanswered = Unanswered
  Failed = Failed
INVARIANT CleanExit
PROPERTIES
  ImplementsServer
  ShutdownWaitsForReaders
