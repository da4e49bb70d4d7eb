SPECIFICATION FairSpec
CONSTANTS
  Calls = {c1, c2}
  Options <- MCOptions
  Pods = {podA, podB}
  DirectURL = DirectURL
  DefaultURL = DefaultURL
  NoTarget = NoTarget
  Unanswered = Unanswered
  Failed = Failed
  Requests <- MCRequests
INVARIANTS
  TypeOK
  GracefulHTTP
  ExitStatusTells
  SuccessIsEnvoys
  TunnelsServeRequests
PROPERTIES
  ImplementsService
  SignalEndsProcess
  ShutdownWaitsForReaders
