SPECIFICATION Spec
CONSTANTS
  Calls = {c1}
  Options <- MCOptions
  Pods = {podA}
  DirectURL = DirectURL
  DefaultURL = DefaultURL
  NoTarget = NoTarget
  Unanswered = Unanswered
  Failed = Failed
  Requests <- MCReady
INVARIANTS
  GracefulShutdown
