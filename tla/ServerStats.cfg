SPECIFICATION Spec
CONSTANTS
  Calls = {c1}
  Options <- MCStdio
  Pods = {podA}
  DirectURL = DirectURL
  DefaultURL = DefaultURL
  NoTarget = NoTarget
  Unanswered = Unanswered
  Failed = Failed
  Requests <- MCStats
INVARIANTS
  StatsAsAsked
