SPECIFICATION FairSpec
CONSTANTS
  Calls = {c1, c2}
  Pods = {podA, podB}
  LocalPorts = {p1, p2}
  HasBaseURL = FALSE
  DirectURL = DirectURL
  DefaultURL = DefaultURL
  NoTarget = NoTarget
  Nobody = Nobody
  Unanswered = Unanswered
  Failed = Failed
INVARIANTS
  TypeOK
  StopClosedOnce
  ReleasedOnReturn
  MisdirectedOnlyAfterLoss
  NotStoppedInUse
  NoLostWakeup
PROPERTIES
  BoundedWork
  ImplementsLease
  CallReturns
  GoroutineExits
