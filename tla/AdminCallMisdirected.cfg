SPECIFICATION Spec
CONSTANTS
  Calls = {c1, c2}
  Pods = {podA, podB}
  LocalPorts = {p1}
  HasBaseURL = FALSE
  DirectURL = DirectURL
  DefaultURL = DefaultURL
  NoTarget = NoTarget
  Nobody = Nobody
  Unanswered = Unanswered
  Failed = Failed
SYMMETRY Symmetry
INVARIANTS
  AnsweredByOwnPod
