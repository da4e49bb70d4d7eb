SPECIFICATION Spec
CONSTANTS
  Envoys = {1}
  Contours = {}
  Configs = {1, 2}
  ConfigName <- MCConfigName
  Labels <- MCLabels
  Asked <- MCAsked
  DefaultClass <- NoClass
  Settings <- MCSettings
  DefaultPort = DefaultPort
  OverridePort = OverridePort
  MaxChanges = 1
INVARIANTS
  NoPortOfAnotherClass
