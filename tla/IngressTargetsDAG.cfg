SPECIFICATION Spec
CONSTANTS
  Envoys = {}
  Contours = {1, 2}
  Configs = {1, 2}
  ConfigName <- MCConfigName
  Labels <- MCLabels
  Asked <- MCAsked
  DefaultClass <- NoClass
  Settings <- MCSettings
  DefaultPort = DefaultPort
  OverridePort = OverridePort
  MaxChanges = 1
PROPERTIES
  DAGResolvedAsDocumented
