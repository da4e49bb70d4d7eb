SPECIFICATION Spec
CONSTANTS
  Envoys = {1, 2}
  Contours = {}
  Configs = {1, 2}
  ConfigName <- MCConfigName
  Labels <- MCLabels
  Asked <- MCAsked
  DefaultClass <- Private
  Settings <- MCSettings
  DefaultPort = DefaultPort
  OverridePort = OverridePort
  MaxChanges = 1
INVARIANTS
  TypeOK
  EnvoyResolvedAsDocumented
  DiscoveryAgrees
  EnvoyFailsForPodsOnly
PROPERTIES
  OwnConfigWins
