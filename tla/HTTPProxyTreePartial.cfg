SPECIFICATION Spec
CONSTANTS
  Proxies <- ChainProxies
  Specs <- ChainSpecs
  Statuses <- MCStatuses
  Hosts <- MCHosts
  Backends <- MCBackends
  Lower <- MCLower
  Others <- MCOthers
  DefaultNS = "a"
  Absent = Absent
  Broken = Broken
  MaxChanges = 0
INVARIANTS
  TreeIsFull
