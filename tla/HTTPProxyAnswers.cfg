SPECIFICATION Spec
CONSTANTS
  Proxies <- MCProxies
  Specs <- MCSpecs
  Statuses <- MCStatuses
  Hosts <- MCHosts
  Backends <- MCBackends
  Lower <- MCLower
  Others <- MCOthers
  DefaultNS = "a"
  Absent = Absent
  Broken = Broken
  MaxChanges = 1
INVARIANTS
  TypeOK
  StatusOfThisCall
  TreeShowsIncludes
  FQDNSearchExact
  BackendSearchComplete
