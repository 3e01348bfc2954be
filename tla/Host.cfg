\* Two starts of the executable, one client's update requests, a crash.
SPECIFICATION Spec
CONSTANTS
  Hosts = {h1, h2}
  Requests = {r1, r2}
  MaxCalls = 3
  MaxRuns = 1
  MaxCrashes = 1
  MaxRelease = 2
CHECK_DEADLOCK FALSE
INVARIANTS
  AppliedWasDownloaded
PROPERTIES
  KeptAlive
  HostsEnd
