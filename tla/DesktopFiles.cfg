SPECIFICATION FilesSpec
CONSTANTS
  p = p
  Policies = {p}
  Own = Own
  None = None
  MaxSaves = 2
  MaxJobs = 2
  MaxMeddling = 2
  Torn = Torn
  MaxChanges = 3
  MaxFailures = 1
  MaxCrashes = 1
  c1 = c1
  c2 = c2
  c3 = c3
  Callers = {c1, c2, c3}
  TornFile = TornFile
  MaxRevision = 4
  MaxMishaps = 2
  MaxEnrollments = 2
  MaxFaults = 1
  MaxTouches = 1
  n1 = n1
  n2 = n2
  Servers = {n1, n2}
  DefaultServer = n1
  OldServer = n2
  ShortDays = {1}
  Absent = Absent
  MaxDay = 2
  MaxSyncs = 2
  MaxSettings = 1
INVARIANT FilesTypeOK
INVARIANT SettingsAreKept
INVARIANT CredentialIsKept
INVARIANT TimeIsKept
PROPERTY ManagedIsKept
PROPERTY EverythingSettles
PROPERTY KeepsItsPromise
CHECK_DEADLOCK FALSE
