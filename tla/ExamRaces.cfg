SPECIFICATION Spec
CONSTANTS
  a1 = a1
  a2 = a2
  d1 = d1
  Admins = {a1, a2}
  Devices = {d1}
  OneAtATime = FALSE
  MaxCommands = 2
  MaxPrepares = 2
  MaxVersions = 2
  MaxFailures = 1
  MaxRepeats = 1
  MaxRestarts = 1
  MayLapse = TRUE
  MaxMishaps = 1
VIEW NoVersionsNamed
INVARIANT TypeOK
INVARIANT ReadyIsPrepared
