SPECIFICATION Spec
CONSTANTS
  a1 = a1
  d1 = d1
  d2 = d2
  Admins = {a1}
  Devices = {d1, d2}
  OneAtATime = TRUE
  MaxCommands = 3
  MaxPrepares = 2
  MaxVersions = 2
  MaxFailures = 0
  MaxRepeats = 0
  MaxRestarts = 0
  MayLapse = FALSE
  MaxMishaps = 0
SYMMETRY DeviceSymmetry
VIEW NoVersionsNamed
INVARIANT PlaysOnlyPrepared
INVARIANT ReadyIsRenewed
PROPERTY CompletedOnlyAfterExit
