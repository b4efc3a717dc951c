SPECIFICATION Spec
CONSTANTS
  a1 = a1
  d1 = d1
  Admins = {a1}
  Devices = {d1}
  OneAtATime = TRUE
  MaxCommands = 4
  MaxPrepares = 2
  MaxVersions = 1
  MaxFailures = 0
  MaxRepeats = 0
  MaxRestarts = 0
  MayLapse = FALSE
  MaxMishaps = 0
INVARIANT NeverReactivated
