SPECIFICATION ScenarioSpec
CONSTANTS
  a1 = a1
  d1 = d1
  d2 = d2
  Admins = {a1}
  Devices = {d1, d2}
  OneAtATime = FALSE
  MaxCommands = 2
  MaxPrepares = 1
  MaxVersions = 1
  MaxFailures = 1
  MaxRepeats = 1
  MaxRestarts = 0
  MayLapse = TRUE
  MaxMishaps = 4
PROPERTY PreparationEnds
PROPERTY ExitCompletes
