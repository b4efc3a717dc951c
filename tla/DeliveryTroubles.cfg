SPECIFICATION Spec
CONSTANTS
  Commands = {1}
  Unvalidated = {1}
  SkillSets = {{1},{}}
  ClockSkew = TRUE
  MaxConn = 2
  Expiring = {1}
  MaxMishaps = 1
CONSTRAINT LapseOrMishap
INVARIANT TypeOK
INVARIANT ForgottenOnlyWhenSettled
INVARIANT ReportsHonest
PROPERTY ImplementsOutcome
PROPERTY ProgressNeverRegresses
CHECK_DEADLOCK FALSE
