SPECIFICATION FairSpec
CONSTANTS
  Commands = {1}
  Unvalidated = {1}
  SkillSets = {{1}}
  ClockSkew = FALSE
  MaxConn = 2
  Expiring = {}
  MaxMishaps = 0
PROPERTY EventuallySettled
CHECK_DEADLOCK FALSE
