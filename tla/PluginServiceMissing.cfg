SPECIFICATION HostSpec
CONSTANTS
  x1 = x1
  x2 = x2
  Plugins = {x1, x2}
  Needs <- MCNeeds
  Legacy = {x2}
  MaxTasks = 3
  MaxScans = 1
PROPERTY MissingBlocksLoad
CHECK_DEADLOCK FALSE
