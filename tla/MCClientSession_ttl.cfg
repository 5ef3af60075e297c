CONSTANTS
  Containers = {c1}
  Never = Never
  Timeouts = {1, 3}
  StatusInterval = 2
  Ttl = 1
  Short = 1
  MaxBackoff = 2
SPECIFICATION Spec
PROPERTIES
  WarmForTtl
CHECK_DEADLOCK FALSE
