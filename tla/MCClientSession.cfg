CONSTANTS
  Containers = {c1}
  Never = Never
  Timeouts = {1}
  StatusInterval = 2
  Ttl = 1
  Short = 0
  MaxBackoff = 1
SPECIFICATION FairSpec
PROPERTIES
  ShutdownEnds
  OrphansStopped
  TimeoutIsSilence
  SilenceNoticed
CHECK_DEADLOCK FALSE
