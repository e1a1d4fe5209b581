CONSTANTS
  Confs <- SegmentConfs
  min_bs = 4
  Sector = 2
  NBlocks = 2
  MaxWrites = 3
  MaxFaults = 2
SPECIFICATION Spec
INVARIANTS DamageSeen
CHECK_DEADLOCK FALSE
