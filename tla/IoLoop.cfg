CONSTANTS
  IoUs = {1, 2, 3}
  NoIoU = 0
  BufLen = 2
  MaxFaults = 1
  MAXASYNCHIO = 2
  NumIOs = 4
  NumSyncs = 1
  Configs <- PassConfigs
SPECIFICATION Spec
INVARIANTS QueueExact BytesTrue
PROPERTIES Implements Ends
