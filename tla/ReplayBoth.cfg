SPECIFICATION Spec
CONSTANTS
  Names <- Two
  Offsets = {0, 1}
  MaxLines = 5
  Confs <- BothConfs
INVARIANTS ReplaysLog
CHECK_DEADLOCK FALSE
