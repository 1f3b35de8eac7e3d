CONSTANTS
  Scripts = {"example"}
  MaxLines = 2
  BufCap = 1
SPECIFICATION Spec
INVARIANT ErrorFailsScript
CHECK_DEADLOCK FALSE
