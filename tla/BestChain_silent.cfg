SPECIFICATION Spec
CONSTANTS
  Block = {0, 1, 2, 3}
  Genesis = 0
  Works = {1}
  Verdicts = {"ok", "silent"}
  ReadErrors = FALSE
  MaxFaults = 0
INVARIANT FalseOnlyOnSystemError
