\* Two processes, started twice each, over a new or an old database.
SPECIFICATION Spec
CONSTANTS
  Process = {1, 2}
  MaxLife = 2
CHECK_DEADLOCK FALSE
INVARIANTS MigratedOrUntouched
