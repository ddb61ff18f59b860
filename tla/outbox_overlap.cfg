\* Overlapping drains, deadlocks and the operator's commands.
SPECIFICATION Spec
CONSTANTS
  Rows = {r1, r2}
  Poison = {r2}
  Foreign = {}
  Drains = {d1, d2}
  None = None
  MaxAttempts = 2
  BatchLimit = 2
  LockTtl = 1
  DrainTime = 1
  MaxLost = 1
  MaxCommands = 1
SYMMETRY DrainSymmetry
INVARIANTS
  SentWasMailed
  DeadletterEarned
  DrainsKeepApart
CHECK_DEADLOCK FALSE
