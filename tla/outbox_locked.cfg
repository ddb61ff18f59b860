\* Drains that end within the lock's lifetime; one row always fails, one is of
\* another channel.
SPECIFICATION FairSpec
CONSTANTS
  Rows = {r1, r2, r3}
  Poison = {r3}
  Foreign = {r2}
  Drains = {d1, d2}
  None = None
  MaxAttempts = 2
  BatchLimit = 2
  LockTtl = 2
  DrainTime = 1
  MaxLost = 1
  MaxCommands = 0
PROPERTIES
  ImplementsMailbox
  EveryRowSettles
CHECK_DEADLOCK FALSE
