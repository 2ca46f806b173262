SPECIFICATION Spec
CONSTANTS
  CPUs = {1, 2}
  NPROC = 3
  Sleepers = {"sh", "child"}
  MaxSleep = 1
INVARIANTS
  LocksCounted
  OneStackOneCpu
  NoLostWakeup
