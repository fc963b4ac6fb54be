\* Three cores, the other two started by launch_ap.  The PMU is the only source
\* of NMIs.  Six contexts share the lock, whose counters wrap.
SPECIFICATION FairSpec
CONSTANTS
  Cores = {0, 1, 2}
  Bsp = 0
  LaunchAps = TRUE
  Entries = 1
  Modulus = 6
  PmuLeft = {FALSE}
  Wrap = 2
  MaxNmi = 0
INVARIANTS StacksDisjoint MappingsStand PrintfLockSound NoByteIntoDivisor NoReset
PROPERTIES TakesTurns HaltedForGood EveryCoreHalts
CHECK_DEADLOCK FALSE
