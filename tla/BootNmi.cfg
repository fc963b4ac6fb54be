\* Two cores, the second started by launch_ap, with NMIs from any source at any
\* point and with performance counters as the firmware may leave them.
SPECIFICATION FairSpec
CONSTANTS
  Cores = {0, 1}
  Bsp = 0
  LaunchAps = TRUE
  Entries = 1
  Modulus = 4
  PmuLeft = {FALSE, TRUE}
  Wrap = 2
  MaxNmi = 1
INVARIANTS Measured PmiIsOverflow DivisorByWakeOnly
PROPERTIES SpoiltByWakeOnly OnlyNestingHangs
CHECK_DEADLOCK FALSE
