\* The system as it is built and one NMI: is printf reentrant?
SPECIFICATION FairSpec
CONSTANTS
  Cores = {0}
  Bsp = 0
  LaunchAps = FALSE
  Entries = 0
  Modulus = 2
  PmuLeft = {FALSE}
  Wrap = 2
  MaxNmi = 1
PROPERTIES PrintfReturns
CHECK_DEADLOCK FALSE
