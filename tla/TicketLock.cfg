\* Three actors and three tickets: the counters wrap after every third lock()
\* and all tickets can be out at once, the tightest case the assumption allows.
SPECIFICATION FairSpec
CONSTANTS
  Actors = {a1, a2, a3}
  Modulus = 3
INVARIANTS MutualExclusion TicketWindow
PROPERTIES ImplementsFifoLock EveryTicketServed
