------------------------------- MODULE Turns --------------------------------
(***************************************************************************)
(* What the stack_wait byte at 0x7e00 is for: the cores come up one after  *)
(* the other.  A core that was started waits for its turn, has the machine *)
(* to itself from bootloader.s:23 to init.cc:92, and does not come back.   *)
(* Boot implements this specification with a byte in shared memory.        *)
(***************************************************************************)
CONSTANTS Cores,
          First    \* the core that the firmware starts

VARIABLE turn    \* turn[c] \in {"off", "ready", "running", "done"}

Init == turn = [c \in Cores |-> IF c = First THEN "ready" ELSE "off"]

Start(c) == /\ turn[c] = "off"
            /\ turn' = [turn EXCEPT ![c] = "ready"]

Begin(c) == /\ turn[c] = "ready"
            /\ \A d \in Cores : turn[d] # "running"
            /\ turn' = [turn EXCEPT ![c] = "running"]

End(c) == /\ turn[c] = "running"
          /\ turn' = [turn EXCEPT ![c] = "done"]

Next == \E c \in Cores : Start(c) \/ Begin(c) \/ End(c)

Spec == Init /\ [][Next]_turn
=============================================================================
