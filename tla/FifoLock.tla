------------------------------ MODULE FifoLock ------------------------------
(***************************************************************************)
(* What Lock<T> and Guard<T> (includes/atomic.h) promise their callers: a  *)
(* lock that is granted to one actor at a time, in the order in which the  *)
(* actors asked for it.                                                    *)
(*                                                                         *)
(* The order is kept as, for every actor, the set of the actors it still   *)
(* has to wait for.  There are no tickets here: TicketLock implements this *)
(* specification with two wrapping counters.                               *)
(***************************************************************************)
CONSTANT Actors    \* the contexts that call lock()

VARIABLES phase,   \* phase[a] \in {"idle", "spin", "held"}
          ahead    \* ahead[a]: the actors that asked before a and are not done

vars == <<phase, ahead>>

\* The actors that have asked for the lock and not given it back.
Asked == {a \in Actors : phase[a] # "idle"}

TypeOK == /\ phase \in [Actors -> {"idle", "spin", "held"}]
          /\ ahead \in [Actors -> SUBSET Actors]

Init == /\ phase = [a \in Actors |-> "idle"]
        /\ ahead = [a \in Actors |-> {}]

\* a calls lock(): everybody who has asked before it goes first.
Ask(a) == /\ phase[a] = "idle"
          /\ phase' = [phase EXCEPT ![a] = "spin"]
          /\ ahead' = [ahead EXCEPT ![a] = Asked]

\* lock() returns a Guard to a.
Grant(a) == /\ phase[a] = "spin"
            /\ ahead[a] = {}
            /\ phase' = [phase EXCEPT ![a] = "held"]
            /\ UNCHANGED ahead

\* The Guard of a is destroyed.
GiveBack(a) == /\ phase[a] = "held"
               /\ phase' = [phase EXCEPT ![a] = "idle"]
               /\ ahead' = [b \in Actors |-> ahead[b] \ {a}]

Next == \E a \in Actors : Ask(a) \/ Grant(a) \/ GiveBack(a)

Spec == Init /\ [][Next]_vars
=============================================================================
