----------------------------- MODULE TicketLock -----------------------------
(***************************************************************************)
(* The ticket spin lock of includes/atomic.h: class Lock<T>, whose lock()  *)
(* takes a ticket from one counter and spins until the other counter       *)
(* reaches it, and Guard<T>, whose destructor advances the other counter.  *)
(* Both counters are std::atomic_uint: they wrap.  printf.cc guards        *)
(* _vsnprintf with an instance of it.                                      *)
(***************************************************************************)
EXTENDS Integers, FiniteSets

CONSTANTS Actors,    \* the contexts that call lock(): a core's main flow of
                     \* control, or an interrupt handler running on a core
          Modulus    \* the number of values of an unsigned int, 2^32 in the build

\* No more actors than tickets: the code supports at most MAX_CPUS = 18 cores.
ASSUME ActorsAssumption ==
  IsFiniteSet(Actors) /\ Modulus \in Nat \ {0} /\ Cardinality(Actors) <= Modulus

VARIABLES acquire,   \* Lock::acquire, the next ticket to hand out
          release,   \* Lock::release, the ticket being served
          ticket,    \* the local variable ticket of each actor's lock() call
          pc         \* "idle", "spin" (in the while loop) or "held" (has a Guard)

vars == <<acquire, release, ticket, pc>>

Value == 0 .. Modulus - 1

\* fetch_add(1) on an atomic_uint.
Inc(x) == (x + 1) % Modulus

\* The actors that have taken a ticket and not been released.
Outstanding == {a \in Actors : pc[a] # "idle"}

\* How many releases until a's ticket is served.
Distance(a) == (ticket[a] - release) % Modulus

-----------------------------------------------------------------------------
Init == /\ acquire = 0
        /\ release = 0
        /\ ticket = [a \in Actors |-> 0]
        /\ pc = [a \in Actors |-> "idle"]

\* The constructor of Lock<T>.  It is no step of the lock's users; start_kernel
\* runs it again on every core (see Boot).
Construct == /\ acquire' = 0
             /\ release' = 0
             /\ UNCHANGED <<ticket, pc>>

\* lock(), first half: auto ticket = acquire.fetch_add(1).
TakeTicket(a) == /\ pc[a] = "idle"
                 /\ ticket' = [ticket EXCEPT ![a] = acquire]
                 /\ acquire' = Inc(acquire)
                 /\ pc' = [pc EXCEPT ![a] = "spin"]
                 /\ UNCHANGED release

\* Mutant: the counters are compared as if they never wrapped.
EnterOrdered(a) == /\ pc[a] = "spin"
                   /\ release >= ticket[a]
                   /\ pc' = [pc EXCEPT ![a] = "held"]
                   /\ UNCHANGED <<acquire, release, ticket>>

\* Mutant: whoever finds the lock free takes it.
EnterUnordered(a) == /\ pc[a] = "spin"
                     /\ \A b \in Actors : pc[b] # "held"
                     /\ pc' = [pc EXCEPT ![a] = "held"]
                     /\ UNCHANGED <<acquire, release, ticket>>

\* lock(), second half: release.load() equals the ticket, lock() returns a
\* Guard.  An iteration of the loop that finds another value changes nothing.
Enter(a) == /\ pc[a] = "spin"
            /\ release = ticket[a]
            /\ pc' = [pc EXCEPT ![a] = "held"]
            /\ UNCHANGED <<acquire, release, ticket>>

\* Mutant: the Guard is left without its destructor.
LeakGuard(a) == /\ pc[a] = "held"
                /\ pc' = [pc EXCEPT ![a] = "idle"]
                /\ UNCHANGED <<acquire, release, ticket>>

\* Mutant: a moved-from Guard keeps its cell and releases a second time.
ReleaseTwice(a) == /\ pc[a] = "held"
                   /\ release' = Inc(Inc(release))
                   /\ pc' = [pc EXCEPT ![a] = "idle"]
                   /\ UNCHANGED <<acquire, ticket>>

\* ~Guard(): release.fetch_add(1).
Release(a) == /\ pc[a] = "held"
              /\ release' = Inc(release)
              /\ pc' = [pc EXCEPT ![a] = "idle"]
              /\ UNCHANGED <<acquire, ticket>>

Next == \E a \in Actors : TakeTicket(a) \/ Enter(a) \/ Release(a)

\* A spinning core keeps reading release, and _vsnprintf, the only code that
\* runs under the lock, returns.
Fairness == \A a \in Actors : WF_vars(Enter(a)) /\ WF_vars(Release(a))

Spec == Init /\ [][Next]_vars

FairSpec == Spec /\ Fairness

-----------------------------------------------------------------------------
\* The counters stay in the range of an unsigned int, each actor is at one of
\* the three points of lock() and ~Guard().
TypeOK == /\ acquire \in Value
          /\ release \in Value
          /\ ticket \in [Actors -> Value]
          /\ pc \in [Actors -> {"idle", "spin", "held"}]

\* Two actors never hold a Guard of the same lock (atomic.h:36-44), also after
\* the counters have wrapped.
MutualExclusion ==
  \A a, b \in Actors : pc[a] = "held" /\ pc[b] = "held" => a = b

\* The tickets that are out are the ones from release up to acquire, each in one
\* hand, and a holder's ticket is the one being served.
TicketWindow ==
  /\ acquire = (release + Cardinality(Outstanding)) % Modulus
  /\ \A a \in Outstanding : Distance(a) < Cardinality(Outstanding)
  /\ \A a, b \in Outstanding : ticket[a] = ticket[b] => a = b
  /\ \A a \in Actors : pc[a] = "held" => ticket[a] = release

\* The tickets are an implementation of "first come, first served".
Ahead(a) == IF pc[a] = "idle" THEN {}
            ELSE {b \in Outstanding : Distance(b) < Distance(a)}

Fifo == INSTANCE FifoLock WITH phase <- pc, ahead <- [a \in Actors |-> Ahead(a)]

\* lock() and ~Guard() grant the lock to one actor at a time and in the order of
\* the fetch_adds on acquire: no caller is overtaken.
ImplementsFifoLock == Fifo!Spec

\* Whoever has taken a ticket gets the lock: the loop of lock() ends.
EveryTicketServed == \A a \in Actors : pc[a] = "spin" ~> pc[a] = "held"
=============================================================================
