-------------------------- MODULE TicketLockProofs --------------------------
(***************************************************************************)
(* The ticket lock is a FIFO mutual-exclusion lock for every finite set of *)
(* actors and every width of its counters that is not exceeded by the      *)
(* number of actors.  The inductive invariant is IInv: the tickets that    *)
(* are out form the cyclic interval from release to acquire.  Mutual       *)
(* exclusion alone is not inductive: that a new ticket differs from all    *)
(* the ones that are out rests on how many of them there are.              *)
(***************************************************************************)
EXTENDS TicketLock, FiniteSetTheorems, TLAPS

IInv == TypeOK /\ TicketWindow

-----------------------------------------------------------------------------
(* Arithmetic of the wrapping counters.                                    *)

\* fetch_add on an unsigned int steps to the next value and from the last to 0.
LEMMA IncValue ==
  ASSUME NEW x \in Value
  PROVE  /\ Inc(x) \in Value
         /\ Inc(x) = IF x + 1 = Modulus THEN 0 ELSE x + 1
  BY ActorsAssumption, SMT DEF Value, Inc

\* The distance between two counter values, without the remainder.
LEMMA SubValue ==
  ASSUME NEW x \in Value, NEW y \in Value
  PROVE  /\ (x - y) % Modulus \in Value
         /\ (x - y) % Modulus = IF x >= y THEN x - y ELSE x - y + Modulus
  BY ActorsAssumption, SMT DEF Value

\* Moving a counter by less than a full turn, without the remainder.
LEMMA AddValue ==
  ASSUME NEW x \in Value, NEW n \in 0 .. Modulus
  PROVE  /\ (x + n) % Modulus \in Value
         /\ (x + n) % Modulus = IF x + n < Modulus THEN x + n ELSE x + n - Modulus
  BY ActorsAssumption, SMT DEF Value

-----------------------------------------------------------------------------
(* How many tickets are out.                                               *)

\* The number of tickets that are out is a number, at most that of the actors.
LEMMA OutstandingFinite ==
  /\ IsFiniteSet(Outstanding)
  /\ Cardinality(Outstanding) \in 0 .. Modulus
  <1>1. Outstanding \subseteq Actors
    BY DEF Outstanding
  <1>2. /\ IsFiniteSet(Outstanding)
        /\ Cardinality(Outstanding) <= Cardinality(Actors)
    BY <1>1, ActorsAssumption, FS_Subset
  <1>3. Cardinality(Outstanding) \in Nat /\ Cardinality(Actors) \in Nat
    BY <1>2, ActorsAssumption, FS_CardinalityType
  <1> QED
    BY <1>2, <1>3, ActorsAssumption

\* As long as some actor has no ticket there is a free one.
LEMMA TicketLeft ==
  ASSUME NEW a \in Actors, pc[a] = "idle"
  PROVE  Cardinality(Outstanding) < Modulus
  <1>1. Outstanding \subseteq Actors \ {a}
    BY DEF Outstanding
  <1>2. /\ IsFiniteSet(Actors \ {a})
        /\ Cardinality(Actors \ {a}) = Cardinality(Actors) - 1
    BY ActorsAssumption, FS_RemoveElement
  <1>3. Cardinality(Outstanding) <= Cardinality(Actors \ {a})
    BY <1>1, <1>2, FS_Subset
  <1>4. Cardinality(Outstanding) \in Nat /\ Cardinality(Actors) \in Nat
    BY OutstandingFinite, ActorsAssumption, FS_CardinalityType
  <1> QED
    BY <1>2, <1>3, <1>4, ActorsAssumption

-----------------------------------------------------------------------------
(* The three steps preserve the invariant.                                 *)

\* lock() hands out a ticket that nobody has.
LEMMA TakeTicketPreserves ==
  ASSUME IInv, NEW a \in Actors, TakeTicket(a)
  PROVE  /\ IInv'
         /\ Outstanding' = Outstanding \cup {a}
         /\ Distance(a)' = Cardinality(Outstanding)
         /\ \A b \in Outstanding : Distance(b)' = Distance(b)
  <1> DEFINE n == Cardinality(Outstanding)
  <1>1. TypeOK
    BY DEF IInv
  <1>2. /\ acquire \in Value /\ release \in Value /\ ticket \in [Actors -> Value]
        /\ pc \in [Actors -> {"idle", "spin", "held"}]
    BY <1>1 DEF TypeOK
  <1>3. /\ pc[a] = "idle" /\ ticket' = [ticket EXCEPT ![a] = acquire]
        /\ acquire' = Inc(acquire) /\ pc' = [pc EXCEPT ![a] = "spin"]
        /\ release' = release
    BY DEF TakeTicket
  <1>4. Outstanding' = Outstanding \cup {a} /\ a \notin Outstanding
    BY <1>2, <1>3 DEF Outstanding
  <1>5. n \in 0 .. Modulus - 1 /\ IsFiniteSet(Outstanding)
    BY <1>3, TicketLeft, OutstandingFinite, ActorsAssumption
  <1>6. Cardinality(Outstanding') = n + 1
    BY <1>4, <1>5, FS_AddElement DEF n
  <1>7. acquire = (release + n) % Modulus
    BY DEF IInv, TicketWindow
  <1> HIDE DEF n
  <1>8. acquire = IF release + n < Modulus THEN release + n ELSE release + n - Modulus
    BY <1>2, <1>5, <1>7, AddValue, ActorsAssumption DEF Value
  <1>9. (acquire - release) % Modulus = n
    <2>1. (acquire - release) % Modulus =
            IF acquire >= release THEN acquire - release ELSE acquire - release + Modulus
      BY <1>2, SubValue
    <2> QED
      BY <2>1, <1>8, <1>2, <1>5, ActorsAssumption DEF Value
  <1>10. Distance(a)' = n
    BY <1>2, <1>3, <1>9 DEF Distance
  <1>11. \A b \in Outstanding : ticket'[b] = ticket[b] /\ Distance(b)' = Distance(b)
    BY <1>2, <1>3, <1>4 DEF Distance, Outstanding
  <1>12. \A b \in Outstanding : Distance(b) < n
    BY DEF IInv, TicketWindow, n
  <1>13. TypeOK'
    BY <1>2, <1>3, IncValue DEF TypeOK
  <1>14. acquire' = (release' + Cardinality(Outstanding')) % Modulus
    <2>2. n + 1 \in 0 .. Modulus
      BY <1>5, ActorsAssumption
    <2>3. (release + (n + 1)) % Modulus =
            IF release + (n + 1) < Modulus THEN release + (n + 1)
                                           ELSE release + (n + 1) - Modulus
      BY <1>2, <2>2, AddValue
    <2>4. Inc(acquire) = IF acquire + 1 = Modulus THEN 0 ELSE acquire + 1
      BY <1>2, IncValue
    <2>5. Inc(acquire) = (release + (n + 1)) % Modulus
      BY <1>8, <2>3, <2>4, <1>2, <1>5, ActorsAssumption DEF Value
    <2> QED
      BY <2>5, <1>3, <1>6
  <1>15. \A b \in Outstanding' : Distance(b)' < Cardinality(Outstanding')
    <2>1. \A b \in Outstanding : Distance(b) \in Nat
      BY <1>2, SubValue, ActorsAssumption DEF Distance, Outstanding, Value
    <2> QED
      BY <2>1, <1>4, <1>5, <1>6, <1>10, <1>11, <1>12
  <1>16. \A b \in Outstanding : ticket[b] # acquire
    BY <1>9, <1>12, <1>5 DEF Distance
  <1>17. \A b, c \in Outstanding' : ticket'[b] = ticket'[c] => b = c
    <2>1. ticket'[a] = acquire
      BY <1>2, <1>3
    <2>2. \A b, c \in Outstanding : ticket[b] = ticket[c] => b = c
      BY DEF IInv, TicketWindow
    <2> QED
      BY <2>1, <2>2, <1>4, <1>11, <1>16
  <1>18. \A b \in Actors : pc'[b] = "held" => ticket'[b] = release'
    BY <1>2, <1>3 DEF IInv, TicketWindow
  <1> QED
    BY <1>4, <1>10, <1>11, <1>13, <1>14, <1>15, <1>17, <1>18 DEF IInv, TicketWindow, n

\* lock() returning changes nobody's ticket and nobody's distance.
LEMMA EnterPreserves ==
  ASSUME IInv, NEW a \in Actors, Enter(a)
  PROVE  /\ IInv'
         /\ Outstanding' = Outstanding
         /\ \A b \in Actors : Distance(b)' = Distance(b)
         /\ Distance(a) = 0
  <1>1. /\ acquire \in Value /\ release \in Value /\ ticket \in [Actors -> Value]
        /\ pc \in [Actors -> {"idle", "spin", "held"}]
    BY DEF IInv, TypeOK
  <1>2. /\ pc[a] = "spin" /\ release = ticket[a]
        /\ pc' = [pc EXCEPT ![a] = "held"]
        /\ acquire' = acquire /\ release' = release /\ ticket' = ticket
    BY DEF Enter
  <1>3. Outstanding' = Outstanding
    BY <1>1, <1>2 DEF Outstanding
  <1>4. \A b \in Actors : Distance(b)' = Distance(b)
    BY <1>2 DEF Distance
  <1>5. Distance(a) = 0
    BY <1>1, <1>2, SubValue DEF Distance, Value
  <1>6. TypeOK'
    BY <1>1, <1>2 DEF TypeOK
  <1>7. \A b \in Actors : pc'[b] = "held" => ticket'[b] = release'
    BY <1>1, <1>2 DEF IInv, TicketWindow
  <1>8. TicketWindow'
    <2>1. \A b \in Outstanding' : Distance(b)' < Cardinality(Outstanding')
      BY <1>3, <1>4 DEF IInv, TicketWindow, Outstanding
    <2>2. /\ acquire' = (release' + Cardinality(Outstanding')) % Modulus
          /\ \A b, c \in Outstanding' : ticket'[b] = ticket'[c] => b = c
      BY <1>2, <1>3 DEF IInv, TicketWindow
    <2> QED
      BY <2>1, <2>2, <1>7 DEF TicketWindow
  <1> QED
    BY <1>3, <1>4, <1>5, <1>6, <1>8 DEF IInv

\* ~Guard() brings every other ticket that is out one step nearer.
LEMMA ReleasePreserves ==
  ASSUME IInv, NEW a \in Actors, Release(a)
  PROVE  /\ IInv'
         /\ Outstanding' = Outstanding \ {a}
         /\ Distance(a) = 0
         /\ \A b \in Outstanding' : Distance(b) \in Nat /\ Distance(b)' = Distance(b) - 1
  <1> DEFINE n == Cardinality(Outstanding)
  <1>1. /\ acquire \in Value /\ release \in Value /\ ticket \in [Actors -> Value]
        /\ pc \in [Actors -> {"idle", "spin", "held"}]
    BY DEF IInv, TypeOK
  <1>2. /\ pc[a] = "held" /\ pc' = [pc EXCEPT ![a] = "idle"]
        /\ acquire' = acquire /\ release' = Inc(release) /\ ticket' = ticket
    BY DEF Release
  <1>3. Outstanding' = Outstanding \ {a} /\ a \in Outstanding
    BY <1>1, <1>2 DEF Outstanding
  <1>4. n \in 0 .. Modulus /\ IsFiniteSet(Outstanding)
    BY OutstandingFinite
  <1>5. Cardinality(Outstanding') = n - 1
    BY <1>3, <1>4, FS_RemoveElement
  <1>6. n - 1 \in 0 .. Modulus
    <2>1. Cardinality(Outstanding') \in Nat
      BY <1>3, <1>4, FS_RemoveElement, FS_CardinalityType
    <2> QED
      BY <2>1, <1>4, <1>5, ActorsAssumption
  <1>7. /\ acquire = (release + n) % Modulus
        /\ \A b \in Outstanding : Distance(b) < n
        /\ \A b, c \in Outstanding : ticket[b] = ticket[c] => b = c
        /\ \A b \in Actors : pc[b] = "held" => ticket[b] = release
    BY DEF IInv, TicketWindow
  <1> HIDE DEF n
  <1>8. release' = IF release + 1 = Modulus THEN 0 ELSE release + 1
    BY <1>1, <1>2, IncValue
  <1>9. release' \in Value
    BY <1>1, <1>2, IncValue
  <1>10. ticket[a] = release /\ Distance(a) = 0
    BY <1>1, <1>2, <1>7, SubValue DEF Distance, Value
  <1>11. ASSUME NEW b \in Outstanding'
         PROVE  Distance(b) \in Nat /\ Distance(b)' = Distance(b) - 1
    <2>1. b \in Actors /\ b \in Outstanding /\ ticket[b] \in Value /\ ticket[b] # release
      BY <1>1, <1>3, <1>7, <1>10 DEF Outstanding
    <2>2. Distance(b) = IF ticket[b] >= release THEN ticket[b] - release
                                                ELSE ticket[b] - release + Modulus
      BY <2>1, <1>1, SubValue DEF Distance
    <2>3. Distance(b)' = IF ticket[b] >= release' THEN ticket[b] - release'
                                                  ELSE ticket[b] - release' + Modulus
      BY <2>1, <1>2, <1>9, SubValue DEF Distance
    <2> QED
      BY <2>1, <2>2, <2>3, <1>1, <1>8, ActorsAssumption DEF Value
  <1>12. TypeOK'
    BY <1>1, <1>2, <1>9 DEF TypeOK
  <1>13. acquire' = (release' + Cardinality(Outstanding')) % Modulus
    <2>1. acquire = IF release + n < Modulus THEN release + n ELSE release + n - Modulus
      BY <1>1, <1>4, <1>7, AddValue
    <2>2. (release' + (n - 1)) % Modulus =
            IF release' + (n - 1) < Modulus THEN release' + (n - 1)
                                            ELSE release' + (n - 1) - Modulus
      BY <1>6, <1>9, AddValue
    <2>3. acquire = (release' + (n - 1)) % Modulus
      BY <2>1, <2>2, <1>1, <1>4, <1>6, <1>8, ActorsAssumption DEF Value
    <2> QED
      BY <2>3, <1>2, <1>5
  <1>14. \A b \in Outstanding' : Distance(b)' < Cardinality(Outstanding')
    BY <1>3, <1>4, <1>5, <1>7, <1>11
  <1>15. \A b, c \in Outstanding' : ticket'[b] = ticket'[c] => b = c
    BY <1>2, <1>3, <1>7
  <1>16. \A b \in Actors : pc'[b] = "held" => ticket'[b] = release'
    BY <1>1, <1>2, <1>3, <1>7 DEF Outstanding
  <1> QED
    BY <1>3, <1>10, <1>11, <1>12, <1>13, <1>14, <1>15, <1>16 DEF IInv, TicketWindow

-----------------------------------------------------------------------------
(* The theorems.                                                           *)

\* IInv holds in the constructed lock and is preserved by every step.
LEMMA Inductive == Spec => []IInv
  <1>1. Init => IInv
    <2> SUFFICES ASSUME Init PROVE IInv
      OBVIOUS
    <2>1. TypeOK
      BY ActorsAssumption DEF Init, TypeOK, Value
    <2>2. Outstanding = {}
      BY DEF Init, Outstanding
    <2>3. Cardinality(Outstanding) = 0
      BY <2>2, FS_EmptySet
    <2>4. 0 = (0 + 0) % Modulus
      BY ActorsAssumption
    <2> QED
      BY <2>1, <2>2, <2>3, <2>4 DEF Init, IInv, TicketWindow
  <1>2. IInv /\ [Next]_vars => IInv'
    <2> SUFFICES ASSUME IInv, [Next]_vars PROVE IInv'
      OBVIOUS
    <2>1. ASSUME NEW a \in Actors, TakeTicket(a) PROVE IInv'
      BY <2>1, TakeTicketPreserves
    <2>2. ASSUME NEW a \in Actors, Enter(a) PROVE IInv'
      BY <2>2, EnterPreserves
    <2>3. ASSUME NEW a \in Actors, Release(a) PROVE IInv'
      BY <2>3, ReleasePreserves
    <2>4. CASE UNCHANGED vars
      BY <2>4 DEF IInv, TypeOK, TicketWindow, Outstanding, Distance, vars
    <2> QED
      BY <2>1, <2>2, <2>3, <2>4 DEF Next
  <1> QED
    BY <1>1, <1>2, PTL DEF Spec

\* The counters and tickets keep the range of an unsigned int and every actor is
\* at one of the points of lock() and ~Guard(), for every number of actors.
THEOREM TypeCorrect == Spec => []TypeOK
  BY Inductive, PTL DEF IInv

\* The tickets that are out are those from release up to acquire, each in one
\* hand (atomic.h:30-44), for every counter width the actors do not exceed.
THEOREM TicketWindowHolds == Spec => []TicketWindow
  BY Inductive, PTL DEF IInv

\* Lock<T> excludes: two Guards of one lock never exist at the same time.
THEOREM MutualExclusionHolds == Spec => []MutualExclusion
  <1>1. IInv => MutualExclusion
    BY DEF IInv, TicketWindow, MutualExclusion, Outstanding
  <1> QED
    BY <1>1, Inductive, PTL

-----------------------------------------------------------------------------
(* TicketLock implements FifoLock.                                         *)

\* The lock is granted in the order of the fetch_adds on acquire: a step of
\* lock() or ~Guard() (atomic.h:31-44) is a step of FifoLock or none.
THEOREM RefinesFifoLock == Spec => ImplementsFifoLock
  <1> DEFINE ahead == [a \in Actors |-> Ahead(a)]
  <1>1. Init => Fifo!Init
    BY DEF Init, Fifo!Init, Ahead
  <1>2. IInv /\ [Next]_vars => [Fifo!Next]_(Fifo!vars)
    <2> SUFFICES ASSUME IInv, [Next]_vars PROVE Fifo!Next \/ UNCHANGED <<pc, ahead>>
      BY DEF Fifo!vars
    <2>1. /\ pc \in [Actors -> {"idle", "spin", "held"}] /\ release \in Value
          /\ ticket \in [Actors -> Value]
      BY DEF IInv, TypeOK
    <2>2. \A a \in Actors : Distance(a) \in Nat
      BY <2>1, SubValue, ActorsAssumption DEF Distance, Value
    <2>3. Outstanding = Fifo!Asked /\ Outstanding \subseteq Actors
      BY DEF Outstanding, Fifo!Asked
    <2>4. ASSUME NEW a \in Actors, TakeTicket(a) PROVE Fifo!Next
      <3>1. pc[a] = "idle" /\ pc' = [pc EXCEPT ![a] = "spin"]
        BY <2>4 DEF TakeTicket
      <3>2. /\ Outstanding' = Outstanding \cup {a}
            /\ Distance(a)' = Cardinality(Outstanding)
            /\ \A b \in Outstanding : Distance(b)' = Distance(b)
        BY <2>4, TakeTicketPreserves
      <3>3. \A b \in Outstanding : Distance(b) < Cardinality(Outstanding)
        BY DEF IInv, TicketWindow
      <3>4. Cardinality(Outstanding) \in Nat
        BY OutstandingFinite
      <3>5. Ahead(a)' = Outstanding
        BY <2>1, <2>2, <2>3, <3>1, <3>2, <3>3, <3>4 DEF Ahead
      <3>6. ASSUME NEW b \in Actors, b # a PROVE Ahead(b)' = Ahead(b)
        <4>1. pc'[b] = pc[b]
          BY <2>1, <3>1, <3>6
        <4>2. CASE pc[b] = "idle"
          BY <4>1, <4>2 DEF Ahead
        <4>3. CASE pc[b] # "idle"
          <5>1. b \in Outstanding
            BY <4>3 DEF Outstanding
          <5>2. ~(Distance(a)' < Distance(b)')
            BY <5>1, <2>2, <3>2, <3>3, <3>4
          <5>3. {x \in Outstanding' : Distance(x)' < Distance(b)'}
                  = {x \in Outstanding : Distance(x) < Distance(b)}
            BY <5>1, <5>2, <3>2
          <5> QED
            BY <4>1, <4>3, <5>3 DEF Ahead
        <4> QED
          BY <4>2, <4>3
      <3>7. ahead' = [ahead EXCEPT ![a] = Fifo!Asked]
        BY <2>3, <3>5, <3>6
      <3> QED
        BY <3>1, <3>7 DEF Fifo!Next, Fifo!Ask
    <2>5. ASSUME NEW a \in Actors, Enter(a) PROVE Fifo!Next
      <3>1. pc[a] = "spin" /\ pc' = [pc EXCEPT ![a] = "held"]
        BY <2>5 DEF Enter
      <3>2. /\ Outstanding' = Outstanding /\ Distance(a) = 0
            /\ \A b \in Actors : Distance(b)' = Distance(b)
        BY <2>5, EnterPreserves
      <3>3. Ahead(a) = {}
        BY <2>2, <2>3, <3>1, <3>2 DEF Ahead
      <3>4. \A b \in Actors : Ahead(b)' = Ahead(b)
        BY <2>1, <2>3, <3>1, <3>2 DEF Ahead
      <3> QED
        BY <3>1, <3>3, <3>4 DEF Fifo!Next, Fifo!Grant
    <2>6. ASSUME NEW a \in Actors, Release(a) PROVE Fifo!Next
      <3>1. pc[a] = "held" /\ pc' = [pc EXCEPT ![a] = "idle"]
        BY <2>6 DEF Release
      <3>2. /\ Outstanding' = Outstanding \ {a} /\ Distance(a) = 0
            /\ \A b \in Outstanding' : Distance(b) \in Nat /\ Distance(b)' = Distance(b) - 1
        BY <2>6, ReleasePreserves
      <3>3. ASSUME NEW b \in Actors PROVE Ahead(b)' = Ahead(b) \ {a}
        <4>1. CASE b = a
          BY <2>1, <2>2, <2>3, <3>1, <3>2, <4>1 DEF Ahead
        <4>2. CASE b # a /\ pc[b] = "idle"
          BY <2>1, <3>1, <4>2 DEF Ahead
        <4>3. CASE b # a /\ pc[b] # "idle"
          <5>1. pc'[b] = pc[b] /\ b \in Outstanding'
            BY <2>1, <3>1, <3>2, <4>3 DEF Outstanding
          <5>2. {x \in Outstanding' : Distance(x)' < Distance(b)'}
                  = {x \in Outstanding : Distance(x) < Distance(b)} \ {a}
            BY <3>2, <5>1
          <5> QED
            BY <4>3, <5>1, <5>2 DEF Ahead
        <4> QED
          BY <4>1, <4>2, <4>3
      <3>4. ahead' = [b \in Actors |-> ahead[b] \ {a}]
        BY <3>3
      <3> QED
        BY <3>1, <3>4 DEF Fifo!Next, Fifo!GiveBack
    <2>7. CASE UNCHANGED vars
      BY <2>7 DEF vars, Ahead, Outstanding, Distance
    <2> QED
      BY <2>4, <2>5, <2>6, <2>7 DEF Next
  <1> QED
    BY <1>1, <1>2, Inductive, PTL DEF Spec, ImplementsFifoLock, Fifo!Spec
=============================================================================
