---------------------------- MODULE SerialProofs ----------------------------
(***************************************************************************)
(* The serial console for any number of slots, ports, calls and bytes and  *)
(* for every FIFO that holds two.                                          *)
(*                                                                         *)
(* SInv says where each port is: how far its seven accesses of init have   *)
(* come, that it is the one under way which may have a second byte in its  *)
(* FIFO, and which prefix of what was printed it has got.  The bytes to    *)
(* port 0 are counted against the absent slots the loop of write has       *)
(* passed.                                                                 *)
(***************************************************************************)
EXTENDS Serial, FiniteSetTheorems, SequenceTheorems, TLAPS

Line == {"x", "CR", "LF"}

Uart == [ier : Nat, div : Nat \X Nat, lcr : {3, 128}, mcr : Nat,
         fifo : Seq(Line), wire : Seq(Line), lost : BOOLEAN]

Types ==
  /\ bda \in [Slot -> BOOLEAN] /\ device \in [Slot -> BOOLEAN] /\ uart \in [Slot -> Uart]
  /\ call \in {"idle", "init", "write"} /\ slot \in Slot /\ next \in 1 .. 7
  /\ byte \in Chars /\ asked \in Seq(Line) /\ stray \in Nat /\ inits \in Nat
  /\ call = "idle" => slot = 1 /\ next = 1
  /\ call = "write" => next \in {1, 2}

\* The port whose accesses of init are under way.
UnderWay(s) == call = "init" /\ s = slot

\* What the accesses of init have done to the UART u when the next one is n.
Progress(u, n) == /\ n \notin {3, 4, 5, 6} => u.lcr = 3
                  /\ n \in {3, 4, 5, 6} => u.lcr = 128
                  /\ n > 1 => u.ier = 0
                  /\ n > 3 => u.div[1] = 1
                  /\ n > 4 => u.div[2] = 0
                  /\ n > 5 => u.fifo = <<>> /\ u.wire = <<>>

Settings ==
  \A s \in Slot : /\ UnderWay(s) /\ bda[s] => Progress(uart[s], next)
                  /\ ~(UnderWay(s) /\ bda[s]) => uart[s].lcr = 3
                  /\ device[s] /\ ~UnderWay(s) => uart[s].div = <<1, 0>> /\ uart[s].ier = 0

\* Behind the loop of init the table says which ports there are.
Found == /\ \A s \in Slot : inits > 0 /\ (call = "init" => s < slot) => device[s] = bda[s]
         /\ inits = 0 => call = "idle" /\ \A s \in Slot : ~device[s]

\* Only the port that has just got a CR may have two bytes.
Room == \A s \in Slot :
          /\ ~uart[s].lost
          /\ Len(uart[s].fifo) <= IF call = "write" /\ s = slot /\ next = 2 /\ device[s]
                                  THEN 2 ELSE 1

Ports == Types /\ Settings /\ Found /\ Room

\* How much of what was asked for port s has not got yet.
Missing(s) == IF call # "write" \/ s < slot THEN 0
              ELSE IF s = slot /\ next = 2 THEN 1
              ELSE IF byte = "LF" THEN 2 ELSE 1

\* What one port has got of what was asked for, when m bytes are missing.
Got(u, m) ==
  /\ Len(u.wire) + Len(u.fifo) = Len(asked) - m
  /\ \A i \in 1 .. Len(u.wire) : u.wire[i] = asked[i]
  /\ \A i \in 1 .. Len(u.fifo) : u.fifo[i] = asked[Len(u.wire) + i]

\* Every port has got a prefix of what was asked for, which ends with the byte of the
\* call under way.
Prefixes ==
  /\ call = "init" => /\ asked = <<>>
                      /\ \A s \in Slot : bda[s] /\ s < slot => uart[s].fifo = <<>> /\ uart[s].wire = <<>>
  /\ call = "write" => /\ Len(asked) >= IF byte = "LF" THEN 2 ELSE 1
                       /\ asked[Len(asked)] = byte
                       /\ byte = "LF" => asked[Len(asked) - 1] = "CR"
  /\ call # "init" => \A s \in Slot : device[s] => Got(uart[s], Missing(s))

LineFeeds == {i \in DOMAIN asked : asked[i] = "LF"}
Absent == {s \in Slot : ~bda[s]}

\* The absent slots to which write has sent the CR of the byte under way.
Passed == {s \in Slot : ~bda[s] /\ (s < slot \/ (s = slot /\ next = 2))}

Strays ==
  /\ call = "init" => stray = 0
  /\ call = "idle" => stray = Cardinality(LineFeeds) * Cardinality(Absent)
  /\ call = "write" /\ byte # "LF" => stray = Cardinality(LineFeeds) * Cardinality(Absent)
  /\ call = "write" /\ byte = "LF" =>
       stray = (Cardinality(LineFeeds) - 1) * Cardinality(Absent) + Cardinality(Passed)

SInv == Ports /\ Prefixes /\ Strays

-----------------------------------------------------------------------------
(* What one access does.                                                   *)

\* The accesses of init, in their order.
LEMMA SetupIs ==
  /\ Len(Setup) = 7
  /\ Setup[1][1] = 1 /\ Setup[1][2] = 0 /\ Setup[2][1] = 3 /\ Setup[2][2] = 128
  /\ Setup[3][1] = 0 /\ Setup[3][2] = 1 /\ Setup[4][1] = 1 /\ Setup[4][2] = 0
  /\ Setup[5][1] = 2 /\ Setup[5][2] = 199 /\ Setup[6][1] = 3 /\ Setup[6][2] = 3
  /\ Setup[7][1] = 4 /\ Setup[7][2] = 11
  BY DEF Setup

\* A UART with another divisor is a UART.
LEMMA UartDivisor ==
  ASSUME NEW u \in Uart, NEW d \in Nat \X Nat
  PROVE  [u EXCEPT !.div = d] \in Uart
  BY DEF Uart

\* So is one with another word in a register.
LEMMA UartRegisters ==
  ASSUME NEW u \in Uart, NEW x \in Nat
  PROVE  [u EXCEPT !.ier = x] \in Uart /\ [u EXCEPT !.mcr = x] \in Uart
  <1>1. [u EXCEPT !.ier = x] \in Uart
    BY DEF Uart
  <1>2. [u EXCEPT !.mcr = x] \in Uart
    BY DEF Uart
  <1> QED
    BY <1>1, <1>2

\* So is one with either of the words init gives the line control register.
LEMMA UartLine ==
  ASSUME NEW u \in Uart
  PROVE  [u EXCEPT !.lcr = 3] \in Uart /\ [u EXCEPT !.lcr = 128] \in Uart
  <1>1. [u EXCEPT !.lcr = 3] \in Uart
    BY DEF Uart
  <1>2. [u EXCEPT !.lcr = 128] \in Uart
    BY DEF Uart
  <1> QED
    BY <1>1, <1>2

\* So is one with other FIFOs.
LEMMA UartFifos ==
  ASSUME NEW u \in Uart, NEW f \in Seq(Line), NEW w \in Seq(Line)
  PROVE  [u EXCEPT !.fifo = f, !.wire = w] \in Uart
  BY DEF Uart

\* An access of init takes a port that is where it should be to where it should be.
LEMMA SetupStep ==
  ASSUME NEW u \in Uart, NEW n \in 1 .. 7, Progress(u, n),
         NEW v, v = Outb(u, Setup[n][1], Setup[n][2])
  PROVE  /\ v \in Uart
         /\ n < 7 => Progress(v, n + 1)
         /\ n = 7 => /\ v.lcr = 3 /\ v.div = <<1, 0>> /\ v.ier = 0
                     /\ v.fifo = <<>> /\ v.wire = <<>>
         /\ v.lost = u.lost /\ (v.fifo = u.fifo \/ v.fifo = <<>>)
  <1>1. CASE n = 1
    <2>1. Outb(u, 1, 0) = [u EXCEPT !.ier = 0]
      BY <1>1 DEF Outb, Progress
    <2>2. v = [u EXCEPT !.ier = 0]
      BY <1>1, <2>1, SetupIs
    <2>3. v \in Uart
      BY <2>2, UartRegisters
    <2> QED
      BY <1>1, <2>2, <2>3 DEF Progress, Uart
  <1>2. CASE n = 2
    <2>1. Outb(u, 3, 128) = [u EXCEPT !.lcr = 128]
      BY <1>2 DEF Outb, Progress
    <2>2. v = [u EXCEPT !.lcr = 128]
      BY <1>2, <2>1, SetupIs
    <2>3. v \in Uart
      BY <2>2, UartLine
    <2> QED
      BY <1>2, <2>2, <2>3 DEF Progress, Uart
  <1>3. CASE n = 3
    <2>1. Outb(u, 0, 1) = [u EXCEPT !.div = <<1, u.div[2]>>]
      BY <1>3 DEF Outb, Progress
    <2>2. v = [u EXCEPT !.div = <<1, u.div[2]>>]
      BY <1>3, <2>1, SetupIs
    <2>3. v \in Uart
      <3>1. <<1, u.div[2]>> \in Nat \X Nat
        BY DEF Uart
      <3> QED
        BY <2>2, <3>1, UartDivisor
    <2> QED
      BY <1>3, <2>2, <2>3 DEF Progress, Uart
  <1>4. CASE n = 4
    <2>1. Outb(u, 1, 0) = [u EXCEPT !.div = <<u.div[1], 0>>]
      BY <1>4 DEF Outb, Progress
    <2>2. v = [u EXCEPT !.div = <<u.div[1], 0>>]
      BY <1>4, <2>1, SetupIs
    <2>3. v \in Uart
      <3>1. <<u.div[1], 0>> \in Nat \X Nat
        BY DEF Uart
      <3> QED
        BY <2>2, <3>1, UartDivisor
    <2> QED
      BY <1>4, <2>2, <2>3 DEF Progress, Uart
  <1>5. CASE n = 5
    <2>1. Outb(u, 2, 199) = [u EXCEPT !.fifo = <<>>, !.wire = <<>>]
      BY <1>5 DEF Outb, Progress
    <2>2. v = [u EXCEPT !.fifo = <<>>, !.wire = <<>>]
      BY <1>5, <2>1, SetupIs
    <2>3. v \in Uart
      <3>1. <<>> \in Seq(Line)
        OBVIOUS
      <3>2. [u EXCEPT !.fifo = <<>>, !.wire = <<>>] \in Uart
        BY <3>1, UartFifos
      <3> QED
        BY <2>2, <3>2, Zenon
    <2>4. /\ v.fifo = <<>> /\ v.wire = <<>> /\ v.lcr = u.lcr /\ v.ier = u.ier
          /\ v.div = u.div /\ v.lost = u.lost
      BY <2>2 DEF Uart
    <2> QED
      BY <1>5, <2>3, <2>4 DEF Progress
  <1>6. CASE n = 6
    <2>1. Outb(u, 3, 3) = [u EXCEPT !.lcr = 3]
      BY <1>6 DEF Outb, Progress
    <2>2. v = [u EXCEPT !.lcr = 3]
      BY <1>6, <2>1, SetupIs
    <2>3. v \in Uart
      BY <2>2, UartLine
    <2>4. /\ v.lcr = 3 /\ v.fifo = u.fifo /\ v.wire = u.wire /\ v.ier = u.ier
          /\ v.div = u.div /\ v.lost = u.lost
      BY <2>2 DEF Uart
    <2> QED
      BY <1>6, <2>3, <2>4 DEF Progress
  <1>7. CASE n = 7
    <2>1. Outb(u, 4, 11) = [u EXCEPT !.mcr = 11]
      BY <1>7 DEF Outb, Progress
    <2>2. v = [u EXCEPT !.mcr = 11]
      BY <1>7, <2>1, SetupIs
    <2>3. v \in Uart
      <3>1. [u EXCEPT !.mcr = 11] \in Uart
        BY UartRegisters
      <3> QED
        BY <2>2, <3>1, Zenon
    <2>4. /\ v.lcr = u.lcr /\ v.fifo = u.fifo /\ v.wire = u.wire /\ v.ier = u.ier
          /\ v.div = u.div /\ v.lost = u.lost
      BY <2>2 DEF Uart
    <2>5. /\ u.lcr = 3 /\ u.ier = 0 /\ u.fifo = <<>> /\ u.wire = <<>>
          /\ u.div[1] = 1 /\ u.div[2] = 0 /\ u.div \in Nat \X Nat
      BY <1>7 DEF Progress, Uart
    <2>6. u.div = <<1, 0>>
      BY <2>5
    <2> QED
      BY <1>7, <2>3, <2>4, <2>5, <2>6
  <1> QED
    BY <1>1, <1>2, <1>3, <1>4, <1>5, <1>6, <1>7

\* A byte for a port whose FIFO has room.
LEMMA SendStep ==
  ASSUME NEW u \in Uart, u.lcr = 3, NEW b \in Line, Len(u.fifo) <= 1,
         NEW v, v = Outb(u, 0, b)
  PROVE  /\ v \in Uart /\ v.fifo = Append(u.fifo, b)
         /\ v.wire = u.wire /\ v.lcr = u.lcr /\ v.div = u.div /\ v.ier = u.ier
         /\ v.lost = u.lost
  <1>1. v = Push(u, b)
    BY DEF Outb
  <1>2. Push(u, b) = [u EXCEPT !.fifo = Append(u.fifo, b)]
    BY SerialAssumption DEF Push, Uart
  <1>3. Append(u.fifo, b) \in Seq(Line)
    BY DEF Uart
  <1>4. v = [u EXCEPT !.fifo = Append(u.fifo, b)]
    BY <1>1, <1>2
  <1>5. v \in Uart
    BY <1>3, <1>4 DEF Uart
  <1> QED
    BY <1>4, <1>5 DEF Uart
-----------------------------------------------------------------------------
(* The state of the ports.                                                 *)

\* A step from one slot to the next, or out of the loop.
LEMMA NextSlotTyped ==
  ASSUME Types, NextSlot, call \in {"init", "write"}
  PROVE  /\ slot' \in Slot /\ call' \in {"idle", call} /\ next' = 1
         /\ call' = "idle" => slot' = 1 /\ slot = Slots
         /\ call' # "idle" => slot' = slot + 1
  BY SerialAssumption DEF Types, NextSlot, Slot

\* init starts with the first slot.
LEMMA CallInitPorts == ASSUME Ports, CallInit PROVE Ports'
  BY SMTT(30), SerialAssumption
  DEF Ports, CallInit, Types, Settings, Found, Room, UnderWay, Progress, Slot

\* init passes a slot without a port and leaves its UART alone.
LEMMA InitAbsentPorts == ASSUME Ports, InitAbsent PROVE Ports'
  <1>1. Types /\ NextSlot /\ call = "init" /\ ~bda[slot]
        /\ device' = [device EXCEPT ![slot] = FALSE]
        /\ bda' = bda /\ uart' = uart /\ byte' = byte /\ asked' = asked
        /\ stray' = stray /\ inits' = inits
    BY DEF Ports, InitAbsent
  <1>2. /\ slot' \in Slot /\ call' \in {"idle", "init"} /\ next' = 1
        /\ call' = "idle" => slot' = 1 /\ slot = Slots
        /\ call' # "idle" => slot' = slot + 1
    BY <1>1, NextSlotTyped
  <1>3. Types'
    BY <1>1, <1>2 DEF Types
  <1>4. Settings'
    BY <1>1, <1>2 DEF Ports, Types, Settings, UnderWay, Progress, Slot
  <1>5. Found'
    <2>1. bda[slot] = FALSE /\ device'[slot] = FALSE
      BY <1>1 DEF Types
    <2>2. \A s \in Slot : s # slot => device'[s] = device[s]
      BY <1>1 DEF Types
    <2>3. inits > 0 /\ slot \in 1 .. Slots
      BY <1>1 DEF Ports, Found, Types, Slot
    <2>4. \A s \in Slot : (call' = "init" => s < slot') => s < slot \/ s = slot
      BY <1>2, <2>3 DEF Slot
    <2> QED
      BY <1>1, <2>1, <2>2, <2>3, <2>4 DEF Ports, Found
  <1>6. Room'
    BY <1>1, <1>2 DEF Ports, Types, Room
  <1> QED
    BY <1>3, <1>4, <1>5, <1>6 DEF Ports

\* One access of init to a port: its registers come one access further.
LEMMA InitPresentPorts == ASSUME Ports, InitPresent PROVE Ports'
  <1> DEFINE u == uart[slot]
             v == Outb(u, Setup[next][1], Setup[next][2])
  <1>1. /\ Types /\ call = "init" /\ bda[slot] /\ slot \in Slot /\ next \in 1 .. 7
        /\ uart' = [uart EXCEPT ![slot] = v]
        /\ bda' = bda /\ byte' = byte /\ asked' = asked /\ stray' = stray /\ inits' = inits
    BY DEF Ports, InitPresent, Types
  <1>2. u \in Uart /\ Progress(u, next)
    BY <1>1 DEF Ports, Types, Settings, UnderWay
  <1>3. /\ v \in Uart
        /\ next < 7 => Progress(v, next + 1)
        /\ next = 7 => v.lcr = 3 /\ v.div = <<1, 0>> /\ v.ier = 0 /\ v.fifo = <<>> /\ v.wire = <<>>
        /\ v.lost = u.lost /\ (v.fifo = u.fifo \/ v.fifo = <<>>)
    BY <1>1, <1>2, SetupStep
  <1> HIDE DEF v
  <1>4. uart' \in [Slot -> Uart] /\ uart'[slot] = v /\ \A s \in Slot : s # slot => uart'[s] = uart[s]
    BY <1>1, <1>3 DEF Types
  <1>5. CASE next < 7
    <2>1. next' = next + 1 /\ slot' = slot /\ call' = call /\ device' = device
      BY <1>5, SetupIs DEF InitPresent
    <2>2. Types'
      BY <1>1, <1>4, <1>5, <2>1 DEF Types
    <2>3. Settings'
      BY <1>1, <1>3, <1>4, <1>5, <2>1 DEF Ports, Settings, UnderWay
    <2>4. Found'
      BY <1>1, <2>1 DEF Ports, Found
    <2>5. Room'
      BY <1>1, <1>3, <1>4, <2>1 DEF Ports, Room
    <2> QED
      BY <2>2, <2>3, <2>4, <2>5 DEF Ports
  <1>6. CASE next = 7
    <2>1. NextSlot /\ device' = [device EXCEPT ![slot] = TRUE]
      BY <1>6, SetupIs DEF InitPresent
    <2>2. /\ slot' \in Slot /\ call' \in {"idle", "init"} /\ next' = 1
          /\ call' = "idle" => slot' = 1 /\ slot = Slots
          /\ call' # "idle" => slot' = slot + 1
      BY <1>1, <2>1, NextSlotTyped
    <2>3. Types'
      BY <1>1, <1>4, <2>1, <2>2 DEF Types
    <2>4. /\ device'[slot] = TRUE /\ \A s \in Slot : s # slot => device'[s] = device[s]
      BY <1>1, <2>1 DEF Types
    <2>5. Settings'
      <3>1. ASSUME NEW s \in Slot, s # slot
            PROVE  /\ (UnderWay(s) /\ bda[s] => Progress(uart[s], next))'
                   /\ (~(UnderWay(s) /\ bda[s]) => uart[s].lcr = 3)'
                   /\ (device[s] /\ ~UnderWay(s) => uart[s].div = <<1, 0>> /\ uart[s].ier = 0)'
        BY <1>1, <1>4, <2>2, <2>4, <3>1 DEF Ports, Settings, UnderWay, Progress
      <3>2. call' = "init" => slot' # slot
        BY <1>1, <2>2 DEF Slot
      <3> QED
        BY <1>3, <1>4, <1>6, <3>1, <3>2 DEF Settings, UnderWay
    <2>6. Found'
      <3>1. bda[slot] = TRUE
        BY <1>1 DEF Types
      <3>2. inits > 0 /\ slot \in 1 .. Slots
        BY <1>1 DEF Ports, Found, Types, Slot
      <3>3. \A s \in Slot : (call' = "init" => s < slot') => s < slot \/ s = slot
        BY <2>2, <3>2 DEF Slot
      <3> QED
        BY <1>1, <2>4, <3>1, <3>2, <3>3 DEF Ports, Found
    <2>7. Room'
      BY <1>1, <1>3, <1>4, <2>2 DEF Ports, Room
    <2> QED
      BY <2>3, <2>5, <2>6, <2>7 DEF Ports
  <1> QED
    BY <1>1, <1>5, <1>6

\* write starts with the first slot.
LEMMA CallWritePorts == ASSUME Ports, NEW b \in Chars, CallWrite(b) PROVE Ports'
  <1>1. asked' \in Seq(Line)
    <2>1. Expand(b) \in Seq(Line)
      <3>1. <<"CR", "LF">> \in Seq(Line) /\ <<"x">> \in Seq(Line)
        BY DEF Line
      <3> QED
        BY <3>1 DEF Expand, Chars
    <2> QED
      BY <2>1 DEF Ports, Types, CallWrite
  <1> QED
    BY <1>1 DEF Ports, CallWrite, Types, Settings, Found, Room, UnderWay

\* The CR of a line feed goes to a port, on top of at most one byte, or to port 0.
LEMMA WriteCrPorts == ASSUME Ports, WriteCr PROVE Ports'
  <1>1. /\ Types /\ call = "write" /\ next = 1 /\ next' = 2 /\ slot \in Slot
        /\ bda' = bda /\ device' = device /\ call' = call /\ slot' = slot /\ byte' = byte
        /\ asked' = asked /\ inits' = inits
    BY DEF Ports, WriteCr, Types
  <1>2. CASE byte = "LF" /\ device[slot]
    <2> DEFINE v == Outb(uart[slot], 0, "CR")
    <2>1. uart' = [uart EXCEPT ![slot] = v] /\ stray' = stray
      BY <1>2 DEF WriteCr
    <2>2. uart[slot] \in Uart /\ uart[slot].lcr = 3 /\ Len(uart[slot].fifo) <= 1
      BY <1>1 DEF Ports, Types, Settings, UnderWay, Room
    <2>3. /\ v \in Uart /\ v.fifo = Append(uart[slot].fifo, "CR")
          /\ v.lcr = 3 /\ v.div = uart[slot].div /\ v.ier = uart[slot].ier
          /\ v.lost = uart[slot].lost
      BY <2>2, SendStep DEF Line
    <2> HIDE DEF v
    <2>4. /\ uart' \in [Slot -> Uart] /\ uart'[slot] = v
          /\ \A s \in Slot : s # slot => uart'[s] = uart[s]
      BY <1>1, <2>1, <2>3 DEF Types
    <2>5. Len(v.fifo) <= 2
      BY <2>2, <2>3 DEF Uart
    <2>6. Types'
      BY <1>1, <2>1, <2>4 DEF Types
    <2>7. Settings'
      BY <1>1, <2>3, <2>4 DEF Ports, Settings, UnderWay
    <2>8. Found'
      BY <1>1 DEF Ports, Found
    <2>9. Room'
      BY <1>1, <1>2, <2>3, <2>4, <2>5 DEF Ports, Room
    <2> QED
      BY <2>6, <2>7, <2>8, <2>9 DEF Ports
  <1>3. CASE ~(byte = "LF" /\ device[slot])
    <2>1. uart' = uart /\ stray' \in Nat
      BY <1>1, <1>3 DEF WriteCr, Types
    <2>2. Types' /\ Settings' /\ Found'
      BY <1>1, <2>1 DEF Ports, Types, Settings, Found, UnderWay
    <2>3. Room'
      <3>1. \A s \in Slot : ~uart[s].lost /\ Len(uart[s].fifo) <= 1 /\ uart[s] \in Uart
        BY <1>1 DEF Ports, Room, Types
      <3>2. \A s \in Slot : Len(uart[s].fifo) \in Nat
        BY <3>1 DEF Uart
      <3> QED
        BY <2>1, <3>1, <3>2 DEF Room
    <2> QED
      BY <2>2, <2>3 DEF Ports
  <1> QED
    BY <1>2, <1>3

\* write passes a slot without a port.
LEMMA WriteSkipPorts == ASSUME Ports, WriteSkip PROVE Ports'
  <1>1. /\ Types /\ NextSlot /\ call = "write" /\ ~device[slot] /\ slot \in Slot
        /\ bda' = bda /\ device' = device /\ uart' = uart /\ byte' = byte /\ asked' = asked
        /\ stray' = stray /\ inits' = inits
    BY DEF Ports, WriteSkip, Types
  <1>2. /\ slot' \in Slot /\ call' \in {"idle", "write"} /\ next' = 1
        /\ call' = "idle" => slot' = 1 /\ slot = Slots
    BY <1>1, NextSlotTyped
  <1>3. Types'
    BY <1>1, <1>2 DEF Types
  <1>4. Settings' /\ Found'
    BY <1>1, <1>2 DEF Ports, Settings, Found, UnderWay
  <1>5. Room'
    BY <1>1, <1>2 DEF Ports, Room
  <1> QED
    BY <1>3, <1>4, <1>5 DEF Ports

\* A byte goes to a port that is empty or has just got the CR.
LEMMA WriteBytePorts == ASSUME Ports, WriteByte PROVE Ports'
  <1> DEFINE v == Outb(uart[slot], 0, byte)
  <1>1. /\ Types /\ NextSlot /\ call = "write" /\ device[slot] /\ slot \in Slot
        /\ uart[slot].fifo = <<>> /\ uart' = [uart EXCEPT ![slot] = v]
        /\ bda' = bda /\ device' = device /\ byte' = byte /\ asked' = asked
        /\ stray' = stray /\ inits' = inits
    BY DEF Ports, WriteByte, Types
  <1>2. /\ slot' \in Slot /\ call' \in {"idle", "write"} /\ next' = 1
        /\ call' = "idle" => slot' = 1 /\ slot = Slots
    BY <1>1, NextSlotTyped
  <1>3. /\ uart[slot] \in Uart /\ uart[slot].lcr = 3 /\ Len(uart[slot].fifo) <= 1
        /\ byte \in Line
    BY <1>1 DEF Ports, Types, Settings, UnderWay, Chars, Line
  <1>4. /\ v \in Uart /\ v.fifo = Append(<<>>, byte)
        /\ v.lcr = 3 /\ v.div = uart[slot].div /\ v.ier = uart[slot].ier
        /\ v.lost = uart[slot].lost
    BY <1>1, <1>3, SendStep
  <1> HIDE DEF v
  <1>5. /\ uart' \in [Slot -> Uart] /\ uart'[slot] = v
        /\ \A s \in Slot : s # slot => uart'[s] = uart[s]
    BY <1>1, <1>4 DEF Types
  <1>6. Len(v.fifo) = 1
    BY <1>4
  <1>7. Types'
    BY <1>1, <1>2, <1>5 DEF Types
  <1>8. Settings' /\ Found'
    BY <1>1, <1>2, <1>4, <1>5 DEF Ports, Settings, Found, UnderWay
  <1>9. Room'
    <2>1. \A s \in Slot : s # slot => /\ ~uart[s].lost /\ Len(uart[s].fifo) <= 1
                                      /\ Len(uart[s].fifo) \in Nat
      BY <1>1 DEF Ports, Room, Types, Uart
    <2>2. ~v.lost
      BY <1>1, <1>4 DEF Ports, Room
    <2> QED
      <3> SUFFICES ASSUME NEW s \in Slot
                   PROVE  /\ ~uart'[s].lost /\ Len(uart'[s].fifo) <= 1
                          /\ Len(uart'[s].fifo) \in Nat
        BY DEF Room
      <3>1. CASE s = slot
        <4>1. uart'[s] = v
          BY <1>5, <3>1
        <4>2. ~uart'[s].lost
          BY <2>2, <4>1
        <4>3. Len(uart'[s].fifo) = 1
          BY <1>6, <4>1
        <4> QED
          BY <4>2, <4>3
      <3>2. CASE s # slot
        BY <1>5, <2>1, <3>2
      <3> QED
        BY <3>1, <3>2
  <1> QED
    BY <1>7, <1>8, <1>9 DEF Ports

\* A UART sends the byte in front of its FIFO, which makes room.
LEMMA TransmitPorts == ASSUME Ports, NEW s \in Slot, Transmit(s) PROVE Ports'
  <1> DEFINE u == uart[s]
             v == [u EXCEPT !.fifo = Tail(u.fifo), !.wire = Append(u.wire, Head(u.fifo))]
  <1>1. /\ u.fifo # <<>> /\ uart' = [uart EXCEPT ![s] = v] /\ u \in Uart
    BY DEF Ports, Types, Transmit
  <1>2. /\ Tail(u.fifo) \in Seq(Line) /\ Len(Tail(u.fifo)) <= Len(u.fifo)
        /\ Append(u.wire, Head(u.fifo)) \in Seq(Line)
    <2>1. u.fifo \in Seq(Line) /\ u.wire \in Seq(Line)
      BY <1>1 DEF Uart
    <2> QED
      BY <1>1, <2>1
  <1>3. /\ v \in Uart /\ v.fifo = Tail(u.fifo)
        /\ v.lcr = u.lcr /\ v.div = u.div /\ v.ier = u.ier /\ v.lost = u.lost
        /\ v.wire = Append(u.wire, Head(u.fifo))
    BY <1>1, <1>2 DEF Uart
  <1> HIDE DEF v
  <1>4. /\ uart' \in [Slot -> Uart] /\ uart'[s] = v
        /\ \A t \in Slot : t # s => uart'[t] = uart[t]
    BY <1>1, <1>3 DEF Ports, Types
  <1>5. ~(UnderWay(s) /\ bda[s] /\ next > 5)
    BY <1>1 DEF Ports, Settings, Progress
  <1>6. Types'
    BY <1>4 DEF Ports, Types, Transmit
  <1>7. Found'
    BY DEF Ports, Found, Transmit
  <1>8. Settings'
    <2>1. /\ call' = call /\ slot' = slot /\ next' = next /\ device' = device /\ bda' = bda
      BY DEF Transmit
    <2>2. \A t \in Slot : UnderWay(t)' <=> UnderWay(t)
      BY <2>1 DEF UnderWay
    <2>3. UnderWay(s) /\ bda[s] => Progress(v, next)
      BY <1>3, <1>5 DEF Ports, Types, Settings, Progress
    <2>4. /\ ~(UnderWay(s) /\ bda[s]) => v.lcr = 3
          /\ device[s] /\ ~UnderWay(s) => v.div = <<1, 0>> /\ v.ier = 0
      BY <1>3 DEF Ports, Settings
    <2>5. \A t \in Slot : Progress(uart[t], next)' <=> Progress(uart'[t], next)
      BY <2>1 DEF Progress
    <2> QED
      BY <1>4, <2>1, <2>2, <2>3, <2>4, <2>5 DEF Ports, Settings
  <1>9. Room'
    <2>1. /\ call' = call /\ slot' = slot /\ next' = next /\ device' = device
      BY DEF Transmit
    <2>2. Len(v.fifo) \in Nat /\ Len(u.fifo) \in Nat /\ Len(v.fifo) <= Len(u.fifo)
      <3>1. u.fifo \in Seq(Line)
        BY <1>1 DEF Uart
      <3> QED
        BY <1>2, <1>3, <3>1, LenProperties
    <2>3. ~u.lost /\ Len(u.fifo) <= IF call = "write" /\ s = slot /\ next = 2 /\ device[s]
                                    THEN 2 ELSE 1
      BY DEF Ports, Room
    <2>4. Len(v.fifo) <= IF call = "write" /\ s = slot /\ next = 2 /\ device[s] THEN 2 ELSE 1
      BY <2>2, <2>3
    <2> QED
      BY <1>3, <1>4, <2>1, <2>3, <2>4 DEF Ports, Room
  <1> QED
    BY <1>6, <1>7, <1>8, <1>9 DEF Ports

\* Before the first init nothing is configured and nothing is sent.
LEMMA PortsStart == Init => Ports
  <1>1. PowerOn \in Uart /\ PowerOn.lcr = 3 /\ ~PowerOn.lost /\ PowerOn.fifo = <<>>
    BY DEF PowerOn, Uart
  <1> QED
    BY <1>1, SerialAssumption
    DEF Init, Ports, Types, Settings, Found, Room, UnderWay, Slot, Chars

\* The ports are as Ports says throughout.
LEMMA PortsInductive == Spec => []Ports
  <1>2. ASSUME Ports, [Next]_vars PROVE Ports'
    <2>1. CASE UNCHANGED vars
      BY <1>2, <2>1 DEF vars, Ports, Types, Settings, Found, Room, UnderWay, Progress
    <2> QED
      BY <1>2, <2>1, CallInitPorts, InitAbsentPorts, InitPresentPorts, CallWritePorts,
         WriteCrPorts, WriteSkipPorts, WriteBytePorts, TransmitPorts
      DEF Next, InitStep, WriteStep
  <1> QED
    BY <1>2, PortsStart, PTL DEF Spec

\* Whatever ports there are and however often init is called, a port it has finished
\* with is set up (serial.cc:14-20).
THEOREM ConfiguredHolds == Spec => []Configured
  <1>1. Ports => Configured
    BY DEF Ports, Types, Slot, Settings, UnderWay, Configured
  <1> QED
    BY <1>1, PortsInductive, PTL

\* No FIFO of two bytes or more overruns, although the CR is sent without a look at it
\* (serial.cc:28-33).
THEOREM NoOverrunHolds == Spec => []NoOverrun
  <1>1. ASSUME Ports PROVE NoOverrun
    <2> SUFFICES ASSUME NEW s \in Slot
                 PROVE  /\ ~uart[s].lost
                        /\ Len(uart[s].fifo) <= IF call = "write" THEN 2 ELSE 1
      BY DEF NoOverrun
    <2>1. uart[s].fifo \in Seq(Line)
      BY <1>1 DEF Ports, Types, Uart
    <2>2. Len(uart[s].fifo) \in Nat
      BY <2>1
    <2> QED
      BY <1>1, <2>2 DEF Ports, Room
  <1> QED
    BY <1>1, PortsInductive, PTL

-----------------------------------------------------------------------------
(* What the ports have got.                                                *)

\* The next byte that is missing is put into the FIFO.
LEMMA GotSent ==
  ASSUME NEW u \in Uart, NEW v \in Uart, NEW m \in Nat \ {0}, Got(u, m),
         NEW b, b = asked[Len(asked) - m + 1], asked \in Seq(Line),
         v.fifo = Append(u.fifo, b), v.wire = u.wire
  PROVE  Got(v, m - 1)
  <1> DEFINE f == Len(u.fifo)
             w == Len(u.wire)
             n == Len(asked)
  <1>1. /\ u.fifo \in Seq(Line) /\ u.wire \in Seq(Line)
    BY DEF Uart
  <1>2. /\ Len(v.fifo) = f + 1 /\ v.fifo[f + 1] = b
        /\ \A i \in 1 .. f : v.fifo[i] = u.fifo[i]
    BY <1>1
  <1>3. f \in Nat /\ w \in Nat /\ n \in Nat
    BY <1>1
  <1>4. /\ w + f = n - m
        /\ \A i \in 1 .. w : u.wire[i] = asked[i]
        /\ \A i \in 1 .. f : u.fifo[i] = asked[w + i]
    BY DEF Got
  <1>5. /\ Got(v, m - 1) <=> /\ Len(v.wire) + Len(v.fifo) = n - (m - 1)
                             /\ \A i \in 1 .. w : u.wire[i] = asked[i]
                             /\ \A i \in 1 .. Len(v.fifo) : v.fifo[i] = asked[w + i]
        /\ Len(v.wire) = w /\ b = asked[n - m + 1]
    BY DEF Got
  <1> HIDE DEF f, w, n
  <1>6. f + 1 \in Nat /\ w + (f + 1) = n - m + 1 /\ w + (f + 1) = n - (m - 1)
    BY <1>3, <1>4
  <1>7. ASSUME NEW i \in 1 .. f + 1 PROVE v.fifo[i] = asked[w + i]
    <2>1. CASE i = f + 1
      BY <1>2, <1>5, <1>6, <2>1
    <2>2. CASE i # f + 1
      <3>1. i \in 1 .. f
        BY <1>3, <2>2
      <3> QED
        BY <1>2, <1>4, <3>1
    <2> QED
      BY <2>1, <2>2
  <1> QED
    BY <1>2, <1>4, <1>5, <1>6, <1>7

\* The UART sends the first byte of its FIFO.
LEMMA GotTransmitted ==
  ASSUME NEW u \in Uart, NEW v \in Uart, NEW m, Got(u, m), u.fifo # <<>>,
         v.fifo = Tail(u.fifo), v.wire = Append(u.wire, Head(u.fifo))
  PROVE  Got(v, m)
  <1> DEFINE f == Len(u.fifo)
             w == Len(u.wire)
  <1>1. /\ u.fifo \in Seq(Line) /\ u.wire \in Seq(Line)
    BY DEF Uart
  <1>2. /\ Len(v.fifo) = f - 1
        /\ \A i \in 1 .. f - 1 : v.fifo[i] = u.fifo[i + 1]
    BY <1>1
  <1>3. /\ Len(v.wire) = w + 1 /\ v.wire[w + 1] = u.fifo[1]
        /\ \A i \in 1 .. w : v.wire[i] = u.wire[i]
    BY <1>1
  <1>4. f \in Nat \ {0} /\ w \in Nat
    BY <1>1
  <1>5. /\ w + f = Len(asked) - m
        /\ \A i \in 1 .. w : u.wire[i] = asked[i]
        /\ \A i \in 1 .. f : u.fifo[i] = asked[w + i]
    BY DEF Got
  <1> HIDE DEF f, w
  <1>6. (w + 1) + (f - 1) = w + f
    BY <1>4
  <1>7. \A i \in 1 .. w + 1 : v.wire[i] = asked[i]
    BY <1>3, <1>4, <1>5
  <1>8. \A i \in 1 .. f - 1 : v.fifo[i] = asked[(w + 1) + i]
    <2> SUFFICES ASSUME NEW i \in 1 .. f - 1 PROVE v.fifo[i] = asked[(w + 1) + i]
      OBVIOUS
    <2>1. i + 1 \in 1 .. f /\ w + (i + 1) = (w + 1) + i
      BY <1>4
    <2>2. u.fifo[i + 1] = asked[w + (i + 1)]
      BY <1>5, <2>1
    <2> QED
      BY <1>2, <2>1, <2>2
  <1> QED
    BY <1>2, <1>3, <1>5, <1>6, <1>7, <1>8 DEF Got
\* A port that has sent nothing has got what was asked for when that is nothing.
LEMMA GotNothing ==
  ASSUME NEW u, u.fifo = <<>>, u.wire = <<>>, asked = <<>>
  PROVE  Got(u, 0)
  BY DEF Got

\* What is asked for in addition is missing.
LEMMA GotMore ==
  ASSUME NEW u \in Uart, Got(u, 0), NEW e \in Seq(Line), asked \in Seq(Line),
         asked' = asked \o e, NEW m, m = Len(e)
  PROVE  /\ Len(u.wire) + Len(u.fifo) = Len(asked') - m
         /\ \A i \in 1 .. Len(u.wire) : u.wire[i] = asked'[i]
         /\ \A i \in 1 .. Len(u.fifo) : u.fifo[i] = asked'[Len(u.wire) + i]
  <1> DEFINE f == Len(u.fifo)
             w == Len(u.wire)
             n == Len(asked)
  <1>1. f \in Nat /\ w \in Nat /\ n \in Nat /\ m \in Nat
    BY DEF Uart
  <1>2. /\ w + f = n - 0
        /\ \A i \in 1 .. w : u.wire[i] = asked[i]
        /\ \A i \in 1 .. f : u.fifo[i] = asked[w + i]
    BY DEF Got
  <1>3. Len(asked') = n + m /\ \A i \in 1 .. n : asked'[i] = asked[i]
    BY ConcatProperties
  <1> HIDE DEF f, w, n
  <1>4. w + f = (n + m) - m
    BY <1>1, <1>2
  <1>5. \A i \in 1 .. w : i \in 1 .. n
    BY <1>1, <1>2
  <1>6. \A i \in 1 .. f : w + i \in 1 .. n
    BY <1>1, <1>2
  <1> QED
    BY <1>2, <1>3, <1>4, <1>5, <1>6 DEF f, w
\* Where the loop of write goes on nothing changes for the other ports.
LEMMA MissingNext ==
  ASSUME Types, call = "write", next = 2, NextSlot, byte' = byte, NEW s \in Slot
  PROVE  /\ s # slot => Missing(s)' = Missing(s)
         /\ s = slot => Missing(s)' = 0 /\ Missing(s) = 1
  <1>1. slot \in 1 .. Slots /\ s \in 1 .. Slots
    BY DEF Types, Slot
  <1>2. /\ slot' = IF slot = Slots THEN 1 ELSE slot + 1
        /\ call' = IF slot = Slots THEN "idle" ELSE "write"
        /\ next' = 1
    BY DEF NextSlot
  <1> QED
    BY <1>1, <1>2, SerialAssumption DEF Missing

\* init forgets what was asked for, and empties every FIFO it passes.
LEMMA InitPrefixes ==
  ASSUME Ports, Ports', Prefixes, CallInit \/ InitAbsent \/ InitPresent
  PROVE  Prefixes'
  <1>1. CASE CallInit
    <2>1. call' = "init" /\ asked' = <<>> /\ slot' = 1
      BY <1>1 DEF CallInit, Ports, Types
    <2>2. \A s \in Slot : ~(s < 1)
      BY DEF Slot
    <2> QED
      BY <2>1, <2>2 DEF Prefixes
  <1>2. ASSUME InitAbsent \/ InitPresent
        PROVE  Prefixes'
    <2>1. /\ call = "init" /\ bda' = bda /\ asked' = asked /\ asked = <<>> /\ inits' = inits
          /\ slot \in Slot /\ next \in 1 .. 7
      BY <1>2 DEF InitAbsent, InitPresent, Ports, Types, Prefixes
    <2>2. \A s \in Slot : s # slot => uart'[s] = uart[s]
      BY <1>2 DEF InitAbsent, InitPresent, Ports, Types
    <2>3. CASE slot' = slot /\ call' = call
      <3>1. \A s \in Slot : s < slot => s # slot
        BY <2>1 DEF Slot
      <3> QED
        BY <2>1, <2>2, <2>3, <3>1 DEF Prefixes
    <2>4. CASE NextSlot
      <3>1. /\ call' = "idle" => slot = Slots
            /\ call' # "idle" => call' = "init" /\ slot' = slot + 1
        BY <2>1, <2>4, NextSlotTyped DEF Ports
      <3>2. bda[slot] => uart'[slot].fifo = <<>> /\ uart'[slot].wire = <<>>
        <4>1. CASE InitAbsent
          BY <4>1 DEF InitAbsent
        <4>2. CASE InitPresent
          <5>1. next = 7
            <6>1. ~(next < 7)
              <7>1. CASE next < 7
                <8>1. next' = next + 1 /\ next' = 1
                  BY <2>4, <4>2, <7>1, SetupIs DEF InitPresent, NextSlot
                <8> QED
                  BY <2>1, <8>1
              <7> QED
                BY <7>1
            <6> QED
              BY <2>1, <6>1
          <5>2. uart[slot] \in Uart /\ Progress(uart[slot], 7)
            BY <2>1, <4>2, <5>1 DEF Ports, Types, Settings, UnderWay, InitPresent
          <5>3. uart'[slot] = Outb(uart[slot], Setup[7][1], Setup[7][2])
            BY <2>1, <4>2, <5>1 DEF InitPresent, Ports, Types
          <5> QED
            BY <5>2, <5>3, SetupStep
        <4> QED
          BY <1>2, <4>1, <4>2
      <3>3. \A s \in Slot : bda[s] /\ s <= slot => uart'[s].fifo = <<>> /\ uart'[s].wire = <<>>
        <4>1. \A s \in Slot : s <= slot => s < slot \/ s = slot
          BY <2>1 DEF Slot
        <4> QED
          BY <2>1, <2>2, <3>2, <4>1 DEF Prefixes
      <3>4. CASE call' = "init"
        <4>1. \A s \in Slot : s < slot' => s <= slot
          BY <2>1, <3>1, <3>4 DEF Slot
        <4> QED
          BY <2>1, <3>3, <3>4, <4>1 DEF Prefixes
      <3>5. CASE call' = "idle"
        <4>1. \A s \in Slot : s <= slot
          BY <3>1, <3>5 DEF Slot
        <4>2. \A s \in Slot : device'[s] = bda[s]
          <5>1. inits > 0
            BY <2>1 DEF Ports, Types, Found
          <5> QED
            BY <2>1, <3>5, <5>1 DEF Ports, Found
        <4>3. ASSUME NEW s \in Slot, device'[s] PROVE Got(uart[s], Missing(s))'
          <5>1. uart'[s].fifo = <<>> /\ uart'[s].wire = <<>> /\ asked' = <<>>
            BY <2>1, <3>3, <4>1, <4>2, <4>3
          <5>2. Missing(s)' = 0
            BY <3>5 DEF Missing
          <5> QED
            BY <5>1, <5>2 DEF Got
        <4> QED
          BY <3>5, <4>3 DEF Prefixes
      <3> QED
        BY <3>1, <3>4, <3>5
    <2> QED
      BY <1>2, <2>3, <2>4 DEF InitAbsent, InitPresent
  <1> QED
    BY <1>1, <1>2

\* A call of write asks for one byte more, or two, which no port has yet.
LEMMA CallWritePrefixes ==
  ASSUME Ports, Prefixes, NEW b \in Chars, CallWrite(b)
  PROVE  Prefixes'
  <1>1. /\ call = "idle" /\ call' = "write" /\ slot' = 1 /\ next' = 1 /\ byte' = b
        /\ uart' = uart /\ device' = device /\ asked' = asked \o Expand(b)
    BY DEF CallWrite, Ports, Types
  <1>2. asked \in Seq(Line) /\ uart \in [Slot -> Uart]
    BY DEF Ports, Types
  <1>3. /\ Expand(b) \in Seq(Line)
        /\ Len(Expand(b)) = IF b = "LF" THEN 2 ELSE 1
        /\ Expand(b)[Len(Expand(b))] = b
        /\ b = "LF" => Expand(b)[1] = "CR"
    <2>1. CASE b = "LF"
      <3>1. Expand(b) = <<"CR", "LF">>
        BY <2>1 DEF Expand
      <3> QED
        BY <2>1, <3>1 DEF Line
    <2>2. CASE b = "x"
      <3>1. Expand(b) = <<"x">>
        BY <2>2 DEF Expand
      <3> QED
        BY <2>2, <3>1 DEF Line
    <2> QED
      BY <2>1, <2>2 DEF Chars
  <1>4. /\ Len(asked') = Len(asked) + Len(Expand(b))
        /\ \A i \in 1 .. Len(asked) + Len(Expand(b)) :
             asked'[i] = IF i <= Len(asked) THEN asked[i] ELSE Expand(b)[i - Len(asked)]
    BY <1>1, <1>2, <1>3, ConcatProperties
  <1>5. Len(asked) \in Nat
    BY <1>2
  <1>6. /\ Len(asked') >= IF b = "LF" THEN 2 ELSE 1
        /\ asked'[Len(asked')] = b
        /\ b = "LF" => asked'[Len(asked') - 1] = "CR"
    <2> DEFINE n == Len(asked)
               e == Expand(b)
               q == asked'
    <2>1. /\ n \in Nat /\ Len(q) = n + Len(e) /\ Len(e) = IF b = "LF" THEN 2 ELSE 1
          /\ \A i \in 1 .. n + Len(e) : q[i] = IF i <= n THEN asked[i] ELSE e[i - n]
          /\ e[Len(e)] = b /\ (b = "LF" => e[1] = "CR")
      BY <1>3, <1>4, <1>5
    <2> HIDE DEF n, e, q
    <2>2. Len(q) >= IF b = "LF" THEN 2 ELSE 1
      BY <2>1
    <2>3. CASE b = "LF"
      <3>1. Len(q) = n + 2 /\ q[n + 2] = e[2] /\ q[n + 1] = e[1] /\ Len(e) = 2
        BY <2>1, <2>3
      <3> QED
        BY <2>1, <2>2, <2>3, <3>1 DEF q
    <2>4. CASE b # "LF"
      <3>1. Len(q) = n + 1 /\ q[n + 1] = e[1] /\ Len(e) = 1
        BY <2>1, <2>4
      <3> QED
        BY <2>1, <2>2, <2>4, <3>1 DEF q
    <2> QED
      BY <2>3, <2>4
  <1>7. ASSUME NEW s \in Slot, device'[s] PROVE Got(uart[s], Missing(s))'
    <2>1. Missing(s)' = Len(Expand(b))
      BY <1>1, <1>3 DEF Missing, Slot
    <2>2. Missing(s) = 0 /\ Got(uart[s], 0)
      BY <1>1, <1>7 DEF Missing, Prefixes
    <2>3. uart[s] \in Uart /\ uart'[s] = uart[s]
      BY <1>1, <1>2
    <2>4. /\ Len(uart[s].wire) + Len(uart[s].fifo) = Len(asked') - Len(Expand(b))
          /\ \A i \in 1 .. Len(uart[s].wire) : uart[s].wire[i] = asked'[i]
          /\ \A i \in 1 .. Len(uart[s].fifo) :
               uart[s].fifo[i] = asked'[Len(uart[s].wire) + i]
      BY <1>1, <1>2, <1>3, <2>2, <2>3, GotMore
    <2> QED
      BY <2>1, <2>3, <2>4 DEF Got
  <1> QED
    BY <1>1, <1>6, <1>7 DEF Prefixes

\* A step of write gives its port the byte that port is missing.
LEMMA WritePrefixes ==
  ASSUME Ports, Prefixes, WriteStep
  PROVE  Prefixes'
  <1>1. /\ Types /\ call = "write" /\ slot \in Slot /\ byte' = byte /\ asked' = asked
        /\ device' = device /\ uart \in [Slot -> Uart] /\ asked \in Seq(Line)
        /\ call' \in {"write", "idle"}
    BY DEF WriteStep, WriteCr, WriteSkip, WriteByte, NextSlot, Ports, Types
  <1>2. /\ Len(asked) >= IF byte = "LF" THEN 2 ELSE 1
        /\ asked[Len(asked)] = byte
        /\ byte = "LF" => asked[Len(asked) - 1] = "CR"
        /\ \A s \in Slot : device[s] => Got(uart[s], Missing(s))
    BY <1>1 DEF Prefixes
  <1>3. \A s \in Slot : \A m : uart'[s] = uart[s] /\ Missing(s)' = m =>
          (Got(uart[s], Missing(s))' <=> Got(uart[s], m))
    BY <1>1 DEF Got
  <1>4. SUFFICES ASSUME NEW s \in Slot, device[s] PROVE Got(uart[s], Missing(s))'
    BY <1>1, <1>2 DEF Prefixes
  <1>5. Got(uart[s], Missing(s)) /\ uart[s] \in Uart /\ Len(asked) \in Nat
    BY <1>1, <1>2, <1>4
  <1>6. CASE WriteCr
    <2>1. next = 1 /\ next' = 2 /\ slot' = slot /\ call' = call
      BY <1>6 DEF WriteCr
    <2>2. CASE s = slot /\ byte = "LF"
      <3>1. uart' = [uart EXCEPT ![slot] = Outb(@, 0, "CR")]
        BY <1>4, <1>6, <2>2 DEF WriteCr
      <3>2. uart'[s] = Outb(uart[s], 0, "CR")
        BY <1>1, <2>2, <3>1
      <3>3. uart[s].lcr = 3 /\ Len(uart[s].fifo) <= 1
        BY <1>1, <2>1 DEF Ports, Settings, Room, UnderWay
      <3>4. /\ uart'[s] \in Uart /\ uart'[s].fifo = Append(uart[s].fifo, "CR")
            /\ uart'[s].wire = uart[s].wire
        BY <1>5, <3>2, <3>3, SendStep DEF Line
      <3>5. Missing(s) = 2 /\ Missing(s)' = 1
        BY <1>1, <2>1, <2>2 DEF Missing, Slot
      <3>6. Len(asked) - 2 + 1 = Len(asked) - 1
        BY <1>5
      <3>7. Got(uart'[s], 2 - 1)
        <4>1. /\ Got(uart[s], 2) /\ asked[Len(asked) - 2 + 1] = "CR"
              /\ uart'[s] \in Uart /\ asked \in Seq(Line)
          BY <1>1, <1>2, <1>5, <2>2, <3>4, <3>5, <3>6
        <4>2. 2 \in Nat \ {0}
          OBVIOUS
        <4> QED
          BY <1>5, <3>4, <4>1, <4>2, GotSent, Zenon
      <3>8. Got(uart'[s], 1)
        BY <3>7
      <3> QED
        BY <1>1, <3>5, <3>8 DEF Got
    <2>3. CASE ~(s = slot /\ byte = "LF")
      <3>1. uart'[s] = uart[s]
        BY <1>1, <1>6, <2>3 DEF WriteCr
      <3>2. Missing(s)' = Missing(s)
        BY <1>1, <2>1, <2>3 DEF Missing
      <3> QED
        BY <1>3, <1>5, <3>1, <3>2
    <2> QED
      BY <2>2, <2>3
  <1>7. CASE WriteSkip
    <2>1. s # slot /\ uart' = uart /\ NextSlot /\ next = 2
      BY <1>4, <1>7 DEF WriteSkip
    <2> QED
      BY <1>1, <1>3, <1>5, <2>1, MissingNext
  <1>8. CASE WriteByte
    <2>1. /\ NextSlot /\ next = 2 /\ uart[slot].fifo = <<>>
          /\ uart' = [uart EXCEPT ![slot] = Outb(@, 0, byte)]
      BY <1>8 DEF WriteByte
    <2>2. CASE s # slot
      BY <1>1, <1>3, <1>5, <2>1, <2>2, MissingNext
    <2>3. CASE s = slot
      <3>1. uart'[s] = Outb(uart[s], 0, byte) /\ byte \in Line
        BY <1>1, <2>1, <2>3 DEF Types, Chars, Line
      <3>2. uart[s].lcr = 3 /\ Len(uart[s].fifo) <= 1
        BY <1>1, <2>1, <2>3 DEF Ports, Settings, UnderWay
      <3>3. /\ uart'[s] \in Uart /\ uart'[s].fifo = Append(uart[s].fifo, byte)
            /\ uart'[s].wire = uart[s].wire
        BY <1>5, <3>1, <3>2, SendStep
      <3>4. Missing(s) = 1 /\ Missing(s)' = 0
        BY <1>1, <2>1, <2>3, MissingNext
      <3>5. Len(asked) - 1 + 1 = Len(asked) /\ 1 - 1 = 0
        BY <1>5
      <3>6. Got(uart'[s], 1 - 1)
        <4>1. /\ Got(uart[s], 1) /\ asked[Len(asked) - 1 + 1] = byte
              /\ uart'[s] \in Uart /\ asked \in Seq(Line)
          BY <1>1, <1>2, <1>5, <3>3, <3>4, <3>5
        <4>2. 1 \in Nat \ {0}
          OBVIOUS
        <4> QED
          BY <1>5, <3>3, <4>1, <4>2, GotSent, Zenon
      <3>7. Got(uart'[s], 0)
        BY <3>5, <3>6
      <3> QED
        BY <1>1, <3>4, <3>7 DEF Got
    <2> QED
      BY <2>2, <2>3
  <1> QED
    BY <1>6, <1>7, <1>8 DEF WriteStep

\* Sending moves a byte from the FIFO to the wire and loses none.
LEMMA TransmitPrefixes ==
  ASSUME Ports, Ports', Prefixes, NEW s \in Slot, Transmit(s)
  PROVE  Prefixes'
  <1> DEFINE u == uart[s]
             v == uart'[s]
  <1>1. /\ call' = call /\ slot' = slot /\ next' = next /\ byte' = byte /\ asked' = asked
        /\ bda' = bda /\ device' = device /\ u.fifo # <<>>
        /\ uart \in [Slot -> Uart] /\ u \in Uart /\ v \in Uart
    BY DEF Transmit, Ports, Types
  <1>2. /\ \A t \in Slot : t # s => uart'[t] = uart[t]
        /\ v.fifo = Tail(u.fifo) /\ v.wire = Append(u.wire, Head(u.fifo))
    BY <1>1 DEF Transmit, Uart
  <1> HIDE DEF u, v
  <1>3. \A t \in Slot : Missing(t)' = Missing(t)
    BY <1>1 DEF Missing
  <1>4. CASE call = "init"
    <2>1. ~(bda[s] /\ s < slot)
      BY <1>1, <1>4 DEF Prefixes, u
    <2> QED
      BY <1>1, <1>2, <1>4, <2>1 DEF Prefixes
  <1>5. CASE call # "init"
    <2>1. ASSUME NEW t \in Slot, device[t] PROVE Got(uart[t], Missing(t))'
      <3>1. Got(uart[t], Missing(t))
        BY <1>5, <2>1 DEF Prefixes
      <3>2. CASE t = s
        <4>1. Got(v, Missing(t))
          BY <1>1, <1>2, <3>1, <3>2, GotTransmitted DEF u
        <4> QED
          BY <1>1, <1>3, <3>2, <4>1 DEF Got, v
      <3>3. CASE t # s
        BY <1>1, <1>2, <1>3, <3>1, <3>3 DEF Got
      <3> QED
        BY <3>2, <3>3
    <2> QED
      BY <1>1, <1>5, <2>1 DEF Prefixes
  <1> QED
    BY <1>4, <1>5

\* What the ports have got is a prefix of what was asked for throughout.
LEMMA PrefixesInductive == Spec => [](Ports /\ Prefixes)
  <1>1. Init => Prefixes
    BY DEF Init, Prefixes
  <1>2. ASSUME Ports, Ports', Prefixes, [Next]_vars PROVE Prefixes'
    <2>1. CASE UNCHANGED vars
      BY <1>2, <2>1 DEF vars, Prefixes, Got, Missing
    <2> QED
      BY <1>2, <2>1, InitPrefixes, CallWritePrefixes, WritePrefixes, TransmitPrefixes
      DEF Next, InitStep
  <1> QED
    BY <1>1, <1>2, PortsInductive, PTL DEF Spec
-----------------------------------------------------------------------------
(* What goes to port 0.                                                    *)

\* The numbers that are multiplied are numbers.
LEMMA Countable ==
  ASSUME Types
  PROVE  /\ IsFiniteSet(LineFeeds) /\ Cardinality(LineFeeds) \in Nat
         /\ IsFiniteSet(Absent) /\ Cardinality(Absent) \in Nat
         /\ IsFiniteSet(Passed) /\ Cardinality(Passed) \in Nat
  <1>1. IsFiniteSet(Slot) /\ IsFiniteSet(1 .. Len(asked))
    <2>1. 1 \in Int /\ Slots \in Int /\ Len(asked) \in Int
      BY SerialAssumption DEF Types
    <2> QED
      BY <2>1, FS_Interval DEF Slot
  <1>2. /\ LineFeeds \subseteq 1 .. Len(asked) /\ Absent \subseteq Slot /\ Passed \subseteq Slot
    BY DEF LineFeeds, Absent, Passed, Types
  <1> QED
    BY <1>1, <1>2, FS_Subset, FS_CardinalityType

\* While write is under way the devices are the ports of the table.
LEMMA WriteFound ==
  ASSUME Ports, call = "write"
  PROVE  \A s \in Slot : device[s] = bda[s]
  <1>1. inits > 0
    BY DEF Ports, Types, Found
  <1> QED
    BY <1>1 DEF Ports, Found

\* A line feed more.
LEMMA CallWriteStrays ==
  ASSUME Ports, Ports', Strays, NEW b \in Chars, CallWrite(b)
  PROVE  Strays'
  <1> DEFINE n == Len(asked)
  <1>1. /\ call = "idle" /\ call' = "write" /\ byte' = b /\ slot' = 1 /\ next' = 1
        /\ bda' = bda /\ stray' = stray /\ asked' = asked \o Expand(b)
        /\ asked \in Seq(Line) /\ n \in Nat /\ Types /\ Types'
    BY DEF CallWrite, Ports, Types
  <1>2. Absent' = Absent /\ Passed' = {}
    BY <1>1 DEF Absent, Passed, Slot
  <1>3. stray = Cardinality(LineFeeds) * Cardinality(Absent)
    BY <1>1 DEF Strays
  <1>4. CASE b = "LF"
    <2>1. Expand(b) = <<"CR", "LF">> /\ Expand(b) \in Seq(Line)
      BY <1>4 DEF Expand, Line
    <2>2. /\ DOMAIN asked = 1 .. n /\ DOMAIN asked' = 1 .. n + 2
          /\ \A i \in 1 .. n : asked'[i] = asked[i]
          /\ asked'[n + 1] = "CR" /\ asked'[n + 2] = "LF"
      <3>1. /\ Len(asked') = n + 2
            /\ \A i \in 1 .. n + 2 :
                 asked'[i] = IF i <= n THEN asked[i] ELSE Expand(b)[i - n]
        BY <1>1, <2>1, ConcatProperties
      <3>2. DOMAIN asked = 1 .. n /\ DOMAIN asked' = 1 .. n + 2
        BY <1>1, <3>1 DEF Types
      <3> HIDE DEF n
      <3>3. (n + 1) - n = 1 /\ (n + 2) - n = 2 /\ n + 1 \in 1 .. n + 2 /\ n + 2 \in 1 .. n + 2
            /\ ~(n + 1 <= n) /\ ~(n + 2 <= n) /\ \A i \in 1 .. n : i \in 1 .. n + 2 /\ i <= n
        BY <1>1
      <3>4. asked'[n + 1] = Expand(b)[1] /\ asked'[n + 2] = Expand(b)[2]
        BY <3>1, <3>3
      <3> QED
        BY <2>1, <3>1, <3>2, <3>3, <3>4
    <2> HIDE DEF n
    <2>3. LineFeeds' = LineFeeds \cup {n + 2} /\ n + 2 \notin LineFeeds
      BY <1>1, <2>2 DEF LineFeeds
    <2>4. Cardinality(LineFeeds') = Cardinality(LineFeeds) + 1
      BY <1>1, <2>3, Countable, FS_AddElement
    <2>5. Cardinality(Passed') = 0
      BY <1>2, FS_EmptySet
    <2> DEFINE l == Cardinality(LineFeeds)
               a == Cardinality(Absent)
    <2>6. l \in Nat /\ a \in Nat
      BY <1>1, Countable
    <2>7. Cardinality(LineFeeds') = l + 1 /\ Cardinality(Absent') = a /\ stray = l * a
      BY <1>2, <1>3, <2>4
    <2> HIDE DEF l, a
    <2>8. (l + 1) - 1 = l /\ l * a + 0 = l * a
      BY <2>6
    <2> QED
      BY <1>1, <1>4, <2>5, <2>7, <2>8 DEF Strays
  <1>5. CASE b = "x"
    <2>1. Expand(b) = <<"x">> /\ Expand(b) \in Seq(Line)
      BY <1>5 DEF Expand, Line
    <2>2. /\ DOMAIN asked = 1 .. n /\ DOMAIN asked' = 1 .. n + 1
          /\ \A i \in 1 .. n : asked'[i] = asked[i]
          /\ asked'[n + 1] = "x"
      BY <1>1, <2>1, AppendProperties
    <2> HIDE DEF n
    <2>3. LineFeeds' = LineFeeds
      BY <1>1, <2>2 DEF LineFeeds
    <2> QED
      BY <1>1, <1>2, <1>3, <1>5, <2>3 DEF Strays
  <1> QED
    BY <1>4, <1>5 DEF Chars

\* The CR for an absent port, and the end of the loop.
LEMMA WriteStrays ==
  ASSUME Ports, Ports', Strays, WriteStep
  PROVE  Strays'
  <1>1. /\ call = "write" /\ byte' = byte /\ asked' = asked /\ bda' = bda
        /\ slot \in 1 .. Slots /\ Types /\ Types' /\ bda \in [Slot -> BOOLEAN]
        /\ Slot = 1 .. Slots
    BY DEF WriteStep, WriteCr, WriteSkip, WriteByte, Ports, Types, Slot
  <1>2. LineFeeds' = LineFeeds /\ Absent' = Absent
    BY <1>1 DEF LineFeeds, Absent
  <1> DEFINE l == Cardinality(LineFeeds)
             a == Cardinality(Absent)
             p == Cardinality(Passed)
  <1>3. l \in Nat /\ a \in Nat /\ p \in Nat /\ stray \in Nat
    BY <1>1, Countable DEF Types
  <1>4. stray = IF byte = "LF" THEN (l - 1) * a + p ELSE l * a
    BY <1>1 DEF Strays
  <1>5. CASE WriteCr
    <2>1. next = 1 /\ next' = 2 /\ slot' = slot /\ call' = call
      BY <1>5 DEF WriteCr
    <2>2. CASE byte # "LF"
      <3>1. stray' = stray
        BY <1>5, <2>2 DEF WriteCr
      <3> QED
        BY <1>1, <1>2, <1>4, <2>1, <2>2, <3>1 DEF Strays
    <2>3. CASE byte = "LF" /\ device[slot]
      <3>1. bda[slot] /\ stray' = stray
        BY <1>1, <1>5, <2>3, WriteFound DEF WriteCr
      <3>2. Passed' = Passed
        BY <1>1, <2>1, <3>1 DEF Passed
      <3> QED
        BY <1>1, <1>2, <1>4, <2>1, <2>3, <3>1, <3>2 DEF Strays
    <2>4. CASE byte = "LF" /\ ~device[slot]
      <3>1. ~bda[slot] /\ stray' = stray + 1
        BY <1>1, <1>5, <2>4, WriteFound DEF WriteCr
      <3>2. Passed' = Passed \cup {slot} /\ slot \notin Passed
        BY <1>1, <2>1, <3>1 DEF Passed
      <3>3. Cardinality(Passed') = p + 1
        BY <1>1, <3>2, Countable, FS_AddElement
      <3>4. stray' = (Cardinality(LineFeeds') - 1) * Cardinality(Absent') + Cardinality(Passed')
        <4>1. stray = (l - 1) * a + p /\ (l - 1) * a \in Int
          BY <1>3, <1>4, <2>4
        <4> HIDE DEF l, a, p
        <4>2. stray' = (l - 1) * a + (p + 1)
          BY <1>3, <3>1, <4>1
        <4> QED
          BY <1>2, <3>3, <4>2 DEF l, a
      <3> QED
        BY <1>1, <2>1, <2>4, <3>4 DEF Strays
    <2> QED
      BY <2>2, <2>3, <2>4
  <1>6. CASE WriteSkip \/ WriteByte
    <2>1. next = 2 /\ NextSlot /\ stray' = stray
      BY <1>6 DEF WriteSkip, WriteByte
    <2>2. /\ slot' = IF slot = Slots THEN 1 ELSE slot + 1
          /\ call' = IF slot = Slots THEN "idle" ELSE "write"
          /\ next' = 1
      BY <1>1, <2>1 DEF NextSlot
    <2>3. CASE slot # Slots
      <3>1. Passed' = Passed
        BY <1>1, <2>1, <2>2, <2>3 DEF Passed
      <3> QED
        BY <1>1, <1>2, <1>4, <2>1, <2>2, <2>3, <3>1 DEF Strays
    <2>4. CASE slot = Slots
      <3>1. Passed = Absent
        BY <1>1, <2>1, <2>4 DEF Passed, Absent
      <3>2. stray = l * a
        <4>1. p = a
          BY <3>1
        <4> HIDE DEF l, a, p
        <4>2. (l - 1) * a + a = l * a
          BY <1>3
        <4> QED
          BY <1>4, <4>1, <4>2
      <3> QED
        BY <1>2, <2>1, <2>2, <2>4, <3>2 DEF Strays
    <2> QED
      BY <2>3, <2>4
  <1> QED
    BY <1>5, <1>6 DEF WriteStep

\* The whole invariant holds throughout.
LEMMA SerialInductive == Spec => []SInv
  <1>1. Init => Strays
    <2> SUFFICES ASSUME Init PROVE Strays
      OBVIOUS
    <2>1. LineFeeds = {} /\ call = "idle" /\ stray = 0
      BY DEF Init, LineFeeds
    <2>2. Types
      BY PortsStart DEF Ports
    <2>3. Cardinality(LineFeeds) = 0 /\ Cardinality(Absent) \in Nat
      BY <2>1, <2>2, FS_EmptySet, Countable
    <2> QED
      BY <2>1, <2>3 DEF Strays
  <1>2. ASSUME Ports, Ports', Prefixes, Strays, [Next]_vars PROVE Strays'
    <2>1. CASE UNCHANGED vars
      BY <1>2, <2>1 DEF vars, Strays, LineFeeds, Absent, Passed
    <2>2. CASE CallInit
      BY <2>2 DEF CallInit, Strays
    <2>3. CASE InitStep
      <3>1. /\ call = "init" /\ stray' = stray /\ asked' = asked /\ asked = <<>>
            /\ stray = 0 /\ call' \in {"init", "idle"}
        BY <1>2, <2>3 DEF InitStep, InitAbsent, InitPresent, NextSlot, Prefixes, Strays
      <3>2. Cardinality(LineFeeds') = 0
        <4>1. LineFeeds' = {}
          BY <3>1 DEF LineFeeds
        <4> QED
          BY <4>1, FS_EmptySet
      <3>3. Cardinality(Absent') \in Nat
        <4>1. Absent' = Absent
          BY <2>3 DEF InitStep, InitAbsent, InitPresent, Absent
        <4> QED
          BY <1>2, <4>1, Countable DEF Ports
      <3>4. 0 * Cardinality(Absent') = 0
        BY <3>3
      <3> QED
        BY <3>1, <3>2, <3>4 DEF Strays
    <2>4. ASSUME NEW s \in Slot, Transmit(s) PROVE Strays'
      BY <1>2, <2>4 DEF Transmit, Strays, LineFeeds, Absent, Passed
    <2> QED
      BY <1>2, <2>1, <2>2, <2>3, <2>4, CallWriteStrays, WriteStrays DEF Next
  <1> QED
    BY <1>1, <1>2, PrefixesInductive, PTL DEF Spec, SInv

-----------------------------------------------------------------------------
\* Every port gets what printf wrote, in order and with a CR before every LF, and port 0
\* one CR for each absent slot and each LF (serial.cc:25-33), for any table of ports and
\* any text.
THEOREM BroadcastHolds == Spec => []Broadcast
  <1>1. ASSUME SInv PROVE Broadcast
    <2> SUFFICES ASSUME call # "init" PROVE Broadcast
      BY DEF Broadcast
    <2>1. ASSUME NEW s \in Slot, device[s]
          PROVE  LET out == uart[s].wire \o uart[s].fifo
                 IN  /\ Len(out) <= Len(asked) /\ out = SubSeq(asked, 1, Len(out))
                     /\ call = "idle" => out = asked
      <3> DEFINE w == uart[s].wire
                 f == uart[s].fifo
                 out == w \o f
                 m == Missing(s)
      <3>1. w \in Seq(Line) /\ f \in Seq(Line) /\ asked \in Seq(Line)
        BY <1>1 DEF SInv, Ports, Types, Uart
      <3>2. /\ Len(w) + Len(f) = Len(asked) - m
            /\ \A i \in 1 .. Len(w) : w[i] = asked[i]
            /\ \A i \in 1 .. Len(f) : f[i] = asked[Len(w) + i]
        BY <1>1, <2>1 DEF SInv, Prefixes, Got
      <3>3. m \in Nat /\ (call = "idle" => m = 0)
        BY DEF Missing
      <3> HIDE DEF w, f, m
      <3>4. /\ out \in Seq(Line) /\ Len(out) = Len(w) + Len(f)
            /\ \A i \in 1 .. Len(w) + Len(f) : out[i] = IF i <= Len(w) THEN w[i] ELSE f[i - Len(w)]
        BY <3>1, ConcatProperties
      <3>5. Len(w) \in Nat /\ Len(f) \in Nat /\ Len(asked) \in Nat
        BY <3>1
      <3>6. ASSUME NEW i \in 1 .. Len(out) PROVE out[i] = asked[i]
        <4>1. i \in 1 .. Len(w) + Len(f)
          BY <3>4
        <4>2. CASE i <= Len(w)
          <5>1. i \in 1 .. Len(w)
            BY <3>5, <4>1, <4>2
          <5> QED
            BY <3>2, <3>4, <4>1, <4>2, <5>1
        <4>3. CASE ~(i <= Len(w))
          <5>1. i - Len(w) \in 1 .. Len(f) /\ Len(w) + (i - Len(w)) = i
            BY <3>5, <4>1, <4>3
          <5>2. out[i] = f[i - Len(w)]
            BY <3>4, <4>1, <4>3
          <5> QED
            BY <3>2, <5>1, <5>2
        <4> QED
          BY <4>2, <4>3
      <3> HIDE DEF out
      <3>7. Len(out) \in 0 .. Len(asked) /\ (call = "idle" => Len(out) = Len(asked))
        <4> DEFINE x == Len(w)
                   y == Len(f)
                   n == Len(asked)
                   k == Len(out)
        <4>1. x \in Nat /\ y \in Nat /\ n \in Nat /\ m \in Nat /\ x + y = n - m /\ k = x + y
          BY <3>2, <3>3, <3>4, <3>5
        <4> HIDE DEF x, y, n, k
        <4>2. k \in 0 .. n /\ (m = 0 => k = n)
          BY <4>1
        <4> QED
          BY <3>3, <4>2 DEF k, n
      <3>8. out = SubSeq(asked, 1, Len(out))
        BY <3>1, <3>4, <3>6, <3>7, SeqEqual, SubSeqProperties
      <3>9. call = "idle" => out = asked
        BY <3>1, <3>4, <3>6, <3>7, SeqEqual
      <3> QED
        <4>1. Len(out) <= Len(asked)
          BY <3>5, <3>7
        <4> QED
          BY <3>8, <3>9, <4>1 DEF out, w, f
    <2>2. call = "idle" => stray = Cardinality({i \in DOMAIN asked : asked[i] = "LF"})
                                   * Cardinality({s \in Slot : ~bda[s]})
      BY <1>1 DEF SInv, Strays, LineFeeds, Absent
    <2> QED
      BY <2>1, <2>2 DEF Broadcast
  <1> QED
    BY <1>1, SerialInductive, PTL
=============================================================================
