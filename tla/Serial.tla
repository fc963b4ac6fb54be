------------------------------- MODULE Serial -------------------------------
(***************************************************************************)
(* The serial console: ComDevices::init and ComDevices::write of           *)
(* delice_pxe/src/serial.cc, one port access (misc/io.h) per step, and the *)
(* 16550 UARTs they drive, which send their FIFOs at their own pace.       *)
(* printf calls write for one byte at a time, under its lock; every core   *)
(* that boots calls init again (init.cc:23).                               *)
(***************************************************************************)
EXTENDS Integers, Sequences, FiniteSets

CONSTANTS Slots,     \* entries of ComDevices::device and of the BDA table, 4
          Depth,     \* bytes the transmitter FIFO of a UART holds
          MaxInits,  \* bound: calls of init
          MaxBytes   \* bound: bytes printed between two calls of init

\* 16 in a 16550A.  Two are needed: write sends CR without waiting.
ASSUME SerialAssumption ==
  /\ Slots \in Nat \ {0}
  /\ Depth \in Nat /\ Depth >= 2
  /\ MaxInits \in Nat /\ MaxBytes \in Nat

VARIABLES bda,      \* bda[s]: word s of the table at 0x400 is not 0
          device,   \* device[s]: ComDevices::device[s] is not 0
          uart,     \* the UART behind slot s, where there is one
          call,     \* the call under way: "idle", "init" or "write"
          slot,     \* the slot the loop of that call is at
          next,     \* the next access of that turn of the loop
          byte,     \* the argument of write
          asked,    \* what printf asked for since init, with CR before LF
          stray,    \* bytes written to port 0 since init
          inits     \* calls of init so far

vars == <<bda, device, uart, call, slot, next, byte, asked, stray, inits>>

Slot == 1 .. Slots
Chars == {"x", "LF"}

-----------------------------------------------------------------------------
(* The UART (external).                                                    *)

\* A byte written to a full FIFO is lost.
Push(u, b) == IF Len(u.fifo) < Depth THEN [u EXCEPT !.fifo = Append(@, b)]
              ELSE [u EXCEPT !.lost = TRUE]

\* What outb(port + reg, val) does.  With DLAB (bit 7 of LCR) set, registers 0
\* and 1 are the divisor.  Bits 1 and 2 of FCR empty the FIFOs.
Outb(u, reg, val) ==
  CASE reg = 0 /\ u.lcr >= 128 -> [u EXCEPT !.div = <<val, @[2]>>]
    [] reg = 1 /\ u.lcr >= 128 -> [u EXCEPT !.div = <<@[1], val>>]
    [] reg = 0 /\ u.lcr < 128 -> Push(u, val)
    [] reg = 1 /\ u.lcr < 128 -> [u EXCEPT !.ier = val]
    [] reg = 2 -> [u EXCEPT !.fifo = <<>>, !.wire = <<>>]
    [] reg = 3 -> [u EXCEPT !.lcr = val]
    [] reg = 4 -> [u EXCEPT !.mcr = val]

\* As the firmware left it; wire is what it has sent since the last FCR write.
PowerOn == [ier |-> 1, div |-> <<12, 0>>, lcr |-> 3, mcr |-> 0,
            fifo |-> <<>>, wire |-> <<>>, lost |-> FALSE]

Transmit(s) == /\ uart[s].fifo # <<>>
               /\ uart' = [uart EXCEPT ![s].wire = Append(@, Head(uart[s].fifo)),
                                       ![s].fifo = Tail(@)]
               /\ UNCHANGED <<bda, device, call, slot, next, byte, asked, stray, inits>>

-----------------------------------------------------------------------------
Init == /\ bda \in [Slot -> BOOLEAN]
        /\ device = [s \in Slot |-> FALSE]
        /\ uart = [s \in Slot |-> PowerOn]
        /\ call = "idle" /\ slot = 1 /\ next = 1 /\ byte = "x"
        /\ asked = <<>> /\ stray = 0 /\ inits = 0

\* The loop goes on to the next slot; behind the last one the call returns.
NextSlot == /\ slot' = IF slot = Slots THEN 1 ELSE slot + 1
            /\ call' = IF slot = Slots THEN "idle" ELSE call
            /\ next' = 1

-----------------------------------------------------------------------------
(* ComDevices::init                                                        *)

\* Mutant: the format is written before the divisor.
SetupSwapped == << <<1, 0>>, <<3, 128>>, <<3, 3>>, <<0, 1>>, <<1, 0>>, <<2, 199>>, <<4, 11>> >>

\* The accesses to a port that is there, as register and value: interrupts off,
\* DLAB on, divisor 1, FIFOs on and emptied, 8N1 and DLAB off, DTR/RTS/OUT2.
Setup == << <<1, 0>>, <<3, 128>>, <<0, 1>>, <<1, 0>>, <<2, 199>>, <<3, 3>>, <<4, 11>> >>

CallInit == /\ call = "idle" /\ inits < MaxInits
            /\ call' = "init"
            /\ asked' = <<>> /\ stray' = 0
            /\ inits' = inits + 1
            /\ UNCHANGED <<bda, device, uart, slot, next, byte>>

InitAbsent == /\ call = "init" /\ ~bda[slot]
              /\ device' = [device EXCEPT ![slot] = FALSE]
              /\ NextSlot
              /\ UNCHANGED <<bda, uart, byte, asked, stray, inits>>

InitPresent == /\ call = "init" /\ bda[slot]
               /\ uart' = [uart EXCEPT ![slot] = Outb(@, Setup[next][1], Setup[next][2])]
               /\ IF next < Len(Setup)
                  THEN next' = next + 1 /\ UNCHANGED <<slot, call, device>>
                  ELSE NextSlot /\ device' = [device EXCEPT ![slot] = TRUE]
               /\ UNCHANGED <<bda, byte, asked, stray, inits>>

-----------------------------------------------------------------------------
(* ComDevices::write                                                       *)

\* What a byte should become on the line.
Expand(b) == IF b = "LF" THEN <<"CR", "LF">> ELSE <<b>>

CallWrite(b) == /\ call = "idle" /\ inits > 0 /\ Len(asked) < MaxBytes
                /\ call' = "write"
                /\ byte' = b
                /\ asked' = asked \o Expand(b)
                /\ UNCHANGED <<bda, device, uart, slot, next, stray, inits>>

\* Mutant: LF goes out alone.
WriteNoCr == /\ call = "write" /\ next = 1
             /\ next' = 2
             /\ UNCHANGED <<bda, device, uart, call, slot, byte, asked, stray, inits>>

\* if(byte == '\n') outb(dev, 0x0d): no look at the FIFO, none at dev.
WriteCr == /\ call = "write" /\ next = 1
           /\ IF byte = "LF"
              THEN IF device[slot]
                   THEN uart' = [uart EXCEPT ![slot] = Outb(@, 0, "CR")] /\ UNCHANGED stray
                   ELSE stray' = stray + 1 /\ UNCHANGED uart
              ELSE UNCHANGED <<uart, stray>>
           /\ next' = 2
           /\ UNCHANGED <<bda, device, call, slot, byte, asked, inits>>

\* if(dev == 0) continue
WriteSkip == /\ call = "write" /\ next = 2 /\ ~device[slot]
             /\ NextSlot
             /\ UNCHANGED <<bda, device, uart, byte, asked, stray, inits>>

\* Mutant: the byte is written without waiting for the FIFO.
WriteByteAtOnce == /\ call = "write" /\ next = 2 /\ device[slot]
                   /\ uart' = [uart EXCEPT ![slot] = Outb(@, 0, byte)]
                   /\ NextSlot
                   /\ UNCHANGED <<bda, device, byte, asked, stray, inits>>

\* Mutant: the loop waits for a bit that stays 0.
WriteByteNever == /\ call = "write" /\ next = 2 /\ device[slot]
                  /\ uart[slot].lost
                  /\ NextSlot
                  /\ UNCHANGED <<bda, device, uart, byte, asked, stray, inits>>

\* The loop on LSR ends when the FIFO is empty; then the byte is written.
WriteByte == /\ call = "write" /\ next = 2 /\ device[slot]
             /\ uart[slot].fifo = <<>>
             /\ uart' = [uart EXCEPT ![slot] = Outb(@, 0, byte)]
             /\ NextSlot
             /\ UNCHANGED <<bda, device, byte, asked, stray, inits>>

InitStep == InitAbsent \/ InitPresent

WriteStep == WriteCr \/ WriteSkip \/ WriteByte

Next == \/ CallInit \/ InitStep
        \/ (\E b \in Chars : CallWrite(b)) \/ WriteStep
        \/ \E s \in Slot : Transmit(s)

\* The core executes the call it is in, and a UART sends what it has.
Fairness == /\ WF_vars(InitStep) /\ WF_vars(WriteStep)
            /\ \A s \in Slot : WF_vars(Transmit(s))

Spec == Init /\ [][Next]_vars

FairSpec == Spec /\ Fairness

-----------------------------------------------------------------------------
\* A port that init has finished with runs at divisor 1, 8N1, with interrupts off
\* and DLAB clear, also after it was initialised before (serial.cc:14-20).
Configured ==
  \A s \in Slot : device[s] /\ (call = "init" => s < slot) =>
    uart[s].lcr = 3 /\ uart[s].div = <<1, 0>> /\ uart[s].ier = 0

\* No byte is written to a full FIFO: the CR that is sent without waiting finds at most
\* one byte there (serial.cc:28-33).  Between calls there is at most one, so that the
\* FIFO reset of a second init loses no more than the last byte printed before it.
NoOverrun ==
  \A s \in Slot : /\ ~uart[s].lost
                  /\ Len(uart[s].fifo) <= IF call = "write" THEN 2 ELSE 1

\* Every port that is there gets exactly what was printed, in order and with CR
\* before every LF; while write is under way a port may be behind.  The ports that are
\* not there cost what the place of the CR costs, one write to port 0 for each of them
\* and each LF, and nothing else (serial.cc:25-33).
Broadcast ==
  call # "init" =>
    /\ \A s \in Slot : device[s] =>
         LET out == uart[s].wire \o uart[s].fifo
         IN  /\ Len(out) <= Len(asked) /\ out = SubSeq(asked, 1, Len(out))
             /\ call = "idle" => out = asked
    /\ call = "idle" => stray = Cardinality({i \in DOMAIN asked : asked[i] = "LF"})
                                * Cardinality({s \in Slot : ~bda[s]})

\* write and init return: the loop on LSR ends on every port.
CallsReturn == call # "idle" ~> call = "idle"
=============================================================================
