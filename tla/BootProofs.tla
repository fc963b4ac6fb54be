----------------------------- MODULE BootProofs -----------------------------
(***************************************************************************)
(* For any number of cores, the byte at 0x7e00 makes them come up one at a *)
(* time, and that keeps the page tables and the stacks apart although      *)
(* every core rebuilds the one and starts on the same other.               *)
(*                                                                         *)
(* The inductive invariant says where the byte is: it is 1 only when no    *)
(* core is inside, and no two cores are.  Then a step of the core inside   *)
(* has only its own requirements on the tables to meet.                    *)
(*                                                                         *)
(* What non-maskable interrupts can and cannot spoil, for any number of    *)
(* them and of values of a counter, takes three more invariants.           *)
(* Registers says which interrupt table a core has at which label, and     *)
(* that only the Bsp is in the Bsp's branch of start_kernel.  PmuStands    *)
(* follows the performance monitoring unit along that branch: the count    *)
(* that is printed and the NMI of an overflow are each the result of seven *)
(* steps, between any two of which a counter of the firmware may count,    *)
(* wrap and interrupt.  Tickets ties a ticket of printf's lock to the      *)
(* place of the call.                                                      *)
(***************************************************************************)
EXTENDS Boot, FiniteSetTheorems, TLAPS

InsideLabels == Early \cup Paged

\* Labels at which the identity map, and at which the APIC page, is complete.
Full == Paged \cup {"lmode"}
Mapped == Paged \ {"stack", "ctors", "uart", "uartEnd", "coreId", "map"}

Types == at \in [Cores -> Labels] /\ mem \in Memory

Exclusive == \A c, d \in Cores : Inside(c) /\ Inside(d) => c = d

ByteFree == mem.stackWait = 1 => \A c \in Cores : ~Inside(c)

Tables == \A c \in Cores : /\ at[c] \in Full => mem.ident = "full"
                           /\ at[c] \in Mapped => mem.apicMap

BInv == Types /\ Exclusive /\ ByteFree /\ Tables

-----------------------------------------------------------------------------
\* A step of the core inside that leaves the byte alone and meets what its next
\* label requires of the tables.
LEMMA InsideStep ==
  ASSUME BInv, NEW c \in Cores, NEW from \in InsideLabels, NEW to \in InsideLabels,
         Goes(c, from, to), mem' \in Memory, mem'.stackWait = mem.stackWait,
         to \in Full => mem'.ident = "full", to \in Mapped => mem'.apicMap
  PROVE  BInv'
  <1>1. at \in [Cores -> Labels] /\ at[c] = from /\ at' = [at EXCEPT ![c] = to]
    BY DEF BInv, Types, Goes
  <1>2. InsideLabels \subseteq Labels /\ Full \subseteq InsideLabels /\ Mapped \subseteq InsideLabels
    BY DEF InsideLabels, Labels, Full, Mapped, Early
  <1>3. Inside(c) /\ \A d \in Cores : d # c => ~Inside(d)
    BY <1>1 DEF BInv, Exclusive, Inside, InsideLabels
  <1>4. /\ at'[c] = to
        /\ \A d \in Cores : d # c => at'[d] = at[d] /\ at'[d] \notin InsideLabels
    BY <1>1, <1>3 DEF Inside, InsideLabels
  <1>5. Types'
    BY <1>1, <1>2 DEF Types
  <1>6. Exclusive'
    BY <1>4 DEF Exclusive, Inside, InsideLabels
  <1>7. ByteFree'
    BY <1>3 DEF BInv, ByteFree
  <1>8. Tables'
    BY <1>2, <1>4 DEF Tables
  <1> QED
    BY <1>5, <1>6, <1>7, <1>8 DEF BInv

\* The same for the steps that change the lock only or nothing in memory.
LEMMA QuietStep ==
  ASSUME BInv, NEW c \in Cores, NEW from \in InsideLabels, NEW to \in InsideLabels,
         Goes(c, from, to), mem' = mem,
         to \in Full => from \in Full, to \in Mapped => from \in Mapped
  PROVE  BInv'
  <1>1. at[c] = from /\ mem \in Memory
    BY DEF BInv, Types, Goes
  <1>2. (to \in Full => mem.ident = "full") /\ (to \in Mapped => mem.apicMap)
    BY <1>1 DEF BInv, Tables
  <1> QED
    BY <1>1, <1>2, InsideStep

-----------------------------------------------------------------------------
\* The labels spelled out.
LEMMA PrintLabels ==
  Prints = {"pEntry", "pReady", "pApic", "pPerf", "pVal", "pPmc", "pCore",
            "pHallo", "pFault"}
  BY DEF Prints, AfterPrint

USE DEF InsideLabels, Early, Paged, Full, Mapped

\* bootloader.s.
LEMMA LoaderPreserves ==
  ASSUME BInv, NEW c \in Cores,
         \/ Take(c) \/ GetPhysical(c) \/ ProtectedMode(c) \/ ClearTables(c)
         \/ FillTables(c) \/ LongMode(c) \/ EnterLong(c)
  PROVE  BInv'
  <1>1. mem \in Memory
    BY DEF BInv, Types
  <1>2. CASE Take(c)
    <2>1. /\ at \in [Cores -> Labels] /\ at' = [at EXCEPT ![c] = "e820"]
          /\ mem.stackWait = 1 /\ mem' = [mem EXCEPT !.stackWait = 0]
      BY <1>2 DEF Take, Does, Goes, BInv, Types
    <2>2. \A d \in Cores : ~Inside(d)
      BY <2>1 DEF BInv, ByteFree
    <2>3. at'[c] = "e820" /\ \A d \in Cores : d # c => at'[d] = at[d] /\ ~Inside(d)'
      BY <2>1, <2>2 DEF Inside
    <2>4. mem' \in Memory /\ mem'.stackWait = 0
      BY <1>1, <2>1 DEF Memory
    <2>5. Types'
      BY <2>1, <2>4 DEF Types, Labels
    <2>6. Exclusive' /\ ByteFree'
      BY <2>3, <2>4 DEF Exclusive, ByteFree
    <2>7. Tables'
      BY <2>3, PrintLabels DEF Tables, Inside
    <2> QED
      BY <2>5, <2>6, <2>7 DEF BInv
  <1>3. CASE GetPhysical(c)
    BY <1>3, PrintLabels, QuietStep DEF GetPhysical, Does
  <1>4. CASE ProtectedMode(c)
    BY <1>4, PrintLabels, QuietStep DEF ProtectedMode, Does
  <1>5. CASE ClearTables(c)
    <2>1. /\ mem' \in Memory /\ mem'.stackWait = mem.stackWait
          /\ Goes(c, "clear", "fill")
      BY <1>1, <1>5 DEF ClearTables, Does, Memory
    <2> QED
      BY <2>1, PrintLabels, InsideStep
  <1>6. CASE FillTables(c)
    <2>1. /\ mem' \in Memory /\ mem'.stackWait = mem.stackWait /\ mem'.ident = "full"
          /\ Goes(c, "fill", "lmode")
      BY <1>1, <1>6 DEF FillTables, Does, Memory
    <2> QED
      BY <2>1, PrintLabels, InsideStep
  <1>7. CASE LongMode(c)
    BY <1>7, PrintLabels, QuietStep DEF LongMode, Does
  <1>8. CASE EnterLong(c)
    BY <1>8, PrintLabels, QuietStep DEF EnterLong, Does
  <1> QED
    BY <1>2, <1>3, <1>4, <1>5, <1>6, <1>7, <1>8

\* The part of start_kernel all cores have.
LEMMA KernelPreserves ==
  ASSUME BInv, NEW c \in Cores,
         \/ StaticInit(c) \/ UartDivisor(c) \/ UartFormat(c) \/ CountCore(c)
         \/ MapApic(c) \/ Role(c) \/ PrintLock(c) \/ PrintEnter(c) \/ PrintDone(c)
  PROVE  BInv'
  <1>1. mem \in Memory
    BY DEF BInv, Types
  <1>2. CASE StaticInit(c)
    BY <1>2, PrintLabels, QuietStep DEF StaticInit
  <1>3. CASE UartDivisor(c)
    BY <1>3, PrintLabels, QuietStep DEF UartDivisor, Does
  <1>4. CASE UartFormat(c)
    BY <1>4, PrintLabels, QuietStep DEF UartFormat, Does
  <1>5. CASE CountCore(c)
    <2>1. /\ mem' \in Memory /\ mem'.stackWait = mem.stackWait /\ mem'.ident = mem.ident
          /\ Goes(c, "coreId", "map")
      BY <1>1, <1>5 DEF CountCore, Does, Memory
    <2>2. mem.ident = "full"
      BY <2>1, PrintLabels DEF Goes, BInv, Tables
    <2> QED
      BY <2>1, <2>2, PrintLabels, InsideStep
  <1>6. CASE MapApic(c)
    <2>1. /\ mem' \in Memory /\ mem'.stackWait = mem.stackWait /\ mem'.ident = mem.ident
          /\ mem'.apicMap /\ Goes(c, "map", "role")
      BY <1>1, <1>6 DEF MapApic, Does, Memory
    <2>2. mem.ident = "full"
      BY <2>1, PrintLabels DEF Goes, BInv, Tables
    <2> QED
      BY <2>1, <2>2, PrintLabels, InsideStep
  <1>7. CASE Role(c)
    BY <1>7, PrintLabels, QuietStep DEF Role, Does
  <1>8. CASE PrintLock(c) \/ PrintEnter(c)
    BY <1>8 DEF PrintLock, PrintEnter, BInv, Types, Exclusive, ByteFree, Tables, Inside
  <1>9. CASE PrintDone(c)
    <2>1. at[c] \in Prints /\ Goes(c, at[c], AfterPrint[at[c]]) /\ mem' = mem
      BY <1>9 DEF PrintDone
    <2>2. AfterPrint[at[c]] \in {"entries", "apicOk", "idt", "pmi", "pPmc", "launch", "release",
                              "pFault", "stuck"}
      BY <2>1, PrintLabels DEF AfterPrint
    <2> QED
      BY <2>1, <2>2, PrintLabels, QuietStep
  <1> QED
    BY <1>2, <1>3, <1>4, <1>5, <1>6, <1>7, <1>8, <1>9

\* The part of start_kernel for the Bsp.
LEMMA BspPreserves ==
  ASSUME BInv, NEW c \in Cores,
         \/ E820Loop(c) \/ CheckApic(c) \/ LoadIdt(c) \/ ReadMadt(c) \/ EnableLapic(c)
         \/ EnablePmi(c) \/ StopLeft(c) \/ ResetStatus(c) \/ ClearCounters(c) \/ SelectEvent(c)
         \/ StartCounting(c) \/ StopCounting(c) \/ Launch(c)
  PROVE  BInv'
  <1>1. mem \in Memory
    BY DEF BInv, Types
  <1>2. CASE E820Loop(c)
    <2>1. CASE /\ mem.entry < Entries
               /\ Does(c, "entries", "pEntry", [mem EXCEPT !.entry = @ + 1], regs)
      <3>1. /\ mem' \in Memory /\ mem'.stackWait = mem.stackWait
            /\ mem'.ident = mem.ident /\ mem'.apicMap = mem.apicMap
            /\ Goes(c, "entries", "pEntry")
        BY <1>1, <2>1, BootAssumption DEF Does, Memory
      <3>2. mem.ident = "full" /\ mem.apicMap
        BY <3>1, PrintLabels DEF Goes, BInv, Tables
      <3> QED
        BY <3>1, <3>2, PrintLabels, InsideStep
    <2>2. CASE Does(c, "entries", "pReady", mem, regs)
      BY <2>2, PrintLabels, QuietStep DEF Does
    <2> QED
      BY <1>2, <2>1, <2>2 DEF E820Loop
  <1>3. CASE CheckApic(c)
    BY <1>3, PrintLabels, QuietStep DEF CheckApic, Does
  <1>4. CASE LoadIdt(c)
    BY <1>4, PrintLabels, QuietStep DEF LoadIdt, Does
  <1>5. CASE ReadMadt(c)
    BY <1>5, PrintLabels, QuietStep DEF ReadMadt, Does
  <1>6. CASE EnableLapic(c)
    BY <1>6, PrintLabels, QuietStep DEF EnableLapic, Does
  <1>7. CASE EnablePmi(c) \/ StopLeft(c)
    BY <1>7, PrintLabels, QuietStep DEF EnablePmi, StopLeft, DoesPmu
  <1>8. CASE ResetStatus(c) \/ ClearCounters(c)
    BY <1>8, PrintLabels, QuietStep DEF ResetStatus, ClearCounters, DoesPmu
  <1>9. CASE SelectEvent(c) \/ StartCounting(c)
    BY <1>9, PrintLabels, QuietStep DEF SelectEvent, StartCounting, DoesPmu
  <1>10. CASE StopCounting(c)
    BY <1>10, PrintLabels, QuietStep DEF StopCounting, DoesPmu
  <1>11. CASE Launch(c)
    BY <1>11, PrintLabels, QuietStep DEF Launch
  <1> QED
    BY <1>2, <1>3, <1>4, <1>5, <1>6, <1>7, <1>8, <1>9, <1>10, <1>11

\* A step that moves a core among the labels outside, or no core at all.
LEMMA OutsideStep ==
  ASSUME BInv, mem' = mem, NEW c \in Cores, NEW l \in Labels \ InsideLabels,
         \/ at' = at
         \/ ~Inside(c) /\ at' = [at EXCEPT ![c] = l]
  PROVE  BInv'
  <1>1. CASE at' = at
    BY <1>1 DEF BInv, Types, Exclusive, ByteFree, Tables, Inside
  <1>2. CASE ~Inside(c) /\ at' = [at EXCEPT ![c] = l]
    <2>1. at \in [Cores -> Labels] /\ at' \in [Cores -> Labels]
      BY <1>2 DEF BInv, Types
    <2>2. \A d \in Cores : Inside(d)' <=> Inside(d)
      BY <1>2, <2>1 DEF Inside
    <2>3. \A d \in Cores : at'[d] \in InsideLabels => at'[d] = at[d]
      BY <1>2, <2>1
    <2> QED
      BY <2>1, <2>2, <2>3, PrintLabels DEF BInv, Types, Exclusive, ByteFree, Tables
  <1> QED
    BY <1>1, <1>2

\* The end of start_kernel, IPIs, NMIs and their handler.
LEMMA RestPreserves ==
  ASSUME BInv, NEW c \in Cores,
         \/ ReleaseStack(c) \/ Halt(c) \/ Sipi(c) \/ Count(c) \/ Pmi(c) \/ OtherNmi(c)
         \/ Handler(c)
  PROVE  BInv'
  <1>1. /\ at \in [Cores -> Labels] /\ mem \in Memory
        /\ {"wait", "halt", "halted", "runaway"} \subseteq Labels \ InsideLabels
    BY PrintLabels DEF BInv, Types, Labels
  <1>2. CASE ReleaseStack(c)
    <2>1. /\ at[c] = "release" /\ at' = [at EXCEPT ![c] = "halt"]
          /\ mem' = [mem EXCEPT !.stackWait = 1]
      BY <1>2 DEF ReleaseStack, Does, Goes
    <2>2. \A d \in Cores : d # c => ~Inside(d)
      BY <2>1, PrintLabels DEF BInv, Exclusive, Inside
    <2>3. \A d \in Cores : ~Inside(d)'
      BY <1>1, <2>1, <2>2, PrintLabels DEF Inside
    <2>4. at' \in [Cores -> Labels] /\ mem' \in Memory
      BY <1>1, <2>1 DEF Memory
    <2> QED
      BY <2>3, <2>4, PrintLabels DEF BInv, Types, Exclusive, ByteFree, Tables, Inside
  <1>3. CASE Halt(c)
    <2>1. at[c] = "halt" /\ at' = [at EXCEPT ![c] = "halted"] /\ mem' = mem
      BY <1>3 DEF Halt, Does, Goes
    <2> QED
      BY <1>1, <2>1, PrintLabels, OutsideStep DEF Inside
  <1>4. CASE Sipi(c)
    <2>1. mem' = mem /\ at' \in {at, [at EXCEPT ![c] = IF @ = "off" THEN "wait" ELSE @]}
      BY <1>4 DEF Sipi
    <2>2. at' = at \/ (at[c] = "off" /\ at' = [at EXCEPT ![c] = "wait"])
      BY <1>1, <2>1
    <2> QED
      BY <1>1, <2>1, <2>2, PrintLabels, OutsideStep DEF Inside
  <1>5. CASE Count(c) \/ Pmi(c) \/ OtherNmi(c)
    BY <1>1, <1>5, OutsideStep DEF Count, Pmi, OtherNmi
  <1>6. CASE HandlerLock(c) \/ HandlerEnter(c) \/ HandlerPrinted(c)
    BY <1>1, <1>6, OutsideStep DEF HandlerLock, HandlerEnter, HandlerPrinted
  <1>7. CASE HandlerReturn(c)
    <2>1. mem' = mem /\ at' = [at EXCEPT ![c] = IF @ = "halted" THEN "runaway" ELSE @]
      BY <1>7 DEF HandlerReturn
    <2>2. at' = at \/ (at[c] = "halted" /\ at' = [at EXCEPT ![c] = "runaway"])
      BY <1>1, <2>1
    <2> QED
      BY <1>1, <2>1, <2>2, PrintLabels, OutsideStep DEF Inside
  <1> QED
    BY <1>2, <1>3, <1>4, <1>5, <1>6, <1>7 DEF Handler

-----------------------------------------------------------------------------
\* The invariant holds when the firmware starts the Bsp ...
LEMMA BootStarts == Init => BInv
  BY PrintLabels, BootAssumption
  DEF Init, BInv, Types, Exclusive, ByteFree, Tables, Inside, Labels, Memory

\* ... and every step keeps it.
LEMMA BootStep == ASSUME BInv, [Next]_vars PROVE BInv'
  <1>1. ASSUME NEW c \in Cores, Main(c) PROVE BInv'
    BY <1>1, LoaderPreserves, KernelPreserves, BspPreserves, RestPreserves DEF Main
  <1>2. ASSUME NEW c \in Cores,
               Sipi(c) \/ Count(c) \/ Pmi(c) \/ OtherNmi(c) \/ Handler(c)
        PROVE  BInv'
    BY <1>2, RestPreserves
  <1>3. CASE UNCHANGED vars
    BY <1>3 DEF vars, BInv, Types, Exclusive, ByteFree, Tables, Inside
  <1> QED
    BY <1>1, <1>2, <1>3 DEF Next

\* Hence it holds as long as the machine runs.
LEMMA BootInductive == Spec => []BInv
  BY BootStarts, BootStep, PTL DEF Spec

\* Whatever the number of cores, a core that runs with paging on finds the tables
\* it uses complete (bootloader.s:147-172, init.cc:26).
THEOREM MappingsStandHolds == Spec => []MappingsStand
  <1>1. BInv => MappingsStand
    BY PrintLabels DEF BInv, Tables, MappingsStand, ApicUsers
  <1> QED
    BY <1>1, BootInductive, PTL

\* Whatever their APIC ids, no two cores have a stack in common
\* (bootloader.s:26, 208-218).
THEOREM StacksDisjointHolds == Spec => []StacksDisjoint
  <1>1. BInv => StacksDisjoint
    <2> SUFFICES ASSUME BInv, NEW c \in Cores, NEW d \in Cores, HasStack(c), HasStack(d), c # d
                 PROVE  \/ StackTop(c) >= StackTop(d) + 16384
                        \/ StackTop(d) >= StackTop(c) + 16384
      BY DEF StacksDisjoint
    <2>1. c \in 0 .. 255 /\ d \in 0 .. 255
      BY BootAssumption
    <2>2. ~(at[c] \in Early \cup {"stack"} /\ at[d] \in Early \cup {"stack"})
      BY PrintLabels DEF BInv, Exclusive, Inside
    <2> QED
      BY <2>1, <2>2 DEF StackTop
  <1> QED
    BY <1>1, BootInductive, PTL

-----------------------------------------------------------------------------
(* Boot implements Turns.                                                  *)

\* Every step but the three that begin or end a turn or start a core.
Within(c) ==
  \/ GetPhysical(c) \/ ProtectedMode(c) \/ ClearTables(c) \/ FillTables(c)
  \/ LongMode(c) \/ EnterLong(c)
  \/ StaticInit(c) \/ UartDivisor(c) \/ UartFormat(c) \/ CountCore(c) \/ MapApic(c)
  \/ Role(c) \/ PrintLock(c) \/ PrintEnter(c) \/ PrintDone(c)
  \/ E820Loop(c) \/ CheckApic(c) \/ LoadIdt(c) \/ ReadMadt(c) \/ EnableLapic(c)
  \/ EnablePmi(c) \/ StopLeft(c) \/ ResetStatus(c) \/ ClearCounters(c) \/ SelectEvent(c)
  \/ StartCounting(c) \/ StopCounting(c) \/ Launch(c)
  \/ Halt(c) \/ Count(c) \/ Pmi(c) \/ OtherNmi(c) \/ Handler(c)

\* Such a step leaves every core's turn as it is.
LEMMA WithinStutters ==
  ASSUME BInv, NEW c \in Cores, Within(c)
  PROVE  \A d \in Cores : Turn(d)' = Turn(d)
  <1> DEFINE Done == {"halt", "halted", "runaway"}
  <1>1. at \in [Cores -> Labels]
    BY DEF BInv, Types
  <1>2. SUFFICES \/ at' = at
                 \/ \E l \in InsideLabels :
                      at[c] \in InsideLabels /\ at' = [at EXCEPT ![c] = l]
                 \/ \E l \in Done : at[c] \in Done /\ at' = [at EXCEPT ![c] = l]
    BY <1>1, PrintLabels DEF Turn, Inside
  <1>3. CASE \/ GetPhysical(c) \/ ProtectedMode(c) \/ ClearTables(c) \/ FillTables(c)
             \/ LongMode(c) \/ EnterLong(c)
    BY <1>3, PrintLabels DEF GetPhysical, ProtectedMode, ClearTables, FillTables,
                             LongMode, EnterLong, Does, Goes
  <1>4. CASE \/ StaticInit(c) \/ UartDivisor(c) \/ UartFormat(c) \/ CountCore(c)
             \/ MapApic(c) \/ Role(c)
    BY <1>4, PrintLabels DEF StaticInit, UartDivisor, UartFormat, CountCore, MapApic,
                             Role, Does, Goes
  <1>5. CASE PrintLock(c) \/ PrintEnter(c)
    BY <1>5 DEF PrintLock, PrintEnter
  <1>6. CASE PrintDone(c)
    <2>1. at[c] \in Prints /\ at' = [at EXCEPT ![c] = AfterPrint[at[c]]]
      BY <1>6 DEF PrintDone, Goes
    <2>2. AfterPrint[at[c]] \in InsideLabels
      BY <2>1, PrintLabels DEF AfterPrint
    <2> QED
      BY <2>1, <2>2
  <1>7. CASE \/ E820Loop(c) \/ CheckApic(c) \/ LoadIdt(c) \/ ReadMadt(c)
             \/ EnableLapic(c)
    BY <1>7, PrintLabels DEF E820Loop, CheckApic, LoadIdt, ReadMadt, EnableLapic, Does, Goes
  <1>8. CASE \/ EnablePmi(c) \/ StopLeft(c) \/ ResetStatus(c) \/ ClearCounters(c)
             \/ SelectEvent(c) \/ StartCounting(c) \/ StopCounting(c) \/ Launch(c)
    BY <1>8, PrintLabels DEF EnablePmi, StopLeft, ResetStatus, ClearCounters, SelectEvent,
                             StartCounting, StopCounting, Launch, DoesPmu, Goes
  <1>9. CASE Halt(c)
    BY <1>9 DEF Halt, Does, Goes
  <1>10. CASE Count(c) \/ Pmi(c) \/ OtherNmi(c)
    BY <1>10 DEF Count, Pmi, OtherNmi
  <1>11. CASE Handler(c)
    BY <1>1, <1>11 DEF Handler, HandlerLock, HandlerEnter, HandlerPrinted, HandlerReturn
  <1> QED
    BY <1>3, <1>4, <1>5, <1>6, <1>7, <1>8, <1>9, <1>10, <1>11 DEF Within

\* The cores take turns: a step of the boot sequence is a step of Turns or none,
\* so that from bootloader.s:23 to init.cc:92 a core has the machine to itself.
THEOREM BootTakesTurns == Spec => TakesTurns
  <1> DEFINE turn == [c \in Cores |-> Turn(c)]
  <1>1. Init => T!Init
    BY BootAssumption DEF Init, T!Init, Turn
  <1>2. BInv /\ [Next]_vars => [T!Next]_turn
    <2> SUFFICES ASSUME BInv, [Next]_vars PROVE T!Next \/ turn' = turn
      OBVIOUS
    <2>1. at \in [Cores -> Labels]
      BY DEF BInv, Types
    <2>2. ASSUME NEW c \in Cores, Within(c) PROVE turn' = turn
      BY <2>2, WithinStutters
    <2>3. ASSUME NEW c \in Cores, Take(c) PROVE T!Next
      <3>1. /\ at[c] = "wait" /\ at' = [at EXCEPT ![c] = "e820"] /\ mem.stackWait = 1
        BY <2>3 DEF Take, Does, Goes
      <3>2. \A d \in Cores : Turn(d) # "running"
        BY <3>1 DEF BInv, ByteFree, Turn
      <3>3. turn' = [turn EXCEPT ![c] = "running"] /\ turn[c] = "ready"
        BY <2>1, <3>1 DEF Turn, Inside
      <3> QED
        BY <3>2, <3>3 DEF T!Next, T!Begin
    <2>4. ASSUME NEW c \in Cores, ReleaseStack(c) PROVE T!Next
      <3>1. at[c] = "release" /\ at' = [at EXCEPT ![c] = "halt"]
        BY <2>4 DEF ReleaseStack, Does, Goes
      <3>2. turn' = [turn EXCEPT ![c] = "done"] /\ turn[c] = "running"
        BY <2>1, <3>1, PrintLabels DEF Turn, Inside
      <3> QED
        BY <3>2 DEF T!Next, T!End
    <2>5. ASSUME NEW c \in Cores, Sipi(c) PROVE T!Next \/ turn' = turn
      <3>1. at' \in {at, [at EXCEPT ![c] = IF @ = "off" THEN "wait" ELSE @]}
        BY <2>5 DEF Sipi
      <3>2. CASE at[c] = "off" /\ at' # at
        <4>1. turn' = [turn EXCEPT ![c] = "ready"] /\ turn[c] = "off"
          BY <2>1, <3>1, <3>2 DEF Turn, Inside
        <4> QED
          BY <4>1 DEF T!Next, T!Start
      <3>3. CASE at[c] # "off" \/ at' = at
        BY <2>1, <3>1, <3>3 DEF Turn, Inside
      <3> QED
        BY <3>2, <3>3
    <2>6. CASE UNCHANGED vars
      BY <2>6 DEF vars, Turn, Inside
    <2> QED
      BY <2>2, <2>3, <2>4, <2>5, <2>6 DEF Next, Main, Within
  <1> QED
    BY <1>1, <1>2, BootInductive, PTL DEF Spec, TakesTurns, T!Spec

-----------------------------------------------------------------------------
(* Registers and interrupts.                                               *)

\* The part of start_kernel for the Bsp, and in it what comes after lidt.
KernelIdt == {"madt", "lapic", "pPerf", "pmi", "pmuOff", "pmuReset", "pmuClear",
              "pmuSelect", "count", "window"}
BspLabels == KernelIdt \cup {"entries", "pEntry", "pReady", "apicOk", "pApic", "idt",
                             "pVal", "pPmc", "launch", "pHallo", "pFault", "stuck"}

\* From the empty IDTR of setup_lm to the end of serial.init().
EmptyIdt == {"stack", "ctors", "uart", "uartEnd"}

Registers ==
  /\ regs \in [idt : [Cores -> {"ivt", "empty", "kernel"}],
               bspFlag : [Cores -> BOOLEAN], dlab : BOOLEAN]
  /\ nmi \in [Cores -> {"none", "hallo", "pmi", "eoi"}]
  /\ \A c \in Cores : /\ regs.bspFlag[c] \/ at[c] \in BspLabels => c = Bsp
                      /\ at[c] \in EmptyIdt => regs.idt[c] = "empty"
                      /\ at[c] \in KernelIdt => regs.idt[c] = "kernel"
                      /\ nmi[c] # "none" => regs.idt[c] = "kernel"
  /\ regs.dlab => \E c \in Cores : at[c] = "uartEnd"

-----------------------------------------------------------------------------
\* A step of core c from label from to label to, which leaves the other cores'
\* registers alone and gives c those that its next label requires.
LEMMA RegisterStep ==
  ASSUME at \in [Cores -> Labels], Registers,
         NEW c \in Cores, NEW from, NEW to, Goes(c, from, to),
         regs' \in [idt : [Cores -> {"ivt", "empty", "kernel"}],
                    bspFlag : [Cores -> BOOLEAN], dlab : BOOLEAN],
         \A d \in Cores : d # c => /\ regs'.idt[d] = regs.idt[d]
                                   /\ regs'.bspFlag[d] = regs.bspFlag[d],
         regs'.bspFlag[c] => regs.bspFlag[c],
         to \in BspLabels => from \in BspLabels \/ regs.bspFlag[c],
         to \in EmptyIdt => regs'.idt[c] = "empty",
         to \in KernelIdt => regs'.idt[c] = "kernel",
         regs'.dlab => to = "uartEnd" \/ (regs.dlab /\ from # "uartEnd")
  PROVE  Registers'
  <1>1. /\ at[c] = from /\ at'[c] = to /\ nmi' = nmi /\ nmi[c] = "none"
        /\ \A d \in Cores : d # c => at'[d] = at[d]
    BY DEF Goes, Runs
  <1>2. nmi' \in [Cores -> {"none", "hallo", "pmi", "eoi"}]
    BY <1>1 DEF Registers
  <1>3. regs'.bspFlag[c] \/ at'[c] \in BspLabels => c = Bsp
    BY <1>1 DEF Registers
  <1>4. ASSUME NEW d \in Cores
        PROVE  /\ regs'.bspFlag[d] \/ at'[d] \in BspLabels => d = Bsp
               /\ at'[d] \in EmptyIdt => regs'.idt[d] = "empty"
               /\ at'[d] \in KernelIdt => regs'.idt[d] = "kernel"
               /\ nmi'[d] # "none" => regs'.idt[d] = "kernel"
    <2>1. CASE d = c
      BY <1>1, <1>3, <2>1
    <2>2. CASE d # c
      BY <1>1, <2>2 DEF Registers
    <2> QED
      BY <2>1, <2>2
  <1>5. regs'.dlab => \E d \in Cores : at'[d] = "uartEnd"
    BY <1>1 DEF Registers
  <1> QED
    BY <1>2, <1>4, <1>5 DEF Registers

\* The same for a step that changes no register.
LEMMA RegisterKeep ==
  ASSUME at \in [Cores -> Labels], Registers,
         NEW c \in Cores, NEW from, NEW to, Goes(c, from, to), regs' = regs,
         to \in BspLabels => from \in BspLabels \/ regs.bspFlag[c],
         to \in EmptyIdt => from \in EmptyIdt,
         to \in KernelIdt => from \in KernelIdt,
         from # "uartEnd"
  PROVE  Registers'
  <1>1. at[c] = from
    BY DEF Goes
  <1>2. /\ to \in EmptyIdt => regs'.idt[c] = "empty"
        /\ to \in KernelIdt => regs'.idt[c] = "kernel"
        /\ regs' \in [idt : [Cores -> {"ivt", "empty", "kernel"}],
                      bspFlag : [Cores -> BOOLEAN], dlab : BOOLEAN]
    BY <1>1 DEF Registers
  <1> QED
    BY <1>2, RegisterStep

\* The steps of a core's own code.
LEMMA MainRegisters ==
  ASSUME BInv, Registers, NEW c \in Cores, Main(c)
  PROVE  Registers'
  <1> USE DEF BspLabels, EmptyIdt, KernelIdt
  <1>1. at \in [Cores -> Labels]
    BY DEF BInv, Types
  <1>2. regs \in [idt : [Cores -> {"ivt", "empty", "kernel"}],
                  bspFlag : [Cores -> BOOLEAN], dlab : BOOLEAN]
    BY DEF Registers
  <1>3. CASE \/ Take(c) \/ GetPhysical(c) \/ ProtectedMode(c) \/ ClearTables(c)
             \/ FillTables(c) \/ EnterLong(c)
    BY <1>1, <1>3, RegisterKeep DEF Take, GetPhysical, ProtectedMode, ClearTables,
                                    FillTables, EnterLong, Does
  <1>4. CASE LongMode(c)
    <2>1. Goes(c, "lmode", "stack") /\ regs' = [regs EXCEPT !.idt[c] = "empty"]
      BY <1>4 DEF LongMode, Does
    <2> QED
      BY <1>1, <1>2, <2>1, RegisterStep
  <1>5. CASE StaticInit(c) \/ CountCore(c) \/ MapApic(c) \/ Role(c)
    BY <1>1, <1>5, RegisterKeep DEF StaticInit, CountCore, MapApic, Role, Does
  <1>6. CASE UartDivisor(c)
    <2>1. Goes(c, "uart", "uartEnd") /\ regs' = [regs EXCEPT !.dlab = TRUE]
      BY <1>6 DEF UartDivisor, Does
    <2>2. regs.idt[c] = "empty"
      BY <2>1 DEF Goes, Registers
    <2> QED
      BY <1>1, <1>2, <2>1, <2>2, RegisterStep
  <1>7. CASE UartFormat(c)
    <2>1. Goes(c, "uartEnd", "coreId") /\ regs' = [regs EXCEPT !.dlab = FALSE]
      BY <1>7 DEF UartFormat, Does
    <2> QED
      BY <1>1, <1>2, <2>1, RegisterStep
  <1>8. CASE PrintLock(c) \/ PrintEnter(c)
    BY <1>8 DEF PrintLock, PrintEnter, Registers
  <1>9. CASE PrintDone(c)
    <2>1. /\ at[c] \in Prints /\ Goes(c, at[c], AfterPrint[at[c]]) /\ regs' = regs
      BY <1>9 DEF PrintDone
    <2>2. \/ at[c] = "pEntry" /\ AfterPrint[at[c]] = "entries"
          \/ at[c] = "pReady" /\ AfterPrint[at[c]] = "apicOk"
          \/ at[c] = "pApic" /\ AfterPrint[at[c]] = "idt"
          \/ at[c] = "pPerf" /\ AfterPrint[at[c]] = "pmi"
          \/ at[c] = "pVal" /\ AfterPrint[at[c]] = "pPmc"
          \/ at[c] = "pPmc" /\ AfterPrint[at[c]] = "launch"
          \/ at[c] = "pCore" /\ AfterPrint[at[c]] = "release"
          \/ at[c] = "pHallo" /\ AfterPrint[at[c]] = "pFault"
          \/ at[c] = "pFault" /\ AfterPrint[at[c]] = "stuck"
      BY <2>1, PrintLabels DEF AfterPrint
    <2> QED
      BY <1>1, <2>1, <2>2, RegisterKeep
  <1>10. CASE E820Loop(c) \/ CheckApic(c) \/ ReadMadt(c)
    BY <1>1, <1>10, RegisterKeep DEF E820Loop, CheckApic, ReadMadt, Does
  <1>11. CASE LoadIdt(c)
    <2>1. Goes(c, "idt", "madt") /\ regs' = [regs EXCEPT !.idt[c] = "kernel"]
      BY <1>11 DEF LoadIdt, Does
    <2> QED
      BY <1>1, <1>2, <2>1, RegisterStep
  <1>12. CASE EnableLapic(c)
    <2>1. Goes(c, "lapic", "pPerf") /\ regs' = [regs EXCEPT !.bspFlag[c] = FALSE]
      BY <1>12 DEF EnableLapic, Does
    <2>2. regs.idt[c] = "kernel"
      BY <2>1 DEF Goes, Registers
    <2> QED
      BY <1>1, <1>2, <2>1, <2>2, RegisterStep
  <1>13. CASE \/ EnablePmi(c) \/ StopLeft(c) \/ ResetStatus(c) \/ ClearCounters(c)
              \/ SelectEvent(c) \/ StartCounting(c) \/ StopCounting(c)
    BY <1>1, <1>13, RegisterKeep DEF EnablePmi, StopLeft, ResetStatus, ClearCounters,
                                     SelectEvent, StartCounting, StopCounting, DoesPmu
  <1>14. CASE Launch(c)
    BY <1>1, <1>14, RegisterKeep DEF Launch
  <1>15. CASE ReleaseStack(c) \/ Halt(c)
    BY <1>1, <1>15, RegisterKeep DEF ReleaseStack, Halt, Does
  <1> QED
    BY <1>3, <1>4, <1>5, <1>6, <1>7, <1>8, <1>9, <1>10, <1>11, <1>12, <1>13, <1>14, <1>15
    DEF Main

\* The steps of the hardware and of the handler.
LEMMA RestRegisters ==
  ASSUME BInv, Registers, NEW c \in Cores,
         Sipi(c) \/ Count(c) \/ Pmi(c) \/ OtherNmi(c) \/ Handler(c)
  PROVE  Registers'
  <1> USE DEF BspLabels, EmptyIdt, KernelIdt
  <1>1. at \in [Cores -> Labels] /\ regs' = regs
    BY DEF BInv, Types, Sipi, Count, Pmi, OtherNmi, Handler, HandlerLock, HandlerEnter,
           HandlerPrinted, HandlerReturn
  <1>2. CASE Sipi(c)
    <2>1. nmi' = nmi /\ at' \in {at, [at EXCEPT ![c] = IF @ = "off" THEN "wait" ELSE @]}
      BY <1>2 DEF Sipi
    <2>2. \A d \in Cores : at'[d] = at[d] \/ (at[d] = "off" /\ at'[d] = "wait")
      BY <1>1, <2>1
    <2> QED
      BY <1>1, <2>1, <2>2 DEF Registers
  <1>3. CASE Count(c)
    BY <1>1, <1>3 DEF Count, Registers
  <1>4. CASE Pmi(c) \/ OtherNmi(c)
    <2>1. at' = at /\ Deliver(c)
      BY <1>4 DEF Pmi, OtherNmi
    <2>2. CASE nmi' = nmi
      BY <1>1, <2>1, <2>2 DEF Registers
    <2>3. CASE regs.idt[c] = "kernel" /\ nmi' = [nmi EXCEPT ![c] = "hallo"]
      BY <1>1, <2>1, <2>3 DEF Registers
    <2> QED
      BY <2>1, <2>2, <2>3 DEF Deliver
  <1>5. CASE HandlerLock(c) \/ HandlerEnter(c)
    BY <1>1, <1>5 DEF HandlerLock, HandlerEnter, Registers
  <1>6. CASE HandlerPrinted(c)
    <2>1. /\ at' = at /\ nmi[c] \in {"hallo", "pmi"}
          /\ nmi' = [nmi EXCEPT ![c] = IF @ = "hallo" THEN "pmi" ELSE "eoi"]
      BY <1>6 DEF HandlerPrinted
    <2> QED
      BY <1>1, <2>1 DEF Registers
  <1>7. CASE HandlerReturn(c)
    <2>1. /\ nmi' = [nmi EXCEPT ![c] = "none"]
          /\ at' = [at EXCEPT ![c] = IF @ = "halted" THEN "runaway" ELSE @]
      BY <1>7 DEF HandlerReturn
    <2>2. \A d \in Cores : at'[d] = at[d] \/ (at[d] = "halted" /\ at'[d] = "runaway")
      BY <1>1, <2>1
    <2> QED
      BY <1>1, <2>1, <2>2 DEF Registers
  <1> QED
    BY <1>2, <1>3, <1>4, <1>5, <1>6, <1>7 DEF Handler

-----------------------------------------------------------------------------
(* The performance monitoring unit.                                        *)

Units == [lvt : {"masked", "nmi"}, global : SUBSET Counters, select : Nat,
          fixed : BOOLEAN, count : [Counters -> 0 .. Wrap - 1], status : SUBSET Counters,
          pending : BOOLEAN, left : BOOLEAN, events : 0 .. Wrap - 1, handler : 0 .. Wrap - 1,
          sentBy : Counters \cup {"nobody"}, sentAt : Places]

\* From the opening of the LVT entry on, and on the way to hlt.
Opened == {"pmuOff", "pmuReset", "pmuClear", "pmuSelect", "count", "window", "pVal",
           "pPmc", "launch"}
Leaving == {"pCore", "release", "halt", "halted", "runaway"}

\* The NMI goes to a counter of the firmware, or is that of a wrap of counter 0 in the
\* window, which its status then shows.
SentOK(p) == \/ p.sentBy = "nobody" /\ "pmc0" \notin p.status
             \/ p.sentBy = "pmc0" /\ p.sentAt # "outside" /\ "pmc0" \in p.status
             \/ p.sentBy # "nobody" /\ FirmwareSent(p)

\* What holds of the unit p while the Bsp is at label b.
PmuOK(b, p) ==
  /\ p \in Units
  /\ p.fixed = p.left
  /\ p.pending => b \in {"pmuOff", "window"}
  /\ b \notin Opened \cup Leaving => p.lvt = "masked" /\ p.sentBy = "nobody"
  /\ b \in Opened => (p.lvt = "masked" <=> p.sentBy # "nobody")
  /\ b \notin (Opened \ {"pmuOff"}) \cup Leaving =>
       p.events = 0 /\ p.handler = 0 /\ (p.global # {} => p.left)
  /\ b \in {"pmuReset", "pmuClear", "pmuSelect", "count"} =>
       p.global = {} /\ p.events = 0 /\ p.handler = 0
  /\ b \in {"pmuOff", "pmuReset", "pmuClear", "pmuSelect", "count"} =>
       (p.sentBy # "nobody" => FirmwareSent(p))
  /\ b \in {"pmuClear", "pmuSelect", "count"} => p.status = {}
  /\ b \in {"pmuSelect", "count"} => p.count["pmc0"] = 0
  /\ b \in {"count", "window"} => p.select = generate_perf
  /\ b = "window" => p.global = Counters
  /\ b \in {"window", "pVal", "pPmc"} =>
       p.count["pmc0"] = (p.events + p.handler) % Wrap /\ SentOK(p)
  /\ b \in {"pVal", "pPmc", "launch"} => p.global = {}
  /\ b \in Leaving => p.global = {} \/ p.lvt = "masked"

PmuStands == PmuOK(at[Bsp], pmu)

\* What the code selects lets the counter count and interrupt.
LEMMA Selected == Bit(generate_perf, 22) /\ Bit(generate_perf, 20) /\ generate_perf \in Nat
  BY DEF Bit, generate_perf

\* One more event of the measured code or of a handler is one more of both.
LEMMA Tallied ==
  ASSUME NEW a \in 0 .. Wrap - 1, NEW b \in 0 .. Wrap - 1
  PROVE  /\ (((a + b) % Wrap) + 1) % Wrap = (((a + 1) % Wrap) + b) % Wrap
         /\ (((a + b) % Wrap) + 1) % Wrap = (a + ((b + 1) % Wrap)) % Wrap
         /\ (a + 1) % Wrap \in 0 .. Wrap - 1
  BY PerfAssumption

\* An event, counted or not, keeps the unit as it has to be.  It comes from the measured
\* code or a handler exactly while the Bsp is in the window.
LEMMA EventKeeps ==
  ASSUME NEW b, NEW p, PmuOK(b, p), NEW k \in Counters, NEW place \in Places,
         b = "window" <=> place # "outside"
  PROVE  PmuOK(b, Event(p, k, place))
  <1> DEFINE wraps == Counts(p, k) /\ p.count[k] = Wrap - 1
             pmi == wraps /\ Interrupts(p, k) /\ p.lvt = "nmi"
             q == Event(p, k, place)
  <1>1. p \in Units /\ p.fixed = p.left
    BY DEF PmuOK
  <1>2. /\ q.count = [p.count EXCEPT ![k] = IF Counts(p, k) THEN (@ + 1) % Wrap ELSE @]
        /\ q.status = IF wraps THEN p.status \cup {k} ELSE p.status
        /\ q.lvt = IF pmi THEN "masked" ELSE p.lvt
        /\ q.pending = (p.pending \/ pmi)
        /\ q.events = IF k = "pmc0" /\ place = "measured" THEN (p.events + 1) % Wrap ELSE p.events
        /\ q.handler = IF k = "pmc0" /\ place = "handler" THEN (p.handler + 1) % Wrap ELSE p.handler
        /\ q.sentBy = IF pmi THEN k ELSE p.sentBy
        /\ q.sentAt = IF pmi THEN place ELSE p.sentAt
        /\ q.global = p.global /\ q.select = p.select /\ q.fixed = p.fixed
        /\ q.left = p.left
    BY <1>1 DEF Event, Units
  <1>3. q \in Units
    <2>1. /\ q.count \in [Counters -> 0 .. Wrap - 1] /\ q.events \in 0 .. Wrap - 1
          /\ q.handler \in 0 .. Wrap - 1
          /\ q.status \in SUBSET Counters /\ q.lvt \in {"masked", "nmi"}
      BY <1>1, <1>2, PerfAssumption DEF Units
    <2>2. q.pending \in BOOLEAN /\ q.sentBy \in Counters \cup {"nobody"} /\ q.sentAt \in Places
      BY <1>1, <1>2 DEF Units
    <2>3. DOMAIN q = DOMAIN p /\ q = [f \in DOMAIN p |-> q[f]]
      BY <1>1, ZenonT(60) DEF Event, Units
    <2> QED
      BY <1>1, <1>2, <2>1, <2>2, <2>3 DEF Units
  <1>4. Counts(p, k) => k \in p.global
    BY DEF Counts
  <1> HIDE DEF q
  <1>5. CASE p.global = {}
    <2>1. b # "window" /\ ~Counts(p, k)
      BY <1>4, <1>5 DEF PmuOK, Counters
    <2>2. /\ q.count = p.count /\ q.status = p.status /\ q.lvt = p.lvt
          /\ q.pending = p.pending /\ q.events = p.events /\ q.handler = p.handler
          /\ q.sentBy = p.sentBy /\ q.sentAt = p.sentAt
      BY <1>1, <1>2, <2>1 DEF Units
    <2> QED
      BY <1>2, <1>3, <2>2 DEF PmuOK, SentOK, FirmwareSent, q
  <1>6. CASE p.global # {} /\ b = "window"
    <2>1. /\ p.select = generate_perf /\ p.global = Counters /\ place # "outside"
          /\ p.count["pmc0"] = (p.events + p.handler) % Wrap
          /\ p.lvt = "masked" <=> p.sentBy # "nobody"
          /\ SentOK(p)
      BY <1>6 DEF PmuOK, Opened
    <2>2. /\ k = "pmc0" => Counts(p, k) /\ Interrupts(p, k)
          /\ k # "pmc0" => (Counts(p, k) <=> p.left) /\ (Interrupts(p, k) <=> p.left)
      BY <1>1, <2>1, Selected DEF Counts, Interrupts
    <2>3. q.count["pmc0"] = (q.events + q.handler) % Wrap
      <3>1. CASE k = "pmc0"
        <4>1. /\ q.count["pmc0"] = (((p.events + p.handler) % Wrap) + 1) % Wrap
              /\ p.events \in 0 .. Wrap - 1 /\ p.handler \in 0 .. Wrap - 1
          BY <1>1, <1>2, <2>1, <2>2, <3>1 DEF Units, Counters
        <4>2. \/ q.events = (p.events + 1) % Wrap /\ q.handler = p.handler
              \/ q.events = p.events /\ q.handler = (p.handler + 1) % Wrap
          BY <1>2, <2>1, <3>1 DEF Places
        <4> QED
          BY <4>1, <4>2, Tallied
      <3>2. CASE k # "pmc0"
        BY <1>1, <1>2, <2>1, <3>2 DEF Units, Counters
      <3> QED
        BY <3>1, <3>2
    <2>4. q.lvt = "masked" <=> q.sentBy # "nobody"
      BY <1>1, <1>2, <2>1 DEF Units, Counters
    <2>5. SentOK(q)
      <3>1. CASE k = "pmc0"
        BY <1>1, <1>2, <2>1, <2>2, <3>1 DEF Units, SentOK, FirmwareSent
      <3>2. CASE k = "fixed1"
        BY <1>1, <1>2, <2>1, <2>2, <3>2 DEF Units, SentOK, FirmwareSent
      <3> QED
        BY <3>1, <3>2 DEF Counters
    <2> QED
      BY <1>1, <1>2, <1>3, <1>6, <2>1, <2>3, <2>4, <2>5 DEF PmuOK, Opened, Leaving, q
  <1>7. CASE p.global # {} /\ b = "pmuOff"
    BY <1>1, <1>2, <1>3, <1>7 DEF PmuOK, Opened, Leaving, FirmwareSent, Counters, q
  <1>8. CASE p.global # {} /\ b \notin {"window", "pmuOff"}
    <2>1. p.lvt = "masked" /\ b \notin Opened /\ ~p.pending
      BY <1>8 DEF PmuOK, Opened, Leaving
    <2>2. /\ q.lvt = "masked" /\ q.pending = FALSE /\ q.events = p.events
          /\ q.handler = p.handler /\ q.sentBy = p.sentBy /\ q.sentAt = p.sentAt
      BY <1>1, <1>2, <1>8, <2>1 DEF Units
    <2> QED
      BY <1>1, <1>2, <1>3, <1>8, <2>1, <2>2 DEF PmuOK, Opened, Leaving, q
  <1> QED
    BY <1>5, <1>6, <1>7, <1>8 DEF q

\* What perfctr.h does to the unit, in the order of init.cc:61-76.
LEMMA CodeKeeps ==
  ASSUME NEW p, ~p.pending
  PROVE  /\ PmuOK("pmi", p) => PmuOK("pmuOff", enable_pmi_nmi(p))
         /\ PmuOK("pmuOff", p) => PmuOK("pmuReset", disable_perf_globalctrl(p))
         /\ PmuOK("pmuReset", p) => PmuOK("pmuClear", reset(p))
         /\ PmuOK("pmuClear", p) => PmuOK("pmuSelect", clear(p))
         /\ PmuOK("pmuSelect", p) => PmuOK("count", set_perfselect(p, generate_perf))
         /\ PmuOK("count", p) => PmuOK("window", set_perf_globalctrl(p))
         /\ PmuOK("window", p) => PmuOK("pVal", disable_perf_globalctrl(p))
  <1> USE DEF Units, Opened, Leaving, SentOK, FirmwareSent
  <1>1. PmuOK("pmi", p) => PmuOK("pmuOff", enable_pmi_nmi(p))
    BY DEF PmuOK, enable_pmi_nmi
  <1>2. PmuOK("pmuOff", p) => PmuOK("pmuReset", disable_perf_globalctrl(p))
    BY DEF PmuOK, disable_perf_globalctrl
  <1>3. PmuOK("pmuReset", p) => PmuOK("pmuClear", reset(p))
    BY DEF PmuOK, reset
  <1>4. PmuOK("pmuClear", p) => PmuOK("pmuSelect", clear(p))
    BY PerfAssumption DEF PmuOK, clear, Counters
  <1>5. PmuOK("pmuSelect", p) => PmuOK("count", set_perfselect(p, generate_perf))
    BY Selected DEF PmuOK, set_perfselect
  <1>6. PmuOK("count", p) => PmuOK("window", set_perf_globalctrl(p))
    BY PerfAssumption DEF PmuOK, set_perf_globalctrl
  <1>7. PmuOK("window", p) => PmuOK("pVal", disable_perf_globalctrl(p))
    BY DEF PmuOK, disable_perf_globalctrl
  <1> QED
    BY <1>1, <1>2, <1>3, <1>4, <1>5, <1>6, <1>7

\* A step of any core that leaves the unit alone.
LEMMA PmuMove ==
  ASSUME at \in [Cores -> Labels], PmuStands, NEW c \in Cores, NEW from, NEW to,
         Goes(c, from, to), pmu' = pmu,
         from \in Opened \cup Leaving =>
           <<from, to>> \in {<<"pVal", "pPmc">>, <<"pPmc", "launch">>, <<"launch", "release">>,
                             <<"pCore", "release">>, <<"release", "halt">>, <<"halt", "halted">>},
         to \in Opened \cup Leaving => from \in Opened \cup Leaving \/ to = "pCore"
  PROVE  PmuStands'
  <1>1. at[c] = from /\ at' = [at EXCEPT ![c] = to] /\ (c = Bsp => ~pmu.pending)
    BY DEF Goes, Runs
  <1>2. CASE c # Bsp
    BY <1>1, <1>2, BootAssumption DEF PmuStands
  <1>3. CASE c = Bsp
    <2>1. at'[Bsp] = to /\ PmuOK(from, pmu) /\ ~pmu.pending
      BY <1>1, <1>3 DEF PmuStands
    <2>2. PmuOK(to, pmu)
      BY <2>1 DEF PmuOK, SentOK, FirmwareSent, Opened, Leaving
    <2> QED
      BY <2>1, <2>2 DEF PmuStands
  <1> QED
    BY <1>2, <1>3

\* The steps of a core's own code.
LEMMA MainPmu ==
  ASSUME BInv, Registers, PmuStands, NEW c \in Cores, Main(c)
  PROVE  PmuStands'
  <1>1. at \in [Cores -> Labels]
    BY DEF BInv, Types
  <1>2. CASE \/ Take(c) \/ GetPhysical(c) \/ ProtectedMode(c) \/ ClearTables(c)
             \/ FillTables(c) \/ LongMode(c) \/ EnterLong(c)
    BY <1>1, <1>2, PmuMove DEF Take, GetPhysical, ProtectedMode, ClearTables,
       FillTables, LongMode, EnterLong, Does, Opened, Leaving
  <1>3. CASE \/ StaticInit(c) \/ UartDivisor(c) \/ UartFormat(c) \/ CountCore(c)
             \/ MapApic(c) \/ Role(c)
    BY <1>1, <1>3, PmuMove DEF StaticInit, UartDivisor, UartFormat, CountCore, MapApic,
       Role, Does, Opened, Leaving
  <1>4. CASE PrintLock(c) \/ PrintEnter(c)
    BY <1>4 DEF PrintLock, PrintEnter, PmuStands
  <1>5. CASE PrintDone(c)
    <2>1. /\ at[c] \in Prints /\ Goes(c, at[c], AfterPrint[at[c]]) /\ pmu' = pmu
      BY <1>5 DEF PrintDone
    <2>2. \/ at[c] = "pEntry" /\ AfterPrint[at[c]] = "entries"
          \/ at[c] = "pReady" /\ AfterPrint[at[c]] = "apicOk"
          \/ at[c] = "pApic" /\ AfterPrint[at[c]] = "idt"
          \/ at[c] = "pPerf" /\ AfterPrint[at[c]] = "pmi"
          \/ at[c] = "pVal" /\ AfterPrint[at[c]] = "pPmc"
          \/ at[c] = "pPmc" /\ AfterPrint[at[c]] = "launch"
          \/ at[c] = "pCore" /\ AfterPrint[at[c]] = "release"
          \/ at[c] = "pHallo" /\ AfterPrint[at[c]] = "pFault"
          \/ at[c] = "pFault" /\ AfterPrint[at[c]] = "stuck"
      BY <2>1, PrintLabels DEF AfterPrint
    <2> QED
      BY <1>1, <2>1, <2>2, PmuMove DEF Opened, Leaving
  <1>6. CASE E820Loop(c) \/ CheckApic(c) \/ LoadIdt(c) \/ ReadMadt(c) \/ EnableLapic(c)
    BY <1>1, <1>6, PmuMove DEF E820Loop, CheckApic, LoadIdt, ReadMadt, EnableLapic, Does,
       Opened, Leaving
  <1>7. CASE \/ EnablePmi(c) \/ StopLeft(c) \/ ResetStatus(c) \/ ClearCounters(c)
             \/ SelectEvent(c) \/ StartCounting(c) \/ StopCounting(c)
    <2>1. /\ at[c] \in KernelIdt /\ Runs(c)
      BY <1>7 DEF EnablePmi, StopLeft, ResetStatus, ClearCounters, SelectEvent,
                  StartCounting, StopCounting, DoesPmu, Goes, KernelIdt
    <2>2. c = Bsp /\ ~pmu.pending
      BY <2>1 DEF Registers, BspLabels, Runs
    <2> QED
      BY <1>1, <1>7, <2>2, CodeKeeps
      DEF EnablePmi, StopLeft, ResetStatus, ClearCounters, SelectEvent,
          StartCounting, StopCounting, DoesPmu, Goes, PmuStands
  <1>8. CASE Launch(c)
    BY <1>1, <1>8, PmuMove DEF Launch, Opened, Leaving
  <1>9. CASE ReleaseStack(c) \/ Halt(c)
    BY <1>1, <1>9, PmuMove DEF ReleaseStack, Halt, Does, Opened, Leaving
  <1> QED
    BY <1>2, <1>3, <1>4, <1>5, <1>6, <1>7, <1>8, <1>9 DEF Main

\* The steps of the hardware and of the handler.
LEMMA RestPmu ==
  ASSUME BInv, PmuStands, NEW c \in Cores,
         Sipi(c) \/ Count(c) \/ Pmi(c) \/ OtherNmi(c) \/ Handler(c)
  PROVE  PmuStands'
  <1>1. at \in [Cores -> Labels]
    BY DEF BInv, Types
  <1>2. CASE Sipi(c)
    <2>0. pmu' = pmu /\ at' \in {at, [at EXCEPT ![c] = IF @ = "off" THEN "wait" ELSE @]}
      BY <1>2 DEF Sipi
    <2>1. /\ pmu' = pmu
          /\ at'[Bsp] = at[Bsp] \/ (at[Bsp] = "off" /\ at'[Bsp] = "wait")
      BY <1>1, <2>0, BootAssumption
    <2> QED
      BY <2>1 DEF PmuStands, PmuOK, Opened, Leaving
  <1>3. CASE Count(c)
    <2>1. PICK k \in Counters : pmu' = Event(pmu, k, Place(Bsp))
      BY <1>3 DEF Count
    <2>2. Place(Bsp) \in Places /\ (at[Bsp] = "window" <=> Place(Bsp) # "outside")
      BY DEF Place, Places
    <2> QED
      BY <1>3, <2>1, <2>2, EventKeeps DEF Count, PmuStands
  <1>4. CASE Pmi(c)
    <2>1. at' = at /\ pmu' = [pmu EXCEPT !.pending = FALSE]
      BY <1>4 DEF Pmi
    <2>2. /\ pmu'.pending = FALSE /\ pmu'.lvt = pmu.lvt /\ pmu'.global = pmu.global
          /\ pmu'.select = pmu.select /\ pmu'.fixed = pmu.fixed /\ pmu'.count = pmu.count
          /\ pmu'.status = pmu.status /\ pmu'.left = pmu.left /\ pmu'.events = pmu.events
          /\ pmu'.handler = pmu.handler /\ pmu'.sentBy = pmu.sentBy
          /\ pmu'.sentAt = pmu.sentAt
      BY <2>1 DEF PmuStands, PmuOK, Units
    <2>3. pmu' \in Units
      BY <2>1 DEF PmuStands, PmuOK, Units
    <2>4. at' = at
      BY <2>1
    <2> QED
      BY <2>2, <2>3, <2>4 DEF PmuStands, PmuOK, SentOK, FirmwareSent
  <1>5. CASE OtherNmi(c) \/ HandlerLock(c) \/ HandlerEnter(c) \/ HandlerPrinted(c)
    BY <1>5 DEF OtherNmi, HandlerLock, HandlerEnter, HandlerPrinted, PmuStands
  <1>6. CASE HandlerReturn(c)
    <2>1. /\ pmu' = pmu
          /\ at'[Bsp] = at[Bsp] \/ (at[Bsp] = "halted" /\ at'[Bsp] = "runaway")
      BY <1>1, <1>6 DEF HandlerReturn
    <2> QED
      BY <2>1 DEF PmuStands, PmuOK, Opened, Leaving
  <1> QED
    BY <1>2, <1>3, <1>4, <1>5, <1>6 DEF Handler

-----------------------------------------------------------------------------
NInv == BInv /\ Registers /\ PmuStands

\* A step of one core, or of the hardware, or none.
LEMMA NmiStep == ASSUME NInv, [Next]_vars PROVE NInv'
  <1>0. BInv'
    BY BootStep DEF NInv
  <1>1. ASSUME NEW c \in Cores, Main(c) PROVE NInv'
    BY <1>0, <1>1, MainRegisters, MainPmu DEF NInv
  <1>2. ASSUME NEW c \in Cores, Sipi(c) \/ Count(c) \/ Pmi(c) \/ OtherNmi(c) \/ Handler(c)
        PROVE  NInv'
    BY <1>0, <1>2, RestRegisters, RestPmu DEF NInv
  <1>3. CASE UNCHANGED vars
    BY <1>0, <1>3 DEF vars, NInv, Registers, PmuStands
  <1> QED
    BY <1>1, <1>2, <1>3 DEF Next

\* Registers and counters are as NInv says throughout, whatever NMIs come.
LEMMA NmiInductive == Spec => []NInv
  <1>1. Init => NInv
    <2> SUFFICES ASSUME Init PROVE NInv
      OBVIOUS
    <2>1. BInv
      BY BootStarts
    <2>2. Registers
      BY DEF Init, Registers, BspLabels, EmptyIdt, KernelIdt
    <2>3. PICK running \in PmuLeft : pmu = Left(running)
      BY DEF Init
    <2>4. at[Bsp] = "wait" /\ running \in BOOLEAN
      BY <2>3, BootAssumption DEF Init
    <2>5. PmuStands
      BY <2>3, <2>4, PerfAssumption, Selected
      DEF PmuStands, PmuOK, Left, Units, Opened, Leaving, Counters, Places
    <2> QED
      BY <2>1, <2>2, <2>5 DEF NInv
  <1> QED
    BY <1>1, NmiStep, PTL DEF Spec

\* Whatever the firmware left in the counters and whichever NMIs arrive, the number
\* start_kernel prints is that of the events of the measured code and of the handlers that
\* interrupted it (init.cc:61-81), for every width of the counter.
THEOREM MeasuredHolds == Spec => []Measured
  <1>1. NInv => Measured
    BY DEF NInv, PmuStands, PmuOK, Measured, read
  <1> QED
    BY <1>1, NmiInductive, PTL

\* The NMI sent is that of a wrap of the counter while it counts, and such a wrap sends it,
\* unless a counter the firmware left running wrapped first (perfctr.h:49-51, perfctr.cc:19).
THEOREM PmiIsOverflowHolds == Spec => []PmiIsOverflow
  <1>1. NInv => PmiIsOverflow
    BY DEF NInv, PmuStands, PmuOK, SentOK, PmiIsOverflow
  <1> QED
    BY <1>1, NmiInductive, PTL

-----------------------------------------------------------------------------
(* printf's lock.                                                          *)

LP == INSTANCE TicketLockProofs WITH Actors <- Contexts, pc <- lpc

\* Who has a ticket is in a call of printf.
Tickets ==
  /\ L!TypeOK
  /\ \A c \in Cores : /\ lpc[<<c, "main">>] # "idle" => at[c] \in Prints
                      /\ lpc[<<c, "nmi">>] # "idle" => nmi[c] \in {"hallo", "pmi"}

\* The assumption of TicketLock holds of the contexts.
LEMMA ContextsFinite ==
  /\ LP!IsFiniteSet(Contexts) /\ Modulus \in Nat \ {0}
  /\ LP!Cardinality(Contexts) <= Modulus
  <1>1. IsFiniteSet(Cores)
    <2>1. IsFiniteSet(0 .. 255)
      BY FS_Interval, 0 \in Int, 255 \in Int
    <2> QED
      BY <2>1, BootAssumption, FS_Subset
  <1>2. IsFiniteSet({"main", "nmi"}) /\ Cardinality({"main", "nmi"}) = 2
    <2>1. IsFiniteSet({"main"}) /\ Cardinality({"main"}) = 1 /\ "nmi" \notin {"main"}
      BY FS_Singleton
    <2>2. {"main"} \cup {"nmi"} = {"main", "nmi"}
      OBVIOUS
    <2> QED
      BY <2>1, <2>2, FS_AddElement
  <1>3. /\ IsFiniteSet(Contexts)
        /\ Cardinality(Contexts) = Cardinality(Cores) * Cardinality({"main", "nmi"})
    BY <1>1, <1>2, FS_Product DEF Contexts
  <1>4. Cardinality(Cores) \in Nat
    BY <1>1, FS_CardinalityType
  <1>5. Cardinality(Contexts) <= Modulus
    BY <1>2, <1>3, <1>4, BootAssumption
  <1>6. LP!IsFiniteSet(Contexts)
    BY <1>3 DEF LP!IsFiniteSet, IsFiniteSet
  <1>7. LP!Cardinality(Contexts) = Cardinality(Contexts)
    BY DEF LP!Cardinality, Cardinality
  <1> QED
    BY <1>5, <1>6, <1>7, BootAssumption

\* The lock of Boot is the one TicketLockProofs is about.
LEMMA SameLock ==
  LP!IInv <=> L!TypeOK /\ L!TicketWindow
  <1>1. L!TypeOK <=> LP!TypeOK
    BY DEF L!TypeOK, LP!TypeOK, L!Value, LP!Value
  <1>2. L!Outstanding = LP!Outstanding
    BY DEF L!Outstanding, LP!Outstanding
  <1>3. L!Cardinality(LP!Outstanding) = LP!Cardinality(LP!Outstanding)
    BY DEF L!Cardinality, LP!Cardinality
  <1>4. \A k : L!Distance(k) = LP!Distance(k)
    BY DEF L!Distance, LP!Distance
  <1>5. L!TicketWindow <=> LP!TicketWindow
    BY <1>2, <1>3, <1>4 DEF L!TicketWindow, LP!TicketWindow
  <1> QED
    BY <1>1, <1>5 DEF LP!IInv

\* Its steps are the same too.
LEMMA SameSteps ==
  ASSUME NEW k
  PROVE  /\ L!TakeTicket(k) <=> LP!TakeTicket(k)
         /\ L!Enter(k) <=> LP!Enter(k)
         /\ L!Release(k) <=> LP!Release(k)
  BY DEF L!TakeTicket, LP!TakeTicket, L!Enter, LP!Enter, L!Release, LP!Release,
         L!Inc, LP!Inc

\* lock() and ~Guard() keep the window of tickets.
LEMMA LockStep ==
  ASSUME L!TypeOK, L!TicketWindow, NEW k \in Contexts,
         L!TakeTicket(k) \/ L!Enter(k) \/ L!Release(k)
  PROVE  L!TypeOK' /\ L!TicketWindow'
  <1>0. SUFFICES LP!IInv'
    BY SameLock, PTL
  <1>1. LP!IInv /\ (LP!TakeTicket(k) \/ LP!Enter(k) \/ LP!Release(k))
    BY SameLock, SameSteps
  <1>2. CASE LP!TakeTicket(k)
    BY <1>1, <1>2, ContextsFinite, LP!TakeTicketPreserves
  <1>3. CASE LP!Enter(k)
    BY <1>1, <1>3, ContextsFinite, LP!EnterPreserves
  <1>4. CASE LP!Release(k)
    BY <1>1, <1>4, ContextsFinite, LP!ReleasePreserves
  <1> QED
    BY <1>1, <1>2, <1>3, <1>4

\* The constructor keeps the window if no ticket is out.
LEMMA ConstructStep ==
  ASSUME L!TypeOK, L!Construct, \A k \in Contexts : lpc[k] = "idle"
  PROVE  L!TicketWindow'
  <1>1. /\ acquire' = 0 /\ release' = 0 /\ lpc' = lpc
    BY DEF L!Construct
  <1>2. L!Outstanding' = {}
    BY <1>1 DEF L!Outstanding
  <1>3. L!Cardinality(L!Outstanding') = 0
    <2>1. L!Cardinality({}) = Cardinality({})
      BY DEF L!Cardinality, Cardinality
    <2> QED
      BY <1>2, <2>1, FS_EmptySet
  <1>4. 0 = (0 + 0) % Modulus
    BY BootAssumption
  <1> QED
    BY <1>1, <1>2, <1>3, <1>4 DEF L!TicketWindow

\* A ticket is taken, served and given back with the counters in range.
LEMMA LockTyped ==
  ASSUME L!TypeOK,
         \/ L!Construct \/ UNCHANGED lockVars
         \/ \E k \in Contexts : L!TakeTicket(k) \/ L!Enter(k) \/ L!Release(k)
  PROVE  L!TypeOK'
  <1>1. /\ acquire \in 0 .. Modulus - 1 /\ release \in 0 .. Modulus - 1
        /\ ticket \in [Contexts -> 0 .. Modulus - 1]
        /\ lpc \in [Contexts -> {"idle", "spin", "held"}]
    BY DEF L!TypeOK, L!Value
  <1>2. L!Inc(acquire) \in 0 .. Modulus - 1 /\ L!Inc(release) \in 0 .. Modulus - 1
    BY <1>1, BootAssumption DEF L!Inc
  <1>3. CASE L!Construct \/ UNCHANGED lockVars
    BY <1>1, <1>3, BootAssumption DEF L!TypeOK, L!Value, L!Construct, lockVars
  <1>4. ASSUME NEW k \in Contexts, L!TakeTicket(k) \/ L!Enter(k) \/ L!Release(k)
        PROVE  L!TypeOK'
    BY <1>1, <1>2, <1>4 DEF L!TypeOK, L!Value, L!TakeTicket, L!Enter, L!Release
  <1> QED
    BY <1>3, <1>4

\* Which steps use the lock: one context takes, enters or gives back, static_init
\* constructs, and every other step leaves it alone.
LEMMA LockUse ==
  ASSUME [Next]_vars
  PROVE  \/ UNCHANGED lockVars
         \/ \E c \in Cores : StaticInit(c)
         \/ \E k \in Contexts : L!TakeTicket(k) \/ L!Enter(k) \/ L!Release(k)
  <1>1. CASE UNCHANGED vars
    BY <1>1 DEF vars, lockVars
  <1>2. \A c \in Cores : <<c, "main">> \in Contexts /\ <<c, "nmi">> \in Contexts
    BY DEF Contexts
  <1>3. ASSUME NEW c \in Cores, PrintLock(c) \/ PrintEnter(c) \/ PrintDone(c)
        PROVE  \E k \in Contexts : L!TakeTicket(k) \/ L!Enter(k) \/ L!Release(k)
    BY <1>2, <1>3 DEF PrintLock, PrintEnter, PrintDone
  <1>4. ASSUME NEW c \in Cores, Handler(c)
        PROVE  \/ UNCHANGED lockVars
               \/ \E k \in Contexts : L!TakeTicket(k) \/ L!Enter(k) \/ L!Release(k)
    BY <1>2, <1>4 DEF Handler, HandlerLock, HandlerEnter, HandlerPrinted, HandlerReturn
  <1>5. ASSUME NEW c \in Cores, Sipi(c) \/ Count(c) \/ Pmi(c) \/ OtherNmi(c)
        PROVE  UNCHANGED lockVars
    BY <1>5 DEF Sipi, Count, Pmi, OtherNmi
  <1>6. ASSUME NEW c \in Cores, Main(c),
               ~StaticInit(c), ~PrintLock(c), ~PrintEnter(c), ~PrintDone(c)
        PROVE  UNCHANGED lockVars
    BY <1>6 DEF Main, Take, GetPhysical, ProtectedMode, ClearTables, FillTables, LongMode,
       EnterLong, UartDivisor, UartFormat, CountCore, MapApic, Role, E820Loop, CheckApic,
       LoadIdt, ReadMadt, EnableLapic, EnablePmi, StopLeft, ResetStatus, ClearCounters,
       SelectEvent, StartCounting, StopCounting, Launch, ReleaseStack, Halt, Does, DoesPmu
  <1> QED
    BY <1>1, <1>3, <1>4, <1>5, <1>6 DEF Next

\* A step of a core's own code that is no part of printf starts where no printf is.
LEMMA OwnStep ==
  ASSUME NEW c \in Cores, Main(c), ~PrintLock(c), ~PrintEnter(c), ~PrintDone(c)
  PROVE  /\ nmi' = nmi /\ nmi[c] = "none" /\ lpc' = lpc
         /\ at[c] \notin Prints
         /\ \E to : at' = [at EXCEPT ![c] = to]
  BY PrintLabels
  DEF Main, Take, GetPhysical, ProtectedMode, ClearTables, FillTables, LongMode, EnterLong,
      StaticInit, UartDivisor, UartFormat, CountCore, MapApic, Role, E820Loop, CheckApic,
      LoadIdt, ReadMadt, EnableLapic, EnablePmi, StopLeft, ResetStatus, ClearCounters,
      SelectEvent, StartCounting, StopCounting, Launch, ReleaseStack, Halt, Does, DoesPmu,
      Goes, Runs, L!Construct, lockVars

\* Every step keeps the tickets where the calls are.
LEMMA TicketStep ==
  ASSUME NInv, Tickets, [Next]_vars
  PROVE  Tickets'
  <1>1. at \in [Cores -> Labels] /\ nmi \in [Cores -> {"none", "hallo", "pmi", "eoi"}]
    BY DEF NInv, BInv, Types, Registers
  <1>2. lpc \in [Contexts -> {"idle", "spin", "held"}]
    BY DEF Tickets, L!TypeOK
  <1>3. L!TypeOK'
    BY LockUse, LockTyped DEF Tickets, StaticInit
  <1>4. SUFFICES \A d \in Cores : /\ lpc'[<<d, "main">>] # "idle" => at'[d] \in Prints
                                  /\ lpc'[<<d, "nmi">>] # "idle" => nmi'[d] \in {"hallo", "pmi"}
    BY <1>3 DEF Tickets
  <1>5. \A d \in Cores : /\ lpc[<<d, "main">>] # "idle" => at[d] \in Prints
                         /\ lpc[<<d, "nmi">>] # "idle" => nmi[d] \in {"hallo", "pmi"}
    BY DEF Tickets
  <1>6. \A d \in Cores : <<d, "main">> \in Contexts /\ <<d, "nmi">> \in Contexts
    BY DEF Contexts
  <1>7. ASSUME NEW c \in Cores, Main(c), ~PrintLock(c), ~PrintEnter(c), ~PrintDone(c)
        PROVE  \A d \in Cores : /\ lpc'[<<d, "main">>] # "idle" => at'[d] \in Prints
                                /\ lpc'[<<d, "nmi">>] # "idle" => nmi'[d] \in {"hallo", "pmi"}
    BY <1>1, <1>5, <1>7, OwnStep
  <1>8. ASSUME NEW c \in Cores, PrintLock(c) \/ PrintEnter(c)
        PROVE  \A d \in Cores : /\ lpc'[<<d, "main">>] # "idle" => at'[d] \in Prints
                                /\ lpc'[<<d, "nmi">>] # "idle" => nmi'[d] \in {"hallo", "pmi"}
    <2>1. /\ at[c] \in Prints /\ at' = at /\ nmi' = nmi
          /\ \E v \in {"spin", "held"} : lpc' = [lpc EXCEPT ![<<c, "main">>] = v]
      BY <1>8 DEF PrintLock, PrintEnter, L!TakeTicket, L!Enter
    <2> QED
      BY <1>2, <1>5, <1>6, <2>1
  <1>9. ASSUME NEW c \in Cores, PrintDone(c)
        PROVE  \A d \in Cores : /\ lpc'[<<d, "main">>] # "idle" => at'[d] \in Prints
                                /\ lpc'[<<d, "nmi">>] # "idle" => nmi'[d] \in {"hallo", "pmi"}
    <2>1. /\ at' = [at EXCEPT ![c] = AfterPrint[at[c]]] /\ nmi' = nmi
          /\ lpc' = [lpc EXCEPT ![<<c, "main">>] = "idle"]
      BY <1>9 DEF PrintDone, Goes, L!Release
    <2> QED
      BY <1>1, <1>2, <1>5, <1>6, <2>1
  <1>10. ASSUME NEW c \in Cores, Sipi(c) \/ HandlerReturn(c)
        PROVE  \A d \in Cores : /\ lpc'[<<d, "main">>] # "idle" => at'[d] \in Prints
                                /\ lpc'[<<d, "nmi">>] # "idle" => nmi'[d] \in {"hallo", "pmi"}
    <2>1. /\ \A d \in Cores : at'[d] = at[d] \/ at[d] \in {"off", "halted"}
          /\ \A d \in Cores : nmi'[d] = nmi[d] \/ nmi[d] = "eoi"
          /\ lpc' = lpc
      BY <1>1, <1>10 DEF Sipi, HandlerReturn, lockVars
    <2> QED
      BY <1>5, <2>1, PrintLabels
  <1>11. ASSUME NEW c \in Cores, Count(c) \/ Pmi(c) \/ OtherNmi(c)
        PROVE  \A d \in Cores : /\ lpc'[<<d, "main">>] # "idle" => at'[d] \in Prints
                                /\ lpc'[<<d, "nmi">>] # "idle" => nmi'[d] \in {"hallo", "pmi"}
    <2>1. /\ at' = at /\ lpc' = lpc
          /\ \A d \in Cores : nmi'[d] = nmi[d] \/ nmi[d] = "none"
      BY <1>1, <1>11 DEF Count, Pmi, OtherNmi, Deliver, lockVars
    <2> QED
      BY <1>5, <2>1
  <1>12. ASSUME NEW c \in Cores, HandlerLock(c) \/ HandlerEnter(c) \/ HandlerPrinted(c)
        PROVE  \A d \in Cores : /\ lpc'[<<d, "main">>] # "idle" => at'[d] \in Prints
                                /\ lpc'[<<d, "nmi">>] # "idle" => nmi'[d] \in {"hallo", "pmi"}
    <2>1. CASE HandlerLock(c) \/ HandlerEnter(c)
      <3>1. /\ nmi[c] \in {"hallo", "pmi"} /\ at' = at /\ nmi' = nmi
            /\ \E v \in {"spin", "held"} : lpc' = [lpc EXCEPT ![<<c, "nmi">>] = v]
        BY <2>1 DEF HandlerLock, HandlerEnter, L!TakeTicket, L!Enter
      <3> QED
        BY <1>2, <1>5, <1>6, <3>1
    <2>2. CASE HandlerPrinted(c)
      <3>1. /\ at' = at /\ lpc' = [lpc EXCEPT ![<<c, "nmi">>] = "idle"]
            /\ \A d \in Cores : d # c => nmi'[d] = nmi[d]
        BY <1>1, <2>2 DEF HandlerPrinted, L!Release
      <3> QED
        BY <1>2, <1>5, <1>6, <3>1
    <2> QED
      BY <1>12, <2>1, <2>2
  <1>13. CASE UNCHANGED vars
    BY <1>5, <1>13 DEF vars
  <1> QED
    BY <1>7, <1>8, <1>9, <1>10, <1>11, <1>12, <1>13 DEF Next, Handler

\* Tickets of the lock belong to calls of printf throughout.
LEMMA TicketsInductive == Spec => [](NInv /\ Tickets)
  <1>1. Init => Tickets
    BY BootAssumption DEF Init, Tickets, L!TypeOK, L!Value, Contexts
  <1> QED
    BY <1>1, NmiInductive, TicketStep, PTL DEF Spec

\* While a core is in static_init or serial.init(), a ticket that is out belongs to the
\* handler on a core that has given stack_wait back.
LEMMA OthersOut ==
  ASSUME NInv, Tickets, NEW c \in Cores, at[c] \in {"ctors", "uartEnd"},
         NEW d \in Cores, NEW k \in {"main", "nmi"}, lpc[<<d, k>>] # "idle"
  PROVE  k = "nmi" /\ WokenPrints(d)
  <1>1. Inside(c) /\ at[c] \notin Prints /\ regs.idt[c] = "empty"
    BY PrintLabels DEF NInv, Registers, EmptyIdt, Inside, Paged
  <1>2. d # c
    BY <1>1 DEF Tickets, NInv, Registers
  <1>3. ~Inside(d)
    BY <1>1, <1>2 DEF NInv, BInv, Exclusive
  <1>4. at[d] \notin Prints
    BY <1>3 DEF Inside, Paged
  <1> QED
    BY <1>3, <1>4 DEF Tickets, WokenPrints

\* Whenever NMIs arrive, a character that goes to the divisor latch comes from a core
\* that is done and was woken (serial.cc:14-20, init.cc:94).
THEOREM DivisorByWakeOnlyHolds == Spec => []DivisorByWakeOnly
  <1>1. NInv /\ Tickets => DivisorByWakeOnly
    BY OthersOut DEF DivisorByWakeOnly, NInv, Registers
  <1> QED
    BY <1>1, TicketsInductive, PTL

\* Two holders of the lock have the ticket being served, and no two have the same.
LEMMA WindowExcludes ==
  ASSUME L!TicketWindow PROVE PrintfLockSound
  BY DEF L!TicketWindow, L!MutualExclusion, L!Outstanding, PrintfLockSound

\* A core constructs the lock while one that is done has a ticket.
WokenAtConstruct ==
  \E c, d \in Cores : /\ at[c] = "ctors" /\ at'[c] # "ctors"
                      /\ WokenPrints(d)

\* Every other step leaves the lock sound.
LEMMA SpoiltStep ==
  ASSUME NInv, Tickets, [Next]_vars, PrintfLockSound
  PROVE  PrintfLockSound' \/ WokenAtConstruct
  <1>1. L!TypeOK /\ L!TicketWindow
    BY DEF Tickets, PrintfLockSound
  <1>2. CASE UNCHANGED lockVars
    BY <1>2 DEF lockVars, PrintfLockSound, L!TicketWindow, L!MutualExclusion,
                      L!Outstanding, L!Distance
  <1>3. CASE \E k \in Contexts : L!TakeTicket(k) \/ L!Enter(k) \/ L!Release(k)
    <2>1. L!TicketWindow'
      BY <1>1, <1>3, LockStep
    <2> QED
      BY <2>1, WindowExcludes, PTL
  <1>4. ASSUME NEW c \in Cores, StaticInit(c), ~WokenAtConstruct PROVE PrintfLockSound'
    <2>1. at[c] = "ctors" /\ at'[c] # "ctors" /\ L!Construct
      BY <1>4 DEF StaticInit, Goes, NInv, BInv, Types
    <2>2. \A d \in Cores : ~WokenPrints(d)
      BY <1>4, <2>1 DEF WokenAtConstruct
    <2>3. \A k \in Contexts : lpc[k] = "idle"
      <3> SUFFICES ASSUME NEW k \in Contexts, lpc[k] # "idle" PROVE FALSE
        OBVIOUS
      <3>1. PICK d \in Cores, x \in {"main", "nmi"} : k = <<d, x>>
        BY DEF Contexts
      <3> QED
        BY <2>1, <2>2, <3>1, OthersOut
    <2>4. L!TicketWindow'
      BY <1>1, <2>1, <2>3, ConstructStep
    <2> QED
      BY <2>4, WindowExcludes, PTL
  <1> QED
    BY <1>2, <1>3, <1>4, LockUse

\* Whenever NMIs arrive, printf's lock loses its state in one way only: static_init of
\* one core constructs it again (init.h:6-12) while another that is done prints.
THEOREM SpoiltByWakeOnlyHolds == Spec => SpoiltByWakeOnly
  BY SpoiltStep, TicketsInductive, PTL DEF Spec, SpoiltByWakeOnly, WokenAtConstruct

-----------------------------------------------------------------------------
(* The machine as it is built: the PMU is the only source of NMIs.         *)

\* Only the Bsp is interrupted, and only where it has its gates and no printf runs.
Quiet ==
  /\ up /\ nmis = 0
  /\ \A c \in Cores : nmi[c] # "none" => c = Bsp /\ at[c] \in {"pmuOff", "window"}

\* Without NMIs from outside, no step interrupts a core where it has no gates or prints.
LEMMA QuietKept ==
  ASSUME MaxNmi = 0, NInv, Quiet, [Next]_vars
  PROVE  Quiet'
  <1>1. at \in [Cores -> Labels] /\ nmi \in [Cores -> {"none", "hallo", "pmi", "eoi"}]
    BY DEF NInv, BInv, Types, Registers
  <1>2. ASSUME NEW c \in Cores, Main(c), ~PrintLock(c), ~PrintEnter(c), ~PrintDone(c)
        PROVE  Quiet'
    <2>1. up' = up /\ nmis' = nmis
      BY <1>2 DEF Main, Take, GetPhysical, ProtectedMode, ClearTables, FillTables, LongMode,
         EnterLong, StaticInit, UartDivisor, UartFormat, CountCore, MapApic, Role, E820Loop,
         CheckApic, LoadIdt, ReadMadt, EnableLapic, EnablePmi, StopLeft, ResetStatus,
         ClearCounters, SelectEvent, StartCounting, StopCounting, Launch, ReleaseStack, Halt,
         Does, DoesPmu, Goes
    <2> QED
      BY <1>1, <1>2, <2>1, OwnStep DEF Quiet
  <1>3. ASSUME NEW c \in Cores, PrintLock(c) \/ PrintEnter(c) \/ PrintDone(c)
        PROVE  Quiet'
    BY <1>1, <1>3 DEF PrintLock, PrintEnter, PrintDone, Goes, Runs, Quiet
  <1>4. ASSUME NEW c \in Cores, Sipi(c) \/ Count(c) PROVE Quiet'
    <2>1. up' = up /\ nmis' = nmis /\ nmi' = nmi /\ \A d \in Cores : at'[d] = at[d] \/ at[d] = "off"
      BY <1>1, <1>4 DEF Sipi, Count
    <2> QED
      BY <2>1 DEF Quiet
  <1>5. ASSUME NEW c \in Cores, Pmi(c) PROVE Quiet'
    <2>1. /\ c = Bsp /\ at[c] \in {"pmuOff", "window"}
          /\ at' = at /\ nmis' = nmis /\ Deliver(c)
      BY <1>5 DEF Pmi, NInv, PmuStands, PmuOK
    <2>2. regs.idt[c] = "kernel" /\ mem.ident = "full"
      BY <2>1, PrintLabels DEF NInv, Registers, KernelIdt, BInv, Tables, Full, Paged
    <2> QED
      BY <1>1, <2>1, <2>2 DEF Deliver, Quiet
  <1>6. ASSUME NEW c \in Cores PROVE ~OtherNmi(c)
    BY DEF OtherNmi, Quiet
  <1>7. ASSUME NEW c \in Cores, Handler(c) PROVE Quiet'
    <2>1. /\ up' = up /\ nmis' = nmis /\ nmi[c] # "none"
          /\ \A d \in Cores : d # c => nmi'[d] = nmi[d] /\ at'[d] = at[d]
      BY <1>1, <1>7 DEF Handler, HandlerLock, HandlerEnter, HandlerPrinted, HandlerReturn
    <2>2. c = Bsp /\ at[c] \in {"pmuOff", "window"}
      BY <2>1 DEF Quiet
    <2>3. at'[c] = at[c]
      BY <1>1, <1>7, <2>2
      DEF Handler, HandlerLock, HandlerEnter, HandlerPrinted, HandlerReturn
    <2> QED
      BY <2>1, <2>2, <2>3 DEF Quiet
  <1>8. CASE UNCHANGED vars
    BY <1>8 DEF vars, Quiet
  <1> QED
    BY <1>2, <1>3, <1>4, <1>5, <1>6, <1>7, <1>8 DEF Next

\* Without NMIs from outside, the Bsp is interrupted only where it can take it.
LEMMA QuietInductive == MaxNmi = 0 => (Spec => [](NInv /\ Tickets /\ Quiet))
  <1> SUFFICES ASSUME MaxNmi = 0 PROVE Spec => [](NInv /\ Tickets /\ Quiet)
    OBVIOUS
  <1>1. Init => Quiet
    BY DEF Init, Quiet
  <1>2. NInv /\ Quiet /\ [Next]_vars => Quiet'
    BY QuietKept
  <1> QED
    BY <1>1, <1>2, TicketsInductive, PTL DEF Spec

\* With the PMU as the only source of NMIs the machine is not reset, even if the firmware
\* left counters running: every NMI finds its gate (init.cc:47 before init.cc:67).
THEOREM NoResetHolds == MaxNmi = 0 => (Spec => []NoReset)
  <1>1. Quiet => NoReset
    BY DEF Quiet, NoReset
  <1> QED
    BY <1>1, QuietInductive, PTL

\* Then no core is woken ...
LEMMA NoneWoken == ASSUME NInv, Tickets, Quiet, NEW d \in Cores PROVE ~WokenPrints(d)
  BY PrintLabels DEF NInv, Tickets, Quiet, WokenPrints, Inside, Paged

\* ... so that no byte of a printf goes to the divisor latch (serial.cc:14-20), ...
THEOREM NoByteIntoDivisorHolds == MaxNmi = 0 => (Spec => []NoByteIntoDivisor)
  <1>1. NInv /\ Tickets /\ Quiet => NoByteIntoDivisor
    <2> SUFFICES ASSUME NInv, Tickets, Quiet, NEW k \in Contexts, lpc[k] = "held", regs.dlab
                 PROVE  FALSE
      BY DEF NoByteIntoDivisor, NInv, Registers
    <2>1. PICK d \in Cores, x \in {"main", "nmi"} : k = <<d, x>>
      BY DEF Contexts
    <2>2. PICK c \in Cores : at[c] = "uartEnd"
      BY DEF NInv, Registers
    <2> QED
      BY <2>1, <2>2, OthersOut, NoneWoken
  <1> QED
    BY <1>1, QuietInductive, PTL

\* ... printf's lock keeps its state although every core constructs it again
\* (init.cc:18), ...
THEOREM PrintfLockSoundHolds == MaxNmi = 0 => (Spec => []PrintfLockSound)
  <1> SUFFICES ASSUME MaxNmi = 0 PROVE Spec => []PrintfLockSound
    OBVIOUS
  <1>1. Init => PrintfLockSound
    <2> SUFFICES ASSUME Init PROVE L!TicketWindow
      BY WindowExcludes
    <2>1. L!Outstanding = {}
      BY DEF Init, L!Outstanding
    <2>2. L!Cardinality(L!Outstanding) = 0
      <3>1. L!Cardinality({}) = Cardinality({})
        BY DEF L!Cardinality, Cardinality
      <3> QED
        BY <2>1, <3>1, FS_EmptySet
    <2>3. 0 = (0 + 0) % Modulus
      BY BootAssumption
    <2> QED
      BY <2>1, <2>2, <2>3 DEF Init, L!TicketWindow
  <1>2. NInv /\ Tickets /\ Quiet /\ PrintfLockSound /\ [Next]_vars => PrintfLockSound'
    BY SpoiltStep, NoneWoken DEF WokenAtConstruct
  <1> QED
    BY <1>1, <1>2, QuietInductive, PTL DEF Spec

\* ... and a core that has executed hlt stays halted (init.cc:94).
THEOREM HaltedForGoodHolds == MaxNmi = 0 => (Spec => HaltedForGood)
  <1> SUFFICES ASSUME MaxNmi = 0 PROVE Spec => HaltedForGood
    OBVIOUS
  <1>1. ASSUME NInv, Quiet, [Next]_vars
        PROVE  \A c \in Cores : at[c] = "halted" => at'[c] = "halted"
    <2>1. at \in [Cores -> Labels]
      BY <1>1 DEF NInv, BInv, Types
    <2>2. ASSUME NEW c \in Cores, Main(c), ~PrintLock(c), ~PrintEnter(c), ~PrintDone(c)
          PROVE  at[c] # "halted" /\ \E to : at' = [at EXCEPT ![c] = to]
      BY <2>2
      DEF Main, Take, GetPhysical, ProtectedMode, ClearTables, FillTables, LongMode, EnterLong,
          StaticInit, UartDivisor, UartFormat, CountCore, MapApic, Role, E820Loop, CheckApic,
          LoadIdt, ReadMadt, EnableLapic, EnablePmi, StopLeft, ResetStatus, ClearCounters,
          SelectEvent, StartCounting, StopCounting, Launch, ReleaseStack, Halt, Does, DoesPmu,
          Goes
    <2>3. ASSUME NEW c \in Cores, PrintLock(c) \/ PrintEnter(c) \/ PrintDone(c)
          PROVE  at[c] # "halted" /\ (at' = at \/ \E to : at' = [at EXCEPT ![c] = to])
      BY <2>3, PrintLabels DEF PrintLock, PrintEnter, PrintDone, Goes
    <2>4. ASSUME NEW c \in Cores,
                 Sipi(c) \/ Count(c) \/ Pmi(c) \/ OtherNmi(c) \/ HandlerLock(c)
                 \/ HandlerEnter(c) \/ HandlerPrinted(c)
          PROVE  \A d \in Cores : at'[d] = at[d] \/ at[d] = "off"
      BY <2>1, <2>4 DEF Sipi, Count, Pmi, OtherNmi, HandlerLock, HandlerEnter, HandlerPrinted
    <2>5. ASSUME NEW c \in Cores, HandlerReturn(c)
          PROVE  at' = at
      BY <1>1, <2>1, <2>5 DEF HandlerReturn, Quiet
    <2>6. CASE UNCHANGED vars
      BY <2>6 DEF vars
    <2> QED
      BY <1>1, <2>1, <2>2, <2>3, <2>4, <2>5, <2>6 DEF Next, Handler
  <1>2. NInv /\ Quiet /\ [Next]_vars
          => [\A c \in Cores : at[c] = "halted" => at'[c] = "halted"]_vars
    BY <1>1
  <1> QED
    BY <1>2, QuietInductive, PTL DEF Spec, HaltedForGood
=============================================================================
