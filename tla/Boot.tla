-------------------------------- MODULE Boot --------------------------------
(***************************************************************************)
(* The cores' way from _start (firststage/bootloader.s) through            *)
(* start_kernel (delice_pxe/src/init.cc) to hlt, with everything they      *)
(* share: the stack_wait byte, the low stack, the page tables at 0x32000,  *)
(* the line control register of the serial port, and the ticket lock of    *)
(* printf, which every core's static_init constructs again.                *)
(*                                                                         *)
(* A step of a core is a run of instructions that touches one shared thing *)
(* (its label is the value of at[c]).  Non-maskable interrupts arrive      *)
(* between steps and run interrupt_handler on top of the core's code.      *)
(*                                                                         *)
(* The call that starts the other cores, init.cc:84, is commented out in   *)
(* this version.  LaunchAps = FALSE is the system as it is built;          *)
(* LaunchAps = TRUE is the system the remaining multi-core code            *)
(* (stack_wait, ap_entry, the else branch of start_kernel) is written for. *)
(***************************************************************************)
EXTENDS Integers, FiniteSets, PerfCounter

CONSTANTS Cores,      \* the cores, each named by its local APIC id
          Bsp,        \* the core the firmware starts
          LaunchAps,  \* whether start_kernel calls apic.launch_ap (init.cc:84)
          Entries,    \* entry_count, the lines of the e820 loop (init.cc:33)
          Modulus,    \* values of the counters of printf's lock, see TicketLock
          PmuLeft,    \* whether the firmware may leave counters running, or idle
          MaxNmi      \* bound: NMIs from sources other than the PMU

\* An APIC id is a byte.  Two contexts of a core call printf, and an unsigned int has
\* more values than there are contexts.
ASSUME BootAssumption ==
  /\ Cores \subseteq 0 .. 255 /\ Bsp \in Cores
  /\ Modulus \in Nat \ {0} /\ 2 * Cardinality(Cores) <= Modulus
  /\ LaunchAps \in BOOLEAN /\ Entries \in 0 .. 255 /\ MaxNmi \in Nat
  /\ PmuLeft \subseteq BOOLEAN

VARIABLES
  up,      \* FALSE after a triple fault: the machine is reset
  at,      \* at[c]: the label of the next step of core c
  mem,     \* shared memory, a record of
           \*   stackWait  the byte at 0x7e00
           \*   ident      what the PML4, PDPT and PD of bootloader.s hold
           \*   apicMap    whether PML4 entry 2 leads to the APIC page
           \*   coreId     the static CORE_ID of start_kernel
           \*   entry      the loop variable ii of init.cc:36
  regs,    \* registers, a record of
           \*   idt        per core, the table its IDTR points to
           \*   bspFlag    per core, bit 8 of IA32_APIC_BASE
           \*   dlab       bit 7 of the UART's LCR
  pmu,     \* the performance monitoring unit of the Bsp, see PerfCounter
  sipi,    \* sipi[c]: startup IPIs sent to c and not yet accepted
  nmi,     \* nmi[c]: where interrupt_handler is on core c
  nmis,    \* NMIs so far from sources other than the PMU
  acquire, release, ticket, lpc    \* printf's Lock, see TicketLock

lockVars == <<acquire, release, ticket, lpc>>
vars == <<up, at, mem, regs, pmu, sipi, nmi, nmis, acquire, release, ticket, lpc>>

\* A core's own flow of control and the interrupt handler on it call printf.
Contexts == Cores \X {"main", "nmi"}

L == INSTANCE TicketLock WITH Actors <- Contexts, pc <- lpc

-----------------------------------------------------------------------------
(* Labels.                                                                 *)

RealMode == {"off", "wait", "e820", "pmode"}

Early == {"e820", "pmode", "clear", "fill", "lmode"}

\* The calls of printf in start_kernel, and what follows each of them.
\* The last two are those of interrupt_handler for a page fault, which ends in while(1).
AfterPrint == [pEntry |-> "entries", pReady |-> "apicOk", pApic |-> "idt",
               pPerf |-> "pmi", pVal |-> "pPmc", pPmc |-> "launch", pCore |-> "release",
               pHallo |-> "pFault", pFault |-> "stuck"]

Prints == DOMAIN AfterPrint

\* Between cr0.PG = 1 (bootloader.s:123) and the release of stack_wait.
Paged == Prints \cup {"stack", "ctors", "uart", "uartEnd", "coreId", "map", "role",
                      "entries", "apicOk", "idt", "madt", "lapic", "pmi", "pmuOff", "pmuReset",
                      "pmuClear", "pmuSelect", "count", "window", "launch", "release",
                      "stuck"}

\* Steps that read or write the local APIC through 0x13370000000.
ApicUsers == {"lapic", "pmi", "launch", "pCore"}

Labels == {"off", "wait", "halt", "halted", "runaway"} \cup Early \cup Paged

\* c has taken stack_wait and not given it back.
Inside(c) == at[c] \in Early \cup Paged

-----------------------------------------------------------------------------
Init == /\ up = TRUE
        /\ at = [c \in Cores |-> IF c = Bsp THEN "wait" ELSE "off"]
        /\ mem = [stackWait |-> 1, ident |-> "stale", apicMap |-> FALSE,
                  coreId |-> 0, entry |-> 0]
        /\ regs = [idt |-> [c \in Cores |-> "ivt"], bspFlag |-> [c \in Cores |-> c = Bsp],
                   dlab |-> FALSE]
        /\ pmu \in {Left(running) : running \in PmuLeft}
        /\ sipi = [c \in Cores |-> 0]
        /\ nmi = [c \in Cores |-> "none"] /\ nmis = 0
        /\ acquire = 0 /\ release = 0
        /\ ticket = [k \in Contexts |-> 0] /\ lpc = [k \in Contexts |-> "idle"]

\* Core c executes its own code: it is in no handler, and an NMI of its PMU, which
\* comes within the step that caused it, is not still to be taken.
Runs(c) == up /\ nmi[c] = "none" /\ ~(c = Bsp /\ pmu.pending)

\* Core c goes on from label from to label to.
Goes(c, from, to) == /\ Runs(c)
                     /\ at[c] = from
                     /\ at' = [at EXCEPT ![c] = to]
                     /\ UNCHANGED <<up, nmi, nmis>>

\* The same with no effect on printf's lock, memory left as m, registers as r.
Does(c, from, to, m, r) == /\ Goes(c, from, to)
                           /\ mem' = m
                           /\ regs' = r
                           /\ UNCHANGED <<pmu, sipi, lockVars>>

\* The same with an effect on the performance monitoring unit only.
DoesPmu(c, from, to, p) == /\ Goes(c, from, to)
                           /\ pmu' = p
                           /\ UNCHANGED <<mem, regs, sipi, lockVars>>

-----------------------------------------------------------------------------
(* bootloader.s                                                            *)

\* Mutant: the byte is read and not taken (mov instead of xchg).
TakeByLoad(c) == mem.stackWait = 1 /\ Does(c, "wait", "e820", mem, regs)

\* .wait_for_stack: the xchg that finds 1 leaves 0.  One that finds 0 changes
\* nothing and is tried again.
Take(c) == /\ mem.stackWait = 1
           /\ Does(c, "wait", "e820", [mem EXCEPT !.stackWait = 0], regs)

\* The stack is set to 0x7c00; get_physical, which writes to memory of its own.
GetPhysical(c) == Does(c, "e820", "pmode", mem, regs)

ProtectedMode(c) == Does(c, "pmode", "clear", mem, regs)

\* early_page zeroes 16 KB from the PML4 on: the entry of the APIC page too.
ClearTables(c) == Does(c, "clear", "fill",
                       [mem EXCEPT !.ident = "zero", !.apicMap = FALSE], regs)

FillTables(c) == Does(c, "fill", "lmode", [mem EXCEPT !.ident = "full"], regs)

\* Rest of entry and setup_lm: the PIC is masked, IDTR emptied, paging enabled.
LongMode(c) == Does(c, "lmode", "stack", mem, [regs EXCEPT !.idt[c] = "empty"])

\* Mutant: the release of stack_wait that is commented out at bootloader.s:207.
EnterLongReleasing(c) == Does(c, "stack", "ctors", [mem EXCEPT !.stackWait = 1], regs)

\* enter_long: the core gets its own stack (see StackTop) and jumps to the kernel.
EnterLong(c) == Does(c, "stack", "ctors", mem, regs)

\* Mutant: all cores go on below 0x40000.
OneStackTop(c) == IF at[c] \in Early \cup {"stack"} THEN 31744 ELSE 262144

\* The stack of a core is 16 KB below 0x40000 + id * 0x4000; until enter_long
\* it is the one below 0x7c00.
StackTop(c) == IF at[c] \in Early \cup {"stack"} THEN 31744 ELSE 262144 + c * 16384

-----------------------------------------------------------------------------
(* start_kernel, all cores.                                                *)

\* static_init runs the constructor of printf's lock; cli.
StaticInit(c) == /\ Goes(c, "ctors", "uart")
                 /\ L!Construct
                 /\ UNCHANGED <<mem, regs, pmu, sipi>>

\* serial.init() up to the divisor, with DLAB set.
UartDivisor(c) == Does(c, "uart", "uartEnd", mem, [regs EXCEPT !.dlab = TRUE])

\* Mutant: LCR is left with DLAB set.
UartFormatKept(c) == Does(c, "uartEnd", "coreId", mem, regs)

\* serial.init() from LCR = 0x03 on.
UartFormat(c) == Does(c, "uartEnd", "coreId", mem, [regs EXCEPT !.dlab = FALSE])

\* CORE_ID.fetch_add(1)
CountCore(c) == Does(c, "coreId", "map", [mem EXCEPT !.coreId = @ + 1], regs)

\* map_addr(0x13370000000, 0xfee00000, ...), see Paging.
MapApic(c) == Does(c, "map", "role", [mem EXCEPT !.apicMap = TRUE], regs)

\* if(cpu::is_bsp())
Role(c) == Does(c, "role", IF regs.bspFlag[c] THEN "entries" ELSE "pCore", mem, regs)

\* printf_: spin.lock() takes a ticket ...
PrintLock(c) == /\ Runs(c) /\ at[c] \in Prints
                /\ L!TakeTicket(<<c, "main">>)
                /\ UNCHANGED <<up, at, mem, regs, pmu, sipi, nmi, nmis>>

\* ... waits until it is served, and _vsnprintf writes until ...
PrintEnter(c) == /\ Runs(c) /\ at[c] \in Prints
                 /\ L!Enter(<<c, "main">>)
                 /\ UNCHANGED <<up, at, mem, regs, pmu, sipi, nmi, nmis>>

\* ... the Guard is destroyed and printf_ returns.
PrintDone(c) == /\ at[c] \in Prints
                /\ Goes(c, at[c], AfterPrint[at[c]])
                /\ L!Release(<<c, "main">>)
                /\ UNCHANGED <<mem, regs, pmu, sipi>>

-----------------------------------------------------------------------------
(* start_kernel, the Bsp.                                                  *)

\* One turn of the loop over the e820 entries, or its end.
E820Loop(c) ==
  \/ /\ mem.entry < Entries
     /\ Does(c, "entries", "pEntry", [mem EXCEPT !.entry = @ + 1], regs)
  \/ mem.entry >= Entries /\ Does(c, "entries", "pReady", mem, regs)

\* if(apic.check_apic()): what cpuid answers.
CheckApic(c) == \/ Does(c, "apicOk", "pApic", mem, regs)
                \/ Does(c, "apicOk", "idt", mem, regs)

\* Mutant: the gates are written, lidt is missing.
LoadIdtNoLidt(c) == Does(c, "idt", "madt", mem, regs)

\* load_idt(); sti.  No maskable source is left: the PIC is masked.
LoadIdt(c) == Does(c, "idt", "madt", mem, [regs EXCEPT !.idt[c] = "kernel"])

\* apic.init() walks the firmware's tables, see Acpi, and fills cpu_nodes, which nobody
\* reads.  It returns, or a zero length behind a MADT keeps it in the walk, or a table
\* above the first GB faults and interrupt_handler prints twice and stays in while(1).
ReadMadt(c) == \/ Does(c, "madt", "lapic", mem, regs)
               \/ Does(c, "madt", "stuck", mem, regs)
               \/ Does(c, "madt", "pHallo", mem, regs)

\* apic.enable_lapic() writes IA32_APIC_BASE without the BSP flag.
EnableLapic(c) == Does(c, "lapic", "pPerf", mem, [regs EXCEPT !.bspFlag[c] = FALSE])

EnablePmi(c) == DoesPmu(c, "pmi", "pmuOff", enable_pmi_nmi(pmu))

\* What is left of the firmware's counting is ended ...
StopLeft(c) == DoesPmu(c, "pmuOff", "pmuReset", disable_perf_globalctrl(pmu))

ResetStatus(c) == DoesPmu(c, "pmuReset", "pmuClear", reset(pmu))

ClearCounters(c) == DoesPmu(c, "pmuClear", "pmuSelect", clear(pmu))

\* ... and wbinvd; the event is selected.
SelectEvent(c) == DoesPmu(c, "pmuSelect", "count", set_perfselect(pmu, generate_perf))

\* The measured code runs from here to the next step.
StartCounting(c) == DoesPmu(c, "count", "window", set_perf_globalctrl(pmu))

\* Mutant: the second disable_perf_globalctrl() is missing.
KeepCounting(c) == DoesPmu(c, "window", "pVal", pmu)

StopCounting(c) == DoesPmu(c, "window", "pVal", disable_perf_globalctrl(pmu))

\* launch_ap: INIT and two startup IPIs to all cores but c, without a pause.
\* INIT finds cores that have not been started and leaves them so.
Launch(c) == /\ Goes(c, "launch", "release")
             /\ sipi' = [d \in Cores |-> IF LaunchAps /\ d # c THEN 2 ELSE sipi[d]]
             /\ UNCHANGED <<mem, regs, pmu, lockVars>>

-----------------------------------------------------------------------------
(* start_kernel, all cores again.                                          *)

\* Mutant: the store to 0x7e00 is missing.
KeepStack(c) == Does(c, "release", "halt", mem, regs)

\* *stack_wait = 0x1
ReleaseStack(c) == Does(c, "release", "halt", [mem EXCEPT !.stackWait = 1], regs)

\* cli; hlt
Halt(c) == Does(c, "halt", "halted", mem, regs)

\* Core c goes on with its own code.
Main(c) ==
  \/ Take(c) \/ GetPhysical(c) \/ ProtectedMode(c) \/ ClearTables(c) \/ FillTables(c)
  \/ LongMode(c) \/ EnterLong(c)
  \/ StaticInit(c) \/ UartDivisor(c) \/ UartFormat(c) \/ CountCore(c) \/ MapApic(c)
  \/ Role(c) \/ PrintLock(c) \/ PrintEnter(c) \/ PrintDone(c)
  \/ E820Loop(c) \/ CheckApic(c) \/ LoadIdt(c) \/ ReadMadt(c) \/ EnableLapic(c)
  \/ EnablePmi(c) \/ StopLeft(c) \/ ResetStatus(c) \/ ClearCounters(c) \/ SelectEvent(c)
  \/ StartCounting(c) \/ StopCounting(c) \/ Launch(c)
  \/ ReleaseStack(c) \/ Halt(c)

-----------------------------------------------------------------------------
(* Hardware: startup IPIs and non-maskable interrupts.                     *)

\* A startup IPI is lost, or starts a core that waits for one, at 0x8000: ap_entry.  Any
\* other core ignores it.
Sipi(c) == /\ up
           /\ sipi[c] > 0
           /\ sipi' = [sipi EXCEPT ![c] = @ - 1]
           /\ at' \in {at, [at EXCEPT ![c] = IF @ = "off" THEN "wait" ELSE @]}
           /\ UNCHANGED <<up, mem, regs, pmu, nmi, nmis, lockVars>>

\* Core c accepts an NMI.  Without a gate, or with page tables that no longer
\* lead to it, the machine is reset; a stale TLB may still lead to it.
Deliver(c) == /\ up
              /\ nmi[c] = "none"
              /\ \/ /\ regs.idt[c] = "kernel"
                    /\ nmi' = [nmi EXCEPT ![c] = "hallo"]
                    /\ UNCHANGED up
                 \/ /\ regs.idt[c] # "kernel" \/ mem.ident # "full"
                    /\ up' = FALSE
                    /\ UNCHANGED nmi

\* The code that causes an event on c: between init.cc:67 and 79 the measured code, or a
\* handler on top of it, which the counter, set up for usr and os, does not tell from it.
Place(c) == IF at[c] # "window" THEN "outside"
            ELSE IF nmi[c] = "none" THEN "measured" ELSE "handler"

\* Something happens that a counter of the Bsp may count, be it in a step of its own
\* code, in a handler or in hlt.
Count(c) == /\ up /\ c = Bsp
            /\ \E k \in Counters : pmu' = Event(pmu, k, Place(c))
            /\ UNCHANGED <<up, at, mem, regs, sipi, nmi, nmis, lockVars>>

\* The NMI of a counter that has wrapped.
Pmi(c) == /\ c = Bsp /\ pmu.pending
          /\ Deliver(c)
          /\ pmu' = [pmu EXCEPT !.pending = FALSE]
          /\ UNCHANGED <<at, mem, regs, sipi, nmis, lockVars>>

\* An NMI from elsewhere.  In real mode the firmware's handler takes it.
OtherNmi(c) == /\ nmis < MaxNmi
               /\ at[c] \notin RealMode
               /\ Deliver(c)
               /\ nmis' = nmis + 1
               /\ UNCHANGED <<at, mem, regs, pmu, sipi, lockVars>>

-----------------------------------------------------------------------------
(* interrupt_handler for vector 2: two calls of printf, eoi, iretq.        *)

HandlerLock(c) == /\ up /\ nmi[c] \in {"hallo", "pmi"}
                  /\ L!TakeTicket(<<c, "nmi">>)
                  /\ UNCHANGED <<up, at, mem, regs, pmu, sipi, nmi, nmis>>

HandlerEnter(c) == /\ up /\ nmi[c] \in {"hallo", "pmi"}
                   /\ L!Enter(<<c, "nmi">>)
                   /\ UNCHANGED <<up, at, mem, regs, pmu, sipi, nmi, nmis>>

HandlerPrinted(c) == /\ up /\ nmi[c] \in {"hallo", "pmi"}
                     /\ L!Release(<<c, "nmi">>)
                     /\ nmi' = [nmi EXCEPT ![c] = IF @ = "hallo" THEN "pmi" ELSE "eoi"]
                     /\ UNCHANGED <<up, at, mem, regs, pmu, sipi, nmis>>

\* Mutant: vector 2 ends in while(1), as vectors 13 and 14 do.
HandlerLoops(c) == up /\ nmi[c] = "eoi" /\ UNCHANGED vars

\* eoi and the way back.  hlt does not resume: a halted core runs on behind it,
\* off the end of start_kernel.
HandlerReturn(c) == /\ up /\ nmi[c] = "eoi"
                    /\ nmi' = [nmi EXCEPT ![c] = "none"]
                    /\ at' = [at EXCEPT ![c] = IF @ = "halted" THEN "runaway" ELSE @]
                    /\ UNCHANGED <<up, mem, regs, pmu, sipi, nmis, lockVars>>

Handler(c) == HandlerLock(c) \/ HandlerEnter(c) \/ HandlerPrinted(c) \/ HandlerReturn(c)

Next == \E c \in Cores : Main(c) \/ Sipi(c) \/ Count(c) \/ Pmi(c) \/ OtherNmi(c) \/ Handler(c)

\* Every core that is not halted executes, and IPIs and the PMU's NMI arrive.
\* Nothing makes another NMI arrive.  The byte is not handed over in order; that a core which spins
\* on it gets it follows from every other core taking it once.
Fairness == \A c \in Cores : /\ WF_vars(Main(c)) /\ WF_vars(Handler(c))
                             /\ WF_vars(Sipi(c)) /\ WF_vars(Pmi(c))

Spec == Init /\ [][Next]_vars

FairSpec == Spec /\ Fairness

-----------------------------------------------------------------------------
(* Properties.                                                             *)

Memory == [stackWait : {0, 1}, ident : {"stale", "zero", "full"}, apicMap : BOOLEAN,
           coreId : Nat, entry : 0 .. Entries]

\* The byte at 0x7e00 makes the cores take turns.
Turn(c) == IF at[c] = "off" THEN "off"
           ELSE IF at[c] = "wait" THEN "ready"
           ELSE IF Inside(c) THEN "running" ELSE "done"

T == INSTANCE Turns WITH First <- Bsp, turn <- [c \in Cores |-> Turn(c)]

\* From bootloader.s:23 to init.cc:92 a core has the machine to itself, and it
\* is let in once.
TakesTurns == T!Spec

\* c has a stack: it is on its way to hlt, or halted and may take an NMI there.
HasStack(c) == at[c] \notin {"off", "wait"}

\* No two cores have the same 16 KB as their stack: not both are below 0x7c00,
\* and the stacks the APIC ids select (bootloader.s:26, 208-218) overlap neither
\* each other nor that one.
StacksDisjoint ==
  \A c, d \in Cores : HasStack(c) /\ HasStack(d) /\ c # d =>
    StackTop(c) >= StackTop(d) + 16384 \/ StackTop(d) >= StackTop(c) + 16384

\* A core that runs with paging on finds the identity map complete, and the
\* APIC page mapped when it uses it (init.cc:26, cpu.h:44-67), although every
\* core that boots zeroes and refills the same tables (bootloader.s:147-172).
MappingsStand ==
  \A c \in Cores :
    at[c] \in Paged => mem.ident = "full" /\ (at[c] \in ApicUsers => mem.apicMap)

\* No constructor run by a core's static_init (init.cc:18) takes printf's lock
\* away from a call that has a ticket.
PrintfLockSound == L!TicketWindow /\ L!MutualExclusion

\* What printf writes goes to the line, not to the divisor latch: no core
\* reprograms the UART (serial.cc:14-20) under a printf of another.
NoByteIntoDivisor == \A k \in Contexts : lpc[k] = "held" => ~regs.dlab

\* With the PMU as the only source of NMIs, each finds its gate (init.cc:47
\* before init.cc:67): the machine is not reset.
NoReset == up

\* What init.cc:81 prints is the number, modulo Wrap, of the events in the measured code
\* and in the handlers of the NMIs that interrupted it, and of no others: nothing of
\* what the firmware had counted, of the set-up or of the printf before (init.cc:61-81).
\* Without an NMI in between it is the measured code's alone.
Measured == at[Bsp] = "pPmc" => read(pmu) = (pmu.events + pmu.handler) % Wrap

\* The NMI that the LVT entry lets through went to a counter of the firmware: one that
\* wrapped before init.cc:61 stopped it, or the fixed counter it had set up.
FirmwareSent(p) == p.left /\ (p.sentBy = "fixed1" \/ p.sentAt = "outside")

\* The NMI sent is that of a wrap of counter 0 while it counts, and such a wrap sends it
\* (perfctr.h:49-51, perfctr.cc:19), unless a counter of the firmware has wrapped first:
\* the LVT entry opened at init.cc:59 masks itself and no wrap after that sends one.
PmiIsOverflow ==
  at[Bsp] \in {"pVal", "pPmc"} =>
    \/ pmu.sentBy = "nobody" /\ "pmc0" \notin pmu.status
    \/ pmu.sentBy = "pmc0" /\ pmu.sentAt # "outside" /\ "pmc0" \in pmu.status
    \/ pmu.sentBy # "nobody" /\ FirmwareSent(pmu)

\* A halted core stays halted (init.cc:94): no NMI is left to wake it.
HaltedForGood == [][\A c \in Cores : at[c] = "halted" => at'[c] = "halted"]_vars

\* Every core that is started gets its turn, finishes start_kernel and halts, unless the
\* firmware's tables keep the first one in apic.init() (init.cc:49).
EveryCoreHalts == \A c \in Cores : at[c] = "wait" ~> at[c] = "halted" \/ at[Bsp] = "stuck"

\* A call of printf returns, on whatever core and in whatever context, unless
\* the machine is reset (printf.cc:868-876: "thread safe and reentrant").
PrintfReturns == \A k \in Contexts : lpc[k] = "spin" ~> lpc[k] = "idle" \/ ~up

\* c's interrupt_handler waits for the lock that the printf below it has.
Nested(c) == lpc[<<c, "nmi">>] = "spin" /\ lpc[<<c, "main">>] # "idle"

\* c's interrupt_handler has a ticket for printf although c has given stack_wait back.
WokenPrints(c) == ~Inside(c) /\ lpc[<<c, "nmi">>] # "idle"

\* With NMIs at any point the lock is spoilt in one way only: a core's static_init
\* (init.h:6-12) constructs it again while an NMI has made a core that is done print.
SpoiltByWakeOnly ==
  [][PrintfLockSound => \/ PrintfLockSound'
                        \/ \E c, d \in Cores : /\ at[c] = "ctors" /\ at'[c] # "ctors"
                                               /\ WokenPrints(d)]_vars

\* Likewise a character that goes to the divisor latch while a core is in serial.init()
\* comes from a core that is done.
DivisorByWakeOnly ==
  \A c \in Cores : \A k \in {"main", "nmi"} :
    lpc[<<c, k>>] = "held" /\ regs.dlab => k = "nmi" /\ WokenPrints(c)

\* Whenever NMIs arrive, a core that is started reaches hlt unless one of them found no
\* gate, interrupted a printf that had its ticket, or cost the lock its state, or the
\* firmware's tables keep the first core in apic.init().
OnlyNestingHangs ==
  \A c \in Cores :
    at[c] = "wait" ~> \/ at[c] \in {"halted", "runaway"} \/ ~up \/ ~PrintfLockSound
                      \/ at[Bsp] = "stuck" \/ \E d \in Cores : Nested(d)
=============================================================================
