# A TLA+ verification of deliceos

deliceos is a small multi-core kernel that is loaded over PXE: a first stage in
assembler (`src/bootloader/firststage/bootloader.s`) takes a core from real mode to
long mode and jumps to the C++ kernel (`src/bootloader/delice_pxe`), which prints over
the serial port, sets up the local APIC and the IDT, runs a measurement with the
performance counters and halts. This directory holds TLA+ models of its parts, the TLC
configurations that check them and proofs for TLAPS.

There is no persistent state, no network and no scheduler in this version. What is
hard is elsewhere: several cores come up through the same code, stack, page tables and
UART; interrupts that cannot be masked arrive anywhere; and a few bytes at fixed
addresses hold all of it together.

## Inventory

Paths are relative to `src/bootloader/` where nothing else is said.

| part | source | state | operations | talks to |
|---|---|---|---|---|
| first stage | `firststage/bootloader.s` | `stack_wait` at 0x7e00, page tables at 0x32000-0x35fff, e820 buffer at 0x14000, the stack below 0x7c00 | `_start`, `get_physical`, `entry`, `early_page`, `fill_pd`, `setup_lm`, `enter_long`, `ap_entry` | BIOS, then `start_kernel` |
| kernel entry | `delice_pxe/src/init.cc`, `includes/misc/init.h` | `CORE_ID`, `buf`; releases `stack_wait` | `start_kernel`, `static_init` | all others |
| ticket lock | `includes/atomic.h` | `acquire`, `release` | `Lock::lock`, `Guard::~Guard`, the constructor | `printf` |
| serial console | `src/serial.cc`, `includes/misc/io.h` | `comdevices.device[4]`, the UARTs | `init`, `write` | `printf` through `_putchar_serial` |
| printf | `src/printf.cc` | the lock `spin`; buffers on the stack | `printf_` under the lock, `snprintf_` and others without | serial console |
| page tables | `src/paging.cc` | two tables at 0x22000, 0x23000; an entry of the PML4 | `map_addr` | first stage's tables |
| interrupts | `src/interrupt.cc`, `src/interrupt.s` | the IDT, the interrupted core's stack | `load_idt`, 32 stubs, `entry_vector`, `interrupt_handler` | `printf`, APIC |
| local APIC, ACPI | `src/apic.cc`, `includes/misc/cpu.h` | APIC registers, `cpu_nodes` | `check_apic`, `init`, `enable_lapic`, `launch_ap`, `eoi` | other cores |
| performance counters | `src/perfctr.cc`, `includes/perfctr.h` | MSRs, the LVT entry | enable, disable, clear, read | NMI |
| memory map | `bootloader.s:51-87`, `init.cc:32-41` | the buffer and the count in it | collect, print | BIOS, `printf` |
| ELF flattener | `src/elf_parse` | none | picks the image out of the section headers | build |
| memory functions | `src/memlib` | none | `memset`, `memmove` | nobody |

Interactions that matter: the cores share `stack_wait`, the stack, the tables, the UART
and the lock; `start_kernel` constructs the lock again on every core; an NMI runs
`interrupt_handler`, and with it `printf`, on top of any of this.

One fact about this version shapes the models: the call that starts the other cores,
`apic.launch_ap` at `init.cc:84`, is commented out. Everything around it (`stack_wait`,
`ap_entry`, per-core stacks, the `else` branch of `start_kernel`, the lock) is there.
`Boot` has a constant, `LaunchAps`, and both systems are checked.

What makes each part correct:

* first stage: one core at a time, each on a stack of its own, with page tables that
  stand while anybody uses them;
* kernel entry: every core that starts halts and stays halted;
* lock: one holder, in order, for ever, also when the counters wrap;
* serial: every present port gets every byte in order, and no byte is lost or ends up in
  a configuration register;
* page tables: identity map complete from the moment paging is on, APIC mapped uncached;
* interrupts: the handler sees its own interrupt, the interrupted code sees nothing;
* memory map: what is printed was reported, and what was reported is printed;
* performance counters: the number that is printed is that of the measured code and of the
  handlers that interrupted it, and an overflow in it sends the one NMI that was asked for,
  unless a counter the firmware left running was faster;
* printf: a directive is read as it is written, the text of a number says the number,
  a buffer is not overrun, and every call returns, since the lock is held over it;
* ACPI: every local APIC of the first RSDP is recorded (by its processor UID, see
  Findings), and the walk ends;
* ELF flattener: the image is the kernel from its first section to the end of its last.

The hazards of the code, with the lines where they bite and the properties aimed at them,
are listed in `PROJECT.json`.

## Modules

| module | models | kind |
|---|---|---|
| `FifoLock` | what `Lock` promises | abstract specification |
| `TicketLock` | `atomic.h` | component, implements `FifoLock` |
| `TicketLockProofs` | | proofs |
| `Turns` | what `stack_wait` is for | abstract specification |
| `PerfCounter` | `perfctr.h` and the performance monitoring unit of a core | operators, used by `Boot` |
| `Boot` | `bootloader.s`, `init.cc`, the handler for vector 2, composed with `TicketLock` and `PerfCounter` | composition, implements `Turns` |
| `BootProofs` | | proofs: turns, stacks, mappings; interrupts, counters, lock and UART |
| `Serial` | `serial.cc` and 16550 UARTs | component |
| `SerialProofs` | | proofs |
| `Paging`, `MCPaging` | `early_page`, `map_addr`, the MMU's walk | component, values for TLC |
| `E820` | `get_physical` and the loop of `init.cc:36` | component |
| `FirstStageProofs` | | proofs about `Paging` and `E820` |
| `Printf`, `MCPrintf` | `printf.cc`: `_vsnprintf` and its entry points | component, values for TLC |
| `PrintfProofs` | | proofs |
| `Interrupt` | `load_idt`, stubs, `entry_vector`, the handler's call and return | component |
| `InterruptProofs` | | proofs |
| `Acpi`, `MCAcpi` | `Apic::init`: RSDP, RSDT, MADT | component, values for TLC |
| `AcpiProofs` | | proofs |
| `ElfParse`, `MCElfParse` | `main` of the flattener and `File` | component, values for TLC |
| `ElfParseProofs` | | proofs |

### TicketLock

State: `acquire` and `release`, modulo `Modulus` (2^32 in the build); per actor the local
variable `ticket` and a place, `idle`, `spin` (in the loop) or `held` (has a Guard).
`TakeTicket` is the `fetch_add` of `lock()`, `Enter` the iteration of the loop that finds
the ticket served, `Release` the destructor. `Construct` is the constructor; it is no
step of the lock's users, but `Boot` takes it. An actor is a flow of control that may
call `printf`: a core, or an interrupt handler on it.

### Boot

A core goes through the labels of `at[c]`; a step between two labels is a stretch of
code that touches one shared thing. The table of actions in the module follows the source
from top to bottom. Memory (`mem`), registers (`regs`), startup IPIs under way (`sipi`),
the handler on each core (`nmi`) and the lock are the state. `printf_` is three steps of
`TicketLock`; the characters themselves are `Printf`'s and `Serial`'s subject. A performance
monitoring interrupt (`Pmi`) is delivered once a counter has wrapped and asked for it, before
the core goes on; other NMIs (`MaxNmi` of them) come at any time outside real mode. An NMI that
finds no gate resets the
machine (`up`); an NMI on a halted core makes it run on behind `hlt`, off the end of
`start_kernel` (`runaway`). What cpuid answers in `check_apic` is nondeterministic.

`ReadMadt`, the call of `Apic::init`, has three outcomes. It returns; or the walk over a
MADT never ends, which `Acpi` shows to be possible (`stuck`); or a table above 1 GB faults,
and `interrupt_handler` prints `Hallo` and the fault and stays in its `while(1)` (the labels
`pHallo`, `pFault`, `stuck`), with `stack_wait` taken. A startup IPI may be lost, each of
the two of `launch_ap` by itself: then the other starts the core, or none does.

Not in `Boot`: the contents of the TLB. Between `init.cc:92` and `hlt` a core runs on
entries it has cached while the next core may rebuild the tables; the labels `halt` and
`halted` therefore make no claim on the tables.

### PerfCounter

The unit of a core is a record: the LVT entry, the global control, status and select
registers, and two counters that wrap at `Wrap` (2^48). Each access of `start_kernel`
(`init.cc:59-79`) is an operator named after the method, and a step of `Boot`. `Event` is
the hardware: a counter that is enabled counts, and one that wraps sends an NMI through the
LVT entry, which masks itself. `PmuLeft` says whether the firmware may have left the
counters running; fixed counter 1 stays as it left it, since the code never writes its
control register.

The measured code is a number of events, and so is `interrupt_handler` when it runs on top
of it: the event is selected for user and system code and nothing freezes the counter, so
the counter does not tell them apart. The model does (`Place`): `events` counts those of the
measured code, `handler` those of handlers in between, and `Measured` says that the printed
count is their sum, modulo `Wrap`, and has nothing else in it; without an NMI in the window
it is the measured code's alone. `sentBy` and `sentAt` record which counter's wrap sent the
NMI and where the event came from. The LVT entry masks itself when it has sent one: if a
counter of the firmware wraps between `init.cc:59` and `61`, or the fixed one later, a wrap
of the measured counter sends none. `PmiIsOverflow` says that this is the only exception.

### Printf

`_vsnprintf` reads one field of a directive per step: flags, width, precision, length,
specifier. A conversion is an operator that returns the text, with the buffer that the code
fills backwards and its limits; the text then goes to the entry point's output function.
The sizes of the buffers and of the integer types are constants, so that 7 and 10 places
stand for 32 and an `int` has 64 values: the cases in which something does not fit come up
with small numbers. Numbers with a fraction are exact rationals. That leaves out the
rounding of `double` arithmetic but for one effect that shows, the exponent that `_etoa`
estimates for a power of ten, which is a choice. A call carries the pieces its format was
made of, so that the properties can compare what was parsed with what was written: for each
directive the position of its `%`, the number of its first argument, and the flags, width,
precision, length and specifier that stand there. `WellFormed` ties the pieces to the
characters by the grammar of directives; it is the assumption `CallsAssumption` on the
calls, which TLC evaluates for those of the run. A format may end inside a directive.

The properties name what the code does not do as one would expect:

* the prefix of `#` takes the place of digits when the number fills its field exactly
  (`PrefixEats`, in `ReadsBack`);
* with a buffer full of zeros there is no place for the sign (`ReadsBack`, `FillsField`);
* a half-way case is rounded up without the carry into the whole part, also that of the
  mantissa of `%e`, and zeros fill the buffer: .95 with one decimal is printed as `0...010`
  (`TieAtNines`, in `Rounded`);
* a precision beyond the buffer indexes `pow10` behind its end, though the text does not
  depend on it (`PowerInTable`);
* a format that ends inside a directive is read on behind its NUL (`behind`, in `Returns`).

None of the kernel's own formats meets one of them. They do meet another effect
of the length flags: the 64-bit length of an e820 region is printed with `%x` (`init.cc:39`)
and the 64-bit count with `%d` (`init.cc:81`), and `ReadsBack` says what is shown, the
argument as an `int` or an `unsigned int`.

### Serial

One port access per step. A UART is a record of registers and a FIFO that it empties at
its own pace (`Transmit`). DLAB, and with it the double meaning of registers 0 and 1, and
the FIFO reset by FCR are modelled; the loop on LSR is the guard of `WriteByte`. A byte is
`x`, `LF` or `CR`. The CR of a line feed is written before the port is tested, to port 0 for
each absent one; `Broadcast` counts these writes. The calls do not overlap, which is what `Boot` shows
(`NoByteIntoDivisor`, `PrintfLockSound`).

### Paging

Addresses are numbers of 2 MB pages, an entry is a record of the bits the code sets. The
initial content of memory is any entry of `Garbage`. Another core builds the tables again
after the first (`NextCore`). `Walk` is the MMU.

### E820

The firmware reports `regions` regions, perhaps none, and ends in one of the two ways the interface
allows: `ebx = 0` with the last region, or a failing call after it. The count is stored
in the buffer, over whatever field lies at 0x200 (`Overlaid`), which is the length of entry
21, and read as a byte. From 22 printed lines on, line 22 therefore shows the number of
calls for a length: `PrintsReported` names this field and no other.

### Interrupt

`load_idt` comes first, one gate per step. It writes 256 gates into a table of 255: the last
one lands on what the linker put behind, `struct idt` among the possibilities, and does no
harm as long as that is filled after the gates (`EveryVectorHandled`). Vector 255 is beyond
the limit that `lidt` loads.

One instruction of the stubs and of `entry_vector` per step; `pc` is the line in
`interrupt.s`. A value is a word that says where it comes from, with a number where the code
computes with it: the arguments go from their stack slots into `edi`, `edx`, `rcx` and `rsi`
one by one (`LoadArguments`), the call pushes its return address, the handler returns the
address it was given in `rax`, and `mov rsp, rax` takes the stack from there (`ReloadRsp`).
The registers the ABI lets a function change are spoilt by then. `interrupt_handler` itself
is two states, entered (`InterruptHandler`) and returned from: its body prints and writes to
the APIC, which is in `Boot`. Exceptions interrupt code that is no handler; an NMI (vector
2) may come between any two instructions, in a stub, among the loads of the arguments,
before `mov rsp, rax` and before `iretq` too, but not inside the handler of another NMI,
which the CPU blocks until `iretq`. The stack is aligned by the CPU.

### Acpi

The scan of the EBDA and then of the BIOS area in steps of 16 bytes (`Scan`, `ScanEnd`),
the loop over the tables of the RSDT (`NextTable`, `RsdtEnd`) and the loop over the
entries of a MADT (`Walk`, `WalkEnd`). A MADT is a sequence of bytes followed by other
memory, since `madt_ptr` starts 8 bytes before the first entry and the loop compares that
address with the end: the walk looks at up to 8 bytes behind the table. If what it finds
there has a zero for a length it does not return, which `InitReturns` states as the only
exception. `Boot` takes the whole of `init` as one step, with this among its outcomes.

An entry of type 0 has two numbers of a processor, and the code reads the first: `Uid` is
the ACPI processor UID, byte 2, `ApicId` is byte 3. The values for TLC have entries in which
they are equal, in which they differ, and in which the UID of one is the APIC id of another.

### ElfParse

`File` truncates `flat.bin` when it is constructed, before the kernel's file is known to be
there or to be an ELF file; both failures are modelled. The section header table is any
sequence of sections, in any order, and a byte of the file is its offset. The section count
is taken modulo `CountValues` (256 in the code), offsets and sizes modulo `FieldValues`
(2^32). `WholeImage` is about tables a linker writes (`WellFormed`); the linker script puts
`.bss` into `.data`, so that there is no section without bytes in the file.

## Runs

| run | cfg | shows |
|---|---|---|
| `lock` | `TicketLock.cfg` | 3 actors, modulus 3. One holder; tickets out are the window from `release` to `acquire`; implements `FifoLock`; every ticket served. Modulus 3 is the tightest the assumption allows: all tickets can be out, and every third call wraps |
| `boot` | `Boot.cfg` | 3 cores, `launch_ap` on, counters of two values, so that the Bsp's wrap and send NMIs. Turn taking, disjoint stacks, standing mappings, a lock that no constructor disturbs, no printed byte in the divisor latch, no reset, every started core halts for good unless the tables keep the first one in `Apic::init`. Three cores: one inside, two that compete for its byte |
| `boot_nmi` | `BootNmi.cfg` | 2 cores, `launch_ap` on, an NMI anywhere, counters left running by the firmware or not. The printed count is that of the measured code and the handlers in it; an overflow sends its NMI unless the firmware's counters sent one; lock and UART are spoilt only by an NMI that wakes a core that is done; a started core reaches `hlt` unless an NMI finds no gate, hits a `printf` or has cost the lock its state, or `Apic::init` does not return. One NMI suffices for each of these, next to those of the counters; two cores, since one woken core and one that boots are what it takes |
| `printf_reentry` | `PrintfReentry.cfg` | **violation**: `printf` is not reentrant |
| `serial` | `Serial.cfg` | 3 slots with every combination of ports, two calls of `init`, up to 5 characters on the line between, FIFOs of depth 2. Registers as intended, no overrun, every port gets what was printed, absent ports cost one write to port 0 per line feed, a second `init` finds at most one byte to lose, calls return. Depth 2 is the least that holds a character and the CR written on top of it |
| `printf` | `Printf.cfg` | 13089 calls: every set of flags with widths and precisions below, at and above the buffer for each base; lengths with values beyond each type; `*` with negative arguments; fractions at, next to and between half-way cases; `nan` and infinities; two directives into buffers of 0 to 9 bytes. Parsing, integers, fields, rounding, the table of powers, `snprintf`'s contract, termination |
| `paging` | `Paging.cfg` | 512 entries, the real addresses, two boots, four kinds of old memory contents. Both maps as intended at every store |
| `e820` | `E820.cfg` | 0 to 25 regions (the count lies over the 22nd entry), both ways to end. Only what was reported is printed, but for the length in line 22; with at most 21 regions there is no exception; at most the last is missing |
| `e820_all` | `E820All.cfg` | **violation**: the last region is missing for one kind of firmware |
| `interrupt` | `Interrupt.cfg` | all 256 gates with either thing behind the table, then exceptions with and without error code, one that does not return, an external vector and the spurious one, an NMI on top, between any two instructions. Each vector has its handler, the handler's arguments are its own, `iretq` restores everything |
| `acpi` | `Acpi.cfg` | ranges of 2 and 3 paragraphs, an RSDP at any or none of them, up to two tables each, three MADTs with entries of 6, 8 and 10 bytes and with UIDs that are the APIC ids or others, three kinds of bytes behind. Every local APIC is recorded by its UID, the BIOS area counts only when the EBDA has no RSDP, `init` returns or stands behind the table. Two tables are enough for one MADT to follow another |
| `elf` | `ElfParse.cfg` | all tables of up to four sections, close to the header table and far from it, a count that wraps at four and fields that wrap at eight, and files that are missing or no ELF. The image is exactly the bytes from the first section to the end of the last; a failure leaves no earlier image |

Deadlock is checked for the lock. The other models stop by design: the cores halt, and
the calls of a bounded run are used up.

Fairness. A core that is not halted executes its next instruction, and so does its
interrupt handler; a startup IPI that was sent arrives or is lost, and an interrupt that a
counter has sent arrives; a UART sends what is in its FIFO. There is no fairness on other interrupts, on new calls of `lock()` or on getting `stack_wait`
ahead of another core: weak fairness of each core's own steps is enough, since every core
takes the byte once.

Every property is accompanied by a variant of one definition, next to it and marked
`Mutant`, that a plausible slip in the code would produce and under which TLC finds the
property violated.

## Findings

1. `printf.cc:27` calls its routines reentrant. `printf_` holds a ticket lock, and
   `interrupt_handler` prints: an NMI inside `printf` never returns (`printf_reentry`).
   `boot_nmi` shows what else keeps a started core from `hlt` in the model: an NMI before
   the IDT is loaded, with other cores one that wakes a halted core to print while the next
   constructs the lock, and an `Apic::init` that does not return, be it for a zero length
   behind a MADT or for tables above 1 GB. The list is complete under what `Boot` takes as
   given: the firmware's e820 map ends (`bootloader.s:64-81` has no bound of its own), the
   UART goes on sending (`serial.cc:32`), and every exception but these faults is absent.
2. `init.cc:34` subtracts 1 from the count of e820 entries, which `bootloader.s:82` stores
   for the kernel's use. That is right for a firmware that ends the map with a failing
   call and drops the last region for one that does not (`e820_all`).

Without a run of its own: `bootloader.s:146` speaks of 4 GB of paging, while one page
directory is filled. `IdentityMapped` is therefore stated, and proved, for the 1 GB that
is there. `serial.cc:25` says bytes go to available ports; the CR of a line feed also goes to
port 0 for each absent one, which `Broadcast` states. `Apic::init` reads the ACPI tables
where the firmware put them: tables above 1 GB have no translation, which is an outcome in
`Boot` and left out in `Acpi`.

`apic.cc:103` calls `lapic_id` what is the ACPI processor UID: in an entry of type 0 the
APIC id is `payload[3]`, and the code reads `payload[2]`. Where a firmware gives a processor
two different numbers, its APIC id is not in `cpu_nodes` unless it is another's UID or lies
among the bytes behind a MADT: `RecordsFirstRsdp` says what is recorded in terms of both
numbers. It has no effect today, since nothing that is called reads `cpu_nodes`; the lookup
in `launch_ap` that is commented out (`apic.cc:176-177`) takes what it finds there for an APIC
id.

The spurious vector 0xff (`apic.cc:149`) is beyond the limit of the table: a spurious
interrupt would raise a general protection fault, which `interrupt_handler` does not return
from. `EveryVectorHandled` is about the 255 vectors of the table; no maskable source is left
that could have one withdrawn.

## Proofs

`TicketLockProofs`, for any finite set of actors no larger than the modulus. `TicketWindow`
with types is inductive: the outstanding tickets are distinct, lie within
`Cardinality(Outstanding)` of `release`, and `acquire` is that far ahead. It is needed
because mutual exclusion alone does not say why no second actor's ticket can equal
`release` after a wrap. The refinement maps an actor's predecessors to the actors whose
ticket is nearer to `release`; each step of the counters is shown to be the step of
`FifoLock`. What the proof needs about modular arithmetic and cardinality is in lemmas of
its own.

`BootProofs`, for any set of cores and APIC ids. The invariant says: at most one core is
between taking and releasing `stack_wait`, and the byte is 0 while one is (`Exclusive`,
`ByteFree`), and the tables are complete to the degree its label says (`Tables`). Steps
are grouped: inside the turn, which leave the byte alone and may touch the tables; taking
and releasing it; and the rest, which touch neither. From it follow the mappings, the
disjointness of the stacks (the low stack is used inside the turn only, the others are
16 KB apart by APIC id), and the refinement of `Turns`, in which all steps inside a turn
stutter.

Its second half is about interrupts, for any number of cores and NMIs and any width of the
counters, with the invariant strengthened in three ways, each of which TLC's
counterexamples to induction ask for:

* `Registers`: which interrupt table a core has at which label, that only the Bsp is in its
  branch of `start_kernel`, and that DLAB is set by a core that is inside `serial.init()`;
* `PmuStands`: the state of the performance monitoring unit along that branch. A counter of
  the firmware may count, wrap and interrupt between any two of the accesses of
  `init.cc:59-79`, so that `Measured`, a statement about the last label, needs what each
  access has established and what `Event` cannot undo. For `PmiIsOverflow` it has that the
  LVT entry is masked exactly when a wrap has sent the NMI, and `SentOK`, which ties the
  sender to the status register while the counter is on;
* `Tickets`: a context has a ticket exactly while it is at the labels of a call of `printf`.
  With `stack_wait` this says that at most two contexts per core ever want the lock, hence
  the assumption that the modulus is at least twice the number of cores (2^32 in the build).
  The steps of `printf` are those of `TicketLock`, and its theorems are used through
  `INSTANCE`; only the constructor in `static_init` has to be looked at here.

`Measured`, `PmiIsOverflow`, `DivisorByWakeOnly` and `SpoiltByWakeOnly` follow whatever NMIs
come. `NoReset`, `NoByteIntoDivisor`, `PrintfLockSound` and `HaltedForGood` are false when
NMIs come from outside, which is what the run `boot_nmi` is about, and are proved under
`MaxNmi = 0`, the hypothesis under which `boot` checks them: then the counters are the only
source, and `Quiet` says where their NMIs find the Bsp.

`FirstStageProofs` is about two specifications over variables of their own, `Spec` of
`Paging` and `MapSpec` of `E820`. The page tables, for tables of any size, any APIC address outside the first PML4 entry,
any number of boots and any previous content of memory. The invariant records which
entries are in place at which step; a lemma on the MMU's walk turns that into
translations. The memory map, for any number of regions: continuation value and count of
calls are equal until the map ends; after it the count is that of the regions, or one more.
The subtraction of `init.cc:34` is then at most one off. The store of the count turns every
entry into the line that shows it (`Line`), which changes one field of entry 21.

`SerialProofs`, for any number of slots, calls and characters and any FIFO that holds two.
`Settings` follows the seven accesses of `init`; `Room` says that only the port that has
just got a CR may have two bytes; `Prefixes` counts for each port what it is still missing
of the call under way, which is what makes "in order" inductive; `Strays` counts the writes
to port 0 against the absent slots the loop has passed.

`InterruptProofs`, for any vectors and any nesting. For each instruction of a stub and of
`entry_vector`, and at the entry of `interrupt_handler`, the invariant gives what lies on
the stack above the frame (`Lying`, with `Depth` words of `Laid`), which registers have the
value of the interrupted code (`Kept`) and what the argument registers and `rax` hold
(`Passed`). `Inside` is the three together, and `Proper` admits the loops that do not end.
`Nested` says this of every interrupt in progress, with the state in which it was interrupted
itself in place of the current one: a return into the middle of this code needs it of the
interrupt below. That the stack is that of the interrupt after `mov rsp, rax` follows from
`Passed`, since `rax` is the address `rcx` had. `HandlerArguments` is `Passed` at the entry
of the handler, `Transparent` is `Lying` and `Kept` at `iretq`.

`ElfParseProofs`, for every table and every width of count and fields. `Copied`: what was
written is the run of bytes from `image_base` to `ii`. `Gathered`: the collected headers are
the sections that count among the first `ii`. The minimum and the maximum of the offsets
exist because naturals are well founded; that the section that starts last also ends last
is what `WellFormed` is needed for.

`AcpiProofs`, for MADTs with any entries whose length byte is right, any bytes behind them,
any number of tables and ranges of any size. The walk of `iterate_check` adds a byte to an
address and knows nothing of entries, so the invariant has to say that it is at the start
of one and has recorded those before (`Walking`), or is behind the table; `Passed` says the
same of the tables before, `Searching` that no RSDP was passed over. Where an entry starts
follows from what `FlattenSeq` returns, a recursive function. That the equation of the
definition has a solution, and what its values are, is proved by induction: a set of
naturals that has 0 and with every number the next one has them all (`NatSet`), since
otherwise a least number would be missing. The set is a parameter where the library's
theorem has an operator, which is what the provers can deal with.

`PrintfProofs`, for every call with a format that its pieces describe (`CallsAssumption`,
which TLC evaluates for the calls of the run), buffers of any size from five places on and
any even number of values of the types. The invariant (`FInv`) has the types, where the
parser is inside a directive and what it has read so far (`Inside`), that between two pieces
characters and arguments are used up (`Outside`), what has been sent and what of it is in
memory (`Sent`, `Stored`).

* `ParsesBack`: `atoi` wraps at each digit and the definition once at the end; that both are
  the same number modulo `IntValues` is an induction over the digits, again with `NatSet`.
* `Contract`: `Stored` says of every place of the caller's memory what it holds after any
  part of the text, from which the terminating NUL makes the contract.
* `FillsField` and `PowerInTable`: the lengths of every text, with what a full buffer leaves
  out. A power behind the table is only taken when the buffer is full of zeros.
* `ReadsBack`: the digits that the division loop writes are read back as the number
  (`Says`), zeros behind them do not change it (`Trailed`), neither does what precedes and
  follows on the line (`Framed`). It needs of the state only `FInv`.
* `RoundIsNearest`: `round` is within half a unit of the number, with any power of ten, but
  in the half-way case that `Rounded` excepts.
* `Rounded`: the number that `round` makes, in units of its last decimal (`UnitsTo`), is
  within half a unit of the argument. `_ftoa` puts out this number: the buffer holds the
  decimals between zeros, the point, the whole part, zeros and the sign (`Fraction`,
  `Placed`, `Framed`), and read again in two parts, split at the only point, they are the
  number (`FtoaSays`). With an exponent, the first `e` or `E` is the mark since `_ftoa`
  writes neither (`MarkSplits`), what follows is read as the exponent (`ExponentReads`), and
  half a unit of the mantissa is half a unit of the argument for either sign of the exponent
  and of the shift to the last decimal (`MantissaNearest`). The powers of ten are a recursive
  function, whose laws are again inductions with `NatSet`. Needed of the state is `FInv`: the
  argument at the specifier is the one that the directive asks for.

Type correctness of `TicketLock` and `Paging` is proved (`TypeCorrect`,
`PagingTypeCorrect`) and not repeated as an invariant of their runs; the other proof modules
have the types as a part of their invariants.

Only model-checked:

* all liveness (`EveryTicketServed`, `EveryCoreHalts`, `OnlyNestingHangs`, `CallsReturn`,
  `Returns`, `InitReturns`), which with fairness and ENABLED is outside what the prover
  handles.

## Not modelled

* `memlib`: no build file compiles it and nothing calls it.
* What lies behind `cpu_nodes`: it has 18 elements and is indexed by a byte of the MADT. `Acpi`
  keeps the set of the indices.
* The rounding of `double` arithmetic in `_ftoa` and `_etoa`, but for the effect named above.
* `vprintf_` and `fctprintf` print without the lock that `printf_` takes. Nobody calls them;
  `Printf` has their formatting, `Boot` only `printf_`.
* Write errors of `flat.bin`, which the flattener does not look at.
* `get_perf`, which prints what cpuid answers.
* Dead code in this version: `check_apic(core_id)` (it would not return), `lapic_init`,
  `cpu::recursion`, `clear_screen`, `set_event_counts`, `set_fixed_ctrl`,
  `freeze_on_overflow`, `disable_noclear`, `search`, `binarySearch`,
  `unoptimized_function`, `get_current_ip`.
* TLB contents, cache types beyond the PCD bit, and the BIOS's own handlers.
* VMX, network, file system and scheduler, which the repository announces and does not
  contain.

## Plan

In the order of what matters most; the first eleven are done.

1. Lock with its abstract specification and proofs.
2. Boot as the composition of first stage, kernel entry and lock, with proofs.
3. Serial console, page tables (with proofs), memory map.
4. Interrupt entry and exit, and `load_idt`.
5. ACPI tables and the ELF flattener with its files.
6. `PerfCounter`: the MSRs in order, overflow between them, `read`.
7. NMIs together with application cores in one run of `Boot`.
8. `Printf`.
9. Proofs for `Boot` with its interrupts, `Serial`, `E820`, `Interrupt` and `ElfParse`.
10. Proofs for `Acpi`, with an induction over the entries of a MADT.
11. Proofs for `Printf`: parsing, integers, fields, the contract of `snprintf`, rounding,
    numbers with a fraction as they are read back.
12. `Layout`: the fixed addresses of image, tables, stacks and buffers.
