---------------------------- MODULE PerfCounter -----------------------------
(***************************************************************************)
(* The performance monitoring unit of a core and what perfctr.h does to    *)
(* it.  A unit is a record of                                              *)
(*   lvt      the LVT entry of the local APIC, "masked" or "nmi"           *)
(*   global   IA32_PERF_GLOBAL_CTRL: the counters that may count           *)
(*   select   IA32_PERFEVTSEL0                                             *)
(*   fixed    whether IA32_FIXED_CTR_CTRL lets fixed counter 1 count and   *)
(*            interrupt; the code leaves it as the firmware set it         *)
(*   count    the counters, which wrap                                     *)
(*   status   IA32_PERF_GLOBAL_STATUS: the counters that have wrapped      *)
(*   pending  an NMI is on its way to the core                             *)
(*   left     whether the firmware left the counters running               *)
(* and, kept for the properties only,                                      *)
(*   events   the events of counter 0 that the measured code caused        *)
(*   handler  those that interrupt_handler caused while the counter ran    *)
(*   sentBy   the counter whose wrap sent the NMI, or "nobody"             *)
(*   sentAt   where that event came from, see Places                       *)
(***************************************************************************)
EXTENDS Integers

CONSTANT Wrap   \* values of a counter, 2^48

ASSUME PerfAssumption == Wrap \in Nat \ {0}

Counters == {"pmc0", "fixed1"}

\* Where an event comes from while counter 0 is on, and when it is not.
Places == {"measured", "handler", "outside"}

Bit(n, i) == (n \div 2 ^ i) % 2 = 1

\* Mutant: the interrupt bit is missing.
generate_perf_quiet == 121 + 8 * 2 ^ 8 + 2 ^ 16 + 2 ^ 17 + 2 ^ 22 + 2 ^ 24

\* Event 0x79, umask 8; usr, os, interrupt and enable set; counter mask 1.
generate_perf == 121 + 8 * 2 ^ 8 + 2 ^ 16 + 2 ^ 17 + 2 ^ 20 + 2 ^ 22 + 2 ^ 24

\* As the firmware leaves it: idle, or with counters that run.
Left(running) == [lvt |-> "masked", global |-> IF running THEN Counters ELSE {},
                  select |-> IF running THEN generate_perf ELSE 0, fixed |-> running,
                  count |-> [k \in Counters |-> 0], status |-> {}, pending |-> FALSE,
                  left |-> running, events |-> 0, handler |-> 0,
                  sentBy |-> "nobody", sentAt |-> "outside"]

enable_pmi_nmi(p) == [p EXCEPT !.lvt = "nmi"]

disable_perf_globalctrl(p) == [p EXCEPT !.global = {}]

\* IA32_PERF_GLOBAL_OVF_CTRL = IA32_PERF_GLOBAL_STATUS
reset(p) == [p EXCEPT !.status = @ \ p.status]

\* Mutant: the counter keeps its value.
clear_select(p) == [p EXCEPT !.select = 0, !.count["fixed1"] = 0]

clear(p) == [p EXCEPT !.select = 0, !.count["pmc0"] = 0, !.count["fixed1"] = 0]

set_perfselect(p, val) == [p EXCEPT !.select = val]

set_perf_globalctrl(p) == [p EXCEPT !.global = Counters]

read(p) == p.count["pmc0"]

-----------------------------------------------------------------------------
(* Hardware.                                                               *)

Counts(p, k) == /\ k \in p.global
                /\ IF k = "pmc0" THEN Bit(p.select, 22) ELSE p.fixed

Interrupts(p, k) == IF k = "pmc0" THEN Bit(p.select, 20) ELSE p.fixed

\* An event that counter k counts, caused at place.  A counter that wraps sends an
\* interrupt if it and the LVT entry say so, and the entry masks itself.
Event(p, k, place) ==
  LET wraps == Counts(p, k) /\ p.count[k] = Wrap - 1
      pmi == wraps /\ Interrupts(p, k) /\ p.lvt = "nmi"
      Tally(n, here) == IF k = "pmc0" /\ place = here THEN (n + 1) % Wrap ELSE n
  IN  [p EXCEPT !.count[k] = IF Counts(p, k) THEN (@ + 1) % Wrap ELSE @,
                !.status = IF wraps THEN @ \cup {k} ELSE @,
                !.lvt = IF pmi THEN "masked" ELSE @,
                !.pending = @ \/ pmi,
                !.events = Tally(@, "measured"),
                !.handler = Tally(@, "handler"),
                !.sentBy = IF pmi THEN k ELSE @,
                !.sentAt = IF pmi THEN place ELSE @]
=============================================================================
