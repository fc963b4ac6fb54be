-------------------------------- MODULE Acpi --------------------------------
(***************************************************************************)
(* Apic::init of delice_pxe/src/apic.cc: the search for the RSDP in the    *)
(* EBDA and then in the BIOS area, the walk over the tables of its RSDT,   *)
(* and the walk over the entries of every MADT, which records the local    *)
(* APICs in cpu_nodes.  An entry of type 0 has two numbers of a processor, *)
(* its ACPI processor UID and its APIC id; the code reads the first.       *)
(*                                                                         *)
(* A MADT is the bytes from its first entry on.  The walk looks at memory  *)
(* behind it, too: its bound is the address of the entry less 8.           *)
(***************************************************************************)
EXTENDS Integers, Sequences, SequencesExt

CONSTANTS Paragraphs,  \* 16-byte steps of the two ranges, <<64, 8192>>
          Madts,       \* MADTs there may be: sequences of entries, of bytes each
          Behind,      \* bytes that may follow a MADT, at least 10
          MaxTables    \* bound: tables of an RSDT

Byte == 0 .. 255

ASSUME AcpiAssumption ==
  /\ Paragraphs \in (Nat \ {0}) \X (Nat \ {0}) /\ MaxTables \in Nat
  /\ \A m \in Madts : /\ m \in Seq(Seq(Byte))
                      /\ \A i \in DOMAIN m : Len(m[i]) >= 3 /\ m[i][2] = Len(m[i])
                      /\ \A i \in DOMAIN m : m[i][1] = 0 => Len(m[i]) >= 4
  /\ \A b \in Behind : b \in Seq(Byte) /\ Len(b) >= 10

VARIABLES place,   \* place[r]: the step of range r at which an RSDP is, -1: none
          rsdt,    \* rsdt[r]: the tables its RSDT lists; <<>> is not a MADT
          behind,  \* what follows a MADT in memory
          pc,      \* "scan", "rsdt", "walk" or "done"
          range,   \* I of iterate_check, from 1
          para,    \* ii of check_rsdt, in paragraphs
          table,   \* ii of iterate_check, from 1
          pos,     \* (uint8_t*)madt_ptr->payload, from the first entry on
          nodes    \* the elements of cpu_nodes that were written

vars == <<place, rsdt, behind, pc, range, para, table, pos, nodes>>
firmware == <<place, rsdt, behind>>

\* The bytes of a MADT, and of the memory that holds it.
Bytes(m) == FlattenSeq(m)
Memory == Bytes(rsdt[range][table]) \o behind
Size == Len(Bytes(rsdt[range][table]))

Init == /\ place \in (-1 .. Paragraphs[1] - 1) \X (-1 .. Paragraphs[2] - 1)
        /\ rsdt \in {t \in [1 .. 2 -> BoundedSeq(Madts \cup {<<>>}, MaxTables)] :
                       \A r \in 1 .. 2 : place[r] = -1 => t[r] = <<>>}
        /\ behind \in Behind
        /\ pc = "scan" /\ range = 1 /\ para = 0 /\ table = 1 /\ pos = 0
        /\ nodes = {}

\* check_rsdt: memcmp at the next paragraph.
Scan == /\ pc = "scan" /\ para < Paragraphs[range]
        /\ IF place[range] = para THEN pc' = "rsdt" /\ UNCHANGED para
                                  ELSE para' = para + 1 /\ UNCHANGED pc
        /\ UNCHANGED <<firmware, range, table, pos, nodes>>

\* std::nullopt: iterate_check<1>, behind it nothing.
ScanEnd == /\ pc = "scan" /\ para = Paragraphs[range]
           /\ IF range = 1 THEN range' = 2 /\ para' = 0 /\ UNCHANGED pc
                           ELSE pc' = "done" /\ UNCHANGED <<range, para>>
           /\ UNCHANGED <<firmware, table, pos, nodes>>

\* A table of the RSDT: the signature "APIC" or another.
NextTable == /\ pc = "rsdt" /\ table <= Len(rsdt[range])
             /\ IF rsdt[range][table] = <<>>
                THEN table' = table + 1 /\ UNCHANGED <<pc, pos>>
                ELSE pc' = "walk" /\ pos' = 0 /\ UNCHANGED table
             /\ UNCHANGED <<firmware, range, para, nodes>>

\* Mutant: the other range is searched as well.
RsdtEndOn == /\ pc = "rsdt" /\ table > Len(rsdt[range])
             /\ pc' = (IF range = 1 THEN "scan" ELSE "done")
             /\ range' = 2 /\ para' = 0 /\ table' = 1
             /\ UNCHANGED <<firmware, pos, nodes>>

\* return true
RsdtEnd == /\ pc = "rsdt" /\ table > Len(rsdt[range])
           /\ pc' = "done"
           /\ UNCHANGED <<firmware, range, para, table, pos, nodes>>

\* Mutant: madt_ptr is advanced in the MADT_LAPIC case only.
WalkStays == /\ pc = "walk" /\ pos < Size + 8
             /\ IF Memory[pos + 1] = 0
                THEN nodes' = nodes \cup {Memory[pos + 3]} /\ pos' = pos + Memory[pos + 2]
                ELSE UNCHANGED <<nodes, pos>>
             /\ UNCHANGED <<firmware, pc, range, para, table>>

\* Type, length and, for MADT_LAPIC, the byte payload[2], lapic_id in the code, which
\* is the index as well.
Walk == /\ pc = "walk" /\ pos < Size + 8
        /\ nodes' = IF Memory[pos + 1] = 0 THEN nodes \cup {Memory[pos + 3]} ELSE nodes
        /\ pos' = pos + Memory[pos + 2]
        /\ UNCHANGED <<firmware, pc, range, para, table>>

\* madt_ptr, 8 bytes before the entry, has reached end_apic.
WalkEnd == /\ pc = "walk" /\ pos >= Size + 8
           /\ pc' = "rsdt" /\ table' = table + 1
           /\ UNCHANGED <<firmware, range, para, pos, nodes>>

Next == Scan \/ ScanEnd \/ NextTable \/ RsdtEnd \/ Walk \/ WalkEnd

Spec == Init /\ [][Next]_vars

\* The core executes.
FairSpec == Spec /\ WF_vars(Next)

-----------------------------------------------------------------------------
\* The range whose RSDP counts: the EBDA's if there is one.
Used == IF place[1] # -1 THEN 1 ELSE 2

\* The local APICs that the MADTs of a range list, and the two numbers of each (ACPI).
LocalApics(r) == {e \in UNION {Range(m) : m \in Range(rsdt[r])} : e[1] = 0}
Uid(e) == e[3]
ApicId(e) == e[4]

\* When init returns, every local APIC of every MADT of the first RSDP is recorded,
\* whatever entries of other types lie between: by its processor UID, which apic.cc:103
\* reads and calls lapic_id, so that an APIC id may be missing where the two differ.
\* Nothing is recorded from the RSDP of the BIOS area when the EBDA has one; what is no
\* UID, an APIC id for instance, can only come from the 10 bytes behind a MADT: apic.cc:98
\* lets the walk look at entries that start less than 8 bytes behind the end.
RecordsFirstRsdp ==
  /\ pc = "done" => \A e \in LocalApics(Used) :
                      Uid(e) \in nodes /\ (ApicId(e) \in nodes \/ ApicId(e) # Uid(e))
  /\ \A n \in nodes :
       (\E e \in LocalApics(Used) : n = Uid(e)) \/ (\E i \in 3 .. 10 : n = behind[i])

\* An entry of length 0: the walk stays where it is.
AtZeroLength == pc = "walk" /\ pos < Size + 8 /\ Memory[pos + 2] = 0

\* init returns, unless the bytes behind a MADT look like an entry of length 0.
InitReturns == <>(pc = "done" \/ (AtZeroLength /\ pos >= Size))
=============================================================================
