------------------------------- MODULE MCAcpi -------------------------------
(***************************************************************************)
(* Values for the constants of Acpi.                                       *)
(***************************************************************************)
EXTENDS Acpi

MCParagraphs == <<2, 3>>

\* Type, length, ACPI processor UID, APIC id, flags.
Lapic(uid, id) == <<0, 8, uid, id, 1, 0, 0, 0>>
Override == <<2, 10, 0, 0, 2, 0, 0, 0, 0, 0>>
Nmi == <<4, 6, 255, 5, 0, 1>>

\* Local APICs before, between and behind entries of other types, and a table
\* whose last entry is shorter than 8 bytes; UIDs that are the APIC ids, that are
\* others, and one that is the APIC id of another local APIC.
MCMadts == { <<Lapic(3, 3), Lapic(5, 6)>>, <<Lapic(4, 32), Override, Lapic(17, 17)>>,
             <<Override, Lapic(6, 5), Nmi>> }

\* Zeroes, the signature of the next table, and an entry shorter than 8 bytes
\* that looks like a local APIC, with another of them behind it.
MCBehind == { <<0, 0, 0, 0, 0, 0, 0, 0, 0, 0>>,
              <<72, 80, 69, 84, 56, 0, 0, 0, 1, 3>>,
              <<0, 4, 99, 9, 0, 6, 77, 1, 1, 1>> }
=============================================================================
