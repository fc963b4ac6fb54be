------------------------------- MODULE Paging -------------------------------
(***************************************************************************)
(* The page tables: early_page of firststage/bootloader.s builds the       *)
(* identity map of 2 MB pages, map_addr of delice_pxe/src/paging.cc adds   *)
(* the page of the local APIC through two tables of its own.  Every core   *)
(* that boots does both again on the same memory.                          *)
(*                                                                         *)
(* A virtual or physical address is the number of its 2 MB page.  A table  *)
(* is named after the constant that is its address.                        *)
(***************************************************************************)
EXTENDS Integers

CONSTANTS N,        \* entries of a table, 512
          VApic,    \* the page of 0x13370000000, the vaddr of init.cc:26
          PApic,    \* the page of 0xfee00000, its phys
          Garbage,  \* entries that memory may hold where nobody wrote
          MaxBoots  \* bound: cores that boot

VARIABLES table,    \* table[t][i]: entry i of table t
          step,     \* where the booting core is
          count,    \* entries fill_pd has written (512 - ecx)
          boots     \* cores that have finished

vars == <<table, step, count, boots>>

Index == 0 .. N - 1

\* (vaddr >> 39) & 0x1ff, (vaddr >> 30) & 0x1ff and (vaddr >> 21) & 0x1ff.
Indices(v) == <<(v \div (N * N)) % N, (v \div N) % N, v % N>>

\* Early are the tables that bootloader.s zeroes in one go; nobody zeroes Late.
Early == {"PML4", "PDPT", "PD"}
Late == {"APIC_PDPTE", "APIC_PDE"}

\* An entry leads to a table, or to a page if it is huge.
Entry == [present : BOOLEAN, huge : BOOLEAN, uc : BOOLEAN, next : Early \cup Late,
          page : Nat]

\* map_addr replaces the whole PML4 entry: it must not be that of the identity map.
ASSUME PagingAssumption ==
  /\ N \in Nat \ {0} /\ MaxBoots \in Nat
  /\ Indices(VApic) \in (Index \ {0}) \X Index \X Index
  /\ PApic \in Nat /\ Garbage \subseteq Entry

Link(t) == [present |-> TRUE, huge |-> FALSE, uc |-> FALSE, next |-> t, page |-> 0]
Huge(p, u) == [present |-> TRUE, huge |-> TRUE, uc |-> u, next |-> "PML4", page |-> p]
Empty == [present |-> FALSE, huge |-> FALSE, uc |-> FALSE, next |-> "PML4", page |-> 0]

\* What the MMU (external) makes of three indices: the page and whether it is
\* uncached, or a fault.
Fault == [page |-> -1, uc |-> FALSE]
Walk(i) == LET e4 == table["PML4"][i[1]]
               e3 == table[e4.next][i[2]]
               e2 == table[e3.next][i[3]]
           IN  IF ~e4.present THEN Fault
               ELSE IF ~e3.present \/ e3.huge THEN Fault
               ELSE IF ~e2.present \/ ~e2.huge THEN Fault
               ELSE [page |-> e2.page, uc |-> e2.uc]

Init == /\ \E g \in Garbage : table = [t \in Early \cup Late |-> [i \in Index |-> g]]
        /\ step = "clear"
        /\ count = 0
        /\ boots = 0

\* do_memset_zero over 4096 dwords from FIRST_PML4_BASE on.
Clear == /\ step = "clear"
         /\ table' = [t \in DOMAIN table |->
                        IF t \in Early THEN [i \in Index |-> Empty] ELSE table[t]]
         /\ step' = "top"
         /\ UNCHANGED <<count, boots>>

\* The first entries of PML4 and PDPT.
LinkTables == /\ step = "top"
              /\ table' = [table EXCEPT !["PML4"][0] = Link("PDPT"),
                                        !["PDPT"][0] = Link("PD")]
              /\ step' = "fill"
              /\ count' = 0
              /\ UNCHANGED boots

\* Mutant: the loop ends one entry early.
FillPdShort == /\ step = "fill"
               /\ table' = [table EXCEPT !["PD"][count] = Huge(count, FALSE)]
               /\ count' = count + 1
               /\ step' = IF count' >= N - 1 THEN "map4" ELSE "fill"
               /\ UNCHANGED boots

\* One turn of fill_pd: the next 2 MB, then loop.
FillPd == /\ step = "fill"
          /\ table' = [table EXCEPT !["PD"][count] = Huge(count, FALSE)]
          /\ count' = count + 1
          /\ step' = IF count' = N THEN "map4" ELSE "fill"
          /\ UNCHANGED boots

\* map_addr replaces one entry at each level, from the top.
MapPml4 == /\ step = "map4"
           /\ table' = [table EXCEPT !["PML4"][Indices(VApic)[1]] =
                                       Link("APIC_PDPTE")]
           /\ step' = "map3"
           /\ UNCHANGED <<count, boots>>

\* Mutant: the entry of the middle level keeps what memory held.
MapPdpteNot == step = "map3" /\ step' = "map2" /\ UNCHANGED <<table, count, boots>>

MapPdpte == /\ step = "map3"
            /\ table' = [table EXCEPT !["APIC_PDPTE"][Indices(VApic)[2]] =
                                        Link("APIC_PDE")]
            /\ step' = "map2"
            /\ UNCHANGED <<count, boots>>

MapPde == /\ step = "map2"
          /\ table' = [table EXCEPT !["APIC_PDE"][Indices(VApic)[3]] =
                                      Huge(PApic, TRUE)]
          /\ step' = "done"
          /\ UNCHANGED <<count, boots>>

\* The next core starts over, on the tables as they are.
NextCore == /\ step = "done"
            /\ boots < MaxBoots
            /\ boots' = boots + 1
            /\ step' = "clear"
            /\ UNCHANGED <<table, count>>

Next == Clear \/ LinkTables \/ FillPd \/ MapPml4 \/ MapPdpte \/ MapPde \/ NextCore

Spec == Init /\ [][Next]_vars

-----------------------------------------------------------------------------
(* Properties.                                                             *)

\* Tables lead to tables or pages, and the loop of fill_pd stays inside PD.
TypeOK == /\ table \in [Early \cup Late -> [Index -> Entry]]
          /\ step \in {"clear", "top", "fill", "map4", "map3", "map2", "done"}
          /\ count \in 0 .. N
          /\ boots \in 0 .. MaxBoots

\* The core runs with paging on from the end of early_page on.
PagingOn == step \in {"map4", "map3", "map2", "done"}

\* The pages the page directory covers are mapped to themselves, cached, when
\* paging is enabled, and no store of map_addr takes one away.
IdentityMapped == PagingOn =>
  \A i \in Index : Walk(<<0, 0, i>>) = [page |-> i, uc |-> FALSE]

\* After map_addr the APIC is where cpu::apic_read looks for it, uncached,
\* whatever the two tables nobody zeroes held before.
ApicMapped == step = "done" => Walk(Indices(VApic)) = [page |-> PApic, uc |-> TRUE]
=============================================================================
