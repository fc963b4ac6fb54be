-------------------------- MODULE FirstStageProofs --------------------------
(***************************************************************************)
(* What firststage/bootloader.s leaves to the kernel: page tables and a    *)
(* map of the memory.                                                      *)
(*                                                                         *)
(* The page tables translate as intended for tables of any size, any APIC  *)
(* address outside the first PML4 entry, any number of cores that build    *)
(* them again, and whatever memory held before.  The invariant says which  *)
(* entries are in place at which step.                                     *)
(*                                                                         *)
(* For every number of regions and both ways in which a firmware ends its  *)
(* map, the kernel prints the map as it was reported, in order, up to its  *)
(* last region at most and but for the length that the count lies over.    *)
(* That the subtraction of init.cc:34 prints nothing that was not written  *)
(* rests on how many calls there were, one per region or one more, and     *)
(* that on continuation value and count of calls being equal until the     *)
(* map ends: the invariant relates them before and after.                  *)
(***************************************************************************)
EXTENDS Paging, E820, TLAPS

-----------------------------------------------------------------------------
(* The page tables.                                                        *)

Tbl == Early \cup Late

I1 == Indices(VApic)[1]
I2 == Indices(VApic)[2]
I3 == Indices(VApic)[3]

\* A page of the identity map, and the page of the APIC.
Cached(p) == Huge(p, FALSE)
Uncached == Huge(PApic, TRUE)

Linked == step \notin {"clear", "top"} => /\ table["PML4"][0] = Link("PDPT")
                                          /\ table["PDPT"][0] = Link("PD")

Filled == /\ step = "fill" => /\ count < N
                              /\ \A i \in Index : i < count => table["PD"][i] = Cached(i)
          /\ PagingOn => \A i \in Index : table["PD"][i] = Cached(i)

ApicLinked ==
  /\ step \in {"map3", "map2", "done"} => table["PML4"][I1] = Link("APIC_PDPTE")
  /\ step \in {"map2", "done"} => table["APIC_PDPTE"][I2] = Link("APIC_PDE")
  /\ step = "done" => table["APIC_PDE"][I3] = Uncached

PInv == TypeOK /\ Linked /\ Filled /\ ApicLinked

-----------------------------------------------------------------------------
\* The APIC's indices are indices, the first one not that of the identity map.
LEMMA ApicIndices == I1 \in Index /\ I1 # 0 /\ I2 \in Index /\ I3 \in Index
  BY PagingAssumption DEF I1, I2, I3

\* What the code writes is an entry.
LEMMA Entries ==
  /\ Empty \in Entry
  /\ \A t \in Tbl : Link(t) \in Entry
  /\ \A p \in Nat : Cached(p) \in Entry
  /\ Uncached \in Entry
  BY PagingAssumption DEF Empty, Link, Huge, Cached, Uncached, Entry, Tbl, Early, Late

\* What the MMU reads in them.
LEMMA Fields ==
  /\ \A t \in Tbl : Link(t).present /\ ~Link(t).huge /\ Link(t).next = t
  /\ \A p \in Nat : /\ Cached(p).present /\ Cached(p).huge
                    /\ Cached(p).page = p /\ Cached(p).uc = FALSE
  /\ Uncached.present /\ Uncached.huge /\ Uncached.page = PApic /\ Uncached.uc = TRUE
  BY DEF Link, Huge, Cached, Uncached

\* A walk over two links that ends at a huge page succeeds.
LEMMA WalkSucceeds ==
  ASSUME NEW i, NEW t \in Tbl, NEW u \in Tbl, NEW e,
         table["PML4"][i[1]] = Link(t), table[t][i[2]] = Link(u), table[u][i[3]] = e,
         e.present, e.huge
  PROVE  Walk(i) = [page |-> e.page, uc |-> e.uc]
  <1> DEFINE e4 == table["PML4"][i[1]]
             e3 == table[e4.next][i[2]]
             e2 == table[e3.next][i[3]]
  <1>1. e4.present /\ e4.next = t
    BY Fields
  <1>2. e3.present /\ ~e3.huge /\ e3.next = u
    BY <1>1, Fields
  <1>3. e2 = e
    BY <1>2
  <1>4. Walk(i) = IF ~e4.present THEN Fault
                  ELSE IF ~e3.present \/ e3.huge THEN Fault
                  ELSE IF ~e2.present \/ ~e2.huge THEN Fault
                  ELSE [page |-> e2.page, uc |-> e2.uc]
    BY DEF Walk
  <1> HIDE DEF e4, e3, e2
  <1>5. e2.present /\ e2.huge
    BY <1>3, Zenon
  <1>6. Walk(i) = [page |-> e2.page, uc |-> e2.uc]
    BY <1>1, <1>2, <1>4, <1>5, Zenon
  <1> QED
    BY <1>3, <1>6, Zenon

\* Replacing entry i of table t leaves all the others as they are.
LEMMA Store ==
  ASSUME NEW tb \in [Tbl -> [Index -> Entry]], NEW t \in Tbl, NEW i \in Index,
         NEW e \in Entry
  PROVE  LET new == [tb EXCEPT ![t][i] = e]
         IN  /\ new \in [Tbl -> [Index -> Entry]]
             /\ new[t][i] = e
             /\ \A u \in Tbl, j \in Index : u # t \/ j # i => new[u][j] = tb[u][j]
  OBVIOUS

\* Every step of a core preserves the invariant.
LEMMA StepPreserves ==
  ASSUME PInv, Next
  PROVE  PInv'
  <1>1. /\ table \in [Tbl -> [Index -> Entry]] /\ count \in 0 .. N /\ boots \in 0 .. MaxBoots
        /\ N \in Nat \ {0} /\ 0 \in Index
        /\ {"PML4", "PDPT", "PD", "APIC_PDPTE", "APIC_PDE"} \subseteq Tbl
    BY PagingAssumption DEF PInv, TypeOK, Tbl, Early, Late, Index
  <1>2. CASE Clear
    <2>1. table' = [t \in Tbl |-> IF t \in Early THEN [i \in Index |-> Empty] ELSE table[t]]
      BY <1>1, <1>2 DEF Clear
    <2>2. table' \in [Tbl -> [Index -> Entry]]
      BY <1>1, <2>1, Entries
    <2> QED
      BY <1>1, <1>2, <2>2
      DEF Clear, PInv, TypeOK, Tbl, Linked, Filled, ApicLinked, PagingOn
  <1>3. CASE LinkTables
    <2> DEFINE t1 == [table EXCEPT !["PML4"][0] = Link("PDPT")]
    <2>1. t1 \in [Tbl -> [Index -> Entry]] /\ t1["PML4"][0] = Link("PDPT")
      BY <1>1, Store, Entries
    <2>2. table' = [t1 EXCEPT !["PDPT"][0] = Link("PD")]
      BY <1>3 DEF LinkTables
    <2> HIDE DEF t1
    <2>3. /\ table' \in [Tbl -> [Index -> Entry]] /\ table'["PDPT"][0] = Link("PD")
          /\ table'["PML4"][0] = Link("PDPT")
      BY <1>1, <2>1, <2>2, Store, Entries
    <2>4. step' = "fill" /\ count' = 0 /\ boots' = boots
      BY <1>3 DEF LinkTables
    <2>5. TypeOK'
      BY <1>1, <2>3, <2>4 DEF TypeOK, Tbl
    <2>6. Linked'
      BY <2>3, <2>4 DEF Linked
    <2>7. Filled'
      BY <1>1, <2>4 DEF Filled, PagingOn, Index
    <2>8. ApicLinked'
      BY <2>4 DEF ApicLinked
    <2> QED
      BY <2>5, <2>6, <2>7, <2>8 DEF PInv
  <1>4. CASE FillPd
    <2>1. /\ step = "fill" /\ count \in Index /\ count' = count + 1
          /\ table' = [table EXCEPT !["PD"][count] = Cached(count)]
          /\ step' = (IF count' = N THEN "map4" ELSE "fill") /\ boots' = boots
      BY <1>1, <1>4 DEF FillPd, PInv, Filled, Index, Cached
    <2>2. /\ table' \in [Tbl -> [Index -> Entry]]
          /\ table'["PD"][count] = Cached(count)
          /\ \A u \in Tbl, j \in Index : u # "PD" \/ j # count => table'[u][j] = table[u][j]
      BY <1>1, <2>1, Store, Entries DEF Index
    <2>3. \A i \in Index : i < count + 1 => table'["PD"][i] = Cached(i)
      BY <1>1, <2>1, <2>2 DEF PInv, Filled, Index
    <2>4. TypeOK'
      BY <1>1, <2>1, <2>2 DEF TypeOK, Tbl, Index
    <2>5. Linked'
      BY <1>1, <2>1, <2>2 DEF PInv, Linked
    <2>6. Filled'
      BY <1>1, <2>1, <2>3 DEF Filled, PagingOn, Index
    <2>7. ApicLinked'
      BY <2>1 DEF ApicLinked
    <2> QED
      BY <2>4, <2>5, <2>6, <2>7 DEF PInv
  <1>5. CASE MapPml4
    <2>1. /\ step = "map4" /\ step' = "map3" /\ count' = count /\ boots' = boots
          /\ table' = [table EXCEPT !["PML4"][I1] = Link("APIC_PDPTE")]
      BY <1>5 DEF MapPml4, I1
    <2>2. /\ table' \in [Tbl -> [Index -> Entry]]
          /\ table'["PML4"][I1] = Link("APIC_PDPTE")
          /\ \A u \in Tbl, j \in Index : u # "PML4" \/ j # I1 => table'[u][j] = table[u][j]
      BY <1>1, <2>1, Store, Entries, ApicIndices
    <2> QED
      BY <1>1, <2>1, <2>2, ApicIndices
      DEF PInv, TypeOK, Tbl, Linked, Filled, ApicLinked, PagingOn
  <1>6. CASE MapPdpte
    <2>1. /\ step = "map3" /\ step' = "map2" /\ count' = count /\ boots' = boots
          /\ table' = [table EXCEPT !["APIC_PDPTE"][I2] = Link("APIC_PDE")]
      BY <1>6 DEF MapPdpte, I2
    <2>2. /\ table' \in [Tbl -> [Index -> Entry]]
          /\ table'["APIC_PDPTE"][I2] = Link("APIC_PDE")
          /\ \A u \in Tbl, j \in Index :
               u # "APIC_PDPTE" \/ j # I2 => table'[u][j] = table[u][j]
      BY <1>1, <2>1, Store, Entries, ApicIndices
    <2> QED
      BY <1>1, <2>1, <2>2, ApicIndices
      DEF PInv, TypeOK, Tbl, Linked, Filled, ApicLinked, PagingOn
  <1>7. CASE MapPde
    <2>1. /\ step = "map2" /\ step' = "done" /\ count' = count /\ boots' = boots
          /\ table' = [table EXCEPT !["APIC_PDE"][I3] = Uncached]
      BY <1>7 DEF MapPde, I3, Uncached
    <2>2. /\ table' \in [Tbl -> [Index -> Entry]]
          /\ table'["APIC_PDE"][I3] = Uncached
          /\ \A u \in Tbl, j \in Index :
               u # "APIC_PDE" \/ j # I3 => table'[u][j] = table[u][j]
      BY <1>1, <2>1, Store, Entries, ApicIndices, PagingAssumption
    <2> QED
      BY <1>1, <2>1, <2>2, ApicIndices
      DEF PInv, TypeOK, Tbl, Linked, Filled, ApicLinked, PagingOn
  <1>8. CASE NextCore
    BY <1>1, <1>8, PagingAssumption
    DEF NextCore, PInv, TypeOK, Tbl, Linked, Filled, ApicLinked, PagingOn
  <1> QED
    BY <1>2, <1>3, <1>4, <1>5, <1>6, <1>7, <1>8 DEF Next

\* The invariant holds whatever the memory of the tables held at the start.
LEMMA PagingInductive == Spec => []PInv
  <1>1. Init => PInv
    BY PagingAssumption DEF Init, PInv, TypeOK, Linked, Filled, ApicLinked, PagingOn
  <1>2. PInv /\ UNCHANGED vars => PInv'
    BY DEF vars, PInv, TypeOK, Linked, Filled, ApicLinked, PagingOn
  <1> QED
    BY <1>1, <1>2, StepPreserves, PTL DEF Spec

-----------------------------------------------------------------------------
\* Tables hold entries and fill_pd stays inside the page directory.
THEOREM PagingTypeCorrect == Spec => []TypeOK
  BY PagingInductive, PTL DEF PInv

\* From the moment paging is enabled every page that early_page covers
\* (bootloader.s:147-172) is mapped to itself, in every state of map_addr too.
THEOREM IdentityMappedHolds == Spec => []IdentityMapped
  <1>1. PInv => IdentityMapped
    <2> SUFFICES ASSUME PInv, PagingOn, NEW i \in Index
                 PROVE  Walk(<<0, 0, i>>) = [page |-> i, uc |-> FALSE]
      BY DEF IdentityMapped
    <2>1. /\ table["PML4"][0] = Link("PDPT") /\ table["PDPT"][0] = Link("PD")
          /\ table["PD"][i] = Cached(i)
      BY DEF PInv, Linked, Filled, PagingOn
    <2>2. i \in Nat /\ {"PDPT", "PD"} \subseteq Tbl
      BY PagingAssumption DEF Index, Tbl, Early, Late
    <2>3. Cached(i).present /\ Cached(i).huge /\ Cached(i).page = i /\ Cached(i).uc = FALSE
      BY <2>2, Fields
    <2>4. Walk(<<0, 0, i>>) = [page |-> Cached(i).page, uc |-> Cached(i).uc]
      BY <2>1, <2>2, <2>3, WalkSucceeds
    <2> QED
      BY <2>3, <2>4, Zenon
  <1> QED
    BY <1>1, PagingInductive, PTL

\* After map_addr (paging.cc:10-29) the APIC page is mapped, uncached, although
\* nobody zeroes the two tables on the way to it.
THEOREM ApicMappedHolds == Spec => []ApicMapped
  <1>1. PInv => ApicMapped
    <2> SUFFICES ASSUME PInv, step = "done"
                 PROVE  Walk(Indices(VApic)) = [page |-> PApic, uc |-> TRUE]
      BY DEF ApicMapped
    <2>1. /\ table["PML4"][I1] = Link("APIC_PDPTE")
          /\ table["APIC_PDPTE"][I2] = Link("APIC_PDE")
          /\ table["APIC_PDE"][I3] = Uncached
      BY DEF PInv, ApicLinked
    <2>2. {"APIC_PDPTE", "APIC_PDE"} \subseteq Tbl
      BY DEF Tbl, Early, Late
    <2>3. Walk(Indices(VApic)) = [page |-> Uncached.page, uc |-> Uncached.uc]
      BY <2>1, <2>2, Fields, WalkSucceeds DEF I1, I2, I3
    <2> QED
      BY <2>3, Fields, Zenon
  <1> QED
    BY <1>1, PagingInductive, PTL

-----------------------------------------------------------------------------
(* The memory map.                                                         *)

EntryFields == [addr : Int, len : Int, type : Int]

\* What a line of the kernel shows of region n: the count lies over entry 21.
Line(n) == [addr |-> n, len |-> IF n = 22 THEN Count ELSE n, type |-> n]

Types == /\ regions \in 0 .. MaxRegions
         /\ style \in {"last", "after"}
         /\ ebx \in Nat /\ ebp \in Nat /\ entries \in Nat
         /\ buffer \in [0 .. MaxRegions -> EntryFields]
         /\ printed \in Seq(EntryFields)
         /\ pc \in {"call", "store", "print", "done"}

\* While the map is collected its first regions are in the buffer ...
Collecting ==
  pc = "call" => /\ ebx = ebp /\ ebp <= regions
                 /\ \A i \in 0 .. ebp - 1 : buffer[i] = Region(i + 1)

\* ... and afterwards all of them, with one call for each or one more.
Collected ==
  /\ pc # "call" => ebp \in {regions, regions + 1} /\ ebp >= 1
  /\ pc = "store" => \A i \in 0 .. regions - 1 : buffer[i] = Region(i + 1)
  /\ pc \in {"print", "done"} => \A i \in 0 .. regions - 1 : buffer[i] = Line(i + 1)

\* The count is that of the calls.
Counted == pc \in {"print", "done"} => entries = ebp

\* What is printed are entries in front of the count less 1.
Printing == /\ \A i \in DOMAIN printed : printed[i] = Line(i)
            /\ pc \in {"call", "store"} => printed = <<>>
            /\ pc \in {"print", "done"} => Len(printed) <= ebp - 1
            /\ pc = "done" => Len(printed) = ebp - 1

EInv == Types /\ Collecting /\ Collected /\ Counted /\ Printing

-----------------------------------------------------------------------------
\* Entries and lines are records of three numbers.
LEMMA RegionTypes == \A n \in Int : Region(n) \in EntryFields /\ Line(n) \in EntryFields
  BY DEF Region, Line, EntryFields, Count

\* The 4 bytes of the count are the lower half of the length of entry 21.
LEMMA CountLiesOver ==
  ASSUME NEW dom \in SUBSET Nat, buffer \in [dom -> EntryFields]
  PROVE  /\ Overlaid(CountOffset) \in [dom -> EntryFields]
         /\ \A i \in dom : Overlaid(CountOffset)[i] =
              [addr |-> buffer[i].addr, len |-> IF i = 21 THEN Count ELSE buffer[i].len,
               type |-> buffer[i].type]
  <1> DEFINE F(i) == [addr |-> buffer[i].addr, len |-> IF i = 21 THEN Count ELSE buffer[i].len,
                      type |-> buffer[i].type]
             G(i) == [addr |-> IF i * 24 + 0 < 512 + 4 /\ 512 < i * 24 + 0 + 8
                               THEN Count ELSE buffer[i].addr,
                      len |-> IF i * 24 + 8 < 512 + 4 /\ 512 < i * 24 + 8 + 8
                              THEN Count ELSE buffer[i].len,
                      type |-> IF i * 24 + 16 < 512 + 4 /\ 512 < i * 24 + 16 + 4
                               THEN Count ELSE buffer[i].type]
  <1>1. ASSUME NEW i \in dom
        PROVE  G(i) = F(i)
    <2>1. ~(i * 24 + 0 < 512 + 4 /\ 512 < i * 24 + 0 + 8)
      OBVIOUS
    <2>2. (i * 24 + 8 < 512 + 4 /\ 512 < i * 24 + 8 + 8) <=> i = 21
      OBVIOUS
    <2>3. ~(i * 24 + 16 < 512 + 4 /\ 512 < i * 24 + 16 + 4)
      OBVIOUS
    <2>4. CASE i = 21
      BY <2>1, <2>2, <2>3, <2>4, ZenonT(60)
    <2>5. CASE i # 21
      BY <2>1, <2>2, <2>3, <2>5, ZenonT(60)
    <2> QED
      BY <2>4, <2>5
  <1>2. Overlaid(CountOffset) = [i \in dom |-> F(i)]
    <2>1. DOMAIN buffer = dom
      OBVIOUS
    <2>2. Overlaid(CountOffset) = [i \in DOMAIN buffer |-> G(i)]
      BY Zenon DEF Overlaid, CountOffset, EntrySize
    <2> HIDE DEF F, G
    <2> QED
      BY <1>1, <2>1, <2>2, Zenon
  <1>3. \A i \in dom : F(i) \in EntryFields
    BY DEF EntryFields, Count
  <1> QED
    BY <1>2, <1>3

\* One call of e820: the next region, or the end of the map.
LEMMA QueryPreserves ==
  ASSUME EInv, Query
  PROVE  EInv'
  <1>1. /\ regions \in 0 .. MaxRegions /\ style \in {"last", "after"}
        /\ buffer \in [0 .. MaxRegions -> EntryFields] /\ MaxRegions \in Nat
        /\ pc = "call" /\ ebx = ebp /\ ebp \in Nat /\ ebp <= regions
        /\ \A i \in 0 .. ebp - 1 : buffer[i] = Region(i + 1)
        /\ printed = <<>>
    BY E820Assumption DEF EInv, Types, Collecting, Printing, Query
  <1>2. /\ buffer' = IF ebx < regions THEN [buffer EXCEPT ![ebp] = Region(ebx + 1)] ELSE buffer
        /\ ebx' = Continue(ebx) /\ ebp' = ebp + 1
        /\ pc' = IF ebx' # 0 THEN "call" ELSE "store"
        /\ regions' = regions /\ style' = style 
        /\ entries' = entries /\ printed' = printed
    BY DEF Query
  <1>3. /\ buffer' \in [0 .. MaxRegions -> EntryFields]
        /\ \A i \in 0 .. ebp : i < regions => buffer'[i] = Region(i + 1)
    <2>1. Region(ebx + 1) \in EntryFields
      BY <1>1, RegionTypes
    <2> QED
      BY <1>1, <1>2, <2>1
  <1>4. CASE ebx < regions /\ (ebx + 1 < regions \/ style = "after")
    <2>1. ebx' = ebp + 1 /\ pc' = "call"
      BY <1>1, <1>2, <1>4 DEF Continue
    <2> QED
      BY <1>1, <1>2, <1>3, <1>4, <2>1
      DEF EInv, Types, Collecting, Collected, Counted, Printing
  <1>5. CASE ~(ebx < regions /\ (ebx + 1 < regions \/ style = "after"))
    <2>1. ebx' = 0 /\ pc' = "store"
      BY <1>2, <1>5 DEF Continue
    <2>2. ebp' \in {regions, regions + 1}
      BY <1>1, <1>2, <1>5
    <2> QED
      BY <1>1, <1>2, <1>3, <2>1, <2>2
      DEF EInv, Types, Collecting, Collected, Counted, Printing
  <1> QED
    BY <1>4, <1>5

\* The count is stored over the length of entry 21, whatever there is.
LEMMA StoreCountPreserves ==
  ASSUME EInv, StoreCount
  PROVE  EInv'
  <1>1. /\ regions \in 0 .. MaxRegions /\ MaxRegions \in 1 .. 254
        /\ buffer \in [0 .. MaxRegions -> EntryFields]
        /\ pc = "store" /\ ebp \in Nat /\ ebp \in {regions, regions + 1} /\ ebp >= 1
        /\ \A i \in 0 .. regions - 1 : buffer[i] = Region(i + 1)
    BY E820Assumption DEF EInv, Types, Collected, StoreCount
  <1>2. ebp % 256 = ebp
    <2>1. ebp \in 0 .. 255
      BY <1>1
    <2> QED
      BY <2>1
  <1>3. /\ buffer' = Overlaid(CountOffset) /\ entries' = ebp % 256 /\ pc' = "print"
        /\ UNCHANGED <<regions, style, ebx, ebp, printed>>
    BY DEF StoreCount
  <1>4. 0 .. MaxRegions \in SUBSET Nat
    BY <1>1
  <1>5. /\ buffer' \in [0 .. MaxRegions -> EntryFields]
        /\ \A i \in 0 .. MaxRegions : buffer'[i] =
             [addr |-> buffer[i].addr, len |-> IF i = 21 THEN Count ELSE buffer[i].len,
              type |-> buffer[i].type]
    BY <1>1, <1>3, <1>4, CountLiesOver
  <1>6. ASSUME NEW i \in 0 .. regions - 1
        PROVE  buffer'[i] = Line(i + 1)
    <2>1. i \in 0 .. MaxRegions /\ i \in Int /\ buffer[i] = Region(i + 1)
      BY <1>1
    <2>2. /\ buffer[i].addr = i + 1 /\ buffer[i].len = i + 1 /\ buffer[i].type = i + 1
      BY <2>1 DEF Region
    <2>3. i = 21 <=> i + 1 = 22
      BY <2>1
    <2> QED
      BY <1>5, <2>1, <2>2, <2>3 DEF Line
  <1> QED
    BY <1>1, <1>2, <1>3, <1>5, <1>6
    DEF EInv, Types, Collecting, Collected, Counted, Printing

\* The loop of init.cc:36 prints entries that were written.
LEMMA PrintPreserves ==
  ASSUME EInv, PrintEntry \/ PrintEnd
  PROVE  EInv'
  <1>0. /\ pc = "print"
        /\ UNCHANGED <<regions, style, ebx, ebp, buffer, entries>>
    BY DEF PrintEntry, PrintEnd
  <1>1. /\ regions \in Nat /\ regions <= 254 /\ pc = "print"
        /\ ebp \in {regions, regions + 1} /\ ebp >= 1 /\ entries = ebp
    <2>1. regions \in 0 .. MaxRegions /\ Collected /\ Counted
      BY DEF EInv, Types
    <2> QED
      BY E820Assumption, <1>0, <2>1 DEF Collected, Counted
  <1>2. entry_count = ebp - 1
    BY <1>1 DEF entry_count
  <1>3. /\ printed \in Seq(EntryFields) /\ Len(printed) \in Nat /\ Len(printed) <= ebp - 1
        /\ \A i \in 0 .. regions - 1 : buffer[i] = Line(i + 1)
        /\ \A i \in DOMAIN printed : printed[i] = Line(i)
    BY <1>1 DEF EInv, Types, Collected, Printing
  <1>4. CASE PrintEntry
    <2>1. Len(printed) < ebp - 1 /\ printed' = Append(printed, Line(Len(printed) + 1))
      BY <1>1, <1>2, <1>3, <1>4 DEF PrintEntry
    <2>2. /\ printed' \in Seq(EntryFields) /\ Len(printed') = Len(printed) + 1
          /\ \A i \in DOMAIN printed' : printed'[i] = Line(i)
      <3>1. Line(Len(printed) + 1) \in EntryFields
        BY <1>3, RegionTypes
      <3> QED
        BY <1>3, <2>1, <3>1
    <2>3. pc' = pc
      BY <1>4 DEF PrintEntry
    <2> QED
      BY <1>0, <1>1, <1>3, <2>1, <2>2, <2>3
      DEF EInv, Types, Collecting, Collected, Counted, Printing
  <1>5. CASE PrintEnd
    <2>1. Len(printed) = ebp - 1
      BY <1>1, <1>2, <1>3, <1>5 DEF PrintEnd
    <2> QED
      BY <1>1, <1>3, <1>5, <2>1
      DEF PrintEnd, EInv, Types, Collecting, Collected, Counted, Printing
  <1> QED
    BY <1>4, <1>5

\* The invariant holds from the first call of e820 to the last line.
LEMMA E820Inductive == MapSpec => []EInv
  <1>1. MapInit => EInv
    BY E820Assumption, RegionTypes DEF MapInit, EInv, Types, Collecting, Collected, Counted, Printing
  <1>2. EInv /\ [MapNext]_mapVars => EInv'
    <2> SUFFICES ASSUME EInv, [MapNext]_mapVars PROVE EInv'
      OBVIOUS
    <2>1. CASE UNCHANGED mapVars
      BY <2>1 DEF mapVars, EInv, Types, Collecting, Collected, Counted, Printing
    <2> QED
      BY <2>1, QueryPreserves, StoreCountPreserves, PrintPreserves DEF MapNext
  <1> QED
    BY <1>1, <1>2, PTL DEF MapSpec

-----------------------------------------------------------------------------
\* The kernel prints what was reported, in order and from the first region on
\* (bootloader.s:64-87, init.cc:34-41), for every map of up to 254 regions: every
\* field of every line, but for the length in line 22, which is the count.
THEOREM PrintsReportedHolds == MapSpec => []PrintsReported
  <1>1. EInv => PrintsReported
    BY DEF EInv, Printing, PrintsReported, Line
  <1> QED
    BY <1>1, E820Inductive, PTL

\* With at most 21 regions the count at 0x200 (bootloader.s:86) is on no line.
THEOREM CountSpoilsNothingHolds == MapSpec => []CountSpoilsNothing
  <1>1. EInv => CountSpoilsNothing
    <2> SUFFICES ASSUME EInv, regions <= 21, NEW i \in DOMAIN printed
                 PROVE  printed[i] = Region(i)
      BY DEF CountSpoilsNothing
    <2>1. printed[i] = Line(i) /\ printed \in Seq(EntryFields) /\ i \in 1 .. Len(printed)
      BY DEF EInv, Types, Printing
    <2>2. Len(printed) \in Nat /\ Len(printed) <= 21
      BY <2>1, E820Assumption DEF EInv, Types, Collected, Printing
    <2>3. i \in Int /\ i # 22
      BY <2>1, <2>2
    <2> QED
      BY <2>1, <2>3 DEF Line, Region
  <1> QED
    BY <1>1, E820Inductive, PTL

\* No region but the last is left out, whichever way the firmware ends the map.
THEOREM AtMostOneMissingHolds == MapSpec => []AtMostOneMissing
  <1>1. EInv => AtMostOneMissing
    BY DEF EInv, Types, Collected, Printing, AtMostOneMissing
  <1> QED
    BY <1>1, E820Inductive, PTL
=============================================================================
