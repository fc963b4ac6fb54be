-------------------------------- MODULE E820 --------------------------------
(***************************************************************************)
(* The memory map: get_physical of firststage/bootloader.s collects the    *)
(* entries of BIOS function e820 in a buffer and leaves their count behind *)
(* its first 0x200 bytes; start_kernel (init.cc:32-41) prints them.        *)
(***************************************************************************)
EXTENDS Integers, Sequences

CONSTANTS MaxRegions   \* bound: memory regions the firmware reports

\* With 256 calls and more the byte the kernel reads wraps.
ASSUME E820Assumption == MaxRegions \in 1 .. 254

EntrySize == 24
CountOffset == 512     \* 0x200

\* The fields of an entry that are printed hold the number of the region they describe,
\* 0 where nothing was written, and Count where the count of calls lies over them.
Count == -1
Region(n) == [addr |-> n, len |-> n, type |-> n]

VARIABLES regions,   \* how many regions the firmware has to report; 0: it has no e820
          style,     \* how it ends: "last" (ebx = 0 with the last region) or
                     \* "after" (carry and ebx = 0 on a further call)
          ebx,       \* the continuation value
          ebp,       \* the count of calls
          buffer,    \* what is in memory at 0x14000, by entries
          pc,        \* "call", "store", "print", "done"
          entries,   \* the byte the kernel reads, see entry_count
          printed    \* the entries the kernel has printed

mapVars == <<regions, style, ebx, ebp, buffer, pc, entries, printed>>

MapInit == /\ regions \in 0 .. MaxRegions
           /\ style \in {"last", "after"}
           /\ ebx = 0 /\ ebp = 0
           /\ buffer = [i \in 0 .. MaxRegions |-> Region(0)]
           /\ pc = "call" /\ entries = 0 /\ printed = <<>>

\* int 0x15 (external): the call with continuation k writes region k + 1 to es:di,
\* or fails behind the last region.  The answer is the next continuation.
Continue(k) == IF k < regions /\ (k + 1 < regions \/ style = "after") THEN k + 1 ELSE 0

\* Mutant: ebx is compared before the call has set it.
QueryStale == /\ pc = "call"
              /\ buffer' = IF ebx < regions THEN [buffer EXCEPT ![ebp] = Region(ebx + 1)] ELSE buffer
              /\ ebx' = Continue(ebx)
              /\ ebp' = ebp + 1
              /\ pc' = IF ebx # 0 THEN "call" ELSE "store"
              /\ UNCHANGED <<regions, style, entries, printed>>

\* One turn of L1: the call, inc ebp, add edi, 24.  The carry is not looked at.
Query == /\ pc = "call"
         /\ buffer' = IF ebx < regions THEN [buffer EXCEPT ![ebp] = Region(ebx + 1)] ELSE buffer
         /\ ebx' = Continue(ebx)
         /\ ebp' = ebp + 1
         /\ pc' = IF ebx' # 0 THEN "call" ELSE "store"
         /\ UNCHANGED <<regions, style, entries, printed>>

\* The entries after a store of 4 bytes at offset off: the fields it lies over hold Count.
Overlaid(off) ==
  LET Hit(first, size) == first < off + 4 /\ off < first + size
      Field(i, at, size, was) == IF Hit(i * EntrySize + at, size) THEN Count ELSE was
  IN  [i \in DOMAIN buffer |-> [addr |-> Field(i, 0, 8, buffer[i].addr),
                                len |-> Field(i, 8, 8, buffer[i].len),
                                type |-> Field(i, 16, 4, buffer[i].type)]]

\* Mutant: the count is stored at 0x100.
StoreCountLow == /\ pc = "store"
                 /\ buffer' = Overlaid(256)
                 /\ entries' = ebp % 256
                 /\ pc' = "print"
                 /\ UNCHANGED <<regions, style, ebx, ebp, printed>>

\* mov dword [es:edx + 0x200], ebp
StoreCount == /\ pc = "store"
              /\ buffer' = Overlaid(CountOffset)
              /\ entries' = ebp % 256
              /\ pc' = "print"
              /\ UNCHANGED <<regions, style, ebx, ebp, printed>>

\* Mutant: the count is taken as it is.
entry_count_all == entries

\* uint8_t entry_count = *(uint8_t*)(e20_addr + 0x200) - 1
entry_count == (entries - 1) % 256

PrintEntry == /\ pc = "print"
              /\ Len(printed) < entry_count
              /\ printed' = Append(printed, buffer[Len(printed)])
              /\ UNCHANGED <<regions, style, ebx, ebp, buffer, pc, entries>>

PrintEnd == /\ pc = "print"
            /\ Len(printed) >= entry_count
            /\ pc' = "done"
            /\ UNCHANGED <<regions, style, ebx, ebp, buffer, entries, printed>>

MapNext == Query \/ StoreCount \/ PrintEntry \/ PrintEnd

MapSpec == MapInit /\ [][MapNext]_mapVars

-----------------------------------------------------------------------------
\* The kernel prints no entry that the firmware did not write: the lines it prints are
\* the first regions of the map, in order, whichever way the map ends.  One field is an
\* exception: the count is stored inside the buffer (bootloader.s:86), over the length of
\* entry 21, so that line 22 shows the number of calls for a length.
PrintsReported ==
  \A i \in DOMAIN printed :
    printed[i] = [addr |-> i, len |-> IF i = 22 THEN Count ELSE i, type |-> i]

\* The line with the count is reached by the longer maps only: with at most 21 regions
\* every line is as the firmware reported it.
CountSpoilsNothing == regions <= 21 => \A i \in DOMAIN printed : printed[i] = Region(i)

\* Whichever way the firmware ends the map, the kernel leaves out at most one
\* region, the last (bootloader.s:75-81, init.cc:34).
AtMostOneMissing == pc = "done" => Len(printed) >= regions - 1

\* All memory entries of the map are printed (init.cc:32-35).
PrintsAll == pc = "done" => Len(printed) = regions
=============================================================================
