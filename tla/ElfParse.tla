------------------------------ MODULE ElfParse ------------------------------
(***************************************************************************)
(* The flattener src/elf_parse: main of parser.cc copies the bytes of the  *)
(* kernel's ELF file from the first section to the end of the last one to  *)
(* flat.bin, which bootloader.s includes at entry_p and jumps to.          *)
(*                                                                         *)
(* A byte of the ELF file is its offset, one of an earlier flat.bin is -1. *)
(***************************************************************************)
EXTENDS Integers, Sequences, SequencesExt, FiniteSetsExt

CONSTANTS Sections,     \* section headers there may be, [offset, size]
          Shoffs,       \* values of e_shoff: where the section header table is
          MaxSections,  \* bound: e_shnum
          CountValues,  \* values of the byte that holds e_shnum, 256
          FieldValues   \* values of a field of FileHeader, 2^32

ASSUME ElfAssumption ==
  /\ Sections \subseteq [offset : Nat, size : Nat]
  /\ Shoffs \subseteq Nat /\ MaxSections \in Nat
  /\ CountValues \in Nat \ {0} /\ FieldValues \in Nat \ {0}

VARIABLES kernel_file,  \* "missing", "other" or "elf"
          sh_off,
          shdr,         \* the section header table
          pc,           \* "open", "check", "collect", "choose", "write", "done" or "exit"
          ii,           \* the loop variable of the loop under way
          fheader,      \* the sections that count, in the order of the table
          image_base, image_end,
          flat          \* the content of flat.bin

input == <<kernel_file, sh_off, shdr>>
vars == <<input, pc, ii, fheader, image_base, image_end, flat>>

entry_sh == Len(shdr) % CountValues

Init == /\ kernel_file \in {"missing", "other", "elf"}
        /\ sh_off \in Shoffs
        /\ shdr \in BoundedSeq(Sections, MaxSections)
        /\ pc = "open" /\ ii = 0
        /\ fheader = <<>> /\ image_base = 0 /\ image_end = 0 /\ flat = <<-1>>

\* Mutant: flat.bin is opened when the kernel's file is there.
OpenLate == /\ pc = "open"
            /\ IF kernel_file = "missing" THEN pc' = "exit" /\ UNCHANGED flat
               ELSE pc' = "check" /\ flat' = <<>>
            /\ UNCHANGED <<input, ii, fheader, image_base, image_end>>

\* The constructor of File empties flat.bin; openfile asserts that the other is there.
OpenFiles == /\ pc = "open"
             /\ flat' = <<>>
             /\ pc' = IF kernel_file = "missing" THEN "exit" ELSE "check"
             /\ UNCHANGED <<input, ii, fheader, image_base, image_end>>

\* No ELF file, or no section: exit(1).
Check == /\ pc = "check"
         /\ pc' = IF kernel_file = "elf" /\ entry_sh > 0 THEN "collect" ELSE "exit"
         /\ UNCHANGED <<input, ii, fheader, image_base, image_end, flat>>

\* FileHeader(uint32_t f_offset, uint32_t f_size)
initheader(offset, size) == [offset |-> offset % FieldValues, size |-> size % FieldValues]

comparator(s1, s2) == s1.offset < s2.offset

\* Sections with content, in front of the section header table.
Selected(s) == s.offset > 0 /\ s.offset < sh_off

\* One turn of the loop over the table, or its end.
Collect == /\ pc = "collect"
           /\ IF ii < entry_sh
              THEN /\ LET s == shdr[ii + 1]
                      IN  fheader' = IF Selected(s)
                                     THEN Append(fheader, initheader(s.offset, s.size))
                                     ELSE fheader
                   /\ ii' = ii + 1
                   /\ UNCHANGED pc
              ELSE pc' = "choose" /\ UNCHANGED <<fheader, ii>>
           /\ UNCHANGED <<input, image_base, image_end, flat>>

\* std::min_element and std::max_element: the first of equals.
MinIndex == Min({i \in DOMAIN fheader :
                   \A j \in DOMAIN fheader : ~comparator(fheader[j], fheader[i])})

\* Mutant: the last section of the table.
LastIndex == Len(fheader)

MaxIndex == Min({i \in DOMAIN fheader :
                   \A j \in DOMAIN fheader : ~comparator(fheader[i], fheader[j])})

\* The assert, then image_base and image_end, whose sum is one of uint32_t.
ChooseBounds ==
  /\ pc = "choose"
  /\ IF fheader = <<>>
     THEN pc' = "exit" /\ UNCHANGED <<ii, image_base, image_end>>
     ELSE /\ pc' = "write"
          /\ image_base' = fheader[MinIndex].offset
          /\ image_end' = (fheader[MaxIndex].offset + fheader[MaxIndex].size) % FieldValues
          /\ ii' = image_base'
  /\ UNCHANGED <<input, fheader, flat>>

writefile(byte) == Append(flat, byte)

\* One turn of the loop over the bytes, or its end.
Write == /\ pc = "write"
         /\ IF ii < image_end
            THEN flat' = writefile(ii) /\ ii' = ii + 1 /\ UNCHANGED pc
            ELSE pc' = "done" /\ UNCHANGED <<ii, flat>>
         /\ UNCHANGED <<input, fheader, image_base, image_end>>

Next == OpenFiles \/ Check \/ Collect \/ ChooseBounds \/ Write

Spec == Init /\ [][Next]_vars

-----------------------------------------------------------------------------
\* The sections whose bytes belong to the image, taken from the whole table.
Loaded == {s \in Range(shdr) : s.offset > 0 /\ s.offset < sh_off}

\* What a linker writes: sections in front of the table that do not share bytes, fewer
\* of them than the count of the flattener and nearer than its fields can hold.  No section without
\* bytes in the file (the kernel's linker script puts .bss into .data) has the
\* offset of another one.
WellFormed ==
  /\ Len(shdr) < CountValues
  /\ \A s \in Loaded : s.offset + s.size <= sh_off /\ s.offset + s.size < FieldValues
  /\ \A i, j \in DOMAIN shdr :
       i # j /\ shdr[i] \in Loaded /\ shdr[j] \in Loaded =>
         \/ shdr[i].offset + shdr[i].size <= shdr[j].offset /\ shdr[i].offset < shdr[j].offset
         \/ shdr[j].offset + shdr[j].size <= shdr[i].offset /\ shdr[j].offset < shdr[i].offset

\* flat.bin holds exactly the bytes from the first section to the end of the last one, in
\* whatever order the table lists them (parser.cc:52: "Write bytes from first until last
\* section"): it starts where bootloader.s:230 jumps to, every section keeps its distance
\* from the first, and nothing of the section header table is copied.
WholeImage ==
  pc = "done" /\ WellFormed =>
    flat = LET first == Min({s.offset : s \in Loaded})
               end == Max({s.offset + s.size : s \in Loaded})
           IN  [i \in 1 .. end - first |-> first + i - 1]

\* When the flattener gives up, no image of an earlier build is left for bootloader.s to
\* include, nor a part of a new one (file.cc:2-4 before parser.cc:12-28).
NoStaleImage ==
  /\ pc = "exit" => flat = <<>>
  /\ pc = "done" => \A i \in DOMAIN flat : flat[i] # -1
=============================================================================
