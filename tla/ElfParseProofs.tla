--------------------------- MODULE ElfParseProofs ---------------------------
(***************************************************************************)
(* For every section header table, of any length, and every width of the   *)
(* fields and of the count, flat.bin holds the bytes from the first        *)
(* section to the end of the last one, and nothing once the flattener gave *)
(* up.                                                                     *)
(*                                                                         *)
(* Two things have to be carried through the loops: what was written so    *)
(* far is the run of bytes from image_base to ii, and the headers          *)
(* collected so far are, unchanged by their fields of 32 bits, exactly the *)
(* sections that count among the first ii of the table.  The first of the  *)
(* table by offset is then the first of the file, and since no two share   *)
(* bytes the one with the largest offset has the largest end.              *)
(***************************************************************************)
EXTENDS ElfParse, WellFoundedInduction, TLAPS

Header == [offset : Nat, size : Nat]

Types == /\ sh_off \in Nat /\ shdr \in Seq(Header)
         /\ ii \in Nat /\ image_base \in Nat /\ image_end \in Nat
         /\ fheader \in Seq(Header)
         /\ pc \in {"open", "check", "collect", "choose", "write", "done", "exit"}

\* What is in flat.bin: nothing, or the bytes from image_base to ii.
Copied ==
  /\ pc \in {"check", "collect", "choose", "exit"} => flat = <<>>
  /\ pc \in {"write", "done"} => /\ ii >= image_base /\ (ii <= image_end \/ ii = image_base)
                                 /\ flat = [i \in 1 .. ii - image_base |-> image_base + i - 1]
  /\ pc = "done" => ii >= image_end

\* The headers collected so far are those of the sections that count.
Gathered ==
  /\ pc \in {"open", "check"} => ii = 0 /\ fheader = <<>>
  /\ pc = "collect" => ii <= Len(shdr)
  /\ WellFormed =>
       /\ \A k \in DOMAIN fheader : fheader[k] \in Loaded
       /\ pc = "collect" =>
            \A j \in 1 .. ii : shdr[j] \in Loaded => \E k \in DOMAIN fheader : fheader[k] = shdr[j]
       /\ pc = "choose" =>
            \A j \in DOMAIN shdr : shdr[j] \in Loaded => \E k \in DOMAIN fheader : fheader[k] = shdr[j]

\* The image goes from the first offset of a section that counts to the last end of one.
Bounds(base, end) ==
  /\ \E s \in Loaded : s.offset = base
  /\ \A s \in Loaded : base <= s.offset
  /\ \E s \in Loaded : s.offset + s.size = end
  /\ \A s \in Loaded : s.offset + s.size <= end

Bounded == pc \in {"write", "done"} /\ WellFormed => Bounds(image_base, image_end)

\* Offsets of FileHeader have the width of its fields.
Narrow == \A k \in DOMAIN fheader : fheader[k].offset < FieldValues

FInv == Types /\ Copied /\ Gathered /\ Bounded /\ Narrow

-----------------------------------------------------------------------------
\* A set of naturals that is not empty has a least element, and Min is it.
LEMMA NatMin ==
  ASSUME NEW S \in SUBSET Nat, S # {}
  PROVE  Min(S) \in S /\ \A y \in S : Min(S) <= y
<1>. DEFINE R == OpToRel(<, Nat)
<1>1. IsWellFoundedOn(R, Nat)
  BY NatLessThanWellFounded
<1>2. \A x, y \in Nat : y < x => <<y, x>> \in R
  BY Zenon DEF OpToRel
<1>. HIDE DEF R
<1>3. PICK x \in S : \A y \in S : ~ (<<y, x>> \in R)
  BY <1>1, WFMin, Zenon
<1>4. \A y \in S : x <= y
  <2>. TAKE y \in S
  <2>1. x \in Nat /\ y \in Nat
    OBVIOUS
  <2>2. ~ (y < x)
    BY <1>2, <1>3, <2>1
  <2>. QED
    BY <2>1, <2>2
<1>. QED
  BY <1>4 DEF Min

\* A bound that is attained is the least element, and Min is that one.
LEMMA MinIs ==
  ASSUME NEW S \in SUBSET Nat, NEW m \in S, \A y \in S : m <= y
  PROVE  Min(S) = m
<1>. DEFINE x == Min(S)
<1>1. x \in S /\ \A y \in S : x <= y
  BY DEF Min
<1>. HIDE DEF x
<1>2. x \in Nat /\ m \in Nat /\ x <= m
  BY <1>1
<1>3. x = m
  BY <1>1, <1>2
<1>. QED
  BY <1>3 DEF x

\* The same for the greatest element and Max.
LEMMA MaxIs ==
  ASSUME NEW S \in SUBSET Nat, NEW m \in S, \A y \in S : y <= m
  PROVE  Max(S) = m
<1>. DEFINE x == Max(S)
<1>1. x \in S /\ \A y \in S : x >= y
  BY DEF Max
<1>. HIDE DEF x
<1>2. x \in Nat /\ m \in Nat /\ x >= m
  BY <1>1
<1>3. x = m
  BY <1>1, <1>2
<1>. QED
  BY <1>3 DEF x

\* A value below the modulus is its own remainder.
LEMMA SmallMod ==
  ASSUME NEW n \in Nat \ {0}, NEW a \in Nat, a < n
  PROVE  a % n = a
OBVIOUS

\* FileHeader keeps a section whose end its fields can hold as it is.
LEMMA HeaderKept ==
  ASSUME NEW s \in Header, s.offset + s.size < FieldValues
  PROVE  initheader(s.offset, s.size) = s
<1>1. s.offset \in Nat /\ s.size \in Nat /\ FieldValues \in Nat \ {0}
  BY ElfAssumption DEF Header
<1>2. s.offset < FieldValues /\ s.size < FieldValues
  BY <1>1
<1>3. s.offset % FieldValues = s.offset /\ s.size % FieldValues = s.size
  BY <1>1, <1>2, SmallMod
<1>. QED
  BY <1>3 DEF initheader, Header

\* FileHeader holds naturals whatever the section is.
LEMMA HeaderType ==
  ASSUME NEW s \in Header
  PROVE  /\ initheader(s.offset, s.size) \in Header
         /\ initheader(s.offset, s.size).offset < FieldValues
<1>1. s.offset \in Nat /\ s.size \in Nat /\ FieldValues \in Nat \ {0}
  BY ElfAssumption DEF Header
<1>2. /\ s.offset % FieldValues \in Nat /\ s.size % FieldValues \in Nat
      /\ s.offset % FieldValues < FieldValues
  BY <1>1
<1>. QED
  BY <1>2 DEF initheader, Header

\* Offset and size of a header are naturals.
LEMMA HeaderFields ==
  ASSUME NEW h \in Seq(Header)
  PROVE  \A k \in DOMAIN h : h[k] \in Header /\ h[k].offset \in Nat /\ h[k].size \in Nat
<1>. TAKE k \in DOMAIN h
<1>1. h[k] \in Header
  OBVIOUS
<1>. QED
  BY <1>1 DEF Header

\* std::min_element finds an element, and none has a smaller offset.
LEMMA MinElement ==
  ASSUME fheader \in Seq(Header), fheader # <<>>
  PROVE  /\ MinIndex \in DOMAIN fheader
         /\ \A j \in DOMAIN fheader : fheader[MinIndex].offset <= fheader[j].offset
<1>. DEFINE O == {fheader[k].offset : k \in DOMAIN fheader}
            I == {i \in DOMAIN fheader :
                    \A j \in DOMAIN fheader : ~comparator(fheader[j], fheader[i])}
<1>1. \A k \in DOMAIN fheader : fheader[k] \in Header /\ fheader[k].offset \in Nat
  BY HeaderFields
<1>2. O \in SUBSET Nat /\ O # {}
  <2>1. 1 \in DOMAIN fheader
    OBVIOUS
  <2>2. fheader[1].offset \in O
    BY <2>1
  <2>. QED
    BY <1>1, <2>2
<1>3. Min(O) \in O /\ \A y \in O : Min(O) <= y
  BY <1>2, NatMin
<1>4. PICK k \in DOMAIN fheader : Min(O) = fheader[k].offset
  BY <1>3
<1>5. k \in I
  <2>1. \A j \in DOMAIN fheader : fheader[k].offset <= fheader[j].offset
    BY <1>3, <1>4
  <2>. QED
    BY <1>1, <2>1 DEF comparator
<1>6. I \in SUBSET Nat
  OBVIOUS
<1>7. Min(I) \in I
  BY <1>5, <1>6, NatMin
<1>8. MinIndex = Min(I)
  BY DEF MinIndex
<1>. HIDE DEF O
<1>9. MinIndex \in DOMAIN fheader
      /\ \A j \in DOMAIN fheader : ~(fheader[j].offset < fheader[MinIndex].offset)
  BY <1>7, <1>8 DEF comparator
<1>. QED
  BY <1>1, <1>9

\* std::max_element finds an element, and none has a larger offset.
LEMMA MaxElement ==
  ASSUME fheader \in Seq(Header), fheader # <<>>,
         NEW n \in Nat, \A j \in DOMAIN fheader : fheader[j].offset < n
  PROVE  /\ MaxIndex \in DOMAIN fheader
         /\ \A j \in DOMAIN fheader : fheader[j].offset <= fheader[MaxIndex].offset
<1>. DEFINE O == {n - fheader[k].offset : k \in DOMAIN fheader}
            I == {i \in DOMAIN fheader :
                    \A j \in DOMAIN fheader : ~comparator(fheader[i], fheader[j])}
<1>1. \A k \in DOMAIN fheader : fheader[k] \in Header /\ fheader[k].offset \in Nat
  BY HeaderFields
<1>2. O \in SUBSET Nat /\ O # {}
  <2>1. 1 \in DOMAIN fheader
    OBVIOUS
  <2>2. n - fheader[1].offset \in O
    BY <2>1
  <2>. QED
    BY <1>1, <2>2
<1>3. Min(O) \in O /\ \A y \in O : Min(O) <= y
  BY <1>2, NatMin
<1>4. PICK k \in DOMAIN fheader : Min(O) = n - fheader[k].offset
  BY <1>3
<1>5. \A j \in DOMAIN fheader : fheader[j].offset <= fheader[k].offset
  <2>. TAKE j \in DOMAIN fheader
  <2>1. n - fheader[k].offset <= n - fheader[j].offset
    BY <1>3, <1>4
  <2>. QED
    BY <1>1, <2>1
<1>6. k \in I
  BY <1>1, <1>5 DEF comparator
<1>7. I \in SUBSET Nat
  OBVIOUS
<1>8. Min(I) \in I
  BY <1>6, <1>7, NatMin
<1>9. MaxIndex = Min(I)
  BY DEF MaxIndex
<1>. HIDE DEF O
<1>10. MaxIndex \in DOMAIN fheader
       /\ \A j \in DOMAIN fheader : ~(fheader[MaxIndex].offset < fheader[j].offset)
  BY <1>8, <1>9 DEF comparator
<1>. QED
  BY <1>1, <1>10

-----------------------------------------------------------------------------
\* Every table main may find satisfies the invariant before the first step.
LEMMA FlattenerStarts == Init => FInv
<1>. SUFFICES ASSUME Init PROVE FInv
  OBVIOUS
<1>1. shdr \in Seq(Header)
  <2>1. PICK m \in 0 .. MaxSections : shdr \in [1 .. m -> Sections]
    BY DEF Init, BoundedSeq, SeqOf
  <2>2. m \in Nat /\ Sections \subseteq Header
    BY ElfAssumption DEF Header
  <2>3. shdr \in [1 .. m -> Header]
    BY <2>1, <2>2
  <2>. QED
    BY <2>2, <2>3
<1>2. Types
  BY <1>1, ElfAssumption DEF Init, Types
<1>. QED
  BY <1>2 DEF Init, FInv, Copied, Gathered, Bounded, Narrow

\* The input stays: so do the sections that count and whether the table is well formed.
LEMMA InputKept ==
  ASSUME UNCHANGED input
  PROVE  /\ shdr' = shdr /\ sh_off' = sh_off
         /\ Loaded' = Loaded /\ WellFormed' = WellFormed
         /\ \A b, e : Bounds(b, e)' = Bounds(b, e)
<1>1. shdr' = shdr /\ sh_off' = sh_off
  BY DEF input
<1>2. Loaded' = Loaded
  BY <1>1 DEF Loaded
<1>3. WellFormed' = WellFormed
  BY <1>1, <1>2 DEF WellFormed
<1>. QED
  BY <1>1, <1>2, <1>3 DEF Bounds

\* The files are opened before anything is collected.
LEMMA OpenFilesStep == FInv /\ OpenFiles => FInv'
<1>. SUFFICES ASSUME FInv, OpenFiles PROVE FInv'
  OBVIOUS
<1>1. UNCHANGED <<shdr, sh_off, ii, fheader, image_base, image_end>>
      /\ pc = "open" /\ pc' \in {"exit", "check"} /\ flat' = <<>>
  BY DEF OpenFiles, input
<1>2. WellFormed' = WellFormed /\ Loaded' = Loaded
  BY InputKept DEF OpenFiles
<1>3. Types'
  BY <1>1 DEF FInv, Types
<1>4. Gathered'
  BY <1>1, <1>2 DEF FInv, Gathered
<1>. QED
  BY <1>1, <1>3, <1>4 DEF FInv, Copied, Bounded, Narrow

\* What is no ELF file ends here; otherwise the loop starts at 0.
LEMMA CheckStep == FInv /\ Check => FInv'
<1>. SUFFICES ASSUME FInv, Check PROVE FInv'
  OBVIOUS
<1>1. UNCHANGED <<shdr, sh_off, ii, fheader, image_base, image_end, flat>>
      /\ pc = "check" /\ pc' \in {"exit", "collect"}
  BY DEF Check, input
<1>2. WellFormed' = WellFormed /\ Loaded' = Loaded
  BY InputKept DEF Check
<1>3. Types'
  BY <1>1 DEF FInv, Types
<1>4. Gathered'
  <2>1. ii' = 0 /\ fheader' = <<>> /\ Len(shdr') \in Nat
    BY <1>1 DEF FInv, Gathered, Types
  <2>. QED
    BY <1>1, <2>1 DEF Gathered
<1>. QED
  BY <1>1, <1>3, <1>4 DEF FInv, Copied, Bounded, Narrow

\* A turn of the loop takes section ii over if it counts; at the end all were looked at.
LEMMA CollectStep == FInv /\ Collect => FInv'
<1>. SUFFICES ASSUME FInv, Collect PROVE FInv'
  OBVIOUS
<1>1. UNCHANGED <<shdr, sh_off, image_base, image_end, flat>> /\ pc = "collect"
  BY DEF Collect, input
<1>2. WellFormed' = WellFormed /\ Loaded' = Loaded
  BY InputKept DEF Collect
<1>3. /\ shdr \in Seq(Header) /\ fheader \in Seq(Header) /\ ii \in Nat /\ sh_off \in Nat
      /\ ii <= Len(shdr) /\ Len(shdr) \in Nat /\ flat = <<>>
  BY <1>1 DEF FInv, Types, Gathered, Copied
<1>4. entry_sh \in Nat /\ entry_sh <= Len(shdr) /\ (WellFormed => entry_sh = Len(shdr))
  <2>. DEFINE n == Len(shdr)
  <2>1. n \in Nat /\ CountValues \in Nat \ {0}
    BY <1>3, ElfAssumption
  <2>. HIDE DEF n
  <2>2. n % CountValues \in Nat /\ n % CountValues <= n
        /\ (n < CountValues => n % CountValues = n)
    BY <2>1
  <2>. QED
    BY <2>2 DEF entry_sh, WellFormed, n
<1>5. CASE ii < entry_sh
  <2>. DEFINE s == shdr[ii + 1]
  <2>1. ii' = ii + 1 /\ pc' = pc
        /\ fheader' = IF Selected(s) THEN Append(fheader, initheader(s.offset, s.size))
                      ELSE fheader
    BY <1>5 DEF Collect
  <2>2. ii + 1 \in DOMAIN shdr /\ ii + 1 <= Len(shdr) /\ ii + 1 \in Nat
    BY <1>3, <1>4, <1>5
  <2>3. s \in Header /\ s \in Range(shdr)
    BY <1>3, <2>2 DEF Range
  <2>4. /\ initheader(s.offset, s.size) \in Header
        /\ initheader(s.offset, s.size).offset < FieldValues
    BY <2>3, HeaderType
  <2>5. Selected(s) <=> s \in Loaded
    BY <2>3 DEF Selected, Loaded
  <2>6. WellFormed /\ s \in Loaded => initheader(s.offset, s.size) = s
    BY <2>3, HeaderKept DEF WellFormed
  <2>. HIDE DEF s
  <2>7. fheader' \in Seq(Header)
    BY <1>3, <2>1, <2>4
  <2>8. Types'
    BY <1>1, <2>1, <2>2, <2>7 DEF FInv, Types
  <2>9. ASSUME WellFormed
        PROVE  /\ \A k \in DOMAIN fheader' : fheader'[k] \in Loaded
               /\ \A j \in 1 .. ii' : shdr[j] \in Loaded =>
                                        \E k \in DOMAIN fheader' : fheader'[k] = shdr[j]
    <3>1. /\ \A k \in DOMAIN fheader : fheader[k] \in Loaded
          /\ \A j \in 1 .. ii : shdr[j] \in Loaded => \E k \in DOMAIN fheader : fheader[k] = shdr[j]
      BY <1>1, <2>9 DEF FInv, Gathered
    <3>2. CASE s \in Loaded
      <4>1. fheader' = Append(fheader, s)
        BY <2>1, <2>5, <2>6, <2>9, <3>2
      <4>2. Len(fheader) \in Nat /\ DOMAIN fheader = 1 .. Len(fheader)
        BY <1>3
      <4>3. /\ DOMAIN fheader' = 1 .. Len(fheader) + 1
            /\ \A k \in DOMAIN fheader : fheader'[k] = fheader[k]
            /\ fheader'[Len(fheader) + 1] = s
        BY <1>3, <2>3, <4>1, <4>2
      <4>4. DOMAIN fheader \subseteq DOMAIN fheader' /\ Len(fheader) + 1 \in DOMAIN fheader'
        BY <4>2, <4>3
      <4>5. \A k \in DOMAIN fheader' : k \in DOMAIN fheader \/ k = Len(fheader) + 1
        BY <4>2, <4>3
      <4>6. \A k \in DOMAIN fheader' : fheader'[k] \in Loaded
        BY <3>1, <3>2, <4>3, <4>5
      <4>7. \A j \in 1 .. ii' : j \in 1 .. ii \/ shdr[j] = s
        BY <1>3, <2>1 DEF s
      <4>. QED
        BY <3>1, <4>3, <4>4, <4>6, <4>7
    <3>3. CASE s \notin Loaded
      <4>1. fheader' = fheader
        BY <2>1, <2>5, <3>3
      <4>2. \A j \in 1 .. ii' : j \in 1 .. ii \/ shdr[j] = s
        BY <1>3, <2>1 DEF s
      <4>. QED
        BY <3>1, <3>3, <4>1, <4>2
    <3>. QED
      BY <3>2, <3>3
  <2>10. Gathered'
    BY <1>1, <1>2, <2>1, <2>2, <2>9 DEF Gathered
  <2>11. Narrow'
    <3>. DEFINE h == initheader(s.offset, s.size)
    <3>1. h \in Header /\ h.offset < FieldValues
      BY <2>4
    <3>2. fheader' = fheader \/ fheader' = Append(fheader, h)
      BY <2>1
    <3>. HIDE DEF h
    <3>. QED
      BY <1>3, <3>1, <3>2 DEF FInv, Narrow
  <2>. QED
    BY <1>1, <1>3, <2>1, <2>8, <2>10, <2>11 DEF FInv, Copied, Bounded, Narrow
<1>6. CASE ~(ii < entry_sh)
  <2>1. pc' = "choose" /\ UNCHANGED <<fheader, ii>>
    BY <1>6 DEF Collect
  <2>2. Types'
    BY <1>1, <2>1 DEF FInv, Types
  <2>3. WellFormed => DOMAIN shdr = 1 .. ii
    BY <1>3, <1>4, <1>6
  <2>4. Gathered'
    BY <1>1, <1>2, <2>1, <2>3 DEF FInv, Gathered
  <2>. QED
    BY <1>1, <1>3, <2>1, <2>2, <2>4 DEF FInv, Copied, Bounded, Narrow
<1>. QED
  BY <1>5, <1>6

\* Without a header the flattener gives up.  Otherwise the bounds are those of the
\* sections that count: no two share bytes, so that the last one to start ends last.
LEMMA ChooseBoundsStep == FInv /\ ChooseBounds => FInv'
<1>. SUFFICES ASSUME FInv, ChooseBounds PROVE FInv'
  OBVIOUS
<1>1. UNCHANGED <<shdr, sh_off, fheader, flat>> /\ pc = "choose" /\ flat = <<>>
  BY DEF ChooseBounds, input, FInv, Copied
<1>2. WellFormed' = WellFormed /\ Loaded' = Loaded
  BY InputKept DEF ChooseBounds
<1>3. Narrow'
  BY <1>1 DEF FInv, Narrow
<1>4. CASE fheader = <<>>
  <2>1. pc' = "exit" /\ UNCHANGED <<ii, image_base, image_end>>
    BY <1>4 DEF ChooseBounds
  <2>2. Types'
    BY <1>1, <2>1 DEF FInv, Types
  <2>3. Gathered'
    BY <1>1, <1>2, <2>1 DEF FInv, Gathered
  <2>. QED
    BY <1>1, <1>3, <2>1, <2>2, <2>3 DEF FInv, Copied, Bounded
<1>5. CASE fheader # <<>>
  <2>. DEFINE a == fheader[MinIndex]
              b == fheader[MaxIndex]
  <2>1. pc' = "write" /\ image_base' = a.offset /\ ii' = image_base'
        /\ image_end' = (b.offset + b.size) % FieldValues
    BY <1>5 DEF ChooseBounds
  <2>2. fheader \in Seq(Header) /\ FieldValues \in Nat \ {0}
        /\ \A j \in DOMAIN fheader : fheader[j].offset < FieldValues
    BY ElfAssumption DEF FInv, Types, Narrow
  <2>3. MinIndex \in DOMAIN fheader
        /\ \A j \in DOMAIN fheader : a.offset <= fheader[j].offset
    BY <1>5, <2>2, MinElement
  <2>4. MaxIndex \in DOMAIN fheader
        /\ \A j \in DOMAIN fheader : fheader[j].offset <= b.offset
    BY <1>5, <2>2, MaxElement
  <2>5. a \in Header /\ a.offset \in Nat
        /\ b \in Header /\ b.offset \in Nat /\ b.size \in Nat
    BY <2>2, <2>3, <2>4, HeaderFields
  <2>6. WellFormed => a \in Loaded /\ b \in Loaded
    BY <2>3, <2>4 DEF FInv, Gathered
  <2>. HIDE DEF a, b
  <2>7. image_base' \in Nat /\ ii' \in Nat /\ image_end' \in Nat
    BY <2>1, <2>2, <2>5
  <2>8. Types'
    BY <1>1, <2>1, <2>7 DEF FInv, Types
  <2>9. Copied'
    <3>1. 1 .. ii' - image_base' = {}
      BY <2>1, <2>7
    <3>2. <<>> = [i \in 1 .. ii' - image_base' |-> image_base' + i - 1]
      BY <3>1
    <3>. QED
      BY <1>1, <2>1, <2>7, <3>2 DEF Copied
  <2>10. Gathered'
    BY <1>1, <1>2, <2>1 DEF FInv, Gathered
  <2>11. ASSUME WellFormed PROVE Bounds(image_base', image_end')
    <3>1. \A s \in Loaded : \E k \in DOMAIN fheader : fheader[k] = s
      <4>. TAKE s \in Loaded
      <4>1. PICK j \in DOMAIN shdr : shdr[j] = s
        BY DEF Loaded, Range
      <4>. QED
        BY <1>1, <2>11, <4>1 DEF FInv, Gathered
    <3>2. \A s \in Loaded : a.offset <= s.offset /\ s.offset <= b.offset
      BY <2>3, <2>4, <3>1
    <3>3. b.offset + b.size < FieldValues
      BY <2>6, <2>11 DEF WellFormed
    <3>4. image_end' = b.offset + b.size
      BY <2>1, <2>2, <2>5, <3>3, SmallMod
    <3>5. \A s \in Loaded : s.offset + s.size <= b.offset + b.size
      <4>. TAKE s \in Loaded
      <4>1. PICK i \in DOMAIN shdr : shdr[i] = s
        BY DEF Loaded, Range
      <4>2. PICK j \in DOMAIN shdr : shdr[j] = b
        BY <2>6, <2>11 DEF Loaded, Range
      <4>3. s.offset \in Nat /\ s.size \in Nat
        BY <4>1, HeaderFields DEF FInv, Types
      <4>4. CASE i = j
        BY <2>5, <4>1, <4>2, <4>4
      <4>5. CASE i # j
        <5>1. \/ s.offset + s.size <= b.offset /\ s.offset < b.offset
              \/ b.offset + b.size <= s.offset /\ b.offset < s.offset
          BY <2>6, <2>11, <4>1, <4>2, <4>5 DEF WellFormed
        <5>. QED
          BY <2>5, <3>2, <4>3, <5>1
      <4>. QED
        BY <4>4, <4>5
    <3>. QED
      BY <2>1, <2>6, <2>11, <3>2, <3>4, <3>5 DEF Bounds
  <2>12. Bounded'
    <3>1. Bounds(image_base', image_end') => Bounds(image_base, image_end)'
      BY <1>2 DEF Bounds
    <3>. QED
      BY <1>2, <2>11, <3>1 DEF Bounded
  <2>. QED
    BY <1>3, <2>8, <2>9, <2>10, <2>12 DEF FInv
<1>. QED
  BY <1>4, <1>5

\* A turn of the loop appends byte ii; at its end ii has reached image_end.
LEMMA WriteStep == FInv /\ Write => FInv'
<1>. SUFFICES ASSUME FInv, Write PROVE FInv'
  OBVIOUS
<1>1. UNCHANGED <<shdr, sh_off, fheader, image_base, image_end>> /\ pc = "write"
      /\ pc' \in {"write", "done"}
  BY DEF Write, input
<1>2. WellFormed' = WellFormed /\ Loaded' = Loaded
  BY InputKept DEF Write
<1>3. Narrow' /\ Gathered'
  BY <1>1, <1>2 DEF FInv, Narrow, Gathered
<1>4. Bounded'
  BY <1>1, <1>2 DEF FInv, Bounded, Bounds
<1>5. /\ ii \in Nat /\ image_base \in Nat /\ image_end \in Nat
      /\ ii >= image_base /\ (ii <= image_end \/ ii = image_base)
      /\ flat = [i \in 1 .. ii - image_base |-> image_base + i - 1]
  BY <1>1 DEF FInv, Types, Copied
<1>6. CASE ii < image_end
  <2>1. flat' = Append(flat, ii) /\ ii' = ii + 1 /\ pc' = pc
    BY <1>6 DEF Write, writefile
  <2>. DEFINE n == ii - image_base
  <2>2. n \in Nat /\ ii' - image_base' = n + 1 /\ ii = image_base + (n + 1) - 1
    BY <1>1, <1>5, <2>1
  <2>3. flat = [i \in 1 .. n |-> image_base + i - 1]
    BY <1>5
  <2>. HIDE DEF n
  <2>4. flat \in Seq(Int) /\ Len(flat) = n
    BY <1>5, <2>2, <2>3
  <2>5. /\ flat' \in Seq(Int) /\ Len(flat') = n + 1
        /\ \A i \in 1 .. n : flat'[i] = flat[i]
        /\ flat'[n + 1] = ii
    BY <1>5, <2>1, <2>4
  <2>6. flat' = [i \in 1 .. n + 1 |-> image_base + i - 1]
    <3>1. DOMAIN flat' = 1 .. n + 1
      BY <2>5
    <3>2. \A i \in 1 .. n + 1 : flat'[i] = image_base + i - 1
      BY <2>2, <2>3, <2>5
    <3>. QED
      BY <2>5, <3>1, <3>2
  <2>7. Copied'
    BY <1>1, <1>5, <1>6, <2>1, <2>2, <2>6 DEF Copied
  <2>8. Types'
    BY <1>1, <1>5, <2>1 DEF FInv, Types
  <2>. QED
    BY <1>3, <1>4, <2>7, <2>8 DEF FInv
<1>7. CASE ~(ii < image_end)
  <2>1. UNCHANGED <<ii, flat>> /\ pc' = "done"
    BY <1>7 DEF Write
  <2>2. Copied'
    BY <1>1, <1>5, <1>7, <2>1 DEF Copied
  <2>3. Types'
    BY <1>1, <2>1 DEF FInv, Types
  <2>. QED
    BY <1>3, <1>4, <2>2, <2>3 DEF FInv
<1>. QED
  BY <1>6, <1>7

\* The invariant holds throughout a run of the flattener.
LEMMA FlattenerInductive == Spec => []FInv
<1>1. FInv /\ [Next]_vars => FInv'
  <2>1. FInv /\ UNCHANGED vars => FInv'
    <3>. SUFFICES ASSUME FInv, UNCHANGED vars PROVE FInv'
      OBVIOUS
    <3>1. UNCHANGED <<shdr, sh_off, pc, ii, fheader, image_base, image_end, flat>>
      BY DEF vars, input
    <3>2. WellFormed' = WellFormed /\ Loaded' = Loaded
      BY InputKept DEF vars
    <3>. QED
      BY <3>1, <3>2 DEF FInv, Types, Copied, Gathered, Bounded, Bounds, Narrow
  <2>. QED
    BY <2>1, OpenFilesStep, CheckStep, CollectStep, ChooseBoundsStep, WriteStep DEF Next
<1>. QED
  BY <1>1, FlattenerStarts, PTL DEF Spec

-----------------------------------------------------------------------------
\* For every table: when the flattener gives up, flat.bin is empty, and when it is done
\* no byte of an earlier build is left in it (file.cc:2-4 before parser.cc:12-28).
THEOREM NoStaleImageHolds == Spec => []NoStaleImage
<1>1. FInv => NoStaleImage
  <2>. SUFFICES ASSUME FInv PROVE NoStaleImage
    OBVIOUS
  <2>1. pc = "exit" => flat = <<>>
    BY DEF FInv, Copied
  <2>2. ASSUME pc = "done", NEW i \in DOMAIN flat PROVE flat[i] # -1
    <3>1. image_base \in Nat /\ ii \in Nat
      BY DEF FInv, Types
    <3>2. flat = [k \in 1 .. ii - image_base |-> image_base + k - 1]
      BY <2>2 DEF FInv, Copied
    <3>3. i \in 1 .. ii - image_base
      BY <2>2, <3>2
    <3>4. flat[i] = image_base + i - 1
      BY <3>2, <3>3
    <3>. QED
      BY <3>1, <3>3, <3>4
  <2>. QED
    BY <2>1, <2>2 DEF NoStaleImage
<1>. QED
  BY <1>1, FlattenerInductive, PTL

\* For every well formed table, of any length and in any order: flat.bin is the run of
\* bytes from the first section to the end of the last one (parser.cc:34-61).
THEOREM WholeImageHolds == Spec => []WholeImage
<1>1. FInv => WholeImage
  <2>. SUFFICES ASSUME FInv, pc = "done", WellFormed
                PROVE  flat = LET first == Min({s.offset : s \in Loaded})
                                  end == Max({s.offset + s.size : s \in Loaded})
                              IN  [i \in 1 .. end - first |-> first + i - 1]
    BY DEF WholeImage
  <2>1. Bounds(image_base, image_end)
    BY DEF FInv, Bounded
  <2>2. image_base \in Nat /\ image_end \in Nat /\ ii \in Nat
    BY DEF FInv, Types
  <2>3. \A s \in Loaded : s.offset \in Nat /\ s.size \in Nat
    <3>. TAKE s \in Loaded
    <3>1. PICK j \in DOMAIN shdr : shdr[j] = s
      BY DEF Loaded, Range
    <3>. QED
      BY <3>1, HeaderFields DEF FInv, Types
  <2>4. image_base <= image_end
    <3>1. PICK s \in Loaded : s.offset + s.size = image_end
      BY <2>1 DEF Bounds
    <3>2. image_base <= s.offset
      BY <2>1 DEF Bounds
    <3>. QED
      BY <2>2, <2>3, <3>1, <3>2
  <2>5. ii = image_end /\ flat = [i \in 1 .. ii - image_base |-> image_base + i - 1]
    <3>1. /\ ii >= image_base /\ (ii <= image_end \/ ii = image_base) /\ ii >= image_end
          /\ flat = [i \in 1 .. ii - image_base |-> image_base + i - 1]
      BY DEF FInv, Copied
    <3>. QED
      BY <2>2, <2>4, <3>1
  <2>6. Min({s.offset : s \in Loaded}) = image_base
    <3>. DEFINE S == {s.offset : s \in Loaded}
    <3>1. S \in SUBSET Nat /\ image_base \in S /\ \A y \in S : image_base <= y
      BY <2>1, <2>3 DEF Bounds
    <3>. HIDE DEF S
    <3>2. Min(S) = image_base
      BY <3>1, MinIs
    <3>. QED
      BY <3>2 DEF S
  <2>7. Max({s.offset + s.size : s \in Loaded}) = image_end
    <3>. DEFINE S == {s.offset + s.size : s \in Loaded}
    <3>1. S \in SUBSET Nat /\ image_end \in S /\ \A y \in S : y <= image_end
      BY <2>1, <2>3 DEF Bounds
    <3>. HIDE DEF S
    <3>2. Max(S) = image_end
      BY <3>1, MaxIs
    <3>. QED
      BY <3>2 DEF S
  <2>. QED
    BY <2>5, <2>6, <2>7
<1>. QED
  BY <1>1, FlattenerInductive, PTL
=============================================================================
