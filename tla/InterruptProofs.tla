--------------------------- MODULE InterruptProofs --------------------------
(***************************************************************************)
(* For every set of vectors and every depth of nesting: each vector is led *)
(* to its handler, interrupt_handler gets the words of the interrupt it    *)
(* handles, and iretq gives back what was interrupted.                     *)
(*                                                                         *)
(* The invariant says for every instruction of a stub and of entry_vector  *)
(* what lies on the stack above the frame of the interrupt, which registers*)
(* still, or again, have the value they had when it came, and which hold   *)
(* the arguments and the result of interrupt_handler.  It holds of the     *)
(* interrupt that runs and of each one below it, with the state in which   *)
(* that one was itself interrupted in place of the current one: this is    *)
(* what a return to the middle of this code finds.                         *)
(***************************************************************************)
EXTENDS Interrupt, SequenceTheorems, TLAPS

Gates == [stub : BOOLEAN, of : Int]

IdtType == [gate : [0 .. 255 -> Gates], ii : 0 .. 256, behind : {"idt", "other"},
            reg : {NoReg, GateBytes, TableReg}, idtr : {NoReg, TableReg}]

\* The gates that are filled are right, and lidt comes after the last of them.
Idt ==
  /\ idt \in IdtType
  /\ \A v \in 0 .. 255 : v < idt.ii => idt.gate[v] = Handler(v)
  /\ idt.idtr # NoReg => idt.ii = 256

\* Where a word can come from.
Origins == Registers \cup {"pad", "ss", "rsp", "rflags", "cs", "rip", "error", "vector",
                           "return", "address", "spoilt"}

Slot == [word : Origins, value : Int]
InterruptFrame == [vector : Int, regs : [Registers -> Slot], stack : Seq(Slot), pc : Int]

\* The order in which entry_vector saves the registers.
Saved == <<"rax", "rbx", "rcx", "rdx", "rsi", "rdi", "rbp", "r15", "r14", "r13", "r12",
           "r11", "r10", "r9", "r8", "gs", "fs", "es", "ds">>

\* Whether the CPU pushes an error code for f, and the word interrupt_handler takes for it.
HasCode(f) == IF f.vector \in ErrorCode THEN 1 ELSE 0
Error(f) == Word("error", IF f.vector \in ErrorCode THEN f.vector ELSE 0)

\* The words of interrupt f above its frame: error code, vector, registers, and the
\* return address of the call.
Laid(f, i) == CASE i = 1 -> Error(f)
                [] i = 2 -> Word("vector", f.vector)
                [] i \in 3 .. 21 -> f.regs[Saved[i - 2]]
                [] i = 22 -> Word("return", 39)

\* Where the code of interrupt f can be, and how many of these words are on the stack there.
Places(f) == 11 .. 64 \cup {InterruptHandler}
               \cup StubOf(f.vector) .. StubOf(f.vector) + 3 - HasCode(f)

Depth(f, p) == CASE p \in 11 .. 25 -> p - 9
                 [] p \in {26, 27} -> 17
                 [] p \in {28, 29} -> 18
                 [] p \in {30, 31} -> 19
                 [] p \in {32, 33} -> 20
                 [] p \in 34 .. 40 -> 21
                 [] p \in {41, 42} -> 20
                 [] p \in {43, 44} -> 19
                 [] p \in {45, 46} -> 18
                 [] p = 47 -> 17
                 [] p \in 48 .. 62 -> 65 - p
                 [] p = 63 -> 2
                 [] p = 64 -> 0
                 [] p = InterruptHandler -> 22
                 [] p = StubOf(f.vector) -> HasCode(f)
                 [] p > StubOf(f.vector) -> HasCode(f) + (p - StubOf(f.vector) - 1)

\* The registers that have the value of the interrupted code before instruction p.
Intact(p) == CASE p \in 27 .. 34 -> Registers \ {"rax"}
               [] p \in 35 .. 48 -> Segments \cup CalleeSaved
               [] p = InterruptHandler -> Segments \cup CalleeSaved
               [] p \in 49 .. 62 -> Segments \cup CalleeSaved \cup {Popped[i] : i \in 1 .. p - 48}
               [] OTHER -> Registers

\* The segment register rax stands for before instruction p, if there is one.
InRax == [p \in {27, 29, 31, 33, 41, 43, 45, 47} |->
            CASE p \in {27, 47} -> "gs" [] p \in {29, 45} -> "fs"
              [] p \in {31, 43} -> "es" [] p \in {33, 41} -> "ds"]

\* Where the five words of the frame of f start.
Base(f) == Len(f.stack) + (Len(f.stack) % 2)

\* Stack s is that of f, with the frame of f and the first n of its words on top.
Lying(f, s, n) ==
  /\ Len(s) = Base(f) + 5 + n
  /\ \A i \in 1 .. Len(f.stack) : s[i] = f.stack[i]
  /\ s[Base(f) + 2] = Word("rsp", Len(f.stack))
  /\ s[Base(f) + 5] = Word("rip", f.pc)
  /\ \A i \in 1 .. n : s[Base(f) + 5 + i] = Laid(f, i)

\* Registers r before instruction p, of interrupt f: what they still or again have, ...
Kept(f, r, p) ==
  /\ \A q \in Intact(p) : r[q] = f.regs[q]
  /\ p \in DOMAIN InRax => r["rax"] = f.regs[InRax[p]]

\* ... and the arguments and the result of interrupt_handler.
Passed(f, r, p) ==
  /\ p \in {35, 36, 37, 38, InterruptHandler} => r["rdi"] = Word("vector", f.vector)
  /\ p \in {36, 37, 38, InterruptHandler} => r["rdx"] = Error(f)
  /\ p \in {37, 38, InterruptHandler} => r["rcx"] = Word("address", Base(f) + 26)
  /\ p \in {38, InterruptHandler} => r["rsi"] = Word("address", Base(f) + 5)
  /\ p = 39 => r["rax"] = Word("address", Base(f) + 26)

\* Interrupt f is at instruction p of its stub, of entry_vector or at interrupt_handler,
\* with registers r and stack s.
Inside(f, r, s, p) ==
  /\ f.vector \in 0 .. 31 /\ p \in Places(f)
  /\ Lying(f, s, Depth(f, p)) /\ Kept(f, r, p) /\ Passed(f, r, p)

\* Or it stays in a loop.
Proper(f, r, s, p) == p = Forever \/ Inside(f, r, s, p)

Machine == /\ regs \in [Registers -> Slot]
           /\ stack \in Seq(Slot)
           /\ pc \in Int
           /\ frames \in Seq(InterruptFrame)

\* Each interrupt in progress is inside its code, the lowest one came to other code.
Nested ==
  /\ \A i \in 1 .. Len(frames) - 1 :
       Proper(frames[i], frames[i + 1].regs, frames[i + 1].stack, frames[i + 1].pc)
  /\ frames # <<>> => /\ Proper(frames[Len(frames)], regs, stack, pc)
                      /\ frames[1].pc = Interrupted
  /\ frames = <<>> => pc = Interrupted

IInv == Idt /\ Machine /\ Nested

-----------------------------------------------------------------------------
\* No gate is filled yet.
LEMMA IdtStarts == Init => Idt
<1>. SUFFICES ASSUME Init PROVE Idt
  OBVIOUS
<1>1. PICK behind \in {"idt", "other"} :
        idt = [gate |-> [v \in 0 .. 255 |-> NoGate], ii |-> 0, behind |-> behind,
               reg |-> NoReg, idtr |-> NoReg]
  BY DEF Init
<1>2. NoGate \in Gates
  BY DEF NoGate, Gates
<1>3. [v \in 0 .. 255 |-> NoGate] \in [0 .. 255 -> Gates]
  BY <1>2
<1>4. idt.ii = 0 /\ idt.idtr = NoReg
  BY <1>1
<1>5. idt \in IdtType
  BY <1>1, <1>3 DEF IdtType
<1>. QED
  BY <1>4, <1>5 DEF Idt

\* What init stores for a vector: its own stub below 32, the common one above.
LEMMA HandlerIs ==
  ASSUME NEW v \in 0 .. 255
  PROVE  /\ Handler(v) \in Gates
         /\ Handler(v).stub = (v < 32) /\ (v < 32 => Handler(v).of = v)
<1>1. CASE v < 32
  <2>1. (v < 32) = TRUE
    BY <1>1
  <2>2. Handler(v) = [stub |-> TRUE, of |-> v]
    BY <1>1, <2>1, Zenon DEF Handler
  <2>3. [stub |-> TRUE, of |-> v] \in Gates
    BY DEF Gates
  <2>4. [stub |-> TRUE, of |-> v].stub = TRUE /\ [stub |-> TRUE, of |-> v].of = v
    BY Zenon
  <2>. QED
    BY <2>1, <2>2, <2>3, <2>4, Zenon
<1>2. CASE ~(v < 32)
  <2>1. (v < 32) = FALSE
    BY <1>2
  <2>2. Handler(v) = [stub |-> FALSE, of |-> 0]
    BY <1>2, <2>1, Zenon DEF Handler
  <2>3. [stub |-> FALSE, of |-> 0] \in Gates
    BY DEF Gates
  <2>4. [stub |-> FALSE, of |-> 0].stub = FALSE
    BY Zenon
  <2>. QED
    BY <1>2, <2>1, <2>2, <2>3, <2>4, Zenon
<1>. QED
  BY <1>1, <1>2

\* A gate holds what the loop it is filled by puts there.
LEMMA SetGateIdt == Idt /\ SetGate => Idt'
<1>. SUFFICES ASSUME Idt, SetGate PROVE Idt'
  OBVIOUS
<1>1. idt.ii \in 0 .. 255 /\ idt.gate \in [0 .. 255 -> Gates] /\ idt.behind \in {"idt", "other"}
      /\ idt.reg \in {NoReg, GateBytes, TableReg} /\ idt.idtr = NoReg
  <2>1. /\ idt.ii \in 0 .. 256 /\ idt.gate \in [0 .. 255 -> Gates]
        /\ idt.behind \in {"idt", "other"} /\ idt.reg \in {NoReg, GateBytes, TableReg}
    BY DEF Idt, IdtType
  <2>2. idt.ii < 256
    BY DEF SetGate
  <2>3. idt.idtr = NoReg
    BY <2>1, <2>2 DEF Idt
  <2>4. idt.ii \in 0 .. 255
    BY <2>1, <2>2
  <2>. QED
    BY <2>1, <2>3, <2>4, Zenon
<1>2. Handler(idt.ii) \in Gates
  BY <1>1, HandlerIs, Zenon
<1>3. After(idt.ii) = idt.ii + 1
  BY <1>1 DEF After
<1>4. PICK reg \in {NoReg, GateBytes, TableReg} :
        idt' = [idt EXCEPT !.gate = [idt.gate EXCEPT ![idt.ii] = Handler(idt.ii)],
                           !.ii = idt.ii + 1, !.reg = reg]
  BY <1>1, <1>3 DEF SetGate, Idt
<1>5. /\ idt'.ii = idt.ii + 1 /\ idt'.idtr = NoReg
      /\ idt'.gate = [idt.gate EXCEPT ![idt.ii] = Handler(idt.ii)]
  BY <1>1, <1>4, SMTT(30) DEF Idt, IdtType
<1>6. idt' \in IdtType
  <2>1. [idt.gate EXCEPT ![idt.ii] = Handler(idt.ii)] \in [0 .. 255 -> Gates]
    BY <1>1, <1>2
  <2>2. idt.ii + 1 \in 0 .. 256
    BY <1>1
  <2>3. /\ idt'.behind = idt.behind /\ idt'.reg \in {NoReg, GateBytes, TableReg}
        /\ idt' = [gate |-> idt'.gate, ii |-> idt'.ii, behind |-> idt'.behind,
                   reg |-> idt'.reg, idtr |-> idt'.idtr]
    BY <1>4 DEF Idt, IdtType
  <2>4. /\ idt'.gate \in [0 .. 255 -> Gates] /\ idt'.ii \in 0 .. 256
        /\ idt'.behind \in {"idt", "other"} /\ idt'.idtr \in {NoReg, TableReg}
    BY <1>1, <1>5, <2>1, <2>2, <2>3
  <2>5. [gate |-> idt'.gate, ii |-> idt'.ii, behind |-> idt'.behind,
         reg |-> idt'.reg, idtr |-> idt'.idtr] \in IdtType
    BY <2>3, <2>4, Zenon DEF IdtType
  <2>. QED
    BY <2>3, <2>5, Zenon
<1>7. ASSUME NEW v \in 0 .. 255, v < idt'.ii PROVE idt'.gate[v] = Handler(v)
  <2>1. v < idt.ii \/ v = idt.ii
    <3>1. idt.ii \in Int /\ idt'.ii = idt.ii + 1
      BY <1>1, <1>5
    <3>. QED
      BY <1>7, <3>1
  <2>2. v < idt.ii => idt.gate[v] = Handler(v)
    BY DEF Idt
  <2>. QED
    BY <1>1, <1>5, <2>1, <2>2
<1>. QED
  BY <1>5, <1>6, <1>7 DEF Idt

\* lidt loads the register that was just filled.
LEMMA LidtIdt == Idt /\ Lidt => Idt'
<1>. SUFFICES ASSUME Idt, Lidt PROVE Idt'
  OBVIOUS
<1>1. idt' = [idt EXCEPT !.reg = TableReg, !.idtr = TableReg] /\ idt.ii = 256
  BY DEF Lidt
<1>2. /\ idt'.gate = idt.gate /\ idt'.ii = 256
      /\ idt' = [gate |-> idt.gate, ii |-> 256, behind |-> idt.behind,
                 reg |-> TableReg, idtr |-> TableReg]
  BY <1>1 DEF Idt, IdtType
<1>3. idt.gate \in [0 .. 255 -> Gates] /\ idt.behind \in {"idt", "other"} /\ 256 \in 0 .. 256
  BY DEF Idt, IdtType
<1>4. idt' \in IdtType
  <2>1. TableReg \in {NoReg, GateBytes, TableReg} /\ TableReg \in {NoReg, TableReg}
    OBVIOUS
  <2>2. [gate |-> idt.gate, ii |-> 256, behind |-> idt.behind,
         reg |-> TableReg, idtr |-> TableReg] \in IdtType
    BY <1>3, <2>1, Zenon DEF IdtType
  <2>. QED
    BY <1>2, <2>2, Zenon
<1>. QED
  BY <1>1, <1>2, <1>4 DEF Idt

\* What follows load_idt leaves the table alone.
LEMMA IdtStep == Idt /\ [Next]_vars => Idt'
<1>1. Idt /\ UNCHANGED idt => Idt'
  BY DEF Idt
<1>2. [Next]_vars => SetGate \/ Lidt \/ UNCHANGED idt
  BY DEF Next, LoadIdt, Raise, Cli, PushWord, Jump, SaveGeneral, SaveSegment, LoadArguments,
         Call, Handle, ReloadRsp, RestoreSegment, RestoreGeneral, DropWords, Return,
         Stacks, Loads, Pops, vars
<1>. QED
  BY <1>1, <1>2, SetGateIdt, LidtIdt

\* A loaded table reaches from vector 0 to vector 254.
LEMMA TableLoaded ==
  ASSUME Idt, idt.idtr # NoReg
  PROVE  /\ idt.idtr = TableReg
         /\ \A v \in 0 .. 254 : Delivered(v) = v /\ idt.gate[v] = Handler(v)
<1>1. idt.idtr = TableReg /\ idt.ii = 256
  BY DEF Idt, IdtType
<1>2. idt.idtr.limit = 4079
  BY <1>1 DEF TableReg, TableSize
<1>3. ASSUME NEW v \in 0 .. 254 PROVE Delivered(v) = v /\ idt.gate[v] = Handler(v)
  <2>1. v \in 0 .. 255 /\ v < 256
    OBVIOUS
  <2>2. idt.gate[v] = Handler(v)
    BY <1>1, <2>1 DEF Idt
  <2>3. v * 16 + 15 <= 4079
    OBVIOUS
  <2>. QED
    BY <1>2, <2>2, <2>3 DEF Delivered
<1>. QED
  BY <1>1, <1>3

\* For every set of vectors: the table lidt loads leads each vector below 255 to its own
\* handler, whether or not the last gate was stored over the operand of lidt
\* (interrupt.cc:87-101).
THEOREM EveryVectorHandledHolds == Spec => []EveryVectorHandled
<1>1. Idt => EveryVectorHandled
  <2>. SUFFICES ASSUME Idt, idt.idtr # NoReg
                PROVE  /\ idt.idtr = TableReg
                       /\ \A v \in 0 .. 254 :
                            Delivered(v) = v /\ idt.gate[v].stub = (v < 32)
                            /\ (v < 32 => idt.gate[v].of = v)
    BY DEF EveryVectorHandled
  <2>1. ASSUME NEW v \in 0 .. 254
        PROVE  idt.gate[v].stub = (v < 32) /\ (v < 32 => idt.gate[v].of = v)
    <3>1. idt.gate[v] = Handler(v)
      BY TableLoaded
    <3>2. v \in 0 .. 255
      OBVIOUS
    <3>. QED
      BY <3>1, <3>2, HandlerIs, Zenon
  <2>. QED
    BY <2>1, TableLoaded
<1>. QED
  BY <1>1, IdtStarts, IdtStep, PTL DEF Spec

-----------------------------------------------------------------------------
\* The elements of a sequence are in its set.
LEMMA Element ==
  ASSUME NEW S, NEW s \in Seq(S), NEW i \in 1 .. Len(s)
  PROVE  s[i] \in S
OBVIOUS

\* The elements of a sequence put together from two.
LEMMA Joined ==
  ASSUME NEW S, NEW s \in Seq(S), NEW t \in Seq(S)
  PROVE  /\ s \o t \in Seq(S) /\ Len(s \o t) = Len(s) + Len(t)
         /\ \A i \in 1 .. Len(s) : (s \o t)[i] = s[i]
         /\ \A i \in Len(s) + 1 .. Len(s) + Len(t) : (s \o t)[i] = t[i - Len(s)]
OBVIOUS

\* An element is added behind the others.
LEMMA Appended ==
  ASSUME NEW S, NEW s \in Seq(S), NEW x \in S
  PROVE  /\ Append(s, x) \in Seq(S) /\ Len(Append(s, x)) = Len(s) + 1
         /\ \A i \in 1 .. Len(s) : Append(s, x)[i] = s[i]
         /\ Append(s, x)[Len(s) + 1] = x
OBVIOUS

\* The frame of an interrupt starts behind the stack it found.
LEMMA BaseIs ==
  ASSUME NEW f \in InterruptFrame
  PROVE  /\ f.stack \in Seq(Slot) /\ Len(f.stack) \in Nat /\ Base(f) \in Nat
         /\ Len(f.stack) <= Base(f) /\ f.regs \in [Registers -> Slot]
<1>1. f.stack \in Seq(Slot) /\ f.regs \in [Registers -> Slot]
  BY DEF InterruptFrame
<1>2. Len(f.stack) \in Nat
  BY <1>1
<1>. DEFINE k == Len(f.stack)
<1>. HIDE DEF k
<1>3. k \in Nat => k + (k % 2) \in Nat /\ k <= k + (k % 2)
  OBVIOUS
<1>. QED
  BY <1>1, <1>2, <1>3 DEF Base, k

\* The tables of the order of registers.
LEMMA Orders ==
  /\ \A i \in 1 .. 19 : Saved[i] \in Registers
  /\ \A i \in 1 .. 15 : Saved[i] = General[i] /\ Popped[i] = Saved[16 - i]
                        /\ General[i] \in Registers /\ Popped[i] \in Registers
  /\ \A i \in 1 .. 4 : Saved[15 + i] = SavedSegments[i] /\ Saved[20 - i] = PoppedSegments[i]
  /\ Saved[16] = "gs" /\ Saved[17] = "fs" /\ Saved[18] = "es" /\ Saved[19] = "ds"
<1>1. \A i \in 1 .. 19 : Saved[i] \in Registers
  BY DEF Saved, Registers, Segments, CalleeSaved, CallerSaved
<1>2. \A i \in 1 .. 15 : Saved[i] = General[i]
  BY DEF Saved, General
<1>3. \A i \in 1 .. 15 : Popped[i] = Saved[16 - i]
  BY DEF Saved, Popped
<1>4. \A i \in 1 .. 4 : Saved[15 + i] = SavedSegments[i] /\ Saved[20 - i] = PoppedSegments[i]
  BY DEF Saved, SavedSegments, PoppedSegments
<1>5. Saved[16] = "gs" /\ Saved[17] = "fs" /\ Saved[18] = "es" /\ Saved[19] = "ds"
  BY DEF Saved
<1>6. \A i \in 1 .. 15 : i \in 1 .. 19 /\ 16 - i \in 1 .. 19
  OBVIOUS
<1>. QED
  BY <1>1, <1>2, <1>3, <1>4, <1>5, <1>6

\* A word tells where it comes from, with a number.
LEMMA WordIs ==
  ASSUME NEW n \in Int
  PROVE  /\ Word("vector", n) \in Slot /\ Word("error", n) \in Slot /\ Word("rsp", n) \in Slot
         /\ Word("rip", n) \in Slot /\ Word("pad", n) \in Slot /\ Word("ss", n) \in Slot
         /\ Word("rflags", n) \in Slot /\ Word("cs", n) \in Slot
         /\ Word("return", n) \in Slot /\ Word("address", n) \in Slot
         /\ Word("spoilt", n) \in Slot
<1>1. ASSUME NEW w \in Origins PROVE Word(w, n) \in Slot
  BY DEF Word, Slot
<1>. QED
  BY <1>1 DEF Origins

\* The words above a frame, one by one.
LEMMA LaidIs ==
  ASSUME NEW f
  PROVE  /\ Laid(f, 1) = Error(f) /\ Laid(f, 2) = Word("vector", f.vector)
         /\ \A i \in 3 .. 21 : Laid(f, i) = f.regs[Saved[i - 2]]
         /\ Laid(f, 22) = Word("return", 39)
<1>1. Laid(f, 1) = Error(f) /\ Laid(f, 2) = Word("vector", f.vector)
  BY DEF Laid
<1>2. \A i \in 3 .. 21 : Laid(f, i) = f.regs[Saved[i - 2]]
  BY DEF Laid
<1>3. Laid(f, 22) = Word("return", 39)
  BY DEF Laid
<1>. QED
  BY <1>1, <1>2, <1>3

\* They are words.
LEMMA LaidWords ==
  ASSUME NEW f \in InterruptFrame, NEW i \in 1 .. 22
  PROVE  Laid(f, i) \in Slot
<1>1. f.vector \in Int /\ f.regs \in [Registers -> Slot]
  BY DEF InterruptFrame
<1>2. CASE i = 1
  <2>1. Error(f) \in Slot
    <3>. DEFINE n == IF f.vector \in ErrorCode THEN f.vector ELSE 0
    <3>1. n \in Int
      BY <1>1
    <3>. HIDE DEF n
    <3>2. Word("error", n) \in Slot
      BY <3>1, WordIs
    <3>. QED
      BY <3>2 DEF Error, n
  <2>. QED
    BY <1>2, <2>1, LaidIs
<1>3. CASE i = 2
  <2>1. Word("vector", f.vector) \in Slot
    BY <1>1, WordIs
  <2>. QED
    BY <1>3, <2>1, LaidIs
<1>4. CASE i \in 3 .. 21
  <2>1. i - 2 \in 1 .. 19
    BY <1>4
  <2>2. Saved[i - 2] \in Registers
    BY <2>1, Orders
  <2>. QED
    BY <1>1, <1>4, <2>2, LaidIs
<1>5. CASE i = 22
  <2>1. Word("return", 39) \in Slot
    BY WordIs
  <2>. QED
    BY <1>5, <2>1, LaidIs
<1>. QED
  BY <1>2, <1>3, <1>4, <1>5

\* The next word is pushed.
LEMMA PushLies ==
  ASSUME NEW f \in InterruptFrame, NEW s \in Seq(Slot), NEW n \in 0 .. 21, Lying(f, s, n)
  PROVE  /\ Append(s, Laid(f, n + 1)) \in Seq(Slot)
         /\ Lying(f, Append(s, Laid(f, n + 1)), n + 1)
<1>. DEFINE w == Laid(f, n + 1)
            t == Append(s, w)
            b == Base(f)
            k == Len(f.stack)
<1>1. b \in Nat /\ k \in Nat /\ k <= b /\ Len(s) = b + 5 + n /\ n \in Nat
  BY BaseIs DEF Lying
<1>2. w \in Slot
  <2>1. n + 1 \in 1 .. 22
    OBVIOUS
  <2>. QED
    BY <2>1, LaidWords
<1>3. /\ t \in Seq(Slot) /\ Len(t) = Len(s) + 1 /\ t[Len(s) + 1] = w
      /\ \A i \in 1 .. Len(s) : t[i] = s[i]
  BY <1>2, Appended
<1>4. /\ \A i \in 1 .. k : s[i] = f.stack[i]
      /\ s[b + 2] = Word("rsp", k) /\ s[b + 5] = Word("rip", f.pc)
      /\ \A i \in 1 .. n : s[b + 5 + i] = Laid(f, i)
  BY DEF Lying
<1>. HIDE DEF b, k, t, w
<1>5. Len(t) = b + 5 + (n + 1) /\ t[b + 5 + (n + 1)] = w
      /\ \A i \in 1 .. b + 5 + n : t[i] = s[i]
  BY <1>1, <1>3
<1>6. \A i \in 1 .. k : t[i] = f.stack[i]
  BY <1>1, <1>4, <1>5
<1>7. t[b + 2] = Word("rsp", k) /\ t[b + 5] = Word("rip", f.pc)
  BY <1>1, <1>4, <1>5
<1>8. \A i \in 1 .. n + 1 : t[b + 5 + i] = Laid(f, i)
  <2>. TAKE i \in 1 .. n + 1
  <2>1. CASE i = n + 1
    BY <1>5, <2>1 DEF w
  <2>2. CASE i \in 1 .. n
    <3>1. b + 5 + i \in 1 .. b + 5 + n
      BY <1>1, <2>2
    <3>. QED
      BY <1>4, <1>5, <2>2, <3>1
  <2>. QED
    BY <1>1, <2>1, <2>2
<1>. QED
  BY <1>3, <1>5, <1>6, <1>7, <1>8 DEF Lying, b, k, t, w

\* A prefix of a sequence.
LEMMA Shorter ==
  ASSUME NEW S, NEW s \in Seq(S), NEW m \in 0 .. Len(s)
  PROVE  /\ SubSeq(s, 1, m) \in Seq(S) /\ Len(SubSeq(s, 1, m)) = m
         /\ \A i \in 1 .. m : SubSeq(s, 1, m)[i] = s[i]
<1>1. m \in Nat /\ m <= Len(s)
  OBVIOUS
<1>. QED
  BY <1>1

\* Words are dropped, or none is.
LEMMA DropLies ==
  ASSUME NEW f \in InterruptFrame, NEW s \in Seq(Slot), NEW n \in 0 .. 22, Lying(f, s, n),
         NEW m \in 0 .. n
  PROVE  /\ SubSeq(s, 1, Base(f) + 5 + m) \in Seq(Slot)
         /\ Lying(f, SubSeq(s, 1, Base(f) + 5 + m), m)
<1>. DEFINE b == Base(f)
            k == Len(f.stack)
            t == SubSeq(s, 1, b + 5 + m)
<1>1. b \in Nat /\ k \in Nat /\ k <= b /\ Len(s) = b + 5 + n /\ n \in Nat /\ m \in Nat /\ m <= n
  BY BaseIs DEF Lying
<1>2. b + 5 + m \in 0 .. Len(s)
  BY <1>1
<1>3. /\ t \in Seq(Slot) /\ Len(t) = b + 5 + m
      /\ \A i \in 1 .. b + 5 + m : t[i] = s[i]
  BY <1>2, Shorter
<1>4. /\ \A i \in 1 .. k : s[i] = f.stack[i]
      /\ s[b + 2] = Word("rsp", k) /\ s[b + 5] = Word("rip", f.pc)
      /\ \A i \in 1 .. n : s[b + 5 + i] = Laid(f, i)
  BY DEF Lying
<1>. HIDE DEF b, k, t
<1>5. \A i \in 1 .. k : t[i] = f.stack[i]
  BY <1>1, <1>3, <1>4
<1>6. t[b + 2] = Word("rsp", k) /\ t[b + 5] = Word("rip", f.pc)
  BY <1>1, <1>3, <1>4
<1>7. \A i \in 1 .. m : t[b + 5 + i] = Laid(f, i)
  <2>. TAKE i \in 1 .. m
  <2>1. b + 5 + i \in 1 .. b + 5 + m /\ i \in 1 .. n
    BY <1>1
  <2>. QED
    BY <1>3, <1>4, <2>1
<1>. QED
  BY <1>3, <1>5, <1>6, <1>7 DEF Lying, b, k, t

\* What [rsp + 8 * j] is.
LEMMA TopIs ==
  ASSUME NEW f \in InterruptFrame, Lying(f, stack, 21), NEW j \in {19, 20}
  PROVE  Top(j) = Laid(f, 21 - j)
<1>. DEFINE b == Base(f)
<1>1. b \in Nat /\ Len(stack) = b + 5 + 21
  BY BaseIs DEF Lying
<1>2. \A i \in 1 .. 21 : stack[b + 5 + i] = Laid(f, i)
  BY DEF Lying
<1>. HIDE DEF b
<1>3. Len(stack) - j = b + 5 + (21 - j) /\ 21 - j \in 1 .. 21
  BY <1>1
<1>. QED
  BY <1>2, <1>3 DEF Top

\* The word on top of the stack.
LEMMA LastIs ==
  ASSUME NEW f \in InterruptFrame, NEW n \in 1 .. 22, Lying(f, stack, n)
  PROVE  Top(0) = Laid(f, n) /\ Len(stack) = Base(f) + 5 + n /\ Base(f) \in Nat
<1>. DEFINE b == Base(f)
<1>1. b \in Nat /\ Len(stack) = b + 5 + n
  BY BaseIs DEF Lying
<1>2. \A i \in 1 .. n : stack[b + 5 + i] = Laid(f, i)
  BY DEF Lying
<1>. HIDE DEF b
<1>3. Len(stack) - 0 = b + 5 + n /\ n \in 1 .. n
  BY <1>1
<1>. QED
  BY <1>1, <1>2, <1>3 DEF Top, b

-----------------------------------------------------------------------------
\* The state of the interrupt that runs.
LEMMA Running ==
  ASSUME IInv, pc > 0
  PROVE  /\ frames # <<>> /\ Len(frames) \in Nat \ {0} /\ frames[Len(frames)] \in InterruptFrame
         /\ Inside(frames[Len(frames)], regs, stack, pc)
         /\ regs \in [Registers -> Slot] /\ stack \in Seq(Slot) /\ frames \in Seq(InterruptFrame)
<1>1. pc \in Int /\ frames \in Seq(InterruptFrame)
      /\ regs \in [Registers -> Slot] /\ stack \in Seq(Slot)
  BY DEF IInv, Machine
<1>2. pc # Forever /\ pc # Interrupted
  BY <1>1 DEF Forever, Interrupted
<1>3. frames # <<>>
  BY <1>2 DEF IInv, Nested
<1>4. Len(frames) \in Nat \ {0} /\ frames[Len(frames)] \in InterruptFrame
  BY <1>1, <1>3
<1>5. Inside(frames[Len(frames)], regs, stack, pc)
  BY <1>2, <1>3 DEF IInv, Nested, Proper
<1>. QED
  BY <1>1, <1>3, <1>4, <1>5

\* A step keeps the invariant if it keeps what it says of the interrupt that runs.
LEMMA InsideStep ==
  ASSUME IInv, pc > 0, UNCHANGED <<idt, frames>>, pc' \in Int,
         regs' \in [Registers -> Slot], stack' \in Seq(Slot),
         Proper(frames[Len(frames)], regs', stack', pc')
  PROVE  IInv'
<1>1. Idt' /\ Machine'
  BY DEF IInv, Idt, Machine
<1>2. frames # <<>>
  BY Running
<1>3. frames' = frames
  OBVIOUS
<1>4. /\ \A i \in 1 .. Len(frames) - 1 :
           Proper(frames[i], frames[i + 1].regs, frames[i + 1].stack, frames[i + 1].pc)
      /\ frames[1].pc = Interrupted
  BY <1>2 DEF IInv, Nested
<1>5. Nested'
  BY <1>2, <1>3, <1>4 DEF Nested, Proper, Inside
<1>. QED
  BY <1>1, <1>5 DEF IInv

\* A push, of the word that comes next.
LEMMA PushStep ==
  ASSUME IInv, pc > 0, NEW w, Stacks(pc, Append(stack, w)),
         NEW f, f = frames[Len(frames)],
         Depth(f, pc) \in 0 .. 21, Depth(f, pc + 1) = Depth(f, pc) + 1,
         w = Laid(f, Depth(f, pc) + 1), pc + 1 \in Places(f),
         Kept(f, regs, pc + 1), Passed(f, regs, pc + 1)
  PROVE  IInv'
<1>1. /\ f \in InterruptFrame /\ Inside(f, regs, stack, pc)
      /\ regs \in [Registers -> Slot] /\ stack \in Seq(Slot)
  BY Running
<1>2. /\ stack' = Append(stack, w) /\ pc' = pc + 1 /\ regs' = regs
      /\ UNCHANGED <<idt, frames>>
  BY DEF Stacks
<1>3. Lying(f, stack, Depth(f, pc)) /\ f.vector \in 0 .. 31
  BY <1>1 DEF Inside
<1>4. stack' \in Seq(Slot) /\ Lying(f, stack', Depth(f, pc) + 1)
  BY <1>1, <1>2, <1>3, PushLies
<1>5. Inside(f, regs', stack', pc')
  BY <1>2, <1>3, <1>4 DEF Inside
<1>6. pc' \in Int
  BY <1>2 DEF IInv, Machine
<1>. QED
  BY <1>1, <1>2, <1>4, <1>5, <1>6, InsideStep DEF Proper

\* A load.
LEMMA LoadStep ==
  ASSUME IInv, pc > 0, NEW r \in Registers, NEW w \in Slot, Loads(pc, r, w),
         NEW f, f = frames[Len(frames)],
         Depth(f, pc + 1) = Depth(f, pc), pc + 1 \in Places(f),
         Kept(f, [regs EXCEPT ![r] = w], pc + 1), Passed(f, [regs EXCEPT ![r] = w], pc + 1)
  PROVE  IInv'
<1>1. /\ f \in InterruptFrame /\ Inside(f, regs, stack, pc)
      /\ regs \in [Registers -> Slot] /\ stack \in Seq(Slot)
  BY Running
<1>2. /\ stack' = stack /\ pc' = pc + 1 /\ regs' = [regs EXCEPT ![r] = w]
      /\ UNCHANGED <<idt, frames>>
  BY DEF Loads
<1>3. Lying(f, stack, Depth(f, pc)) /\ f.vector \in 0 .. 31
  BY <1>1 DEF Inside
<1>4. regs' \in [Registers -> Slot]
  BY <1>1, <1>2
<1>5. Inside(f, regs', stack', pc')
  BY <1>2, <1>3 DEF Inside
<1>6. pc' \in Int
  BY <1>2 DEF IInv, Machine
<1>. QED
  BY <1>1, <1>2, <1>4, <1>5, <1>6, InsideStep DEF Proper

\* A pop.
LEMMA PopStep ==
  ASSUME IInv, pc > 0, NEW r \in Registers, Pops(pc, r),
         NEW f, f = frames[Len(frames)],
         Depth(f, pc) \in 1 .. 22, Depth(f, pc + 1) = Depth(f, pc) - 1, pc + 1 \in Places(f),
         LET q == [regs EXCEPT ![r] = Laid(f, Depth(f, pc))]
         IN  Kept(f, q, pc + 1) /\ Passed(f, q, pc + 1)
  PROVE  IInv'
<1>. DEFINE n == Depth(f, pc)
<1>1. /\ f \in InterruptFrame /\ Inside(f, regs, stack, pc)
      /\ regs \in [Registers -> Slot] /\ stack \in Seq(Slot)
  BY Running
<1>2. Lying(f, stack, n) /\ f.vector \in 0 .. 31
  BY <1>1 DEF Inside
<1>0. n \in 1 .. 22
  OBVIOUS
<1>3. Top(0) = Laid(f, n) /\ Len(stack) = Base(f) + 5 + n /\ Base(f) \in Nat
  BY <1>0, <1>1, <1>2, LastIs
<1>4. /\ stack' = SubSeq(stack, 1, Len(stack) - 1) /\ pc' = pc + 1
      /\ regs' = [regs EXCEPT ![r] = Laid(f, n)]
      /\ UNCHANGED <<idt, frames>>
  BY <1>3 DEF Pops
<1>. HIDE DEF n
<1>5. Len(stack) - 1 = Base(f) + 5 + (n - 1) /\ n - 1 \in 0 .. n /\ n \in 0 .. 22
  <2>1. n - 1 \in 0 .. n /\ n \in 0 .. 22 /\ n \in Int
    BY <1>0
  <2>2. Len(stack) - 1 = Base(f) + 5 + (n - 1)
    BY <1>3, <2>1
  <2>. QED
    BY <2>1, <2>2
<1>6. stack' \in Seq(Slot) /\ Lying(f, stack', n - 1)
  BY <1>1, <1>2, <1>4, <1>5, DropLies
<1>7. regs' \in [Registers -> Slot]
  <2>1. Laid(f, n) \in Slot
    BY <1>0, <1>1, LaidWords
  <2>. QED
    BY <1>1, <1>4, <2>1
<1>8. Inside(f, regs', stack', pc')
  BY <1>2, <1>4, <1>6 DEF Inside, n
<1>9. pc' \in Int
  BY <1>4 DEF IInv, Machine
<1>. QED
  BY <1>1, <1>4, <1>6, <1>7, <1>8, <1>9, InsideStep DEF Proper

-----------------------------------------------------------------------------
\* How many words each instruction finds.
LEMMA Depths ==
  ASSUME NEW f, f.vector \in 0 .. 31
  PROVE  /\ \A p \in 11 .. 25 : Depth(f, p) = p - 9
         /\ Depth(f, 26) = 17
         /\ \A i \in 1 .. 4 : Depth(f, 24 + 2 * i) = 16 + i /\ Depth(f, 25 + 2 * i) = 16 + i
         /\ \A p \in 34 .. 40 : Depth(f, p) = 21
         /\ \A i \in 1 .. 4 : Depth(f, 39 + 2 * i) = 21 - i /\ Depth(f, 38 + 2 * i) = 22 - i
         /\ \A p \in 48 .. 62 : Depth(f, p) = 65 - p
         /\ Depth(f, 63) = 2 /\ Depth(f, 64) = 0 /\ Depth(f, InterruptHandler) = 22
         /\ Depth(f, StubOf(f.vector)) = HasCode(f)
         /\ \A i \in 1 .. 3 : Depth(f, StubOf(f.vector) + i) = HasCode(f) + i - 1
<1>1. \A p \in 11 .. 25 : Depth(f, p) = p - 9
  BY DEF Depth, InterruptHandler, StubOf
<1>2. /\ Depth(f, 26) = 17 /\ Depth(f, 27) = 17 /\ Depth(f, 28) = 18 /\ Depth(f, 29) = 18
      /\ Depth(f, 30) = 19 /\ Depth(f, 31) = 19 /\ Depth(f, 32) = 20 /\ Depth(f, 33) = 20
  BY DEF Depth, InterruptHandler, StubOf
<1>3. \A p \in 34 .. 40 : Depth(f, p) = 21
  BY DEF Depth, InterruptHandler, StubOf
<1>4. /\ Depth(f, 41) = 20 /\ Depth(f, 42) = 20 /\ Depth(f, 43) = 19 /\ Depth(f, 44) = 19
      /\ Depth(f, 45) = 18 /\ Depth(f, 46) = 18 /\ Depth(f, 47) = 17
  BY DEF Depth, InterruptHandler, StubOf
<1>5. \A p \in 48 .. 62 : Depth(f, p) = 65 - p
  BY DEF Depth, InterruptHandler, StubOf
<1>6. Depth(f, 63) = 2 /\ Depth(f, 64) = 0 /\ Depth(f, InterruptHandler) = 22
  BY DEF Depth, InterruptHandler, StubOf
<1>. DEFINE u == StubOf(f.vector)
<1>7. u \in Int /\ u >= 100
  BY DEF StubOf
<1>8. Depth(f, u) = HasCode(f)
  BY <1>7 DEF Depth, InterruptHandler
<1>9. \A i \in 1 .. 3 : Depth(f, u + i) = HasCode(f) + i - 1
  <2>. TAKE i \in 1 .. 3
  <2>. HIDE DEF u
  <2>1. u + i > u /\ u + i > 100 /\ u + i \in Int /\ u + i # u
    BY <1>7
  <2>2. Depth(f, u + i) = HasCode(f) + ((u + i) - u - 1)
    BY <2>1 DEF Depth, InterruptHandler, u
  <2>3. HasCode(f) \in Int /\ (u + i) - u - 1 = i - 1
    BY <1>7 DEF HasCode
  <2>. QED
    BY <2>2, <2>3
<1>10. \A i \in 1 .. 4 : Depth(f, 24 + 2 * i) = 16 + i /\ Depth(f, 25 + 2 * i) = 16 + i
  <2>. TAKE i \in 1 .. 4
  <2>1. i \in {1, 2, 3, 4}
    OBVIOUS
  <2>. QED
    BY <1>2, <2>1
<1>11. \A i \in 1 .. 4 : Depth(f, 39 + 2 * i) = 21 - i /\ Depth(f, 38 + 2 * i) = 22 - i
  <2>. TAKE i \in 1 .. 4
  <2>1. i \in {1, 2, 3, 4}
    OBVIOUS
  <2>. QED
    BY <1>3, <1>4, <2>1
<1>. QED
  BY <1>1, <1>2, <1>3, <1>5, <1>6, <1>8, <1>9, <1>10, <1>11

\* What rax stands for while the segment registers go through it.
LEMMA Shuttle ==
  /\ \A i \in 1 .. 4 : /\ 25 + 2 * i \in DOMAIN InRax /\ 39 + 2 * i \in DOMAIN InRax
                       /\ InRax[25 + 2 * i] = SavedSegments[i]
                       /\ InRax[39 + 2 * i] = PoppedSegments[i]
                       /\ SavedSegments[i] \in Segments /\ PoppedSegments[i] \in Segments
                       /\ SavedSegments[i] = Saved[15 + i] /\ PoppedSegments[i] = Saved[20 - i]
  /\ DOMAIN InRax = {27, 29, 31, 33, 41, 43, 45, 47}
<1>1. DOMAIN InRax = {27, 29, 31, 33, 41, 43, 45, 47}
  BY DEF InRax
<1>2. /\ InRax[27] = "gs" /\ InRax[29] = "fs" /\ InRax[31] = "es" /\ InRax[33] = "ds"
      /\ InRax[41] = "ds" /\ InRax[43] = "es" /\ InRax[45] = "fs" /\ InRax[47] = "gs"
  BY DEF InRax
<1>3. /\ SavedSegments[1] = "gs" /\ SavedSegments[2] = "fs"
      /\ SavedSegments[3] = "es" /\ SavedSegments[4] = "ds"
      /\ PoppedSegments[1] = "ds" /\ PoppedSegments[2] = "es"
      /\ PoppedSegments[3] = "fs" /\ PoppedSegments[4] = "gs"
  BY DEF SavedSegments, PoppedSegments
<1>4. {"gs", "fs", "es", "ds"} \subseteq Segments
  BY DEF Segments
<1>5. ASSUME NEW i \in 1 .. 4
      PROVE  /\ 25 + 2 * i \in DOMAIN InRax /\ 39 + 2 * i \in DOMAIN InRax
             /\ InRax[25 + 2 * i] = SavedSegments[i] /\ InRax[39 + 2 * i] = PoppedSegments[i]
             /\ SavedSegments[i] \in Segments /\ PoppedSegments[i] \in Segments
  <2>1. i \in {1, 2, 3, 4}
    OBVIOUS
  <2>. QED
    BY <1>1, <1>2, <1>3, <1>4, <2>1
<1>6. \A i \in 1 .. 4 : SavedSegments[i] = Saved[15 + i] /\ PoppedSegments[i] = Saved[20 - i]
  BY Orders
<1>. QED
  BY <1>1, <1>5, <1>6

\* Which registers are intact where.
LEMMA Intacts ==
  /\ \A p \in 11 .. 26 : Intact(p) = Registers
  /\ \A p \in 27 .. 34 : Intact(p) = Registers \ {"rax"}
  /\ \A p \in 35 .. 48 : Intact(p) = Segments \cup CalleeSaved
  /\ Intact(InterruptHandler) = Segments \cup CalleeSaved
  /\ \A p \in 49 .. 62 : Intact(p) = Segments \cup CalleeSaved \cup {Popped[i] : i \in 1 .. p - 48}
  /\ \A p \in 63 .. 64 : Intact(p) = Registers
  /\ \A p \in Int : p >= 100 => Intact(p) = Registers
<1>1. \A p \in 11 .. 26 : Intact(p) = Registers
  BY DEF Intact, InterruptHandler
<1>2. \A p \in 27 .. 34 : Intact(p) = Registers \ {"rax"}
  BY DEF Intact, InterruptHandler
<1>3. \A p \in 35 .. 48 : Intact(p) = Segments \cup CalleeSaved
  BY DEF Intact, InterruptHandler
<1>4. Intact(InterruptHandler) = Segments \cup CalleeSaved
  BY DEF Intact, InterruptHandler
<1>5. \A p \in 49 .. 62 : Intact(p) = Segments \cup CalleeSaved \cup {Popped[i] : i \in 1 .. p - 48}
  BY DEF Intact, InterruptHandler
<1>6. \A p \in 63 .. 64 : Intact(p) = Registers
  BY DEF Intact, InterruptHandler
<1>7. \A p \in Int : p >= 100 => Intact(p) = Registers
  BY DEF Intact, InterruptHandler
<1>. QED
  BY <1>1, <1>2, <1>3, <1>4, <1>5, <1>6, <1>7

\* Segment registers, and those the ABI makes a function keep, are neither popped to nor
\* used for arguments.
LEMMA Apart ==
  /\ Segments \cup CalleeSaved \subseteq Registers
  /\ \A q \in Segments \cup CalleeSaved : q \notin CallerSaved
  /\ {"rax", "rdi", "rdx", "rcx", "rsi"} \subseteq CallerSaved
  /\ CallerSaved \subseteq Registers /\ "rax" \notin Segments
<1>1. \A q \in Segments \cup CalleeSaved : q \notin CallerSaved
  BY DEF Segments, CalleeSaved, CallerSaved
<1>2. {"rax", "rdi", "rdx", "rcx", "rsi"} \subseteq CallerSaved /\ "rax" \notin Segments
  BY DEF CallerSaved, Segments
<1>. QED
  BY <1>1, <1>2 DEF Registers

\* Before rax is used no register is changed, and no argument passed.
LEMMA Early ==
  ASSUME NEW f, NEW r, NEW p \in Int, p \in 11 .. 26 \/ p >= 100
  PROVE  /\ Kept(f, r, p) <=> \A q \in Registers : r[q] = f.regs[q]
         /\ Passed(f, r, p)
<1>1. Intact(p) = Registers
  BY Intacts
<1>2. p \notin DOMAIN InRax
  <2>1. \A x \in {27, 29, 31, 33, 41, 43, 45, 47} : x # p
    OBVIOUS
  <2>. QED
    BY <2>1, Shuttle
<1>3. Passed(f, r, p)
  BY DEF Passed, InterruptHandler
<1>4. Kept(f, r, p) <=> \A q \in Registers : r[q] = f.regs[q]
  BY <1>1, <1>2, Zenon DEF Kept
<1>. QED
  BY <1>3, <1>4

\* Each interrupt runs its own stub.
LEMMA StubPlaces ==
  ASSUME NEW f, f.vector \in 0 .. 31
  PROVE  /\ \A v \in 0 .. 31 : \A i \in 0 .. 3 :
              StubOf(v) + i \in Places(f) => v = f.vector /\ i <= 3 - HasCode(f)
         /\ \A i \in 0 .. 3 : i <= 3 - HasCode(f) => StubOf(f.vector) + i \in Places(f)
         /\ \A v \in 0 .. 31 : \A i \in 0 .. 3 : StubOf(v) + i \in Int /\ StubOf(v) + i >= 100
         /\ HasCode(f) \in {0, 1}
         /\ \A p \in 11 .. 64 : p \in Places(f)
         /\ InterruptHandler \in Places(f)
<1>1. HasCode(f) \in {0, 1}
  BY DEF HasCode
<1>. DEFINE u == f.vector
            h == HasCode(f)
<1>. HIDE DEF u, h
<1>2. u \in 0 .. 31 /\ h \in {0, 1}
  BY <1>1 DEF u, h
<1>3. Places(f) = 11 .. 64 \cup {90} \cup (100 + 4 * u) .. (100 + 4 * u) + 3 - h
  BY DEF Places, StubOf, InterruptHandler, u, h
<1>4. ASSUME NEW v \in 0 .. 31, NEW i \in 0 .. 3, 100 + 4 * v + i \in Places(f)
      PROVE  v = u /\ i <= 3 - h
  <2>1. 100 + 4 * v + i \in (100 + 4 * u) .. (100 + 4 * u) + 3 - h
    BY <1>3, <1>4
  <2>2. 100 + 4 * u <= 100 + 4 * v + i /\ 100 + 4 * v + i <= (100 + 4 * u) + 3 - h
    BY <1>2, <2>1
  <2>3. v = u
    BY <1>2, <2>2
  <2>. QED
    BY <1>2, <2>2, <2>3
<1>5. \A v \in 0 .. 31 : \A i \in 0 .. 3 : 100 + 4 * v + i \in Int /\ 100 + 4 * v + i >= 100
  OBVIOUS
<1>6. ASSUME NEW i \in 0 .. 3, i <= 3 - h PROVE 100 + 4 * u + i \in Places(f)
  <2>1. 100 + 4 * u + i \in (100 + 4 * u) .. (100 + 4 * u) + 3 - h
    BY <1>2, <1>6
  <2>. QED
    BY <1>3, <2>1
<1>7. (\A p \in 11 .. 64 : p \in Places(f)) /\ InterruptHandler \in Places(f)
  BY <1>3 DEF InterruptHandler
<1>. QED
  BY <1>1, <1>4, <1>5, <1>6, <1>7 DEF StubOf, u, h

\* cli changes nothing an NMI would care about.
LEMMA CliStep == IInv /\ Cli => IInv'
<1>. SUFFICES ASSUME IInv, Cli PROVE IInv'
  OBVIOUS
<1>. DEFINE f == frames[Len(frames)]
<1>1. PICK v \in 0 .. 31 : Stacks(StubOf(v), stack)
  BY DEF Cli
<1>2. pc = StubOf(v) + 0 /\ pc > 0 /\ StubOf(v) = pc
  BY <1>1 DEF Stacks, StubOf
<1>3. /\ f \in InterruptFrame /\ Inside(f, regs, stack, pc)
      /\ regs \in [Registers -> Slot] /\ stack \in Seq(Slot)
  BY <1>2, Running
<1>. HIDE DEF f
<1>4. /\ f.vector \in 0 .. 31 /\ pc \in Places(f) /\ Lying(f, stack, Depth(f, pc))
      /\ Kept(f, regs, pc)
  BY <1>3 DEF Inside
<1>5. v = f.vector /\ StubOf(f.vector) = pc /\ HasCode(f) \in {0, 1}
  <2>1. v = f.vector
    BY <1>2, <1>4, StubPlaces
  <2>. QED
    BY <1>2, <1>4, <2>1, StubPlaces
<1>6. Depth(f, pc + 1) = Depth(f, pc)
  <2>1. Depth(f, StubOf(f.vector)) = HasCode(f)
    BY <1>4, Depths
  <2>2. 1 \in 1 .. 3
    OBVIOUS
  <2>3. Depth(f, StubOf(f.vector) + 1) = HasCode(f) + 1 - 1
    BY <1>4, <2>2, Depths
  <2>4. HasCode(f) + 1 - 1 = HasCode(f)
    BY <1>5
  <2>. QED
    BY <1>5, <2>1, <2>3, <2>4
<1>7. pc + 1 \in Places(f)
  <2>1. 1 \in 0 .. 3 /\ 1 <= 3 - HasCode(f)
    BY <1>5
  <2>2. StubOf(f.vector) + 1 \in Places(f)
    BY <1>4, <2>1, StubPlaces
  <2>. QED
    BY <1>5, <2>2
<1>8. pc \in Int /\ pc >= 100
  BY <1>2, StubPlaces DEF StubOf
<1>9. Kept(f, regs, pc + 1) /\ Passed(f, regs, pc + 1)
  BY <1>4, <1>8, Early
<1>10. UNCHANGED <<idt, frames, regs, stack>> /\ pc' = pc + 1
  BY <1>1, <1>2 DEF Stacks
<1>11. Inside(f, regs', stack', pc')
  BY <1>4, <1>6, <1>7, <1>9, <1>10 DEF Inside
<1>. QED
  BY <1>2, <1>3, <1>8, <1>10, <1>11, InsideStep DEF Proper, f

\* The stub of a vector pushes what the CPU did not.
LEMMA PushWordStep == IInv /\ PushWord => IInv'
<1>. SUFFICES ASSUME IInv, PushWord PROVE IInv'
  OBVIOUS
<1>. DEFINE f == frames[Len(frames)]
<1>1. PICK v \in 0 .. 31 : \E i \in DOMAIN Pushed(v) :
        Stacks(StubOf(v) + i, Append(stack, Pushed(v)[i]))
  BY DEF PushWord
<1>2. PICK i \in DOMAIN Pushed(v) : Stacks(StubOf(v) + i, Append(stack, Pushed(v)[i]))
  BY <1>1
<1>. DEFINE w == Pushed(v)[i]
<1>3. CASE v \in ErrorCode
  <2>1. Pushed(v) = <<Word("vector", v)>>
    BY <1>3 DEF Pushed, ErrorCode
  <2>2. i = 1 /\ w = Word("vector", v)
    BY <2>1
  <2>3. pc = StubOf(v) + 1 /\ pc > 0 /\ StubOf(v) + 2 = pc + 1
    BY <1>2, <2>2 DEF Stacks, StubOf
  <2>4. f \in InterruptFrame /\ Inside(f, regs, stack, pc)
    BY <2>3, Running
  <2>5. f = frames[Len(frames)]
    OBVIOUS
  <2>. HIDE DEF f, w
  <2>6. f.vector \in 0 .. 31 /\ pc \in Places(f) /\ Kept(f, regs, pc)
    BY <2>4 DEF Inside
  <2>7. v = f.vector /\ HasCode(f) = 1
    BY <1>3, <2>3, <2>6, StubPlaces DEF HasCode
  <2>8. Depth(f, pc) = 1 /\ Depth(f, pc + 1) = 2
    <3>1. Depth(f, StubOf(f.vector) + 1) = 1 + 1 - 1 /\ Depth(f, StubOf(f.vector) + 2) = 1 + 2 - 1
      BY <2>6, <2>7, Depths
    <3>. QED
      BY <2>3, <2>7, <3>1
  <2>9. w = Laid(f, 1 + 1)
    BY <2>2, <2>7, LaidIs
  <2>10. pc + 1 \in Places(f)
    BY <2>3, <2>6, <2>7, StubPlaces
  <2>11. pc \in Int /\ pc >= 100
    BY <2>3 DEF StubOf
  <2>12. Kept(f, regs, pc + 1) /\ Passed(f, regs, pc + 1)
    BY <2>6, <2>11, Early
  <2>13. Stacks(pc, Append(stack, w))
    BY <1>2, <2>2, <2>3 DEF w
  <2>. QED
    BY <2>3, <2>5, <2>8, <2>9, <2>10, <2>12, <2>13, PushStep
<1>4. CASE v \notin ErrorCode
  <2>1. Pushed(v) = <<Word("error", 0), Word("vector", v)>>
    BY <1>4 DEF Pushed, ErrorCode
  <2>2. i \in 1 .. 2 /\ (i = 1 => w = Word("error", 0)) /\ (i = 2 => w = Word("vector", v))
    BY <2>1
  <2>3. pc = StubOf(v) + i /\ pc > 0 /\ StubOf(v) + (i + 1) = pc + 1
    BY <1>2, <2>2 DEF Stacks, StubOf
  <2>4. f \in InterruptFrame /\ Inside(f, regs, stack, pc)
    BY <2>3, Running
  <2>5. f = frames[Len(frames)]
    OBVIOUS
  <2>. HIDE DEF f, w
  <2>6. f.vector \in 0 .. 31 /\ pc \in Places(f) /\ Kept(f, regs, pc)
    BY <2>4 DEF Inside
  <2>0. i \in 0 .. 3 /\ i + 1 \in 0 .. 3 /\ i \in 1 .. 3 /\ i + 1 \in 1 .. 3
    BY <2>2
  <2>7. v = f.vector /\ HasCode(f) = 0
    BY <1>4, <2>0, <2>3, <2>6, StubPlaces DEF HasCode
  <2>8. Depth(f, pc) = i - 1 /\ Depth(f, pc + 1) = i
    <3>1. /\ Depth(f, StubOf(f.vector) + i) = 0 + i - 1
          /\ Depth(f, StubOf(f.vector) + (i + 1)) = 0 + (i + 1) - 1
      BY <2>0, <2>6, <2>7, Depths
    <3>2. 0 + i - 1 = i - 1 /\ 0 + (i + 1) - 1 = i
      BY <2>0
    <3>. QED
      BY <2>3, <2>7, <3>1, <3>2
  <2>9. w = Laid(f, i)
    <3>1. Error(f) = Word("error", 0)
      BY <1>4, <2>7 DEF Error
    <3>2. i = 1 \/ i = 2
      BY <2>2
    <3>. QED
      BY <2>2, <2>7, <3>1, <3>2, LaidIs
  <2>10. pc + 1 \in Places(f)
    <3>1. i + 1 <= 3 - 0
      BY <2>2
    <3>. QED
      BY <2>0, <2>3, <2>6, <2>7, <3>1, StubPlaces
  <2>11. pc \in Int /\ pc >= 100
    BY <2>2, <2>3 DEF StubOf
  <2>12. Kept(f, regs, pc + 1) /\ Passed(f, regs, pc + 1)
    BY <2>6, <2>11, Early
  <2>13. Stacks(pc, Append(stack, w))
    BY <1>2, <2>3 DEF w
  <2>14. Depth(f, pc) \in 0 .. 21 /\ Depth(f, pc + 1) = Depth(f, pc) + 1
         /\ Laid(f, Depth(f, pc) + 1) = Laid(f, i)
    <3>1. i - 1 \in 0 .. 21 /\ i - 1 + 1 = i
      BY <2>2
    <3>. QED
      BY <2>8, <3>1
  <2>. QED
    BY <2>3, <2>5, <2>9, <2>10, <2>12, <2>13, <2>14, PushStep
<1>. QED
  BY <1>3, <1>4

\* entry_vector finds error code and vector.
LEMMA JumpStep == IInv /\ Jump => IInv'
<1>. SUFFICES ASSUME IInv, Jump PROVE IInv'
  OBVIOUS
<1>. DEFINE f == frames[Len(frames)]
<1>1. PICK v \in 0 .. 31 : pc = StubOf(v) + Len(Pushed(v)) + 1
  BY DEF Jump
<1>. DEFINE k == Len(Pushed(v))
<1>2. k = IF v \in ErrorCode THEN 1 ELSE 2
  BY DEF Pushed, ErrorCode
<1>3. k \in {1, 2} /\ k + 1 \in 0 .. 3 /\ k + 1 \in 1 .. 3
  BY <1>2
<1>. HIDE DEF k
<1>4. pc = StubOf(v) + (k + 1) /\ pc \in Int /\ pc >= 100
  BY <1>1, <1>3 DEF k, StubOf
<1>5. /\ f \in InterruptFrame /\ Inside(f, regs, stack, pc)
      /\ regs \in [Registers -> Slot] /\ stack \in Seq(Slot)
  BY <1>4, Running
<1>. HIDE DEF f
<1>6. /\ f.vector \in 0 .. 31 /\ pc \in Places(f) /\ Lying(f, stack, Depth(f, pc))
      /\ Kept(f, regs, pc)
  BY <1>5 DEF Inside
<1>7. v = f.vector
  BY <1>3, <1>4, <1>6, StubPlaces
<1>8. Depth(f, pc) = Depth(f, 11)
  <2>1. Depth(f, StubOf(f.vector) + (k + 1)) = HasCode(f) + (k + 1) - 1 /\ Depth(f, 11) = 2
    BY <1>3, <1>6, Depths
  <2>2. HasCode(f) + (k + 1) - 1 = 2
    BY <1>2, <1>7 DEF HasCode
  <2>. QED
    BY <1>4, <1>7, <2>1, <2>2
<1>9. Kept(f, regs, 11) /\ Passed(f, regs, 11)
  BY <1>4, <1>6, Early
<1>10. UNCHANGED <<idt, frames, regs, stack>> /\ pc' = 11
  BY DEF Jump
<1>11. 11 \in Places(f)
  BY <1>6, StubPlaces
<1>12. Inside(f, regs', stack', pc')
  BY <1>6, <1>8, <1>9, <1>10, <1>11 DEF Inside
<1>. QED
  BY <1>4, <1>5, <1>10, <1>12, InsideStep DEF Proper, f

\* The registers are saved, and kept.
LEMMA SaveGeneralStep == IInv /\ SaveGeneral => IInv'
<1>. SUFFICES ASSUME IInv, SaveGeneral PROVE IInv'
  OBVIOUS
<1>. DEFINE f == frames[Len(frames)]
<1>1. PICK i \in 1 .. 15 : Stacks(10 + i, Append(stack, regs[General[i]]))
  BY DEF SaveGeneral
<1>. DEFINE w == regs[General[i]]
<1>2. pc = 10 + i /\ pc > 0
  BY <1>1 DEF Stacks
<1>3. f \in InterruptFrame /\ Inside(f, regs, stack, pc)
  BY <1>2, Running
<1>4. f = frames[Len(frames)]
  OBVIOUS
<1>. HIDE DEF f
<1>5. f.vector \in 0 .. 31 /\ Kept(f, regs, pc)
  BY <1>3 DEF Inside
<1>6. pc \in 11 .. 25 /\ pc + 1 \in 11 .. 26 /\ pc \in 11 .. 26 /\ pc + 1 \in Int /\ pc \in Int
  BY <1>2
<1>7. Depth(f, pc) = i + 1 /\ Depth(f, pc + 1) = i + 2
  <2>1. Depth(f, pc) = pc - 9
    BY <1>5, <1>6, Depths
  <2>2. CASE i = 15
    <3>1. Depth(f, 26) = 17
      BY <1>5, Depths
    <3>2. 26 = pc + 1 /\ 17 = i + 2 /\ pc - 9 = i + 1
      BY <1>2, <2>2
    <3>. QED
      BY <2>1, <3>1, <3>2
  <2>3. CASE i \in 1 .. 14
    <3>1. pc + 1 \in 11 .. 25
      BY <1>2, <2>3
    <3>2. \A p \in 11 .. 25 : Depth(f, p) = p - 9
      BY <1>5, Depths
    <3>3. Depth(f, pc + 1) = (pc + 1) - 9
      BY <3>1, <3>2, Zenon
    <3>4. (pc + 1) - 9 = i + 2 /\ pc - 9 = i + 1
      BY <1>2
    <3>. QED
      BY <2>1, <3>3, <3>4, Zenon
  <2>. QED
    BY <2>2, <2>3
<1>8. w = Laid(f, i + 2)
  <2>1. \A q \in Registers : regs[q] = f.regs[q]
    BY <1>5, <1>6, Early
  <2>2. General[i] \in Registers /\ Saved[i] = General[i]
    BY Orders
  <2>3. i + 2 \in 3 .. 21 /\ (i + 2) - 2 = i
    OBVIOUS
  <2>4. Laid(f, i + 2) = f.regs[Saved[i]]
    BY <2>3, LaidIs
  <2>. QED
    BY <2>1, <2>2, <2>4
<1>9. Kept(f, regs, pc + 1) /\ Passed(f, regs, pc + 1)
  BY <1>5, <1>6, Early
<1>10. pc + 1 \in Places(f)
  <2>1. pc + 1 \in 11 .. 64
    BY <1>2
  <2>. QED
    BY <1>5, <2>1, StubPlaces
<1>11. Stacks(pc, Append(stack, w))
  BY <1>1, <1>2
<1>12. Depth(f, pc) \in 0 .. 21 /\ Depth(f, pc + 1) = Depth(f, pc) + 1
       /\ Laid(f, Depth(f, pc) + 1) = Laid(f, i + 2)
  <2>1. i + 1 \in 0 .. 21 /\ i + 1 + 1 = i + 2
    OBVIOUS
  <2>. QED
    BY <1>7, <2>1
<1>. HIDE DEF w
<1>. QED
  BY <1>2, <1>4, <1>8, <1>9, <1>10, <1>11, <1>12, PushStep

\* Each segment register is taken to rax and saved.
LEMMA SaveSegmentStep == IInv /\ SaveSegment => IInv'
<1>. SUFFICES ASSUME IInv, SaveSegment PROVE IInv'
  OBVIOUS
<1>. DEFINE f == frames[Len(frames)]
<1>1. PICK i \in 1 .. 4 : \/ Loads(24 + 2 * i, "rax", regs[SavedSegments[i]])
                          \/ Stacks(25 + 2 * i, Append(stack, regs["rax"]))
  BY DEF SaveSegment
<1>2. pc > 0 /\ pc \in 26 .. 33
  BY <1>1 DEF Loads, Stacks
<1>3. /\ f \in InterruptFrame /\ Inside(f, regs, stack, pc) /\ f = frames[Len(frames)]
      /\ regs \in [Registers -> Slot]
  BY <1>2, Running
<1>. HIDE DEF f
<1>4. f.vector \in 0 .. 31 /\ Kept(f, regs, pc)
  BY <1>3 DEF Inside
<1>5. pc + 1 \in Places(f)
  <2>1. pc + 1 \in 11 .. 64
    BY <1>2
  <2>. QED
    BY <1>4, <2>1, StubPlaces
<1>6. Intact(pc + 1) = Registers \ {"rax"} /\ Registers \ {"rax"} \subseteq Intact(pc)
  <2>1. pc + 1 \in 27 .. 34
    BY <1>2
  <2>2. pc \in 11 .. 26 \/ pc \in 27 .. 34
    BY <1>2
  <2>3. Intact(pc) = Registers \/ Intact(pc) = Registers \ {"rax"}
    BY <2>2, Intacts, Zenon
  <2>4. Intact(pc + 1) = Registers \ {"rax"}
    BY <2>1, Intacts, Zenon
  <2>. QED
    BY <2>3, <2>4
<1>7. \A q \in Registers \ {"rax"} : regs[q] = f.regs[q]
  BY <1>4, <1>6 DEF Kept
<1>8. SavedSegments[i] \in Segments /\ InRax[25 + 2 * i] = SavedSegments[i]
      /\ SavedSegments[i] = Saved[15 + i] /\ 25 + 2 * i \in DOMAIN InRax
  BY Shuttle
<1>9. ASSUME NEW r PROVE Passed(f, r, pc + 1)
  BY <1>2 DEF Passed, InterruptHandler
<1>10. CASE Loads(24 + 2 * i, "rax", regs[SavedSegments[i]])
  <2>. DEFINE w == regs[SavedSegments[i]]
              r == [regs EXCEPT !["rax"] = w]
  <2>1. pc = 24 + 2 * i /\ pc + 1 = 25 + 2 * i
    BY <1>10 DEF Loads
  <2>2. Depth(f, pc + 1) = Depth(f, pc)
    BY <1>4, <2>1, Depths
  <2>3. "rax" \in Registers /\ SavedSegments[i] \in Registers \ {"rax"}
    BY <1>8, Apart
  <2>4. w \in Slot /\ w = f.regs[SavedSegments[i]]
    BY <1>3, <1>7, <2>3
  <2>5. r["rax"] = f.regs[InRax[pc + 1]]
    BY <1>3, <1>8, <2>1, <2>3, <2>4
  <2>6. \A q \in Registers \ {"rax"} : r[q] = f.regs[q]
    BY <1>3, <1>7
  <2>7. Kept(f, r, pc + 1)
    BY <1>6, <2>5, <2>6, Zenon DEF Kept
  <2>8. Loads(pc, "rax", w)
    BY <1>10, <2>1
  <2>9. Passed(f, r, pc + 1)
    BY <1>9
  <2>. HIDE DEF w
  <2>. QED
    BY <1>2, <1>3, <1>5, <2>2, <2>3, <2>4, <2>7, <2>8, <2>9, LoadStep
<1>11. CASE Stacks(25 + 2 * i, Append(stack, regs["rax"]))
  <2>. DEFINE w == regs["rax"]
  <2>1. pc = 25 + 2 * i
    BY <1>11 DEF Stacks
  <2>2. Depth(f, pc) = 16 + i
    BY <1>4, <2>1, Depths
  <2>3. Depth(f, pc + 1) = 17 + i
    <3>1. CASE i = 4
      <4>1. pc + 1 = 34 /\ 34 \in 34 .. 40 /\ 17 + i = 21
        BY <2>1, <3>1
      <4>2. Depth(f, 34) = 21
        BY <1>4, <4>1, Depths
      <4>. QED
        BY <4>1, <4>2
    <3>2. CASE i \in 1 .. 3
      <4>1. i + 1 \in 1 .. 4 /\ pc + 1 = 24 + 2 * (i + 1) /\ 16 + (i + 1) = 17 + i
        BY <2>1, <3>2
      <4>2. Depth(f, 24 + 2 * (i + 1)) = 16 + (i + 1)
        <5>1. \A j \in 1 .. 4 : Depth(f, 24 + 2 * j) = 16 + j
          BY <1>4, Depths
        <5>. QED
          BY <4>1, <5>1, Zenon
      <4>. QED
        BY <4>1, <4>2
    <3>. QED
      BY <3>1, <3>2
  <2>4. w = Laid(f, 17 + i)
    <3>1. w = f.regs[Saved[15 + i]]
      BY <1>4, <1>8, <2>1 DEF Kept
    <3>2. 17 + i \in 3 .. 21 /\ (17 + i) - 2 = 15 + i
      OBVIOUS
    <3>3. Laid(f, 17 + i) = f.regs[Saved[15 + i]]
      BY <3>2, LaidIs
    <3>. QED
      BY <3>1, <3>3
  <2>5. pc + 1 \notin DOMAIN InRax
    <3>1. pc + 1 \in {28, 30, 32, 34}
      BY <2>1
    <3>. QED
      BY <3>1, Shuttle
  <2>6. Kept(f, regs, pc + 1)
    BY <1>6, <1>7, <2>5, Zenon DEF Kept
  <2>7. Stacks(pc, Append(stack, w))
    BY <1>11, <2>1
  <2>8. Depth(f, pc) \in 0 .. 21 /\ Depth(f, pc + 1) = Depth(f, pc) + 1
        /\ Laid(f, Depth(f, pc) + 1) = Laid(f, 17 + i)
    <3>1. 16 + i \in 0 .. 21 /\ 16 + i + 1 = 17 + i
      OBVIOUS
    <3>. QED
      BY <2>2, <2>3, <3>1
  <2>9. Passed(f, regs, pc + 1)
    BY <1>9
  <2>. HIDE DEF w
  <2>. QED
    BY <1>2, <1>3, <1>5, <2>4, <2>6, <2>7, <2>8, <2>9, PushStep
<1>. QED
  BY <1>1, <1>10, <1>11

\* Each argument is loaded from its place, and those loaded stay.
LEMMA LoadArgumentsStep == IInv /\ LoadArguments => IInv'
<1>. SUFFICES ASSUME IInv, LoadArguments PROVE IInv'
  OBVIOUS
<1>. DEFINE f == frames[Len(frames)]
<1>1. \/ Loads(34, "rdi", Top(19))
      \/ Loads(35, "rdx", Top(20))
      \/ Loads(36, "rcx", Word("address", Len(stack)))
      \/ Loads(37, "rsi", Word("address", Len(stack) - 21))
  BY DEF LoadArguments
<1>2. pc > 0 /\ pc \in 34 .. 37
  BY <1>1 DEF Loads
<1>3. /\ f \in InterruptFrame /\ Inside(f, regs, stack, pc) /\ f = frames[Len(frames)]
      /\ regs \in [Registers -> Slot]
  BY <1>2, Running
<1>. HIDE DEF f
<1>4. /\ f.vector \in 0 .. 31 /\ Kept(f, regs, pc) /\ Passed(f, regs, pc)
      /\ Lying(f, stack, Depth(f, pc))
  BY <1>3 DEF Inside
<1>5. pc + 1 \in Places(f)
  <2>1. pc + 1 \in 11 .. 64
    BY <1>2
  <2>. QED
    BY <1>4, <2>1, StubPlaces
<1>6. Depth(f, pc) = 21 /\ Depth(f, pc + 1) = Depth(f, pc)
  <2>1. pc \in 34 .. 40 /\ pc + 1 \in 34 .. 40
    BY <1>2
  <2>2. \A p \in 34 .. 40 : Depth(f, p) = 21
    BY <1>4, Depths
  <2>. QED
    BY <2>1, <2>2, Zenon
<1>7. Lying(f, stack, 21) /\ Len(stack) = Base(f) + 26 /\ Base(f) \in Nat
  <2>1. Lying(f, stack, 21) /\ Base(f) \in Nat
    BY <1>3, <1>4, <1>6, BaseIs
  <2>2. Len(stack) = Base(f) + 5 + 21
    BY <2>1, Zenon DEF Lying
  <2>. QED
    BY <2>1, <2>2
<1>8. Intact(pc + 1) = Segments \cup CalleeSaved
      /\ \A q \in Segments \cup CalleeSaved : regs[q] = f.regs[q]
  <2>1. pc + 1 \in 35 .. 48 /\ (pc \in 27 .. 34 \/ pc \in 35 .. 48)
    BY <1>2
  <2>2. Segments \cup CalleeSaved \subseteq Registers \ {"rax"}
    BY Apart
  <2>3. Intact(pc + 1) = Segments \cup CalleeSaved
        /\ Segments \cup CalleeSaved \subseteq Intact(pc)
    <3>1. Intact(pc + 1) = Segments \cup CalleeSaved
      BY <2>1, Intacts, Zenon
    <3>2. Intact(pc) = Registers \ {"rax"} \/ Intact(pc) = Segments \cup CalleeSaved
      BY <2>1, Intacts, Zenon
    <3>. QED
      BY <2>2, <3>1, <3>2
  <2>. QED
    BY <1>4, <2>3 DEF Kept
<1>9. ASSUME NEW q \in {"rdi", "rdx", "rcx", "rsi"}, NEW w
      PROVE  Kept(f, [regs EXCEPT ![q] = w], pc + 1)
  <2>1. pc + 1 \notin DOMAIN InRax
    <3>1. pc + 1 \in {35, 36, 37, 38}
      BY <1>2
    <3>. QED
      BY <3>1, Shuttle
  <2>2. \A x \in Segments \cup CalleeSaved : x \in Registers /\ x # q
    BY Apart
  <2>3. \A x \in Segments \cup CalleeSaved : [regs EXCEPT ![q] = w][x] = f.regs[x]
    BY <1>3, <1>8, <2>2
  <2>. QED
    BY <1>8, <2>1, <2>3, Zenon DEF Kept
<1>10. {"rdi", "rdx", "rcx", "rsi"} \subseteq Registers
  BY Apart
<1>11. CASE Loads(34, "rdi", Top(19))
  <2>1. pc = 34
    BY <1>11 DEF Loads
  <2>2. Top(19) = Word("vector", f.vector)
    <3>1. Top(19) = Laid(f, 21 - 19)
      BY <1>3, <1>7, TopIs
    <3>2. 21 - 19 = 2
      OBVIOUS
    <3>. QED
      BY <3>1, <3>2, LaidIs
  <2>. DEFINE w == Word("vector", f.vector)
              r == [regs EXCEPT !["rdi"] = w]
  <2>3. w \in Slot
    BY <1>4, WordIs
  <2>4. r["rdi"] = w
    BY <1>3, <1>10
  <2>5. Passed(f, r, pc + 1)
    BY <2>1, <2>4 DEF Passed, InterruptHandler
  <2>6. Loads(pc, "rdi", w)
    BY <1>11, <2>1, <2>2
  <2>7. Kept(f, r, pc + 1)
    BY <1>9
  <2>. HIDE DEF w
  <2>. QED
    BY <1>2, <1>3, <1>5, <1>6, <1>10, <2>3, <2>5, <2>6, <2>7, LoadStep
<1>12. CASE Loads(35, "rdx", Top(20))
  <2>1. pc = 35
    BY <1>12 DEF Loads
  <2>2. Top(20) = Error(f)
    <3>1. Top(20) = Laid(f, 21 - 20)
      BY <1>3, <1>7, TopIs
    <3>2. 21 - 20 = 1
      OBVIOUS
    <3>. QED
      BY <3>1, <3>2, LaidIs
  <2>. DEFINE w == Error(f)
              r == [regs EXCEPT !["rdx"] = w]
  <2>3. w \in Slot
    <3>1. 1 \in 1 .. 22
      OBVIOUS
    <3>2. Laid(f, 1) \in Slot
      BY <1>3, <3>1, LaidWords
    <3>. QED
      BY <3>2, LaidIs
  <2>4. r["rdx"] = w /\ r["rdi"] = regs["rdi"]
    BY <1>3, <1>10
  <2>5. Passed(f, r, pc + 1)
    <3>1. regs["rdi"] = Word("vector", f.vector)
      BY <1>4, <2>1 DEF Passed
    <3>. QED
      BY <2>1, <2>4, <3>1 DEF Passed, InterruptHandler
  <2>6. Loads(pc, "rdx", w)
    BY <1>12, <2>1, <2>2
  <2>7. Kept(f, r, pc + 1)
    BY <1>9
  <2>. HIDE DEF w
  <2>. QED
    BY <1>2, <1>3, <1>5, <1>6, <1>10, <2>3, <2>5, <2>6, <2>7, LoadStep
<1>13. CASE Loads(36, "rcx", Word("address", Len(stack)))
  <2>. DEFINE w == Word("address", Base(f) + 26)
              r == [regs EXCEPT !["rcx"] = w]
  <2>1. pc = 36
    BY <1>13 DEF Loads
  <2>3. w \in Slot
    BY <1>7, WordIs
  <2>4. r["rcx"] = w /\ r["rdi"] = regs["rdi"] /\ r["rdx"] = regs["rdx"]
    BY <1>3, <1>10
  <2>5. Passed(f, r, pc + 1)
    <3>1. regs["rdi"] = Word("vector", f.vector) /\ regs["rdx"] = Error(f)
      BY <1>4, <2>1 DEF Passed
    <3>. QED
      BY <2>1, <2>4, <3>1 DEF Passed, InterruptHandler
  <2>6. Loads(pc, "rcx", w)
    BY <1>7, <1>13, <2>1
  <2>7. Kept(f, r, pc + 1)
    BY <1>9
  <2>. HIDE DEF w
  <2>. QED
    BY <1>2, <1>3, <1>5, <1>6, <1>10, <2>3, <2>5, <2>6, <2>7, LoadStep
<1>14. CASE Loads(37, "rsi", Word("address", Len(stack) - 21))
  <2>. DEFINE w == Word("address", Base(f) + 5)
              r == [regs EXCEPT !["rsi"] = w]
  <2>1. pc = 37
    BY <1>14 DEF Loads
  <2>2. Len(stack) - 21 = Base(f) + 5
    BY <1>7
  <2>3. w \in Slot
    BY <1>7, WordIs
  <2>4. r["rsi"] = w /\ r["rdi"] = regs["rdi"] /\ r["rdx"] = regs["rdx"]
        /\ r["rcx"] = regs["rcx"]
    BY <1>3, <1>10
  <2>5. Passed(f, r, pc + 1)
    <3>1. regs["rdi"] = Word("vector", f.vector) /\ regs["rdx"] = Error(f)
          /\ regs["rcx"] = Word("address", Base(f) + 26)
      BY <1>4, <2>1 DEF Passed
    <3>. QED
      BY <2>1, <2>4, <3>1 DEF Passed, InterruptHandler
  <2>6. Loads(pc, "rsi", w)
    BY <1>14, <2>1, <2>2
  <2>7. Kept(f, r, pc + 1)
    BY <1>9
  <2>. HIDE DEF w
  <2>. QED
    BY <1>2, <1>3, <1>5, <1>6, <1>10, <2>3, <2>5, <2>6, <2>7, LoadStep
<1>. QED
  BY <1>1, <1>11, <1>12, <1>13, <1>14

\* The call puts the return address on the stack.
LEMMA CallStep == IInv /\ Call => IInv'
<1>. SUFFICES ASSUME IInv, Call PROVE IInv'
  OBVIOUS
<1>. DEFINE f == frames[Len(frames)]
<1>1. /\ pc = 38 /\ pc > 0 /\ UNCHANGED <<idt, regs, frames>>
      /\ stack' = Append(stack, Word("return", 39)) /\ pc' = InterruptHandler
  BY DEF Call
<1>2. /\ f \in InterruptFrame /\ Inside(f, regs, stack, pc)
      /\ regs \in [Registers -> Slot] /\ stack \in Seq(Slot)
  BY <1>1, Running
<1>. HIDE DEF f
<1>3. /\ f.vector \in 0 .. 31 /\ Kept(f, regs, 38) /\ Passed(f, regs, 38)
      /\ Lying(f, stack, Depth(f, 38))
  BY <1>1, <1>2 DEF Inside
<1>4. Depth(f, 38) = 21 /\ Depth(f, InterruptHandler) = 22
  <2>1. 38 \in 34 .. 40
    OBVIOUS
  <2>. QED
    BY <1>3, <2>1, Depths, Zenon
<1>5. stack' \in Seq(Slot) /\ Lying(f, stack', 22)
  <2>1. Laid(f, 22) = Word("return", 39)
    BY LaidIs
  <2>2. 21 \in 0 .. 21 /\ 21 + 1 = 22
    OBVIOUS
  <2>3. /\ Append(stack, Laid(f, 21 + 1)) \in Seq(Slot)
        /\ Lying(f, Append(stack, Laid(f, 21 + 1)), 21 + 1)
    BY <1>2, <1>3, <1>4, <2>2, PushLies
  <2>. QED
    BY <1>1, <2>1, <2>2, <2>3
<1>6. Kept(f, regs, InterruptHandler)
  <2>1. Intact(38) = Segments \cup CalleeSaved
    <3>1. 38 \in 35 .. 48
      OBVIOUS
    <3>. QED
      BY <3>1, Intacts, Zenon
  <2>2. InterruptHandler \notin DOMAIN InRax
    BY Shuttle DEF InterruptHandler
  <2>. QED
    BY <1>3, <2>1, <2>2, Intacts, Zenon DEF Kept
<1>7. Passed(f, regs, InterruptHandler)
  BY <1>3 DEF Passed, InterruptHandler
<1>8. InterruptHandler \in Places(f)
  BY <1>3, StubPlaces
<1>9. Inside(f, regs', stack', pc')
  BY <1>1, <1>3, <1>4, <1>5, <1>6, <1>7, <1>8 DEF Inside
<1>10. pc' \in Int
  BY <1>1 DEF InterruptHandler
<1>. QED
  BY <1>1, <1>2, <1>5, <1>9, <1>10, InsideStep DEF Proper, f

\* interrupt_handler returns the address it was given, and keeps what the ABI makes it keep,
\* or does not return.
LEMMA HandleStep == IInv /\ Handle => IInv'
<1>. SUFFICES ASSUME IInv, Handle PROVE IInv'
  OBVIOUS
<1>. DEFINE f == frames[Len(frames)]
<1>1. pc = InterruptHandler /\ pc > 0 /\ UNCHANGED <<idt, frames>>
  BY DEF Handle, InterruptHandler
<1>2. /\ f \in InterruptFrame /\ Inside(f, regs, stack, pc)
      /\ regs \in [Registers -> Slot] /\ stack \in Seq(Slot)
  BY <1>1, Running
<1>3. CASE regs["rdi"].value \in {13, 14}
  <2>1. pc' = Forever /\ UNCHANGED <<regs, stack>>
    BY <1>3 DEF Handle
  <2>2. Proper(f, regs', stack', pc')
    BY <2>1 DEF Proper
  <2>3. pc' \in Int
    BY <2>1 DEF Forever
  <2>. QED
    BY <1>1, <1>2, <2>1, <2>2, <2>3, InsideStep
<1>4. CASE regs["rdi"].value \notin {13, 14}
  <2>1. /\ pc' = Top(0).value
        /\ stack' = SubSeq(stack, 1, Len(stack) - 1)
        /\ regs' = [r \in Registers |-> IF r = "rax" THEN regs["rcx"]
                                        ELSE IF r \in CallerSaved THEN Word("spoilt", 0)
                                        ELSE regs[r]]
    BY <1>4, Zenon DEF Handle
  <2>. HIDE DEF f
  <2>2. /\ f.vector \in 0 .. 31 /\ Kept(f, regs, InterruptHandler)
        /\ Passed(f, regs, InterruptHandler) /\ Lying(f, stack, Depth(f, InterruptHandler))
    BY <1>1, <1>2 DEF Inside
  <2>3. Depth(f, InterruptHandler) = 22 /\ Depth(f, 39) = 21
    <3>1. 39 \in 34 .. 40
      OBVIOUS
    <3>. QED
      BY <2>2, <3>1, Depths, Zenon
  <2>4. Top(0) = Laid(f, 22) /\ Len(stack) = Base(f) + 5 + 22 /\ Base(f) \in Nat
    <3>1. 22 \in 1 .. 22
      OBVIOUS
    <3>. QED
      BY <1>2, <2>2, <2>3, <3>1, LastIs
  <2>5. pc' = 39
    BY <2>1, <2>4, LaidIs DEF Word
  <2>6. stack' \in Seq(Slot) /\ Lying(f, stack', 21)
    <3>1. Len(stack) - 1 = Base(f) + 5 + 21 /\ 22 \in 0 .. 22 /\ 21 \in 0 .. 22
      BY <2>4
    <3>. QED
      BY <1>2, <2>1, <2>2, <2>3, <3>1, DropLies
  <2>7. regs' \in [Registers -> Slot]
    <3>1. Word("spoilt", 0) \in Slot
      BY WordIs
    <3>2. "rcx" \in Registers
      BY Apart
    <3>3. regs["rcx"] \in Slot
      BY <1>2, <3>2
    <3>. QED
      BY <1>2, <2>1, <3>1, <3>3
  <2>8. Kept(f, regs', 39)
    <3>1. Intact(39) = Segments \cup CalleeSaved
      <4>1. 39 \in 35 .. 48
        OBVIOUS
      <4>. QED
        BY <4>1, Intacts, Zenon
    <3>2. 39 \notin DOMAIN InRax
      BY Shuttle
    <3>3. \A q \in Segments \cup CalleeSaved : regs[q] = f.regs[q]
      BY <2>2, Intacts, Zenon DEF Kept
    <3>4. \A q \in Segments \cup CalleeSaved :
            q \in Registers /\ q \notin CallerSaved /\ q # "rax"
      BY Apart
    <3>5. \A q \in Segments \cup CalleeSaved : regs'[q] = f.regs[q]
      BY <2>1, <3>3, <3>4
    <3>. QED
      BY <3>1, <3>2, <3>5, Zenon DEF Kept
  <2>9. Passed(f, regs', 39)
    <3>1. regs["rcx"] = Word("address", Base(f) + 26)
      BY <2>2 DEF Passed
    <3>2. "rax" \in Registers
      BY Apart
    <3>3. regs'["rax"] = Word("address", Base(f) + 26)
      BY <2>1, <3>1, <3>2
    <3>. QED
      BY <3>3 DEF Passed, InterruptHandler
  <2>10. 39 \in Places(f)
    <3>1. 39 \in 11 .. 64
      OBVIOUS
    <3>. QED
      BY <2>2, <3>1, StubPlaces
  <2>11. Inside(f, regs', stack', pc')
    BY <2>2, <2>3, <2>5, <2>6, <2>8, <2>9, <2>10 DEF Inside
  <2>12. pc' \in Int
    BY <2>5
  <2>. QED
    BY <1>1, <2>6, <2>7, <2>11, <2>12, InsideStep DEF Proper, f
<1>. QED
  BY <1>3, <1>4

\* rsp is loaded with the value it has.
LEMMA ReloadRspStep == IInv /\ ReloadRsp => IInv'
<1>. SUFFICES ASSUME IInv, ReloadRsp PROVE IInv'
  OBVIOUS
<1>. DEFINE f == frames[Len(frames)]
<1>1. /\ pc = 39 /\ pc > 0 /\ UNCHANGED <<idt, regs, frames>>
      /\ stack' = SubSeq(stack, 1, regs["rax"].value) /\ pc' = 40
  BY DEF ReloadRsp, Stacks
<1>2. /\ f \in InterruptFrame /\ Inside(f, regs, stack, pc)
      /\ regs \in [Registers -> Slot] /\ stack \in Seq(Slot)
  BY <1>1, Running
<1>. HIDE DEF f
<1>3. /\ f.vector \in 0 .. 31 /\ Kept(f, regs, 39) /\ Passed(f, regs, 39)
      /\ Lying(f, stack, Depth(f, 39))
  BY <1>1, <1>2 DEF Inside
<1>4. Depth(f, 39) = 21 /\ Depth(f, 40) = 21
  <2>1. 39 \in 34 .. 40 /\ 40 \in 34 .. 40
    OBVIOUS
  <2>. QED
    BY <1>3, <2>1, Depths, Zenon
<1>5. stack' \in Seq(Slot) /\ Lying(f, stack', 21)
  <2>1. regs["rax"] = Word("address", Base(f) + 26)
    BY <1>3 DEF Passed
  <2>2. Base(f) \in Nat
    BY <1>2, BaseIs
  <2>3. regs["rax"].value = Base(f) + 26
    BY <2>1 DEF Word
  <2>4. Base(f) + 26 = Base(f) + 5 + 21 /\ 21 \in 0 .. 21 /\ 21 \in 0 .. 22
    BY <2>2
  <2>. QED
    BY <1>1, <1>2, <1>3, <1>4, <2>3, <2>4, DropLies
<1>6. Kept(f, regs, 40)
  <2>1. Intact(39) = Segments \cup CalleeSaved /\ Intact(40) = Segments \cup CalleeSaved
    <3>1. 39 \in 35 .. 48 /\ 40 \in 35 .. 48
      OBVIOUS
    <3>. QED
      BY <3>1, Intacts, Zenon
  <2>2. 40 \notin DOMAIN InRax
    BY Shuttle
  <2>. QED
    BY <1>3, <2>1, <2>2, Zenon DEF Kept
<1>7. Passed(f, regs, 40) /\ 40 \in 11 .. 64
  BY DEF Passed, InterruptHandler
<1>8. 40 \in Places(f)
  BY <1>3, <1>7, StubPlaces
<1>9. Inside(f, regs', stack', pc')
  BY <1>1, <1>3, <1>4, <1>5, <1>6, <1>7, <1>8 DEF Inside
<1>. QED
  BY <1>1, <1>2, <1>5, <1>9, InsideStep DEF Proper, f

\* Each saved segment register goes back through rax.
LEMMA RestoreSegmentStep == IInv /\ RestoreSegment => IInv'
<1>. SUFFICES ASSUME IInv, RestoreSegment PROVE IInv'
  OBVIOUS
<1>. DEFINE f == frames[Len(frames)]
<1>1. PICK i \in 1 .. 4 : \/ Pops(38 + 2 * i, "rax")
                          \/ Loads(39 + 2 * i, PoppedSegments[i], regs["rax"])
  BY DEF RestoreSegment
<1>2. pc > 0 /\ pc \in 40 .. 47
  BY <1>1 DEF Loads, Pops
<1>3. /\ f \in InterruptFrame /\ Inside(f, regs, stack, pc) /\ f = frames[Len(frames)]
      /\ regs \in [Registers -> Slot]
  BY <1>2, Running
<1>. HIDE DEF f
<1>4. f.vector \in 0 .. 31 /\ Kept(f, regs, pc)
  BY <1>3 DEF Inside
<1>5. pc + 1 \in Places(f)
  <2>1. pc + 1 \in 11 .. 64
    BY <1>2
  <2>. QED
    BY <1>4, <2>1, StubPlaces
<1>6. Intact(pc + 1) = Segments \cup CalleeSaved /\ Intact(pc) = Segments \cup CalleeSaved
  <2>1. pc + 1 \in 35 .. 48 /\ pc \in 35 .. 48
    BY <1>2
  <2>. QED
    BY <2>1, Intacts, Zenon
<1>7. \A q \in Segments \cup CalleeSaved : regs[q] = f.regs[q] /\ q \in Registers /\ q # "rax"
  <2>1. \A q \in Segments \cup CalleeSaved : q \in Registers /\ q # "rax"
    BY Apart
  <2>. QED
    BY <1>4, <1>6, <2>1, Zenon DEF Kept
<1>8. PoppedSegments[i] \in Segments /\ InRax[39 + 2 * i] = PoppedSegments[i]
      /\ PoppedSegments[i] = Saved[20 - i] /\ 39 + 2 * i \in DOMAIN InRax
  BY Shuttle
<1>9. ASSUME NEW r PROVE Passed(f, r, pc + 1)
  BY <1>2 DEF Passed, InterruptHandler
<1>10. "rax" \in Registers
  BY Apart
<1>11. CASE Pops(38 + 2 * i, "rax")
  <2>1. pc = 38 + 2 * i /\ pc + 1 = 39 + 2 * i
    BY <1>11 DEF Pops
  <2>2. Depth(f, pc) = 22 - i /\ Depth(f, pc + 1) = 21 - i
    BY <1>4, <2>1, Depths
  <2>. DEFINE w == Laid(f, Depth(f, pc))
              r == [regs EXCEPT !["rax"] = w]
  <2>3. w = f.regs[PoppedSegments[i]]
    <3>1. 22 - i \in 3 .. 21 /\ (22 - i) - 2 = 20 - i
      OBVIOUS
    <3>2. Laid(f, 22 - i) = f.regs[Saved[20 - i]]
      BY <3>1, LaidIs
    <3>. QED
      BY <1>8, <2>2, <3>2
  <2>4. r["rax"] = f.regs[InRax[pc + 1]]
    BY <1>3, <1>8, <1>10, <2>1, <2>3
  <2>5. \A q \in Segments \cup CalleeSaved : r[q] = f.regs[q]
    BY <1>3, <1>7
  <2>6. Kept(f, r, pc + 1)
    BY <1>6, <2>4, <2>5, Zenon DEF Kept
  <2>7. Pops(pc, "rax")
    BY <1>11, <2>1
  <2>8. Depth(f, pc) \in 1 .. 22 /\ Depth(f, pc + 1) = Depth(f, pc) - 1
    <3>1. 22 - i \in 1 .. 22 /\ (22 - i) - 1 = 21 - i
      OBVIOUS
    <3>. QED
      BY <2>2, <3>1
  <2>9. Passed(f, r, pc + 1)
    BY <1>9
  <2>. QED
    BY <1>2, <1>3, <1>5, <1>10, <2>6, <2>7, <2>8, <2>9, PopStep
<1>12. CASE Loads(39 + 2 * i, PoppedSegments[i], regs["rax"])
  <2>. DEFINE w == regs["rax"]
              r == [regs EXCEPT ![PoppedSegments[i]] = w]
  <2>1. pc = 39 + 2 * i
    BY <1>12 DEF Loads
  <2>2. Depth(f, pc + 1) = Depth(f, pc)
    <3>1. Depth(f, 39 + 2 * i) = 21 - i
      BY <1>4, Depths
    <3>2. CASE i = 4
      <4>1. pc + 1 = 48 /\ 48 \in 48 .. 62 /\ 65 - 48 = 21 - i
        BY <2>1, <3>2
      <4>2. Depth(f, 48) = 65 - 48
        BY <1>4, <4>1, Depths
      <4>. QED
        BY <2>1, <3>1, <4>1, <4>2
    <3>3. CASE i \in 1 .. 3
      <4>1. i + 1 \in 1 .. 4 /\ pc + 1 = 38 + 2 * (i + 1) /\ 22 - (i + 1) = 21 - i
        BY <2>1, <3>3
      <4>2. Depth(f, 38 + 2 * (i + 1)) = 22 - (i + 1)
        <5>1. \A j \in 1 .. 4 : Depth(f, 38 + 2 * j) = 22 - j
          BY <1>4, Depths
        <5>. QED
          BY <4>1, <5>1, Zenon
      <4>. QED
        BY <2>1, <3>1, <4>1, <4>2
    <3>. QED
      BY <3>2, <3>3
  <2>3. w = f.regs[PoppedSegments[i]]
    BY <1>4, <1>8, <2>1 DEF Kept
  <2>4. w \in Slot
    BY <1>3, <1>10
  <2>5. \A q \in Segments \cup CalleeSaved : r[q] = f.regs[q]
    BY <1>3, <1>7, <2>3
  <2>6. pc + 1 \notin DOMAIN InRax
    <3>1. pc + 1 \in {42, 44, 46, 48}
      BY <2>1
    <3>. QED
      BY <3>1, Shuttle
  <2>7. Kept(f, r, pc + 1)
    BY <1>6, <2>5, <2>6, Zenon DEF Kept
  <2>8. Loads(pc, PoppedSegments[i], w)
    BY <1>12, <2>1
  <2>9. Passed(f, r, pc + 1)
    BY <1>9
  <2>10. PoppedSegments[i] \in Registers
    BY <1>8, Apart
  <2>. HIDE DEF w
  <2>. QED
    BY <1>2, <1>3, <1>5, <2>2, <2>4, <2>7, <2>8, <2>9, <2>10, LoadStep
<1>. QED
  BY <1>1, <1>11, <1>12

\* All registers are back when the last one is popped.
LEMMA AllRestored ==
  Segments \cup CalleeSaved \cup {Popped[i] : i \in 1 .. 15} = Registers
<1>1. \A i \in 1 .. 15 : Popped[i] \in Registers
  BY Orders
<1>2. /\ Popped[15] = "rax" /\ Popped[13] = "rcx" /\ Popped[12] = "rdx" /\ Popped[11] = "rsi"
      /\ Popped[10] = "rdi" /\ Popped[1] = "r8" /\ Popped[2] = "r9" /\ Popped[3] = "r10"
      /\ Popped[4] = "r11"
  BY DEF Popped
<1>3. \A r \in CallerSaved : \E i \in 1 .. 15 : r = Popped[i]
  <2>1. {1, 2, 3, 4, 10, 11, 12, 13, 15} \subseteq 1 .. 15
    OBVIOUS
  <2>. QED
    BY <1>2, <2>1 DEF CallerSaved
<1>. QED
  BY <1>1, <1>3, Apart DEF Registers

\* A register is restored from the word that was pushed for it.
LEMMA RestoreGeneralStep == IInv /\ RestoreGeneral => IInv'
<1>. SUFFICES ASSUME IInv, RestoreGeneral PROVE IInv'
  OBVIOUS
<1>. DEFINE f == frames[Len(frames)]
            Upto(j) == Segments \cup CalleeSaved \cup {Popped[k] : k \in 1 .. j}
<1>1. PICK i \in 1 .. 15 : Pops(47 + i, Popped[i])
  BY DEF RestoreGeneral
<1>2. pc > 0 /\ pc = 47 + i /\ pc \in 48 .. 62 /\ pc + 1 = 48 + i /\ pc + 1 \in 49 .. 63
  BY <1>1 DEF Pops
<1>3. /\ f \in InterruptFrame /\ Inside(f, regs, stack, pc) /\ f = frames[Len(frames)]
      /\ regs \in [Registers -> Slot]
  BY <1>2, Running
<1>. HIDE DEF f
<1>4. f.vector \in 0 .. 31 /\ Kept(f, regs, pc)
  BY <1>3 DEF Inside
<1>5. pc + 1 \in Places(f)
  <2>1. pc + 1 \in 11 .. 64
    BY <1>2
  <2>. QED
    BY <1>4, <2>1, StubPlaces
<1>6. Depth(f, pc) = 18 - i /\ Depth(f, pc + 1) = 17 - i
  <2>1. \A p \in 48 .. 62 : Depth(f, p) = 65 - p
    BY <1>4, Depths
  <2>2. Depth(f, pc) = 65 - pc
    BY <1>2, <2>1, Zenon
  <2>3. CASE i = 15
    <3>1. Depth(f, 63) = 2
      BY <1>4, Depths
    <3>. QED
      BY <1>2, <2>2, <2>3, <3>1
  <2>4. CASE i \in 1 .. 14
    <3>1. pc + 1 \in 48 .. 62
      BY <1>2, <2>4
    <3>2. Depth(f, pc + 1) = 65 - (pc + 1)
      BY <2>1, <3>1, Zenon
    <3>3. 65 - pc = 18 - i /\ 65 - (pc + 1) = 17 - i
      BY <1>2
    <3>. QED
      BY <2>2, <3>2, <3>3, Zenon
  <2>. QED
    BY <2>3, <2>4
<1>7. Intact(pc) = Upto(i - 1)
  <2>1. CASE i = 1
    <3>1. pc = 48 /\ 48 \in 35 .. 48 /\ 1 .. i - 1 = {}
      BY <1>2, <2>1
    <3>2. Intact(48) = Segments \cup CalleeSaved
      BY <3>1, Intacts
    <3>3. {Popped[k] : k \in 1 .. i - 1} = {}
      BY <3>1
    <3>. QED
      BY <3>1, <3>2, <3>3
  <2>2. CASE i \in 2 .. 15
    <3>1. pc \in 49 .. 62 /\ pc - 48 = i - 1
      BY <1>2, <2>2
    <3>2. Intact(pc) = Upto(pc - 48)
      BY <3>1, Intacts, Zenon
    <3>. QED
      BY <3>1, <3>2
  <2>. QED
    BY <2>1, <2>2
<1>8. Intact(pc + 1) = Upto(i)
  <2>1. CASE i = 15
    <3>1. pc + 1 = 63 /\ 63 \in 63 .. 64
      BY <1>2, <2>1
    <3>2. Intact(63) = Registers
      BY <3>1, Intacts, Zenon
    <3>. QED
      BY <2>1, <3>1, <3>2, AllRestored
  <2>2. CASE i \in 1 .. 14
    <3>1. pc + 1 \in 49 .. 62 /\ (pc + 1) - 48 = i
      BY <1>2, <2>2
    <3>2. Intact(pc + 1) = Upto((pc + 1) - 48)
      BY <3>1, Intacts, Zenon
    <3>. QED
      BY <3>1, <3>2
  <2>. QED
    BY <2>1, <2>2
<1>. DEFINE w == Laid(f, Depth(f, pc))
            r == [regs EXCEPT ![Popped[i]] = w]
<1>9. w = f.regs[Popped[i]] /\ Popped[i] \in Registers
  <2>1. 18 - i \in 3 .. 21 /\ (18 - i) - 2 = 16 - i
    OBVIOUS
  <2>2. Laid(f, 18 - i) = f.regs[Saved[16 - i]]
    BY <2>1, LaidIs
  <2>3. Popped[i] = Saved[16 - i] /\ Popped[i] \in Registers
    BY Orders
  <2>. QED
    BY <1>6, <2>2, <2>3
<1>10. \A q \in Upto(i) : q \in Registers /\ (q \in Upto(i - 1) \/ q = Popped[i])
  <2>1. \A k \in 1 .. i : k \in 1 .. 15 /\ (k \in 1 .. i - 1 \/ k = i)
    OBVIOUS
  <2>2. \A k \in 1 .. 15 : Popped[k] \in Registers
    BY Orders
  <2>. QED
    BY <2>1, <2>2, Apart
<1>11. \A q \in Upto(i - 1) : regs[q] = f.regs[q]
  BY <1>4, <1>7, Zenon DEF Kept
<1>. HIDE DEF Upto
<1>12. \A q \in Upto(i) : r[q] = f.regs[q]
  BY <1>3, <1>9, <1>10, <1>11
<1>13. pc + 1 \notin DOMAIN InRax
  <2>1. \A x \in {27, 29, 31, 33, 41, 43, 45, 47} : x # pc + 1
    BY <1>2
  <2>. QED
    BY <2>1, Shuttle
<1>14. Kept(f, r, pc + 1)
  BY <1>8, <1>12, <1>13, Zenon DEF Kept
<1>15. Passed(f, r, pc + 1)
  BY <1>2 DEF Passed, InterruptHandler
<1>16. Pops(pc, Popped[i])
  BY <1>1, <1>2
<1>17. Depth(f, pc) \in 1 .. 22 /\ Depth(f, pc + 1) = Depth(f, pc) - 1
  <2>1. 18 - i \in 1 .. 22 /\ (18 - i) - 1 = 17 - i
    OBVIOUS
  <2>. QED
    BY <1>6, <2>1
<1>. QED
  BY <1>2, <1>3, <1>5, <1>9, <1>14, <1>15, <1>16, <1>17, PopStep

\* Vector and error code are dropped.
LEMMA DropWordsStep == IInv /\ DropWords => IInv'
<1>. SUFFICES ASSUME IInv, DropWords PROVE IInv'
  OBVIOUS
<1>. DEFINE f == frames[Len(frames)]
<1>1. /\ pc = 63 /\ pc > 0 /\ UNCHANGED <<idt, regs, frames>>
      /\ stack' = SubSeq(stack, 1, Len(stack) - 2) /\ pc' = 64
  BY DEF DropWords, Stacks
<1>2. /\ f \in InterruptFrame /\ Inside(f, regs, stack, pc)
      /\ regs \in [Registers -> Slot] /\ stack \in Seq(Slot)
  BY <1>1, Running
<1>. HIDE DEF f
<1>3. f.vector \in 0 .. 31 /\ Kept(f, regs, 63) /\ Lying(f, stack, Depth(f, 63))
  BY <1>1, <1>2 DEF Inside
<1>4. Depth(f, 63) = 2 /\ Depth(f, 64) = 0
  BY <1>3, Depths, Zenon
<1>5. stack' \in Seq(Slot) /\ Lying(f, stack', 0)
  <2>1. Base(f) \in Nat /\ Len(stack) = Base(f) + 5 + 2
    BY <1>2, <1>3, <1>4, BaseIs DEF Lying
  <2>2. Len(stack) - 2 = Base(f) + 5 + 0 /\ 2 \in 0 .. 22 /\ 0 \in 0 .. 2
    BY <2>1
  <2>. QED
    BY <1>1, <1>2, <1>3, <1>4, <2>2, DropLies
<1>6. Kept(f, regs, 64)
  <2>1. Intact(63) = Registers /\ Intact(64) = Registers
    <3>1. 63 \in 63 .. 64 /\ 64 \in 63 .. 64
      OBVIOUS
    <3>. QED
      BY <3>1, Intacts, Zenon
  <2>2. 64 \notin DOMAIN InRax
    BY Shuttle
  <2>. QED
    BY <1>3, <2>1, <2>2, Zenon DEF Kept
<1>7. Passed(f, regs, 64) /\ 64 \in 11 .. 64
  BY DEF Passed, InterruptHandler
<1>8. 64 \in Places(f)
  BY <1>3, <1>7, StubPlaces
<1>9. Inside(f, regs', stack', pc')
  BY <1>1, <1>3, <1>4, <1>5, <1>6, <1>7, <1>8 DEF Inside
<1>. QED
  BY <1>1, <1>2, <1>5, <1>9, InsideStep DEF Proper, f

\* A prefix of the stack as long as an earlier one that it starts with is that one.
LEMMA PrefixIs ==
  ASSUME NEW S, NEW s \in Seq(S), NEW t \in Seq(S), Len(t) <= Len(s),
         \A i \in 1 .. Len(t) : s[i] = t[i]
  PROVE  SubSeq(s, 1, Len(t)) = t
<1>. DEFINE m == Len(t)
<1>1. m \in Nat /\ m <= Len(s) /\ m = Len(t)
  OBVIOUS
<1>. HIDE DEF m
<1>2. SubSeq(s, 1, m) \in Seq(S) /\ Len(SubSeq(s, 1, m)) = m
      /\ \A i \in 1 .. m : SubSeq(s, 1, m)[i] = s[i]
  BY <1>1
<1>. QED
  BY <1>1, <1>2

\* A return takes the last element of a sequence away.
LEMMA FrontIs ==
  ASSUME NEW S, NEW s \in Seq(S), Len(s) >= 1
  PROVE  Front(s) \in Seq(S) /\ Len(Front(s)) = Len(s) - 1
         /\ \A i \in 1 .. Len(s) - 1 : Front(s)[i] = s[i]
<1>. DEFINE m == Len(s) - 1
<1>1. m \in 0 .. Len(s)
  OBVIOUS
<1>. HIDE DEF m
<1>2. SubSeq(s, 1, m) \in Seq(S) /\ Len(SubSeq(s, 1, m)) = m
      /\ \A i \in 1 .. m : SubSeq(s, 1, m)[i] = s[i]
  BY <1>1, Shorter
<1>. QED
  BY <1>2 DEF Front, m

\* iretq gives back registers, stack and place of what the interrupt came to.
LEMMA Returned ==
  ASSUME IInv, Return
  PROVE  /\ frames # <<>> /\ frames \in Seq(InterruptFrame) /\ Len(frames) \in Nat \ {0}
         /\ regs' = frames[Len(frames)].regs /\ stack' = frames[Len(frames)].stack
         /\ pc' = frames[Len(frames)].pc
         /\ frames[Len(frames)] \in InterruptFrame
<1>. DEFINE f == frames[Len(frames)]
<1>1. /\ pc = 64 /\ pc > 0 /\ UNCHANGED <<idt, regs>>
      /\ pc' = stack[Len(stack) - 0].value
      /\ stack' = SubSeq(stack, 1, stack[Len(stack) - 3].value)
  BY DEF Return, Top
<1>2. /\ f \in InterruptFrame /\ Inside(f, regs, stack, pc)
      /\ regs \in [Registers -> Slot] /\ stack \in Seq(Slot)
  BY <1>1, Running
<1>3. frames # <<>> /\ frames \in Seq(InterruptFrame) /\ Len(frames) \in Nat \ {0}
  BY <1>1, Running
<1>. HIDE DEF f
<1>4. Lying(f, stack, 0) /\ Kept(f, regs, 64)
  <2>1. Lying(f, stack, Depth(f, 64)) /\ Kept(f, regs, 64) /\ f.vector \in 0 .. 31
    BY <1>1, <1>2 DEF Inside
  <2>2. Depth(f, 64) = 0
    BY <2>1, Depths, Zenon
  <2>. QED
    BY <2>1, <2>2
<1>5. f.stack \in Seq(Slot) /\ Len(f.stack) \in Nat /\ Base(f) \in Nat
      /\ Len(f.stack) <= Base(f) /\ f.regs \in [Registers -> Slot]
  BY <1>2, BaseIs
<1>6. regs' = f.regs
  <2>1. Intact(64) = Registers
    <3>1. 64 \in 63 .. 64
      OBVIOUS
    <3>. QED
      BY <3>1, Intacts, Zenon
  <2>2. \A q \in Registers : regs[q] = f.regs[q]
    BY <1>4, <2>1, Zenon DEF Kept
  <2>. QED
    BY <1>1, <1>2, <1>5, <2>2
<1>7. Len(stack) - 0 = Base(f) + 5 /\ Len(stack) - 3 = Base(f) + 2 /\ Len(f.stack) <= Len(stack)
  <2>1. Len(stack) = Base(f) + 5 + 0
    BY <1>4, Zenon DEF Lying
  <2>. QED
    BY <1>5, <2>1
<1>8. stack[Base(f) + 5] = Word("rip", f.pc) /\ stack[Base(f) + 2] = Word("rsp", Len(f.stack))
      /\ \A i \in 1 .. Len(f.stack) : stack[i] = f.stack[i]
  BY <1>4, Zenon DEF Lying
<1>9. pc' = f.pc
  BY <1>1, <1>7, <1>8 DEF Word
<1>10. stack' = f.stack
  <2>1. stack[Len(stack) - 3].value = Len(f.stack)
    BY <1>7, <1>8 DEF Word
  <2>2. SubSeq(stack, 1, Len(f.stack)) = f.stack
    BY <1>2, <1>5, <1>7, <1>8, PrefixIs
  <2>. QED
    BY <1>1, <2>1, <2>2
<1>. QED
  BY <1>2, <1>3, <1>6, <1>9, <1>10 DEF f

\* iretq leaves the interrupt below, if there is one, where it was.
LEMMA ReturnStep == IInv /\ Return => IInv'
<1>. SUFFICES ASSUME IInv, Return PROVE IInv'
  OBVIOUS
<1>. DEFINE n == Len(frames)
<1>1. /\ frames # <<>> /\ frames \in Seq(InterruptFrame) /\ n \in Nat \ {0}
      /\ regs' = frames[n].regs /\ stack' = frames[n].stack /\ pc' = frames[n].pc
      /\ frames[n] \in InterruptFrame
  BY Returned
<1>2. frames' = Front(frames) /\ UNCHANGED idt
  BY DEF Return
<1>3. frames' \in Seq(InterruptFrame) /\ Len(frames') = n - 1
      /\ \A i \in 1 .. n - 1 : frames'[i] = frames[i]
  <2>1. n >= 1
    BY <1>1
  <2>. QED
    BY <1>1, <1>2, <2>1, FrontIs
<1>4. Idt'
  BY <1>2 DEF IInv, Idt
<1>5. Machine'
  <2>1. frames[n].pc \in Int /\ frames[n].regs \in [Registers -> Slot]
        /\ frames[n].stack \in Seq(Slot)
    BY <1>1 DEF InterruptFrame
  <2>. QED
    BY <1>1, <1>3, <2>1 DEF Machine
<1>6. /\ \A i \in 1 .. n - 1 :
           Proper(frames[i], frames[i + 1].regs, frames[i + 1].stack, frames[i + 1].pc)
      /\ frames[1].pc = Interrupted
  BY <1>1 DEF IInv, Nested
<1>. HIDE DEF n
<1>7. CASE n = 1
  <2>1. frames' = <<>> /\ pc' = Interrupted
    BY <1>1, <1>3, <1>6, <1>7
  <2>2. \A i \in 1 .. Len(frames') - 1 : FALSE
    BY <2>1
  <2>3. Nested'
    BY <2>1, <2>2 DEF Nested
  <2>. QED
    BY <1>4, <1>5, <2>3 DEF IInv
<1>8. CASE n # 1
  <2>1. n - 1 \in 1 .. n - 1 /\ 1 \in 1 .. n - 1 /\ (n - 1) + 1 = n
    BY <1>1, <1>8
  <2>2. Proper(frames[n - 1], frames[n].regs, frames[n].stack, frames[n].pc)
    BY <1>6, <2>1
  <2>3. Proper(frames'[Len(frames')], regs', stack', pc')
    BY <1>1, <1>3, <2>1, <2>2
  <2>4. \A i \in 1 .. Len(frames') - 1 :
          Proper(frames'[i], frames'[i + 1].regs, frames'[i + 1].stack, frames'[i + 1].pc)
    <3>. TAKE i \in 1 .. Len(frames') - 1
    <3>1. i \in 1 .. n - 1 /\ i + 1 \in 1 .. n - 1
      BY <1>1, <1>3
    <3>. QED
      BY <1>3, <1>6, <3>1
  <2>5. frames' # <<>> /\ frames'[1].pc = Interrupted
    BY <1>1, <1>3, <1>6, <2>1
  <2>6. Nested'
    BY <2>3, <2>4, <2>5 DEF Nested, Proper, Inside
  <2>. QED
    BY <1>4, <1>5, <2>6 DEF IInv
<1>. QED
  BY <1>7, <1>8

\* The words the CPU pushes.
LEMMA FramePushed ==
  ASSUME NEW S, NEW s \in Seq(S), NEW a \in S, NEW b \in S, NEW c \in S, NEW d \in S, NEW e \in S
  PROVE  /\ s \o <<a, b, c, d, e>> \in Seq(S)
         /\ Len(s \o <<a, b, c, d, e>>) = Len(s) + 5
         /\ \A i \in 1 .. Len(s) : (s \o <<a, b, c, d, e>>)[i] = s[i]
         /\ (s \o <<a, b, c, d, e>>)[Len(s) + 2] = b
         /\ (s \o <<a, b, c, d, e>>)[Len(s) + 5] = e
<1>. DEFINE t == <<a, b, c, d, e>>
<1>1. t \in Seq(S) /\ Len(t) = 5 /\ t[2] = b /\ t[5] = e
  OBVIOUS
<1>. HIDE DEF t
<1>2. /\ s \o t \in Seq(S) /\ Len(s \o t) = Len(s) + Len(t)
      /\ \A i \in 1 .. Len(s) : (s \o t)[i] = s[i]
      /\ \A i \in Len(s) + 1 .. Len(s) + Len(t) : (s \o t)[i] = t[i - Len(s)]
  BY <1>1, Joined, Zenon
<1>3. /\ Len(s) + 2 \in Len(s) + 1 .. Len(s) + 5 /\ Len(s) + 2 - Len(s) = 2
      /\ Len(s) + 5 \in Len(s) + 1 .. Len(s) + 5 /\ Len(s) + 5 - Len(s) = 5
  OBVIOUS
<1>4. /\ Len(s \o t) = Len(s) + 5
      /\ (s \o t)[Len(s) + 2] = b /\ (s \o t)[Len(s) + 5] = e
  BY <1>1, <1>2, <1>3
<1>. QED
  BY <1>2, <1>4, Zenon DEF t

\* One slot is left free before the frame on a stack that is not aligned.
LEMMA PadPushed ==
  ASSUME NEW s \in Seq(Slot), NEW p \in Slot, NEW t \in Seq(Slot)
  PROVE  s \o (<<p>> \o t) = Append(s, p) \o t
<1>1. <<p>> \in Seq(Slot)
  OBVIOUS
<1>2. (s \o <<p>>) \o t = s \o (<<p>> \o t)
  BY <1>1, ConcatAssociative
<1>3. Append(s, p) = s \o <<p>>
  BY AppendIsConcat, Zenon
<1>. QED
  BY <1>2, <1>3, Zenon

\* Joining one element is appending it, joining none changes nothing.
LEMMA OnePushed ==
  ASSUME NEW S, NEW s \in Seq(S), NEW x \in S
  PROVE  s \o <<x>> = Append(s, x) /\ s \o <<>> = s
OBVIOUS

\* The stack with which the handler of vector d starts: a frame, and perhaps an error code.
LEMMA Entered ==
  ASSUME stack \in Seq(Slot), pc \in Int, NEW d \in 0 .. 254, NEW f \in InterruptFrame,
         f.vector = d, f.stack = stack, f.pc = pc, NEW s,
         s = stack \o Frame \o (IF d \in ErrorCode THEN <<Word("error", d)>> ELSE <<>>)
  PROVE  s \in Seq(Slot) /\ Lying(f, s, HasCode(f))
<1>. DEFINE k == Len(stack)
            b == Base(f)
            ss == Word("ss", 0)
            sp == Word("rsp", k)
            fl == Word("rflags", 0)
            cs == Word("cs", 0)
            ip == Word("rip", pc)
            pad == Word("pad", 0)
            er == Word("error", d)
            s1 == stack \o Frame
<1>1. k \in Nat /\ d \in Int
  OBVIOUS
<1>2. /\ ss \in Slot /\ sp \in Slot /\ fl \in Slot /\ cs \in Slot /\ ip \in Slot
      /\ pad \in Slot /\ er \in Slot
  BY <1>1, WordIs
<1>3. b = k + (k % 2)
  BY DEF Base
<1>4. Frame = (IF k % 2 = 1 THEN <<pad>> ELSE <<>>) \o <<ss, sp, fl, cs, ip>>
  BY DEF Frame, Word
<1>5. s = s1 \o (IF d \in ErrorCode THEN <<er>> ELSE <<>>)
  OBVIOUS
<1>. HIDE DEF k, b, ss, sp, fl, cs, ip, pad, er
<1>6. b \in Nat /\ k <= b
  BY <1>1, <1>3
<1>7. /\ s1 \in Seq(Slot) /\ Len(s1) = b + 5
      /\ \A i \in 1 .. k : s1[i] = stack[i]
      /\ s1[b + 2] = sp /\ s1[b + 5] = ip
  <2>1. CASE k % 2 = 1
    <3>. DEFINE t == Append(stack, pad)
    <3>1. t \in Seq(Slot) /\ Len(t) = k + 1 /\ \A i \in 1 .. k : t[i] = stack[i]
      BY <1>2 DEF k
    <3>2. s1 = t \o <<ss, sp, fl, cs, ip>>
      <4>1. Frame = <<pad>> \o <<ss, sp, fl, cs, ip>>
        BY <1>4, <2>1, Zenon
      <4>2. stack \o (<<pad>> \o <<ss, sp, fl, cs, ip>>)
            = Append(stack, pad) \o <<ss, sp, fl, cs, ip>>
        <5>. DEFINE u == <<ss, sp, fl, cs, ip>>
        <5>1. u \in Seq(Slot) /\ pad \in Slot /\ stack \in Seq(Slot)
          BY <1>2
        <5>. HIDE DEF u
        <5>2. stack \o (<<pad>> \o u) = Append(stack, pad) \o u
          BY <5>1, PadPushed, Zenon
        <5>. QED
          BY <5>2 DEF u
      <4>. QED
        BY <4>1, <4>2, Zenon
    <3>. HIDE DEF t, s1
    <3>3. b = k + 1
      BY <1>3, <2>1
    <3>4. /\ s1 \in Seq(Slot) /\ Len(s1) = Len(t) + 5
          /\ \A i \in 1 .. Len(t) : s1[i] = t[i]
          /\ s1[Len(t) + 2] = sp /\ s1[Len(t) + 5] = ip
      <4>1. t \in Seq(Slot)
        BY <3>1
      <4>. DEFINE u == t \o <<ss, sp, fl, cs, ip>>
      <4>2. /\ u \in Seq(Slot) /\ Len(u) = Len(t) + 5
            /\ \A i \in 1 .. Len(t) : u[i] = t[i]
            /\ u[Len(t) + 2] = sp /\ u[Len(t) + 5] = ip
        BY ONLY <1>2, <4>1, FramePushed
      <4>. QED
        BY <3>2, <4>2, Zenon
    <3>5. \A i \in 1 .. k : s1[i] = stack[i]
      BY <1>1, <3>1, <3>4
    <3>. QED
      BY <3>1, <3>3, <3>4, <3>5
  <2>2. CASE k % 2 # 1
    <3>1. b = k
      BY <1>1, <1>3, <2>2
    <3>2. <<ss, sp, fl, cs, ip>> \in Seq(Slot)
      BY <1>2
    <3>3. Frame = <<ss, sp, fl, cs, ip>>
      BY <1>4, <2>2, <3>2
    <3>4. s1 = stack \o <<ss, sp, fl, cs, ip>>
      BY <3>3
    <3>. HIDE DEF s1
    <3>5. /\ s1 \in Seq(Slot) /\ Len(s1) = Len(stack) + 5
          /\ \A i \in 1 .. Len(stack) : s1[i] = stack[i]
          /\ s1[Len(stack) + 2] = sp /\ s1[Len(stack) + 5] = ip
      BY <1>2, <3>4, FramePushed
    <3>. QED
      BY <3>1, <3>5 DEF k
  <2>. QED
    BY <2>1, <2>2
<1>. HIDE DEF s1
<1>8. Lying(f, s1, 0)
  <2>1. \A i \in 1 .. 0 : FALSE
    OBVIOUS
  <2>2. Len(s1) = b + 5 + 0
    BY <1>6, <1>7
  <2>. QED
    BY <1>7, <2>1, <2>2 DEF Lying, b, k, sp, ip
<1>9. s1 \in Seq(Slot)
  BY <1>7
<1>10. CASE d \in ErrorCode
  <2>1. s = Append(s1, er)
    BY <1>2, <1>5, <1>9, <1>10, OnePushed
  <2>2. Laid(f, 1) = er /\ HasCode(f) = 1
    BY <1>10, LaidIs DEF Error, er, HasCode
  <2>3. 0 \in 0 .. 21 /\ 0 + 1 = 1
    OBVIOUS
  <2>4. Append(s1, Laid(f, 0 + 1)) \in Seq(Slot) /\ Lying(f, Append(s1, Laid(f, 0 + 1)), 0 + 1)
    BY <1>8, <1>9, <2>3, PushLies
  <2>. QED
    BY <2>1, <2>2, <2>3, <2>4
<1>11. CASE d \notin ErrorCode
  <2>1. s = s1
    BY <1>2, <1>5, <1>9, <1>11, OnePushed
  <2>2. HasCode(f) = 0
    BY <1>11 DEF HasCode
  <2>. QED
    BY <1>8, <1>9, <2>1, <2>2
<1>. QED
  BY <1>10, <1>11

\* Raising an interrupt starts a stub above whatever ran, or hangs in a loop.
LEMMA RaiseStep == ASSUME NEW v \in Vectors PROVE IInv /\ Raise(v) => IInv'
<1>. SUFFICES ASSUME IInv, Raise(v) PROVE IInv'
  OBVIOUS
<1>. DEFINE d == Delivered(v)
            f == [vector |-> d, regs |-> regs, stack |-> stack, pc |-> pc]
            n == Len(frames)
<1>1. /\ idt.idtr.base = "table" /\ UNCHANGED <<idt, regs>>
      /\ stack' = stack \o Frame \o (IF d \in ErrorCode THEN <<Word("error", d)>> ELSE <<>>)
      /\ frames' = Append(frames, f)
      /\ idt.gate[d].stub => pc' = StubOf(idt.gate[d].of)
      /\ ~idt.gate[d].stub => pc' = Forever
  BY DEF Raise
<1>2. /\ regs \in [Registers -> Slot] /\ stack \in Seq(Slot) /\ pc \in Int
      /\ frames \in Seq(InterruptFrame) /\ n \in Nat
  BY DEF IInv, Machine
<1>3. Idt'
  BY <1>1 DEF IInv, Idt
<1>4. d \in 0 .. 254 /\ idt.gate[d] = Handler(d)
  <2>1. idt.idtr # NoReg
    BY <1>1 DEF NoReg
  <2>2. /\ idt.idtr = TableReg
        /\ \A u \in 0 .. 254 : Delivered(u) = u /\ idt.gate[u] = Handler(u)
    BY <2>1, TableLoaded DEF IInv
  <2>3. v \in 0 .. 255
    BY InterruptAssumption
  <2>4. CASE v \in 0 .. 254
    BY <2>2, <2>4
  <2>5. CASE v = 255
    <3>1. d = 13
      BY <2>2, <2>5 DEF Delivered, TableReg, TableSize
    <3>. QED
      BY <2>2, <3>1
  <2>. QED
    BY <2>3, <2>4, <2>5
<1>5. idt.gate[d].stub => d \in 0 .. 31 /\ idt.gate[d].of = d
  <2>1. Handler(d).stub = (d < 32) /\ (d < 32 => Handler(d).of = d)
    <3>1. d \in 0 .. 255
      BY <1>4
    <3>. QED
      BY <3>1, HandlerIs, Zenon
  <2>2. d < 32 => d \in 0 .. 31
    BY <1>4
  <2>. QED
    BY <1>4, <2>1, <2>2, Zenon
<1>. HIDE DEF d
<1>6. f \in InterruptFrame
  <2>1. d \in Int
    BY <1>4
  <2>. QED
    BY <1>2, <2>1 DEF InterruptFrame
<1>7. f.vector = d /\ f.regs = regs /\ f.stack = stack /\ f.pc = pc
  OBVIOUS
<1>. HIDE DEF f
<1>8. stack' \in Seq(Slot) /\ Lying(f, stack', HasCode(f))
  BY <1>1, <1>2, <1>4, <1>6, <1>7, Entered
<1>9. Proper(f, regs', stack', pc') /\ pc' \in Int
  <2>1. CASE ~idt.gate[d].stub
    BY <1>1, <2>1 DEF Proper, Forever
  <2>2. CASE idt.gate[d].stub
    <3>1. f.vector \in 0 .. 31 /\ pc' = StubOf(f.vector)
      BY <1>1, <1>5, <1>7, <2>2
    <3>2. pc' \in Int /\ pc' >= 100
      BY <3>1 DEF StubOf
    <3>3. pc' \in Places(f)
      <4>1. 0 \in 0 .. 3 /\ 0 <= 3 - HasCode(f) /\ StubOf(f.vector) + 0 = StubOf(f.vector)
        BY <3>1 DEF HasCode, StubOf
      <4>2. StubOf(f.vector) + 0 \in Places(f)
        BY <3>1, <4>1, StubPlaces
      <4>. QED
        BY <3>1, <4>1, <4>2
    <3>4. Depth(f, pc') = HasCode(f)
      BY <3>1, Depths
    <3>5. \A q \in Registers : regs'[q] = f.regs[q]
      BY <1>1, <1>7
    <3>6. Kept(f, regs', pc') /\ Passed(f, regs', pc')
      BY <3>2, <3>5, Early
    <3>7. Inside(f, regs', stack', pc')
      BY <1>8, <3>1, <3>3, <3>4, <3>6 DEF Inside
    <3>. QED
      BY <3>2, <3>7 DEF Proper
  <2>. QED
    BY <2>1, <2>2
<1>10. /\ frames' \in Seq(InterruptFrame) /\ Len(frames') = n + 1 /\ frames'[n + 1] = f
       /\ \A i \in 1 .. n : frames'[i] = frames[i]
  <2>1. frames' = Append(frames, f) /\ frames \in Seq(InterruptFrame)
    BY <1>1, <1>2, Zenon
  <2>. QED
    BY <1>6, <2>1, Appended
<1>11. Machine'
  BY <1>1, <1>2, <1>8, <1>9, <1>10 DEF Machine
<1>12. frames = <<>> => n = 0 /\ pc = Interrupted
  BY DEF IInv, Nested
<1>13. frames # <<>> => /\ Proper(frames[n], regs, stack, pc) /\ frames[1].pc = Interrupted
                        /\ n \in 1 .. n /\ 1 \in 1 .. n
  BY <1>2 DEF IInv, Nested
<1>14. \A i \in 1 .. n - 1 :
         Proper(frames[i], frames[i + 1].regs, frames[i + 1].stack, frames[i + 1].pc)
  BY DEF IInv, Nested
<1>. HIDE DEF n
<1>15. \A i \in 1 .. Len(frames') - 1 :
         Proper(frames'[i], frames'[i + 1].regs, frames'[i + 1].stack, frames'[i + 1].pc)
  <2>. TAKE i \in 1 .. Len(frames') - 1
  <2>1. CASE i = n
    <3>1. frames # <<>> /\ frames'[n] = frames[n]
      BY <1>2, <1>10, <1>12, <2>1
    <3>. QED
      BY <1>7, <1>10, <1>13, <2>1, <3>1
  <2>2. CASE i # n
    <3>1. i \in 1 .. n - 1 /\ i \in 1 .. n /\ i + 1 \in 1 .. n
      BY <1>2, <1>10, <2>2
    <3>. QED
      BY <1>10, <1>14, <3>1
  <2>. QED
    BY <2>1, <2>2
<1>16. frames'[1].pc = Interrupted
  <2>1. CASE frames = <<>>
    BY <1>7, <1>10, <1>12, <2>1
  <2>2. CASE frames # <<>>
    BY <1>10, <1>13, <2>2
  <2>. QED
    BY <2>1, <2>2
<1>17. frames' # <<>> /\ Proper(frames'[Len(frames')], regs', stack', pc')
  BY <1>2, <1>9, <1>10
<1>18. Nested'
  BY <1>15, <1>16, <1>17 DEF Nested, Proper, Inside
<1>. QED
  BY <1>3, <1>11, <1>18 DEF IInv

-----------------------------------------------------------------------------
\* The invariant of interrupt entry and exit, for every set of vectors.
LEMMA InterruptInductive == Spec => []IInv
<1>1. Init => IInv
  <2>. SUFFICES ASSUME Init PROVE IInv
    OBVIOUS
  <2>1. Idt
    BY IdtStarts
  <2>2. /\ regs = [r \in Registers |-> Word(r, 0)]
        /\ stack = <<>> /\ pc = Interrupted /\ frames = <<>>
    BY DEF Init
  <2>3. regs \in [Registers -> Slot]
    <3>1. \A r \in Registers : Word(r, 0) \in Slot
      BY DEF Word, Slot, Origins
    <3>. QED
      BY <2>2, <3>1
  <2>4. Machine
    BY <2>2, <2>3 DEF Machine, Interrupted
  <2>5. Nested
    BY <2>2 DEF Nested
  <2>. QED
    BY <2>1, <2>4, <2>5 DEF IInv
<1>2. IInv /\ [Next]_vars => IInv'
  <2>. SUFFICES ASSUME IInv, [Next]_vars PROVE IInv'
    OBVIOUS
  <2>1. Idt'
    BY IdtStep DEF IInv
  <2>2. CASE UNCHANGED <<regs, stack, pc, frames>>
    <3>1. Machine'
      BY <2>2 DEF IInv, Machine
    <3>2. Nested'
      BY <2>2 DEF IInv, Nested, Proper, Inside
    <3>. QED
      BY <2>1, <3>1, <3>2 DEF IInv
  <2>3. CASE LoadIdt
    BY <2>2, <2>3 DEF LoadIdt, SetGate, Lidt
  <2>4. CASE UNCHANGED vars
    BY <2>2, <2>4 DEF vars
  <2>. QED
    BY <2>3, <2>4, RaiseStep, CliStep, PushWordStep, JumpStep, SaveGeneralStep, SaveSegmentStep,
       LoadArgumentsStep, CallStep, HandleStep, ReloadRspStep, RestoreSegmentStep,
       RestoreGeneralStep, DropWordsStep, ReturnStep DEF Next
<1>. QED
  BY <1>1, <1>2, PTL DEF Spec

\* For every set of vectors and every depth: interrupt_handler is entered with the vector,
\* the error code and the address of the frame of the interrupt that runs in rdi, rdx and
\* rsi (interrupt.s:34-38).
THEOREM HandlerArgumentsHolds == Spec => []HandlerArguments
<1>1. IInv => HandlerArguments
  <2>. DEFINE f == Last(frames)
              a == regs["rsi"].value
  <2>. SUFFICES ASSUME IInv, pc = InterruptHandler
                PROVE  /\ regs["rdi"] = Word("vector", f.vector)
                       /\ regs["rdx"] = Word("error", IF f.vector \in ErrorCode THEN f.vector ELSE 0)
                       /\ stack[a] = Word("rip", f.pc)
                       /\ stack[a - 3] = Word("rsp", Len(f.stack))
    BY DEF HandlerArguments
  <2>1. pc > 0
    BY DEF InterruptHandler
  <2>2. f \in InterruptFrame /\ Inside(f, regs, stack, InterruptHandler)
    BY <2>1, Running DEF Last
  <2>. HIDE DEF f
  <2>3. \E n : Lying(f, stack, n)
    BY <2>2, Zenon DEF Inside
  <2>4. /\ regs["rdi"] = Word("vector", f.vector) /\ regs["rdx"] = Error(f)
        /\ regs["rsi"] = Word("address", Base(f) + 5)
    BY <2>2 DEF Inside, Passed
  <2>5. Base(f) \in Nat
    BY <2>2, BaseIs
  <2>6. a = Base(f) + 5
    BY <2>4 DEF Word
  <2>7. a - 3 = Base(f) + 2
    BY <2>5, <2>6
  <2>8. stack[Base(f) + 5] = Word("rip", f.pc) /\ stack[Base(f) + 2] = Word("rsp", Len(f.stack))
    BY <2>3, Zenon DEF Lying
  <2>. QED
    BY <2>4, <2>6, <2>7, <2>8 DEF Error
<1>. QED
  BY <1>1, InterruptInductive, PTL

\* For every set of vectors and every depth: iretq restores every register, the stack and
\* the place of the interrupted code, a stub or entry_vector included (interrupt.s:10-80).
THEOREM TransparentHolds == Spec => Transparent
<1>1. IInv /\ [Next]_vars =>
        [Len(frames') < Len(frames) =>
           LET f == Last(frames) IN regs' = f.regs /\ stack' = f.stack /\ pc' = f.pc]_vars
  <2>. SUFFICES ASSUME IInv, [Next]_vars, Len(frames') < Len(frames)
                PROVE  LET f == Last(frames) IN regs' = f.regs /\ stack' = f.stack /\ pc' = f.pc
    OBVIOUS
  <2>1. frames \in Seq(InterruptFrame) /\ Len(frames) \in Nat
    BY DEF IInv, Machine
  <2>2. frames' # frames
    BY <2>1
  <2>3. ASSUME NEW v \in Vectors, Raise(v) PROVE FALSE
    <3>1. frames' = Append(frames, [vector |-> Delivered(v), regs |-> regs,
                                    stack |-> stack, pc |-> pc])
      BY <2>3 DEF Raise
    <3>2. Len(frames') = Len(frames) + 1
      BY <2>1, <3>1
    <3>. QED
      BY <2>1, <3>2
  <2>4. Return
    BY <2>2, <2>3 DEF Next, LoadIdt, SetGate, Lidt, Cli, PushWord, Jump, SaveGeneral, SaveSegment,
                      LoadArguments, Call, Handle, ReloadRsp, RestoreSegment, RestoreGeneral,
                      DropWords, Stacks, Loads, Pops, vars
  <2>. QED
    BY <2>4, Returned DEF Last
<1>. QED
  BY <1>1, InterruptInductive, PTL DEF Spec, Transparent
=============================================================================
