----------------------------- MODULE Interrupt ------------------------------
(***************************************************************************)
(* Interrupt entry and exit: the gates of load_idt and interrupt_handler   *)
(* (delice_pxe/src/interrupt.cc) and the stubs and entry_vector of         *)
(* interrupt.s, one instruction per step; interrupt_handler itself is the  *)
(* call and one step that does what it does and returns.  A non-maskable   *)
(* interrupt may come between any two steps, in a stub, behind the call    *)
(* and before iretq too, and runs the same code on the same stack: every   *)
(* gate has ist = 0.                                                       *)
(*                                                                         *)
(* load_idt comes first, one store of a gate per step; what an NMI does    *)
(* before it is done is in Boot.                                           *)
(*                                                                         *)
(* A register or a stack slot holds a word that tells where it comes from, *)
(* with a number where the code uses one.  The stack grows to the right, 8 *)
(* bytes a slot; rsp is its length, and the address of a slot its index.   *)
(* pc is the line of the instruction of entry_vector in interrupt.s, or    *)
(* one of the places named below.                                          *)
(***************************************************************************)
EXTENDS Integers, Sequences, SequencesExt

CONSTANTS Vectors,   \* the vectors that may be raised
          MaxDepth   \* bound: interrupts in progress on top of each other

ASSUME InterruptAssumption == Vectors \subseteq 0 .. 255 /\ MaxDepth \in Nat

VARIABLES idt,     \* the interrupt descriptor table, a record of
                   \*   gate    the gates, by vector, the last one behind the table
                   \*   ii      the loop variable of load_idt
                   \*   behind  what the linker put behind the table
                   \*   reg     struct idt_reg
                   \*   idtr    what lidt loaded from it
          regs,    \* general purpose and segment registers
          stack,   \* the stack the core is on
          pc,      \* the next instruction
          frames   \* for each interrupt in progress: what it interrupted

vars == <<idt, regs, stack, pc, frames>>

-----------------------------------------------------------------------------
(* The CPU (external).                                                     *)

\* Exceptions for which the CPU pushes an error code, without those that need
\* CET or SVM (21, 29, 30), which this kernel does not enable.
ErrorCode == {8, 10, 11, 12, 13, 14, 17}

Segments == {"gs", "fs", "es", "ds"}
CalleeSaved == {"rbx", "rbp", "r12", "r13", "r14", "r15"}
CallerSaved == {"rax", "rcx", "rdx", "rsi", "rdi", "r8", "r9", "r10", "r11"}
Registers == Segments \cup CalleeSaved \cup CallerSaved

Word(w, v) == [word |-> w, value |-> v]

\* Places of the code: what was interrupted, a loop that does not end, the entry of
\* interrupt_handler and, 4 instructions apart, the stubs of interrupt.s.
Interrupted == 0
Forever == -1
InterruptHandler == 90
StubOf(v) == 100 + 4 * v

\* The five words of the frame, on a stack aligned to 16 bytes.
Frame == (IF Len(stack) % 2 = 1 THEN <<Word("pad", 0)>> ELSE <<>>)
         \o << Word("ss", 0), Word("rsp", Len(stack)), Word("rflags", 0), Word("cs", 0),
               Word("rip", pc) >>

-----------------------------------------------------------------------------
(* interrupt.cc: load_idt.                                                 *)

TableSize == 255

\* ex_handlers[ii] for the first 32 vectors, default_trap_handler for the others.
Handler(v) == [stub |-> v < 32, of |-> IF v < 32 THEN v ELSE 0]

NoGate == [stub |-> FALSE, of |-> -1]
NoReg == [limit |-> 0, base |-> "none"]
GateBytes == [limit |-> 0, base |-> "gate"]   \* a gate, read as struct idt_reg

\* The second loop counts with a uint16_t.
After(ii) == (ii + 1) % 65536

\* Whether the store of gate v goes behind the table, over struct idt_reg.
Overwrites(v) == v >= TableSize /\ idt.behind = "idt"

\* set_interrupt_gate, in the order of the two loops.
SetGate == /\ idt.ii < 256
           /\ idt' = [idt EXCEPT !.gate[idt.ii] = Handler(idt.ii), !.ii = After(@),
                                 !.reg = IF Overwrites(idt.ii) THEN GateBytes ELSE @]
           /\ UNCHANGED <<regs, stack, pc, frames>>

TableReg == [limit |-> TableSize * 16 - 1, base |-> "table"]

\* Mutant: idt is filled before the gates are.
LidtOfEarlierFill ==
  /\ idt.ii = 256 /\ idt.idtr = NoReg
  /\ LET reg == IF Overwrites(255) THEN idt.reg ELSE TableReg
     IN  idt' = [idt EXCEPT !.reg = reg, !.idtr = reg]
  /\ UNCHANGED <<regs, stack, pc, frames>>

\* idt is filled, and loaded.
Lidt == /\ idt.ii = 256 /\ idt.idtr = NoReg
        /\ idt' = [idt EXCEPT !.reg = TableReg, !.idtr = TableReg]
        /\ UNCHANGED <<regs, stack, pc, frames>>

\* A vector behind the limit raises a general protection fault instead.
Delivered(v) == IF v * 16 + 15 <= idt.idtr.limit THEN v ELSE 13

-----------------------------------------------------------------------------
(* interrupt.s                                                             *)

\* Mutant: vector 8 has the stub of an exception without error code.
PushedAllZero(v) == <<Word("error", 0), Word("vector", v)>>

\* What the stub of v pushes: EXCEPTION_ENTRY 0 and the vector,
\* EXCEPTION_ENTRY_ERROR_CODE the vector behind the error code of the CPU.
Pushed(v) == IF v \in {8, 10, 11, 12, 13, 14, 17} THEN <<Word("vector", v)>>
             ELSE <<Word("error", 0), Word("vector", v)>>

\* The pushes of general purpose registers, ...
General == <<"rax", "rbx", "rcx", "rdx", "rsi", "rdi", "rbp",
             "r15", "r14", "r13", "r12", "r11", "r10", "r9", "r8">>

\* ... of segment registers, ...
SavedSegments == <<"gs", "fs", "es", "ds">>

\* ... and their pops.
PoppedSegments == <<"ds", "es", "fs", "gs">>

\* Mutant: r8 to r15 are popped in the order in which they were pushed.
SameOrder == <<"r15", "r14", "r13", "r12", "r11", "r10", "r9", "r8">>
             \o <<"rbp", "rdi", "rsi", "rdx", "rcx", "rbx", "rax">>

Popped == <<"r8", "r9", "r10", "r11", "r12", "r13", "r14", "r15",
            "rbp", "rdi", "rsi", "rdx", "rcx", "rbx", "rax">>

\* [rsp + 8 * n]
Top(n) == stack[Len(stack) - n]

-----------------------------------------------------------------------------
Init == /\ \E behind \in {"idt", "other"} :
             idt = [gate |-> [v \in 0 .. 255 |-> NoGate], ii |-> 0, behind |-> behind,
                    reg |-> NoReg, idtr |-> NoReg]
        /\ regs = [r \in Registers |-> Word(r, 0)]
        /\ stack = <<>>
        /\ pc = Interrupted
        /\ frames = <<>>

\* Vector v is raised: an exception in code that is no handler, or an NMI (2)
\* anywhere but in the handler of another, which blocks it until iretq.
Raise(v) ==
  LET d == Delivered(v)
      gate == idt.gate[d]
  IN  /\ idt.idtr.base = "table"
      /\ Len(frames) < MaxDepth
      /\ IF v = 2 THEN \A i \in DOMAIN frames : frames[i].vector # 2
                  ELSE frames = <<>>
      /\ stack' = stack \o Frame \o (IF d \in ErrorCode THEN <<Word("error", d)>> ELSE <<>>)
      /\ frames' = Append(frames, [vector |-> d, regs |-> regs, stack |-> stack, pc |-> pc])
      /\ pc' = IF gate.stub THEN StubOf(gate.of) ELSE Forever
      /\ UNCHANGED <<idt, regs>>

\* The instruction at p changes rsp and what is on the stack, to s.
Stacks(p, s) == pc = p /\ stack' = s /\ pc' = p + 1 /\ UNCHANGED <<idt, regs, frames>>

\* The instruction at p loads register r with w.
Loads(p, r, w) == /\ pc = p
                  /\ regs' = [regs EXCEPT ![r] = w]
                  /\ pc' = p + 1
                  /\ UNCHANGED <<idt, stack, frames>>

\* The instruction at p pops into register r.
Pops(p, r) == /\ pc = p
              /\ regs' = [regs EXCEPT ![r] = Top(0)]
              /\ stack' = SubSeq(stack, 1, Len(stack) - 1)
              /\ pc' = p + 1
              /\ UNCHANGED <<idt, frames>>

\* A stub: cli, which keeps no NMI away, the pushes and jmp entry_vector.
Cli == \E v \in 0 .. 31 : Stacks(StubOf(v), stack)

PushWord == \E v \in 0 .. 31 : \E i \in DOMAIN Pushed(v) :
              Stacks(StubOf(v) + i, Append(stack, Pushed(v)[i]))

Jump == /\ \E v \in 0 .. 31 : pc = StubOf(v) + Len(Pushed(v)) + 1
        /\ pc' = 11
        /\ UNCHANGED <<idt, regs, stack, frames>>

SaveGeneral == \E i \in 1 .. 15 : Stacks(10 + i, Append(stack, regs[General[i]]))

\* mov rax, gs; push rax; and so on
SaveSegment == \E i \in 1 .. 4 : \/ Loads(24 + 2 * i, "rax", regs[SavedSegments[i]])
                                 \/ Stacks(25 + 2 * i, Append(stack, regs["rax"]))

\* The vector, the error code, the state (rsp) and the address of the frame.
LoadArguments == \/ Loads(34, "rdi", Top(19))
                 \/ Loads(35, "rdx", Top(20))
                 \/ Loads(36, "rcx", Word("address", Len(stack)))
                 \/ Loads(37, "rsi", Word("address", Len(stack) - 21))

Call == /\ pc = 38
        /\ stack' = Append(stack, Word("return", 39))
        /\ pc' = InterruptHandler
        /\ UNCHANGED <<idt, regs, frames>>

\* interrupt_handler: page and protection faults do not return, the others return state
\* after eoi.  The function spoils the other registers the ABI lets it spoil.
Handle ==
  /\ pc = InterruptHandler
  /\ IF regs["rdi"].value \in {13, 14}
     THEN pc' = Forever /\ UNCHANGED <<regs, stack>>
     ELSE /\ pc' = Top(0).value
          /\ stack' = SubSeq(stack, 1, Len(stack) - 1)
          /\ regs' = [r \in Registers |-> IF r = "rax" THEN regs["rcx"]
                                          ELSE IF r \in CallerSaved THEN Word("spoilt", 0)
                                          ELSE regs[r]]
  /\ UNCHANGED <<idt, frames>>

\* mov rsp, rax
ReloadRsp == Stacks(39, SubSeq(stack, 1, regs["rax"].value))

\* pop rax; mov ds, rax; and so on
RestoreSegment == \E i \in 1 .. 4 : \/ Pops(38 + 2 * i, "rax")
                                    \/ Loads(39 + 2 * i, PoppedSegments[i], regs["rax"])

RestoreGeneral == \E i \in 1 .. 15 : Pops(47 + i, Popped[i])

\* add rsp, 16 drops vector and error code.
DropWords == Stacks(63, SubSeq(stack, 1, Len(stack) - 2))

\* iretq loads rip and rsp.
Return == /\ pc = 64
          /\ pc' = Top(0).value
          /\ stack' = SubSeq(stack, 1, Top(3).value)
          /\ frames' = Front(frames)
          /\ UNCHANGED <<idt, regs>>

LoadIdt == SetGate \/ Lidt

Next == \/ LoadIdt
        \/ \E v \in Vectors : Raise(v)
        \/ Cli \/ PushWord \/ Jump
        \/ SaveGeneral \/ SaveSegment \/ LoadArguments \/ Call \/ Handle \/ ReloadRsp
        \/ RestoreSegment \/ RestoreGeneral \/ DropWords \/ Return

Spec == Init /\ [][Next]_vars

-----------------------------------------------------------------------------
\* The table that is loaded is the one that was filled, and leads every vector below 255
\* to its own handler (interrupt.cc:87-101), although the store of gate 255 goes behind
\* the table, perhaps over the struct lidt reads.
EveryVectorHandled ==
  idt.idtr # NoReg =>
    /\ idt.idtr = TableReg
    /\ \A v \in 0 .. 254 : Delivered(v) = v /\ idt.gate[v].stub = (v < 32)
                                          /\ (v < 32 => idt.gate[v].of = v)

\* interrupt_handler is entered with the vector and the error code of the interrupt it
\* handles and with the address of the frame the CPU pushed for it (interrupt.s:34-38),
\* with and without an error code from the CPU, and also when another interrupt came
\* while the words were pushed and the arguments loaded.
HandlerArguments ==
  pc = InterruptHandler =>
    LET f == Last(frames)
        frame == regs["rsi"].value
    IN  /\ regs["rdi"] = Word("vector", f.vector)
        /\ regs["rdx"] = Word("error", IF f.vector \in ErrorCode THEN f.vector ELSE 0)
        /\ stack[frame] = Word("rip", f.pc) /\ stack[frame - 3] = Word("rsp", Len(f.stack))

\* iretq gives back the interrupted code exactly what it had: every register,
\* the stack and the place, also if that code is a stub, entry_vector or the handler.
Transparent ==
  [][Len(frames') < Len(frames) =>
       LET f == Last(frames) IN regs' = f.regs /\ stack' = f.stack /\ pc' = f.pc]_vars
=============================================================================
