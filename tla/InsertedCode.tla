----------------------------- MODULE InsertedCode -----------------------------
(***************************************************************************)
(* The two pieces of assembly that add_afl.py inserts into running code    *)
(* and that must not disturb it: the coverage trampoline                   *)
(* (AFLTrampolinePatch, with the function __afl_trace it calls) and the    *)
(* call of an injected C function (CallFunctionPatch).                     *)
(*                                                                         *)
(* The target may be anywhere when it comes to one of them: flags in use,  *)
(* data in the red zone below its stack pointer, the stack pointer aligned *)
(* to 8 bytes only.  The stack is counted in slots of 8 bytes; `stack' is  *)
(* what the inserted code and the functions it calls have written to it,   *)
(* slot by slot.  A block id and a map index are sets of bit positions:    *)
(* exclusive or is symmetric difference, a shift to the right moves each   *)
(* bit down.                                                               *)
(***************************************************************************)
EXTENDS Integers, Sequences

CONSTANTS
  Width,     \* bits of a block id: 16
  Modulus,   \* values of a map cell: 256
  Tops,      \* stack pointers of the target, in slots
  MaxVisits  \* bound: blocks visited

ASSUME WidthAssumption  == Width \in Nat \ {0} /\ Modulus \in Nat \ {0, 1}
ASSUME TopsAssumption   == \A t \in Tops : t \in Nat /\ t > 80
ASSUME VisitsAssumption == MaxVisits \in Nat

Index   == SUBSET (0..(Width - 1))
RedZone == 16               \* 128 bytes that belong to the target

\* Registers that C functions may change, one that they preserve, and a vector
\* register.  A register or a slot with what the target had in a register holds
\* the name of that register, so that a value in the wrong place shows; the
\* other values are the target's flags, a return address, and a stack pointer.
CallerSaved == {"rax", "rcx", "rdx", "rsi", "rdi", "r8", "r9", "r10", "r11"}
Regs        == CallerSaved \cup {"rbx", "xmm"}
Values      == Regs \cup {"rflags", "return", "old_rsp", "junk"}
TargetRegs  == [r \in Regs |-> r]

\* `others' stands for SF, ZF, AF and PF.
Flags       == [CF : BOOLEAN, OF : BOOLEAN, others : {"target", "junk"}]
TargetFlags == {f \in Flags : f.others = "target"}
JunkFlags   == Flags \ TargetFlags

NothingWritten == [s \in {} |-> "junk"]

VARIABLES
  pc,
  regs, flags, rsp,
  stack,     \* values by slot, of the slots written since the patch began
  kept,      \* saved flags: in ah and al, or by pushfq
  old_rsp,   \* the stack pointer that is pushed before a call
  id,        \* the block id in rcx, in __afl_trace
  prev_loc,  \* __afl_prev_loc
  area,      \* the map at __afl_area_ptr
  patch,     \* ghost: what the target has come to last,
  found,     \*        the flags and the stack pointer it had then,
  last,      \*        the block it visited last,
  hits,      \*        visits by edge,
  visits     \*        and all visits

ghosts == <<patch, found>>
path   == <<last, hits, visits>>
vars   == <<pc, regs, flags, rsp, stack, kept, old_rsp, id, prev_loc, area,
            patch, found, last, hits, visits>>

TypeOK ==
  /\ pc \in {"target", "save_flags", "record", "restore_flags", "leave",
             "save_regs", "align", "call", "unalign", "restore_regs", "release"}
  /\ regs \in [Regs -> Values]
  /\ flags \in Flags /\ kept \in Flags
  /\ rsp \in Nat /\ old_rsp \in Nat
  /\ DOMAIN stack \subseteq Nat /\ stack \in [DOMAIN stack -> Values]
  /\ id \in Index /\ prev_loc \in Index
  /\ area \in [Index -> 0..(Modulus - 1)]
  /\ patch \in {"none", "trampoline", "call"}
  /\ found \in [flags : TargetFlags, rsp : Tops]
  /\ last \in Index /\ hits \in [Index -> Nat] /\ visits \in 0..MaxVisits

Init ==
  /\ pc = "target"
  /\ regs = TargetRegs /\ flags \in TargetFlags /\ rsp \in Tops
  /\ stack = NothingWritten
  /\ kept = flags /\ old_rsp = rsp /\ id = {}
  /\ prev_loc = {} /\ area = [i \in Index |-> 0]
  /\ patch = "none" /\ found = [flags |-> flags, rsp |-> rsp]
  /\ last = {} /\ hits = [i \in Index |-> 0] /\ visits = 0

-----------------------------------------------------------------------------
Xor(a, b) == (a \ b) \cup (b \ a)
Shr(a)    == {i - 1 : i \in a \ {0}}

Junk(r, S) == [x \in Regs |-> IF x \in S THEN "junk" ELSE r[x]]
Even(n)    == n - (n % 2)

\* What the slot s holds; where nobody has written it may be anything.
Slot(s) == IF s \in DOMAIN stack THEN stack[s] ELSE "junk"

\* The values of q are pushed one after the other, the stack pointer being top.
Push(top, q) ==
  LET bottom == top - Len(q) IN
  /\ rsp' = bottom
  /\ stack' = [s \in DOMAIN stack \cup (bottom..(top - 1)) |->
                 IF s \in bottom..(top - 1) THEN q[top - s] ELSE stack[s]]

\* The target has run on, its flags and stack pointer are what they may be, and
\* it comes to an inserted patch.
ComesTo(what) ==
  /\ pc = "target"
  /\ patch' = what
  /\ \E f \in TargetFlags, t \in Tops : found' = [flags |-> f, rsp |-> t]

-----------------------------------------------------------------------------
(***************************************************************************)
(* AFLTrampolinePatch and __afl_trace                                      *)
(***************************************************************************)
ShortFrame == 18     \* mutant: lea rsp,[rsp-0x90]
Frame      == 19     \* lea rsp,[rsp-0x98]

\* rdx, rcx and rax go to the low end of the frame, the block's id into rcx;
\* the call pushes the return address.
EnterTrampoline ==
  /\ ComesTo("trampoline") /\ visits < MaxVisits
  /\ flags' = found'.flags
  /\ rsp' = found'.rsp - Frame - 1
  /\ stack' = [s \in (rsp')..(rsp' + 3) |->
                 <<"return", "rdx", "rcx", "rax">>[s - rsp' + 1]]
  /\ id' \in Index
  /\ regs' = Junk(TargetRegs, {"rcx"})
  /\ pc' = "save_flags"
  /\ UNCHANGED <<kept, old_rsp, prev_loc, area, path>>

\* lahf; seto al
SaveFlags ==
  /\ pc = "save_flags"
  /\ kept' = flags /\ regs' = Junk(regs, {"rax"})
  /\ pc' = "record"
  /\ UNCHANGED <<flags, rsp, stack, old_rsp, id, prev_loc, area, ghosts, path>>

NotShifted(block) == block      \* mutant: no shr
Previous(block) == Shr(block)

NotPrevious(block) == block     \* mutant: the previous block is left out
Edge(block) == Xor(block, prev_loc)

WordCell(c, n) == c + n        \* mutant: the cell is wider than a byte
Counted(c, n)  == (c + n) % Modulus

\* The two xor and shr leave the id shifted in __afl_prev_loc and its lowest
\* bit in CF, which inc keeps and adc adds.
Carry == IF 0 \in id THEN 1 ELSE 0

Record ==
  /\ pc = "record"
  /\ area' = [area EXCEPT ![Edge(id)] = Counted(@, 1 + Carry)]
  /\ prev_loc' = Previous(id)
  /\ flags' \in JunkFlags
  /\ regs' = Junk(regs, {"rdx", "rcx"})
  /\ hits' = [hits EXCEPT ![Xor(id, Shr(last))] = @ + 1]
  /\ last' = id /\ visits' = visits + 1
  /\ pc' = "restore_flags"
  /\ UNCHANGED <<rsp, stack, kept, old_rsp, id, ghosts>>

OverflowLost(f) == [f EXCEPT !.OF = FALSE]    \* mutant: no add al,0x7f
Loaded(f) == f

\* add al,0x7f; sahf; ret
RestoreFlags ==
  /\ pc = "restore_flags"
  /\ flags' = Loaded(kept) /\ rsp' = rsp + 1
  /\ pc' = "leave"
  /\ UNCHANGED <<regs, stack, kept, old_rsp, id, prev_loc, area, ghosts, path>>

LeaveTrampoline ==
  /\ pc = "leave"
  /\ regs' = [regs EXCEPT !["rdx"] = Slot(rsp), !["rcx"] = Slot(rsp + 1),
                          !["rax"] = Slot(rsp + 2)]
  /\ rsp' = rsp + Frame
  /\ pc' = "target"
  /\ UNCHANGED <<flags, stack, kept, old_rsp, id, prev_loc, area, ghosts, path>>

-----------------------------------------------------------------------------
(***************************************************************************)
(* CallFunctionPatch                                                       *)
(***************************************************************************)
SaveStack == 32             \* sub rsp, 0x100

\* pushfq and the pushes, in their order
Saves ==
  <<"rflags", "rax", "rcx", "rdx", "rsi", "rdi", "r8", "r9", "r10", "r11", "rax">>

\* The pops and popfq, in theirs
RestoresNoR8 ==             \* mutant: pop r8 is left out
  <<"rax", "r11", "r10", "r9", "rdi", "rsi", "rdx", "rcx", "rax", "rflags">>
Restores ==
  <<"rax", "r11", "r10", "r9", "r8", "rdi", "rsi", "rdx", "rcx", "rax", "rflags">>

\* sub rsp: the red zone is passed over, and the flags are those of the
\* subtraction.
Reserve ==
  /\ ComesTo("call")
  /\ rsp' = found'.rsp - SaveStack /\ stack' = NothingWritten
  /\ flags' \in JunkFlags
  /\ regs' = TargetRegs
  /\ pc' = "save_regs"
  /\ UNCHANGED <<kept, old_rsp, id, prev_loc, area, path>>

SaveRegs ==
  /\ pc = "save_regs"
  /\ Push(rsp, [k \in 1..Len(Saves) |->
                  IF Saves[k] = "rflags" THEN "rflags" ELSE regs[Saves[k]]])
  /\ kept' = flags
  /\ pc' = "align"
  /\ UNCHANGED <<regs, flags, old_rsp, id, prev_loc, area, ghosts, path>>

Unaligned(n) == n           \* mutant: and rsp is left out
Aligned(n)   == Even(n)

\* mov rax, rsp: the old stack pointer is pushed twice, below an unused gap, so
\* that the call finds the stack aligned.
Align ==
  /\ pc = "align"
  /\ old_rsp' = rsp /\ regs' = [regs EXCEPT !["rax"] = "old_rsp"]
  /\ Push(Aligned(rsp - RedZone), <<"old_rsp", "old_rsp">>)
  /\ flags' \in JunkFlags
  /\ pc' = "call"
  /\ UNCHANGED <<kept, id, prev_loc, area, ghosts, path>>

\* The C function uses the stack below and the registers it may use.
Call ==
  /\ pc = "call"
  /\ stack' = [s \in DOMAIN stack \cup (0..(rsp - 1)) |->
                 IF s < rsp THEN "junk" ELSE stack[s]]
  /\ regs' = Junk(regs, CallerSaved \cup {"xmm"}) /\ flags' \in JunkFlags
  /\ pc' = "unalign"
  /\ UNCHANGED <<rsp, kept, old_rsp, id, prev_loc, area, ghosts, path>>

\* pop rax; mov rsp, rax.  Anything but the old stack pointer leads nowhere.
Unalign ==
  /\ pc = "unalign"
  /\ regs' = [regs EXCEPT !["rax"] = Slot(rsp)]
  /\ rsp' = IF Slot(rsp) = "old_rsp" THEN old_rsp ELSE 0
  /\ pc' = "restore_regs"
  /\ UNCHANGED <<flags, stack, kept, old_rsp, id, prev_loc, area, ghosts, path>>

\* What the last pop into x finds: the k-th pop reads k - 1 slots above rsp.
LastPop(x, k) ==
  /\ Restores[k] = x
  /\ \A j \in DOMAIN Restores : j > k => Restores[j] # x

Popped(x) == Slot(rsp - 1 + CHOOSE k \in DOMAIN Restores : LastPop(x, k))

RestoreRegs ==
  /\ pc = "restore_regs"
  /\ regs' = [r \in Regs |->
                IF \E k \in DOMAIN Restores : Restores[k] = r
                THEN Popped(r) ELSE regs[r]]
  /\ flags' \in IF Popped("rflags") = "rflags" THEN {kept} ELSE JunkFlags
  /\ rsp' = rsp + Len(Restores)
  /\ pc' = "release"
  /\ UNCHANGED <<stack, kept, old_rsp, id, prev_loc, area, ghosts, path>>

\* add rsp: once more the flags of an addition
Release ==
  /\ pc = "release"
  /\ rsp' = rsp + SaveStack /\ flags' \in JunkFlags
  /\ pc' = "target"
  /\ UNCHANGED <<regs, stack, kept, old_rsp, id, prev_loc, area, ghosts, path>>

Next ==
  \/ EnterTrampoline \/ SaveFlags \/ Record \/ RestoreFlags \/ LeaveTrampoline
  \/ Reserve \/ SaveRegs \/ Align \/ Call \/ Unalign \/ RestoreRegs \/ Release

Spec == Init /\ [][Next]_vars

-----------------------------------------------------------------------------
\* After a trampoline the target has every register, every flag and the stack
\* pointer that it had before; after a call, but for vector registers and flags.
TargetUndisturbed ==
  pc = "target" =>
    /\ rsp = found.rsp
    /\ \A r \in Regs : (patch = "call" => r # "xmm") => regs[r] = r
    /\ patch # "call" => flags = found.flags

\* Nothing is written to the target's frame or to the red zone below it.
RedZoneKept == \A s \in DOMAIN stack : s < found.rsp - RedZone

\* A C function is entered with the stack aligned to 16 bytes, however the
\* target has it.
CallsAligned == pc = "call" => rsp % 2 = 0

\* However the target has its stack, the inserted code takes it as the ABI has
\* it: what belongs to the target is left alone, and calls are aligned.
StackRespected == RedZoneKept /\ CallsAligned

\* Cells are counted up for the edges taken and for no others, once or twice
\* each time as long as they do not overflow.
MapFollowsPath ==
  pc # "record" => \A i \in Index :
    /\ hits[i] = 0 => area[i] = 0
    /\ 2 * hits[i] < Modulus => area[i] \in hits[i]..(2 * hits[i])

-----------------------------------------------------------------------------
(***************************************************************************)
(* What a comment says, and the code does not do.                          *)
(***************************************************************************)
\* "preserving registers": the target has its flags back, which the patch
\* saves with pushfq.
FlagsPreserved == pc = "target" => flags = found.flags
===============================================================================
