-------------------------- MODULE InsertedCodeProofs --------------------------
(***************************************************************************)
(* Proofs about InsertedCode, for any width of the block ids, any size of  *)
(* a map cell, any stack pointers and any number of visits.                *)
(***************************************************************************)
EXTENDS InsertedCode, SequenceTheorems, TLAPS

InTrampoline == {"save_flags", "record", "restore_flags", "leave"}
InCall       == {"save_regs", "align", "call", "unalign", "restore_regs",
                 "release"}

\* All registers but those of S hold what the target put there.
Holds(S) == \A r \in Regs \ S : regs[r] = r

\* The stack pointer while the trampoline runs, and behind the pushes of the call
\* patch.
Low   == found.rsp - Frame
Saved == found.rsp - SaveStack - 11

\* Every pop finds what the target had in its register.
FrameHolds == \A k \in 1..11 : Slot(Saved - 1 + k) = Restores[k]

\* Where the target's registers, flags and stack pointer are, by program point
\* of the trampoline.
TrampolineInv ==
  /\ pc \in InTrampoline =>
       /\ patch = "trampoline"
       /\ Slot(Low) = "rdx" /\ Slot(Low + 1) = "rcx" /\ Slot(Low + 2) = "rax"
       /\ Holds({"rdx", "rcx", "rax"})
  /\ pc \in {"save_flags", "record", "restore_flags"} => rsp = Low - 1
  /\ pc = "leave" => rsp = Low
  /\ pc \in {"save_flags", "leave"} => flags = found.flags
  /\ pc \in {"record", "restore_flags"} => kept = found.flags
  /\ pc \in {"save_flags", "record"} => visits < MaxVisits

\* The same for the call of a function.
CallInv ==
  /\ pc \in InCall => patch = "call"
  /\ pc = "save_regs" => rsp = found.rsp - SaveStack
  /\ pc \in {"save_regs", "align"} => Holds({})
  /\ pc \in {"align", "call", "unalign", "restore_regs"} => FrameHolds
  /\ pc = "call" => Holds({"rax"})
  /\ pc \in {"unalign", "restore_regs"} => Holds(CallerSaved \cup {"xmm"})
  /\ pc \in {"align", "restore_regs"} => rsp = Saved
  /\ pc \in {"call", "unalign"} =>
       /\ old_rsp = Saved /\ rsp = Even(Saved - RedZone) - 2
       /\ Slot(rsp) = "old_rsp"
  /\ pc = "release" => rsp = found.rsp - SaveStack /\ Holds({"xmm"})

\* __afl_prev_loc is the block visited last, shifted, and the map counts.
MapInv ==
  /\ prev_loc = Shr(last)
  /\ \A i \in Index :
       /\ hits[i] = 0 => area[i] = 0
       /\ 2 * hits[i] < Modulus => area[i] \in hits[i]..(2 * hits[i])

CodeInv ==
  TypeOK /\ TrampolineInv /\ CallInv /\ TargetUndisturbed /\ StackRespected

-------------------------------------------------------------------------------
(***************************************************************************)
(* Lemmas about the operators.                                             *)
(***************************************************************************)
\* Shift and exclusive or stay within the width.
LEMMA IndexClosed ==
  ASSUME NEW a \in Index, NEW b \in Index
  PROVE  Shr(a) \in Index /\ Xor(a, b) \in Index
<1>1. Shr(a) \in Index
  <2> SUFFICES ASSUME NEW i \in a \ {0}
               PROVE  i - 1 \in 0..(Width - 1)
    BY DEF Shr, Index
  <2>1. i \in 0..(Width - 1) /\ i # 0
    BY DEF Index
  <2>2. QED
    BY <2>1, WidthAssumption
<1>2. Xor(a, b) \in Index
  BY DEF Xor, Index
<1>3. QED
  BY <1>1, <1>2

\* An even stack pointer, at most one slot lower.
LEMMA EvenBelow ==
  ASSUME NEW n \in Nat
  PROVE  Even(n) \in Nat /\ Even(n) \in {n, n - 1} /\ Even(n) % 2 = 0
BY DEF Even

\* A cell that does not overflow is counted up; one that does wraps.
LEMMA CellCounts ==
  ASSUME NEW c \in Nat, NEW n \in Nat
  PROVE  /\ Counted(c, n) \in 0..(Modulus - 1)
         /\ c + n < Modulus => Counted(c, n) = c + n
BY WidthAssumption DEF Counted

\* The target's stack pointers leave room below them.
LEMMA RoomBelow ==
  ASSUME TypeOK
  PROVE  found.rsp \in Nat /\ found.rsp > 80
BY TopsAssumption DEF TypeOK

\* A push stores its values below the old top and changes nothing above.
LEMMA PushStores ==
  ASSUME TypeOK, NEW top \in Nat, NEW n \in Nat, n <= top,
         NEW q \in [1..n -> Values], Push(top, q)
  PROVE  /\ rsp' = top - n
         /\ DOMAIN stack' = DOMAIN stack \cup ((top - n)..(top - 1))
         /\ DOMAIN stack' \subseteq Nat /\ stack' \in [DOMAIN stack' -> Values]
         /\ \A s \in (top - n)..(top - 1) : Slot(s)' = q[top - s]
         /\ \A s \in Int : s >= top => Slot(s)' = Slot(s)
<1>1. Len(q) = n
  <2>1. q \in Seq(Values)
    OBVIOUS
  <2>2. Len(q) \in Nat /\ DOMAIN q = 1..Len(q) /\ DOMAIN q = 1..n
    BY <2>1, LenProperties
  <2>3. QED
    BY <2>2
<1> DEFINE D == DOMAIN stack \cup ((top - n)..(top - 1))
<1>2. /\ rsp' = top - n
      /\ stack' = [s \in D |->
                     IF s \in (top - n)..(top - 1) THEN q[top - s] ELSE stack[s]]
  BY <1>1 DEF Push
<1>3. D \subseteq Nat /\ DOMAIN stack' = D
  BY <1>2 DEF TypeOK
<1>4. \A s \in (top - n)..(top - 1) : stack'[s] = q[top - s] /\ q[top - s] \in Values
  <2> SUFFICES ASSUME NEW s \in (top - n)..(top - 1)
               PROVE  stack'[s] = q[top - s] /\ q[top - s] \in Values
    OBVIOUS
  <2>1. top - s \in 1..n
    OBVIOUS
  <2>2. QED
    BY <1>2, <2>1
<1>5. \A s \in D : s \notin (top - n)..(top - 1) =>
                   s \in DOMAIN stack /\ stack'[s] = stack[s] /\ stack[s] \in Values
  BY <1>2 DEF TypeOK
<1>6. stack' \in [D -> Values]
  BY <1>2, <1>4, <1>5
<1>7. QED
  BY <1>2, <1>3, <1>4, <1>5, <1>6 DEF Slot

\* The pops: eleven, and where each register is popped from last.
LEMMA PopsAre ==
  /\ Len(Saves) = 11 /\ Len(Restores) = 11 /\ DOMAIN Restores = 1..11
  /\ Restores[1] = "rax" /\ Restores[2] = "r11" /\ Restores[3] = "r10"
  /\ Restores[4] = "r9" /\ Restores[5] = "r8" /\ Restores[6] = "rdi"
  /\ Restores[7] = "rsi" /\ Restores[8] = "rdx" /\ Restores[9] = "rcx"
  /\ Restores[10] = "rax" /\ Restores[11] = "rflags"
BY DEF Saves, Restores

\* The eleven places of the pops, one by one.
LEMMA ElevenPops ==
  ASSUME NEW k \in 1..11
  PROVE  k \in {1, 2, 3, 4, 5, 6, 7, 8, 9, 10, 11}
OBVIOUS

\* The saved registers stay where they are if nothing above them is written.
LEMMA FrameKept ==
  ASSUME FrameHolds, found' = found, Saved \in Nat,
         \A s \in Int : s >= Saved => Slot(s)' = Slot(s)
  PROVE  FrameHolds'
<1>1. Saved' = Saved
  BY DEF Saved
<1>2. \A k \in 1..11 : Slot(Saved - 1 + k)' = Restores[k]
  <2> SUFFICES ASSUME NEW k \in 1..11
               PROVE  Slot(Saved - 1 + k)' = Restores[k]
    OBVIOUS
  <2>1. PICK s \in Int : s = Saved - 1 + k /\ s >= Saved
    OBVIOUS
  <2>2. Slot(s)' = Slot(s) /\ Slot(s) = Restores[k]
    BY <2>1 DEF FrameHolds
  <2>3. QED
    BY <1>1, <2>1, <2>2
<1>3. QED
  BY <1>1, <1>2 DEF FrameHolds, Restores

\* What is saved is what is restored, in the opposite order.
LEMMA SavesMirrorRestores ==
  ASSUME NEW k \in 1..11
  PROVE  Saves[12 - k] = Restores[k] /\ Restores[k] \in CallerSaved \cup {"rflags"}
<1>1. k \in {1, 2, 3, 4, 5, 6, 7, 8, 9, 10, 11}
  BY ElevenPops
<1>2. QED
  BY <1>1 DEF Saves, Restores, CallerSaved

\* Every pop finds what its register is to hold, so the last one into it does.
LEMMA PoppedHolds ==
  ASSUME FrameHolds, rsp = Saved, NEW x \in CallerSaved \cup {"rflags"}
  PROVE  Popped(x) = x /\ (x # "rflags" => \E k \in DOMAIN Restores : Restores[k] = x)
<1>1. \E k \in 1..11 : LastPop(x, k)
  BY PopsAre, ElevenPops DEF LastPop, CallerSaved
<1>2. PICK k \in 1..11 : /\ LastPop(x, k)
                         /\ k = CHOOSE m \in DOMAIN Restores : LastPop(x, m)
  BY <1>1, PopsAre
<1>3. Restores[k] = x
  BY <1>2 DEF LastPop
<1>4. Popped(x) = Slot(Saved - 1 + k)
  BY <1>2 DEF Popped
<1>5. QED
  BY <1>3, <1>4, PopsAre DEF FrameHolds

\* Where the code is determines the order of the stack pointers in use.
LEMMA StackOrder ==
  ASSUME CodeInv
  PROVE  /\ Saved \in Nat /\ Saved > 37 /\ Saved = found.rsp - 43
         /\ Even(Saved - RedZone) \in Nat /\ Even(Saved - RedZone) > 18
         /\ Even(Saved - RedZone) <= Saved - RedZone
         /\ (Even(Saved - RedZone) - 2) % 2 = 0
<1>1. Saved \in Nat /\ Saved > 37 /\ Saved = found.rsp - 43
  BY RoomBelow DEF CodeInv, Saved, SaveStack
<1>2. Saved - RedZone \in Nat /\ Saved - RedZone > 20
  BY <1>1 DEF RedZone
<1>3. QED
  BY <1>1, <1>2, EvenBelow

-------------------------------------------------------------------------------
(***************************************************************************)
(* The steps.                                                              *)
(***************************************************************************)
\* The target comes to a trampoline or to a call: what it has is noted down.
LEMMA Arrives ==
  ASSUME CodeInv, NEW what, ComesTo(what)
  PROVE  /\ pc = "target" /\ patch' = what
         /\ found' \in [flags : TargetFlags, rsp : Tops]
         /\ found'.flags \in Flags /\ found'.rsp \in Nat /\ found'.rsp > 80
BY TopsAssumption DEF ComesTo, TargetFlags

\* The trampoline and __afl_trace.
LEMMA TrampolineStep ==
  ASSUME CodeInv,
         EnterTrampoline \/ SaveFlags \/ Record \/ RestoreFlags \/ LeaveTrampoline
  PROVE  CodeInv'
<1> USE DEF TrampolineInv, CallInv, InTrampoline, InCall, TargetUndisturbed,
            StackRespected, RedZoneKept, CallsAligned, Holds, Regs, CallerSaved,
            TargetRegs
<1>1. CASE EnterTrampoline
  <2>1. /\ pc' = "save_flags" /\ patch' = "trampoline"
        /\ found' \in [flags : TargetFlags, rsp : Tops]
        /\ found'.flags \in Flags /\ found'.rsp \in Nat /\ found'.rsp > 80
        /\ flags' = found'.flags /\ rsp' = found'.rsp - 20
        /\ stack' = [s \in (rsp')..(rsp' + 3) |->
                       <<"return", "rdx", "rcx", "rax">>[s - rsp' + 1]]
        /\ id' \in Index
        /\ regs' = Junk(TargetRegs, {"rcx"})
        /\ UNCHANGED <<kept, old_rsp, prev_loc, area, last, hits, visits>>
    BY <1>1, Arrives DEF EnterTrampoline, Frame, path
  <2>2. TypeOK'
    <3>1. regs' \in [Regs -> Values]
      BY <2>1 DEF Junk, Values
    <3>2. rsp' \in Nat
      BY <2>1
    <3>3. DOMAIN stack' \subseteq Nat /\ stack' \in [DOMAIN stack' -> Values]
      <4>1. PICK b \in Nat : b = rsp'
        BY <3>2
      <4>2. /\ \A s \in b..(b + 3) : s - b + 1 \in {1, 2, 3, 4} /\ s \in Nat
            /\ stack' = [s \in b..(b + 3) |->
                           <<"return", "rdx", "rcx", "rax">>[s - b + 1]]
        BY <2>1, <4>1
      <4>3. \A k \in {1, 2, 3, 4} : <<"return", "rdx", "rcx", "rax">>[k] \in Values
        BY DEF Values
      <4>4. QED
        BY <4>2, <4>3
    <3>4. QED
      BY <2>1, <3>1, <3>2, <3>3 DEF CodeInv, TypeOK
  <2>3. (TrampolineInv /\ CallInv /\ TargetUndisturbed)'
    <3>1. PICK b \in Nat : b = rsp'
      BY <2>1
    <3>2. Low' = b + 1
      BY <2>1, <3>1 DEF Low, Frame
    <3>3. (Slot(Low) = "rdx" /\ Slot(Low + 1) = "rcx" /\ Slot(Low + 2) = "rax")'
      <4>1. stack' = [s \in b..(b + 3) |->
                       <<"return", "rdx", "rcx", "rax">>[s - b + 1]]
        BY <2>1, <3>1
      <4>2. stack'[b + 1] = "rdx" /\ stack'[b + 2] = "rcx" /\ stack'[b + 3] = "rax"
        BY <4>1
      <4>3. b + 1 \in DOMAIN stack' /\ b + 2 \in DOMAIN stack' /\ b + 3 \in DOMAIN stack'
        BY <4>1
      <4>4. Low' + 1 = b + 2 /\ Low' + 2 = b + 3
        BY <3>2
      <4>5. QED
        BY <3>2, <4>2, <4>3, <4>4 DEF Slot
    <3>4. rsp' = Low' - 1
      BY <2>1 DEF Low, Frame
    <3>5. QED
      BY <1>1, <2>1, <3>3, <3>4 DEF EnterTrampoline, Junk
  <2>4. StackRespected'
    BY <2>1 DEF RedZone
  <2>5. QED
    BY <2>2, <2>3, <2>4 DEF CodeInv
<1>2. CASE SaveFlags
  <2>1. TypeOK'
    BY <1>2 DEF CodeInv, TypeOK, SaveFlags, Junk, Values, ghosts, path
  <2>2. QED
    BY <1>2, <2>1 DEF CodeInv, SaveFlags, Junk, Low, Slot, ghosts, path
<1>3. CASE Record
  <2>1. TypeOK'
    <3>1. /\ Edge(id) \in Index /\ Previous(id) \in Index
          /\ Xor(id, Shr(last)) \in Index
      BY IndexClosed DEF CodeInv, TypeOK, Edge, Previous
    <3>2. area' \in [Index -> 0..(Modulus - 1)]
      <4>1. Counted(area[Edge(id)], 1 + Carry) \in 0..(Modulus - 1)
        <5>1. area[Edge(id)] \in Nat /\ 1 + Carry \in Nat
          BY <3>1, WidthAssumption DEF CodeInv, TypeOK, Carry
        <5>2. QED
          BY <5>1, CellCounts
      <4>2. QED
        BY <1>3, <3>1, <4>1 DEF Record, CodeInv, TypeOK
    <3>3. hits' \in [Index -> Nat] /\ visits' \in 0..MaxVisits
      BY <1>3, <3>1, VisitsAssumption DEF Record, CodeInv, TypeOK
    <3>4. QED
      BY <1>3, <3>1, <3>2, <3>3
      DEF Record, CodeInv, TypeOK, JunkFlags, Junk, Values, ghosts
  <2>2. QED
    BY <1>3, <2>1 DEF CodeInv, Record, Junk, Low, Slot, ghosts
<1>4. CASE RestoreFlags
  <2>1. TypeOK'
    BY <1>4 DEF CodeInv, TypeOK, RestoreFlags, Loaded, ghosts, path
  <2>2. QED
    BY <1>4, <2>1, RoomBelow
    DEF CodeInv, RestoreFlags, Loaded, Frame, Low, Slot, ghosts
<1>5. CASE LeaveTrampoline
  <2>1. regs' = [regs EXCEPT !["rdx"] = "rdx", !["rcx"] = "rcx",
                             !["rax"] = "rax"]
    BY <1>5 DEF CodeInv, LeaveTrampoline
  <2>2. rsp' = found.rsp /\ found.rsp \in Nat
    BY <1>5, RoomBelow DEF CodeInv, LeaveTrampoline, Frame, Low
  <2>3. TypeOK'
    BY <1>5, <2>1, <2>2 DEF CodeInv, TypeOK, LeaveTrampoline, Values, ghosts, path
  <2>4. Holds({})'
    BY <1>5, <2>1 DEF CodeInv, TypeOK, LeaveTrampoline
  <2>5. QED
    BY <1>5, <2>2, <2>3, <2>4 DEF CodeInv, LeaveTrampoline, ghosts
<1>6. QED
  BY <1>1, <1>2, <1>3, <1>4, <1>5

\* The call of a function.
LEMMA CallStep ==
  ASSUME CodeInv,
         Reserve \/ SaveRegs \/ Align \/ Call \/ Unalign \/ RestoreRegs \/ Release
  PROVE  CodeInv'
<1> USE DEF TrampolineInv, CallInv, InTrampoline, InCall, TargetUndisturbed,
            StackRespected, RedZoneKept, CallsAligned, Holds, Regs, CallerSaved,
            TargetRegs
<1>1. CASE Reserve
  <2>1. /\ pc' = "save_regs" /\ patch' = "call"
        /\ found' \in [flags : TargetFlags, rsp : Tops]
        /\ found'.rsp \in Nat /\ found'.rsp > 80
        /\ rsp' = found'.rsp - 32 /\ flags' \in Flags
        /\ regs' = TargetRegs /\ stack' = NothingWritten
        /\ UNCHANGED <<kept, old_rsp, id, prev_loc, area, last, hits, visits>>
    BY <1>1, Arrives DEF Reserve, SaveStack, JunkFlags, path
  <2>2. TypeOK'
    <3>1. DOMAIN stack' \subseteq Nat /\ stack' \in [DOMAIN stack' -> Values]
      BY <2>1 DEF NothingWritten
    <3>2. QED
      BY <2>1, <3>1 DEF CodeInv, TypeOK, Values
  <2>3. QED
    BY <2>1, <2>2 DEF CodeInv, SaveStack, NothingWritten
<1>2. CASE SaveRegs
  <2>1. found.rsp \in Nat /\ found.rsp > 80 /\ rsp = found.rsp - 32
    BY <1>2, RoomBelow DEF CodeInv, SaveRegs, SaveStack
  <2>2. PICK q \in [1..11 -> Values] :
          /\ Push(rsp, q)
          /\ \A k \in 1..11 : q[12 - k] = Restores[k]
    <3> DEFINE q == [k \in 1..11 |->
                      IF Saves[k] = "rflags" THEN "rflags" ELSE regs[Saves[k]]]
    <3>1. \A k \in 1..11 : q[12 - k] = Restores[k] /\ 12 - k \in 1..11
      <4> SUFFICES ASSUME NEW k \in 1..11
                   PROVE  q[12 - k] = Restores[k] /\ 12 - k \in 1..11
        OBVIOUS
      <4>1. PICK m \in 1..11 : m = 12 - k
        OBVIOUS
      <4>2. /\ Saves[m] = Restores[k]
            /\ Restores[k] \in CallerSaved \cup {"rflags"}
        BY <4>1, SavesMirrorRestores
      <4>3. \A r \in CallerSaved : regs[r] = r
        BY <1>2 DEF CodeInv, SaveRegs
      <4>4. q[m] = Restores[k]
        BY <4>2, <4>3
      <4>5. QED
        BY <4>1, <4>4
    <3>2. \A k \in 1..11 : q[k] \in Values
      <4> SUFFICES ASSUME NEW k \in 1..11
                   PROVE  q[k] \in Values
        OBVIOUS
      <4>1. PICK m \in 1..11 : k = 12 - m
        <5>1. 12 - k \in 1..11 /\ k = 12 - (12 - k)
          OBVIOUS
        <5>2. QED
          BY <5>1
      <4>2. q[k] = Restores[m] /\ Restores[m] \in CallerSaved \cup {"rflags"}
        BY <3>1, <4>1, SavesMirrorRestores
      <4>3. QED
        BY <4>2 DEF Values
    <3>3. q \in [1..11 -> Values] /\ Push(rsp, q)
      BY <1>2, <3>2, PopsAre DEF SaveRegs
    <3>4. QED
      BY <3>1, <3>3
  <2>3. /\ rsp' = Saved /\ Saved \in Nat /\ found' = found
        /\ DOMAIN stack' = DOMAIN stack \cup ((rsp - 11)..(rsp - 1))
        /\ DOMAIN stack' \subseteq Nat /\ stack' \in [DOMAIN stack' -> Values]
        /\ \A s \in (rsp - 11)..(rsp - 1) : Slot(s)' = q[rsp - s]
    <3>1. TypeOK /\ rsp \in Nat /\ 11 \in Nat /\ 11 <= rsp
      BY <2>1 DEF CodeInv
    <3>2. /\ rsp' = rsp - 11
          /\ DOMAIN stack' = DOMAIN stack \cup ((rsp - 11)..(rsp - 1))
          /\ DOMAIN stack' \subseteq Nat /\ stack' \in [DOMAIN stack' -> Values]
          /\ \A s \in (rsp - 11)..(rsp - 1) : Slot(s)' = q[rsp - s]
      BY <2>2, <3>1, PushStores
    <3>3. Saved = rsp - 11 /\ Saved \in Nat /\ found' = found
      BY <1>2, <2>1 DEF SaveRegs, Saved, SaveStack, ghosts
    <3>4. QED
      BY <3>2, <3>3
  <2>4. TypeOK'
    BY <1>2, <2>3 DEF CodeInv, TypeOK, SaveRegs, ghosts, path
  <2>5. FrameHolds'
    <3>1. Saved' = Saved /\ Saved = rsp - 11
      BY <2>1, <2>3 DEF Saved, SaveStack
    <3>2. \A k \in 1..11 : Slot(Saved - 1 + k)' = Restores[k]
      <4> SUFFICES ASSUME NEW k \in 1..11
                   PROVE  Slot(Saved - 1 + k)' = Restores[k]
        OBVIOUS
      <4>1. PICK s \in (rsp - 11)..(rsp - 1) : s = Saved - 1 + k /\ rsp - s = 12 - k
        BY <2>1, <3>1
      <4>2. Slot(s)' = q[12 - k]
        BY <2>3, <4>1
      <4>3. QED
        BY <2>2, <3>1, <4>1, <4>2
    <3>3. QED
      BY <3>1, <3>2 DEF FrameHolds, Restores
  <2>6. StackRespected'
    <3>1. RedZoneKept /\ pc' = "align"
      BY <1>2 DEF CodeInv, SaveRegs
    <3>2. \A s \in (rsp - 11)..(rsp - 1) : s < found.rsp - RedZone
      BY <2>1 DEF RedZone
    <3>3. QED
      BY <2>3, <3>1, <3>2
  <2>7. QED
    BY <1>2, <2>3, <2>4, <2>5, <2>6 DEF CodeInv, SaveRegs, Saved, ghosts
<1>3. CASE Align
  <2>1. rsp = Saved /\ found.rsp \in Nat
    BY <1>3, RoomBelow DEF CodeInv, Align
  <2>2. /\ Saved \in Nat /\ Even(Saved - RedZone) \in Nat
        /\ Even(Saved - RedZone) > 18 /\ Even(Saved - RedZone) <= Saved - RedZone
        /\ (Even(Saved - RedZone) - 2) % 2 = 0
        /\ Saved = found.rsp - 43
    BY StackOrder
  <2>3. PICK top \in Nat : top = Even(Saved - RedZone)
    BY <2>2
  <2>4. PICK q \in [1..2 -> Values] :
          Push(top, q) /\ q[1] = "old_rsp" /\ q[2] = "old_rsp"
    <3> DEFINE q == <<"old_rsp", "old_rsp">>
    <3>1. q \in [1..2 -> Values] /\ q[1] = "old_rsp" /\ q[2] = "old_rsp"
      BY DEF Values
    <3>2. Push(top, q)
      BY <1>3, <2>1, <2>3 DEF Align, Aligned
    <3>3. QED
      BY <3>1, <3>2
  <2>5. /\ rsp' = top - 2
        /\ DOMAIN stack' = DOMAIN stack \cup ((top - 2)..(top - 1))
        /\ DOMAIN stack' \subseteq Nat /\ stack' \in [DOMAIN stack' -> Values]
        /\ \A s \in (top - 2)..(top - 1) : Slot(s)' = q[top - s]
        /\ \A s \in Int : s >= top => Slot(s)' = Slot(s)
    <3>1. TypeOK /\ top \in Nat /\ 2 \in Nat /\ 2 <= top
      BY <2>2, <2>3 DEF CodeInv
    <3>2. QED
      BY <2>4, <3>1, PushStores
  <2>6. TypeOK'
    <3>1. regs' \in [Regs -> Values] /\ flags' \in Flags
      BY <1>3 DEF CodeInv, TypeOK, Align, JunkFlags, Values
    <3>2. rsp' \in Nat /\ old_rsp' \in Nat
      BY <1>3, <2>1, <2>2, <2>3, <2>5 DEF Align
    <3>3. QED
      BY <1>3, <2>5, <3>1, <3>2 DEF CodeInv, TypeOK, Align, ghosts, path
  <2>7. FrameHolds'
    <3>1. \A s \in Int : s >= Saved => Slot(s)' = Slot(s)
      BY <2>2, <2>3, <2>5 DEF RedZone
    <3>2. FrameHolds /\ found' = found
      BY <1>3 DEF CodeInv, Align, ghosts
    <3>3. QED
      BY <2>2, <3>1, <3>2, FrameKept
  <2>8. Slot(rsp)' = "old_rsp"
    <3>1. PICK s \in (top - 2)..(top - 1) : s = top - 2
      OBVIOUS
    <3>2. Slot(s)' = q[2]
      BY <2>5, <3>1
    <3>3. QED
      BY <2>4, <2>5, <3>1, <3>2
  <2>9. StackRespected'
    <3>1. found' = found /\ pc' = "call" /\ RedZoneKept
      BY <1>3 DEF CodeInv, Align, ghosts
    <3>2. rsp' % 2 = 0
      BY <2>2, <2>3, <2>5
    <3>3. \A s \in (top - 2)..(top - 1) : s < found.rsp - RedZone
      BY <2>1, <2>2, <2>3 DEF RedZone
    <3>4. QED
      BY <2>5, <3>1, <3>2, <3>3
  <2>10. old_rsp' = Saved' /\ rsp' = Even(Saved' - RedZone) - 2
    BY <1>3, <2>1, <2>3, <2>5 DEF Align, Saved, ghosts
  <2>11. QED
    BY <1>3, <2>6, <2>7, <2>8, <2>9, <2>10 DEF CodeInv, TypeOK, Align, ghosts
<1>4. CASE Call
  <2>1. /\ rsp = Even(Saved - RedZone) - 2 /\ rsp \in Nat /\ rsp < Saved
        /\ found.rsp \in Nat /\ rsp - 1 < found.rsp - RedZone /\ Saved \in Nat
    BY <1>4, RoomBelow, StackOrder DEF CodeInv, Call, RedZone
  <2>2. /\ DOMAIN stack' = DOMAIN stack \cup (0..(rsp - 1))
        /\ \A s \in Int : s >= rsp => Slot(s)' = Slot(s)
    BY <1>4, <2>1 DEF Call, Slot
  <2>3. TypeOK'
    <3>1. regs' \in [Regs -> Values] /\ flags' \in Flags
      BY <1>4 DEF CodeInv, TypeOK, Call, Junk, JunkFlags, Values
    <3>2. DOMAIN stack' \subseteq Nat
      BY <2>1, <2>2 DEF CodeInv, TypeOK
    <3>3. stack' \in [DOMAIN stack' -> Values]
      <4>1. \A s \in DOMAIN stack' : ~(s < rsp) => s \in DOMAIN stack
        BY <2>1, <2>2
      <4>2. \A s \in DOMAIN stack : stack[s] \in Values
        BY DEF CodeInv, TypeOK
      <4>3. stack' = [s \in DOMAIN stack' |-> IF s < rsp THEN "junk" ELSE stack[s]]
        BY <1>4, <2>2 DEF Call
      <4>4. "junk" \in Values
        BY DEF Values
      <4>5. QED
        BY <4>1, <4>2, <4>3, <4>4
    <3>4. QED
      BY <1>4, <3>1, <3>2, <3>3 DEF CodeInv, TypeOK, Call, ghosts, path
  <2>4. FrameHolds'
    <3>1. FrameHolds /\ found' = found
      BY <1>4 DEF CodeInv, Call, ghosts
    <3>2. QED
      BY <2>1, <2>2, <3>1, FrameKept
  <2>5. Slot(rsp)' = "old_rsp"
    <3>1. rsp' = rsp /\ Slot(rsp) = "old_rsp" /\ rsp \in Int
      BY <1>4, <2>1 DEF CodeInv, Call
    <3>2. QED
      BY <1>4, <2>1, <2>2, <3>1 DEF Slot
  <2>6. StackRespected'
    BY <1>4, <2>1, <2>2 DEF CodeInv, Call, RedZone, ghosts
  <2>7. QED
    BY <1>4, <2>3, <2>4, <2>5, <2>6 DEF CodeInv, Call, Junk, Saved, ghosts
<1>5. CASE Unalign
  <2>1. rsp' = Saved /\ Saved \in Nat /\ Slot(rsp) = "old_rsp"
    BY <1>5, StackOrder DEF CodeInv, Unalign
  <2>2. TypeOK'
    BY <1>5, <2>1 DEF CodeInv, TypeOK, Unalign, Values, ghosts, path
  <2>3. FrameHolds'
    <3>1. FrameHolds /\ found' = found /\ \A s \in Int : Slot(s)' = Slot(s)
      BY <1>5 DEF CodeInv, Unalign, ghosts, Slot
    <3>2. QED
      BY <2>1, <3>1, FrameKept
  <2>4. QED
    BY <1>5, <2>1, <2>2, <2>3 DEF CodeInv, TypeOK, Unalign, Saved, ghosts
<1>6. CASE RestoreRegs
  <2>1. \A x \in CallerSaved \cup {"rflags"} :
          Popped(x) = x /\ (x # "rflags" => \E k \in DOMAIN Restores : Restores[k] = x)
    <3>1. FrameHolds /\ rsp = Saved
      BY <1>6 DEF CodeInv, RestoreRegs
    <3>2. QED
      BY <3>1, PoppedHolds
  <2>2. \A r \in Regs : regs'[r] = IF r \in CallerSaved THEN r ELSE regs[r]
    <3>1. \A r \in Regs \ CallerSaved : \A k \in DOMAIN Restores : Restores[k] # r
      BY PopsAre, SavesMirrorRestores
    <3>2. \A r \in CallerSaved : regs'[r] = r
      BY <1>6, <2>1 DEF RestoreRegs
    <3>3. \A r \in Regs \ CallerSaved : regs'[r] = regs[r]
      BY <1>6, <3>1 DEF RestoreRegs
    <3>4. QED
      BY <3>2, <3>3
  <2>3. rsp' = found.rsp - SaveStack /\ rsp' \in Nat
    BY <1>6, RoomBelow, PopsAre DEF CodeInv, RestoreRegs, Saved, SaveStack
  <2>4. TypeOK'
    <3>1. regs' \in [Regs -> Values]
      <4>1. regs' = [r \in Regs |-> regs'[r]]
        BY <1>6 DEF RestoreRegs
      <4>2. \A r \in Regs : regs[r] \in Values /\ r \in Values
        BY DEF CodeInv, TypeOK, Values
      <4>3. QED
        BY <2>2, <4>1, <4>2
    <3>2. flags' \in Flags
      BY <1>6, <2>1 DEF CodeInv, TypeOK, RestoreRegs
    <3>3. QED
      BY <1>6, <2>3, <3>1, <3>2 DEF CodeInv, TypeOK, RestoreRegs, ghosts, path
  <2>5. Holds({"xmm"})'
    BY <1>6, <2>2 DEF CodeInv, TypeOK, RestoreRegs
  <2>6. QED
    BY <1>6, <2>3, <2>4, <2>5 DEF CodeInv, RestoreRegs, SaveStack, ghosts
<1>7. CASE Release
  <2>1. rsp' = found.rsp /\ rsp' \in Nat
    BY <1>7, RoomBelow DEF CodeInv, Release, SaveStack
  <2>2. TypeOK'
    BY <1>7, <2>1 DEF CodeInv, TypeOK, Release, JunkFlags, ghosts, path
  <2>3. QED
    BY <1>7, <2>1, <2>2 DEF CodeInv, Release, ghosts
<1>8. QED
  BY <1>1, <1>2, <1>3, <1>4, <1>5, <1>6, <1>7

-------------------------------------------------------------------------------
\* CodeInv is an inductive invariant.
THEOREM CodeInvariance == Spec => []CodeInv
<1>1. Init => CodeInv
  <2> SUFFICES ASSUME Init
               PROVE  CodeInv
    OBVIOUS
  <2> USE DEF Init
  <2>1. TypeOK
    <3>1. 0 \in 0..(Modulus - 1) /\ 0 \in 0..MaxVisits /\ {} \in Index
      BY WidthAssumption, VisitsAssumption DEF Index
    <3>2. regs \in [Regs -> Values] /\ rsp \in Nat /\ flags \in Flags
      BY TopsAssumption DEF TargetRegs, TargetFlags, Values
    <3>3. DOMAIN stack \subseteq Nat /\ stack \in [DOMAIN stack -> Values]
      BY DEF NothingWritten
    <3>4. QED
      BY <3>1, <3>2, <3>3 DEF TypeOK
  <2>2. TrampolineInv /\ CallInv
    BY DEF TrampolineInv, CallInv, InTrampoline, InCall
  <2>3. TargetUndisturbed /\ StackRespected
    BY DEF TargetUndisturbed, StackRespected, RedZoneKept, CallsAligned,
       TargetRegs, NothingWritten
  <2>4. QED
    BY <2>1, <2>2, <2>3 DEF CodeInv
<1>2. CodeInv /\ [Next]_vars => CodeInv'
  <2> SUFFICES ASSUME CodeInv, [Next]_vars
               PROVE  CodeInv'
    OBVIOUS
  <2>1. CASE UNCHANGED vars
    BY <2>1
    DEF vars, CodeInv, TypeOK, TrampolineInv, CallInv, TargetUndisturbed,
        StackRespected, RedZoneKept, CallsAligned, Holds, Saved, Low, Slot,
        FrameHolds, Restores
  <2>2. QED
    BY <2>1, TrampolineStep, CallStep DEF Next
<1>3. QED
  BY <1>1, <1>2, PTL DEF Spec

\* Every variable keeps its type; __afl_prev_loc stays an index of the map.
THEOREM TypeCorrect == Spec => []TypeOK
<1>1. CodeInv => TypeOK
  BY DEF CodeInv
<1>2. QED
  BY CodeInvariance, <1>1, PTL

\* The target has its registers, flags and stack pointer back after each patch,
\* but for vector registers and flags after a call.
THEOREM Undisturbed == Spec => []TargetUndisturbed
<1>1. CodeInv => TargetUndisturbed
  BY DEF CodeInv
<1>2. QED
  BY CodeInvariance, <1>1, PTL

\* The red zone is left alone and calls are aligned, whatever the stack pointer.
THEOREM Respected == Spec => []StackRespected
<1>1. CodeInv => StackRespected
  BY DEF CodeInv
<1>2. QED
  BY CodeInvariance, <1>1, PTL

\* The map has the edges that were taken, and their counts where they fit.
THEOREM MapFollows == Spec => []MapFollowsPath
<1>1. Init => MapInv
  BY DEF Init, MapInv, Shr
<1>2. CodeInv /\ MapInv /\ [Next]_vars => MapInv'
  <2> SUFFICES ASSUME CodeInv, MapInv, [Next]_vars
               PROVE  MapInv'
    OBVIOUS
  <2>1. CASE UNCHANGED <<prev_loc, area, last, hits>>
    BY <2>1 DEF MapInv
  <2>2. CASE Record
    <3> DEFINE e == Edge(id)
    <3>1. /\ e \in Index /\ e = Xor(id, Shr(last)) /\ prev_loc' = Shr(last')
          /\ area' = [area EXCEPT ![e] = Counted(@, 1 + Carry)]
          /\ hits' = [hits EXCEPT ![e] = @ + 1]
      BY <2>2, IndexClosed
      DEF Record, MapInv, Edge, Previous, CodeInv, TypeOK
    <3>2. /\ area[e] \in Nat /\ hits[e] \in Nat /\ 1 + Carry \in {1, 2}
          /\ area \in [Index -> 0..(Modulus - 1)] /\ hits \in [Index -> Nat]
      BY <3>1, WidthAssumption DEF CodeInv, TypeOK, Carry
    <3>3. /\ area'[e] = Counted(area[e], 1 + Carry) /\ hits'[e] = hits[e] + 1
          /\ \A i \in Index \ {e} : area'[i] = area[i] /\ hits'[i] = hits[i]
      BY <3>1, <3>2
    <3>4. 2 * hits'[e] < Modulus => area'[e] \in hits'[e]..(2 * hits'[e])
      <4> SUFFICES ASSUME 2 * (hits[e] + 1) < Modulus
                   PROVE  area'[e] \in (hits[e] + 1)..(2 * (hits[e] + 1))
        BY <3>3
      <4>1. area[e] \in hits[e]..(2 * hits[e])
        BY <3>1, <3>2, WidthAssumption DEF MapInv
      <4>2. area[e] + (1 + Carry) < Modulus
        BY <3>2, <4>1, WidthAssumption
      <4>3. area'[e] = area[e] + (1 + Carry)
        <5>1. 1 + Carry \in Nat
          BY <3>2
        <5>2. Counted(area[e], 1 + Carry) = area[e] + (1 + Carry)
          BY <3>2, <4>2, <5>1, CellCounts
        <5>3. QED
          BY <3>3, <5>2
      <4>4. QED
        BY <3>2, <4>1, <4>3
    <3>5. QED
      BY <3>1, <3>2, <3>3, <3>4 DEF MapInv
  <2>3. ~Record => UNCHANGED <<prev_loc, area, last, hits>>
    BY DEF Next, EnterTrampoline, SaveFlags, RestoreFlags, LeaveTrampoline,
       Reserve, SaveRegs, Align, Call, Unalign, RestoreRegs, Release, path, vars
  <2>4. QED
    BY <2>1, <2>2, <2>3
<1>3. MapInv => MapFollowsPath
  BY DEF MapInv, MapFollowsPath
<1>4. QED
  BY CodeInvariance, <1>1, <1>2, <1>3, PTL DEF Spec
===============================================================================
