------------------------- MODULE PersistentLoopProofs -------------------------
(***************************************************************************)
(* Proofs about PersistentLoop, for every persistent_mode_count that a u32 *)
(* can hold, every register contents, and whatever the target does with    *)
(* the function: each property that the runs check, but for Completes.     *)
(***************************************************************************)
EXTENDS PersistentLoop, SequenceTheorems, TLAPS

InLoop == {"stopped", "start_func", "body"}

\* A stack of which the bottom is the return address of the target's caller.
EndsInMain(s) == s \in Seq(Addresses) /\ s # <<>> /\ s[Len(s)] = "main"

\* In any use: what is on top of the stack where the patch or a ret takes it.
BaseInv ==
  /\ pc # "wild" => EndsInMain(stack)
  /\ pc \in {"entry", "check", "break", "hook"} \cup InLoop => Len(stack) > 1
  /\ pc = "setup_loop" /\ first_pass => Len(stack) > 1
  /\ pc \in {"check", "break", "hook"} \cup InLoop => Head(stack) = "setup_loop"
  /\ first_pass =>
       pc \in {"caller", "entry", "setup_loop", "check", "done", "wild"}
  /\ pc = "check" \/ ~first_pass => ret_backup \in Addresses

\* In any use: an execution is under way, or done and not yet counted off, when
\* bodies = count - cycle_cnt + 1, until the trace is turned off.
TraceInv ==
  /\ first_pass => bodies = 0
  /\ ~first_pass /\ traced =>
       /\ cycle_cnt \in 1..count
       /\ bodies = IF pc \in InLoop THEN count - cycle_cnt
                                    ELSE count - cycle_cnt + 1

\* The backup holds the registers of the call, but for rdi when a hook sets it.
Kept(r) == r \in SavedRegs /\ (conf.hook = "loop" => r # "rdi")

BackupInv ==
  BackupUnshared =>
    /\ pc = "entry" => regs = entry_regs
    /\ pc \in {"setup_loop", "check", "break", "ret"} \cup InLoop =>
         \A r \in SavedRegs : Kept(r) => backup[r] = entry_regs[r]
    /\ pc = "body" =>
         /\ \A r \in SavedRegs : Kept(r) => regs[r] = entry_regs[r]
         /\ regs["xmm_hi"] = 0
    /\ pc # "hook"

\* The stack and p_mode_ret_addr_backup at each point, for a single use.
StackInv ==
  /\ pc \in {"caller", "done"} => stack = <<"main">>
  /\ pc = "entry" => stack = <<"caller", "main">>
  /\ pc = "setup_loop" =>
       IF first_pass THEN stack = <<"caller", "main">>
                     ELSE stack = <<"main">>
  /\ pc \in {"check", "break", "hook"} \cup InLoop =>
       stack = <<"setup_loop", "main">>
  /\ pc = "ret" =>
       stack = IF cycle_cnt = 0 THEN <<"caller", "main">>
                                ELSE <<"setup_loop", "main">>
  /\ pc \in {"check", "break", "ret", "hook"} \cup InLoop => ret_backup = "caller"
  /\ pc = "setup_loop" /\ ~first_pass => ret_backup = "caller"
  /\ pc # "wild"

\* first_pass and the two counts, for a single use.
CountInv ==
  /\ (pc = "caller" /\ calls = 0) \/ pc = "entry" => first_pass /\ bodies = 0
  /\ (pc = "caller" /\ calls # 0) \/ pc \in {"done", "break"} =>
       ~first_pass /\ cycle_cnt = 0 /\ bodies = count
  /\ pc \in {"setup_loop", "check"} /\ first_pass => bodies = 0
  /\ pc \in {"setup_loop", "check"} /\ ~first_pass =>
       cycle_cnt > 0 /\ bodies = count - cycle_cnt + 1
  /\ pc \in InLoop => ~first_pass /\ cycle_cnt > 0 /\ bodies = count - cycle_cnt
  /\ pc = "hook" =>
       ~first_pass /\ cycle_cnt > 0 /\ bodies = count - cycle_cnt + 1
  /\ pc = "ret" =>
       /\ ~first_pass
       /\ bodies = IF cycle_cnt = 0 THEN count ELSE count - cycle_cnt + 1
  /\ calls = IF pc = "caller" /\ first_pass THEN 0 ELSE 1

\* What the caller finds, for a single use.
CallerInv ==
  BackupUnshared =>
    /\ \/ pc = "ret" /\ cycle_cnt = 0
       \/ pc \in {"caller", "done"} /\ calls > 0
       =>
         regs["rbx"] = entry_regs["rbx"] /\ ~traced
    /\ pc = "break" => ~traced

OnceInv == Once => StackInv /\ CountInv /\ CallerInv

LoopInv == TypeOK /\ BaseInv /\ TraceInv /\ BackupInv /\ OnceInv

-------------------------------------------------------------------------------
\* What push does to a stack of one address.
LEMMA PushOnOne ==
  ASSUME NEW a \in Addresses, NEW b \in Addresses
  PROVE  Push(a, <<b>>) = <<a, b>>
<1> DEFINE s == <<a>> \o <<b>>
<1>1. <<a>> \in Seq(Addresses) /\ <<b>> \in Seq(Addresses)
  OBVIOUS
<1>2. s \in Seq(Addresses) /\ Len(s) = 2
  BY <1>1, ConcatProperties
<1>3. s[1] = a /\ s[2] = b
  BY <1>1, ConcatProperties
<1>4. <<a, b>> \in Seq(Addresses) /\ Len(<<a, b>>) = 2
  OBVIOUS
<1>5. \A i \in 1..Len(s) : s[i] = <<a, b>>[i]
  BY <1>2, <1>3
<1>6. QED
  BY <1>2, <1>4, <1>5, SeqEqual DEF Push

\* ret and pop take the top of a stack of two.
LEMMA PopOfTwo ==
  ASSUME NEW a, NEW b
  PROVE  Head(<<a, b>>) = a /\ Tail(<<a, b>>) = <<b>>
  OBVIOUS

\* The two pushes that occur.
LEMMA Pushes ==
  /\ Push("caller", <<"main">>) = <<"caller", "main">>
  /\ Push("setup_loop", <<"main">>) = <<"setup_loop", "main">>
  BY PushOnOne DEF Addresses

\* push and pop keep the bottom of the stack.
LEMMA PushEnds ==
  ASSUME NEW s, EndsInMain(s), NEW a \in Addresses
  PROVE  /\ EndsInMain(Push(a, s)) /\ Head(Push(a, s)) = a
         /\ Len(Push(a, s)) = Len(s) + 1
<1>1. s \in Seq(Addresses) /\ Len(s) > 0 /\ <<a>> \in Seq(Addresses)
  BY DEF EndsInMain
<1>2. Push(a, s) \in Seq(Addresses) /\ Len(Push(a, s)) = Len(s) + 1
  BY <1>1, ConcatProperties DEF Push
<1>3. Push(a, s)[1] = a
  BY <1>1, ConcatProperties DEF Push
<1>4. Push(a, s)[Len(s) + 1] = s[Len(s)]
  BY <1>1, ConcatProperties DEF Push
<1>5. QED
  BY <1>1, <1>2, <1>3, <1>4 DEF EndsInMain

\* A stack that ends in main still does after a return.
LEMMA PopEnds ==
  ASSUME NEW s, EndsInMain(s), Len(s) > 1
  PROVE  EndsInMain(Tail(s)) /\ Len(Tail(s)) = Len(s) - 1 /\ Head(s) \in Addresses
<1>1. s \in Seq(Addresses) /\ Len(s) \in Nat /\ s # <<>>
  BY DEF EndsInMain
<1>2. Tail(s) \in Seq(Addresses) /\ Len(Tail(s)) = Len(s) - 1 /\ Head(s) \in Addresses
  BY <1>1, HeadTailProperties
<1>3. Tail(s)[Len(s) - 1] = s[Len(s)]
  BY <1>1, <1>2, HeadTailProperties
<1>4. Len(Tail(s)) > 0
  BY <1>1, <1>2
<1>5. Tail(s) # <<>>
  <2>1. Len(<<>>) = 0
    OBVIOUS
  <2>2. Len(Tail(s)) # 0
    BY <1>1, <1>2, <1>4
  <2>3. QED
    BY <2>1, <2>2, Zenon
<1>6. QED
  BY <1>1, <1>2, <1>3, <1>4, <1>5 DEF EndsInMain

\* What ret finds that is not the bottom has something below it.
LEMMA NotBottom ==
  ASSUME NEW s, EndsInMain(s), Head(s) # "main"
  PROVE  Len(s) > 1
<1>1. s \in Seq(Addresses) /\ Len(s) \in Nat /\ Len(s) # 0 /\ Head(s) = s[1]
  BY DEF EndsInMain
<1>2. QED
  BY <1>1 DEF EndsInMain

\* --cycle_cnt does not wrap while cycle_cnt is positive.
LEMMA Decrement ==
  ASSUME TypeOK, cycle_cnt > 0
  PROVE  Decremented = cycle_cnt - 1
  BY CountsAssumption DEF TypeOK, Decremented

\* first_pass and traced are Booleans.
LEMMA FlagStep ==
  ASSUME LoopInv, [Next]_vars
  PROVE  first_pass' \in BOOLEAN /\ traced' \in BOOLEAN
<1> USE DEF LoopInv, TypeOK
<1>1. CASE AflPersistentLoop
  BY <1>1, Zenon DEF AflPersistentLoop, Pivot
<1>2. CASE ~AflPersistentLoop
  <2>1. UNCHANGED <<first_pass, traced>>
    BY <1>2 DEF Next, CallFunction, CallerReturns, BackupRegisters, SetupLoop,
       Continue, StartFunc, Break, Body, HookAtAddress, Return, Ended, vars,
       globals
  <2>2. QED
    BY <2>1
<1>3. QED
  BY <1>1, <1>2

\* The configuration never changes.
LEMMA ConfStep ==
  ASSUME [Next]_vars
  PROVE  UNCHANGED <<conf, count>> /\ (Once' <=> Once)
         /\ (BackupUnshared' <=> BackupUnshared)
<1>1. UNCHANGED <<conf, count>>
  BY DEF Next, CallFunction, CallerReturns, BackupRegisters, SetupLoop,
     AflPersistentLoop, Continue, StartFunc, Break, Body, HookAtAddress, Return,
     Ended, vars
<1>2. QED
  BY <1>1 DEF Once, BackupUnshared

\* What is on the stack in any use.
LEMMA BaseStep ==
  ASSUME TypeOK, BaseInv, [Next]_vars
  PROVE  BaseInv'
<1> USE DEF TypeOK, BaseInv, InLoop
<1>1. CASE CallFunction
  <2>1. /\ stack' = Push("caller", stack) /\ pc' = "entry"
        /\ first_pass' = first_pass /\ ret_backup' = ret_backup
    BY <1>1 DEF CallFunction, globals
  <2>2. EndsInMain(stack) /\ "caller" \in Addresses
    BY <1>1 DEF CallFunction, Addresses
  <2>3. EndsInMain(stack') /\ Len(stack') = Len(stack) + 1
    BY <2>1, <2>2, PushEnds
  <2>4. Len(stack) \in Nat /\ Len(stack) > 0
    BY <2>2 DEF EndsInMain
  <2>5. ~first_pass => ret_backup \in Addresses
    BY DEF BaseInv
  <2>6. Len(stack') > 1 /\ EndsInMain(stack')
    BY <2>3, <2>4
  <2>7. QED
    BY <2>1, <2>5, <2>6
<1>2. CASE CallerReturns
  <2>1. /\ pc = "caller" /\ pc' \in {"done", "wild"}
        /\ stack' = stack /\ ret_backup' = ret_backup
        /\ first_pass' = first_pass
    BY <1>2 DEF CallerReturns, globals
  <2>2. ~first_pass => ret_backup \in Addresses
    OBVIOUS
  <2>3. EndsInMain(stack')
    BY <2>1
  <2>4. QED
    BY <2>1, <2>2, <2>3
<1>3. CASE BackupRegisters
  BY <1>3 DEF BackupRegisters, Backup, globals, ghosts
<1>4. CASE SetupLoop
  <2>1. EndsInMain(stack) /\ "setup_loop" \in Addresses
    BY <1>4 DEF SetupLoop, Addresses
  <2>2. pc' = "check" /\ UNCHANGED first_pass
    BY <1>4 DEF SetupLoop
  <2>3. CASE first_pass
    <3>1. /\ stack' = Push("setup_loop", Tail(stack))
          /\ ret_backup' = Head(stack)
      BY <1>4, <2>3, Zenon DEF SetupLoop, SaveReturn, PopReturn
    <3>2. Len(stack) > 1
      BY <1>4, <2>3 DEF SetupLoop
    <3>3. /\ EndsInMain(Tail(stack)) /\ ret_backup' \in Addresses
          /\ Len(Tail(stack)) = Len(stack) - 1
      BY <2>1, <3>1, <3>2, PopEnds
    <3>4. /\ EndsInMain(stack') /\ Head(stack') = "setup_loop"
          /\ Len(stack') = Len(Tail(stack)) + 1
      BY <2>1, <3>1, <3>3, PushEnds
    <3>5. QED
      BY <2>2, <3>2, <3>3, <3>4 DEF EndsInMain
  <2>4. CASE ~first_pass
    <3>1. stack' = Push("setup_loop", stack) /\ ret_backup' = ret_backup
      BY <1>4, <2>4, Zenon DEF SetupLoop
    <3>2. /\ EndsInMain(stack') /\ Head(stack') = "setup_loop"
          /\ Len(stack') = Len(stack) + 1
      BY <2>1, <3>1, PushEnds
    <3>3. ret_backup' \in Addresses /\ Len(stack) \in Nat /\ Len(stack) > 0
      BY <2>1, <2>4, <3>1 DEF EndsInMain
    <3>4. QED
      BY <2>1, <2>2, <3>2, <3>3 DEF EndsInMain
  <2>5. QED
    BY <2>3, <2>4
<1>5. CASE AflPersistentLoop
  BY <1>5 DEF AflPersistentLoop, GoesOn, Pivot, Clobber, globals, ghosts
<1>6. CASE Continue
  BY <1>6 DEF Continue, globals, ghosts
<1>7. CASE StartFunc
  BY <1>7 DEF StartFunc, Restored, globals, ghosts
<1>8. CASE Break
  <2>1. /\ stack' = Push(ret_backup, Tail(stack)) /\ pc' = "ret"
        /\ UNCHANGED <<first_pass, ret_backup>>
    BY <1>8 DEF Break, globals
  <2>2. EndsInMain(stack) /\ Len(stack) > 1 /\ ret_backup \in Addresses
    BY <1>8 DEF Break
  <2>3. EndsInMain(stack')
    BY <2>1, <2>2, PopEnds, PushEnds
  <2>4. QED
    BY <1>8, <2>1, <2>2, <2>3 DEF Break
<1>9. CASE Body
  <2>1. UNCHANGED <<first_pass, ret_backup>> /\ ~first_pass
    BY <1>9 DEF Body, globals
  <2>2. EndsInMain(stack) /\ Len(stack) > 1 /\ "body" \in Addresses
    BY <1>9 DEF Body, Addresses
  <2>3. CASE stack' = stack /\ pc' \in {"ret", "hook"}
    BY <1>9, <2>1, <2>2, <2>3 DEF Body
  <2>4. CASE stack' = Push("body", stack) /\ pc' = "entry"
    <3>1. EndsInMain(stack') /\ Len(stack') = Len(stack) + 1
      BY <2>2, <2>4, PushEnds
    <3>2. Len(stack) \in Nat
      BY <2>2 DEF EndsInMain
    <3>3. QED
      BY <2>1, <2>2, <2>4, <3>1, <3>2
  <2>5. QED
    BY <1>9, <2>3, <2>4 DEF Body
<1>10. CASE HookAtAddress
  BY <1>10 DEF HookAtAddress, Backup, Restored, globals, ghosts
<1>11. CASE Return
  <2>1. EndsInMain(stack) /\ ~first_pass /\ ret_backup \in Addresses
    BY <1>11 DEF Return
  <2>2. stack' = Tail(stack) /\ UNCHANGED <<first_pass, ret_backup>>
    BY <1>11 DEF Return, globals
  <2>3. CASE pc' = "wild"
    BY <2>1, <2>2, <2>3
  <2>4. CASE pc' # "wild"
    <3>1. Head(stack) # "main" /\ pc' \in {"setup_loop", "caller", "ret"}
      BY <1>11, <2>4 DEF Return, LoopTop
    <3>2. EndsInMain(stack')
      BY <2>1, <2>2, <3>1, NotBottom, PopEnds
    <3>3. QED
      BY <2>1, <2>2, <3>1, <3>2
  <2>5. QED
    BY <2>3, <2>4
<1>12. CASE UNCHANGED vars
  BY <1>12 DEF vars, globals, ghosts
<1>13. QED
  BY <1>1, <1>2, <1>3, <1>4, <1>5, <1>6, <1>7, <1>8, <1>9, <1>10, <1>11, <1>12
  DEF Next, Ended

\* The counts while the trace is on, in any use.
LEMMA TraceStep ==
  ASSUME TypeOK, BaseInv, TraceInv, [Next]_vars
  PROVE  TraceInv'
<1> USE CountsAssumption DEF TypeOK, BaseInv, TraceInv, InLoop
<1>1. CASE CallFunction
  BY <1>1 DEF CallFunction, globals, ghosts
<1>2. CASE CallerReturns
  BY <1>2 DEF CallerReturns, globals, ghosts
<1>3. CASE BackupRegisters
  BY <1>3 DEF BackupRegisters, Backup, globals, ghosts
<1>4. CASE SetupLoop
  BY <1>4 DEF SetupLoop, SaveReturn, PopReturn, globals, ghosts
<1>5. CASE AflPersistentLoop
  <2>1. count \in 1..(Modulus - 1) /\ UNCHANGED <<count, bodies>>
    BY <1>5 DEF AflPersistentLoop, ghosts
  <2>2. CASE first_pass
    BY <1>5, <2>1, <2>2 DEF AflPersistentLoop
  <2>3. CASE ~first_pass /\ traced
    <3>1. Decremented = cycle_cnt - 1 /\ cycle_cnt \in Nat /\ cycle_cnt <= count
      BY <2>1, <2>3, Decrement
    <3>2. \/ pc' = "stopped" /\ cycle_cnt' = cycle_cnt - 1 /\ cycle_cnt - 1 # 0
          \/ pc' = "break" /\ ~traced'
      BY <1>5, <2>3, <3>1 DEF AflPersistentLoop, GoesOn, Pivot
    <3>3. bodies = count - cycle_cnt + 1
      BY <1>5, <2>3 DEF AflPersistentLoop
    <3>4. ~first_pass'
      BY <1>5, <2>3, Zenon DEF AflPersistentLoop
    <3>5. QED
      BY <2>1, <2>3, <3>1, <3>2, <3>3, <3>4
  <2>4. CASE ~first_pass /\ ~traced
    BY <1>5, <2>1, <2>4 DEF AflPersistentLoop, Pivot
  <2>5. QED
    BY <2>2, <2>3, <2>4
<1>6. CASE Continue
  BY <1>6 DEF Continue, globals, ghosts
<1>7. CASE StartFunc
  BY <1>7 DEF StartFunc, Restored, globals, ghosts
<1>8. CASE Break
  BY <1>8 DEF Break, Restored, globals, ghosts
<1>9. CASE Body
  BY <1>9 DEF Body, Clobber, globals, ghosts
<1>10. CASE HookAtAddress
  BY <1>10 DEF HookAtAddress, Backup, Restored, globals, ghosts
<1>11. CASE Return
  BY <1>11 DEF Return, LoopTop, globals, ghosts
<1>12. CASE UNCHANGED vars
  BY <1>12 DEF vars, globals, ghosts
<1>13. QED
  BY <1>1, <1>2, <1>3, <1>4, <1>5, <1>6, <1>7, <1>8, <1>9, <1>10, <1>11, <1>12
  DEF Next, Ended

\* The backup and the registers, in any use that does not share the backup.
LEMMA BackupStep ==
  ASSUME TypeOK, BaseInv, BackupInv, [Next]_vars
  PROVE  BackupInv'
<1> USE ConfStep DEF TypeOK, BaseInv, BackupInv, BackupUnshared, Kept, InLoop,
            SavedRegs, Regs, RegFiles
<1>1. CASE CallFunction
  BY <1>1 DEF CallFunction, globals, ghosts
<1>2. CASE CallerReturns
  BY <1>2 DEF CallerReturns, globals, ghosts
<1>3. CASE BackupRegisters
  BY <1>3 DEF BackupRegisters, Backup, globals, ghosts
<1>4. CASE SetupLoop
  BY <1>4 DEF SetupLoop, SaveReturn, PopReturn, globals, ghosts
<1>5. CASE AflPersistentLoop
  BY <1>5 DEF AflPersistentLoop, GoesOn, Pivot, Clobber, globals, ghosts
<1>6. CASE Continue
  BY <1>6 DEF Continue, globals, ghosts
<1>7. CASE StartFunc
  BY <1>7 DEF StartFunc, Restored, globals, ghosts
<1>8. CASE Break
  BY <1>8 DEF Break, Restored, globals, ghosts
<1>9. CASE Body
  BY <1>9 DEF Body, Clobber, globals, ghosts
<1>10. CASE HookAtAddress
  BY <1>10 DEF HookAtAddress, Backup, Restored, globals, ghosts
<1>11. CASE Return
  BY <1>11 DEF Return, LoopTop, globals, ghosts
<1>12. CASE UNCHANGED vars
  BY <1>12 DEF vars, globals, ghosts
<1>13. QED
  BY <1>1, <1>2, <1>3, <1>4, <1>5, <1>6, <1>7, <1>8, <1>9, <1>10, <1>11, <1>12
  DEF Next, Ended

\* The types.
LEMMA TypeStep ==
  ASSUME LoopInv, [Next]_vars
  PROVE  TypeOK'
<1> USE CountsAssumption, RegistersAssumption
        DEF LoopInv, TypeOK, BaseInv, InLoop, SavedRegs, Regs, RegFiles,
            Addresses, ProgramPoint
<1>1. CASE CallFunction
  <2>1. stack' \in Seq(Addresses)
    BY <1>1, PushEnds DEF CallFunction, EndsInMain
  <2>2. QED
    BY <1>1, <2>1 DEF CallFunction, globals
<1>2. CASE CallerReturns
  BY <1>2 DEF CallerReturns, globals, ghosts
<1>3. CASE BackupRegisters
  BY <1>3 DEF BackupRegisters, Backup, globals, ghosts
<1>4. CASE SetupLoop
  <2>1. UNCHANGED <<conf, count, regs, backup, first_pass, cycle_cnt, traced,
                    frame, ghosts>>
    BY <1>4 DEF SetupLoop
  <2>2. BaseInv' /\ pc' = "check"
    BY <1>4, BaseStep DEF SetupLoop
  <2>3. stack' \in Seq(Addresses) /\ ret_backup' \in Addresses
    BY <2>2 DEF EndsInMain
  <2>4. QED
    BY <2>1, <2>2, <2>3 DEF ghosts
<1>5. CASE AflPersistentLoop
  <2>1. cycle_cnt' \in 0..(Modulus - 1)
    BY <1>5 DEF AflPersistentLoop, Decremented
  <2>2. regs' \in RegFiles /\ pc' \in ProgramPoint
    BY <1>5 DEF AflPersistentLoop, Clobber
  <2>3. UNCHANGED <<conf, count, stack, backup, ret_backup, frame, ghosts>>
    BY <1>5 DEF AflPersistentLoop
  <2>4. QED
    BY <2>1, <2>2, <2>3, FlagStep DEF ghosts
<1>6. CASE Continue
  BY <1>6 DEF Continue, globals, ghosts
<1>7. CASE StartFunc
  BY <1>7 DEF StartFunc, Restored, globals, ghosts
<1>8. CASE Break
  <2>1. BaseInv' /\ pc' = "ret"
    BY <1>8, BaseStep DEF Break
  <2>2. stack' \in Seq(Addresses)
    BY <2>1 DEF EndsInMain
  <2>3. QED
    BY <1>8, <2>1, <2>2 DEF Break, Restored, globals, ghosts
<1>9. CASE Body
  <2>1. BaseInv' /\ pc' \in {"ret", "hook", "entry"}
    BY <1>9, BaseStep DEF Body
  <2>2. stack' \in Seq(Addresses)
    BY <2>1 DEF EndsInMain
  <2>3. QED
    BY <1>9, <2>1, <2>2 DEF Body, Clobber, globals, ghosts
<1>10. CASE HookAtAddress
  BY <1>10 DEF HookAtAddress, Backup, Restored, globals, ghosts
<1>11. CASE Return
  <2>1. EndsInMain(stack) /\ stack' = Tail(stack) /\ stack # <<>>
    BY <1>11 DEF Return, EndsInMain
  <2>2. stack' \in Seq(Addresses)
    BY <2>1, HeadTailProperties DEF EndsInMain
  <2>3. QED
    BY <1>11, <2>2 DEF Return, LoopTop, globals, ghosts
<1>12. CASE UNCHANGED vars
  BY <1>12 DEF vars, globals, ghosts
<1>13. QED
  BY <1>1, <1>2, <1>3, <1>4, <1>5, <1>6, <1>7, <1>8, <1>9, <1>10, <1>11, <1>12
  DEF Next, Ended

\* The stack at each point, for a single use.
LEMMA StackStep ==
  ASSUME Once, TypeOK, StackInv, CountInv, [Next]_vars
  PROVE  StackInv'
<1> USE DEF Once, TypeOK, StackInv, CountInv, InLoop
<1>1. CASE CallFunction
  <2>1. stack' = Push("caller", <<"main">>) /\ pc' = "entry"
    BY <1>1 DEF CallFunction
  <2>2. QED
    BY <2>1, Pushes
<1>2. CASE CallerReturns
  BY <1>2 DEF CallerReturns, globals, ghosts
<1>3. CASE BackupRegisters
  BY <1>3 DEF BackupRegisters, Backup, globals, ghosts
<1>4. CASE SetupLoop
  <2>1. /\ stack' = Push("setup_loop", <<"main">>)
        /\ ret_backup' = "caller" /\ pc' = "check"
    BY <1>4, PopOfTwo DEF SetupLoop, SaveReturn, PopReturn
  <2>2. QED
    BY <2>1, Pushes
<1>5. CASE AflPersistentLoop
  BY <1>5, Decrement DEF AflPersistentLoop, GoesOn
<1>6. CASE Continue
  BY <1>6 DEF Continue, globals, ghosts
<1>7. CASE StartFunc
  BY <1>7 DEF StartFunc, Restored, globals, ghosts
<1>8. CASE Break
  <2>1. /\ stack' = Push("caller", <<"main">>)
        /\ ret_backup' = "caller" /\ pc' = "ret" /\ cycle_cnt' = 0
    BY <1>8, PopOfTwo DEF Break, globals
  <2>2. QED
    BY <2>1, Pushes
<1>9. CASE Body
  BY <1>9 DEF Body, Clobber, globals, ghosts
<1>10. CASE HookAtAddress
  BY <1>10 DEF HookAtAddress, Backup, Restored, globals, ghosts
<1>11. CASE Return
  <2>1. stack' = <<"main">>
    BY <1>11, PopOfTwo DEF Return
  <2>2. pc' = IF cycle_cnt = 0 THEN "caller" ELSE "setup_loop"
    BY <1>11, PopOfTwo DEF Return, LoopTop
  <2>3. QED
    BY <1>11, <2>1, <2>2 DEF Return, globals
<1>12. CASE UNCHANGED vars
  BY <1>12 DEF vars, globals, ghosts
<1>13. QED
  BY <1>1, <1>2, <1>3, <1>4, <1>5, <1>6, <1>7, <1>8, <1>9, <1>10, <1>11, <1>12
  DEF Next, Ended

\* The counts at each point, for a single use.
LEMMA CountStep ==
  ASSUME Once, TypeOK, StackInv, CountInv, [Next]_vars
  PROVE  CountInv'
<1> USE CountsAssumption DEF Once, TypeOK, StackInv, CountInv, InLoop
<1>1. CASE CallFunction
  BY <1>1 DEF CallFunction, globals, ghosts
<1>2. CASE CallerReturns
  BY <1>2 DEF CallerReturns, globals, ghosts
<1>3. CASE BackupRegisters
  BY <1>3 DEF BackupRegisters, Backup, globals, ghosts
<1>4. CASE SetupLoop
  BY <1>4 DEF SetupLoop, SaveReturn, PopReturn, globals, ghosts
<1>5. CASE AflPersistentLoop
  BY <1>5, Decrement DEF AflPersistentLoop, GoesOn, Pivot, Clobber, globals, ghosts
<1>6. CASE Continue
  BY <1>6 DEF Continue, globals, ghosts
<1>7. CASE StartFunc
  BY <1>7 DEF StartFunc, Restored, globals, ghosts
<1>8. CASE Break
  BY <1>8 DEF Break, Restored, globals, ghosts
<1>9. CASE Body
  BY <1>9 DEF Body, Clobber, globals, ghosts
<1>10. CASE HookAtAddress
  BY <1>10 DEF HookAtAddress, Backup, Restored, globals, ghosts
<1>11. CASE Return
  BY <1>11 DEF Return, LoopTop, globals, ghosts
<1>12. CASE UNCHANGED vars
  BY <1>12 DEF vars, globals, ghosts
<1>13. QED
  BY <1>1, <1>2, <1>3, <1>4, <1>5, <1>6, <1>7, <1>8, <1>9, <1>10, <1>11, <1>12
  DEF Next, Ended

\* What the caller finds, for a single use.
LEMMA CallerStep ==
  ASSUME Once, TypeOK, StackInv, CountInv, BackupInv, CallerInv, [Next]_vars
  PROVE  CallerInv'
<1> USE ConfStep DEF Once, TypeOK, StackInv, CountInv, BackupInv, CallerInv,
            BackupUnshared, Kept, InLoop, SavedRegs, Regs, RegFiles
<1>1. CASE CallFunction
  BY <1>1 DEF CallFunction, globals, ghosts
<1>2. CASE CallerReturns
  BY <1>2 DEF CallerReturns, globals, ghosts
<1>3. CASE BackupRegisters
  BY <1>3 DEF BackupRegisters, Backup, globals, ghosts
<1>4. CASE SetupLoop
  BY <1>4 DEF SetupLoop, SaveReturn, PopReturn, globals, ghosts
<1>5. CASE AflPersistentLoop
  BY <1>5 DEF AflPersistentLoop, GoesOn, Pivot, Clobber, globals, ghosts
<1>6. CASE Continue
  BY <1>6 DEF Continue, globals, ghosts
<1>7. CASE StartFunc
  BY <1>7 DEF StartFunc, Restored, globals, ghosts
<1>8. CASE Break
  BY <1>8 DEF Break, Restored, globals, ghosts
<1>9. CASE Body
  BY <1>9 DEF Body, Clobber, globals, ghosts
<1>10. CASE HookAtAddress
  BY <1>10 DEF HookAtAddress, Backup, Restored, globals, ghosts
<1>11. CASE Return
  BY <1>11 DEF Return, LoopTop, globals, ghosts
<1>12. CASE UNCHANGED vars
  BY <1>12 DEF vars, globals, ghosts
<1>13. QED
  BY <1>1, <1>2, <1>3, <1>4, <1>5, <1>6, <1>7, <1>8, <1>9, <1>10, <1>11, <1>12
  DEF Next, Ended

-------------------------------------------------------------------------------
\* The invariant holds at the start.
LEMMA InvInit ==
  ASSUME Init
  PROVE  LoopInv
<1> USE CountsAssumption, RegistersAssumption DEF Init
<1>1. first_pass \in BOOLEAN /\ traced \in BOOLEAN
  BY Zenon
<1>2. TypeOK
  BY <1>1 DEF TypeOK, ProgramPoint, Addresses, RegFiles, Regs, SavedRegs
<1>3. EndsInMain(stack)
  BY DEF EndsInMain, Addresses
<1>4. BaseInv /\ TraceInv /\ BackupInv
  BY <1>3 DEF BaseInv, TraceInv, BackupInv, InLoop
<1>5. OnceInv
  BY DEF OnceInv, StackInv, CountInv, CallerInv, InLoop
<1>6. QED
  BY <1>2, <1>4, <1>5 DEF LoopInv

\* LoopInv is an inductive invariant of the patch.
THEOREM Invariance == Spec => []LoopInv
<1>1. Init => LoopInv
  BY InvInit
<1>2. LoopInv /\ [Next]_vars => LoopInv'
  <2> SUFFICES ASSUME LoopInv, [Next]_vars
               PROVE  LoopInv'
    OBVIOUS
  <2>1. TypeOK' /\ BaseInv' /\ TraceInv' /\ BackupInv'
    BY TypeStep, BaseStep, TraceStep, BackupStep DEF LoopInv
  <2>2. ASSUME Once'
        PROVE  StackInv' /\ CountInv' /\ CallerInv'
    <3>1. Once /\ TypeOK /\ StackInv /\ CountInv /\ BackupInv /\ CallerInv
      BY <2>2, ConfStep DEF LoopInv, OnceInv
    <3>2. QED
      BY <3>1, StackStep, CountStep, CallerStep
  <2>3. QED
    BY <2>1, <2>2 DEF LoopInv, OnceInv
<1>3. QED
  BY <1>1, <1>2, PTL DEF Spec

\* In any use of the function every variable keeps its type: cycle_cnt stays
\* inside a u32, the stack is never popped when it is empty.
THEOREM TypeCorrect == Spec => []TypeOK
<1>1. LoopInv => TypeOK
  BY DEF LoopInv
<1>2. QED
  BY Invariance, <1>1, PTL

\* For every count, a function called once always returns into the patch, and
\* the caller gets its own stack back.
THEOREM Balanced == Spec => []StackBalanced
<1>1. LoopInv => StackBalanced
  BY DEF LoopInv, OnceInv, StackInv, StackBalanced, InLoop
<1>2. QED
  BY Invariance, <1>1, PTL

\* For every count, a function called once is executed that many times.
THEOREM ExactlyCount == Spec => []ExactlyCountIterations
<1>1. LoopInv => ExactlyCountIterations
  BY CountsAssumption
  DEF LoopInv, OnceInv, TypeOK, StackInv, CountInv, ExactlyCountIterations,
      InLoop, ProgramPoint
<1>2. QED
  BY Invariance, <1>1, PTL

\* Every iteration of every call starts with the registers of that call.
THEOREM Restores == Spec => []RegistersRestored
<1>1. LoopInv => RegistersRestored
  BY DEF LoopInv, BackupInv, Kept, RegistersRestored
<1>2. QED
  BY Invariance, <1>1, PTL

\* The caller gets rbx back, and its code is not traced.
THEOREM LeavesCallerAlone == Spec => []CallerUndisturbed
<1>1. LoopInv => CallerUndisturbed
  BY DEF LoopInv, OnceInv, CallerInv, CallerUndisturbed
<1>2. QED
  BY Invariance, <1>1, PTL

\* Whatever the target does with the function, at most persistent_mode_count
\* executions of it are traced.
THEOREM TracesWithinCount == Spec => []TracedWithinCount
<1>1. LoopInv => TracedWithinCount
  <2> SUFFICES ASSUME LoopInv
               PROVE  TracedWithinCount
    OBVIOUS
  <2>1. pc \in {"body", "hook"} => Head(stack) = "setup_loop"
    BY DEF LoopInv, BaseInv, InLoop
  <2>2. traced => bodies <= count
    BY CountsAssumption DEF LoopInv, TypeOK, TraceInv
  <2>3. QED
    BY <2>1, <2>2 DEF TracedWithinCount
<1>2. QED
  BY Invariance, <1>1, PTL
===============================================================================
