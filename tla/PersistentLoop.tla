---------------------------- MODULE PersistentLoop ----------------------------
(***************************************************************************)
(* Persistent mode inside one process: the patch that add_afl.py puts at   *)
(* the entry of the chosen function (apply_persistent_mode_handler) and    *)
(* the function __afl_persistent_loop it calls.                            *)
(*                                                                         *)
(* The patch takes the caller's return address off the stack once, makes   *)
(* the function return to .Lsetup_loop as often as __afl_persistent_loop   *)
(* says so, and finally returns to the caller.  The model keeps what that  *)
(* depends on: the stack as a sequence of return addresses, top first; the *)
(* registers, one of each kind the code treats differently; the globals    *)
(* first_pass, cycle_cnt, p_mode_reg_backup and p_mode_ret_addr_backup.    *)
(* A step is one block of the patch, one call or one return.               *)
(***************************************************************************)
EXTENDS Integers, Sequences

CONSTANTS
  Counts,    \* values of persistent_mode_count that are explored
  Modulus,   \* 2^32: cycle_cnt is a u32
  Values,    \* contents of a register when the function is called
  Junk,      \* what other code leaves in a register it may clobber
  Confs,     \* configurations that are explored
  MaxBodies  \* bound: executions of the function in one process

ASSUME CountsAssumption ==
  Modulus \in Nat /\ Counts \subseteq 1..(Modulus - 1) /\ MaxBodies \in Nat

ASSUME RegistersAssumption == 0 \in Values /\ Junk \notin Values

ASSUME ConfsAssumption ==
  Confs \subseteq [calls : Nat,         \* times the target calls the function
                   recursive : BOOLEAN, \* the function may call itself
                   hook : {"none", "loop", "body"},  \* sharedmem hook location
                   parent : BOOLEAN]    \* a fork server is there to resume it

VARIABLES
  conf, count,
  pc, stack, regs,
  backup,      \* p_mode_reg_backup
  ret_backup,  \* p_mode_ret_addr_backup
  first_pass, cycle_cnt,
  traced,      \* __afl_area_ptr points to the shared map, not to the dummy
  frame,       \* rbx as the function's prologue saved it
  calls,       \* calls the target has made
  entry_regs,  \* registers at the last call made by the target
  bodies       \* executions of the function

ghosts  == <<calls, entry_regs, bodies>>
globals == <<backup, ret_backup, first_pass, cycle_cnt, traced>>
vars    == <<conf, count, pc, stack, regs, globals, frame, ghosts>>

\* An integer argument register, a register functions preserve, and the low
\* and high halves of an xmm register.
Regs         == {"rdi", "rbx", "xmm_lo", "xmm_hi"}
SavedRegs    == {"rdi", "rbx", "xmm_lo"}
RegFiles     == [Regs -> Values \cup {Junk}]
Addresses    == {"main", "caller", "setup_loop", "body"}
ProgramPoint == {"caller", "entry", "setup_loop", "check", "stopped", "break",
                 "start_func", "body", "hook", "ret", "done", "wild"}

TypeOK ==
  /\ conf \in Confs /\ count \in Counts
  /\ pc \in ProgramPoint
  /\ stack \in Seq(Addresses)
  /\ regs \in RegFiles /\ entry_regs \in RegFiles
  /\ backup \in [SavedRegs -> Values \cup {Junk}]
  /\ ret_backup \in Addresses \cup {"none"}
  /\ first_pass \in BOOLEAN /\ traced \in BOOLEAN
  /\ frame \in Values \cup {Junk}
  /\ cycle_cnt \in 0..(Modulus - 1)
  /\ calls \in Nat /\ bodies \in Nat

Init ==
  /\ conf \in Confs /\ count \in Counts
  /\ pc = "caller" /\ stack = <<"main">>
  /\ regs = [r \in Regs |-> 0] /\ entry_regs = regs
  /\ backup = [r \in SavedRegs |-> 0] /\ ret_backup = "none"
  /\ first_pass = TRUE /\ cycle_cnt = 0 /\ traced = TRUE /\ frame = 0
  /\ calls = 0 /\ bodies = 0

-----------------------------------------------------------------------------
Push(a, s) == <<a>> \o s

\* A call through the C ABI keeps rbx.
Clobber(r) == [r EXCEPT !["rdi"] = Junk, !["xmm_lo"] = Junk, !["xmm_hi"] = Junk]

\* backup_register_asm: general registers, and xmm registers with movq.
Backup(r) == [x \in SavedRegs |-> r[x]]

\* restore_register_asm: movq into an xmm register clears its high half.
Restored(b) == [x \in Regs |-> IF x \in SavedRegs THEN b[x] ELSE 0]

\* The target calls the function with some arguments.
CallFunction ==
  /\ pc = "caller" /\ calls < conf.calls
  /\ \E v \in [Regs -> Values] : regs' = v /\ entry_regs' = v
  /\ stack' = Push("caller", stack)
  /\ calls' = calls + 1 /\ pc' = "entry"
  /\ UNCHANGED <<conf, count, globals, frame, bodies>>

\* The target's caller has nothing more to do and returns.
CallerReturns ==
  /\ pc = "caller" /\ calls = conf.calls
  /\ pc' = IF Head(stack) = "main" THEN "done" ELSE "wild"
  /\ UNCHANGED <<conf, count, stack, regs, globals, frame, ghosts>>

BackupRegisters ==
  /\ pc = "entry"
  /\ backup' = Backup(regs) /\ pc' = "setup_loop"
  /\ UNCHANGED <<conf, count, stack, regs, ret_backup, first_pass, cycle_cnt,
                 traced, frame, ghosts>>

\* pop rax and the store to p_mode_ret_addr_backup.
PopKept(s) == s                           \* mutant: the slot is not popped
PopReturn(s) == Tail(s)

ReturnNotSaved == UNCHANGED ret_backup    \* mutant: the store is left out
SaveReturn == ret_backup' = Head(stack)

\* .Lsetup_loop: on the first pass the return address moves from the stack to
\* p_mode_ret_addr_backup; on every pass .Lsetup_loop is pushed instead.
SetupLoop ==
  /\ pc = "setup_loop"
  /\ \/ /\ first_pass
        /\ SaveReturn
        /\ stack' = Push("setup_loop", PopReturn(stack))
     \/ /\ ~first_pass
        /\ stack' = Push("setup_loop", stack) /\ UNCHANGED ret_backup
  /\ pc' = "check"
  /\ UNCHANGED <<conf, count, regs, backup, first_pass, cycle_cnt, traced,
                 frame, ghosts>>

\* --cycle_cnt on a u32
Decremented == (cycle_cnt - 1) % Modulus

GoesOnLate == cycle_cnt # 0               \* mutant: cycle_cnt--
GoesOn == Decremented # 0

NoPivot == UNCHANGED traced               \* mutant: the trace stays on
Pivot == traced' = FALSE                  \* __afl_area_ptr_dummy

\* call __afl_persistent_loop: go on (first pass), stop until SIGCONT, or leave.
AflPersistentLoop ==
  /\ pc = "check"
  /\ regs' = Clobber(regs)
  /\ \/ /\ first_pass
        /\ cycle_cnt' = count /\ first_pass' = FALSE
        /\ pc' = "start_func" /\ UNCHANGED traced
     \/ /\ ~first_pass /\ GoesOn
        /\ cycle_cnt' = Decremented
        /\ pc' = "stopped" /\ UNCHANGED <<first_pass, traced>>
     \/ /\ ~first_pass /\ ~GoesOn
        /\ cycle_cnt' = Decremented /\ Pivot
        /\ pc' = "break" /\ UNCHANGED first_pass
  /\ UNCHANGED <<conf, count, stack, backup, ret_backup, frame, ghosts>>

\* The fork server sends SIGCONT.
Continue ==
  /\ pc = "stopped" /\ conf.parent
  /\ pc' = "start_func"
  /\ UNCHANGED <<conf, count, stack, regs, globals, frame, ghosts>>

\* .Lstart_func: the hook may change the saved registers; they are loaded.
StartFunc ==
  /\ pc = "start_func" /\ bodies < MaxBodies
  /\ \/ conf.hook # "loop" /\ UNCHANGED backup
     \/ /\ conf.hook = "loop"
        /\ \E v \in Values : backup' = [backup EXCEPT !["rdi"] = v]
  /\ regs' = Restored(backup')
  /\ pc' = "body"
  /\ UNCHANGED <<conf, count, stack, ret_backup, first_pass, cycle_cnt,
                 traced, frame, ghosts>>

\* The loop is left: the pushed address makes room for the original one, the
\* registers are loaded, ret.
Break ==
  /\ pc = "break"
  /\ stack' = Push(ret_backup, Tail(stack))
  /\ regs' = Restored(backup) /\ pc' = "ret"
  /\ UNCHANGED <<conf, count, globals, frame, ghosts>>

\* The body of the function: it uses registers, and may come to the address of
\* an address-based hook, rbx in use and saved in its frame, or call itself.
Body ==
  /\ pc = "body"
  /\ bodies' = bodies + 1
  /\ \/ /\ conf.hook # "body"
        /\ regs' = Clobber(regs) /\ pc' = "ret" /\ UNCHANGED <<stack, frame>>
     \/ /\ conf.hook = "body"
        /\ regs' = [r \in Regs |-> Junk] /\ frame' = regs["rbx"]
        /\ pc' = "hook" /\ UNCHANGED stack
     \/ /\ conf.recursive
        /\ regs' = Clobber(regs) /\ stack' = Push("body", stack)
        /\ pc' = "entry" /\ UNCHANGED frame
  /\ UNCHANGED <<conf, count, globals, calls, entry_regs>>

\* setup_and_call_sharedmem_hook_asm uses the same backup area; the function
\* then runs to its ret.
HookAtAddress ==
  /\ pc = "hook"
  /\ \E v \in Values : backup' = [Backup(regs) EXCEPT !["rdi"] = v]
  /\ regs' = [Restored(backup') EXCEPT !["rbx"] = frame]
  /\ pc' = "ret"
  /\ UNCHANGED <<conf, count, stack, ret_backup, first_pass, cycle_cnt,
                 traced, frame, ghosts>>

LoopTopAtEntry == "entry"                 \* mutant: the label is too high
LoopTop == "setup_loop"

\* ret, into the patch, the caller, or the rest of an outer body.
Return ==
  /\ pc = "ret"
  /\ stack' = Tail(stack)
  /\ pc' = CASE Head(stack) = "setup_loop" -> LoopTop
             [] Head(stack) = "caller" -> "caller"
             [] Head(stack) = "body" -> "ret"
             [] OTHER -> "wild"
  /\ UNCHANGED <<conf, count, regs, globals, frame, ghosts>>

Ended ==
  /\ \/ pc \in {"done", "wild"}
     \/ pc = "stopped" /\ ~conf.parent
     \/ pc = "start_func" /\ bodies = MaxBodies
  /\ UNCHANGED vars

Next ==
  \/ CallFunction \/ CallerReturns \/ BackupRegisters \/ SetupLoop
  \/ AflPersistentLoop \/ Continue \/ StartFunc \/ Break \/ Body
  \/ HookAtAddress \/ Return \/ Ended

Spec == Init /\ [][Next]_vars

\* The process is scheduled, and a parent always asks for the next run.
FairSpec == Spec /\ WF_vars(Next)

-----------------------------------------------------------------------------
\* The target calls the function once, and the function does not call itself.
Once == conf.calls = 1 /\ ~conf.recursive

\* The function always runs with the address of .Lsetup_loop as its return
\* address and nothing else of the patch on the stack, and the caller gets
\* control back with the stack it had: no iteration leaks or steals a slot.
StackBalanced ==
  Once =>
    /\ pc \in {"body", "hook"} => stack = <<"setup_loop", "main">>
    /\ pc \in {"caller", "done"} => stack = <<"main">>
    /\ pc # "wild"

\* A function called once is executed persistent_mode_count times in a process,
\* no more, and no fewer if the process comes to its end.
ExactlyCountIterations ==
  Once =>
    /\ bodies <= count
    /\ pc = "done" => bodies = count

\* A hook elsewhere than inside the function, which would share the backup, and
\* no inner calls, which have arguments of their own.
BackupUnshared == ~conf.recursive /\ conf.hook # "body"

\* Every iteration of every call starts with the registers of the call, but for
\* the one the hook has set; the high halves of the xmm registers, which movq
\* does not save, are zero in each of them, so that nothing an iteration has
\* left in a register reaches the next one.
RegistersRestored ==
  pc = "body" /\ BackupUnshared =>
    /\ \A r \in SavedRegs :
         (conf.hook = "loop" => r # "rdi") => regs[r] = entry_regs[r]
    /\ regs["xmm_hi"] = 0

\* The caller finds the register that functions must preserve unchanged, and
\* its code is no longer traced.
CallerUndisturbed ==
  pc \in {"caller", "done"} /\ calls > 0 /\ Once /\ BackupUnshared =>
    regs["rbx"] = entry_regs["rbx"] /\ ~traced

\* Whatever the target does with the function (calls it again, calls itself),
\* its body only runs with .Lsetup_loop as return address, and its executions
\* are traced for persistent_mode_count of them at most.
TracedWithinCount ==
  /\ pc \in {"body", "hook"} => Head(stack) = "setup_loop"
  /\ traced => bodies <= count

\* A program runs to its end; or, without a parent that would continue it, it
\* stops itself behind the first execution of the function and stays there.
Completes ==
  Once ~> \/ pc = "done"
          \/ pc = "stopped" /\ ~conf.parent /\ count > 1 /\ bodies = 1

-----------------------------------------------------------------------------
(***************************************************************************)
(* What the tutorial says, and the code does not do.                       *)
(***************************************************************************)
\* The count is "how many times the persistent loop should run before the
\* child exits": also when the target calls the function again.
CountHonoured == bodies <= count
===============================================================================
