------------------------------ MODULE ForkServer ------------------------------
(***************************************************************************)
(* The fork server that PeAR injects into a binary                         *)
(* (instrumentation/afl-instrumentation.c): __afl_setup at program start,  *)
(* __afl_start_forkserver at the chosen location, the children it forks    *)
(* with their persistent loop, the SIGTERM handler at_exit, and afl-fuzz   *)
(* at the other end of the two pipes.                                      *)
(*                                                                         *)
(* A step is one system call together with the local computation around    *)
(* it.  `child_pid = fork()` is two steps, because a signal can arrive     *)
(* between the return of fork() and the store (two instructions in         *)
(* patches/generated/6-__afl_start_forkserver.s).                          *)
(*                                                                         *)
(* Data abstraction: a control word is "options" (FS_OPT_ENABLED |         *)
(* FS_OPT_SHDMEM_FUZZ), "run" (0) or "run_killed" (non-zero); the coverage *)
(* map is the set of origins of the hits it holds (a testcase number,      *)
(* Startup or Epilogue); debug output is left out.                         *)
(***************************************************************************)
EXTENDS Integers, Sequences, RuntimeModes

CONSTANTS
  Pids,      \* process identifiers fork() can return
  NoPid,     \* child_pid before the first fork (0) and after at_exit (-1)
  MaxCnt,    \* persistent_mode_count, the argument of __afl_persistent_loop
  MaxExecs,  \* bound: testcases afl-fuzz runs
  Modes      \* the ways the binary is built and started that are explored

ASSUME PidsAssumption ==
  /\ NoPid \notin Pids
  /\ Pids \cap {"hello", "hello_shm", "err_shmat", "err_shm_open"} = {}
  /\ Pids \cap {"stopped", "exited", "signaled"} = {}

ASSUME BoundsAssumption == MaxCnt \in Nat \ {0} /\ MaxExecs \in Nat

ASSUME ModesAssumption ==
  /\ Modes \subseteq [persistent : BOOLEAN, sharedmem : BOOLEAN,
                      loop : BOOLEAN, hook : BOOLEAN,
                      fuzzer : {"none", "plain", "options"}]
  /\ \A m \in Modes : Consistent(m)

VARIABLES
  mode,                \* flags and patches of the binary, kind of parent
  \* the fork server process
  pc, child_pid, child_stopped, was_killed, already_read_first,
  fork_ret,            \* what fork() returned, not yet stored in child_pid
  status,              \* what waitpid() reported
  area_ptr,            \* where __afl_area_ptr points: "none", "dummy" or "shm"
  fuzz_ptr,            \* __afl_fuzz_ptr has been set
  signals,             \* dispositions of SIGTERM and SIGCHLD
  old_signals,         \* old_sigterm_handler and old_sigchld_handler
  term,                \* SIGTERM: "none", "pending" or "handling", in at_exit
  exit_at,             \* where the process ended, "alive" until then
  \* its children
  proc, cpc, first_pass, cycle_cnt, child_area, child_signals,
  \* afl-fuzz, the two pipes and the coverage map
  fz, testcase, timed_out, fz_pid, answer, ctl, st, map,
  ran                  \* executions started since the last run command

setup    == <<signals, old_signals, area_ptr, fuzz_ptr>>
flags    == <<child_stopped, was_killed, already_read_first>>
ids      == <<child_pid, fork_ret, status>>
server   == <<pc, exit_at, child_pid, fork_ret, status, child_stopped,
              was_killed, already_read_first, signals, old_signals, area_ptr,
              fuzz_ptr>>
loopvars == <<first_pass, cycle_cnt, child_area, child_signals>>
children == <<proc, cpc, first_pass, cycle_cnt, child_area, child_signals>>
fuzzer   == <<fz, testcase, timed_out, fz_pid, answer>>
pipes    == <<ctl, st>>
trace    == <<map, ran>>
vars     == <<mode, term, server, children, fuzzer, pipes, trace>>

Zombie    == {"exited", "signaled"}
Live      == {"running", "stopped"}
Hellos    == {"hello", "hello_shm"}
Errors    == {"err_shmat", "err_shm_open"}
Statuses  == {"stopped"} \cup Zombie
CtlWords  == {"options", "run", "run_killed"}
Startup   == -1     \* hits of code that runs before the persistent loop
Epilogue  == -2     \* hits of code that runs after it
Answering == {"await_pid", "await_status"}

\* What a process does on SIGTERM and on SIGCHLD: what the target has asked for,
\* what the server sets, and what the saved handlers are before they are set.
Signals       == [term : {"target", "at_exit", "default"},
                  chld : {"target", "default"}]
TargetSignals == [term |-> "target", chld |-> "target"]
ServerSignals == [term |-> "at_exit", chld |-> "default"]
UnsetSignals  == [term |-> "default", chld |-> "default"]

\* Program points inside __afl_start_forkserver.
InServer == {"phone", "options", "map_fuzz", "read", "writeoff", "fork",
             "forked", "cont", "write_pid", "wait", "write_status"}

TypeServer ==
  /\ mode \in Modes
  /\ pc \in InServer \cup {"setup", "target", "standalone", "exited"}
  /\ exit_at \in InServer \cup {"alive", "setup", "target", "standalone"}
  /\ child_pid \in Pids \cup {NoPid}
  /\ fork_ret \in Pids \cup {NoPid}
  /\ status \in Statuses \cup {"none"}
  /\ was_killed \in CtlWords
  /\ signals \in Signals /\ old_signals \in Signals
  /\ area_ptr \in {"none", "dummy", "shm"}

TypeFlags ==
  /\ child_stopped \in BOOLEAN
  /\ already_read_first \in BOOLEAN
  /\ fuzz_ptr \in BOOLEAN
  /\ term \in {"none", "pending", "handling"}
  /\ timed_out \in BOOLEAN
  /\ first_pass \in [Pids -> BOOLEAN]

TypeChildren ==
  /\ proc \in [Pids -> {"free"} \cup Live \cup Zombie]
  /\ cpc \in [Pids -> {"born", "startup", "loop", "resumed", "body",
                       "epilogue"}]
  /\ cycle_cnt \in [Pids -> 0..MaxCnt]
  /\ child_area \in [Pids -> {"none", "dummy", "shm"}]
  /\ child_signals \in [Pids -> Signals]

TypeFuzzer ==
  /\ fz \in Answering \cup {"boot", "idle", "gone"}
  /\ testcase \in 0..MaxExecs
  /\ fz_pid \in Pids \cup {NoPid}
  /\ answer \in Statuses \cup {"none"}

TypeShared ==
  /\ ctl \in Seq(CtlWords)
  /\ st \in Seq(Pids \cup Hellos \cup Errors \cup Statuses)
  /\ map \subseteq Int
  /\ ran \in Nat

\* The type invariant of the processes, the pipes and the coverage map.
TypeOK ==
  TypeServer /\ TypeFlags /\ TypeChildren /\ TypeFuzzer /\ TypeShared

Init ==
  /\ mode \in Modes
  /\ pc = "setup" /\ child_pid = NoPid /\ fork_ret = NoPid
  /\ child_stopped = FALSE /\ already_read_first = FALSE
  /\ was_killed = "run" /\ status = "none"
  /\ area_ptr = "none" /\ fuzz_ptr = FALSE
  /\ signals = TargetSignals /\ old_signals = UnsetSignals
  /\ term = "none" /\ exit_at = "alive"
  /\ proc = [p \in Pids |-> "free"]
  /\ cpc = [p \in Pids |-> "born"]
  /\ first_pass = [p \in Pids |-> TRUE]
  /\ cycle_cnt = [p \in Pids |-> 0]
  /\ child_area = [p \in Pids |-> "none"]
  /\ child_signals = [p \in Pids |-> UnsetSignals]
  /\ fz = IF mode.fuzzer = "none" THEN "gone" ELSE "boot"
  /\ testcase = 0 /\ timed_out = FALSE /\ fz_pid = NoPid /\ answer = "none"
  /\ ctl = <<>> /\ st = <<>> /\ map = {} /\ ran = 0

-----------------------------------------------------------------------------
(***************************************************************************)
(* The fork server process.                                                *)
(***************************************************************************)
Goto(l) == pc' = l /\ UNCHANGED exit_at

\* _exit(), exit(), or death by a signal, at program point pc.
Exit == pc' = "exited" /\ exit_at' = pc

\* A blocking read of the control pipe returns 0 bytes: nobody can write to it.
CtlClosed == ctl = <<>> /\ fz = "gone"

\* __afl_setup: the dummy map, then __afl_map_shm.  Without SHM_ENV_VAR the
\* program keeps the dummy map; a failed shmat is reported on the pipe.
AflSetup ==
  /\ pc = "setup"
  /\ \/ /\ mode.fuzzer = "none"
        /\ area_ptr' = "dummy" /\ Goto("target") /\ UNCHANGED st
     \/ /\ mode.fuzzer # "none"
        /\ area_ptr' = "shm" /\ Goto("target") /\ UNCHANGED st
     \/ /\ mode.fuzzer # "none"                      \* shmat fails
        /\ st' = Append(st, "err_shmat")
        /\ area_ptr' = "none" /\ Exit
     \/ /\ Exit /\ UNCHANGED <<area_ptr, st>>        \* malloc fails
  /\ UNCHANGED <<mode, term, children, fuzzer, flags, ids, trace, signals,
                 old_signals, fuzz_ptr, ctl>>

SavedTooLate == ServerSignals  \* mutant: saved when they are replaced already
SavedSignals == signals

\* The target runs up to the place where the fork server is initialised, which
\* saves the target's handlers, makes at_exit the handler of SIGTERM and resets
\* that of SIGCHLD; or it ends before it gets there.  The guard
\* __afl_already_initialized_forkserver makes every later call, the children's
\* included, return at once.
TargetReachesInit ==
  /\ pc = "target"
  /\ \/ /\ Goto("phone")
        /\ old_signals' = SavedSignals /\ signals' = ServerSignals
     \/ Exit /\ UNCHANGED <<signals, old_signals>>
  /\ UNCHANGED <<mode, term, children, fuzzer, flags, ids, pipes, trace,
                 area_ptr, fuzz_ptr>>

WriteFails == fz = "gone"

\* The options word goes out on FORKSRV_FD + 1.  With no such descriptor the
\* write fails and the program runs by itself, with the handlers the server has
\* set; with a pipe nobody reads the process gets SIGPIPE, or the write fails if
\* the target ignores it.
PhoneHome ==
  /\ pc = "phone"
  /\ \/ /\ ~WriteFails
        /\ st' = Append(st, IF mode.sharedmem THEN "hello_shm" ELSE "hello")
        /\ Goto(IF mode.sharedmem THEN "options" ELSE "read")
     \/ /\ WriteFails /\ Goto("standalone") /\ UNCHANGED st
     \/ /\ WriteFails /\ mode.fuzzer # "none" /\ Exit /\ UNCHANGED st
  /\ UNCHANGED <<mode, term, children, fuzzer, setup, flags, ids, trace, ctl>>

\* already_read_first after the options exchange.
AlreadyReadAlways == TRUE   \* mutant: set without persistent mode as well
AlreadyReadNever == FALSE   \* mutant: not set
AlreadyReadFirst == mode.persistent

\* Shared memory fuzzing: one word is read before the main loop.
ReadOptions ==
  /\ pc = "options"
  /\ \/ /\ ctl # <<>>
        /\ was_killed' = Head(ctl) /\ ctl' = Tail(ctl)
        /\ IF Head(ctl) = "options"
           THEN Goto("map_fuzz") /\ UNCHANGED already_read_first
           ELSE Goto("read") /\ already_read_first' = AlreadyReadFirst
     \/ /\ CtlClosed /\ Exit
        /\ UNCHANGED <<was_killed, ctl, already_read_first>>
  /\ UNCHANGED <<mode, term, children, fuzzer, setup, ids, trace,
                 child_stopped, st>>

\* __afl_map_shm_fuzz: attach the testcase memory, or report and exit.
MapShmFuzz ==
  /\ pc = "map_fuzz"
  /\ \/ /\ fuzz_ptr' = TRUE /\ already_read_first' = AlreadyReadFirst
        /\ Goto("read") /\ UNCHANGED st
     \/ /\ st' = Append(st, "err_shm_open")
        /\ Exit /\ UNCHANGED <<fuzz_ptr, already_read_first>>
  /\ UNCHANGED <<mode, term, children, fuzzer, ids, trace, child_stopped,
                 was_killed, signals, old_signals, area_ptr, ctl>>

\* Mutants: the killed child is not waited for; was_killed is not looked at.
AfterCommandNoWait(word) ==
  /\ Goto(IF child_stopped /\ word = "run" THEN "cont" ELSE "fork")
  /\ child_stopped' = (child_stopped /\ word = "run")

AfterCommandAnyWord(word) ==
  /\ Goto(IF child_stopped THEN "writeoff" ELSE "fork")
  /\ child_stopped' = FALSE

\* What a run command leads to: write the stopped child off if afl-fuzz killed
\* it, wake it up if it is merely stopped, fork if there is none.
AfterCommand(word) ==
  /\ Goto(IF child_stopped THEN IF word # "run" THEN "writeoff" ELSE "cont"
                           ELSE "fork")
  /\ child_stopped' = (child_stopped /\ word = "run")

\* Top of the main loop.
LoopRead ==
  /\ pc = "read"
  /\ \/ /\ already_read_first
        /\ already_read_first' = FALSE
        /\ AfterCommand(was_killed) /\ UNCHANGED <<was_killed, ctl>>
     \/ /\ ~already_read_first /\ ctl # <<>>
        /\ was_killed' = Head(ctl) /\ ctl' = Tail(ctl)
        /\ AfterCommand(Head(ctl)) /\ UNCHANGED already_read_first
     \/ /\ ~already_read_first /\ CtlClosed /\ Exit
        /\ UNCHANGED <<was_killed, ctl, child_stopped, already_read_first>>
  /\ UNCHANGED <<mode, term, children, fuzzer, setup, ids, trace, st>>

\* waitpid() fails: child_pid is no child that could be waited for, or it has
\* ended with a disposition of SIGCHLD that leaves nothing to wait for, as the
\* target's may be SIG_IGN.
ECHILD ==
  child_pid \in Pids /\ proc[child_pid] # "free" =>
    signals.chld = "target" /\ proc[child_pid] \in Zombie

\* waitpid(child_pid, &status, 0) for a child that was stopped and killed.
WriteOff ==
  /\ pc = "writeoff"
  /\ \/ /\ child_pid \in Pids /\ proc[child_pid] \in Zombie
        /\ status' = proc[child_pid]
        /\ proc' = [proc EXCEPT ![child_pid] = "free"] /\ Goto("fork")
     \/ /\ ECHILD
        /\ Exit /\ UNCHANGED <<proc, status>>
  /\ UNCHANGED <<mode, term, fuzzer, setup, flags, loopvars, pipes, trace,
                 child_pid, fork_ret, cpc>>

\* fork(): the child is a copy of the server, inside the call as well.
Fork ==
  /\ pc = "fork"
  /\ \/ \E p \in Pids :
          /\ proc[p] = "free"
          /\ proc' = [proc EXCEPT ![p] = "running"]
          /\ cpc' = [cpc EXCEPT ![p] = "born"]
          /\ first_pass' = [first_pass EXCEPT ![p] = TRUE]
          /\ cycle_cnt' = [cycle_cnt EXCEPT ![p] = 0]
          /\ child_area' = [child_area EXCEPT ![p] = area_ptr]
          /\ child_signals' = [child_signals EXCEPT ![p] = signals]
          /\ fork_ret' = p /\ Goto("forked")
     \/ /\ Exit /\ UNCHANGED <<children, fork_ret>>              \* fork fails
  /\ UNCHANGED <<mode, term, fuzzer, setup, flags, pipes, trace, child_pid,
                 status>>

\* The store of fork()'s result into child_pid.
StoreChildPid ==
  /\ pc = "forked"
  /\ child_pid' = fork_ret /\ fork_ret' = NoPid /\ Goto("write_pid")
  /\ UNCHANGED <<mode, term, children, fuzzer, setup, flags, pipes, trace,
                 status>>

\* kill(child_pid, SIGCONT).
Cont ==
  /\ pc = "cont"
  /\ child_stopped' = FALSE
  /\ proc' = [p \in Pids |-> IF p = child_pid /\ proc[p] = "stopped"
                             THEN "running" ELSE proc[p]]
  /\ Goto("write_pid")
  /\ UNCHANGED <<mode, term, fuzzer, setup, ids, loopvars, pipes, trace,
                 was_killed, already_read_first, cpc>>

WritePid ==
  /\ pc = "write_pid"
  /\ \/ fz # "gone" /\ st' = Append(st, child_pid) /\ Goto("wait")
     \/ fz = "gone" /\ Exit /\ UNCHANGED st
  /\ UNCHANGED <<mode, term, children, fuzzer, setup, flags, ids, trace, ctl>>

WIFSTOPPEDAlways(s) == TRUE   \* mutant: the test is left out
WIFSTOPPED(s) == s = "stopped"

\* waitpid(child_pid, &status, is_persistent ? WUNTRACED : 0) and the test of
\* WIFSTOPPED(status).
WaitChild ==
  /\ pc = "wait"
  /\ \/ /\ child_pid \in Pids
        /\ \/ /\ proc[child_pid] \in Zombie
              /\ proc' = [proc EXCEPT ![child_pid] = "free"]
           \/ /\ proc[child_pid] = "stopped" /\ mode.persistent
              /\ UNCHANGED proc
        /\ status' = proc[child_pid]
        /\ child_stopped' = (child_stopped \/ WIFSTOPPED(proc[child_pid]))
        /\ Goto("write_status")
     \/ /\ ECHILD
        /\ Exit /\ UNCHANGED <<proc, status, child_stopped>>
  /\ UNCHANGED <<mode, term, fuzzer, setup, loopvars, pipes, trace, child_pid,
                 fork_ret, was_killed, already_read_first, cpc>>

WriteStatus ==
  /\ pc = "write_status"
  /\ \/ fz # "gone" /\ st' = Append(st, status) /\ Goto("read")
     \/ fz = "gone" /\ Exit /\ UNCHANGED st
  /\ UNCHANGED <<mode, term, children, fuzzer, setup, flags, ids, trace, ctl>>

HasRunningPid == child_pid \in Pids /\ ~child_stopped  \* mutant: while it runs
HasChildPid == child_pid \in Pids                       \* child_pid > 0

KillNobody == UNCHANGED proc                            \* mutant: no kill
KillChild ==
  proc' = [p \in Pids |-> IF HasChildPid /\ p = child_pid /\ proc[p] \in Live
                          THEN "signaled" ELSE proc[p]]

\* SIGTERM runs at_exit once it is installed: SIGKILL to the child ...
AtExit ==
  /\ term = "pending" /\ signals.term = "at_exit" /\ pc # "exited"
  /\ term' = "handling" /\ KillChild
  /\ UNCHANGED <<mode, server, fuzzer, loopvars, pipes, trace, cpc>>

\* ... waitpid(child_pid, NULL, 0), and _exit(0).
AtExitReaps ==
  /\ term = "handling" /\ pc # "exited"
  /\ HasChildPid => ECHILD \/ proc[child_pid] \in Zombie
  /\ proc' = [p \in Pids |-> IF HasChildPid /\ p = child_pid
                             THEN "free" ELSE proc[p]]
  /\ child_pid' = NoPid /\ term' = "none" /\ Exit
  /\ UNCHANGED <<mode, fuzzer, setup, flags, loopvars, pipes, trace, fork_ret,
                 status, cpc>>

\* Before that, the target's own disposition applies, taken to end the process.
TermByDefault ==
  /\ term = "pending" /\ signals.term = "target" /\ pc # "exited"
  /\ term' = "none" /\ Exit
  /\ UNCHANGED <<mode, children, fuzzer, setup, flags, ids, pipes, trace>>

-----------------------------------------------------------------------------
(***************************************************************************)
(* A child.                                                                *)
(***************************************************************************)
Hits(p, origin) == IF child_area[p] = "shm" THEN map \cup {origin} ELSE map

\* Until it returns from __afl_start_forkserver a child holds both pipes open.
HoldsPipes(p) == proc[p] \in Live /\ cpc[p] = "born"

ChildGoto(p, l) == cpc' = [cpc EXCEPT ![p] = l]

\* The child restores the signal handlers, closes the two descriptors and
\* returns from __afl_start_forkserver.
ChildReturns(p) ==
  /\ proc[p] = "running" /\ cpc[p] = "born"
  /\ ChildGoto(p, "startup")
  /\ child_signals' = [child_signals EXCEPT ![p] = old_signals]
  /\ UNCHANGED <<mode, term, server, fuzzer, pipes, trace, proc, first_pass,
                 cycle_cnt, child_area>>

\* Target code up to the persistent mode function (or, without its patch,
\* up to the code that reads the testcase).
ChildStartup(p) ==
  /\ proc[p] = "running" /\ cpc[p] = "startup"
  /\ map' = Hits(p, Startup)
  /\ ChildGoto(p, IF mode.loop THEN "loop" ELSE "body")
  /\ UNCHANGED <<mode, term, server, fuzzer, loopvars, pipes, proc, ran>>

\* memset of the map before the first iteration.
KeepMap(p) == map                            \* mutant: no memset
ClearedMap(p) == IF child_area[p] = "shm" THEN {} ELSE map

\* __afl_persistent_loop, first pass: a clean map for the first iteration.
LoopFirstPass(p) ==
  /\ proc[p] = "running" /\ cpc[p] = "loop" /\ first_pass[p]
  /\ map' = ClearedMap(p)
  /\ cycle_cnt' = [cycle_cnt EXCEPT ![p] = MaxCnt]
  /\ first_pass' = [first_pass EXCEPT ![p] = FALSE]
  /\ ChildGoto(p, "body")
  /\ UNCHANGED <<mode, term, server, fuzzer, pipes, proc, child_area,
                 child_signals, ran>>

StopsLate(p) == cycle_cnt[p] # 0             \* mutant: cycle_cnt--
Stops(p) == cycle_cnt[p] # 1                 \* --cycle_cnt is not zero

RaiseNothing(p) == UNCHANGED proc            \* mutant: no raise
RaiseSigstop(p) == proc' = [proc EXCEPT ![p] = "stopped"]

\* __afl_persistent_loop, later passes: raise(SIGSTOP) while --cycle_cnt is not
\* zero, otherwise leave the loop with the trace turned to the dummy map.
LoopNextPass(p) ==
  /\ proc[p] = "running" /\ cpc[p] = "loop" /\ ~first_pass[p]
  /\ cycle_cnt' = [cycle_cnt EXCEPT ![p] = @ - 1]
  /\ \/ /\ Stops(p) /\ RaiseSigstop(p)
        /\ ChildGoto(p, "resumed") /\ UNCHANGED child_area
     \/ /\ ~Stops(p)
        /\ child_area' = [child_area EXCEPT ![p] = "dummy"]
        /\ ChildGoto(p, "epilogue") /\ UNCHANGED proc
  /\ UNCHANGED <<mode, term, server, fuzzer, pipes, trace, first_pass,
                 child_signals>>

\* raise() returns once SIGCONT has arrived.
LoopResumes(p) ==
  /\ proc[p] = "running" /\ cpc[p] = "resumed"
  /\ ChildGoto(p, "body")
  /\ UNCHANGED <<mode, term, server, fuzzer, loopvars, pipes, trace, proc>>

\* One execution of the fuzzed code on the testcase that is there now.  The
\* shared memory hook dereferences __afl_fuzz_len, a null pointer when the
\* testcase memory was never attached.
ChildBody(p) ==
  /\ proc[p] = "running" /\ cpc[p] = "body"
  /\ ran' = ran + 1
  /\ \/ /\ mode.hook => fuzz_ptr
        /\ map' = Hits(p, testcase)
        /\ ChildGoto(p, IF mode.loop THEN "loop" ELSE "epilogue")
        /\ UNCHANGED proc
     \/ /\ mode.hook /\ ~fuzz_ptr
        /\ proc' = [proc EXCEPT ![p] = "signaled"]
        /\ UNCHANGED <<map, cpc>>
  /\ UNCHANGED <<mode, term, server, fuzzer, loopvars, pipes>>

\* The rest of the program.
ChildEpilogue(p) ==
  /\ proc[p] = "running" /\ cpc[p] = "epilogue"
  /\ map' = Hits(p, Epilogue)
  /\ proc' = [proc EXCEPT ![p] = "exited"]
  /\ UNCHANGED <<mode, term, server, fuzzer, loopvars, pipes, cpc, ran>>

\* The target exits early or crashes on its own; any process can be killed by
\* the system, a stopped one too.
ChildDies(p) ==
  /\ \/ /\ proc[p] = "running" /\ cpc[p] \in {"startup", "loop", "body"}
        /\ proc' = [proc EXCEPT ![p] = "exited"]
     \/ /\ proc[p] \in Live
        /\ proc' = [proc EXCEPT ![p] = "signaled"]
  /\ UNCHANGED <<mode, term, server, fuzzer, loopvars, pipes, trace, cpc>>

Child(p) ==
  \/ ChildReturns(p) \/ ChildStartup(p) \/ LoopFirstPass(p) \/ LoopNextPass(p)
  \/ LoopResumes(p) \/ ChildBody(p) \/ ChildEpilogue(p) \/ ChildDies(p)

-----------------------------------------------------------------------------
(***************************************************************************)
(* afl-fuzz.  It is not part of the repository: this is the parent that    *)
(* the code and its comments expect at the other end of the pipes.         *)
(***************************************************************************)
ServerEndOpen == pc # "exited" \/ \E p \in Pids : HoldsPipes(p)

GivesUp == fz' = "gone" /\ UNCHANGED <<testcase, timed_out, fz_pid, answer>>

FuzzerBoot ==
  /\ fz = "boot" /\ st # <<>>
  /\ st' = Tail(st)
  /\ \/ /\ Head(st) \in Hellos
        /\ fz' = "idle" /\ UNCHANGED <<testcase, timed_out, fz_pid, answer>>
        /\ ctl' = IF Head(st) = "hello_shm" /\ mode.fuzzer = "options"
                  THEN Append(ctl, "options") ELSE ctl
     \/ /\ Head(st) \notin Hellos /\ GivesUp /\ UNCHANGED ctl
  /\ UNCHANGED <<mode, term, server, children, trace>>

\* A testcase is written, the map is cleared, the run command is sent.  It says
\* whether the previous run was killed.
FuzzerRun ==
  /\ fz = "idle" /\ ServerEndOpen /\ testcase < MaxExecs
  /\ testcase' = testcase + 1 /\ map' = {} /\ ran' = 0
  /\ ctl' = Append(ctl, IF timed_out THEN "run_killed" ELSE "run")
  /\ timed_out' = FALSE /\ answer' = "none" /\ fz' = "await_pid"
  /\ UNCHANGED <<mode, term, server, children, fz_pid, st>>

FuzzerReadPid ==
  /\ fz = "await_pid" /\ st # <<>>
  /\ st' = Tail(st)
  /\ \/ /\ Head(st) \in Pids
        /\ fz_pid' = Head(st) /\ fz' = "await_status"
        /\ UNCHANGED <<testcase, timed_out, answer>>
     \/ Head(st) \notin Pids /\ GivesUp
  /\ UNCHANGED <<mode, term, server, children, trace, ctl>>

\* The run takes too long: SIGKILL to the pid that was reported.
FuzzerTimeout ==
  /\ fz = "await_status" /\ ~timed_out
  /\ timed_out' = TRUE
  /\ proc' = [p \in Pids |-> IF p = fz_pid /\ proc[p] \in Live
                             THEN "signaled" ELSE proc[p]]
  /\ UNCHANGED <<mode, term, server, loopvars, pipes, trace, cpc, fz,
                 testcase, fz_pid, answer>>

FuzzerReadStatus ==
  /\ fz = "await_status" /\ st # <<>>
  /\ st' = Tail(st)
  /\ \/ /\ Head(st) \in Statuses
        /\ answer' = Head(st) /\ fz' = "idle"
        /\ UNCHANGED <<testcase, timed_out, fz_pid>>
     \/ Head(st) \notin Statuses /\ GivesUp
  /\ UNCHANGED <<mode, term, server, children, trace, ctl>>

\* The status pipe is closed, or writing to the control pipe fails.
FuzzerSeesServerGone ==
  /\ ~ServerEndOpen
  /\ \/ fz \in Answering \cup {"boot"} /\ st = <<>>
     \/ fz = "idle"
  /\ GivesUp
  /\ UNCHANGED <<mode, term, server, children, pipes, trace>>

\* The user stops afl-fuzz (SIGTERM to the fork server), or it is killed.
FuzzerStops ==
  /\ fz # "gone" /\ GivesUp
  /\ term' = IF pc # "exited" THEN "pending" ELSE "none"
  /\ UNCHANGED <<mode, server, children, pipes, trace>>

\* SIGTERM to a program that was not started by afl-fuzz.
UserTerminates ==
  /\ mode.fuzzer = "none" /\ pc = "standalone" /\ term = "none"
  /\ term' = "pending"
  /\ UNCHANGED <<mode, server, children, fuzzer, pipes, trace>>

FuzzerIsKilled ==
  /\ fz # "gone" /\ GivesUp
  /\ UNCHANGED <<mode, term, server, children, pipes, trace>>

-----------------------------------------------------------------------------
\* Everything has come to rest.
Done ==
  /\ pc \in {"exited", "standalone"} /\ fz = "gone"
  /\ \A p \in Pids : proc[p] # "running"
  /\ UNCHANGED vars

ServerCode ==
  \/ AflSetup \/ TargetReachesInit \/ PhoneHome \/ ReadOptions \/ MapShmFuzz
  \/ LoopRead \/ WriteOff \/ Fork \/ StoreChildPid \/ Cont \/ WritePid
  \/ WaitChild \/ WriteStatus

\* In the signal handler the server's own code stands still.
ServerStep == term # "handling" /\ ServerCode

SignalStep == AtExit \/ AtExitReaps \/ TermByDefault

FuzzerStep ==
  \/ FuzzerBoot \/ FuzzerReadPid \/ FuzzerTimeout \/ FuzzerReadStatus
  \/ FuzzerSeesServerGone

Next ==
  \/ ServerStep \/ SignalStep \/ (\E p \in Pids : Child(p))
  \/ FuzzerStep \/ FuzzerRun \/ FuzzerStops \/ FuzzerIsKilled
  \/ UserTerminates
  \/ Done

Spec == Init /\ [][Next]_vars

\* The operating system schedules the server and afl-fuzz and delivers pending
\* signals; a child gets out of the injected code but may hang for ever in the
\* target's, and nobody has to ask for another run.
Fairness ==
  /\ WF_vars(ServerStep) /\ WF_vars(SignalStep)
  /\ WF_vars(FuzzerBoot \/ FuzzerReadPid \/ FuzzerReadStatus
             \/ FuzzerSeesServerGone)
  /\ WF_vars(FuzzerTimeout)
  /\ \A p \in Pids : WF_vars(ChildReturns(p))

FairSpec == Spec /\ Fairness

-----------------------------------------------------------------------------
(***************************************************************************)
(* Properties.                                                             *)
(***************************************************************************)
\* The children table has one entry at most while the server lives: the server
\* never forks while an earlier child is alive or still to be reaped.
OneChild ==
  pc # "exited" =>
    \A p, q \in Pids : proc[p] # "free" /\ proc[q] # "free" => p = q

\* waitpid() and kill(SIGCONT) are only ever called for the server's own child,
\* not yet reaped by anybody: the exits after a failing waitpid() cannot be taken.
WaitsForOwnChild ==
  pc \in {"writeoff", "cont", "write_pid", "wait"} => ~ECHILD

\* afl-fuzz and the server disagree on what the first word after the hello is
\* in two of the modes with shared memory fuzzing.
Served ==
  mode.sharedmem /\ mode.fuzzer # "none" =>
    mode.persistent # (mode.fuzzer = "options")

\* Where they agree, a stopped child that afl-fuzz says it killed is dead when
\* the server writes it off, so the waitpid() without WUNTRACED returns.
WrittenOffChildIsDead ==
  Served /\ pc = "writeoff" => proc[child_pid] \in Zombie

\* Where they agree, a child runs only while afl-fuzz is waiting for the result
\* of a run: it does not touch the testcase or the coverage map while afl-fuzz
\* works on them.
RunsOnlyWhenAsked ==
  \A p \in Pids :
    Served /\ proc[p] = "running" => fz \in Answering \cup {"gone"}

\* When afl-fuzz has the result of a run, the coverage map holds hits of that
\* testcase and of no other; after a complete persistent iteration it holds
\* nothing else, and code behind the loop is never traced.
TraceBelongsToTestcase ==
  Served /\ fz = "idle" /\ answer # "none" =>
    /\ map \subseteq {Startup, testcase, Epilogue}
    /\ mode.loop => Epilogue \notin map
    /\ answer = "stopped" => map = {testcase}

\* In every mode afl-fuzz reads a pid where the server wrote a pid and a status
\* where it wrote a status; the server is never ahead of the run commands where
\* the two agree, and by one run at most where they do not.
Due   == CASE fz = "idle" -> 0 [] fz = "await_pid" -> 2 [] OTHER -> 1
Ahead == IF Served THEN 0 ELSE 2

AnswersInStep ==
  fz \in Answering \cup {"idle"} /\ st # <<>> /\ Head(st) \notin Errors =>
    /\ Len(st) <= Due + Ahead
    /\ \A i \in DOMAIN st :
         st[i] \in Pids <=> (i % 2 = 1 <=> fz # "await_status")

\* The server waits for a word from afl-fuzz, or without WUNTRACED for a child
\* that is stopped, and afl-fuzz waits for a word from the server.
Blocked ==
  \/ /\ pc = "options" \/ (pc = "read" /\ ~already_read_first)
     /\ ctl = <<>>
  \/ /\ pc = "writeoff" \/ (pc = "wait" /\ ~mode.persistent)
     /\ child_pid \in Pids /\ proc[child_pid] = "stopped"

MutualWait == Blocked /\ fz \in Answering \cup {"boot"} /\ st = <<>>

\* That happens for two reasons only.  Without persistent mode, the first run
\* command was taken for the options word; with it, the options word was taken
\* for the first run command, and the word that says that a run was killed is
\* believed of another child than the one that was.
MutualWaitCauses ==
  MutualWait =>
    \/ /\ mode.sharedmem /\ ~mode.persistent /\ mode.fuzzer = "plain"
       /\ testcase = 1
    \/ /\ mode.sharedmem /\ mode.loop /\ mode.fuzzer = "options"
       /\ pc = "writeoff" /\ testcase > 1

\* child_pid outlives its child.  SIGTERM sends SIGKILL to a pid that may be
\* somebody else's by now, but only between runs: from the report of the end of
\* one child to the store of the pid of the next.
StrayKills ==
  [][AtExit /\ child_pid \in Pids /\ proc[child_pid] = "free" =>
       pc \in {"write_status", "read", "fork", "forked"}]_vars

\* A program that is not started by afl-fuzz never becomes a server: it has no
\* child, reads nothing, and records its hits in the dummy map.  But it goes on
\* without its own handlers of SIGTERM and SIGCHLD, which only a forked child
\* gets back, and that before any of the target's code runs in it.
TargetGoesOn ==
  /\ mode.fuzzer = "none" /\ pc # "exited" =>
       /\ pc \in {"setup", "target", "phone", "standalone"}
       /\ \A p \in Pids : proc[p] = "free"
       /\ pc = "standalone" => area_ptr = "dummy" /\ signals = ServerSignals
  /\ \A p \in Pids :
       proc[p] # "free" /\ cpc[p] # "born" => child_signals[p] = TargetSignals

\* A child outlives its server only if the server ended on a failed read or
\* write of a pipe, or if SIGTERM hit between fork() and the store of its
\* result.
OrphanCauses ==
  pc = "exited" /\ (\E p \in Pids : proc[p] \in Live) =>
    exit_at \in {"read", "write_pid", "write_status", "forked"}

\* The fork server seen from afl-fuzz, where the two agree.
Service == INSTANCE RunService WITH
  phase   <- CASE ~Served \/ fz = "gone" -> "over"
               [] Served /\ fz = "boot" -> "starting"
               [] Served /\ fz = "idle" -> "ready"
               [] Served /\ fz \in Answering -> "busy",
  request <- IF Served THEN testcase ELSE 0,
  ran     <- IF Served THEN ran ELSE 0,
  result  <- CASE ~Served \/ answer = "none" -> "none"
               [] Served /\ answer = "stopped" -> "complete"
               [] OTHER -> "cut"

\* Where the two agree, the fork server implements RunService: the fuzzed code
\* runs at most once per run command and only then, a stop is reported only for
\* a run that took place, and every command is answered, with a hanging child
\* too.
ImplementsRunService == Service!Spec

\* A fork server that is told to terminate does so, whatever its child does: the
\* waitpid() of at_exit comes back.
TermHonoured == (term # "none") ~> (pc = "exited")

-----------------------------------------------------------------------------
(***************************************************************************)
(* What the comments and the tutorial say, and the code does not do.       *)
(***************************************************************************)
\* "If we stopped the child in persistent mode, but there was a race condition
\* and afl-fuzz already issued SIGKILL": the child written off has been killed.
WrittenOffChildWasKilled == pc = "writeoff" => proc[child_pid] \in Zombie

\* The shared memory hook is passed "a pointer to the current testcase": the
\* fuzzed code runs on a testcase whose result afl-fuzz is waiting for.
HookReceivesCurrentTestcase ==
  \A p \in Pids :
    mode.hook /\ proc[p] = "running" /\ cpc[p] = "body" =>
      testcase > 0 /\ fz \in Answering \cup {"gone"}
===============================================================================
