--------------------------- MODULE ForkServerProofs ---------------------------
(***************************************************************************)
(* Proofs about ForkServer, for any set of pids, any loop count, any       *)
(* number of testcases and every mode.                                     *)
(***************************************************************************)
EXTENDS ForkServer, TLAPS

\* Program points at which the server has a child that it has not reaped.
HasChild == {"writeoff", "cont", "write_pid", "wait"}

\* Program points at which it may have one: a stopped one.
BetweenRuns == {"read", "write_status"}

\* child_pid is a child not yet reaped.
ChildUnreaped == child_pid \in Pids /\ proc[child_pid] # "free"

\* The children table is empty but for the process p.
NoneBut(p) == \A q \in Pids : proc[q] # "free" => q = p

NoChild == \A q \in Pids : proc[q] = "free"

\* What the server's position says about its children.
ChildInv ==
  /\ pc = "forked" => /\ fork_ret \in Pids /\ proc[fork_ret] # "free"
                      /\ NoneBut(fork_ret)
  /\ pc \in HasChild => ChildUnreaped /\ NoneBut(child_pid)
  /\ pc \in BetweenRuns =>
       IF child_stopped THEN ChildUnreaped /\ NoneBut(child_pid) ELSE NoChild
  /\ pc \notin {"forked", "exited"} \cup HasChild \cup BetweenRuns => NoChild
  /\ child_stopped => pc \in {"read", "write_status", "cont", "exited"}

\* A child that is not yet in the loop has its first pass to come; one inside
\* it has iterations left, so --cycle_cnt never wraps.
CycleInv ==
  \A p \in Pids :
    /\ cpc[p] \in {"born", "startup"} => first_pass[p]
    /\ ~first_pass[p] /\ cpc[p] \in {"loop", "resumed", "body"} =>
         cycle_cnt[p] > 0

\* The status that is written was set by waitpid().
StatusInv == pc = "write_status" => status \in Statuses

IInv == TypeOK /\ ChildInv /\ CycleInv /\ StatusInv

-------------------------------------------------------------------------------
(***************************************************************************)
(* What each kind of step leaves alone.                                    *)
(***************************************************************************)
FuzzerSide ==
  FuzzerStep \/ FuzzerRun \/ FuzzerStops \/ FuzzerIsKilled \/ UserTerminates

\* A step of a child leaves the server, afl-fuzz and the pipes alone, and no
\* child disappears from the table or comes into it.
LEMMA ChildFrame ==
  ASSUME TypeOK, NEW p \in Pids, Child(p)
  PROVE  /\ UNCHANGED <<mode, term, server, fuzzer, ctl, st>>
         /\ \A q \in Pids : proc'[q] = "free" <=> proc[q] = "free"
<1> USE DEF TypeOK, TypeChildren, Live
<1>1. CASE ChildReturns(p)   BY <1>1 DEF ChildReturns, pipes
<1>2. CASE ChildStartup(p)   BY <1>2 DEF ChildStartup, pipes
<1>3. CASE LoopFirstPass(p)  BY <1>3 DEF LoopFirstPass, pipes
<1>4. CASE LoopNextPass(p)   BY <1>4 DEF LoopNextPass, RaiseSigstop, pipes
<1>5. CASE LoopResumes(p)    BY <1>5 DEF LoopResumes, pipes
<1>6. CASE ChildBody(p)      BY <1>6 DEF ChildBody, pipes
<1>7. CASE ChildEpilogue(p)  BY <1>7 DEF ChildEpilogue, pipes
<1>8. CASE ChildDies(p)      BY <1>8 DEF ChildDies, pipes
<1>9. QED
  BY <1>1, <1>2, <1>3, <1>4, <1>5, <1>6, <1>7, <1>8 DEF Child

\* A step of afl-fuzz leaves the server alone; it may kill a child, which stays
\* in the table, and changes nothing else of the children.
LEMMA FuzzerFrame ==
  ASSUME TypeOK, FuzzerSide
  PROVE  /\ UNCHANGED <<mode, server, cpc, first_pass, cycle_cnt, child_area,
                         child_signals>>
         /\ proc' \in [Pids -> {"free"} \cup Live \cup Zombie]
         /\ \A q \in Pids : proc'[q] = "free" <=> proc[q] = "free"
<1> USE DEF TypeOK, TypeChildren, Live, Zombie
<1>1. CASE FuzzerBoot            BY <1>1 DEF FuzzerBoot, children
<1>2. CASE FuzzerReadPid         BY <1>2 DEF FuzzerReadPid, children
<1>3. CASE FuzzerTimeout         BY <1>3 DEF FuzzerTimeout, loopvars
<1>4. CASE FuzzerReadStatus      BY <1>4 DEF FuzzerReadStatus, children
<1>5. CASE FuzzerSeesServerGone  BY <1>5 DEF FuzzerSeesServerGone, children
<1>6. CASE FuzzerRun             BY <1>6 DEF FuzzerRun, children
<1>7. CASE FuzzerStops           BY <1>7 DEF FuzzerStops, children
<1>8. CASE FuzzerIsKilled        BY <1>8 DEF FuzzerIsKilled, children
<1>9. CASE UserTerminates        BY <1>9 DEF UserTerminates, children
<1>10. QED
  BY <1>1, <1>2, <1>3, <1>4, <1>5, <1>6, <1>7, <1>8, <1>9
  DEF FuzzerSide, FuzzerStep

\* The server and its signal handler leave afl-fuzz and the trace alone.
LEMMA ServerFrame ==
  ASSUME ServerCode \/ SignalStep
  PROVE  UNCHANGED <<mode, fuzzer, map, ran>>
<1>1. CASE AflSetup           BY <1>1 DEF AflSetup, trace
<1>2. CASE TargetReachesInit  BY <1>2 DEF TargetReachesInit, trace
<1>3. CASE PhoneHome          BY <1>3 DEF PhoneHome, trace
<1>4. CASE ReadOptions        BY <1>4 DEF ReadOptions, trace
<1>5. CASE MapShmFuzz         BY <1>5 DEF MapShmFuzz, trace
<1>6. CASE LoopRead           BY <1>6 DEF LoopRead, trace
<1>7. CASE WriteOff           BY <1>7 DEF WriteOff, trace
<1>8. CASE Fork               BY <1>8 DEF Fork, trace
<1>9. CASE StoreChildPid      BY <1>9 DEF StoreChildPid, trace
<1>10. CASE Cont              BY <1>10 DEF Cont, trace
<1>11. CASE WritePid          BY <1>11 DEF WritePid, trace
<1>12. CASE WaitChild         BY <1>12 DEF WaitChild, trace
<1>13. CASE WriteStatus       BY <1>13 DEF WriteStatus, trace
<1>14. CASE AtExit            BY <1>14 DEF AtExit, trace
<1>15. CASE TermByDefault     BY <1>15 DEF TermByDefault, trace
<1>16. CASE AtExitReaps       BY <1>16 DEF AtExitReaps, trace
<1>17. QED
  BY <1>1, <1>2, <1>3, <1>4, <1>5, <1>6, <1>7, <1>8, <1>9, <1>10, <1>11,
     <1>12, <1>13, <1>14, <1>15, <1>16
  DEF ServerStep, ServerCode, SignalStep

-------------------------------------------------------------------------------
(***************************************************************************)
(* The type invariant.                                                     *)
(***************************************************************************)
\* The server's variables keep their types.
LEMMA TypeServerStep ==
  ASSUME IInv, [Next]_vars
  PROVE  TypeServer'
<1> USE DEF IInv, TypeOK, TypeServer, InServer, Zombie, Statuses, CtlWords,
   Signals
<1>1. CASE UNCHANGED <<mode, server>>
  BY <1>1 DEF server
<1>2. CASE AflSetup
  BY <1>2 DEF AflSetup, Goto, Exit, ids, flags
<1>3. CASE TargetReachesInit
  BY <1>3 DEF TargetReachesInit, SavedSignals, ServerSignals, Goto, Exit, ids,
     flags
<1>4. CASE PhoneHome
  BY <1>4 DEF PhoneHome, Goto, Exit, ids, flags, setup
<1>5. CASE ReadOptions
  BY <1>5 DEF ReadOptions, Goto, Exit, ids, setup, TypeShared
<1>6. CASE MapShmFuzz
  BY <1>6 DEF MapShmFuzz, Goto, Exit, ids
<1>7. CASE LoopRead
  BY <1>7 DEF LoopRead, AfterCommand, Goto, Exit, ids, setup, TypeShared
<1>8. CASE WriteOff
  BY <1>8 DEF WriteOff, Goto, Exit, flags, setup
<1>9. CASE Fork
  BY <1>9 DEF Fork, Goto, Exit, flags, setup
<1>10. CASE StoreChildPid
  BY <1>10 DEF StoreChildPid, Goto, flags, setup
<1>11. CASE Cont
  BY <1>11 DEF Cont, Goto, ids, setup
<1>12. CASE WritePid
  BY <1>12 DEF WritePid, Goto, Exit, ids, flags, setup
<1>13. CASE WaitChild
  BY <1>13 DEF WaitChild, Goto, Exit, setup
<1>14. CASE WriteStatus
  BY <1>14 DEF WriteStatus, Goto, Exit, ids, flags, setup
<1>15. CASE AtExitReaps
  BY <1>15 DEF AtExitReaps, Exit, flags, setup
<1>16. CASE TermByDefault
  BY <1>16 DEF TermByDefault, Exit, ids, flags, setup
<1>17. CASE AtExit
  BY <1>1, <1>17 DEF AtExit
<1>18. QED
  BY <1>1, <1>2, <1>3, <1>4, <1>5, <1>6, <1>7, <1>8, <1>9, <1>10, <1>11,
     <1>12, <1>13, <1>14, <1>15, <1>16, <1>17, ChildFrame, FuzzerFrame
  DEF Next, ServerStep, ServerCode, SignalStep, FuzzerSide, Done, vars

\* The children's variables keep their types; cycle_cnt stays in its range
\* because CycleInv holds.
LEMMA TypeChildrenStep ==
  ASSUME IInv, [Next]_vars
  PROVE  TypeChildren'
<1> USE DEF IInv, TypeOK, TypeChildren, Live, Zombie
<1>1. CASE UNCHANGED children
  BY <1>1 DEF children
<1>2. CASE Fork
  <2>1. CASE UNCHANGED children
    BY <2>1, <1>1
  <2>2. ASSUME NEW p \in Pids,
               proc' = [proc EXCEPT ![p] = "running"],
               cpc' = [cpc EXCEPT ![p] = "born"],
               cycle_cnt' = [cycle_cnt EXCEPT ![p] = 0],
               child_area' = [child_area EXCEPT ![p] = area_ptr],
               child_signals' = [child_signals EXCEPT ![p] = signals]
        PROVE  TypeChildren'
    BY <2>2, BoundsAssumption DEF TypeServer
  <2>3. QED
    BY <1>2, <2>1, <2>2 DEF Fork
<1>3. CASE WriteOff
  BY <1>3 DEF WriteOff, loopvars
<1>4. CASE Cont
  BY <1>4 DEF Cont, loopvars
<1>5. CASE WaitChild
  BY <1>5 DEF WaitChild, loopvars
<1>6. CASE AtExit
  BY <1>6 DEF AtExit, KillChild, loopvars
<1>7. CASE \E p \in Pids : Child(p)
  <2> SUFFICES ASSUME NEW p \in Pids, Child(p)
               PROVE  TypeChildren'
    BY <1>7
  <2>1. CASE ChildReturns(p)
    BY <2>1 DEF ChildReturns, ChildGoto, TypeServer
  <2>2. CASE ChildStartup(p)   BY <2>2 DEF ChildStartup, ChildGoto, loopvars
  <2>3. CASE LoopFirstPass(p)
    BY <2>3, BoundsAssumption DEF LoopFirstPass, ChildGoto
  <2>4. CASE LoopNextPass(p)
    BY <2>4, BoundsAssumption
    DEF LoopNextPass, RaiseSigstop, ChildGoto, CycleInv
  <2>5. CASE LoopResumes(p)    BY <2>5 DEF LoopResumes, ChildGoto, loopvars
  <2>6. CASE ChildBody(p)      BY <2>6 DEF ChildBody, ChildGoto, loopvars
  <2>7. CASE ChildEpilogue(p)  BY <2>7 DEF ChildEpilogue, loopvars
  <2>8. CASE ChildDies(p)      BY <2>8 DEF ChildDies, loopvars
  <2>9. QED
    BY <2>1, <2>2, <2>3, <2>4, <2>5, <2>6, <2>7, <2>8 DEF Child
<1>8. CASE FuzzerSide
  BY <1>8, FuzzerFrame
<1>9. CASE AtExitReaps
  BY <1>9 DEF AtExitReaps, loopvars
<1>10. CASE ServerCode \/ SignalStep
  <2>1. AflSetup \/ TargetReachesInit \/ PhoneHome \/ ReadOptions \/ MapShmFuzz
        \/ LoopRead \/ StoreChildPid \/ WritePid \/ WriteStatus \/ TermByDefault
        => UNCHANGED children
    BY DEF AflSetup, TargetReachesInit, PhoneHome, ReadOptions, MapShmFuzz,
           LoopRead, StoreChildPid, WritePid, WriteStatus, TermByDefault
  <2>2. QED
    BY <2>1, <1>1, <1>2, <1>3, <1>4, <1>5, <1>6, <1>9, <1>10
    DEF ServerCode, SignalStep
<1>11. QED
  BY <1>1, <1>7, <1>8, <1>10 DEF ServerStep, Next, FuzzerSide, Done, vars

\* afl-fuzz's variables keep their types.
LEMMA TypeFuzzerStep ==
  ASSUME IInv, [Next]_vars
  PROVE  TypeFuzzer'
<1> USE BoundsAssumption
        DEF IInv, TypeOK, TypeFuzzer, TypeShared, Answering, Statuses, Zombie
<1>1. CASE UNCHANGED fuzzer
  BY <1>1 DEF fuzzer
<1>2. CASE FuzzerBoot            BY <1>2 DEF FuzzerBoot, GivesUp
<1>3. CASE FuzzerReadPid         BY <1>3 DEF FuzzerReadPid, GivesUp
<1>4. CASE FuzzerTimeout         BY <1>4 DEF FuzzerTimeout
<1>5. CASE FuzzerReadStatus      BY <1>5 DEF FuzzerReadStatus, GivesUp
<1>6. CASE FuzzerSeesServerGone  BY <1>6 DEF FuzzerSeesServerGone, GivesUp
<1>7. CASE FuzzerRun             BY <1>7 DEF FuzzerRun
<1>8. CASE FuzzerStops           BY <1>8 DEF FuzzerStops, GivesUp
<1>9. CASE FuzzerIsKilled        BY <1>9 DEF FuzzerIsKilled, GivesUp
<1>10. CASE UserTerminates       BY <1>10, <1>1 DEF UserTerminates
<1>11. QED
  BY <1>1, <1>2, <1>3, <1>4, <1>5, <1>6, <1>7, <1>8, <1>9, <1>10, ChildFrame,
     ServerFrame
  DEF Next, ServerStep, FuzzerStep, Done, vars

\* The words in the pipes, the map and the run counter keep their types; what
\* WritePid and WriteStatus send is a pid and a status by ChildInv and StatusInv.
LEMMA TypeSharedStep ==
  ASSUME IInv, [Next]_vars
  PROVE  TypeShared'
<1> USE DEF IInv, TypeOK, TypeShared, Hellos, Errors, Statuses, Zombie, CtlWords
<1>1. CASE UNCHANGED <<ctl, st, map, ran>>
  BY <1>1
<1>2. CASE ServerCode \/ SignalStep
  <2>1. UNCHANGED <<map, ran>>
    BY <1>2, ServerFrame
  <2>2. CASE AflSetup     BY <2>1, <2>2 DEF AflSetup
  <2>3. CASE PhoneHome    BY <2>1, <2>3 DEF PhoneHome, WriteFails
  <2>4. CASE ReadOptions  BY <2>1, <2>4 DEF ReadOptions
  <2>5. CASE MapShmFuzz   BY <2>1, <2>5 DEF MapShmFuzz
  <2>6. CASE LoopRead     BY <2>1, <2>6 DEF LoopRead
  <2>7. CASE WritePid
    BY <2>1, <2>7 DEF WritePid, ChildInv, ChildUnreaped, HasChild
  <2>8. CASE WriteStatus
    BY <2>1, <2>8 DEF WriteStatus, StatusInv, ids
  <2>9. TargetReachesInit \/ WriteOff \/ Fork \/ StoreChildPid \/ Cont
        \/ WaitChild \/ AtExit \/ AtExitReaps \/ TermByDefault
        => UNCHANGED <<ctl, st>>
    BY DEF TargetReachesInit, WriteOff, Fork, StoreChildPid, Cont, WaitChild,
           AtExit, AtExitReaps, TermByDefault, pipes
  <2>10. QED
    BY <1>1, <1>2, <2>1, <2>2, <2>3, <2>4, <2>5, <2>6, <2>7, <2>8, <2>9
    DEF ServerStep, ServerCode, SignalStep
<1>3. CASE \E p \in Pids : Child(p)
  <2> SUFFICES ASSUME NEW p \in Pids, Child(p)
               PROVE  map' \subseteq Int /\ ran' \in Nat
    BY <1>3, ChildFrame
  <2>1. Hits(p, Startup) \subseteq Int /\ Hits(p, Epilogue) \subseteq Int
    BY DEF Hits, Startup, Epilogue
  <2>2. Hits(p, testcase) \subseteq Int
    BY BoundsAssumption DEF Hits, TypeFuzzer
  <2>3. CASE ChildReturns(p)   BY <2>3 DEF ChildReturns, trace
  <2>4. CASE ChildStartup(p)   BY <2>4, <2>1 DEF ChildStartup
  <2>5. CASE LoopFirstPass(p)  BY <2>5 DEF LoopFirstPass, ClearedMap
  <2>6. CASE LoopNextPass(p)   BY <2>6 DEF LoopNextPass, trace
  <2>7. CASE LoopResumes(p)    BY <2>7 DEF LoopResumes, trace
  <2>8. CASE ChildBody(p)
    <3>1. ran' = ran + 1 /\ (map' = Hits(p, testcase) \/ map' = map)
      BY <2>8 DEF ChildBody
    <3>2. ran' \in Nat
      BY <3>1
    <3>3. map' \subseteq Int
      BY <3>1, <2>2, Zenon
    <3>4. QED
      BY <3>2, <3>3
  <2>9. CASE ChildEpilogue(p)  BY <2>9, <2>1 DEF ChildEpilogue
  <2>10. CASE ChildDies(p)     BY <2>10 DEF ChildDies, trace
  <2>11. QED
    BY <2>3, <2>4, <2>5, <2>6, <2>7, <2>8, <2>9, <2>10 DEF Child
<1>4. CASE FuzzerBoot
  <2>1. st' \in Seq(Pids \cup Hellos \cup Errors \cup Statuses)
    BY <1>4 DEF FuzzerBoot
  <2>2. Append(ctl, "options") \in Seq(CtlWords)
    OBVIOUS
  <2>3. ctl' \in Seq(CtlWords)
    BY <1>4, <2>2 DEF FuzzerBoot
  <2>4. QED
    BY <1>4, <2>1, <2>3 DEF FuzzerBoot, trace
<1>5. CASE FuzzerReadPid         BY <1>5 DEF FuzzerReadPid, trace
<1>6. CASE FuzzerTimeout         BY <1>6 DEF FuzzerTimeout, pipes, trace
<1>7. CASE FuzzerReadStatus      BY <1>7 DEF FuzzerReadStatus, trace
<1>8. CASE FuzzerSeesServerGone  BY <1>8 DEF FuzzerSeesServerGone, pipes, trace
<1>9. CASE FuzzerRun             BY <1>9 DEF FuzzerRun
<1>10. CASE FuzzerStops          BY <1>10 DEF FuzzerStops, pipes, trace
<1>11. CASE FuzzerIsKilled       BY <1>11 DEF FuzzerIsKilled, pipes, trace
<1>12. CASE UserTerminates       BY <1>12 DEF UserTerminates, pipes, trace
<1>13. QED
  BY <1>1, <1>2, <1>3, <1>4, <1>5, <1>6, <1>7, <1>8, <1>9, <1>10, <1>11, <1>12
  DEF Next, ServerStep, FuzzerStep, Done, vars, pipes, trace

\* The Booleans stay Booleans, and term keeps to its values.
LEMMA TypeFlagsStep ==
  ASSUME IInv, [Next]_vars
  PROVE  TypeFlags'
<1> USE DEF IInv, TypeOK, TypeFlags
<1>1. mode.persistent \in BOOLEAN
  BY ModesAssumption DEF TypeServer
<1>2. /\ child_stopped' \in BOOLEAN
      /\ already_read_first' \in BOOLEAN
      /\ fuzz_ptr' \in BOOLEAN
  <2>1. CASE UNCHANGED <<child_stopped, already_read_first, fuzz_ptr>>
    BY <2>1
  <2>2. CASE ReadOptions
    BY <1>1, <2>2, Zenon DEF ReadOptions, AlreadyReadFirst, setup
  <2>3. CASE MapShmFuzz
    BY <1>1, <2>3, Zenon DEF MapShmFuzz, AlreadyReadFirst
  <2>4. CASE LoopRead
    BY <2>4, Zenon DEF LoopRead, AfterCommand, setup
  <2>5. CASE Cont
    BY <2>5, Zenon DEF Cont, setup
  <2>6. CASE WaitChild
    BY <2>6, Zenon DEF WaitChild, setup
  <2>7. AflSetup \/ TargetReachesInit \/ PhoneHome \/ WriteOff \/ Fork
        \/ StoreChildPid \/ WritePid \/ WriteStatus \/ AtExit \/ AtExitReaps
        \/ TermByDefault
        => UNCHANGED <<child_stopped, already_read_first, fuzz_ptr>>
    BY DEF AflSetup, TargetReachesInit, PhoneHome, WriteOff, Fork,
           StoreChildPid, WritePid, WriteStatus, AtExit, AtExitReaps,
           TermByDefault, flags, setup, server
  <2>8. UNCHANGED server
        => UNCHANGED <<child_stopped, already_read_first, fuzz_ptr>>
    BY DEF server
  <2>9. QED
    BY <2>1, <2>2, <2>3, <2>4, <2>5, <2>6, <2>7, <2>8, ChildFrame, FuzzerFrame
    DEF Next, ServerStep, ServerCode, SignalStep, FuzzerSide, Done, vars
<1>3. term' \in {"none", "pending", "handling"}
  <2>1. CASE ServerCode
    <3>1. UNCHANGED term
      BY <2>1 DEF ServerStep, ServerCode, AflSetup, TargetReachesInit, PhoneHome,
         ReadOptions, MapShmFuzz, LoopRead, WriteOff, Fork, StoreChildPid,
         Cont, WritePid, WaitChild, WriteStatus
    <3>2. QED
      BY <3>1
  <2>2. CASE SignalStep
    BY <2>2 DEF SignalStep, AtExit, AtExitReaps, TermByDefault
  <2>3. CASE FuzzerStops \/ UserTerminates
    BY <2>3 DEF FuzzerStops, UserTerminates
  <2>4. CASE FuzzerStep \/ FuzzerRun \/ FuzzerIsKilled
    <3>1. UNCHANGED term
      BY <2>4 DEF FuzzerStep, FuzzerRun, FuzzerIsKilled, FuzzerBoot,
         FuzzerReadPid, FuzzerTimeout, FuzzerReadStatus, FuzzerSeesServerGone
    <3>2. QED
      BY <3>1
  <2>5. QED
    BY <2>1, <2>2, <2>3, <2>4, ChildFrame DEF Next, ServerStep, Done, vars
<1>4. timed_out' \in BOOLEAN
  <2>1. CASE UNCHANGED timed_out
    BY <2>1
  <2>2. CASE FuzzerTimeout \/ FuzzerRun
    BY <2>2, Zenon DEF FuzzerTimeout, FuzzerRun
  <2>3. CASE FuzzerBoot \/ FuzzerReadPid \/ FuzzerReadStatus
             \/ FuzzerSeesServerGone \/ FuzzerStops \/ FuzzerIsKilled
    <3>1. UNCHANGED timed_out
      BY <2>3 DEF FuzzerBoot, FuzzerReadPid, FuzzerReadStatus,
         FuzzerSeesServerGone, FuzzerStops, FuzzerIsKilled, GivesUp
    <3>2. QED
      BY <3>1
  <2>4. UNCHANGED fuzzer => UNCHANGED timed_out
    BY DEF fuzzer
  <2>5. UserTerminates => UNCHANGED fuzzer
    BY DEF UserTerminates
  <2>6. QED
    BY <2>1, <2>2, <2>3, <2>4, <2>5, ChildFrame, ServerFrame
    DEF Next, ServerStep, FuzzerStep, Done, vars
<1>5. first_pass' \in [Pids -> BOOLEAN]
  <2>1. CASE UNCHANGED first_pass
    BY <2>1
  <2>2. CASE Fork
    BY <2>2, Zenon DEF Fork, children
  <2>3. ASSUME NEW p \in Pids, Child(p)
        PROVE  first_pass' \in [Pids -> BOOLEAN]
    <3>1. CASE LoopFirstPass(p)
      BY <3>1, Zenon DEF LoopFirstPass
    <3>2. CASE ~LoopFirstPass(p)
      <4>1. UNCHANGED first_pass
        BY <2>3, <3>2 DEF Child, ChildReturns, ChildStartup, LoopNextPass,
           LoopResumes, ChildBody, ChildEpilogue, ChildDies, loopvars
      <4>2. QED
        BY <4>1
    <3>3. QED
      BY <3>1, <3>2
  <2>4. CASE (ServerCode \/ SignalStep) /\ ~Fork
    <3>1. UNCHANGED first_pass
      BY <2>4 DEF ServerStep, ServerCode, SignalStep, AflSetup,
         TargetReachesInit,
         PhoneHome, ReadOptions, MapShmFuzz, LoopRead, WriteOff, StoreChildPid,
         Cont, WritePid, WaitChild, WriteStatus, AtExit, AtExitReaps,
            TermByDefault,
         children, loopvars
    <3>2. QED
      BY <3>1
  <2>5. QED
    BY <2>1, <2>2, <2>3, <2>4, FuzzerFrame
    DEF Next, ServerStep, FuzzerSide, Done, vars, children
<1>6. QED
  BY <1>2, <1>3, <1>4, <1>5

\* The type invariant is preserved, given the other parts of IInv.
LEMMA TypeStep ==
  ASSUME IInv, [Next]_vars
  PROVE  TypeOK'
BY TypeServerStep, TypeFlagsStep, TypeChildrenStep, TypeFuzzerStep,
   TypeSharedStep
DEF TypeOK

-------------------------------------------------------------------------------
(***************************************************************************)
(* The invariants about children.                                          *)
(***************************************************************************)
\* ChildInv is preserved, given the types.
LEMMA ChildInvStep ==
  ASSUME IInv, [Next]_vars
  PROVE  ChildInv'
<1> USE DEF IInv, TypeOK, ChildInv, ChildUnreaped, NoneBut, NoChild, HasChild,
            BetweenRuns
<1>1. CASE /\ UNCHANGED server
           /\ \A q \in Pids : proc'[q] = "free" <=> proc[q] = "free"
  BY <1>1 DEF server
<1>2. CASE pc' = "exited"
  BY <1>2
<1>3. CASE AflSetup
  BY <1>3 DEF AflSetup, Goto, Exit, ids, flags, children
<1>4. CASE TargetReachesInit
  BY <1>4 DEF TargetReachesInit, Goto, Exit, ids, flags, children
<1>5. CASE PhoneHome
  BY <1>5 DEF PhoneHome, Goto, Exit, ids, flags, children
<1>6. CASE ReadOptions
  BY <1>6 DEF ReadOptions, Goto, Exit, ids, children
<1>7. CASE MapShmFuzz
  BY <1>7 DEF MapShmFuzz, Goto, Exit, ids, children
<1>8. CASE LoopRead
  BY <1>8 DEF LoopRead, AfterCommand, Goto, Exit, ids, children
<1>9. CASE WriteOff
  BY <1>9 DEF WriteOff, Goto, Exit, flags, TypeServer, TypeChildren
<1>10. CASE Fork
  BY <1>10 DEF Fork, Goto, Exit, flags, TypeServer, TypeChildren, children
<1>11. CASE StoreChildPid
  BY <1>11 DEF StoreChildPid, Goto, flags, children
<1>12. CASE Cont
  BY <1>12 DEF Cont, Goto, ids, TypeServer, TypeChildren
<1>13. CASE WritePid
  BY <1>13 DEF WritePid, Goto, Exit, ids, flags, children
<1>14. CASE WaitChild
  <2>1. CASE pc' = "write_status" /\ child_pid \in Pids /\ proc[child_pid] \in Zombie
    BY <1>14, <2>1 DEF WaitChild, WIFSTOPPED, Goto, Exit, Zombie, TypeServer,
       TypeChildren
  <2>2. CASE pc' = "write_status" /\ child_pid \in Pids /\ proc[child_pid] = "stopped"
    BY <1>14, <2>2 DEF WaitChild, WIFSTOPPED, Goto, Exit, Zombie, TypeServer,
       TypeChildren
  <2>3. QED
    BY <1>2, <1>14, <2>1, <2>2 DEF WaitChild, Goto, Exit
<1>15. CASE WriteStatus
  BY <1>15 DEF WriteStatus, Goto, Exit, ids, flags, children
<1>16. CASE SignalStep
  <2>1. CASE AtExit
    BY <1>1, <2>1 DEF AtExit, KillChild, Live, TypeChildren
  <2>2. CASE AtExitReaps \/ TermByDefault
    BY <2>2, <1>2 DEF AtExitReaps, TermByDefault, Exit
  <2>3. QED
    BY <1>16, <2>1, <2>2 DEF SignalStep
<1>17. UNCHANGED vars
       => /\ UNCHANGED server
          /\ \A q \in Pids : proc'[q] = "free" <=> proc[q] = "free"
  BY DEF vars, children
<1>18. QED
  BY <1>1, <1>3, <1>4, <1>5, <1>6, <1>7, <1>8, <1>9, <1>10, <1>11, <1>12,
     <1>13, <1>14, <1>15, <1>16, <1>17, ChildFrame, FuzzerFrame
  DEF Next, ServerStep, ServerCode, FuzzerSide, Done

\* CycleInv is preserved, given the types.
LEMMA CycleInvStep ==
  ASSUME IInv, [Next]_vars
  PROVE  CycleInv'
<1> USE DEF IInv, TypeOK, TypeChildren, TypeFlags, CycleInv
<1>1. CASE UNCHANGED <<cpc, first_pass, cycle_cnt>>
  BY <1>1
<1>2. CASE Fork
  <2>1. CASE UNCHANGED children
    BY <2>1, <1>1 DEF children
  <2>2. ASSUME NEW p \in Pids,
               cpc' = [cpc EXCEPT ![p] = "born"],
               first_pass' = [first_pass EXCEPT ![p] = TRUE],
               cycle_cnt' = [cycle_cnt EXCEPT ![p] = 0]
        PROVE  CycleInv'
    <3>1. \A q \in Pids : q # p => /\ cpc'[q] = cpc[q]
                                   /\ first_pass'[q] = first_pass[q]
                                   /\ cycle_cnt'[q] = cycle_cnt[q]
      BY <2>2
    <3>2. cpc'[p] = "born" /\ first_pass'[p]
      BY <2>2
    <3>3. QED
      BY <3>1, <3>2
  <2>3. QED
    BY <1>2, <2>1, <2>2 DEF Fork
<1>3. CASE (ServerCode \/ SignalStep) /\ ~Fork
  <2>1. UNCHANGED <<cpc, first_pass, cycle_cnt>>
    BY <1>3 DEF ServerStep, ServerCode, SignalStep, AflSetup, TargetReachesInit,
       PhoneHome, ReadOptions, MapShmFuzz, LoopRead, WriteOff, StoreChildPid,
       Cont, WritePid, WaitChild, WriteStatus, AtExit, AtExitReaps,
          TermByDefault,
       children, loopvars
  <2>2. QED
    BY <1>1, <2>1
<1>4. ASSUME NEW p \in Pids, Child(p)
      PROVE  CycleInv'
  <2>1. CASE ChildReturns(p)   BY <2>1 DEF ChildReturns, ChildGoto, loopvars
  <2>2. CASE ChildStartup(p)
    BY <2>2 DEF ChildStartup, ChildGoto, loopvars
  <2>3. CASE LoopFirstPass(p)
    BY <2>3, BoundsAssumption DEF LoopFirstPass, ChildGoto
  <2>4. CASE LoopNextPass(p)
    BY <2>4, BoundsAssumption DEF LoopNextPass, Stops, ChildGoto
  <2>5. CASE LoopResumes(p)    BY <2>5 DEF LoopResumes, ChildGoto, loopvars
  <2>6. CASE ChildBody(p)      BY <2>6 DEF ChildBody, ChildGoto, loopvars
  <2>7. CASE ChildEpilogue(p)  BY <2>7 DEF ChildEpilogue, loopvars
  <2>8. CASE ChildDies(p)      BY <2>8 DEF ChildDies, loopvars
  <2>9. QED
    BY <1>4, <2>1, <2>2, <2>3, <2>4, <2>5, <2>6, <2>7, <2>8 DEF Child
<1>5. UNCHANGED vars => UNCHANGED <<cpc, first_pass, cycle_cnt>>
  BY DEF vars, children
<1>6. QED
  BY <1>1, <1>2, <1>3, <1>4, <1>5, FuzzerFrame DEF Next, ServerStep,
     FuzzerSide, Done

\* StatusInv is preserved: only waitpid() leads to the write of a status.
LEMMA StatusInvStep ==
  ASSUME IInv, [Next]_vars
  PROVE  StatusInv'
<1> USE DEF IInv, TypeOK, StatusInv
<1>1. CASE UNCHANGED server
  BY <1>1 DEF server
<1>2. CASE WaitChild
  BY <1>2 DEF WaitChild, Goto, Exit, Statuses, Zombie
<1>3. CASE AtExit
  BY <1>1, <1>3 DEF AtExit
<1>4. CASE (ServerCode \/ SignalStep) /\ ~WaitChild /\ ~AtExit
  <2>1. pc' # "write_status"
    BY <1>4 DEF ServerStep, ServerCode, SignalStep, AflSetup, TargetReachesInit,
       PhoneHome, ReadOptions, MapShmFuzz, LoopRead, AfterCommand, WriteOff,
       Fork, StoreChildPid, Cont, WritePid, WriteStatus, AtExitReaps,
       TermByDefault, Goto, Exit
  <2>2. QED
    BY <2>1
<1>5. QED
  BY <1>1, <1>2, <1>3, <1>4, ChildFrame, FuzzerFrame DEF Next, ServerStep,
     FuzzerSide, Done, vars

-------------------------------------------------------------------------------
\* The invariant holds at the start.
LEMMA InvInit ==
  ASSUME Init
  PROVE  IInv
<1> USE BoundsAssumption DEF Init
<1>1. TypeServer
  BY DEF TypeServer, InServer, Statuses, CtlWords, Signals, TargetSignals,
         UnsetSignals
<1>2. TypeFlags
  BY Zenon DEF TypeFlags
<1>3. TypeChildren
  BY DEF TypeChildren, Live, Zombie, Signals, UnsetSignals
<1>4. TypeFuzzer
  BY DEF TypeFuzzer, Answering, Statuses
<1>5. TypeShared
  BY DEF TypeShared
<1>6. ChildInv
  BY DEF ChildInv, NoChild, HasChild, BetweenRuns
<1>7. CycleInv /\ StatusInv
  BY DEF CycleInv, StatusInv
<1>8. QED
  BY <1>1, <1>2, <1>3, <1>4, <1>5, <1>6, <1>7 DEF IInv, TypeOK

\* IInv is an inductive invariant of the fork server.
THEOREM Invariance == Spec => []IInv
<1>1. IInv /\ [Next]_vars => IInv'
  BY TypeStep, ChildInvStep, CycleInvStep, StatusInvStep DEF IInv
<1>2. QED
  BY InvInit, <1>1, PTL DEF Spec

\* Every variable keeps to its type: in particular cycle_cnt never wraps below
\* zero, and what goes out on the status pipe after a run command is the pid of
\* a child and a status that waitpid() returned.
THEOREM TypeCorrect == Spec => []TypeOK
<1>1. IInv => TypeOK
  BY DEF IInv
<1>2. QED
  BY Invariance, <1>1, PTL

\* The server has at most one child at any time, in every mode.
THEOREM AtMostOneChild == Spec => []OneChild
<1>1. IInv => OneChild
  BY DEF IInv, ChildInv, OneChild, NoneBut, NoChild, ChildUnreaped, HasChild,
         BetweenRuns
<1>2. QED
  BY Invariance, <1>1, PTL

-------------------------------------------------------------------------------
(***************************************************************************)
(* How the server ends: what its handler finds, and what it leaves behind. *)
(***************************************************************************)
\* Program points before the first fork().
BeforeFork == {"setup", "target", "phone", "options", "map_fuzz", "standalone"}

\* From the start of the server on, its dispositions are in force and the
\* target's are saved.
HandlerInv ==
  pc \in InServer \cup {"standalone"} =>
    signals = ServerSignals /\ old_signals = TargetSignals

\* Up to there they are the target's.
TargetInv == pc \in {"setup", "target"} => signals = TargetSignals

\* child_pid is set by fork() only.
FirstInv == pc \in BeforeFork => child_pid = NoPid

\* Where a program without a parent gets to, with the dummy map.
AloneInv ==
  mode.fuzzer = "none" =>
    /\ fz = "gone"
    /\ pc \in {"setup", "target", "phone", "standalone", "exited"}
    /\ pc \in {"target", "phone", "standalone"} => area_ptr = "dummy"

ExitInv == HandlerInv /\ TargetInv /\ FirstInv /\ AloneInv /\ OrphanCauses

\* ExitInv is preserved by the steps of afl-fuzz and of the children, which
\* leave the server as it is and bring no child to life.
LEMMA ExitInvOthers ==
  ASSUME IInv, ExitInv, FuzzerSide \/ (\E p \in Pids : Child(p))
  PROVE  ExitInv'
<1>1. UNCHANGED <<mode, server>>
  BY FuzzerFrame, ChildFrame DEF IInv
<1>2. fz = "gone" => fz' = "gone"
  BY ChildFrame
  DEF IInv, FuzzerSide, FuzzerStep, FuzzerBoot, FuzzerReadPid, FuzzerTimeout,
      FuzzerReadStatus, FuzzerSeesServerGone, FuzzerRun, FuzzerStops,
      FuzzerIsKilled, UserTerminates, fuzzer, Answering
<1>3. \A q \in Pids : proc'[q] \in Live => proc[q] \in Live
  <2>1. CASE FuzzerSide
    BY <2>1 DEF FuzzerSide, FuzzerStep, FuzzerBoot, FuzzerReadPid,
       FuzzerTimeout, FuzzerReadStatus, FuzzerSeesServerGone, FuzzerRun,
       FuzzerStops, FuzzerIsKilled, UserTerminates, children, Live
  <2>2. ASSUME NEW p \in Pids, Child(p)
        PROVE  \A q \in Pids : proc'[q] \in Live => proc[q] \in Live
    BY <2>2 DEF Child, ChildReturns, ChildStartup, LoopFirstPass, LoopNextPass,
       RaiseSigstop, LoopResumes, ChildBody, ChildEpilogue, ChildDies, Live,
       IInv, TypeOK, TypeChildren
  <2>3. QED
    BY <2>1, <2>2
<1>4. QED
  BY <1>1, <1>2, <1>3
  DEF ExitInv, HandlerInv, TargetInv, FirstInv, AloneInv, OrphanCauses, server

\* The handler leaves no child that is known by its pid.
LEMMA ExitInvSignal ==
  ASSUME IInv, ExitInv, SignalStep
  PROVE  ExitInv'
<1> USE DEF SignalStep, AtExitReaps, TermByDefault, Exit
<1>1. ~AtExit => HandlerInv' /\ TargetInv' /\ FirstInv' /\ AloneInv'
  BY DEF ExitInv, HandlerInv, TargetInv, FirstInv, AloneInv, InServer,
     BeforeFork,
     setup, fuzzer
<1>2. CASE AtExitReaps
  <2>1. pc # "forked" => \A q \in Pids : proc'[q] = "free"
    BY <1>2 DEF HasChildPid, IInv, ChildInv, NoneBut, NoChild, BetweenRuns,
       HasChild, ChildUnreaped, TypeOK, TypeChildren, TypeServer
  <2>2. exit_at' = pc /\ ~AtExit
    BY <1>2 DEF AtExit
  <2>3. QED
    BY <1>1, <2>1, <2>2 DEF ExitInv, OrphanCauses, Live
<1>3. CASE TermByDefault
  <2>1. NoChild
    BY <1>3 DEF IInv, ChildInv, ExitInv, HandlerInv, ServerSignals, InServer,
       HasChild, BetweenRuns
  <2>2. ~AtExit
    BY <1>3 DEF AtExit, ServerSignals
  <2>3. QED
    BY <1>1, <1>3, <2>1, <2>2 DEF ExitInv, OrphanCauses, NoChild, Live, children
<1>4. CASE AtExit
  <2>1. UNCHANGED <<mode, fz, server>> /\ pc # "exited"
    BY <1>4 DEF AtExit, fuzzer
  <2>2. QED
    BY <2>1 DEF ExitInv, HandlerInv, TargetInv, FirstInv, AloneInv, OrphanCauses,
       server
<1>5. QED
  BY <1>2, <1>3, <1>4

\* The server's own exits leave a child only behind a failed read or write.
LEMMA ExitInvServer ==
  ASSUME IInv, ExitInv, ServerCode
  PROVE  ExitInv'
<1> USE DEF ExitInv, HandlerInv, TargetInv, FirstInv, AloneInv, OrphanCauses,
            InServer, BeforeFork, Goto, Exit
<1>1. UNCHANGED <<mode, fz>>
  BY ServerFrame DEF fuzzer
<1>2. pc # "exited" /\ (pc' = "exited" => exit_at' = pc)
  BY DEF ServerStep, ServerCode, AflSetup, TargetReachesInit, PhoneHome,
     ReadOptions,
     MapShmFuzz, LoopRead, AfterCommand, WriteOff, Fork, StoreChildPid, Cont,
     WritePid, WaitChild, WriteStatus
<1>3. CASE AflSetup \/ TargetReachesInit \/ PhoneHome \/ ReadOptions
           \/ MapShmFuzz
  <2>1. NoChild /\ proc' = proc
    BY <1>3 DEF IInv, ChildInv, HasChild, BetweenRuns, AflSetup,
       TargetReachesInit, PhoneHome, ReadOptions, MapShmFuzz, children
  <2>2. OrphanCauses'
    BY <2>1, <1>2 DEF NoChild, Live
  <2>3. CASE AflSetup
    BY <2>2, <2>3, <1>1 DEF AflSetup, ids
  <2>4. CASE TargetReachesInit
    BY <2>2, <2>4, <1>1 DEF TargetReachesInit, SavedSignals, ids
  <2>5. CASE PhoneHome
    BY <2>2, <2>5, <1>1 DEF PhoneHome, WriteFails, ids, setup
  <2>6. CASE ReadOptions
    BY <2>2, <2>6, <1>1 DEF ReadOptions, ids, setup
  <2>7. CASE MapShmFuzz
    BY <2>2, <2>7, <1>1 DEF MapShmFuzz, ids
  <2>8. QED
    BY <1>3, <2>3, <2>4, <2>5, <2>6, <2>7
<1>4. CASE LoopRead \/ WriteOff \/ Fork \/ StoreChildPid \/ Cont \/ WritePid
           \/ WaitChild \/ WriteStatus
  <2>1. /\ mode.fuzzer # "none"
        /\ signals = ServerSignals /\ old_signals = TargetSignals
    BY <1>4 DEF LoopRead, WriteOff, Fork, StoreChildPid, Cont, WritePid,
       WaitChild, WriteStatus
  <2>2. UNCHANGED <<signals, old_signals>> /\ pc' \notin BeforeFork
    BY <1>4 DEF LoopRead, AfterCommand, WriteOff, Fork, StoreChildPid, Cont,
       WritePid, WaitChild, WriteStatus, setup
  <2>3. OrphanCauses'
    <3>1. CASE Fork
      BY <1>2, <3>1 DEF Fork, IInv, ChildInv, HasChild, BetweenRuns, NoChild,
         Live, children
    <3>2. CASE WriteOff \/ WaitChild
      BY <1>2, <3>2, <2>1 DEF WriteOff, WaitChild, ECHILD, ServerSignals, IInv,
         ChildInv, HasChild, ChildUnreaped
    <3>3. CASE LoopRead \/ WritePid \/ WriteStatus
      BY <1>2, <3>3 DEF LoopRead, WritePid, WriteStatus
    <3>4. CASE StoreChildPid \/ Cont
      BY <3>4 DEF StoreChildPid, Cont
    <3>5. QED
      BY <1>4, <3>1, <3>2, <3>3, <3>4
  <2>4. QED
    BY <1>1, <2>1, <2>2, <2>3
<1>5. QED
  BY <1>3, <1>4 DEF ServerStep, ServerCode

\* ExitInv is an invariant.
THEOREM ExitInvariance == Spec => []ExitInv
<1>1. Init => ExitInv
  BY DEF Init, ExitInv, HandlerInv, TargetInv, FirstInv, AloneInv,
     OrphanCauses, InServer
<1>2. IInv /\ ExitInv /\ [Next]_vars => ExitInv'
  <2> SUFFICES ASSUME IInv, ExitInv, [Next]_vars
               PROVE  ExitInv'
    OBVIOUS
  <2>1. CASE UNCHANGED vars
    BY <2>1 DEF vars, server, fuzzer, children, ExitInv, HandlerInv, TargetInv,
       FirstInv,
       AloneInv, OrphanCauses
  <2>2. QED
    BY <2>1, ExitInvOthers, ExitInvSignal, ExitInvServer
    DEF Next, ServerStep, FuzzerSide, Done
<1>3. QED
  BY Invariance, <1>1, <1>2, PTL DEF Spec

\* A child outlives its server only where the server ended on a failed read or
\* write, or where SIGTERM came between fork() and the store of its result.
THEOREM Orphans == Spec => []OrphanCauses
<1>1. ExitInv => OrphanCauses
  BY DEF ExitInv
<1>2. QED
  BY ExitInvariance, <1>1, PTL

\* waitpid() and kill() are only called for a child that is still the server's
\* and that nobody else reaps: the two exits after a failing waitpid() are dead
\* code.
THEOREM OwnChild == Spec => []WaitsForOwnChild
<1>1. IInv /\ ExitInv => WaitsForOwnChild
  BY DEF IInv, ChildInv, ExitInv, HandlerInv, ServerSignals, WaitsForOwnChild,
     ECHILD, ChildUnreaped, HasChild, InServer
<1>2. QED
  BY Invariance, ExitInvariance, <1>1, PTL

\* While there is a child the target's handlers are saved, and a child that has
\* left the server has them.
RestoredInv ==
  /\ \A p \in Pids : proc[p] # "free" => old_signals = TargetSignals
  /\ \A p \in Pids : cpc[p] # "born" => child_signals[p] = TargetSignals

\* RestoredInv is preserved: only ChildReturns takes a child out of the server.
LEMMA RestoredStep ==
  ASSUME IInv, ExitInv, RestoredInv, [Next]_vars
  PROVE  RestoredInv'
<1> USE DEF IInv, TypeOK, TypeChildren, RestoredInv
<1>1. CASE /\ UNCHANGED <<old_signals, cpc, child_signals>>
           /\ \A q \in Pids : proc'[q] # "free" => proc[q] # "free"
  BY <1>1
<1>2. CASE TargetReachesInit
  <2>1. NoChild
    BY <1>2 DEF TargetReachesInit, ChildInv, HasChild, BetweenRuns
  <2>2. UNCHANGED children
    BY <1>2 DEF TargetReachesInit
  <2>3. QED
    BY <2>1, <2>2 DEF NoChild, children
<1>3. CASE Fork
  <2>1. CASE UNCHANGED children
    BY <1>3, <2>1, <1>1 DEF Fork, setup, children
  <2>2. ASSUME NEW p \in Pids,
               proc' = [proc EXCEPT ![p] = "running"],
               cpc' = [cpc EXCEPT ![p] = "born"],
               child_signals' = [child_signals EXCEPT ![p] = signals]
        PROVE  RestoredInv'
    <3>1. old_signals' = TargetSignals
      BY <1>3 DEF Fork, setup, ExitInv, HandlerInv, InServer
    <3>2. cpc'[p] = "born"
          /\ \A q \in Pids \ {p} : cpc'[q] = cpc[q] /\ child_signals'[q] = child_signals[q]
      BY <2>2
    <3>3. QED
      BY <3>1, <3>2
  <2>3. QED
    BY <1>3, <2>1, <2>2 DEF Fork
<1>4. CASE (ServerCode \/ SignalStep) /\ ~Fork /\ ~TargetReachesInit
  <2>1. UNCHANGED <<cpc, child_signals>>
    BY <1>4 DEF ServerCode, SignalStep, AflSetup, PhoneHome, ReadOptions,
       MapShmFuzz, LoopRead, WriteOff, StoreChildPid, Cont, WritePid, WaitChild,
       WriteStatus, AtExit, AtExitReaps, TermByDefault, children, loopvars
  <2>2. UNCHANGED old_signals
    BY <1>4 DEF ServerCode, SignalStep, AflSetup, PhoneHome, ReadOptions,
       MapShmFuzz, LoopRead, WriteOff, StoreChildPid, Cont, WritePid, WaitChild,
       WriteStatus, AtExit, AtExitReaps, TermByDefault, setup, server
  <2>3. \A q \in Pids : proc'[q] # "free" => proc[q] # "free"
    BY <1>4 DEF ServerCode, SignalStep, AflSetup, PhoneHome, ReadOptions,
       MapShmFuzz, LoopRead, WriteOff, StoreChildPid, Cont, WritePid, WaitChild,
       WriteStatus, AtExit, AtExitReaps, KillChild, TermByDefault, Live, children
  <2>4. QED
    BY <1>1, <2>1, <2>2, <2>3
<1>5. CASE FuzzerSide
  BY <1>1, <1>5, FuzzerFrame DEF server
<1>6. ASSUME NEW p \in Pids, Child(p)
      PROVE  RestoredInv'
  <2>1. /\ UNCHANGED old_signals
        /\ \A q \in Pids : proc'[q] # "free" => proc[q] # "free"
    BY <1>6, ChildFrame DEF server
  <2>2. CASE ChildReturns(p)
    <3>1. old_signals = TargetSignals
      BY <2>2 DEF ChildReturns
    <3>2. QED
      BY <2>1, <2>2, <3>1 DEF ChildReturns, ChildGoto
  <2>3. CASE ~ChildReturns(p)
    <3>1. UNCHANGED child_signals /\ (cpc[p] = "born" => UNCHANGED cpc)
      BY <1>6, <2>3
      DEF Child, ChildStartup, LoopFirstPass, LoopNextPass, LoopResumes,
          ChildBody, ChildEpilogue, ChildDies, loopvars
    <3>2. \A q \in Pids \ {p} : cpc'[q] = cpc[q]
      BY <1>6, <2>3
      DEF Child, ChildStartup, LoopFirstPass, LoopNextPass, LoopResumes,
          ChildBody, ChildEpilogue, ChildDies, ChildGoto
    <3>3. QED
      BY <2>1, <3>1, <3>2
  <2>4. QED
    BY <2>2, <2>3
<1>7. UNCHANGED vars
      => /\ UNCHANGED <<old_signals, cpc, child_signals>>
         /\ \A q \in Pids : proc'[q] # "free" => proc[q] # "free"
  BY DEF vars, server, children
<1>8. QED
  BY <1>1, <1>2, <1>3, <1>4, <1>5, <1>6, <1>7
  DEF Next, ServerStep, FuzzerSide, Done

\* A program that afl-fuzz did not start has no child and records nothing, but
\* goes on with the server's dispositions of SIGTERM and SIGCHLD; wherever there
\* are children, they run the target's code with the target's own.
THEOREM Alone == Spec => []TargetGoesOn
<1>1. Init => RestoredInv
  BY DEF Init, RestoredInv
<1>2. IInv /\ ExitInv /\ RestoredInv => TargetGoesOn
  BY DEF IInv, ChildInv, NoChild, ExitInv, HandlerInv, AloneInv, RestoredInv,
     TargetGoesOn, HasChild, BetweenRuns, InServer
<1>3. QED
  BY Invariance, ExitInvariance, RestoredStep, <1>1, <1>2, PTL DEF Spec

\* The kill of at_exit can hit a pid that is no longer the server's child only
\* between the report of the end of a child and the store of the next pid.
THEOREM Kills == Spec => StrayKills
<1>1. IInv /\ ExitInv /\ [Next]_vars
      => [AtExit /\ child_pid \in Pids /\ proc[child_pid] = "free" =>
            pc \in {"write_status", "read", "fork", "forked"}]_vars
  BY PidsAssumption
  DEF IInv, TypeOK, TypeServer, InServer, ChildInv, ChildUnreaped, HasChild,
      ExitInv, FirstInv, BeforeFork, AtExit, AtExitReaps
<1>2. QED
  BY Invariance, ExitInvariance, <1>1, PTL DEF Spec, StrayKills
===============================================================================
