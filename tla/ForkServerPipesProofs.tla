------------------------- MODULE ForkServerPipesProofs -------------------------
(***************************************************************************)
(* Proofs about the two pipes and the coverage map of ForkServer: how far  *)
(* the server and afl-fuzz can be out of step, in every mode, and what     *)
(* follows where they agree on the first word, the refinement of           *)
(* RunService included.                                                    *)
(***************************************************************************)
EXTENDS ForkServerProofs, SequenceTheorems

\* afl-fuzz sends commands and reads answers.
Talking == Answering \cup {"idle"}

\* Before the hello.
Silent == {"setup", "target", "phone"}

\* Words that the server has still to write in the run it is in.
Remaining(l) == CASE l \in {"writeoff", "fork", "forked", "cont",
   "write_pid"} -> 2
                  [] l \in {"wait", "write_status"} -> 1
                  [] OTHER -> 0

\* Words that will be answers to commands that are on the way to the main loop.
Commanded == 2 * Len(ctl) + (IF already_read_first THEN 2 ELSE 0)

\* Answers beyond those that are due: an options word is on the way or was taken
\* for a command; or fewer than those, a command was taken for an options word.
Credit == CASE pc = "options" -> IF mode.fuzzer = "options" THEN 2 ELSE 0
            [] pc = "map_fuzz" -> 0
            [] OTHER -> IF Served THEN 0
                        ELSE IF mode.fuzzer = "options" THEN 2 ELSE -2

\* The two sides keep count of the words.
Balance ==
  fz \in Talking /\ pc # "exited" =>
    Due + Credit = Len(st) + Commanded + Remaining(pc)

Hello == IF mode.sharedmem THEN "hello_shm" ELSE "hello"

BootInv ==
  /\ pc \in Silent => fz \in {"boot", "gone"} /\ st = <<>> /\ ctl = <<>>
  /\ pc = "standalone" => fz = "gone"
  /\ pc \in {"options", "map_fuzz"} => mode.sharedmem
  /\ pc = "map_fuzz" => mode.fuzzer = "options"
  /\ pc \in {"options", "map_fuzz"} /\ fz \in Talking => st = <<>>
  /\ fz = "boot" =>
       /\ ctl = <<>> /\ testcase = 0 /\ ~already_read_first
       /\ pc \notin Silent \cup {"exited"} =>
            /\ pc = IF mode.sharedmem THEN "options" ELSE "read"
            /\ st = <<Hello>>
       /\ pc = "exited" => st = <<>> \/ \E w \in Hellos \cup Errors : st = <<w>>

\* The options word comes first and is gone before the main loop.
CtlInv ==
  /\ \A i \in DOMAIN ctl : ctl[i] = "options" =>
       i = 1 /\ pc \in {"options", "exited"} /\ mode.fuzzer = "options"
  /\ pc = "options" /\ mode.fuzzer = "options" /\ fz \in Talking =>
       ctl # <<>> /\ Head(ctl) = "options"
  /\ already_read_first =>
       pc \in {"read", "exited"} /\ ~child_stopped

\* Pids and statuses alternate in the status pipe, unless the server has
\* reported an error and ended.
Alternate ==
  /\ Len(st) <= Due + Ahead
  /\ \A i \in DOMAIN st :
       st[i] \in IF i % 2 = 1 <=> fz # "await_status" THEN Pids ELSE Statuses

StInv ==
  fz \in Talking =>
    Alternate \/ (pc = "exited" /\ \E w \in Errors : st = <<w>>)

\* Without persistent mode and without an answer, the first command is the last.
Swallows == ~Served /\ mode.fuzzer = "plain"

SwallowInv ==
  Swallows =>
    /\ fz = "idle" => testcase = 0 /\ st = <<>>
    /\ fz \in Answering => testcase = 1 /\ fz = "await_pid" /\ st = <<>>

\* A run can have been killed only if there was one.
KilledInv ==
  /\ fz \in Answering => testcase > 0
  /\ timed_out => testcase > 0 /\ fz \in {"await_status", "idle", "gone"}
  /\ \A i \in DOMAIN ctl : ctl[i] = "run_killed" => testcase > 1
  /\ pc = "writeoff" => testcase > 1

\* Only the persistent loop stops.
LoopInv ==
  \A p \in Pids :
    /\ cpc[p] \in {"loop", "resumed"} => mode.loop
    /\ proc[p] = "stopped" => cpc[p] = "resumed"
    /\ cpc[p] \in {"body", "resumed"} /\ mode.loop => ~first_pass[p]

WordsInv == BootInv /\ Balance /\ CtlInv /\ StInv /\ SwallowInv /\ KilledInv

PipeInv == WordsInv /\ LoopInv

-------------------------------------------------------------------------------
NoneRunning == \A p \in Pids : proc[p] # "running"

\* A run command is on the way to the main loop.
Pending == already_read_first \/ \E i \in DOMAIN ctl : ctl[i] # "options"

\* Nothing has been done yet for the current testcase.
Fresh == ran = 0 /\ map = {} /\ ~timed_out /\ testcase > 0

\* The current testcase has been run, and nothing else is in the map.
Complete == ran = 1 /\ map = {testcase}

\* The program points before the child can be seen to have ended its run.
Starting == {"writeoff", "fork", "cont"}
Started  == {"forked", "write_pid"}

OneCommand ==
  /\ Len(ctl) > 1 => Len(ctl) = 2 /\ Head(ctl) = "options"
  /\ already_read_first => ctl = <<>>

\* Where the current command is, and whether children run.
CommandInv ==
  /\ Pending => Fresh /\ NoneRunning /\ Remaining(pc) = 0
  /\ pc \in Starting => Fresh /\ NoneRunning
  /\ pc \in Started => ~timed_out /\ testcase > 0
  /\ pc = "wait" => testcase > 0
  /\ Remaining(pc) = 0 \/ pc = "write_status" => NoneRunning

\* What a child in its position has done for the current testcase.
ChildRun(p) ==
  /\ proc[p] = "running" =>
       /\ testcase > 0
       /\ cpc[p] \in {"born", "startup", "resumed"} => ran = 0 /\ map = {}
       /\ cpc[p] = "body" => ran = 0 /\ (mode.loop => map = {})
       /\ cpc[p] = "loop" => IF first_pass[p] THEN ran = 0 ELSE Complete
       /\ cpc[p] = "epilogue" =>
            ran = 1 /\ (mode.loop => child_area[p] = "dummy")
       /\ cpc[p] # "epilogue" => child_area[p] = "shm"
  /\ proc[p] = "stopped" /\ pc \in Started \cup {"wait"} => Complete
  /\ proc[p] = "stopped" => child_area[p] = "shm"

\* A stop is reported for a complete run only.
StopInv ==
  /\ pc = "write_status" /\ status = "stopped" => Complete
  /\ fz \in Answering /\ (\E i \in DOMAIN st : st[i] = "stopped") => Complete
  /\ fz = "idle" /\ answer = "stopped" => Complete
  /\ fz = "boot" => answer = "none"

\* afl-fuzz kills the child that it has been told of.
PidInv ==
  /\ fz = "await_pid" /\ st # <<>> => Head(st) = child_pid
  /\ fz = "await_status" => fz_pid = child_pid

Killed == child_pid \in Pids /\ proc[child_pid] \in Zombie

DeadInv ==
  /\ timed_out => Remaining(pc) < 2
  /\ timed_out /\ (pc = "wait" \/ child_stopped) => Killed
  /\ child_stopped /\ ctl # <<>> /\ Head(ctl) = "run_killed" => Killed
  /\ pc = "writeoff" => Killed

AreaInv == mode.fuzzer # "none" /\ pc # "setup" => area_ptr = "shm"

MapInv ==
  /\ map \subseteq {Startup, testcase, Epilogue}
  /\ mode.loop => Epilogue \notin map
  /\ ran \in {0, 1}

\* SIGTERM is sent by an afl-fuzz that ends.
TermInv == term # "none" => fz = "gone"

\* One child lives at most, after the end of the server too.
OneLive == \A p, q \in Pids : proc[p] \in Live /\ proc[q] \in Live => p = q

LeftBehind == pc = "exited" => fz = "gone" \/ \A p \in Pids : proc[p] \notin Live

\* What holds where the two sides agree on the first word.
RunInv ==
  /\ MapInv /\ StopInv /\ \A p \in Pids : ChildRun(p)
  /\ pc # "exited" => OneCommand /\ CommandInv /\ PidInv /\ DeadInv /\ AreaInv

ServedInv == Served => RunInv

\* What holds in every mode.
SafeInv ==
  IInv /\ ExitInv /\ PipeInv /\ TermInv /\ OneLive /\ LeftBehind

-------------------------------------------------------------------------------
(***************************************************************************)
(* Sequences of words.                                                     *)
(***************************************************************************)
\* A word put at the end of a pipe leaves the others where they are.
LEMMA Appended ==
  ASSUME NEW S, NEW s \in Seq(S), NEW w \in S
  PROVE  /\ Len(s) \in Nat /\ DOMAIN s = 1..Len(s)
         /\ s = <<>> <=> Len(s) = 0
         /\ Len(Append(s, w)) = Len(s) + 1
         /\ DOMAIN Append(s, w) = 1..(Len(s) + 1)
         /\ \A i \in DOMAIN s : Append(s, w)[i] = s[i]
         /\ Append(s, w)[Len(s) + 1] = w
         /\ Append(s, w) # <<>>
         /\ Head(Append(s, w)) = IF s = <<>> THEN w ELSE Head(s)
<1>1. Append(s, w) \in Seq(S) /\ Append(s, w) # <<>>
  BY AppendProperties
<1>2. /\ Len(s) \in Nat /\ DOMAIN s = 1..Len(s)
      /\ s = <<>> <=> Len(s) = 0
  BY LenProperties, EmptySeq
<1>3. /\ Len(Append(s, w)) = Len(s) + 1
      /\ DOMAIN Append(s, w) = 1..(Len(s) + 1)
      /\ \A i \in DOMAIN s : Append(s, w)[i] = s[i]
      /\ Append(s, w)[Len(s) + 1] = w
  BY <1>1, <1>2, AppendProperties, LenProperties
<1>4. Head(Append(s, w)) = IF s = <<>> THEN w ELSE Head(s)
  BY HeadTailAppend
<1>5. QED
  BY <1>1, <1>2, <1>3, <1>4

\* A word taken from a pipe makes the others move up.
LEMMA Taken ==
  ASSUME NEW S, NEW s \in Seq(S), s # <<>>
  PROVE  /\ Len(s) \in Nat /\ Len(s) > 0 /\ DOMAIN s = 1..Len(s)
         /\ Head(s) \in S /\ Head(s) = s[1]
         /\ Len(Tail(s)) = Len(s) - 1
         /\ DOMAIN Tail(s) = 1..(Len(s) - 1)
         /\ \A i \in DOMAIN Tail(s) : Tail(s)[i] = s[i + 1]
OBVIOUS

-------------------------------------------------------------------------------
(***************************************************************************)
(* The words in the pipes, in every mode.                                  *)
(***************************************************************************)
\* WordsInv looks at these variables only.
LEMMA WordsFrame ==
  ASSUME WordsInv,
         UNCHANGED <<mode, pc, fz, st, ctl, testcase, timed_out, child_stopped,
                     already_read_first>>
  PROVE  WordsInv'
BY DEF WordsInv, BootInv, Balance, CtlInv, StInv, Alternate, SwallowInv,
   Swallows, KilledInv, Served, Due, Ahead, Credit, Commanded, Remaining, Hello

\* The server ends without a word.
LEMMA WordsEnd ==
  ASSUME WordsInv, pc' = "exited", pc # "exited",
         UNCHANGED <<mode, fz, st, ctl, testcase, timed_out, child_stopped,
                     already_read_first>>
  PROVE  WordsInv'
<1> USE DEF WordsInv
<1>1. BootInv'
  BY DEF BootInv, Silent, Talking, Answering, Hello, Hellos
<1>2. Balance'
  BY DEF Balance
<1>3. CtlInv'
  BY DEF CtlInv
<1>4. StInv'
  BY DEF StInv, Alternate, Due, Ahead, Served
<1>5. SwallowInv' /\ KilledInv'
  BY DEF SwallowInv, Swallows, KilledInv, Served
<1>6. QED
  BY <1>1, <1>2, <1>3, <1>4, <1>5

\* The server goes on without a word, before it serves or between two words.
LEMMA WordsMove ==
  ASSUME WordsInv,
         \/ pc = "setup" /\ pc' = "target"
         \/ pc = "target" /\ pc' = "phone"
         \/ pc = "phone" /\ pc' = "standalone" /\ fz = "gone"
         \/ pc = "writeoff" /\ pc' = "fork"
         \/ pc = "fork" /\ pc' = "forked"
         \/ pc \in {"forked", "cont"} /\ pc' = "write_pid"
         \/ pc = "wait" /\ pc' = "write_status",
         UNCHANGED <<mode, fz, st, ctl, testcase, timed_out,
                     already_read_first>>
  PROVE  WordsInv'
<1> USE DEF WordsInv
<1>1. BootInv'
  BY DEF BootInv, Silent, Talking, Answering
<1>2. Balance'
  BY DEF Balance, Due, Credit, Commanded, Remaining, BootInv, Silent, Talking,
     Answering, Served
<1>3. CtlInv'
  BY DEF CtlInv
<1>4. StInv'
  BY DEF StInv, Alternate, Due, Ahead, Served
<1>5. SwallowInv' /\ KilledInv'
  BY DEF SwallowInv, Swallows, KilledInv, Served
<1>6. QED
  BY <1>1, <1>2, <1>3, <1>4, <1>5

Word == Pids \cup Hellos \cup Errors \cup Statuses

\* The hello, and the reports of errors before the main loop.
LEMMA WordsBoot ==
  ASSUME IInv, ExitInv, WordsInv, AflSetup \/ PhoneHome
  PROVE  WordsInv'
<1> USE DEF WordsInv
<1>1. UNCHANGED <<mode, fz, testcase, timed_out, ctl, child_stopped,
                  already_read_first>>
  BY DEF AflSetup, PhoneHome, fuzzer, flags
<1>2. fz \in {"boot", "gone"} /\ st = <<>> /\ ctl = <<>> /\ ~already_read_first
  BY DEF AflSetup, PhoneHome, BootInv, CtlInv, Silent
<1>3. CASE UNCHANGED st
  BY <1>1, <1>3, WordsMove, WordsEnd
  DEF AflSetup, PhoneHome, Goto, Exit, WriteFails
<1>4. CASE ~UNCHANGED st
  <2>1. \E w \in Hellos \cup Errors :
          /\ st' = <<w>>
          /\ pc' = "exited" \/ (w = Hello /\ fz # "gone")
    BY <1>2, <1>4
    DEF AflSetup, PhoneHome, Exit, Hello, Hellos, Errors, Goto, WriteFails
  <2>2. pc' = "exited" \/ pc' = IF mode.sharedmem THEN "options" ELSE "read"
    BY <1>4 DEF AflSetup, PhoneHome, Goto, Exit
  <2>3. BootInv'
    BY <1>1, <1>2, <2>1, <2>2
    DEF BootInv, Hello, Silent, Talking, Answering
  <2>4. (Balance /\ StInv /\ CtlInv /\ SwallowInv /\ KilledInv)'
    BY <1>1, <1>2, <2>2
    DEF Balance, StInv, CtlInv, SwallowInv, Swallows, KilledInv, Talking,
        Answering, Served
  <2>5. QED
    BY <2>3, <2>4
<1>5. QED
  BY <1>3, <1>4

\* The word read before the main loop: an options word, or a run command in
\* its place.
LEMMA WordsOptions ==
  ASSUME IInv, ExitInv, WordsInv, ReadOptions
  PROVE  WordsInv'
<1> USE DEF WordsInv
<1>1. /\ UNCHANGED <<mode, fz, testcase, timed_out, st, child_stopped>>
      /\ mode.sharedmem /\ pc = "options"
  BY DEF ReadOptions, fuzzer, BootInv
<1>2. ~child_stopped /\ ~already_read_first /\ mode.fuzzer # "none"
  BY <1>1 DEF IInv, ChildInv, CtlInv, ExitInv, AloneInv
<1>3. CASE ctl = <<>>
  BY <1>1, <1>3, WordsEnd DEF ReadOptions, Exit
<1>4. CASE ctl # <<>>
  <2> DEFINE w == Head(ctl)
  <2>1. /\ ctl' = Tail(ctl) /\ Len(ctl) \in Nat /\ Len(ctl) > 0
        /\ DOMAIN ctl = 1..Len(ctl) /\ w = ctl[1] /\ w \in CtlWords
        /\ Len(ctl') = Len(ctl) - 1 /\ DOMAIN ctl' = 1..(Len(ctl) - 1)
        /\ \A i \in DOMAIN ctl' : ctl'[i] = ctl[i + 1]
    <3>1. ctl \in Seq(CtlWords)
      BY DEF IInv, TypeOK, TypeShared
    <3>2. ctl' = Tail(ctl)
      BY <1>1, <1>4 DEF ReadOptions, CtlClosed
    <3>3. QED
      BY <1>4, <3>1, <3>2, Taken
  <2>2. \A i \in DOMAIN ctl' : ctl'[i] # "options"
    BY <2>1 DEF CtlInv
  <2>3. w = "options" => mode.fuzzer = "options"
    BY <2>1 DEF CtlInv
  <2>4. pc' = IF w = "options" THEN "map_fuzz" ELSE "read"
    BY <1>1, <1>4 DEF ReadOptions, Goto, CtlClosed
  <2>5. already_read_first' <=> (w # "options" /\ mode.persistent)
    BY <1>1, <1>2, <1>4 DEF ReadOptions, AlreadyReadFirst, CtlClosed
  <2>6. fz # "boot"
    BY <1>4 DEF BootInv
  <2>7. BootInv'
    BY <1>1, <2>3, <2>4, <2>6 DEF BootInv, Silent
  <2>8. Balance'
    <3> SUFFICES ASSUME fz \in Talking
                 PROVE  /\ w = "options" => Due = Len(st') + 2 * Len(ctl')
                        /\ w # "options" =>
                             Due' + Credit' = Len(st') + Commanded'
      BY <1>1, <1>2, <2>4, <2>5
      DEF Balance, Commanded, Remaining, Due, Credit
    <3>1. Due + Credit = Len(st) + 2 * Len(ctl)
      BY <1>1, <1>2 DEF Balance, Commanded, Remaining
    <3>2. mode.fuzzer = "options" <=> w = "options"
      BY <1>1, <2>1, <2>3 DEF CtlInv
    <3>3. Credit = IF w = "options" THEN 2 ELSE 0
      BY <1>1, <3>2 DEF Credit
    <3>4. Due \in 0..2 /\ Due' = Due /\ Len(st') = Len(st) /\ Len(st) \in Nat
      BY <1>1 DEF Due, IInv, TypeOK, TypeShared
    <3>5. Served' <=> (mode.persistent # (mode.fuzzer = "options"))
      BY <1>1, <1>2 DEF Served
    <3>6. CASE w = "options"
      BY <2>1, <3>1, <3>3, <3>4, <3>6
    <3>7. CASE w # "options"
      <4>1. mode.fuzzer # "options" /\ pc' = "read"
        BY <2>4, <3>2, <3>7
      <4>2. mode.persistent \in BOOLEAN /\ UNCHANGED mode
        BY <1>1, ModesAssumption DEF IInv, TypeOK, TypeServer
      <4>3. Credit' = IF mode.persistent THEN 0 ELSE -2
        BY <3>5, <4>1, <4>2 DEF Credit
      <4>4. Commanded' = 2 * Len(ctl') + (IF mode.persistent THEN 2 ELSE 0)
        BY <2>5, <3>7 DEF Commanded
      <4>5. QED
        BY <2>1, <3>1, <3>3, <3>4, <3>7, <4>3, <4>4
    <3>8. QED
      BY <3>6, <3>7
  <2>9. CtlInv'
    BY <1>1, <1>2, <2>2, <2>4, <2>5 DEF CtlInv
  <2>10. (StInv /\ SwallowInv)'
    BY <1>1, <2>4
    DEF StInv, SwallowInv, Swallows, Alternate, Due, Ahead, Served
  <2>11. KilledInv'
    BY <1>1, <2>1, <2>4 DEF KilledInv
  <2>12. QED
    BY <2>7, <2>8, <2>9, <2>10, <2>11
<1>5. QED
  BY <1>3, <1>4

\* The testcase memory is attached, or the error is reported.
LEMMA WordsMapFuzz ==
  ASSUME IInv, ExitInv, WordsInv, MapShmFuzz
  PROVE  WordsInv'
<1> USE DEF WordsInv
<1>1. /\ UNCHANGED <<mode, fz, testcase, timed_out, ctl, child_stopped>>
      /\ mode.sharedmem /\ mode.fuzzer = "options" /\ pc = "map_fuzz"
  BY DEF MapShmFuzz, fuzzer, BootInv
<1>2. ~child_stopped /\ ~already_read_first /\ fz # "boot"
  BY <1>1 DEF IInv, ChildInv, CtlInv, BootInv, Silent
<1>3. \A i \in DOMAIN ctl : ctl[i] # "options"
  BY <1>1 DEF CtlInv
<1>4. fz \in Talking => st = <<>>
  BY <1>1 DEF BootInv
<1>5. CASE pc' = "read"
  <2>1. UNCHANGED st /\ (already_read_first' <=> mode.persistent)
    BY <1>1, <1>5 DEF MapShmFuzz, AlreadyReadFirst, Exit
  <2>2. Balance'
    <3>1. Served <=> ~mode.persistent
      BY <1>1 DEF Served
    <3>2. fz \in Talking => Due = Len(st) + 2 * Len(ctl)
      BY <1>1, <1>2
      DEF Balance, Credit, Commanded, Remaining, Due, IInv, TypeOK, TypeShared
    <3>3. Credit' = IF mode.persistent THEN 2 ELSE 0
      BY <1>1, <1>5, <3>1 DEF Credit, Served
    <3>4. Commanded' = 2 * Len(ctl) + (IF mode.persistent THEN 2 ELSE 0)
      BY <1>1, <2>1 DEF Commanded
    <3>5. Remaining(pc)' = 0
      BY <1>5 DEF Remaining
    <3>6. Len(st) \in Nat /\ Len(ctl) \in Nat /\ Due' = Due
      BY <1>1 DEF IInv, TypeOK, TypeShared, Due
    <3>7. QED
      BY <1>1, <2>1, <3>2, <3>3, <3>4, <3>5, <3>6 DEF Balance
  <2>3. (BootInv /\ CtlInv)'
    BY <1>1, <1>2, <1>3, <1>5 DEF BootInv, Silent, CtlInv
  <2>4. (StInv /\ SwallowInv /\ KilledInv)'
    BY <1>1, <1>5, <2>1
    DEF StInv, Alternate, Due, Ahead, Served, SwallowInv, Swallows, KilledInv
  <2>5. QED
    BY <2>2, <2>3, <2>4
<1>6. CASE pc' = "exited"
  <2>1. UNCHANGED already_read_first /\ st' = Append(st, "err_shm_open")
    BY <1>6 DEF MapShmFuzz, Goto
  <2>2. fz \in Talking => st' = <<"err_shm_open">>
    BY <1>4, <2>1
  <2>3. (BootInv /\ Balance /\ CtlInv)'
    BY <1>1, <1>2, <1>6, <1>3 DEF BootInv, Balance, Silent, CtlInv
  <2>4. StInv'
    BY <1>1, <1>6, <2>2 DEF StInv, Errors
  <2>5. (SwallowInv /\ KilledInv)'
    BY <1>1, <1>6 DEF SwallowInv, Swallows, KilledInv, Served
  <2>6. QED
    BY <2>3, <2>4, <2>5
<1>7. QED
  BY <1>5, <1>6 DEF MapShmFuzz, Goto, Exit

\* A run command is taken from the control pipe, or from the options exchange.
LEMMA WordsCommand ==
  ASSUME IInv, ExitInv, WordsInv, LoopRead
  PROVE  WordsInv'
<1> USE DEF WordsInv
<1>1. UNCHANGED <<mode, fz, testcase, timed_out, st>> /\ pc = "read"
  BY DEF LoopRead, fuzzer
<1>2. CASE pc' = "exited"
  BY <1>1, <1>2, WordsEnd DEF LoopRead, AfterCommand, Goto
<1>3. CASE pc' # "exited"
  <2>1. /\ pc' \in {"writeoff", "fork", "cont"} /\ ~already_read_first'
        /\ fz # "boot"
    BY <1>3 DEF LoopRead, AfterCommand, Goto, Exit, BootInv
  <2>2. /\ \A i \in DOMAIN ctl : ctl[i] # "options"
        /\ already_read_first => ~child_stopped
    BY <1>1 DEF CtlInv
  <2>3. CASE already_read_first
    <3>1. UNCHANGED ctl /\ pc' = "fork"
      BY <2>2, <2>3 DEF LoopRead, AfterCommand, Goto
    <3>2. (BootInv /\ CtlInv /\ KilledInv)'
      BY <1>1, <2>1, <2>2, <3>1 DEF BootInv, Silent, CtlInv, KilledInv
    <3>3. Balance'
      BY <1>1, <2>1, <2>3, <3>1
      DEF Balance, Credit, Commanded, Remaining, Due, Served, IInv, TypeOK,
          TypeShared
    <3>4. (StInv /\ SwallowInv)'
      BY <1>1, <2>1
      DEF StInv, Alternate, Due, Ahead, Served, SwallowInv, Swallows
    <3>5. QED
      BY <3>2, <3>3, <3>4
  <2>4. CASE ~already_read_first
    <3>1. ctl # <<>> /\ ctl' = Tail(ctl) /\ ctl \in Seq(CtlWords)
      BY <1>3, <2>4 DEF LoopRead, Exit, IInv, TypeOK, TypeShared
    <3>2. /\ Len(ctl) \in Nat /\ Len(ctl) > 0 /\ DOMAIN ctl = 1..Len(ctl)
          /\ Head(ctl) \in CtlWords /\ Head(ctl) = ctl[1]
          /\ Len(ctl') = Len(ctl) - 1 /\ DOMAIN ctl' = 1..(Len(ctl) - 1)
          /\ \A i \in DOMAIN ctl' : ctl'[i] = ctl[i + 1]
      BY <3>1, Taken
    <3>3. (BootInv /\ CtlInv)'
      BY <1>1, <2>1, <2>2, <3>2 DEF BootInv, Silent, CtlInv
    <3>4. Balance'
      BY <1>1, <2>1, <2>4, <3>2
      DEF Balance, Credit, Commanded, Remaining, Due, Served, IInv, TypeOK,
          TypeShared
    <3>5. pc' = "writeoff" => Head(ctl) = "run_killed"
      BY <2>4, <2>2, <3>2
      DEF LoopRead, AfterCommand, Goto, Exit, CtlWords
    <3>6. KilledInv'
      BY <1>1, <2>1, <3>2, <3>5 DEF KilledInv
    <3>7. (StInv /\ SwallowInv)'
      BY <1>1, <2>1
      DEF StInv, Alternate, Due, Ahead, Served, SwallowInv, Swallows
    <3>8. QED
      BY <3>3, <3>4, <3>6, <3>7
  <2>5. QED
    BY <2>3, <2>4
<1>4. QED
  BY <1>2, <1>3

\* A pid or a status is written: in a place where one is due.
LEMMA WordsAnswer ==
  ASSUME IInv, WordsInv, fz # "gone",
         NEW w \in Word, st' = Append(st, w),
         \/ pc = "write_pid" /\ pc' = "wait" /\ w \in Pids
         \/ pc = "write_status" /\ pc' = "read" /\ w \in Statuses,
         UNCHANGED <<mode, fz, ctl, testcase, timed_out, child_stopped,
                     already_read_first>>
  PROVE  WordsInv'
<1> USE DEF WordsInv
<1>1. ~already_read_first /\ fz \in Talking
  BY DEF BootInv, CtlInv, Silent, Talking, Answering, IInv, TypeOK, TypeFuzzer
<1>2. /\ Len(st) \in Nat /\ DOMAIN st = 1..Len(st)
      /\ Len(st') = Len(st) + 1 /\ DOMAIN st' = 1..(Len(st) + 1)
      /\ \A i \in DOMAIN st : st'[i] = st[i]
      /\ st'[Len(st) + 1] = w
  BY Appended DEF Word, IInv, TypeOK, TypeShared
<1>3. Len(ctl) \in Nat /\ UNCHANGED <<Due, Ahead>>
  BY DEF IInv, TypeOK, TypeShared, Due, Ahead, Served
<1>4. Credit = IF Served THEN 0 ELSE IF mode.fuzzer = "options" THEN 2 ELSE -2
  BY DEF Credit
<1>5. Due + Credit = Len(st') + 2 * Len(ctl)
                     + (IF pc = "write_pid" THEN 1 ELSE 0)
  BY <1>1, <1>2, <1>3 DEF Balance, Commanded, Remaining, Due, Credit
<1>6. Balance'
  BY <1>1, <1>2, <1>3, <1>4, <1>5
  DEF Balance, Commanded, Remaining, Due, Credit, Served
<1>7. BootInv' /\ CtlInv' /\ KilledInv'
  BY <1>1 DEF BootInv, CtlInv, KilledInv, Silent, Talking, Answering
<1>8. StInv'
  <2>1. Alternate
    BY <1>1 DEF StInv
  <2>2. Len(st') <= Due + Ahead
    BY <1>2, <1>3, <1>4, <1>5 DEF Ahead, Due
  <2>3. w \in IF (Len(st) + 1) % 2 = 1 <=> fz # "await_status"
              THEN Pids ELSE Statuses
    <3>1. Credit \in {-2, 0, 2}
      BY <1>4
    <3>2. CASE pc = "write_pid"
      <4>1. Due + Credit = Len(st) + 2 + 2 * Len(ctl)
        BY <1>2, <1>3, <1>5, <3>2, <3>1 DEF Due
      <4>2. CASE fz = "await_status"
        BY <1>2, <1>3, <3>1, <3>2, <4>1, <4>2 DEF Due
      <4>3. CASE fz # "await_status"
        BY <1>1, <1>2, <1>3, <3>1, <3>2, <4>1, <4>3 DEF Due, Talking, Answering
      <4>4. QED
        BY <4>2, <4>3
    <3>3. CASE pc = "write_status"
      <4>1. Due + Credit = Len(st) + 1 + 2 * Len(ctl)
        BY <1>2, <1>3, <1>5, <3>3, <3>1 DEF Due
      <4>2. CASE fz = "await_status"
        BY <1>2, <1>3, <3>1, <3>3, <4>1, <4>2 DEF Due
      <4>3. CASE fz # "await_status"
        BY <1>1, <1>2, <1>3, <3>1, <3>3, <4>1, <4>3 DEF Due, Talking, Answering
      <4>4. QED
        BY <4>2, <4>3
    <3>4. QED
      BY <3>2, <3>3
  <2>4. \A i \in DOMAIN st' :
          st'[i] \in IF i % 2 = 1 <=> fz # "await_status" THEN Pids ELSE Statuses
    BY <1>2, <2>1, <2>3 DEF Alternate
  <2>5. QED
    BY <1>3, <2>2, <2>4 DEF StInv, Alternate
<1>9. SwallowInv'
  <2>1. SUFFICES ASSUME Swallows
                 PROVE  FALSE
    BY DEF SwallowInv, Swallows, Served
  <2>2. Credit = -2
    BY <1>4, <2>1 DEF Swallows
  <2>3. Due \in {0, 2}
    BY <1>1, <2>1 DEF SwallowInv, Due, Talking
  <2>4. QED
    BY <1>2, <1>3, <1>5, <2>2, <2>3
<1>10. QED
  BY <1>6, <1>7, <1>8, <1>9

\* A step of the server or of its handler keeps the words in step.
LEMMA WordsServer ==
  ASSUME IInv, ExitInv, WordsInv, ServerCode \/ SignalStep
  PROVE  WordsInv'
<1>1. UNCHANGED <<mode, fz, testcase, timed_out>>
  BY ServerFrame DEF fuzzer
<1>2. CASE AflSetup \/ PhoneHome   BY <1>2, WordsBoot
<1>3. CASE ReadOptions             BY <1>3, WordsOptions
<1>4. CASE MapShmFuzz              BY <1>4, WordsMapFuzz
<1>5. CASE LoopRead                BY <1>5, WordsCommand
<1>6. CASE TargetReachesInit
  BY <1>1, <1>6, WordsMove, WordsEnd
  DEF TargetReachesInit, Goto, Exit, flags, pipes
<1>7. CASE WriteOff
  BY <1>1, <1>7, WordsMove, WordsEnd DEF WriteOff, Goto, Exit, flags, pipes
<1>8. CASE Fork
  BY <1>1, <1>8, WordsMove, WordsEnd DEF Fork, Goto, Exit, flags, pipes
<1>9. CASE StoreChildPid
  BY <1>1, <1>9, WordsMove DEF StoreChildPid, Goto, flags, pipes
<1>10. CASE Cont
  BY <1>1, <1>10, WordsMove DEF Cont, Goto, pipes
<1>11. CASE WaitChild
  BY <1>1, <1>11, WordsMove, WordsEnd DEF WaitChild, Goto, Exit, pipes
<1>12. CASE WritePid
  <2>1. CASE fz = "gone"
    BY <1>1, <1>12, <2>1, WordsEnd DEF WritePid, Exit, flags
  <2>2. CASE fz # "gone"
    <3>1. child_pid \in Pids
      BY <1>12 DEF WritePid, IInv, ChildInv, ChildUnreaped, HasChild
    <3>2. QED
      BY <1>1, <1>12, <2>2, <3>1, WordsAnswer DEF WritePid, Goto, flags, Word
  <2>3. QED
    BY <2>1, <2>2
<1>13. CASE WriteStatus
  <2>1. CASE fz = "gone"
    BY <1>1, <1>13, <2>1, WordsEnd DEF WriteStatus, Exit, flags
  <2>2. CASE fz # "gone"
    <3>1. status \in Statuses
      BY <1>13 DEF WriteStatus, IInv, StatusInv
    <3>2. QED
      BY <1>1, <1>13, <2>2, <3>1, WordsAnswer DEF WriteStatus, Goto, flags, Word
  <2>3. QED
    BY <2>1, <2>2
<1>14. CASE SignalStep
  <2>1. CASE AtExit
    BY <1>1, <2>1, WordsFrame DEF AtExit, server, pipes
  <2>2. CASE AtExitReaps \/ TermByDefault
    BY <1>1, <2>2, WordsEnd DEF AtExitReaps, TermByDefault, Exit, flags, pipes
  <2>3. QED
    BY <1>14, <2>1, <2>2 DEF SignalStep
<1>15. QED
  BY <1>2, <1>3, <1>4, <1>5, <1>6, <1>7, <1>8, <1>9, <1>10, <1>11, <1>12,
     <1>13, <1>14
  DEF ServerStep, ServerCode

\* afl-fuzz goes away, with a word that it could not use or without.
LEMMA WordsGone ==
  ASSUME WordsInv, GivesUp, st' = st \/ st # <<>>,
         UNCHANGED <<mode, pc, ctl, child_stopped, already_read_first>>
  PROVE  WordsInv'
BY DEF WordsInv, GivesUp, BootInv, Balance, CtlInv, StInv, SwallowInv, Swallows,
   KilledInv, Talking, Answering, Served

\* The hello is read, and answered with the options word if that is wanted.
LEMMA WordsHello ==
  ASSUME IInv, ExitInv, WordsInv, FuzzerBoot
  PROVE  WordsInv'
<1> USE DEF WordsInv
<1>1. UNCHANGED <<mode, pc, child_stopped, already_read_first>>
  BY FuzzerFrame DEF FuzzerSide, FuzzerStep, IInv, server
<1>2. CASE fz' = "gone"
  BY <1>1, <1>2, WordsGone DEF FuzzerBoot
<1>3. CASE fz' # "gone"
  <2>1. /\ fz = "boot" /\ fz' = "idle" /\ st # <<>> /\ st' = Tail(st)
        /\ Head(st) \in Hellos /\ UNCHANGED <<testcase, timed_out>>
        /\ ctl' = IF Head(st) = "hello_shm" /\ mode.fuzzer = "options"
                  THEN Append(ctl, "options") ELSE ctl
    BY <1>3 DEF FuzzerBoot, GivesUp
  <2>2. /\ ctl = <<>> /\ testcase = 0 /\ ~already_read_first /\ ~timed_out
        /\ pc \notin Silent /\ mode.fuzzer # "none"
    BY <2>1 DEF BootInv, KilledInv, ExitInv, AloneInv, IInv, TypeOK, TypeFuzzer
  <2>3. \E w \in Hellos \cup Errors : st = <<w>>
    BY <2>1, <2>2 DEF BootInv, Hello, Hellos
  <2>4. st' = <<>>
    BY <2>1, <2>3
  <2>5. pc # "exited" =>
          /\ Head(st) = Hello
          /\ pc = IF mode.sharedmem THEN "options" ELSE "read"
    BY <2>1, <2>2 DEF BootInv
  <2>6. ctl' = IF Head(st) = "hello_shm" /\ mode.fuzzer = "options"
               THEN <<"options">> ELSE <<>>
    BY <2>1, <2>2
  <2>7. BootInv'
    BY <1>1, <2>1, <2>2, <2>4 DEF BootInv
  <2>8. Balance'
    <3> SUFFICES ASSUME pc # "exited"
                 PROVE  Credit' = 2 * Len(ctl') /\ Remaining(pc) = 0
      <4>1. Len(ctl') \in Nat /\ Len(st') = 0 /\ Due' = 0
        <5>1. Len(ctl') \in Nat
          BY <2>6
        <5>2. Len(st') = 0
          BY <2>4
        <5>3. Due' = 0
          BY <2>1 DEF Due
        <5>4. QED
          BY <5>1, <5>2, <5>3
      <4>2. Commanded' = 2 * Len(ctl')
        BY <1>1, <2>2, <4>1 DEF Commanded
      <4>3. Remaining(pc)' = Remaining(pc)
        BY <1>1 DEF Remaining
      <4>4. QED
        BY <1>1, <4>1, <4>2, <4>3 DEF Balance
    <3>1. CASE mode.sharedmem
      BY <1>1, <2>5, <2>6, <3>1 DEF Credit, Remaining, Hello
    <3>2. CASE ~mode.sharedmem
      BY <1>1, <2>5, <2>6, <3>2 DEF Credit, Remaining, Hello, Served
    <3>3. QED
      BY <3>1, <3>2
  <2>9. CtlInv'
    BY <1>1, <2>2, <2>5, <2>6 DEF CtlInv, Hello
  <2>10. (StInv /\ SwallowInv /\ KilledInv)'
    BY <1>1, <2>1, <2>2, <2>4, <2>6
    DEF StInv, Alternate, Due, Ahead, Served, SwallowInv, Swallows, KilledInv,
        Answering
  <2>11. QED
    BY <2>7, <2>8, <2>9, <2>10
<1>4. QED
  BY <1>2, <1>3

\* A run command is sent.
LEMMA WordsRun ==
  ASSUME IInv, WordsInv, FuzzerRun
  PROVE  WordsInv'
<1> USE DEF WordsInv
<1> DEFINE w == IF timed_out THEN "run_killed" ELSE "run"
<1>1. UNCHANGED <<mode, pc, child_stopped, already_read_first>>
  BY FuzzerFrame DEF FuzzerSide, FuzzerStep, IInv, server
<1>2. /\ fz = "idle" /\ fz' = "await_pid" /\ UNCHANGED st /\ ~timed_out'
      /\ testcase' = testcase + 1 /\ testcase \in Nat
      /\ ctl' = Append(ctl, w) /\ w \in CtlWords /\ ctl \in Seq(CtlWords)
  BY BoundsAssumption
  DEF FuzzerRun, IInv, TypeOK, TypeFuzzer, TypeShared, CtlWords
<1>3. /\ Len(ctl) \in Nat /\ DOMAIN ctl = 1..Len(ctl)
      /\ Len(ctl') = Len(ctl) + 1 /\ DOMAIN ctl' = 1..(Len(ctl) + 1)
      /\ \A i \in DOMAIN ctl : ctl'[i] = ctl[i]
      /\ ctl'[Len(ctl) + 1] = w /\ ctl' # <<>>
      /\ ctl # <<>> => Head(ctl') = Head(ctl)
  BY <1>2, Appended
<1>4. BootInv'
  BY <1>1, <1>2 DEF BootInv, Silent, Talking
<1>5. Balance'
  BY <1>1, <1>2, <1>3
  DEF Balance, Due, Credit, Commanded, Remaining, Served, Talking, Answering,
      IInv, TypeOK, TypeShared
<1>6. CtlInv'
  BY <1>1, <1>2, <1>3 DEF CtlInv, Talking
<1>7. StInv'
  BY <1>1, <1>2
  DEF StInv, Alternate, Due, Ahead, Served, Talking, Answering, IInv, TypeOK,
      TypeShared
<1>8. SwallowInv'
  BY <1>1, <1>2 DEF SwallowInv, Swallows, Served, Answering
<1>9. KilledInv'
  BY <1>1, <1>2, <1>3 DEF KilledInv, Answering
<1>10. QED
  BY <1>4, <1>5, <1>6, <1>7, <1>8, <1>9

\* A pid or a status is read where one was due.
LEMMA WordsRead ==
  ASSUME IInv, ExitInv, WordsInv, FuzzerReadPid \/ FuzzerReadStatus
  PROVE  WordsInv'
<1> USE DEF WordsInv
<1>1. UNCHANGED <<mode, pc, child_stopped, already_read_first, ctl>>
  BY FuzzerFrame
  DEF FuzzerSide, FuzzerStep, IInv, server, FuzzerReadPid, FuzzerReadStatus
<1>2. CASE fz' = "gone"
  BY <1>1, <1>2, WordsGone DEF FuzzerReadPid, FuzzerReadStatus
<1>3. CASE fz' # "gone"
  <2>1. /\ st # <<>> /\ st' = Tail(st) /\ UNCHANGED <<testcase, timed_out>>
        /\ Head(st) \in Pids \cup Statuses
        /\ \/ fz = "await_pid" /\ fz' = "await_status"
           \/ fz = "await_status" /\ fz' = "idle"
    BY <1>3 DEF FuzzerReadPid, FuzzerReadStatus, GivesUp
  <2>2. st \in Seq(Word) /\ fz \in Talking
    BY <2>1 DEF IInv, TypeOK, TypeShared, Word, Talking, Answering
  <2>3. /\ Len(st) \in Nat /\ Len(st) > 0 /\ DOMAIN st = 1..Len(st)
        /\ Head(st) = st[1] /\ Len(st') = Len(st) - 1
        /\ DOMAIN st' = 1..(Len(st) - 1)
        /\ \A i \in DOMAIN st' : st'[i] = st[i + 1]
    BY <2>1, <2>2, Taken
  <2>4. Alternate
    <3>1. ASSUME NEW e \in Errors, st = <<e>>
          PROVE  FALSE
      BY <2>1, <3>1, PidsAssumption DEF Errors, Statuses, Zombie
    <3>2. QED
      BY <2>2, <3>1 DEF StInv
  <2>5. BootInv'
    BY <1>1, <2>1, <2>2 DEF BootInv, Silent
  <2>6. Balance'
    BY <1>1, <2>1, <2>2, <2>3
    DEF Balance, Due, Credit, Commanded, Remaining, Served, IInv, TypeOK,
        TypeShared
  <2>7. CtlInv'
    BY <1>1, <2>2 DEF CtlInv
  <2>8. StInv'
    <3>1. Len(st') <= (Due + Ahead)'
      BY <1>1, <2>1, <2>3, <2>4 DEF Alternate, Due, Ahead, Served
    <3>2. ASSUME NEW i \in DOMAIN st'
          PROVE  st'[i] \in IF i % 2 = 1 <=> fz' # "await_status"
                            THEN Pids ELSE Statuses
      <4>1. i \in Nat /\ i + 1 \in DOMAIN st /\ st'[i] = st[i + 1]
        BY <2>3
      <4>2. (i + 1) % 2 = 1 <=> ~(i % 2 = 1)
        BY <4>1
      <4>3. QED
        BY <2>1, <2>4, <4>1, <4>2 DEF Alternate
    <3>3. QED
      BY <3>1, <3>2 DEF StInv, Alternate
  <2>9. SwallowInv'
    BY <1>1, <2>1 DEF SwallowInv, Swallows, Served, Answering
  <2>10. KilledInv'
    BY <1>1, <2>1 DEF KilledInv, Answering
  <2>11. QED
    BY <2>5, <2>6, <2>7, <2>8, <2>9, <2>10
<1>4. QED
  BY <1>2, <1>3

\* A step of afl-fuzz keeps the words in step.
LEMMA WordsFuzzer ==
  ASSUME IInv, ExitInv, WordsInv, FuzzerSide
  PROVE  WordsInv'
<1>1. UNCHANGED <<mode, pc, child_stopped, already_read_first>>
  BY FuzzerFrame DEF IInv, server
<1>2. CASE FuzzerBoot                         BY <1>2, WordsHello
<1>3. CASE FuzzerRun                          BY <1>3, WordsRun
<1>4. CASE FuzzerReadPid \/ FuzzerReadStatus  BY <1>4, WordsRead
<1>5. CASE FuzzerTimeout
  <2>1. /\ UNCHANGED <<fz, testcase, ctl, st>>
        /\ fz = "await_status" /\ timed_out'
    BY <1>5 DEF FuzzerTimeout, pipes
  <2>2. (BootInv /\ Balance /\ CtlInv /\ StInv /\ SwallowInv)'
    BY <1>1, <2>1
    DEF WordsInv, BootInv, Balance, CtlInv, StInv, Alternate, SwallowInv,
        Swallows, Served, Due, Ahead, Credit, Commanded, Remaining
  <2>3. KilledInv'
    BY <1>1, <2>1 DEF WordsInv, KilledInv, Answering
  <2>4. QED
    BY <2>2, <2>3 DEF WordsInv
<1>6. CASE FuzzerSeesServerGone \/ FuzzerStops \/ FuzzerIsKilled
  BY <1>1, <1>6, WordsGone
  DEF FuzzerSeesServerGone, FuzzerStops, FuzzerIsKilled, pipes
<1>7. CASE UserTerminates
  BY <1>1, <1>7, WordsFrame DEF UserTerminates, fuzzer, pipes
<1>8. QED
  BY <1>2, <1>3, <1>4, <1>5, <1>6, <1>7 DEF FuzzerSide, FuzzerStep

\* Only the persistent loop stops, and only after its first pass.
LEMMA LoopStep ==
  ASSUME IInv, LoopInv, [Next]_vars
  PROVE  LoopInv'
<1> USE DEF LoopInv, IInv, TypeOK, TypeChildren
<1>1. CASE /\ UNCHANGED <<mode, cpc, first_pass>>
           /\ \A p \in Pids : proc'[p] = "stopped" => proc[p] = "stopped"
  BY <1>1
<1>2. CASE Fork
  <2>1. CASE UNCHANGED children
    BY <1>1, <1>2, <2>1 DEF children, Fork
  <2>2. ASSUME NEW p \in Pids,
               proc' = [proc EXCEPT ![p] = "running"],
               cpc' = [cpc EXCEPT ![p] = "born"],
               first_pass' = [first_pass EXCEPT ![p] = TRUE],
               UNCHANGED mode
        PROVE  LoopInv'
    <3>1. /\ proc'[p] = "running" /\ cpc'[p] = "born"
          /\ \A q \in Pids \ {p} : /\ proc'[q] = proc[q] /\ cpc'[q] = cpc[q]
                                   /\ first_pass'[q] = first_pass[q]
      BY <2>2 DEF TypeFlags
    <3>2. QED
      BY <2>2, <3>1
  <2>3. QED
    BY <1>2, <2>1, <2>2 DEF Fork
<1>3. CASE (ServerCode \/ SignalStep) /\ ~Fork
  <2>1. UNCHANGED <<mode, cpc, first_pass>>
    BY <1>3 DEF ServerStep, ServerCode, SignalStep, AflSetup, TargetReachesInit,
       PhoneHome, ReadOptions, MapShmFuzz, LoopRead, WriteOff, StoreChildPid,
       Cont, WritePid, WaitChild, WriteStatus, AtExit, AtExitReaps,
          TermByDefault,
       children, loopvars
  <2>2. \A p \in Pids : proc'[p] = "stopped" => proc[p] = "stopped"
    BY <1>3 DEF ServerStep, ServerCode, SignalStep, AflSetup, TargetReachesInit,
       PhoneHome, ReadOptions, MapShmFuzz, LoopRead, WriteOff, StoreChildPid,
       Cont, WritePid, WaitChild, WriteStatus, AtExit, AtExitReaps, KillChild,
          TermByDefault,
       children
  <2>3. QED
    BY <1>1, <2>1, <2>2
<1>4. CASE FuzzerSide
  <2>1. \A p \in Pids : proc'[p] = "stopped" => proc[p] = "stopped"
    BY <1>4 DEF FuzzerSide, FuzzerStep, FuzzerBoot, FuzzerReadPid,
       FuzzerTimeout, FuzzerReadStatus, FuzzerSeesServerGone, FuzzerRun,
       FuzzerStops, FuzzerIsKilled, UserTerminates, children
  <2>2. QED
    BY <1>1, <1>4, <2>1, FuzzerFrame
<1>5. ASSUME NEW p \in Pids, Child(p)
      PROVE  LoopInv'
  <2> USE DEF TypeFlags, ChildGoto
  <2>1. CASE ChildReturns(p)   BY <2>1 DEF ChildReturns, loopvars
  <2>2. CASE ChildStartup(p)   BY <2>2 DEF ChildStartup, loopvars
  <2>3. CASE LoopFirstPass(p)  BY <2>3 DEF LoopFirstPass
  <2>4. CASE LoopNextPass(p)   BY <2>4 DEF LoopNextPass, RaiseSigstop
  <2>5. CASE LoopResumes(p)    BY <2>5 DEF LoopResumes, loopvars
  <2>6. CASE ChildBody(p)      BY <2>6 DEF ChildBody, loopvars
  <2>7. CASE ChildEpilogue(p)  BY <2>7 DEF ChildEpilogue, loopvars
  <2>8. CASE ChildDies(p)      BY <2>8 DEF ChildDies, loopvars
  <2>9. QED
    BY <1>5, <2>1, <2>2, <2>3, <2>4, <2>5, <2>6, <2>7, <2>8 DEF Child
<1>6. CASE UNCHANGED vars
  BY <1>1, <1>6 DEF vars, children
<1>7. QED
  BY <1>2, <1>3, <1>4, <1>5, <1>6 DEF Next, ServerStep, FuzzerSide, Done

\* PipeInv is an invariant of the fork server in every mode.
THEOREM PipeInvariance == Spec => []PipeInv
<1>1. Init => PipeInv
  BY DEF Init, PipeInv, WordsInv, BootInv, Balance, CtlInv, StInv, SwallowInv,
     Swallows, KilledInv, LoopInv, Silent, Talking, Answering
<1>2. IInv /\ ExitInv /\ PipeInv /\ [Next]_vars => PipeInv'
  <2> SUFFICES ASSUME IInv, ExitInv, PipeInv, [Next]_vars
               PROVE  PipeInv'
    OBVIOUS
  <2>1. WordsInv'
    <3>1. CASE UNCHANGED vars
      BY <3>1, WordsFrame DEF vars, server, fuzzer, pipes, PipeInv
    <3>2. CASE \E p \in Pids : Child(p)
      BY <3>2, WordsFrame, ChildFrame DEF IInv, server, fuzzer, PipeInv
    <3>3. QED
      BY <3>1, <3>2, WordsServer, WordsFuzzer DEF PipeInv, Next, ServerStep,
         FuzzerSide, Done
  <2>2. QED
    BY <2>1, LoopStep DEF PipeInv
<1>3. QED
  BY Invariance, ExitInvariance, <1>1, <1>2, PTL DEF Spec

\* In every mode afl-fuzz reads a pid where the server wrote a pid and a status
\* where it wrote a status, and the server is ahead by one run at most.
THEOREM InStep == Spec => []AnswersInStep
<1>1. IInv /\ PipeInv => AnswersInStep
  <2> SUFFICES ASSUME IInv, PipeInv, fz \in Talking, st # <<>>,
                      Head(st) \notin Errors
               PROVE  /\ Len(st) <= Due + Ahead
                      /\ \A i \in DOMAIN st :
                           st[i] \in Pids <=> (i % 2 = 1 <=> fz # "await_status")
    BY DEF AnswersInStep, Talking
  <2>1. Alternate
    BY DEF PipeInv, WordsInv, StInv
  <2>2. Pids \cap Statuses = {}
    BY PidsAssumption DEF Statuses, Zombie
  <2>3. QED
    BY <2>1, <2>2 DEF Alternate
<1>2. QED
  BY Invariance, PipeInvariance, <1>1, PTL

-------------------------------------------------------------------------------
(***************************************************************************)
(* Who lives when the server or afl-fuzz is gone.                          *)
(***************************************************************************)
\* Nothing but fork() brings a process to life.
LEMMA NoneComesToLife ==
  ASSUME IInv, [Next]_vars, ~Fork
  PROVE  \A p \in Pids : proc'[p] \in Live => proc[p] \in Live
<1> USE DEF IInv, TypeOK, TypeChildren, Live
<1>1. CASE ServerCode \/ SignalStep
  BY <1>1 DEF ServerStep, ServerCode, SignalStep, AflSetup, TargetReachesInit,
     PhoneHome,
     ReadOptions, MapShmFuzz, LoopRead, WriteOff, StoreChildPid, Cont, WritePid,
     WaitChild, WriteStatus, AtExit, AtExitReaps, KillChild, TermByDefault,
        children
<1>2. CASE FuzzerSide
  BY <1>2 DEF FuzzerSide, FuzzerStep, FuzzerBoot, FuzzerReadPid, FuzzerTimeout,
     FuzzerReadStatus, FuzzerSeesServerGone, FuzzerRun, FuzzerStops,
     FuzzerIsKilled, UserTerminates, children
<1>3. ASSUME NEW p \in Pids, Child(p)
      PROVE  \A q \in Pids : proc'[q] \in Live => proc[q] \in Live
  BY <1>3 DEF Child, ChildReturns, ChildStartup, LoopFirstPass, LoopNextPass,
     RaiseSigstop, LoopResumes, ChildBody, ChildEpilogue, ChildDies
<1>4. CASE UNCHANGED vars
  BY <1>4 DEF vars, children
<1>5. QED
  BY <1>1, <1>2, <1>3, <1>4 DEF Next, ServerStep, FuzzerSide, Done

\* afl-fuzz stays away.
LEMMA GoneForGood ==
  ASSUME IInv, [Next]_vars, fz = "gone"
  PROVE  fz' = "gone"
<1>1. CASE FuzzerSide
  BY <1>1 DEF FuzzerSide, FuzzerStep, FuzzerBoot, FuzzerReadPid, FuzzerTimeout,
     FuzzerReadStatus, FuzzerSeesServerGone, FuzzerRun, FuzzerStops,
     FuzzerIsKilled, UserTerminates, GivesUp, fuzzer
<1>2. QED
  BY <1>1, ServerFrame, ChildFrame DEF IInv, Next, ServerStep, FuzzerSide,
     Done, vars, fuzzer

\* TermInv, OneLive and LeftBehind are preserved.
LEMMA EndStep ==
  ASSUME IInv, ExitInv, TermInv, OneLive, LeftBehind, [Next]_vars
  PROVE  (TermInv /\ OneLive /\ LeftBehind)'
<1>1. TermInv'
  <2>1. CASE FuzzerStops \/ UserTerminates
    BY <2>1
    DEF FuzzerStops, GivesUp, UserTerminates, fuzzer, ExitInv, AloneInv, TermInv
  <2>2. CASE term' # "none" => term # "none"
    BY <2>2, GoneForGood DEF TermInv
  <2>3. ~(FuzzerStops \/ UserTerminates) => (term' # "none" => term # "none")
    BY ChildFrame
    DEF IInv, Next, ServerStep, ServerCode, SignalStep, FuzzerStep, Done, vars,
       AflSetup,
        TargetReachesInit, PhoneHome, ReadOptions, MapShmFuzz, LoopRead,
        WriteOff, Fork, StoreChildPid, Cont, WritePid, WaitChild, WriteStatus,
        AtExit, AtExitReaps, TermByDefault, FuzzerBoot, FuzzerReadPid,
           FuzzerTimeout,
        FuzzerReadStatus, FuzzerSeesServerGone, FuzzerRun, FuzzerIsKilled
  <2>4. QED
    BY <2>1, <2>2, <2>3
<1>2. OneLive'
  <2>1. CASE Fork
    BY <2>1 DEF Fork, IInv, ChildInv, HasChild, BetweenRuns, NoChild, TypeOK,
       TypeChildren, OneLive, Live, children
  <2>2. CASE ~Fork
    BY <2>2, NoneComesToLife DEF OneLive
  <2>3. QED
    BY <2>1, <2>2
<1>3. LeftBehind'
  <2>1. CASE pc = "exited"
    <3>1. ~Fork
      BY <2>1 DEF Fork
    <3>2. QED
      BY <2>1, <3>1, NoneComesToLife, GoneForGood DEF LeftBehind
  <2>2. CASE pc # "exited" /\ pc' = "exited"
    <3>1. CASE SignalStep
      BY <3>1, GoneForGood
      DEF SignalStep, AtExit, AtExitReaps, TermByDefault, TermInv, LeftBehind
    <3>2. CASE ServerCode
      <4>1. OrphanCauses' /\ exit_at' = pc /\ UNCHANGED fz
        BY <2>2, <3>2, ExitInvServer, ServerFrame
        DEF fuzzer, ExitInv, ServerStep, ServerCode, AflSetup,
           TargetReachesInit, PhoneHome,
            ReadOptions, MapShmFuzz, LoopRead, AfterCommand, WriteOff, Fork,
            StoreChildPid, Cont, WritePid, WaitChild, WriteStatus, Goto, Exit
      <4>2. pc \in {"read", "write_pid", "write_status", "forked"}
            => fz = "gone"
        BY <2>2, <3>2
        DEF ServerStep, ServerCode, AflSetup, TargetReachesInit, PhoneHome,
           ReadOptions,
            MapShmFuzz, LoopRead, AfterCommand, WriteOff, Fork, StoreChildPid,
            Cont, WritePid, WaitChild, WriteStatus, Goto, Exit, CtlClosed
      <4>3. QED
        BY <2>2, <4>1, <4>2 DEF OrphanCauses, LeftBehind
    <3>3. QED
      BY <2>2, <3>1, <3>2, ChildFrame, FuzzerFrame
      DEF IInv, Next, ServerStep, FuzzerSide, Done, vars, server
  <2>3. QED
    BY <2>1, <2>2 DEF LeftBehind
<1>4. QED
  BY <1>1, <1>2, <1>3

-------------------------------------------------------------------------------
(***************************************************************************)
(* The runs, where the two sides agree on the first word.                  *)
(***************************************************************************)
\* Behind the options exchange what afl-fuzz waits for is in the status pipe,
\* still to be written in this run, or the answer to a command on its way.
LEMMA Counted ==
  ASSUME SafeInv, Served, fz \in Talking, pc \notin {"exited", "options"}
  PROVE  /\ Due = Len(st) + Commanded + Remaining(pc)
         /\ Len(st) \in Nat /\ Len(ctl) \in Nat
<1>1. Len(st) \in Nat /\ Len(ctl) \in Nat
  BY DEF SafeInv, IInv, TypeOK, TypeShared
<1>2. Credit = 0
  BY DEF Credit
<1>3. QED
  BY <1>1, <1>2 DEF SafeInv, PipeInv, WordsInv, Balance, Due

\* While a child runs, the server is between fork() or SIGCONT and the end of
\* waitpid(), afl-fuzz waits for the answer or has left, and no command is on
\* its way.
LEMMA WhileRunning ==
  ASSUME SafeInv, Served, RunInv, NEW p \in Pids, proc[p] = "running"
  PROVE  /\ pc \in Started \cup {"wait", "exited"}
         /\ pc # "exited" => ~Pending
         /\ pc = "exited" => fz = "gone"
         /\ fz \in Answering \cup {"gone"}
         /\ fz \in Answering => \A i \in DOMAIN st : st[i] # "stopped"
<1> USE DEF SafeInv
<1>1. pc = "exited" => fz = "gone"
  BY DEF LeftBehind, Live
<1>2. pc # "exited" => pc \in Started \cup {"wait"} /\ ~Pending
  BY DEF RunInv, CommandInv, NoneRunning, Remaining, Started, Starting
<1>3. SUFFICES ASSUME pc # "exited", fz # "gone"
               PROVE  fz \in Answering /\ \A i \in DOMAIN st : st[i] # "stopped"
  BY <1>1, <1>2 DEF Answering
<1>4. fz \in Talking
  BY <1>2, <1>3
  DEF PipeInv, WordsInv, BootInv, Silent, Started, Talking, IInv, TypeOK,
      TypeFuzzer
<1>5. Due = Len(st) + Commanded + Remaining(pc)
  BY <1>2, <1>3, <1>4, Counted DEF Started
<1>6. Len(st) \in Nat /\ Len(ctl) \in Nat
  BY DEF IInv, TypeOK, TypeShared
<1>7. /\ Remaining(pc) \in {1, 2}
      /\ Commanded \in Nat
  BY <1>2, <1>3, <1>6 DEF Started, Remaining, Commanded
<1>8. fz \in Answering
  BY <1>4, <1>5, <1>6, <1>7 DEF Talking, Due
<1>9. ASSUME NEW i \in DOMAIN st
      PROVE  st[i] # "stopped"
  <2>1. i = 1 /\ fz = "await_pid"
    <3>1. DOMAIN st = 1..Len(st)
      BY DEF IInv, TypeOK, TypeShared
    <3>2. QED
      BY <1>5, <1>6, <1>7, <1>8, <1>9, <3>1 DEF Due, Answering
  <2>2. Alternate
    BY <1>3, <1>4 DEF PipeInv, WordsInv, StInv
  <2>3. st[i] \in Pids
    BY <2>1, <2>2 DEF Alternate
  <2>4. QED
    BY <2>3, PidsAssumption
<1>10. QED
  BY <1>8, <1>9

\* A step of a child.
LEMMA RunChild ==
  ASSUME SafeInv, Served, RunInv, NEW p \in Pids, Child(p)
  PROVE  RunInv'
<1> USE DEF SafeInv
<1>1. UNCHANGED <<mode, term, server, fuzzer, ctl, st>>
  BY ChildFrame DEF IInv
<1>2. /\ proc[p] \in Live
      /\ \A q \in Pids \ {p} : proc'[q] = proc[q] /\ proc[q] \notin Live
  <2>1. proc[p] \in Live /\ \A q \in Pids \ {p} : proc'[q] = proc[q]
    BY DEF Child, ChildReturns, ChildStartup, LoopFirstPass, LoopNextPass,
       RaiseSigstop, LoopResumes, ChildBody, ChildEpilogue, ChildDies, Live,
       IInv, TypeOK, TypeChildren
  <2>2. QED
    BY <2>1 DEF OneLive
<1>3. CASE proc[p] # "running"
  <2>1. /\ proc' = [proc EXCEPT ![p] = "signaled"]
        /\ UNCHANGED <<cpc, first_pass, child_area, map, ran>>
    BY <1>3 DEF Child, ChildReturns, ChildStartup, LoopFirstPass, LoopNextPass,
       LoopResumes, ChildBody, ChildEpilogue, ChildDies, trace, loopvars
  <2>2. (MapInv /\ StopInv)'
    BY <1>1, <2>1 DEF RunInv, MapInv, StopInv, Complete, server, fuzzer
  <2>3. (\A q \in Pids : ChildRun(q))'
    BY <1>1, <2>1
    DEF RunInv, ChildRun, Complete, server, fuzzer, IInv, TypeOK, TypeChildren
  <2>4. pc' # "exited" => (OneCommand /\ PidInv /\ AreaInv)'
    BY <1>1 DEF RunInv, OneCommand, PidInv, AreaInv, server, fuzzer
  <2>5. pc' # "exited" => CommandInv'
    BY <1>1, <2>1
    DEF RunInv, CommandInv, Pending, Fresh, NoneRunning, Remaining, server,
        fuzzer, IInv, TypeOK, TypeChildren
  <2>6. pc' # "exited" => DeadInv'
    BY <1>1, <2>1
    DEF RunInv, DeadInv, Killed, Remaining, server, fuzzer, Zombie, IInv,
        TypeOK, TypeChildren
  <2>7. QED
    BY <2>2, <2>3, <2>4, <2>5, <2>6 DEF RunInv
<1>4. CASE proc[p] = "running"
  <2>1. /\ pc \in Started \cup {"wait", "exited"}
        /\ pc # "exited" => ~Pending
        /\ pc = "exited" => fz = "gone"
        /\ fz \in Answering \cup {"gone"}
        /\ fz \in Answering => \A i \in DOMAIN st : st[i] # "stopped"
    BY <1>4, WhileRunning
  <2>2. ChildRun(p) /\ MapInv
    BY DEF RunInv
  <2>3. MapInv' /\ ChildRun(p)'
    <3> USE DEF ChildRun, MapInv, Complete, ChildGoto, server, fuzzer,
                TypeOK, TypeChildren, TypeFlags
    <3>1. CASE ChildReturns(p)
      BY <1>1, <1>4, <2>2, <3>1 DEF ChildReturns, loopvars, trace, IInv
    <3>2. CASE ChildStartup(p)
      <4>1. /\ ran = 0 /\ map = {} /\ testcase > 0 /\ child_area[p] = "shm"
            /\ first_pass[p]
        BY <1>4, <2>2, <3>2 DEF ChildStartup, IInv, CycleInv
      <4>2. /\ map' = {Startup} /\ UNCHANGED <<ran, testcase, mode, proc>>
            /\ cpc'[p] = IF mode.loop THEN "loop" ELSE "body"
            /\ UNCHANGED <<first_pass, child_area>>
        BY <1>1, <3>2, <4>1 DEF ChildStartup, loopvars, Hits, IInv
      <4>3. QED
        BY <1>4, <2>2, <4>1, <4>2 DEF Startup, Epilogue
    <3>3. CASE LoopFirstPass(p)
      BY <1>1, <1>4, <2>2, <3>3 DEF LoopFirstPass, ClearedMap, IInv
    <3>4. CASE LoopNextPass(p)
      BY <1>1, <1>4, <2>2, <3>4 DEF LoopNextPass, RaiseSigstop, trace, IInv
    <3>5. CASE LoopResumes(p)
      BY <1>1, <1>4, <2>2, <3>5 DEF LoopResumes, loopvars, trace, IInv
    <3>6. CASE ChildBody(p)
      <4>1. /\ ran = 0 /\ testcase > 0 /\ child_area[p] = "shm"
            /\ mode.loop => map = {} /\ ~first_pass[p]
        BY <1>4, <2>2, <3>6 DEF ChildBody, PipeInv, LoopInv
      <4>2. /\ UNCHANGED <<testcase, mode, first_pass, child_area>>
            /\ ran' = 1
        BY <1>1, <3>6, <4>1 DEF ChildBody, loopvars
      <4>3. CASE proc' = [proc EXCEPT ![p] = "signaled"] /\ UNCHANGED map
        BY <2>2, <4>1, <4>2, <4>3 DEF IInv
      <4>4. CASE /\ UNCHANGED proc /\ map' = Hits(p, testcase)
                 /\ ChildGoto(p, IF mode.loop THEN "loop" ELSE "epilogue")
        <5>1. map' = map \cup {testcase}
          BY <4>1, <4>4 DEF Hits
        <5>2. MapInv'
          BY <2>2, <4>1, <4>2, <5>1 DEF Epilogue
        <5>3. ChildRun(p)'
          BY <1>4, <4>1, <4>2, <4>4, <5>1 DEF IInv
        <5>4. QED
          BY <5>2, <5>3
      <4>5. QED
        BY <3>6, <4>3, <4>4 DEF ChildBody
    <3>7. CASE ChildEpilogue(p)
      BY <1>1, <1>4, <2>2, <3>7 DEF ChildEpilogue, loopvars, Hits, IInv
    <3>8. CASE ChildDies(p)
      BY <1>1, <1>4, <2>2, <3>8 DEF ChildDies, loopvars, trace, IInv
    <3>9. QED
      BY <3>1, <3>2, <3>3, <3>4, <3>5, <3>6, <3>7, <3>8 DEF Child
  <2>4. \A q \in Pids \ {p} : ChildRun(q)'
    BY <1>2 DEF ChildRun, Live
  <2>5. StopInv'
    BY <1>1, <2>1 DEF StopInv, Started, Answering, server, fuzzer
  <2>6. pc' # "exited" => (OneCommand /\ PidInv /\ AreaInv)'
    BY <1>1 DEF RunInv, OneCommand, PidInv, AreaInv, server, fuzzer
  <2>7. pc' # "exited" => CommandInv'
    BY <1>1, <2>1
    DEF RunInv, CommandInv, Pending, Remaining, Started, Starting, server,
        fuzzer
  <2>8. pc' # "exited" => DeadInv'
    <3>1. Killed => Killed'
      BY <1>1, <1>2, <1>4 DEF Killed, Zombie, server
    <3>2. QED
      BY <1>1, <3>1 DEF RunInv, DeadInv, Remaining, server, fuzzer
  <2>9. QED
    BY <2>3, <2>4, <2>5, <2>6, <2>7, <2>8 DEF RunInv
<1>5. QED
  BY <1>3, <1>4

\* The server ends, and may take its child with it.
LEMMA RunEnd ==
  ASSUME SafeInv, Served, RunInv, pc' = "exited",
         UNCHANGED <<mode, fuzzer, map, ran, cpc, first_pass, child_area>>,
         \A q \in Pids : proc'[q] \in {proc[q], "free"},
         st' = st \/ \E w \in Errors : st' = Append(st, w)
  PROVE  RunInv'
<1>1. MapInv'
  BY DEF RunInv, MapInv, fuzzer
<1>2. (\A q \in Pids : ChildRun(q))'
  BY DEF RunInv, ChildRun, Complete, Started, fuzzer
<1>3. \A i \in DOMAIN st' : st'[i] = "stopped" => \E j \in DOMAIN st : st[j] = "stopped"
  <2>1. CASE st' = st
    BY <2>1
  <2>2. ASSUME NEW w \in Errors, st' = Append(st, w)
        PROVE  \A i \in DOMAIN st' : st'[i] = "stopped" =>
                 \E j \in DOMAIN st : st[j] = "stopped"
    <3>1. st \in Seq(Word) /\ w \in Word /\ w # "stopped"
      BY DEF SafeInv, IInv, TypeOK, TypeShared, Word, Errors
    <3>2. /\ Len(st) \in Nat /\ DOMAIN st = 1..Len(st)
          /\ DOMAIN st' = 1..(Len(st) + 1)
          /\ \A i \in DOMAIN st : st'[i] = st[i]
          /\ st'[Len(st) + 1] = w
      BY <2>2, <3>1, Appended
    <3>3. QED
      BY <3>1, <3>2
  <2>3. QED
    BY <2>1, <2>2
<1>4. StopInv'
  BY <1>3 DEF RunInv, StopInv, Complete, fuzzer
<1>5. QED
  BY <1>1, <1>2, <1>4 DEF RunInv

\* The server does not serve yet: no child and no command.
LEMMA RunBoot ==
  ASSUME SafeInv, Served, RunInv,
         AflSetup \/ TargetReachesInit \/ PhoneHome \/ MapShmFuzz
  PROVE  RunInv'
<1> USE DEF SafeInv, PipeInv, WordsInv
<1>1. UNCHANGED <<mode, fuzzer, map, ran, children, ctl, child_pid,
                  child_stopped>>
  BY ServerFrame
  DEF ServerStep, ServerCode, AflSetup, TargetReachesInit, PhoneHome,
     MapShmFuzz, pipes,
      flags, ids
<1>2. CASE pc' = "exited"
  BY <1>1, <1>2, RunEnd
  DEF AflSetup, TargetReachesInit, PhoneHome, MapShmFuzz, Goto, Errors, pipes,
      children
<1>3. CASE pc' # "exited"
  <2>1. pc \in Silent \cup {"map_fuzz"} /\ NoChild /\ ~child_stopped
    BY DEF AflSetup, TargetReachesInit, PhoneHome, MapShmFuzz, Silent, IInv,
       ChildInv, HasChild, BetweenRuns
  <2>2. pc' \in {"target", "phone", "standalone", "options", "read"}
    BY <1>3 DEF AflSetup, TargetReachesInit, PhoneHome, MapShmFuzz, Goto, Exit
  <2>3. ~already_read_first /\ ~already_read_first'
    <3>1. ~already_read_first
      BY <2>1 DEF CtlInv, Silent
    <3>2. CASE MapShmFuzz
      <4>1. mode.sharedmem /\ mode.fuzzer = "options"
        BY <3>2 DEF MapShmFuzz, BootInv
      <4>2. ~mode.persistent
        BY <4>1 DEF Served
      <4>3. QED
        BY <3>1, <3>2, <4>2 DEF MapShmFuzz, AlreadyReadFirst
    <3>3. QED
      BY <3>1, <3>2 DEF AflSetup, TargetReachesInit, PhoneHome, flags
  <2>4. fz \in Answering => \A i \in DOMAIN st' : st'[i] # "stopped"
    <3>1. CASE pc \in Silent
      BY <3>1 DEF BootInv, Answering
    <3>2. CASE pc = "map_fuzz"
      BY <1>3, <3>2 DEF AflSetup, TargetReachesInit, PhoneHome, MapShmFuzz,
         Exit, BootInv, Talking
    <3>3. QED
      BY <2>1, <3>1, <3>2
  <2>5. (MapInv /\ StopInv)'
    BY <1>1, <2>2, <2>4 DEF RunInv, MapInv, StopInv, Complete, fuzzer
  <2>6. (\A p \in Pids : ChildRun(p))'
    BY <1>1, <2>1 DEF ChildRun, NoChild, children
  <2>7. OneCommand'
    BY <1>1, <2>1, <2>3, <1>3 DEF RunInv, OneCommand, Silent
  <2>8. CommandInv'
    BY <1>1, <2>1, <2>2, <2>3, <1>3
    DEF RunInv, CommandInv, Pending, Fresh, NoneRunning, NoChild, Remaining,
        Starting, Started, Silent, fuzzer, children
  <2>9. PidInv'
    <3>1. CASE pc \in Silent
      BY <1>1, <3>1 DEF BootInv, PidInv, fuzzer
    <3>2. CASE pc = "map_fuzz"
      BY <1>1, <1>3, <3>2 DEF AflSetup, TargetReachesInit, PhoneHome,
         MapShmFuzz, Exit, RunInv, PidInv, fuzzer
    <3>3. QED
      BY <2>1, <3>1, <3>2
  <2>10. DeadInv'
    BY <1>1, <2>1, <2>2 DEF DeadInv, Remaining
  <2>11. AreaInv'
    <3>1. CASE AflSetup
      BY <1>1, <1>3, <3>1 DEF AflSetup, Exit, AreaInv
    <3>2. CASE ~AflSetup
      BY <1>1, <2>1, <3>2
      DEF TargetReachesInit, PhoneHome, MapShmFuzz, RunInv, AreaInv, setup,
          Silent
    <3>3. QED
      BY <3>1, <3>2
  <2>12. QED
    BY <2>5, <2>6, <2>7, <2>8, <2>9, <2>10, <2>11 DEF RunInv
<1>4. QED
  BY <1>2, <1>3

\* A word is read before the main loop.
LEMMA RunOptions ==
  ASSUME SafeInv, Served, RunInv, ReadOptions
  PROVE  RunInv'
<1> USE DEF SafeInv, PipeInv, WordsInv
<1>1. UNCHANGED <<mode, fuzzer, map, ran, children, st, child_pid, area_ptr,
                  child_stopped>>
  BY ServerFrame DEF ServerStep, ServerCode, ReadOptions, ids, setup
<1>2. CASE pc' = "exited"
  BY <1>1, <1>2, RunEnd DEF children
<1>3. CASE pc' # "exited"
  <2>1. /\ ctl # <<>> /\ ctl' = Tail(ctl) /\ ctl \in Seq(CtlWords)
        /\ pc = "options" /\ pc' \in {"map_fuzz", "read"}
        /\ already_read_first' => Head(ctl) # "options"
    BY <1>3 DEF ReadOptions, Exit, Goto, CtlInv, IInv, TypeOK, TypeShared
  <2>2. /\ Len(ctl) \in Nat /\ Len(ctl) > 0 /\ DOMAIN ctl = 1..Len(ctl)
        /\ Head(ctl) = ctl[1]
        /\ Len(ctl') = Len(ctl) - 1 /\ DOMAIN ctl' = 1..(Len(ctl) - 1)
        /\ \A i \in DOMAIN ctl' : ctl'[i] = ctl[i + 1]
    BY <2>1, Taken
  <2>3. NoChild /\ ~child_stopped
    BY <2>1 DEF IInv, ChildInv, HasChild, BetweenRuns
  <2>4. OneCommand /\ CommandInv /\ PidInv /\ DeadInv /\ AreaInv
    BY <2>1 DEF RunInv
  <2>5. ctl' \in Seq(CtlWords) /\ (ctl' = <<>> <=> Len(ctl') = 0)
    BY <2>1, HeadTailProperties, EmptySeq
  <2>6. OneCommand'
    BY <2>1, <2>2, <2>4, <2>5 DEF OneCommand
  <2>7. Pending' => Pending
    <3>1. CASE already_read_first'
      BY <2>1, <2>2, <3>1 DEF Pending
    <3>2. ASSUME NEW i \in DOMAIN ctl', ctl'[i] # "options"
          PROVE  Pending
      BY <2>2, <3>2 DEF Pending
    <3>3. QED
      BY <3>1, <3>2 DEF Pending
  <2>8. CommandInv'
    BY <1>1, <2>1, <2>3, <2>4, <2>7
    DEF CommandInv, Fresh, NoneRunning, NoChild, Remaining, Starting, Started,
        fuzzer, children
  <2>9. (MapInv /\ StopInv)'
    BY <1>1, <2>1 DEF RunInv, MapInv, StopInv, Complete, fuzzer
  <2>10. (\A p \in Pids : ChildRun(p))'
    BY <1>1, <2>3 DEF ChildRun, NoChild, children
  <2>11. (PidInv /\ DeadInv /\ AreaInv)'
    BY <1>1, <2>1, <2>3, <2>4
    DEF PidInv, DeadInv, Remaining, AreaInv, fuzzer
  <2>12. QED
    BY <2>6, <2>8, <2>9, <2>10, <2>11 DEF RunInv
<1>4. QED
  BY <1>2, <1>3

\* A run command reaches the server, the only one there is.
LEMMA RunCommand ==
  ASSUME SafeInv, Served, RunInv, LoopRead
  PROVE  RunInv'
<1> USE DEF SafeInv, PipeInv, WordsInv
<1>1. UNCHANGED <<mode, fuzzer, map, ran, children, st, child_pid, area_ptr>>
  BY ServerFrame DEF ServerStep, ServerCode, LoopRead, ids, setup
<1>2. CASE pc' = "exited"
  BY <1>1, <1>2, RunEnd DEF children
<1>3. CASE pc' # "exited"
  <2>1. pc = "read" /\ pc' \in Starting /\ ~already_read_first'
    BY <1>3 DEF LoopRead, AfterCommand, Exit, Goto, Starting
  <2>2. OneCommand /\ CommandInv /\ PidInv /\ DeadInv /\ AreaInv
    BY <2>1 DEF RunInv
  <2>3. \A i \in DOMAIN ctl : ctl[i] # "options"
    BY <2>1 DEF CtlInv
  <2>4. Pending /\ ctl' = <<>> /\ (pc' = "writeoff" => Killed)
    <3>1. CASE already_read_first
      BY <2>2, <3>1 DEF LoopRead, AfterCommand, Goto, Pending, OneCommand,
         CtlInv
    <3>2. CASE ~already_read_first
      <4>1. ctl # <<>> /\ ctl' = Tail(ctl) /\ ctl \in Seq(CtlWords)
        BY <1>3, <3>2 DEF LoopRead, Exit, IInv, TypeOK, TypeShared
      <4>2. /\ Len(ctl) \in Nat /\ Len(ctl) > 0 /\ DOMAIN ctl = 1..Len(ctl)
            /\ Head(ctl) = ctl[1] /\ Head(ctl) \in CtlWords
            /\ Len(ctl') = Len(ctl) - 1
        BY <4>1, Taken
      <4>3. Len(ctl) = 1 /\ Pending
        BY <2>2, <2>3, <4>2 DEF OneCommand, Pending
      <4>4. ctl' \in Seq(CtlWords) /\ ctl' = <<>>
        BY <4>1, <4>2, <4>3
      <4>5. pc' = "writeoff" => child_stopped /\ Head(ctl) = "run_killed"
        BY <3>2, <2>3, <4>2 DEF LoopRead, AfterCommand, Goto, Exit, CtlWords
      <4>6. QED
        BY <2>2, <4>1, <4>3, <4>4, <4>5 DEF DeadInv
    <3>3. QED
      BY <3>1, <3>2
  <2>5. Fresh /\ NoneRunning
    BY <2>2, <2>4 DEF CommandInv
  <2>6. OneCommand'
    BY <2>1, <2>4 DEF OneCommand
  <2>7. CommandInv'
    BY <1>1, <2>1, <2>4, <2>5
    DEF CommandInv, Pending, Fresh, NoneRunning, Starting, Started, Remaining,
        fuzzer, children
  <2>8. (MapInv /\ StopInv)'
    BY <1>1, <2>1 DEF RunInv, MapInv, StopInv, Complete, Starting, fuzzer
  <2>9. (\A p \in Pids : ChildRun(p))'
    BY <1>1, <2>1
    DEF RunInv, ChildRun, Complete, Starting, Started, fuzzer, children
  <2>10. DeadInv'
    BY <1>1, <2>4, <2>5 DEF DeadInv, Killed, Fresh, fuzzer, children
  <2>11. (PidInv /\ AreaInv)'
    BY <1>1, <2>1, <2>2 DEF PidInv, AreaInv, fuzzer
  <2>12. QED
    BY <2>6, <2>7, <2>8, <2>9, <2>10, <2>11 DEF RunInv
<1>4. QED
  BY <1>2, <1>3

\* The child that was stopped and killed is reaped, and nothing else happens.
LEMMA RunWriteOff ==
  ASSUME SafeInv, Served, RunInv, WriteOff
  PROVE  RunInv'
<1> USE DEF SafeInv
<1>1. UNCHANGED <<mode, fuzzer, map, ran, cpc, first_pass, child_area, ctl, st,
                  child_pid, area_ptr, child_stopped, already_read_first>>
  BY ServerFrame DEF ServerStep, ServerCode, WriteOff, loopvars, pipes, flags,
     setup
<1>2. /\ pc = "writeoff" /\ pc' = "fork" /\ ~child_stopped
      /\ \A q \in Pids : proc'[q] \in {proc[q], "free"}
  BY DEF WriteOff, ECHILD, Goto, ExitInv, HandlerInv, ServerSignals, InServer,
     IInv, TypeOK, TypeChildren, ChildInv, HasChild,
     ChildUnreaped
<1>3. OneCommand /\ CommandInv /\ PidInv /\ DeadInv /\ AreaInv
  BY <1>2 DEF RunInv
<1>4. ~Pending /\ Fresh /\ NoneRunning
  BY <1>2, <1>3 DEF CommandInv, Remaining, Starting
<1>5. (MapInv /\ StopInv)'
  BY <1>1, <1>2 DEF RunInv, MapInv, StopInv, Complete, fuzzer
<1>6. (\A p \in Pids : ChildRun(p))'
  BY <1>1, <1>2, <1>4 DEF RunInv, ChildRun, NoneRunning, Started
<1>7. CommandInv'
  BY <1>1, <1>2, <1>4
  DEF CommandInv, Pending, Fresh, NoneRunning, Starting, Started, Remaining,
      fuzzer
<1>8. (OneCommand /\ PidInv /\ DeadInv /\ AreaInv)'
  BY <1>1, <1>2, <1>3, <1>4
  DEF OneCommand, PidInv, DeadInv, Fresh, AreaInv, fuzzer
<1>9. QED
  BY <1>5, <1>6, <1>7, <1>8 DEF RunInv

\* A child is born for a run that has not been done yet, and traced.
LEMMA RunFork ==
  ASSUME SafeInv, Served, RunInv, Fork
  PROVE  RunInv'
<1> USE DEF SafeInv
<1>1. UNCHANGED <<mode, fuzzer, map, ran, ctl, st, child_pid, area_ptr,
                  child_stopped, already_read_first>>
  BY ServerFrame DEF ServerStep, ServerCode, Fork, pipes, flags, setup
<1>2. CASE pc' = "exited"
  BY <1>1, <1>2, RunEnd DEF Fork, Goto, children
<1>3. CASE pc' # "exited"
  <2>1. pc = "fork" /\ pc' = "forked" /\ ~child_stopped /\ NoChild
    BY <1>3 DEF Fork, Goto, Exit, IInv, ChildInv, HasChild, BetweenRuns
  <2>2. OneCommand /\ CommandInv /\ PidInv /\ DeadInv /\ AreaInv
    BY <2>1 DEF RunInv
  <2>3. ~Pending /\ Fresh /\ NoneRunning
    BY <2>1, <2>2 DEF CommandInv, Remaining, Starting
  <2>4. area_ptr = "shm"
    BY <2>1, <2>2 DEF AreaInv, ExitInv, AloneInv
  <2>5. PICK p \in Pids :
          /\ proc' = [proc EXCEPT ![p] = "running"]
          /\ cpc' = [cpc EXCEPT ![p] = "born"]
          /\ first_pass' = [first_pass EXCEPT ![p] = TRUE]
          /\ child_area' = [child_area EXCEPT ![p] = area_ptr]
    BY <1>3 DEF Fork, Exit
  <2>6. (MapInv /\ StopInv)'
    BY <1>1, <2>1 DEF RunInv, MapInv, StopInv, Complete, fuzzer
  <2>7. (\A q \in Pids : ChildRun(q))'
    <3>1. proc'[p] = "running" /\ cpc'[p] = "born" /\ child_area'[p] = "shm"
      BY <2>4, <2>5 DEF IInv, TypeOK, TypeChildren
    <3>2. \A q \in Pids \ {p} : proc'[q] = "free"
      BY <2>1, <2>5 DEF NoChild, IInv, TypeOK, TypeChildren
    <3>3. ran' = 0 /\ map' = {} /\ testcase' > 0
      BY <1>1, <2>3 DEF Fresh, fuzzer
    <3>4. QED
      BY <3>1, <3>2, <3>3 DEF ChildRun
  <2>8. CommandInv'
    BY <1>1, <2>1, <2>3
    DEF CommandInv, Pending, Fresh, Starting, Started, Remaining, fuzzer
  <2>9. (OneCommand /\ PidInv /\ DeadInv /\ AreaInv)'
    BY <1>1, <2>1, <2>2, <2>3
    DEF OneCommand, PidInv, DeadInv, Fresh, AreaInv, fuzzer
  <2>10. QED
    BY <2>6, <2>7, <2>8, <2>9 DEF RunInv
<1>4. QED
  BY <1>2, <1>3

\* The pid is stored before any word of it reaches afl-fuzz.
LEMMA RunStore ==
  ASSUME SafeInv, Served, RunInv, StoreChildPid
  PROVE  RunInv'
<1> USE DEF SafeInv
<1>1. UNCHANGED <<mode, fuzzer, map, ran, children, ctl, st, area_ptr,
                  child_stopped, already_read_first>>
  BY ServerFrame DEF ServerStep, ServerCode, StoreChildPid, pipes, flags, setup
<1>2. pc = "forked" /\ pc' = "write_pid" /\ ~child_stopped
  BY DEF StoreChildPid, Goto, IInv, ChildInv
<1>3. OneCommand /\ CommandInv /\ PidInv /\ DeadInv /\ AreaInv
  BY <1>2 DEF RunInv
<1>4. ~Pending /\ ~timed_out /\ testcase > 0
  BY <1>2, <1>3 DEF CommandInv, Remaining, Started
<1>5. (MapInv /\ StopInv)'
  BY <1>1, <1>2 DEF RunInv, MapInv, StopInv, Complete, fuzzer
<1>6. (\A p \in Pids : ChildRun(p))'
  BY <1>1, <1>2 DEF RunInv, ChildRun, Complete, Started, children, fuzzer
<1>7. CommandInv'
  BY <1>1, <1>2, <1>4
  DEF CommandInv, Pending, Starting, Started, Remaining, fuzzer
<1>8. PidInv'
  <2>1. fz \in Answering => fz = "await_pid" /\ st = <<>>
    <3> SUFFICES ASSUME fz \in Answering
                 PROVE  fz = "await_pid" /\ st = <<>>
      OBVIOUS
    <3>1. /\ Due = Len(st) + Commanded + 2
          /\ Len(st) \in Nat /\ Len(ctl) \in Nat
      BY <1>2, Counted DEF Talking, Remaining
    <3>2. Commanded \in Nat
      BY <3>1 DEF Commanded
    <3>3. fz = "await_pid" /\ Len(st) = 0
      BY <3>1, <3>2 DEF Due, Answering
    <3>4. QED
      BY <3>3, EmptySeq DEF IInv, TypeOK, TypeShared
  <2>2. QED
    BY <1>1, <2>1 DEF PidInv, Answering, fuzzer
<1>9. (OneCommand /\ DeadInv /\ AreaInv)'
  BY <1>1, <1>2, <1>3, <1>4 DEF OneCommand, DeadInv, AreaInv, fuzzer
<1>10. QED
  BY <1>5, <1>6, <1>7, <1>8, <1>9 DEF RunInv

\* The stopped child is woken up for a run that has not been done yet.
LEMMA RunCont ==
  ASSUME SafeInv, Served, RunInv, Cont
  PROVE  RunInv'
<1> USE DEF SafeInv
<1>1. UNCHANGED <<mode, fuzzer, map, ran, cpc, first_pass, child_area, ctl, st,
                  child_pid, area_ptr, already_read_first>>
  BY ServerFrame DEF ServerStep, ServerCode, Cont, loopvars, ids, pipes, setup
<1>2. pc = "cont" /\ pc' = "write_pid" /\ ~child_stopped'
  BY DEF Cont, Goto
<1>3. OneCommand /\ CommandInv /\ PidInv /\ DeadInv /\ AreaInv
  BY <1>2 DEF RunInv
<1>4. ~Pending /\ Fresh /\ NoneRunning
  BY <1>2, <1>3 DEF CommandInv, Remaining, Starting
<1>5. (MapInv /\ StopInv)'
  BY <1>1, <1>2 DEF RunInv, MapInv, StopInv, Complete, fuzzer
<1>6. (\A p \in Pids : ChildRun(p))'
  <2> SUFFICES ASSUME NEW p \in Pids
               PROVE  ChildRun(p)'
    OBVIOUS
  <2>1. /\ proc'[p] # "stopped"
        /\ proc'[p] = "running" => proc[p] = "stopped"
    BY <1>2, <1>4 DEF Cont, IInv, ChildInv, HasChild, NoneBut, NoneRunning
  <2>2. proc[p] = "stopped" => cpc[p] = "resumed" /\ child_area[p] = "shm"
    BY DEF PipeInv, LoopInv, RunInv, ChildRun
  <2>3. QED
    BY <1>1, <1>4, <2>1, <2>2 DEF ChildRun, Fresh, fuzzer
<1>7. CommandInv'
  BY <1>1, <1>2, <1>4
  DEF CommandInv, Pending, Fresh, Starting, Started, Remaining, fuzzer
<1>8. (OneCommand /\ PidInv /\ DeadInv /\ AreaInv)'
  BY <1>1, <1>2, <1>3, <1>4
  DEF OneCommand, PidInv, DeadInv, Fresh, AreaInv, fuzzer
<1>9. QED
  BY <1>5, <1>6, <1>7, <1>8 DEF RunInv

\* afl-fuzz is told of the child that runs.
LEMMA RunWritePid ==
  ASSUME SafeInv, Served, RunInv, WritePid
  PROVE  RunInv'
<1> USE DEF SafeInv
<1>1. UNCHANGED <<mode, fuzzer, map, ran, children, ctl, child_pid, area_ptr,
                  child_stopped, already_read_first>>
  BY ServerFrame DEF ServerStep, ServerCode, WritePid, ids, flags, setup
<1>2. CASE pc' = "exited"
  BY <1>1, <1>2, RunEnd DEF WritePid, Goto, children
<1>3. CASE pc' # "exited"
  <2>1. /\ pc = "write_pid" /\ pc' = "wait" /\ ~child_stopped
        /\ fz # "gone" /\ st' = Append(st, child_pid) /\ child_pid \in Pids
    BY <1>3 DEF WritePid, Goto, Exit, IInv, ChildInv, HasChild, ChildUnreaped
  <2>2. OneCommand /\ CommandInv /\ PidInv /\ DeadInv /\ AreaInv
    BY <2>1 DEF RunInv
  <2>3. ~Pending /\ ~timed_out /\ testcase > 0
    BY <2>1, <2>2 DEF CommandInv, Remaining, Started
  <2>4. st \in Seq(Word) /\ child_pid \in Word
    BY <2>1 DEF IInv, TypeOK, TypeShared, Word
  <2>5. /\ Len(st) \in Nat /\ DOMAIN st = 1..Len(st)
        /\ st = <<>> <=> Len(st) = 0
        /\ DOMAIN st' = 1..(Len(st) + 1)
        /\ \A i \in DOMAIN st : st'[i] = st[i]
        /\ st'[Len(st) + 1] = child_pid
        /\ Head(st') = IF st = <<>> THEN child_pid ELSE Head(st)
    BY <2>1, <2>4, Appended
  <2>6. (MapInv /\ StopInv)'
    <3>1. child_pid # "stopped"
      BY <2>1, PidsAssumption
    <3>2. \A i \in DOMAIN st' : st'[i] = "stopped" =>
            \E j \in DOMAIN st : st[j] = "stopped"
      BY <2>5, <3>1
    <3>3. QED
      BY <1>1, <2>1, <3>2 DEF RunInv, MapInv, StopInv, Complete, fuzzer
  <2>7. (\A p \in Pids : ChildRun(p))'
    BY <1>1, <2>1 DEF RunInv, ChildRun, Complete, Started, children, fuzzer
  <2>8. CommandInv'
    BY <1>1, <2>1, <2>3
    DEF CommandInv, Pending, Starting, Started, Remaining, fuzzer
  <2>9. PidInv'
    BY <1>1, <2>2, <2>5 DEF PidInv, fuzzer
  <2>10. (OneCommand /\ DeadInv /\ AreaInv)'
    BY <1>1, <2>1, <2>2, <2>3 DEF OneCommand, DeadInv, AreaInv, fuzzer
  <2>11. QED
    BY <2>6, <2>7, <2>8, <2>9, <2>10 DEF RunInv
<1>4. QED
  BY <1>2, <1>3

\* A child is reaped, or found to be stopped behind a complete run.
LEMMA RunWait ==
  ASSUME SafeInv, Served, RunInv, WaitChild
  PROVE  RunInv'
<1> USE DEF SafeInv
<1>1. UNCHANGED <<mode, fuzzer, map, ran, cpc, first_pass, child_area, ctl, st,
                  child_pid, area_ptr, already_read_first>>
  BY ServerFrame DEF ServerStep, ServerCode, WaitChild, loopvars, pipes, setup
<1>w. ~ECHILD
  <2>1. pc = "wait"
    BY DEF WaitChild
  <2>2. child_pid \in Pids /\ proc[child_pid] # "free"
    BY <2>1 DEF IInv, ChildInv, HasChild, ChildUnreaped
  <2>3. signals.chld = "default"
    BY <2>1 DEF ExitInv, HandlerInv, ServerSignals, InServer
  <2>4. QED
    BY <2>2, <2>3 DEF ECHILD
<1>2. /\ pc = "wait" /\ pc' = "write_status" /\ ~child_stopped
      /\ child_pid \in Pids /\ status' = proc[child_pid]
      /\ child_stopped' <=> proc[child_pid] = "stopped"
  BY <1>w DEF WaitChild, WIFSTOPPED, Goto, IInv, ChildInv, HasChild,
     ChildUnreaped
<1>3. /\ proc[child_pid] \in Zombie \cup {"stopped"}
      /\ \A q \in Pids : proc'[q] \in {proc[q], "free"}
      /\ \A q \in Pids \ {child_pid} : proc[q] = "free"
  BY <1>w, <1>2 DEF WaitChild, IInv, TypeOK, TypeChildren, ChildInv, HasChild,
     ChildUnreaped, NoneBut
<1>4. OneCommand /\ CommandInv /\ PidInv /\ DeadInv /\ AreaInv
  BY <1>2 DEF RunInv
<1>5. ~Pending /\ testcase > 0
  BY <1>2, <1>4 DEF CommandInv, Remaining
<1>6. proc[child_pid] = "stopped" => Complete /\ ~timed_out
  BY <1>2, <1>4 DEF RunInv, ChildRun, DeadInv, Killed, Zombie
<1>7. (MapInv /\ StopInv)'
  BY <1>1, <1>2, <1>6 DEF RunInv, MapInv, StopInv, Complete, fuzzer
<1>8. (\A p \in Pids : ChildRun(p))'
  BY <1>1, <1>2, <1>3, <1>6
  DEF RunInv, ChildRun, Complete, Started, Zombie, fuzzer
<1>9. CommandInv'
  BY <1>1, <1>2, <1>3, <1>5
  DEF CommandInv, Pending, NoneRunning, Starting, Started, Remaining, Zombie,
      fuzzer
<1>10. DeadInv'
  <2>1. ctl # <<>> => Head(ctl) # "run_killed"
    <3>1. ASSUME ctl # <<>>
          PROVE  1 \in DOMAIN ctl /\ Head(ctl) = ctl[1]
      BY <3>1, Taken DEF IInv, TypeOK, TypeShared
    <3>2. QED
      BY <1>5, <3>1 DEF Pending
  <2>2. QED
    BY <1>1, <1>2, <1>6, <2>1 DEF DeadInv, Remaining, fuzzer
<1>11. (OneCommand /\ PidInv /\ AreaInv)'
  BY <1>1, <1>2, <1>4 DEF OneCommand, PidInv, AreaInv, fuzzer
<1>12. QED
  BY <1>7, <1>8, <1>9, <1>10, <1>11 DEF RunInv

\* afl-fuzz is told how the run ended.
LEMMA RunWriteStatus ==
  ASSUME SafeInv, Served, RunInv, WriteStatus
  PROVE  RunInv'
<1> USE DEF SafeInv
<1>1. UNCHANGED <<mode, fuzzer, map, ran, children, ctl, child_pid, area_ptr,
                  child_stopped, already_read_first, status>>
  BY ServerFrame DEF ServerStep, ServerCode, WriteStatus, ids, flags, setup
<1>2. CASE pc' = "exited"
  BY <1>1, <1>2, RunEnd DEF WriteStatus, Goto, children
<1>3. CASE pc' # "exited"
  <2>1. /\ pc = "write_status" /\ pc' = "read"
        /\ fz # "gone" /\ st' = Append(st, status) /\ status \in Statuses
    BY <1>3 DEF WriteStatus, Goto, Exit, IInv, StatusInv
  <2>2. OneCommand /\ CommandInv /\ PidInv /\ DeadInv /\ AreaInv
    BY <2>1 DEF RunInv
  <2>3. NoneRunning /\ ~Pending
    BY <2>1, <2>2 DEF CommandInv, Remaining
  <2>4. st \in Seq(Word) /\ status \in Word
    BY <2>1 DEF IInv, TypeOK, TypeShared, Word
  <2>5. /\ Len(st) \in Nat /\ DOMAIN st = 1..Len(st)
        /\ st = <<>> <=> Len(st) = 0
        /\ DOMAIN st' = 1..(Len(st) + 1)
        /\ \A i \in DOMAIN st : st'[i] = st[i]
        /\ st'[Len(st) + 1] = status
        /\ Head(st') = IF st = <<>> THEN status ELSE Head(st)
    BY <2>1, <2>4, Appended
  <2>6. (MapInv /\ StopInv)'
    <3>1. status = "stopped" => Complete
      BY <2>1 DEF RunInv, StopInv
    <3>2. \A i \in DOMAIN st' : st'[i] = "stopped" =>
            status = "stopped" \/ \E j \in DOMAIN st : st[j] = "stopped"
      BY <2>5
    <3>3. QED
      BY <1>1, <2>1, <3>1, <3>2 DEF RunInv, MapInv, StopInv, Complete, fuzzer
  <2>7. (\A p \in Pids : ChildRun(p))'
    BY <1>1, <2>1, <2>3
    DEF RunInv, ChildRun, NoneRunning, Started, children
  <2>8. CommandInv'
    BY <1>1, <2>1, <2>3
    DEF CommandInv, Pending, NoneRunning, Starting, Started, Remaining,
        children
  <2>9. PidInv'
    <3>1. fz = "await_pid" => st # <<>>
      <4> SUFFICES ASSUME fz = "await_pid"
                   PROVE  st # <<>>
        OBVIOUS
      <4>1. 2 = Len(st) + Commanded + 1 /\ Len(ctl) \in Nat
        BY <2>1, Counted DEF Talking, Answering, Remaining, Due
      <4>2. Commanded % 2 = 0 /\ Commanded \in Nat
        BY <4>1 DEF Commanded
      <4>3. Len(st) # 0
        BY <2>5, <4>1, <4>2
      <4>4. QED
        BY <2>5, <4>3
    <3>2. QED
      BY <1>1, <2>2, <2>5, <3>1 DEF PidInv, fuzzer
  <2>10. (OneCommand /\ DeadInv /\ AreaInv)'
    BY <1>1, <2>1, <2>2
    DEF OneCommand, DeadInv, Killed, Remaining, AreaInv, fuzzer, children
  <2>11. QED
    BY <2>6, <2>7, <2>8, <2>9, <2>10 DEF RunInv
<1>4. QED
  BY <1>2, <1>3

\* at_exit kills the child, when afl-fuzz is gone already.
LEMMA RunKill ==
  ASSUME SafeInv, Served, RunInv, AtExit
  PROVE  RunInv'
<1> USE DEF SafeInv
<1>1. /\ UNCHANGED <<mode, server, fuzzer, ctl, st, map, ran>>
      /\ UNCHANGED <<cpc, first_pass, child_area>>
      /\ \A q \in Pids :
           (proc'[q] = proc[q] \/ (proc[q] \in Live /\ proc'[q] = "signaled"))
  BY DEF AtExit, KillChild, pipes, trace, loopvars, IInv, TypeOK, TypeChildren
<1>2. fz = "gone"
  BY DEF AtExit, TermInv
<1>3. (MapInv /\ StopInv)'
  BY <1>1 DEF RunInv, MapInv, StopInv, Complete, server, fuzzer
<1>4. (\A q \in Pids : ChildRun(q))'
  BY <1>1 DEF RunInv, ChildRun, Complete, server, fuzzer
<1>5. pc' # "exited" => (OneCommand /\ PidInv /\ AreaInv)'
  BY <1>1 DEF RunInv, OneCommand, PidInv, AreaInv, server, fuzzer
<1>6. pc' # "exited" => CommandInv'
  BY <1>1
  DEF RunInv, CommandInv, Pending, Fresh, NoneRunning, Remaining, Live, server,
      fuzzer
<1>7. pc' # "exited" => DeadInv'
  BY <1>1 DEF RunInv, DeadInv, Killed, Remaining, server, fuzzer, Zombie, Live
<1>8. QED
  BY <1>3, <1>4, <1>5, <1>6, <1>7 DEF RunInv

\* A step of the server or of its handler.
LEMMA RunServer ==
  ASSUME SafeInv, Served, RunInv, ServerCode \/ SignalStep
  PROVE  RunInv'
<1>1. CASE AtExitReaps \/ TermByDefault
  <2>1. UNCHANGED <<mode, fuzzer, map, ran, cpc, first_pass, child_area, st>>
    BY <1>1 DEF AtExitReaps, TermByDefault, trace, pipes, loopvars, children
  <2>2. pc' = "exited" /\ \A q \in Pids : proc'[q] \in {proc[q], "free"}
    BY <1>1 DEF AtExitReaps, TermByDefault, Exit, children, SafeInv, IInv,
       TypeOK, TypeChildren
  <2>3. QED
    BY <2>1, <2>2, RunEnd
<1>2. CASE ServerCode
  BY <1>2, RunBoot, RunOptions, RunCommand, RunWriteOff, RunFork, RunStore,
     RunCont, RunWritePid, RunWait, RunWriteStatus
  DEF ServerCode
<1>3. CASE AtExit
  BY <1>3, RunKill
<1>4. QED
  BY <1>1, <1>2, <1>3 DEF SignalStep

\* afl-fuzz reads, or goes away: no command and no signal is sent.
LEMMA RunListen ==
  ASSUME SafeInv, Served, RunInv, FuzzerSide, ~FuzzerRun, ~FuzzerTimeout
  PROVE  RunInv'
<1> USE DEF SafeInv, PipeInv, WordsInv
<1>1. /\ UNCHANGED <<mode, server, children, map, ran, testcase, timed_out>>
      /\ fz' \in {fz, "gone"} \/ FuzzerBoot \/ FuzzerReadPid \/ FuzzerReadStatus
  BY FuzzerFrame
  DEF IInv, FuzzerSide, FuzzerStep, FuzzerBoot, FuzzerReadPid, FuzzerReadStatus,
      FuzzerSeesServerGone, FuzzerStops, FuzzerIsKilled, UserTerminates,
      GivesUp, fuzzer, trace
<1>2. MapInv' /\ (\A p \in Pids : ChildRun(p))'
  BY <1>1 DEF RunInv, MapInv, ChildRun, Complete, children, server
<1>3. ctl' = ctl \/ (ctl = <<>> /\ ctl' = <<"options">> /\ ~already_read_first)
  <2>1. CASE FuzzerBoot
    <3>1. ctl = <<>> /\ ~already_read_first
      BY <2>1 DEF FuzzerBoot, BootInv
    <3>2. QED
      BY <2>1, <3>1 DEF FuzzerBoot
  <2>2. CASE ~FuzzerBoot
    BY <2>2 DEF FuzzerSide, FuzzerStep, FuzzerReadPid, FuzzerReadStatus,
       FuzzerSeesServerGone, FuzzerStops, FuzzerIsKilled, UserTerminates, pipes
  <2>3. QED
    BY <2>1, <2>2
<1>4. pc' # "exited" => (OneCommand /\ CommandInv /\ DeadInv /\ AreaInv)'
  <2> SUFFICES ASSUME pc # "exited"
               PROVE  (OneCommand /\ CommandInv /\ DeadInv /\ AreaInv)'
    BY <1>1 DEF server
  <2>1. OneCommand /\ CommandInv /\ DeadInv /\ AreaInv
    BY DEF RunInv
  <2>2. CASE ctl' = ctl
    BY <1>1, <2>1, <2>2
    DEF OneCommand, CommandInv, DeadInv, AreaInv, Pending, Fresh, NoneRunning,
        Killed, Remaining, server, children
  <2>3. CASE ctl = <<>> /\ ctl' = <<"options">> /\ ~already_read_first
    <3>1. ~Pending'
      BY <1>1, <2>3 DEF Pending, server
    <3>2. OneCommand' /\ Head(ctl') = "options"
      BY <1>1, <2>3 DEF OneCommand, server
    <3>3. CommandInv'
      BY <1>1, <2>1, <3>1
      DEF CommandInv, Fresh, NoneRunning, Remaining, server, children
    <3>4. (DeadInv /\ AreaInv)'
      BY <1>1, <2>1, <3>2
      DEF DeadInv, Killed, Remaining, AreaInv, server, children
    <3>5. QED
      BY <3>2, <3>3, <3>4
  <2>4. QED
    BY <1>3, <2>2, <2>3
<1>5. CASE FuzzerReadPid \/ FuzzerReadStatus
  <2>1. st # <<>> /\ st' = Tail(st) /\ st \in Seq(Word) /\ fz \in Answering
    BY <1>5 DEF FuzzerReadPid, FuzzerReadStatus, IInv, TypeOK, TypeShared, Word,
       Answering
  <2>2. /\ Len(st) \in Nat /\ Len(st) > 0 /\ DOMAIN st = 1..Len(st)
        /\ Head(st) = st[1] /\ DOMAIN st' = 1..(Len(st) - 1)
        /\ \A i \in DOMAIN st' : st'[i] = st[i + 1]
    BY <2>1, Taken
  <2>3. (\E i \in DOMAIN st' : st'[i] = "stopped")
        => \E i \in DOMAIN st : st[i] = "stopped"
    BY <2>2
  <2>4. answer' = "stopped" /\ fz' = "idle" => Complete
    BY <1>5, <2>1, <2>2
    DEF FuzzerReadPid, FuzzerReadStatus, GivesUp, RunInv, StopInv
  <2>5. fz' # "boot"
    BY <1>5 DEF FuzzerReadPid, FuzzerReadStatus, GivesUp
  <2>6. StopInv'
    BY <1>1, <2>1, <2>3, <2>4, <2>5 DEF RunInv, StopInv, Complete, server
  <2>7. pc' # "exited" => PidInv'
    BY <1>1, <1>5
    DEF FuzzerReadPid, FuzzerReadStatus, GivesUp, RunInv, PidInv, server
  <2>8. QED
    BY <1>2, <1>4, <2>6, <2>7 DEF RunInv
<1>6. CASE FuzzerBoot
  <2>1. fz = "boot" /\ fz' \in {"idle", "gone"} /\ UNCHANGED answer
    BY <1>6 DEF FuzzerBoot, GivesUp
  <2>2. (StopInv /\ PidInv)'
    BY <1>1, <2>1 DEF RunInv, StopInv, PidInv, Complete, Answering, server
  <2>3. QED
    BY <1>2, <1>4, <2>2 DEF RunInv
<1>7. CASE ~FuzzerBoot /\ ~FuzzerReadPid /\ ~FuzzerReadStatus
  <2>1. UNCHANGED <<st, answer, fz_pid>> /\ fz' \in {fz, "gone"}
    BY <1>1, <1>7
    DEF FuzzerSide, FuzzerStep, FuzzerSeesServerGone, FuzzerStops,
        FuzzerIsKilled, UserTerminates, GivesUp, pipes, fuzzer
  <2>2. StopInv' /\ (pc' # "exited" => PidInv')
    BY <1>1, <2>1 DEF RunInv, StopInv, PidInv, Complete, Answering, server
  <2>3. QED
    BY <1>2, <1>4, <2>2 DEF RunInv
<1>8. QED
  BY <1>5, <1>6, <1>7

\* A run command is sent while no child runs and no other command is on its way.
LEMMA RunRequest ==
  ASSUME SafeInv, Served, RunInv, FuzzerRun
  PROVE  RunInv'
<1> USE DEF SafeInv, PipeInv, WordsInv
<1> DEFINE w == IF timed_out THEN "run_killed" ELSE "run"
<1>1. UNCHANGED <<mode, server, children>>
  BY FuzzerFrame DEF IInv, FuzzerSide, FuzzerRun
<1>2. /\ fz = "idle" /\ fz' = "await_pid" /\ UNCHANGED st /\ ~timed_out'
      /\ testcase' = testcase + 1 /\ testcase \in Nat
      /\ map' = {} /\ ran' = 0 /\ answer' = "none"
      /\ ctl' = Append(ctl, w) /\ w \in CtlWords /\ ctl \in Seq(CtlWords)
  BY BoundsAssumption
  DEF FuzzerRun, IInv, TypeOK, TypeFuzzer, TypeShared, CtlWords
<1>3. /\ Len(ctl) \in Nat /\ DOMAIN ctl = 1..Len(ctl)
      /\ ctl = <<>> <=> Len(ctl) = 0
      /\ Len(ctl') = Len(ctl) + 1 /\ DOMAIN ctl' = 1..(Len(ctl) + 1)
      /\ \A i \in DOMAIN ctl : ctl'[i] = ctl[i]
      /\ ctl'[Len(ctl) + 1] = w
      /\ Head(ctl') = IF ctl = <<>> THEN w ELSE Head(ctl)
  BY <1>2, Appended
<1>4. /\ \A i \in DOMAIN st : st[i] # "stopped"
      /\ pc # "exited" => st = <<>>
  <2>1. Len(st) \in Nat /\ (st = <<>> <=> Len(st) = 0)
    BY EmptySeq DEF IInv, TypeOK, TypeShared
  <2>2. Alternate => st = <<>>
    BY <1>2, <2>1 DEF Alternate, Due, Ahead
  <2>3. ASSUME NEW e \in Errors, st = <<e>>
        PROVE  \A i \in DOMAIN st : st[i] # "stopped"
    BY <2>3 DEF Errors
  <2>4. QED
    BY <1>2, <2>2, <2>3 DEF StInv, Talking
<1>5. NoneRunning
  <2>1. CASE pc = "exited"
    BY <1>2, <2>1 DEF LeftBehind, NoneRunning, Live
  <2>2. CASE pc = "options"
    BY <2>2 DEF RunInv, CommandInv, Remaining
  <2>3. CASE pc \notin {"exited", "options"}
    <3>1. 0 = Len(st) + Commanded + Remaining(pc) /\ Len(st) \in Nat
      BY <1>2, <2>3, Counted DEF Talking, Due
    <3>2. Commanded \in Nat /\ Remaining(pc) \in Nat
      BY <1>3 DEF Commanded, Remaining
    <3>3. Remaining(pc) = 0
      BY <3>1, <3>2
    <3>4. QED
      BY <2>3, <3>3 DEF RunInv, CommandInv
  <2>4. QED
    BY <2>1, <2>2, <2>3
<1>6. MapInv' /\ StopInv'
  <2>1. pc # "write_status"
    <3>1. CASE pc = "write_status"
      <4>1. 0 = Len(st) + Commanded + 1 /\ Len(st) \in Nat
        BY <1>2, <3>1, Counted DEF Talking, Due, Remaining
      <4>2. Commanded \in Nat
        BY <1>3 DEF Commanded
      <4>3. QED
        BY <4>1, <4>2
    <3>2. QED
      BY <3>1
  <2>2. QED
    BY <1>1, <1>2, <1>4, <2>1 DEF MapInv, StopInv, server
<1>7. pc # "exited" =>
        /\ Remaining(pc) = 0 /\ ~already_read_first
        /\ ctl = <<>> \/ (Len(ctl) = 1 /\ Head(ctl) = "options")
  <2> SUFFICES ASSUME pc # "exited"
               PROVE  /\ Remaining(pc) = 0 /\ ~already_read_first
                      /\ ctl = <<>> \/ (Len(ctl) = 1 /\ Head(ctl) = "options")
    OBVIOUS
  <2>1. CASE pc = "options"
    <3>1. Remaining(pc) = 0 /\ ~already_read_first
      BY <2>1 DEF CtlInv, Remaining
    <3>2. Credit = 2 * Len(ctl)
      BY <1>2, <1>3, <1>4, <2>1, <3>1
      DEF Balance, Commanded, Due, Talking, Credit
    <3>3. QED
      BY <1>2, <1>3, <2>1, <3>1, <3>2 DEF Credit, CtlInv, Talking
  <2>2. CASE pc # "options"
    <3>1. 0 = Len(st) + Commanded + Remaining(pc) /\ Len(st) \in Nat
      BY <1>2, <2>2, Counted DEF Talking, Due
    <3>2. Commanded \in Nat /\ Remaining(pc) \in Nat
      BY <1>3 DEF Commanded, Remaining
    <3>3. Commanded = 0 /\ Remaining(pc) = 0
      BY <3>1, <3>2
    <3>4. QED
      BY <1>3, <3>3 DEF Commanded
  <2>3. QED
    BY <2>1, <2>2
<1>8. (\A p \in Pids : ChildRun(p))'
  <2>1. \A p \in Pids : proc[p] = "stopped" => pc \notin Started \cup {"wait"}
    BY <1>2, <1>7 DEF Started, Remaining
  <2>2. QED
    BY <1>1, <1>5, <2>1 DEF RunInv, ChildRun, NoneRunning, children, server
<1>9. pc' # "exited" => (OneCommand /\ CommandInv /\ PidInv /\ DeadInv
                         /\ AreaInv)'
  <2> SUFFICES ASSUME pc # "exited"
               PROVE  (OneCommand /\ CommandInv /\ PidInv /\ DeadInv /\ AreaInv)'
    BY <1>1 DEF server
  <2>1. OneCommand'
    BY <1>1, <1>3, <1>7 DEF OneCommand, server
  <2>2. CommandInv'
    BY <1>1, <1>2, <1>5, <1>7
    DEF CommandInv, Fresh, NoneRunning, Remaining, Starting, Started, server,
        children
  <2>3. (PidInv /\ AreaInv)'
    BY <1>1, <1>2, <1>4 DEF RunInv, PidInv, AreaInv, server
  <2>4. DeadInv'
    <3>1. Head(ctl') = "run_killed" /\ child_stopped => Killed
      BY <1>3, <1>7 DEF RunInv, DeadInv
    <3>2. pc # "writeoff"
      BY <1>7 DEF Remaining
    <3>3. QED
      BY <1>1, <1>2, <3>1, <3>2 DEF DeadInv, Killed, server, children
  <2>5. QED
    BY <2>1, <2>2, <2>3, <2>4
<1>10. QED
  BY <1>6, <1>8, <1>9 DEF RunInv

\* afl-fuzz kills the child of the current run.
LEMMA RunTimeout ==
  ASSUME SafeInv, Served, RunInv, FuzzerTimeout
  PROVE  RunInv'
<1> USE DEF SafeInv
<1>1. UNCHANGED <<mode, server, cpc, first_pass, child_area, map, ran, testcase,
                  fz, fz_pid, answer, ctl, st>>
  BY FuzzerFrame
  DEF IInv, FuzzerSide, FuzzerStep, FuzzerTimeout, trace, pipes
<1>2. /\ fz = "await_status" /\ timed_out'
      /\ proc' = [p \in Pids |-> IF p = fz_pid /\ proc[p] \in Live
                                 THEN "signaled" ELSE proc[p]]
  BY DEF FuzzerTimeout
<1>3. \A q \in Pids : proc'[q] \in {proc[q], "signaled"}
  BY <1>2
<1>4. (MapInv /\ StopInv)'
  BY <1>1 DEF RunInv, MapInv, StopInv, Complete, server
<1>5. (\A p \in Pids : ChildRun(p))'
  BY <1>1, <1>3 DEF RunInv, ChildRun, Complete, server
<1>6. pc # "exited" => Remaining(pc) < 2 /\ ~Pending
  <2> SUFFICES ASSUME pc # "exited"
               PROVE  Remaining(pc) < 2 /\ ~Pending
    OBVIOUS
  <2>1. Len(st) \in Nat /\ Len(ctl) \in Nat /\ DOMAIN ctl = 1..Len(ctl)
    BY DEF IInv, TypeOK, TypeShared
  <2>2. CASE pc = "options"
    <3>1. Remaining(pc) = 0 /\ ~already_read_first /\ st = <<>>
      BY <1>2, <2>2 DEF PipeInv, WordsInv, CtlInv, BootInv, Remaining, Talking,
         Answering
    <3>2. 1 + Credit = 2 * Len(ctl)
      BY <1>2, <2>1, <2>2, <3>1
      DEF PipeInv, WordsInv, Balance, Due, Commanded, Talking, Answering, Credit
    <3>3. Credit \in {0, 2}
      BY <2>2 DEF Credit
    <3>4. QED
      BY <2>1, <3>2, <3>3
  <2>3. CASE pc # "options"
    <3>1. 1 = Len(st) + Commanded + Remaining(pc)
      BY <1>2, <2>3, Counted DEF Talking, Answering, Due
    <3>2. Remaining(pc) \in Nat /\ Commanded \in Nat
      BY <2>1 DEF Remaining, Commanded
    <3>3. Remaining(pc) < 2 /\ Commanded < 2
      BY <2>1, <3>1, <3>2
    <3>4. Len(ctl) = 0 /\ ~already_read_first
      BY <2>1, <3>3 DEF Commanded
    <3>5. QED
      BY <2>1, <3>3, <3>4 DEF Pending
  <2>4. QED
    BY <2>2, <2>3
<1>7. pc' # "exited" => (OneCommand /\ CommandInv /\ PidInv /\ DeadInv
                         /\ AreaInv)'
  <2> SUFFICES ASSUME pc # "exited"
               PROVE  (OneCommand /\ CommandInv /\ PidInv /\ DeadInv /\ AreaInv)'
    BY <1>1 DEF server
  <2>1. OneCommand /\ CommandInv /\ PidInv /\ DeadInv /\ AreaInv
    BY DEF RunInv
  <2>2. (OneCommand /\ PidInv /\ AreaInv)'
    BY <1>1, <2>1 DEF OneCommand, PidInv, AreaInv, server
  <2>3. pc \notin Starting \cup Started
    BY <1>6 DEF Remaining, Starting, Started
  <2>4. CommandInv'
    <3>1. ~Pending'
      BY <1>1, <1>6 DEF Pending, server
    <3>2. NoneRunning => NoneRunning'
      BY <1>3 DEF NoneRunning
    <3>3. QED
      BY <1>1, <2>1, <2>3, <3>1, <3>2 DEF CommandInv, Remaining, server
  <2>5. DeadInv'
    <3>1. pc = "wait" \/ child_stopped => Killed'
      <4> SUFFICES ASSUME pc = "wait" \/ child_stopped
                   PROVE  Killed'
        OBVIOUS
      <4>1. child_pid \in Pids /\ proc[child_pid] # "free"
        BY <2>3 DEF IInv, ChildInv, ChildUnreaped, HasChild, BetweenRuns,
           Starting
      <4>2. fz_pid = child_pid
        BY <1>2, <2>1 DEF PidInv
      <4>3. QED
        BY <1>1, <1>2, <4>1, <4>2
        DEF Killed, Zombie, Live, server, IInv, TypeOK, TypeChildren
    <3>2. QED
      BY <1>1, <1>6, <2>3, <3>1 DEF DeadInv, Remaining, Starting, server
  <2>6. QED
    BY <2>2, <2>4, <2>5
<1>8. QED
  BY <1>4, <1>5, <1>7 DEF RunInv

\* Every step keeps RunInv.
LEMMA RunStep ==
  ASSUME SafeInv, Served, RunInv, [Next]_vars
  PROVE  RunInv'
<1>1. CASE UNCHANGED vars
  BY <1>1
  DEF vars, server, fuzzer, children, pipes, trace, RunInv, MapInv, StopInv,
      ChildRun, Complete, OneCommand, CommandInv, Pending, Fresh, NoneRunning,
      Remaining, PidInv, DeadInv, Killed, AreaInv
<1>2. QED
  BY <1>1, RunServer, RunChild, RunListen, RunRequest, RunTimeout
  DEF Next, ServerStep, FuzzerSide, FuzzerStep, Done

\* All that has been said so far holds in every state of every run.
THEOREM ServedInvariance == Spec => [](SafeInv /\ ServedInv)
<1>1. Init => TermInv /\ OneLive /\ LeftBehind /\ ServedInv
  <2> SUFFICES ASSUME Init
               PROVE  TermInv /\ OneLive /\ LeftBehind /\ ServedInv
    OBVIOUS
  <2> USE DEF Init
  <2>1. TermInv /\ OneLive /\ LeftBehind
    BY DEF TermInv, OneLive, LeftBehind, Live
  <2>2. MapInv /\ StopInv /\ \A p \in Pids : ChildRun(p)
    BY DEF MapInv, StopInv, ChildRun, Answering
  <2>3. OneCommand /\ CommandInv
    BY DEF OneCommand, CommandInv, Pending, NoneRunning, Remaining, Starting,
       Started
  <2>4. PidInv /\ DeadInv /\ AreaInv
    BY DEF PidInv, DeadInv, AreaInv, Remaining
  <2>5. QED
    BY <2>1, <2>2, <2>3, <2>4 DEF ServedInv, RunInv
<1>2. IInv /\ IInv' /\ ExitInv /\ ExitInv' /\ PipeInv /\ PipeInv' /\ TermInv
      /\ OneLive /\ LeftBehind /\ ServedInv /\ [Next]_vars
      => (TermInv /\ OneLive /\ LeftBehind /\ ServedInv)'
  <2> SUFFICES ASSUME SafeInv, ServedInv, [Next]_vars
               PROVE  (TermInv /\ OneLive /\ LeftBehind /\ ServedInv)'
    BY DEF SafeInv
  <2>1. UNCHANGED mode
    BY ServerFrame, ChildFrame, FuzzerFrame
    DEF SafeInv, IInv, Next, ServerStep, FuzzerSide, Done, vars
  <2>2. Served' <=> Served
    BY <2>1 DEF Served
  <2>3. QED
    BY <2>2, EndStep, RunStep DEF SafeInv, ServedInv
<1>3. QED
  BY Invariance, ExitInvariance, PipeInvariance, <1>1, <1>2, PTL
  DEF Spec, SafeInv

\* Where the two sides agree on the first word, a child that the server writes
\* off is dead, so the waitpid() without WUNTRACED returns.
THEOREM WriteOffReturns == Spec => []WrittenOffChildIsDead
<1>1. SafeInv /\ ServedInv => WrittenOffChildIsDead
  BY DEF ServedInv, RunInv, DeadInv, Killed, WrittenOffChildIsDead
<1>2. QED
  BY ServedInvariance, <1>1, PTL

\* Where they agree, a child runs only while afl-fuzz waits for its result.
THEOREM RunsWhenAsked == Spec => []RunsOnlyWhenAsked
<1>1. SafeInv /\ ServedInv => RunsOnlyWhenAsked
  BY WhileRunning DEF ServedInv, RunsOnlyWhenAsked
<1>2. QED
  BY ServedInvariance, <1>1, PTL

\* The map that afl-fuzz looks at holds the hits of the testcase it asked for.
THEOREM TraceIsOfTestcase == Spec => []TraceBelongsToTestcase
<1>1. SafeInv /\ ServedInv => TraceBelongsToTestcase
  BY DEF ServedInv, RunInv, MapInv, StopInv, Complete, TraceBelongsToTestcase
<1>2. QED
  BY ServedInvariance, <1>1, PTL

\* The server and afl-fuzz wait for each other for the two known reasons only.
THEOREM MutualWaits == Spec => []MutualWaitCauses
<1>1. SafeInv /\ ServedInv => MutualWaitCauses
  <2> SUFFICES ASSUME SafeInv, ServedInv, MutualWait
               PROVE  \/ /\ mode.sharedmem /\ ~mode.persistent
                         /\ mode.fuzzer = "plain" /\ testcase = 1
                      \/ /\ mode.sharedmem /\ mode.loop
                         /\ mode.fuzzer = "options"
                         /\ pc = "writeoff" /\ testcase > 1
    BY DEF MutualWaitCauses
  <2> USE DEF SafeInv, PipeInv, WordsInv
  <2>1. /\ st = <<>> /\ Len(st) = 0 /\ Len(ctl) \in Nat
        /\ ctl = <<>> => Len(ctl) = 0
    BY DEF MutualWait, IInv, TypeOK, TypeShared
  <2>2. fz \in Answering
    BY DEF MutualWait, Blocked, BootInv, Silent
  <2>3. /\ mode.fuzzer \in {"plain", "options"}
        /\ mode.loop => mode.persistent
    BY <2>2, ModesAssumption
    DEF ExitInv, AloneInv, Answering, IInv, TypeOK, TypeServer, Consistent
  <2>4. Due \in {1, 2}
    BY <2>2 DEF Due, Answering
  <2>5. CASE pc = "options" /\ ctl = <<>>
    <3>1. mode.fuzzer = "plain" /\ ~already_read_first
      BY <2>2, <2>3, <2>5 DEF CtlInv, Talking
    <3>2. Due + 0 = 0
      BY <2>1, <2>2, <2>4, <2>5, <3>1
      DEF Balance, Talking, Credit, Commanded, Remaining
    <3>3. QED
      BY <2>4, <3>2
  <2>6. CASE pc = "read" /\ ~already_read_first /\ ctl = <<>>
    <3>1. Credit = IF Served THEN 0
                   ELSE IF mode.fuzzer = "options" THEN 2 ELSE -2
      BY <2>6 DEF Credit
    <3>2. Due + Credit = 0
      BY <2>1, <2>2, <2>4, <2>6, <3>1
      DEF Balance, Talking, Commanded, Remaining
    <3>3. ~Served /\ mode.fuzzer = "plain"
      BY <2>3, <2>4, <3>1, <3>2
    <3>4. mode.sharedmem /\ ~mode.persistent
      BY <3>3 DEF Served
    <3>5. testcase = 1
      BY <2>2, <3>3 DEF SwallowInv, Swallows
    <3>6. QED
      BY <3>3, <3>4, <3>5
  <2>7. CASE /\ pc = "writeoff" \/ (pc = "wait" /\ ~mode.persistent)
             /\ child_pid \in Pids /\ proc[child_pid] = "stopped"
    <3>1. mode.loop /\ mode.persistent /\ pc = "writeoff"
      BY <2>3, <2>7 DEF LoopInv
    <3>2. ~Served
      BY <2>7, <3>1 DEF ServedInv, RunInv, DeadInv, Killed, Zombie
    <3>3. mode.sharedmem /\ mode.fuzzer = "options"
      BY <2>3, <3>1, <3>2 DEF Served
    <3>4. QED
      BY <3>1, <3>3 DEF KilledInv
  <2>8. QED
    BY <2>5, <2>6, <2>7 DEF MutualWait, Blocked
<1>2. QED
  BY ServedInvariance, <1>1, PTL

-------------------------------------------------------------------------------
(***************************************************************************)
(* The fork server implements RunService, safety.                          *)
(***************************************************************************)
\* Where the two sides do not agree the service is over from the start.
LEMMA NotServed ==
  ASSUME ~Served, UNCHANGED mode
  PROVE  UNCHANGED Service!vars
BY DEF Served, Service!vars

\* The server and its handler are not seen from afl-fuzz.
LEMMA ServiceStutter ==
  ASSUME UNCHANGED <<mode, fz, testcase, answer, ran>>
  PROVE  UNCHANGED Service!vars
BY DEF Served, Answering, Service!vars

\* The body of a child is the execution of the testcase that was asked for.
LEMMA ServiceChild ==
  ASSUME SafeInv, Served, RunInv, NEW p \in Pids, Child(p)
  PROVE  [Service!Next]_(Service!vars)
<1>1. UNCHANGED <<mode, fz, testcase, answer>>
  BY ChildFrame DEF SafeInv, IInv, fuzzer
<1>2. CASE ran' = ran
  BY <1>1, <1>2, ServiceStutter
<1>3. CASE ran' # ran
  <2>1. /\ ran = 0 /\ ran' = 1 /\ testcase > 0
        /\ fz \in Answering \cup {"gone"}
    <3>1. proc[p] = "running" /\ cpc[p] = "body" /\ ran' = ran + 1
      BY <1>3
      DEF Child, ChildReturns, ChildStartup, LoopFirstPass, LoopNextPass,
          LoopResumes, ChildBody, ChildEpilogue, ChildDies, trace
    <3>2. QED
      BY <3>1, WhileRunning DEF RunInv, ChildRun
  <2>2. Served'
    BY <1>1 DEF Served
  <2>3. Service!Execute
    BY <1>1, <2>1, <2>2 DEF Service!Execute, Answering
  <2>4. QED
    BY <2>3 DEF Service!Next
<1>4. QED
  BY <1>2, <1>3

\* The steps of afl-fuzz are those of the client of the service.
LEMMA ServiceFuzzer ==
  ASSUME SafeInv, Served, RunInv, FuzzerSide
  PROVE  [Service!Next]_(Service!vars)
<1>1. UNCHANGED mode /\ Served'
  BY FuzzerFrame DEF SafeInv, IInv, Served
<1>2. ASSUME fz # "gone", GivesUp, UNCHANGED ran
      PROVE  Service!Close
  BY <1>1, <1>2
  DEF GivesUp, Service!Close, SafeInv, IInv, TypeOK, TypeFuzzer, Answering
<1>3. CASE FuzzerBoot
  <2>1. fz = "boot" /\ UNCHANGED ran
    BY <1>3 DEF FuzzerBoot, trace
  <2>2. CASE fz' = "idle" /\ UNCHANGED <<testcase, answer>>
    <3>1. Service!Start
      BY <1>1, <2>1, <2>2 DEF Service!Start, Answering
    <3>2. QED
      BY <3>1 DEF Service!Next
  <2>3. QED
    BY <1>2, <1>3, <2>1, <2>2 DEF FuzzerBoot, Service!Next
<1>4. CASE FuzzerRun
  <2>1. Service!Request
    BY <1>1, <1>4 DEF FuzzerRun, Service!Request, Answering
  <2>2. QED
    BY <2>1 DEF Service!Next
<1>5. CASE FuzzerReadPid
  <2>1. fz = "await_pid" /\ UNCHANGED ran
    BY <1>5 DEF FuzzerReadPid, trace
  <2>2. CASE fz' = "await_status" /\ UNCHANGED <<testcase, answer>>
    BY <1>1, <2>1, <2>2 DEF Answering, Service!vars
  <2>3. QED
    BY <1>2, <1>5, <2>1, <2>2 DEF FuzzerReadPid, Service!Next
<1>6. CASE FuzzerReadStatus
  <2>1. fz = "await_status" /\ UNCHANGED ran /\ st # <<>>
    BY <1>6 DEF FuzzerReadStatus, trace
  <2>2. CASE /\ fz' = "idle" /\ answer' = Head(st) /\ Head(st) \in Statuses
             /\ UNCHANGED testcase
    <3>1. answer' = "stopped" => ran = 1
      <4>1. 1 \in DOMAIN st /\ Head(st) = st[1]
        BY <2>1, Taken DEF SafeInv, IInv, TypeOK, TypeShared
      <4>2. QED
        BY <2>1, <2>2, <4>1 DEF RunInv, StopInv, Complete, Answering
    <3>2. answer' # "none"
      BY <2>2 DEF Statuses, Zombie
    <3>3. Service!Answer
      BY <1>1, <2>1, <2>2, <3>1, <3>2 DEF Service!Answer, Answering
    <3>4. QED
      BY <3>3 DEF Service!Next
  <2>3. QED
    BY <1>2, <1>6, <2>1, <2>2 DEF FuzzerReadStatus, Service!Next
<1>7. CASE FuzzerSeesServerGone \/ FuzzerStops \/ FuzzerIsKilled
  <2>1. fz # "gone" /\ GivesUp /\ UNCHANGED ran
    BY <1>7 DEF FuzzerSeesServerGone, FuzzerStops, FuzzerIsKilled, Answering,
       trace
  <2>2. QED
    BY <1>2, <2>1 DEF Service!Next
<1>8. CASE FuzzerTimeout \/ UserTerminates
  BY <1>1, <1>8, ServiceStutter DEF FuzzerTimeout, UserTerminates, fuzzer, trace
<1>9. QED
  BY <1>3, <1>4, <1>5, <1>6, <1>7, <1>8 DEF FuzzerSide, FuzzerStep

\* Every behaviour of the fork server is one of the service: at most one
\* execution for each request and none without one, and no "complete" for a run
\* that did not take place.
THEOREM Refinement == Spec => Service!Safe
<1>1. Init => Service!Init
  <2> SUFFICES ASSUME Init
               PROVE  Service!Init
    OBVIOUS
  <2>1. fz \in {"gone", "boot"} /\ testcase = 0 /\ ran = 0 /\ answer = "none"
    BY DEF Init
  <2>2. QED
    BY <2>1 DEF Service!Init, Answering
<1>2. SafeInv /\ ServedInv /\ [Next]_vars => [Service!Next]_(Service!vars)
  <2> SUFFICES ASSUME SafeInv, ServedInv, [Next]_vars
               PROVE  [Service!Next]_(Service!vars)
    OBVIOUS
  <2>1. CASE ~Served
    <3>1. UNCHANGED mode
      BY ServerFrame, ChildFrame, FuzzerFrame
      DEF SafeInv, IInv, Next, ServerStep, FuzzerSide, Done, vars
    <3>2. QED
      BY <2>1, <3>1, NotServed
  <2>2. CASE Served
    <3>1. CASE UNCHANGED vars
      BY <3>1, ServiceStutter DEF vars, fuzzer, trace
    <3>2. CASE ServerCode \/ SignalStep
      BY <3>2, ServerFrame, ServiceStutter DEF fuzzer
    <3>3. QED
      BY <2>2, <3>1, <3>2, ServiceChild, ServiceFuzzer
      DEF ServedInv, Next, ServerStep, FuzzerSide, Done
  <2>3. QED
    BY <2>1, <2>2
<1>3. QED
  BY ServedInvariance, <1>1, <1>2, PTL DEF Spec, Service!Safe
===============================================================================
