# PeAR in TLA+

PeAR adds AFL instrumentation to an x86_64 binary. `src/add_afl.py` rewrites
the binary's GTIRB form: it puts a coverage trampoline at every basic block, a
call of `__afl_setup` at the entry point, a call of `__afl_start_forkserver`
where fuzzing is to begin, and, if asked, a persistent mode patch around one
function and a call of a shared memory hook. The functions it injects are
written in C (`src/instrumentation/afl-instrumentation.c`), compiled to
assembly, and cut into patch files by `src/instrumentation/parse_assembly.py`.
At run time the instrumented program is a fork server controlled by afl-fuzz
over two pipes.

## Inventory

| component | state it keeps | operations | what makes it correct |
|---|---|---|---|
| **Injected fork server** (`afl-instrumentation.c`) | `child_pid`, `child_stopped`, `was_killed`, `already_read_first`, signal handlers, `__afl_area_ptr`, `__afl_fuzz_ptr` | set up the map, phone home, read options, attach testcase memory, main loop (read, write off, fork or continue, report pid, wait, report status), `at_exit` | one child at most; runs only on request; every request answered; words on the pipes in step; no child outlives the server; a program without parent goes on, a child as if there were no server |
| **Persistent mode in a process** (`apply_persistent_mode_handler`, `__afl_persistent_loop`) | `first_pass`, `cycle_cnt`, `p_mode_reg_backup`, `p_mode_ret_addr_backup`, the stack | take the return address, loop check, stop, call the hook, load registers, leave the loop | stack balanced, exact number of iterations, same registers at each iteration, caller undisturbed |
| **Trampoline and `__afl_trace`** | `__afl_prev_loc`, map cells, flags | record an edge | edge recorded once, flags and registers kept |
| **`CallFunctionPatch`** | registers, flags, stack below the red zone | call a function anywhere | all of them kept, stack aligned |
| **Block grouping** (`get_basic_blocks`) | list of block lists | group blocks joined by calls | each reachable block belongs to exactly one group whose head is instrumented |
| **Address map** (`CreateAddressMapPass`, `insert_patch_at_address`) | `.rewrite_mappings.json`, shifted blocks | write the map, read it back, find block and offset of an address | the patch lands at the instruction with that address; a map of another binary is noticed |
| **Command line and passes** (`get_args`, `main`, `AddAFLPass.begin_module`) | options, four passes in order | decide what is placed where | globals, signatures, patches and messages agree |
| **Patch generation** (`parse_assembly.py`, `ShiftRodataAlignmentPass`, patch listing) | patch number, byte tally | cut functions out, count `.rodata`, list files, pad | every function inserted, in order, with its strings; `.rodata` stays 16-byte aligned |
| **`afl-whatsup`** | totals, formatted strings, variables sourced from `fuzzer_stats` | summarise instances | an instance's line depends on its own file |
| **Build pipeline** (`Makefile`s) | files, container | ddisasm, rewrite, reassemble | a failed step stops the pipeline |

Interactions: afl-fuzz and the server exchange 4-byte words over two FIFO pipes
(control and status); server and child share nothing but the process table
(`fork`, `waitpid`, `SIGCONT`) and the coverage map; a child gets out of the
server code by returning into the target; the persistent mode patch calls
`__afl_persistent_loop`, which stops the child, which the server sees in
`waitpid`. Signals: SIGTERM to the server (asynchronous, at any instruction),
SIGKILL from afl-fuzz to the child, SIGSTOP by the child to itself.

From the C file to a running server the parts are linked by what one leaves for
the next: `afl-instrumentation.c` is compiled and cut into patch files
(`PatchFiles`), which `AddAFLPass` inserts along with trampolines, calls and the
loop (`AddAFL`, with `BasicBlocks` for where and `InsertedCode` for what), and
the flags and patches of the saved binary are the mode in which `ForkServer`
runs (`RuntimeModes`), its loop counting from the number that `AddAFL` puts into
the patch (`PersistentLoop`).

Hard parts: a timeout racing a child that has just stopped; SIGTERM between
`fork()` and the store of its result; parents that disappear at each read and
write; the options word and the first run command on the same pipe; a file of a
fixed name between two passes; strings counted in one program and inserted by
another; rewriting of a return address; a `u32` that counts down; one backup
area with two users. The full list, line by line, is `hazards` in
`PROJECT.json`.

## Modules

**`ForkServer.tla`** – the server, its children, SIGTERM and afl-fuzz. One step
is one system call with the local computation around it; `child_pid = fork()` is
two (`Fork`, `StoreChildPid`), because a signal can come between. `pc` is the
position in `__afl_start_forkserver`; `proc[p]` is the kernel's view of a child
(`free`, `running`, `stopped`, or a zombie that `exited` or was `signaled`),
`cpc[p]` the child's position in the target and the loop. The pipes are the
sequences `ctl` and `st`; the coverage map is the set of origins of its hits
(a testcase number, `Startup` code or `Epilogue` code), which is what tells a
trace of the right run from another. afl-fuzz (`fz`, `testcase`, ...) is not in
the repository: it is the parent that the code and its comments expect, which
sends a command, reads a pid, reads a status, kills after a timeout, stops the
server with SIGTERM, or disappears. Every failing system call that the code
tests for can fail, apart from interrupted or short reads.

`signals` holds the dispositions of SIGTERM and SIGCHLD in the server process,
`old_signals` what `old_sigterm_handler` and `old_sigchld_handler` hold, and
`child_signals[p]` the dispositions in a child, which are the server's until
`ChildReturns` puts the old ones back. The target may have ignored SIGCHLD, in
which case the kernel reaps its children and `waitpid` fails: that is part of
`ECHILD`, and what the reset at `afl-instrumentation.c:239` is for. `term` says
whether a SIGTERM is pending or being handled; in the handler the server's own
code stands still (`ServerStep`).

`mode` fixes how the binary was built and started: the flags in its data
(`persistent`, `sharedmem`), which the server goes by; the patches in its code
(`loop`, `hook`), which the children run into; and a parent that is absent, that
does not know the options word (`plain`), or that answers it (`options`). A flag
may be there without its patch, never a patch without its flag: that is
`Consistent` of **`RuntimeModes.tla`**, assumed here and checked of every saved
binary in `AddAFL` (`FlagsMatchPatches`). `Served` holds in the modes in which
server and afl-fuzz agree on whether the first word is an options word.

| action | code |
|---|---|
| `AflSetup` | `__afl_setup`, `__afl_map_shm` |
| `TargetReachesInit`, `PhoneHome`, `ReadOptions`, `MapShmFuzz` | `__afl_start_forkserver` before its loop, `__afl_map_shm_fuzz` |
| `LoopRead`, `WriteOff`, `Fork`, `StoreChildPid`, `Cont`, `WritePid`, `WaitChild`, `WriteStatus` | the main loop, in this order |
| `AtExit`, `AtExitReaps` | SIGTERM in `at_exit`: the kill, and behind it the `waitpid` and `_exit` |
| `TermByDefault` | SIGTERM before `at_exit` is installed |
| `ChildReturns`, `ChildStartup`, `ChildBody`, `ChildEpilogue`, `ChildDies` | a child in target code |
| `LoopFirstPass`, `LoopNextPass`, `LoopResumes` | `__afl_persistent_loop` |
| `Fuzzer...`, `UserTerminates` | afl-fuzz, the user |

**`RunService.tla`** – what a fork server promises, without processes: a request
at a time, the fuzzed code run at most once for it and at no other moment, every
request answered or the service over. `ForkServer!Service` instantiates it; the
run `forkserver` checks `ImplementsRunService`. Modes that are not `Served` map
to a service that never begins.

**`PersistentLoop.tla`** – one process, at the level of the patch: the stack as
a sequence of return addresses, four registers standing for the kinds that the
code treats differently (an argument register, a callee-saved one, the low and
the high half of an xmm register), the backup area and the counter. `conf` says
how the target uses the function: how often it calls it, whether it is
recursive, where a hook is, whether a parent is there. `cycle_cnt` is computed
modulo `Modulus`, for 2^32.

**`BasicBlocks.tla`** – `get_basic_blocks` and `add_afl_block_tracing` for one
function. A block is its address; `cfg` is the control flow graph of the whole
program with the function's blocks and entries. `Visit` is one turn of the loop
over the blocks, in the order of their addresses, with one action for each way
it can end: `VisitDetached`, `VisitContinuation` (the block is appended to the
list of its source), `VisitHead` (a new list). `AddTracing` puts a trampoline at
the head of each list. `CfgsAssumption` says what a program is: execution falls
through to a higher address, from one block to one block.

**`AddAFL.tla`** – `add_afl.py` from options to the saved binary, `pc` being the
position in `main` and `begin_module`.

| action | code |
|---|---|
| `GetArgs` | `get_args`, errors and defaults included |
| `CreateAddressMap`, `OtherRun` | `CreateAddressMapPass`, here and in another run of the program in the same directory |
| `AddGlobalData` | `AddAFLGlobalDataPass`: flags, signatures, and a nop |
| `BeginModule`, `AddressForkserver`, `VisitFunction`, `FunctionsVisited`, `AddressPersistent`, `AddressHook`, `Announce` | `AddAFLPass.begin_module`, in this order |
| `ShiftAlignment`, `Save` | `ShiftRodataAlignmentPass`, the end of `main` |

A patch is a record of its kind, the block and offset it is registered for
(`at`), the original address that was asked for, and the one it comes to lie
before (`lands`); which blocks of a function get trampolines (`heads`) is an
input here and the subject of `BasicBlocks`. A function may have several entry
blocks: the code takes the first or the last of a set, so the model takes any.
The rewriting library is not part of the repository. Assumed of it: patches for
one place run in the order of registration; offsets count from the beginning of
a block as it is at the start of a pass; `insert_at` refuses offsets outside the
block and a missing block. Counts are integers that the assembler can put into a
32-bit register; `Immediate` is what `__afl_persistent_loop` gets.

**`InsertedCode.tla`** – the trampoline with `__afl_trace`, and
`CallFunctionPatch`, one action for a few instructions. Before each the target
may have any flags and either alignment of its stack. Registers hold their own
names as long as the target's values are in them; the stack is counted in slots
of 8 bytes, and `stack` holds what the patch has written to it, slot by slot. A
block id is a set of bit positions, so exclusive or is symmetric difference.

`CallFunctionPatch` pushes the flags, nine registers and `rax` again, and pops as
many. `Saves` and `Restores` list the two sides apart, each as it stands in the
code: `SaveRegs` writes the first to the stack slot by slot, `RestoreRegs` takes
for each register the slot that its last pop reads, and the stack pointer moves
by the length of either. `Align` pushes the old stack pointer in between and
`Unalign` pops it. So a register that is missing on one side, out of order, or
overwritten by the C function shows in a register, and a push too many in the
stack pointer. All nine registers that a C function may change are there, and
one that it preserves (`rbx`) and a vector register, which is not saved.

**`PatchFiles.tla`** – from the C file to `.rodata` of the saved binary. `source`
is a sequence of functions, char arrays and constant tables; `assembly` is what
gcc makes of it, a line being a record of what the regular expressions of
`parse_assembly.py` see in it. Only the order of lines, the sections and the
place of string constants are gcc's; they were read off
`instrumentation/afl-instrumentation.s`. The C files are those of functions,
arrays and tables in which gcc makes no jump table of a `switch` (which would put
a `.section .rodata` into the body of a function), no `.ascii` line of a long
string and no floating-point constant. There is none of these in the repository's
C file, and nothing is said here of a file that has one. An item is known by its
number in the source, a string constant by a name that is no number: no two labels of a
file are the same.

| action | code |
|---|---|
| `Search`, `CollectData`, `CollectCode`, `AllParsed` | the three loops of `parse_assembly.py`, one line a step, and its end |
| `GlobalData` | `.rodata` of `AddAFLGlobalDataPass` |
| `InsertFunctions` | listing, sorting and insertion of the patch files in `AddAFLPass` |
| `ShiftRodataAlignment` | `calc_alignment` and `ShiftRodataAlignmentPass` |

**`MCForkServer.tla`, `MCPersistentLoop.tla`, `MCBasicBlocks.tla`,
`MCAddAFL.tla`, `MCInsertedCode.tla`, `MCPatchFiles.tla`** give the constants
values.

**`ForkServerProofs.tla`, `ForkServerPipesProofs.tla`, `PersistentLoopProofs.tla`,
`BasicBlocksProofs.tla`, `InsertedCodeProofs.tla`, `AddAFLProofs.tla`,
`PatchFilesProofs.tla`, `PatchAlignmentProofs.tla`** hold the theorems.

Mutants of the code (definitions that end up unused, marked `mutant`) stand next
to the definitions they are variants of.

## Runs

| run | bounds | what it shows |
|---|---|---|
| `forkserver` | 2 pids, count 2, 3 testcases, the `Served` modes | runs only on request, traces, refinement of `RunService`, termination |
| `forkserver_any_mode` | the same, all modes but those without a hook whose parent answers | one child, words in step, causes of orphans, mutual waits and stray kills |
| `persistent_loop` | counts 1..3, modulus 8, 2 register values, 12 executions, every `conf` | stack, count, registers, caller, traces |
| `basic_blocks` | every graph of 4 blocks, 3 functions in it | blocks are partitioned into chains of calls; jumps are recorded |
| `add_afl` | every combination of options, 4 binaries | what is placed where, in which order, and which flags go with it |
| `inserted_code` | 4 visits, ids of 2 bits, cells of 8 values, both alignments | the target is undisturbed; the map follows the path |
| `patch_files` | every file of 4 items, 3 strings, patch numbers of one digit up to 2 | functions and strings arrive once and in order; causes of misalignment |
| `forkserver_sharedmem` | persistent, shared memory, answering parent | finding: the hook runs before there is a testcase |
| `forkserver_write_off` | the same | finding: the server waits for a stopped child that nobody has killed |
| `persistent_loop_two_calls` | two calls | finding: the second call goes round the loop again |
| `add_afl_shift` | as `add_afl` | finding: a patch one byte too early |
| `inserted_code_flags` | as `inserted_code` | finding: the flags are not kept by an inserted call |

Properties of `forkserver`. `WrittenOffChildIsDead`: the `waitpid` without
`WUNTRACED` cannot block on a stopped child, which needs afl-fuzz's kill to come
before its command. `RunsOnlyWhenAsked` and `TraceBelongsToTestcase`: afl-fuzz
never reads a map that a child is writing, and a map holds hits of its own run.
`TargetGoesOn`: a program on its own has no child and records into the dummy map;
what stays behind of the server is `at_exit` as its SIGTERM handler and SIGCHLD at
its default, whatever the program had asked for. A forked child has the handlers
of the target back before any of the target's code runs in it.
`ImplementsRunService` and `TermHonoured` are temporal. The second is about the
`waitpid` in `at_exit`, which blocks unless the child that `child_pid` names is
dead, reaped, or none of the server's.

Properties of `forkserver_any_mode`. `OneChild`: no fork while a child is alive
or unreaped. `WaitsForOwnChild`: `waitpid` and SIGCONT never meet a reaped pid.
`OrphanCauses`: the complete list of places where the server can end and leave a
child. `AnswersInStep`: a pid is read where a pid was written, and a status
where a status, in every mode; the server is at most one run ahead.
`MutualWaitCauses`: the complete list of ways for both sides to wait for each
other for ever; there are two, both because the options word and the run command
are confused. `StrayKills`: the kill in `at_exit` can hit a pid that is no
longer its child's in four program points only.

Properties of `patch_files`. `FilesAreFunctions` is about the index that two
nested loops share; `InsertedInOrder` holds for every order in which the
directory is listed; `StringsDefinedOnce` is what the backward search must
achieve; `MisalignmentCauses` compares the bytes counted by one program with the
bytes inserted by another.

Properties of `basic_blocks`. `InOneGroup` and `EveryBlockGroupedIfClosed`
together make the lists a partition; `GroupsAreChains` says where a list may go
on, `JumpsAreRecorded` that grouping loses no edge that is a jump. The last needs
no assumption about functions, the second needs that no call in another function
falls through into this one (`CallsReturnInside`).

Properties of `add_afl`. `OneForkserver` is about names that occur twice,
several entry blocks, main being absent or being the entry point itself, and the
hook that is to follow the fork server. `OrderAtOnePlace` is about patches that
fall on one place, where only the order of registration decides; a loop that is
given by address is registered after the trampolines, so that at the first
instruction of a block the trampoline stays outside the loop: the property is
for loops given by function. `FlagsMatchPatches` relates the data that one pass
writes to the code that a later one places and to the messages, with the causes
of a flag or a message without a patch. `CountUsable` is what `PersistentLoop`
assumes of its count. `AddressFaults` lists what can go wrong with an address,
the map file being overwritten by another run included. It lets an address be
two bytes behind the block of the entry point, which is one byte longer than it
was: the proof asked for that case, and address 15 of `MCAddAFL` is one.

Properties of `inserted_code`. `TargetUndisturbed`: registers, flags and stack
pointer after a patch, but for what the code gives up (vector registers, and
flags after a call). It depends on each of the eleven pushes and pops.
`StackRespected`: nothing is written to what belongs to the target, and calls
find the stack aligned.
`MapFollowsPath` compares the map with the path that was really taken, which is
kept on the side.

Known deviations that have no run of their own, because a property of a passing
run is stated around them:

- A fork server that ends on a failed read or write of a pipe leaves its child
  behind, stopped or running, although `at_exit` is there to "ensure child is
  killed when forkserver exits" (`afl-instrumentation.c:173, 288`; `OrphanCauses`).
- With testcases in shared memory, no persistent mode and an afl-fuzz that does
  not know the options word, the first run command is swallowed
  (`afl-instrumentation.c:258`; `MutualWaitCauses`).
- A block behind a call in another function is put in no list and never traced
  (`add_afl.py:345`; `EveryBlockGroupedIfClosed`).
- A negative count is taken for a huge one (`add_afl.py:545`; `CountUsable`).
- Functions from the eleventh on are numbered with two digits by
  `parse_assembly.py` and not listed by `add_afl.py`, which does not say so
  (`add_afl.py:657`; `InsertedInOrder`). There are seven now.
- Escapes other than `\n`, constant tables, char arrays and functions left out
  make the count of `.rodata` bytes wrong (`parse_assembly.py:59`;
  `MisalignmentCauses`). The present C file has none of these.
- Two runs in one directory share `.rewrite_mappings.json`: the first may fail
  for it, but does not misplace a patch (`add_afl.py:982`; `AddressFaults`).
- An address in the last block ends in an `IndexError` (`add_afl.py:384`;
  `AddressFaults` lists it with the addresses that are refused).
- A persistent mode function that does not exist is passed over: the binary
  declares persistent mode and has no loop (`add_afl.py:724`;
  `FlagsMatchPatches`).
- A hook in a loop that is not there, or with a name and no location, is
  announced and never called (`add_afl.py:766`; `FlagsMatchPatches`).
- `shr` leaves the lowest bit of the block id in the carry, `inc` keeps it and
  `adc` adds it: odd ids count twice, and a cell can come back to zero
  (`add_afl.py:641-643`; `MapFollowsPath` allows for both).
- A hook at an address inside the persistent function overwrites the backup of
  the loop (`add_afl.py:501`); `RegistersRestored` and `CallerUndisturbed` leave
  that case and recursive functions out (`BackupUnshared`), so no property says
  what becomes of the registers in it. `TracedWithinCount` holds there too.
- `movq` keeps half of an xmm register (`add_afl.py:420`); the other half is zero
  in every iteration (`RegistersRestored`).
- A program without parent stops itself before its second iteration, for ever
  (`afl-instrumentation.c:71`); `Completes` has it as the only other end.
- A program without parent goes on with `at_exit` as its SIGTERM handler and with
  SIGCHLD reset to its default: the return at `afl-instrumentation.c:253` puts
  neither back, only a forked child does, at lines 331-332 (`TargetGoesOn`).

Bounds. Two pids suffice to see a second child, and the theorem `AtMostOneChild`
shows that more make no difference. Count 2 is the least with a stop, a continue
and an exit; with 3 testcases the server goes through fork, continue, exit and
fork again, and a timeout can hit any of them. `forkserver` is restricted to the
modes its properties are about. `forkserver_any_mode` leaves out the modes with
an answering parent and no hook, in which a child differs from one with a hook
only in that it cannot fail on a null pointer. In `PersistentLoop` counts 1..3
cover an immediate exit, one and several continues; modulus 8 lets the counter
wrap within `MaxBodies`. `MaxExecs` and `MaxBodies` bound what would otherwise
go on for ever; deadlock is checked everywhere, `Done` and `Ended` being the
places where the system may rest.

Four consecutive blocks are the least with a chain of three, a head before it
and a jump into it; block ends are jump, conditional jump, call, call without
return, return, fall through, and none. Calls lead to a block or outside; a
second target inside would make no difference, as the code looks at call edges
leaving a block only. The binaries of `MCAddAFL` are the usual one, one without
main whose other function has two entry blocks, one with names that occur twice,
and one with main as its entry point; addresses are before the first block, in
the entry point's block, behind it, at a block, inside one, in the last, and in a
hole. In
`MCInsertedCode` ids of 2 bits have an odd and an even value for each previous
block, and 4 visits overflow a cell of 8 values. In `MCPatchFiles` four items
give each item one of every kind before and behind it, strings are shared,
repeated, with a newline and with another escape, and `Base` 3 lets a file have
a number too many.

Fairness. The kernel schedules the server (`WF(ServerStep)`) and delivers
pending signals (`WF(SignalStep)`); afl-fuzz reads what arrives, times out, and
notices a closed pipe. A child is only fair until it returns from the injected
code: target code may hang for ever, and every request is answered all the same
because of the timeout. Nobody must ask for another run. In `PersistentLoop` the
process is scheduled, and a parent, if there is one, continues it when it has
stopped.

## Proofs

Every theorem is for all values of the constants.

`ForkServerProofs`, for all pids, counts, testcases and *every* mode, proves
`TypeCorrect`, `AtMostOneChild`, `OwnChild`. `OneChild` is not inductive: whether
`Fork` can run depends on `child_stopped` and on what was reaped. `IInv` adds
`ChildInv`, which says for each program point which process may be in the table
(`fork_ret` between the two halves of `fork`; `child_pid` while it is waited for,
and between runs exactly when `child_stopped` is set; nobody elsewhere);
`CycleInv`, by which a child in the loop has passes left, so that the counter
keeps its type; and `StatusInv`. Three frame lemmas say what a step of a child,
of afl-fuzz and of the server leaves alone; then each conjunct is shown to be
preserved, action by action. `ExitInv` (`HandlerInv`: which handlers are set and
saved from `TargetReachesInit` on; what comes before the first command; who is alone)
gives `Orphans` and `Kills`. `OwnChild` needs it too: a child that has ended is
still there to be waited for because SIGCHLD is at its default in the server.
`RestoredInv` says what a child's handlers are before and behind `ChildReturns`,
which with `ExitInv` gives `Alone`.

`ForkServerPipesProofs` is about the two pipes. What relates the two sides in
every mode is a sum, `Balance`: the answers that afl-fuzz has still to read are
those in the status pipe, two for each command on the way, and those that the
server has still to write in the run it is in. `Credit` is by how much the sum is
off in the modes in which the options word and a command are confused: two
answers too many or too few, from the moment of the confusion to the end. With
the positions of the words (`CtlInv`, `StInv`) it makes `PipeInv`, and `InStep`
follows from that; `MutualWaits` is a matter of counting with it.

Where both sides agree on the first word, `RunInv` says where the command of the
current testcase is (`CommandInv`), what a child in its position has done for it
(`ChildRun`), that a stop is reported of complete runs only (`StopInv`), that
afl-fuzz kills the child it was told of (`PidInv`) and that it is dead by the time
it is written off (`DeadInv`). None of these is inductive without the others: that
the child is dead needs that the pid read is that of this child, which needs the
words to be in step. They give `WriteOffReturns`, `RunsWhenAsked`,
`TraceIsOfTestcase`, and `Refinement`: initial states map to initial states of
`RunService`, each step to a step of it or to none.

`PersistentLoopProofs` proves for all counts below the modulus, all register
values and every use of the function: `TypeCorrect`, `Balanced`, `ExactlyCount`,
`Restores`, `LeavesCallerAlone`, `TracesWithinCount`. The properties say
themselves which of them are about a function that is called once. The invariant
`LoopInv` gives the stack, the relation `bodies = count - cycle_cnt` (plus one
while an execution is not yet counted off) and the contents of the backup at each
program point. Assumptions used: `PidsAssumption`, `BoundsAssumption`,
`ModesAssumption`, `CountsAssumption`, `RegistersAssumption`, `ConfsAssumption`.

`BasicBlocksProofs` proves all the properties of `basic_blocks` for every set of
finite control flow graphs that satisfies `CfgsAssumption`, and that the number
printed is that of the trampolines (`Counts`). That blocks are in one group is
not inductive alone: a continuation might be appended to two lists, or a block
that is in a list already might be visited again. `VisitedOnly` (lists hold
visited blocks only) rules out the second, and with `InOneGroup` itself only one
list holds the source. `HeadsGrouped` and `VisitedGrouped` say of the visited
blocks what is to be true of all of them in the end; the step for a continuation
uses that its source has a lower address and so has been visited, and that
falling through leads from one block to one block, so that the source is the
last of its list.

`InsertedCodeProofs`, for every stack pointer that leaves room, every width of
the block ids and every size of a cell: the invariant `CodeInv` gives, for each
program point of a patch, the registers that still hold the target's values, the
slots of the stack that hold the saved ones, and the stack pointer as a distance
from where the patch found it. That a pop finds what was pushed is proved register
by register, from the two lists of the code. `MapInv` bounds each cell by the
number of times its edge was taken and twice that.

`AddAFLProofs`, for any options and any binary that `OptionsAssumption` and
`BinariesAssumption` admit: `SetUpInv` (arguments, map, data and the longer block
belong to the options, by stage of the program), `PatchesInv` (what each action
appends), `LoopInv`, `ServerInv` and `AnnounceInv` (flags of `AddAFLPass` against
what is placed) make the inductive invariant `PlacesInv`. It gives `TypeCorrect`,
`ForkserverPlaced`, `FlagsMatch` and `CountsDown`.

Two of its theorems have a hypothesis of their own on the binaries, which no code
checks; TLC finds the properties violated as soon as it does not hold.
`RightOrder` needs `EntriesApart`: no entry of a function is a block of another.
Otherwise the trampoline of the function visited first comes before the fork
server of the other one, and is run for the parent. (`VisitedInv`: while functions
are visited, loops and trampolines are in blocks of those visited before.)
`AddressesTaken` needs `BlocksApart`: blocks do not overlap. Otherwise
`insert_patch_at_address` finds the block that begins last before an address,
which may have ended before it, and refuses an address that is in another block.

Two definitions choose something of a finite set: the greatest number of it, and
its numbers in ascending order. That such a thing exists takes an induction;
`GreatestExists` and `SortingExists` get it from a smallest set without one, by
the well-founded order of finite sets.

`PatchFilesProofs`, for any C file that `PatchFiles` describes, any strings and any
number of functions. What
gcc makes of a file is a sequence of sequences that is flattened, so the proofs
begin with where things are: `Offsets` are the places where the parts begin,
`FlattenShape` says that `FlattenSeq` lays them down there, and from `Layout` on
each line is known by its item (`TypeAt` is the place of a function's `.type`
directive). `FilesAreFunctions` is not inductive, as it says nothing of the file
being written. `CutInv` adds where the outer loop is (`Names = Earlier(i)`: the
functions before it are the ones that have been cut out) and that the lines taken
are those up to the place of the inner loop. It gives `Functionwise`. That setting
the index back to the label, behind a backward search, neither skips nor repeats a
function is the step from `CollectCode` to `Search`: the line behind
`.cfi_endproc` is behind this function and no other. `Inserted` needs besides
that the sorted listing is unique (`SortedIs`).

`RodataInv` is about the strings. While the inner loop goes back, the lines taken
are between its place and the function, every label there is among them, and
nothing to stop at was passed (`Backwards`). The case to prove is the stop.
`RodataEntered`: before a function whose strings are laid down there is a
directive for `.rodata` with no function ending in between, be it its own or that
of a table further up. So the loop stops at one, having passed the strings
(`StoppedAtRodata`), or there are no strings to lose (`StoppedElsewhere`). With
`LabelsApart`, by which no symbol has two labels, it gives `StringsOnce`: if two
patches had a label in common, it would be one line, and the end of the earlier
function would be between it and the later one.

`PatchAlignmentProofs` compares the two programs. `TotalIs` relates the recursive
`Total` to its sums, whatever they are; `TotalAppend` and `TotalPrepend` add a
number at either end, as the loops do. `CountInv` says, of a file of functions
with no escape but `\n` (`PlainSource`), that what has been counted is what the
patch files and the one being written hold: `NothingLost` shows that lines thrown
away at a stop had no string. `LaidDownIsTally` is the other program's side, and
`NoneLeftOut` counts functions against names of one digit. They make
`AlignedInv` inductive, and `Aligned` is `MisalignmentCauses` for every C file
of the kind that `PatchFiles` describes. Among those there is no fifth cause; jump
tables, floating-point constants and `.ascii` lines, which that model of gcc does
not have, would each be one more. Assumptions used: `SourcesAssumption`,
`NumbersAssumption`.

Only model-checked: liveness, which the prover cannot do (nor `ENABLED`):
`TermHonoured`, `Completes`, and the fairness of `ImplementsRunService`, of which
`Refinement` proves the rest. Every other property of a passing run is a theorem.
That the causes in `OrphanCauses`, `MutualWaitCauses`, `AddressFaults` and
`MisalignmentCauses` do occur is left to the runs: a theorem says that there are
no others.

## Plan

All of the planned modules are written, and their safety properties are proved.
What is left are theorems that the runs have no property for: that what is
inserted is right at *every* size of the listing when `Accepted` takes more than
one digit (the remedy for the hazard of `add_afl.py:657`), and a weaker hypothesis
than `BlocksApart` for `AddressesTaken`.

## Not modelled

- Debug output; the `_AFL_DOCUMENT_MUTATIONS` block, which is not compiled in;
  short or interrupted reads and writes; pid reuse beyond what `StrayKills` says.
- User supplied hooks beyond their reading of the testcase and their effect on
  the saved registers.
- The `PassDriver` classes and `create_pass_entrypoints` of `add_afl.py`: nothing
  in the repository calls or registers them.
- `scripts/afl-whatsup`: a script of AFL++ with one check removed.
- The Makefiles: a sequence of tools outside the repository that stops at the
  first failure. Docker helper scripts: commands for one machine.
- `scripts/fix-vpcmpnleuq-asm.py`: one textual substitution on a fixed file.
- Third-party headers.
