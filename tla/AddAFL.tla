-------------------------------- MODULE AddAFL --------------------------------
(***************************************************************************)
(* add_afl.py: from the command line to the saved binary.  get_args turns  *)
(* options into arguments; main runs four passes over the binary, each in  *)
(* a pass manager of its own, so that its insertions are applied before    *)
(* the next pass begins; AddAFLPass decides which patch goes where.        *)
(*                                                                         *)
(* A code block is named by the address it has in the original binary; its *)
(* uuid is not told apart from that.  A patch is kept with the block and   *)
(* offset it is registered for.  Two things are the rewriting library's:   *)
(* patches registered for one place run in the order of registration, and  *)
(* an offset counts from the beginning of the block as it is at the start  *)
(* of the pass.                                                            *)
(***************************************************************************)
EXTENDS Integers, Sequences, FiniteSets, Functions, RuntimeModes

CONSTANTS
  Options,       \* command lines that are explored
  Binaries,      \* binaries that are explored
  Names,         \* names of functions
  Main,          \* the name "main"
  DefaultCount,  \* persistent_mode_count when none is given
  Word,          \* 2^32, what a 32-bit register counts modulo
  None           \* Python's None

OptionRecord == [forkserver_init_func : Names \cup {None},
                 forkserver_init_address : (Nat \ {0}) \cup {None},
                 persistent_mode_func : Names \cup {None},
                 persistent_mode_address : (Nat \ {0}) \cup {None},
                 persistent_mode_count : Int \cup {None},
                 hook_location : {"none", "PERSISTENT_LOOP", "FORKSERVER_INIT",
                                  "address", "unknown"},
                 hook_loc_address : (Nat \ {0}) \cup {None},
                 hook_func_name : BOOLEAN]   \* a name is given

Function(B) == [name : Names, blocks : SUBSET B, entries : SUBSET B, heads : SUBSET B]

ASSUME OptionsAssumption ==
  /\ Options \subseteq OptionRecord
  /\ Main \in Names /\ None \notin Names /\ None \notin Int
  /\ Word \in Nat /\ DefaultCount \in 1..(Word - 1)
  \* The assembler takes an immediate that fits, with or without a sign.
  /\ \A o \in Options : o.persistent_mode_count # None =>
       2 * o.persistent_mode_count >= -Word /\ o.persistent_mode_count < Word
  /\ \A o \in Options : (o.hook_location = "address") <=> (o.hook_loc_address # None)

ASSUME BinariesAssumption ==
  \A b \in Binaries :
    /\ b.blocks # {} /\ b.blocks \subseteq Nat \ {0} /\ IsFiniteSet(b.blocks)
    /\ b.size \in [b.blocks -> Nat \ {0}]
    /\ b.entry_point \in b.blocks
    /\ b.functions \in Seq(Function(b.blocks))
    /\ \A i \in DOMAIN b.functions :
         LET f == b.functions[i] IN
           /\ f.heads \subseteq f.blocks
           /\ f.entries \subseteq f.blocks /\ f.entries # {}

VARIABLES
  options, binary,
  pc,
  args,       \* the result of get_args
  mappings,   \* .rewrite_mappings.json: addresses of code blocks
  foreign,    \* another run has written to that file since
  added,      \* bytes put before a block's first ahead of AddAFLPass
  globals,    \* what AddAFLGlobalDataPass has written into the binary
  patches,    \* patches in the order of registration
  function,   \* index of the function begin_module visits next
  added_entrypoint, added_persistent_mode,
  messages    \* what has been announced

inputs == <<options, binary>>
map_file == <<mappings, foreign>>
pass   == <<function, added_entrypoint, added_persistent_mode>>
vars   == <<options, binary, pc, args, mappings, foreign, added, globals, patches,
            function, added_entrypoint, added_persistent_mode, messages>>

Place == [block : binary.blocks, offset : Nat]
Kinds == {"data", "setup", "forkserver", "hook", "persistent", "trampoline",
          "padding"}

TypeOK ==
  /\ pc \in {"get_args", "address_map", "global_data", "begin_afl", "init_addr",
             "functions", "persistent_addr", "hook_addr", "announce",
             "alignment", "save", "saved", "error", "exception"}
  /\ args \in [init_func : Names \cup {None}, count : Int \cup {None},
               is_deferred : BOOLEAN, is_persistent : BOOLEAN,
               is_sharedmem_fuzzing : BOOLEAN, hook_name : BOOLEAN]
  /\ mappings \subseteq binary.blocks /\ foreign \in BOOLEAN
  /\ added \in [binary.blocks -> Nat]
  /\ globals \in [PERSISTENT_MODE_SIGNATURE : BOOLEAN,
                  DEFERRED_INITIALISATION_SIGNATURE : BOOLEAN,
                  is_persistent : BOOLEAN, sharedmem_fuzzing : BOOLEAN]
  /\ \A i \in DOMAIN patches :
       /\ patches[i].kind \in Kinds /\ patches[i].at \in Place
       /\ patches[i].asked \in Nat /\ patches[i].lands \in Nat
       /\ patches[i].hook \in BOOLEAN
  /\ function \in 1..(Len(binary.functions) + 1)
  /\ added_entrypoint \in BOOLEAN /\ added_persistent_mode \in BOOLEAN
  /\ messages \subseteq {"persistent", "deferred", "hook"}

Init ==
  /\ options \in Options /\ binary \in Binaries
  /\ pc = "get_args"
  /\ args = [init_func |-> None, count |-> None, is_deferred |-> FALSE,
             is_persistent |-> FALSE, is_sharedmem_fuzzing |-> FALSE,
             hook_name |-> FALSE]
  /\ mappings = {} /\ foreign = FALSE /\ added = [b \in binary.blocks |-> 0]
  /\ globals = [PERSISTENT_MODE_SIGNATURE |-> FALSE,
                DEFERRED_INITIALISATION_SIGNATURE |-> FALSE,
                is_persistent |-> FALSE, sharedmem_fuzzing |-> FALSE]
  /\ patches = <<>> /\ function = 1
  /\ added_entrypoint = FALSE /\ added_persistent_mode = FALSE
  /\ messages = {}

-----------------------------------------------------------------------------
(***************************************************************************)
(* get_args                                                                *)
(***************************************************************************)
AsksDeferred   == \/ options.forkserver_init_func # None
                  \/ options.forkserver_init_address # None
AsksPersistent == \/ options.persistent_mode_func # None
                  \/ options.persistent_mode_address # None
AsksHook       == options.hook_location # "none"

Rejected ==
  \/ options.hook_location = "unknown"
  \/ /\ options.forkserver_init_func # None
     /\ options.forkserver_init_address # None
  \/ /\ options.persistent_mode_func # None
     /\ options.persistent_mode_address # None

\* A count that is missing or zero is replaced when persistent mode is on.
CountUnlessNone ==                                   \* mutant: zero is kept
  IF AsksPersistent /\ options.persistent_mode_count = None
  THEN DefaultCount ELSE options.persistent_mode_count
Count == IF AsksPersistent /\ options.persistent_mode_count \in {None, 0}
         THEN DefaultCount ELSE options.persistent_mode_count

\* mov edi, {hex(count)}: the parameter of __afl_persistent_loop.
Immediate == args.count % Word

GetArgs ==
  /\ pc = "get_args"
  /\ \/ Rejected /\ pc' = "error" /\ UNCHANGED args
     \/ /\ ~Rejected /\ pc' = "address_map"
        /\ args' = [init_func |-> options.forkserver_init_func, count |-> Count,
                    is_deferred |-> AsksDeferred,
                    is_persistent |-> AsksPersistent,
                    is_sharedmem_fuzzing |-> AsksHook,
                    hook_name |-> AsksHook \/ options.hook_func_name]
  /\ UNCHANGED <<options, binary, map_file, added, globals, patches, function,
                 added_entrypoint, added_persistent_mode, messages>>

-----------------------------------------------------------------------------
(***************************************************************************)
(* Placement                                                               *)
(***************************************************************************)
\* The original address of what a patch at an offset comes before.
LandsAt(b, offset) == IF offset = 0 THEN b ELSE b + offset - added[b]

Patch(kind, b, offset, hook) ==
  [kind |-> kind, at |-> [block |-> b, offset |-> offset],
   asked |-> b + offset, lands |-> LandsAt(b, offset), hook |-> hook]

\* register_insert(SingleBlockScope(b, BlockPosition.ENTRY), ...)
AtEntry(kind, b) == Patch(kind, b, 0, FALSE)

\* The search of insert_patch_at_address: the block before the first one that
\* lies behind the address.  The index runs out of the list for an address at
\* or behind the last block, and is -1 for one before the first block.
Behind(a)    == {m \in mappings : a < m}
NotBehind(a) == mappings \ Behind(a)
Greatest(S)  == CHOOSE m \in S : \A n \in S : n <= m
FoundFirst(a) ==           \* mutant: mappings[i] instead of mappings[i-1]
  CHOOSE m \in Behind(a) : \A n \in Behind(a) : m <= n
Found(a) == Greatest(IF NotBehind(a) = {} THEN mappings ELSE NotBehind(a))

\* The search succeeds, a block of this binary has the uuid that it found, and
\* insert_at takes the offset: from the block's first byte to behind its last.
InsertableAnywhere(a) ==                   \* mutant: no check of the offset
  ~foreign /\ Behind(a) # {}
Insertable(a) ==
  /\ ~foreign
  /\ Behind(a) # {}
  /\ a - Found(a) \in 0..(binary.size[Found(a)] + added[Found(a)])

AtAddress(kind, a, hook) == Patch(kind, Found(a), a - Found(a), hook)

Raise == pc' = "exception" /\ UNCHANGED patches

-----------------------------------------------------------------------------
(***************************************************************************)
(* Passes                                                                  *)
(***************************************************************************)
\* CreateAddressMapPass
CreateAddressMap ==
  /\ pc = "address_map"
  /\ mappings' = binary.blocks
  /\ pc' = "global_data"
  /\ UNCHANGED <<options, binary, args, foreign, added, globals, patches, function,
                 added_entrypoint, added_persistent_mode, messages>>

\* Another run in the same directory rewrites another binary, and overwrites
\* the file, which always has the same name.
OtherRun ==
  /\ pc \in {"global_data", "begin_afl"} /\ ~foreign
  /\ foreign' = TRUE
  /\ UNCHANGED <<options, binary, pc, args, mappings, added, globals, patches,
                 function, added_entrypoint, added_persistent_mode, messages>>

\* Signatures for afl-fuzz and flags for the fork server.
GlobalData(sharedmem_fuzzing) ==
  [PERSISTENT_MODE_SIGNATURE |-> args.is_persistent,
   DEFERRED_INITIALISATION_SIGNATURE |-> args.is_deferred,
   is_persistent |-> args.is_persistent,
   sharedmem_fuzzing |-> sharedmem_fuzzing]

GlobalsByName == GlobalData(args.hook_name)   \* mutant: a name is enough
Globals       == GlobalData(args.is_sharedmem_fuzzing)

\* AddAFLGlobalDataPass: its patch has a nop at the entry point, one byte.
AddGlobalData ==
  /\ pc = "global_data"
  /\ globals' = Globals
  /\ patches' = Append(patches, AtEntry("data", binary.entry_point))
  /\ added' = [added EXCEPT ![binary.entry_point] = @ + 1]
  /\ pc' = "begin_afl"
  /\ UNCHANGED <<options, binary, args, map_file, function, added_entrypoint,
                 added_persistent_mode, messages>>

\* AddAFLPass.begin_module up to the first placement: the map is read, which
\* fails if the other run has not written all of it yet; the set-up call goes to
\* the entry point; main is for a fork server that nothing was said about.
BeginModule ==
  /\ pc = "begin_afl"
  /\ \/ foreign /\ Raise /\ UNCHANGED args
     \/ /\ patches' = Append(patches, AtEntry("setup", binary.entry_point))
        /\ args' = [args EXCEPT !.init_func = IF AsksDeferred THEN @ ELSE Main]
        /\ pc' = "init_addr"
  /\ UNCHANGED <<options, binary, map_file, added, globals, function,
                 added_entrypoint, added_persistent_mode, messages>>

\* The fork server call, and behind it the hook if that is its location.
ServerPatches(server, hook) ==
  IF options.hook_location = "FORKSERVER_INIT"
  THEN <<server, hook>> ELSE <<server>>

AddressForkserver ==
  /\ pc = "init_addr"
  /\ LET a == options.forkserver_init_address IN
     \/ /\ a = None
        /\ pc' = "functions" /\ UNCHANGED <<patches, added_entrypoint>>
     \/ a # None /\ ~Insertable(a) /\ Raise /\ UNCHANGED added_entrypoint
     \/ /\ a # None /\ Insertable(a)
        /\ patches' = patches \o ServerPatches(AtAddress("forkserver", a, FALSE),
                                               AtAddress("hook", a, TRUE))
        /\ added_entrypoint' = TRUE /\ pc' = "functions"
  /\ UNCHANGED <<options, binary, args, map_file, added, globals, function,
                 added_persistent_mode, messages>>

\* The hook is part of the persistent mode patch.
HookInLoop == options.hook_location = "PERSISTENT_LOOP"

StartsEveryServer(f) == f.name = args.init_func  \* mutant: added_entrypoint unused
StartsServer(f)     == ~added_entrypoint /\ f.name = args.init_func
StartsPersistent(f) == f.name = options.persistent_mode_func

TracingFirst(others, tracing) == tracing \o others  \* mutant: order swapped
TracingLast(others, tracing)  == others \o tracing

Tracing(f) ==
  LET n == Cardinality(f.heads)
      order == CHOOSE s \in [1..n -> f.heads] : \A i, j \in 1..n : i < j => s[i] < s[j]
  IN  [i \in 1..n |-> AtEntry("trampoline", order[i])]

\* The fork server is started in the first of the function's entry blocks and
\* the loop in the last one; they are a set, whose order is not defined.
FirstAndLast(f) == {e \in f.entries \X f.entries :
                      e[1] = e[2] => Cardinality(f.entries) = 1}

FunctionPatches(f, first, last) ==
  TracingLast(
    (IF StartsServer(f)
     THEN ServerPatches(AtEntry("forkserver", first), Patch("hook", first, 0, TRUE))
     ELSE <<>>)
    \o (IF StartsPersistent(f)
        THEN <<Patch("persistent", last, 0, HookInLoop)>> ELSE <<>>),
    Tracing(f))

\* The function with the entry point in it is left alone.
EntersProgram(f) == binary.entry_point \in f.blocks

VisitFunction ==
  /\ pc = "functions" /\ function <= Len(binary.functions)
  /\ LET f == binary.functions[function] IN
     \/ /\ EntersProgram(f)
        /\ UNCHANGED <<patches, added_entrypoint, added_persistent_mode>>
     \/ /\ ~EntersProgram(f)
        /\ \E e \in FirstAndLast(f) :
             patches' = patches \o FunctionPatches(f, e[1], e[2])
        /\ added_entrypoint' = (added_entrypoint \/ StartsServer(f))
        /\ added_persistent_mode' = (added_persistent_mode \/ StartsPersistent(f))
  /\ function' = function + 1
  /\ UNCHANGED <<options, binary, pc, args, map_file, added, globals, messages>>

FunctionsVisited ==
  /\ pc = "functions" /\ function > Len(binary.functions)
  /\ pc' = "persistent_addr"
  /\ UNCHANGED <<options, binary, args, map_file, added, globals, patches,
                 function, added_entrypoint, added_persistent_mode, messages>>

AddressPersistent ==
  /\ pc = "persistent_addr"
  /\ LET a == options.persistent_mode_address
         asked == ~added_persistent_mode /\ a # None
     IN
     \/ /\ ~asked
        /\ pc' = "hook_addr" /\ UNCHANGED <<patches, added_persistent_mode>>
     \/ asked /\ ~Insertable(a) /\ Raise /\ UNCHANGED added_persistent_mode
     \/ /\ asked /\ Insertable(a)
        /\ patches' = Append(patches, AtAddress("persistent", a, HookInLoop))
        /\ added_persistent_mode' = TRUE /\ pc' = "hook_addr"
  /\ UNCHANGED <<options, binary, args, map_file, added, globals, function,
                 added_entrypoint, messages>>

AddressHook ==
  /\ pc = "hook_addr"
  /\ LET a == options.hook_loc_address IN
     \/ a = None /\ pc' = "announce" /\ UNCHANGED patches
     \/ a # None /\ ~Insertable(a) /\ Raise
     \/ /\ a # None /\ Insertable(a)
        /\ patches' = Append(patches, AtAddress("hook", a, TRUE))
        /\ pc' = "announce"
  /\ UNCHANGED <<options, binary, args, map_file, added, globals, function,
                 added_entrypoint, added_persistent_mode, messages>>

\* What is announced at the end of begin_module.
Messages ==
  (IF added_persistent_mode THEN {"persistent"} ELSE {})
    \cup (IF AsksDeferred THEN {"deferred"} ELSE {})
    \cup (IF args.hook_name THEN {"hook"} ELSE {})

\* An error if there is no fork server, else the messages.
Announce ==
  /\ pc = "announce"
  /\ \/ ~added_entrypoint /\ pc' = "error" /\ UNCHANGED messages
     \/ /\ added_entrypoint /\ pc' = "alignment"
        /\ messages' = Messages
  /\ UNCHANGED <<options, binary, args, map_file, added, globals, patches,
                 function, added_entrypoint, added_persistent_mode>>

\* ShiftRodataAlignmentPass: again a nop at the entry point.
ShiftAlignment ==
  /\ pc = "alignment"
  /\ patches' = Append(patches, AtEntry("padding", binary.entry_point))
  /\ pc' = "save"
  /\ UNCHANGED <<options, binary, args, map_file, added, globals, function,
                 added_entrypoint, added_persistent_mode, messages>>

Save ==
  /\ pc = "save" /\ pc' = "saved"
  /\ UNCHANGED <<options, binary, args, map_file, added, globals, patches,
                 function, added_entrypoint, added_persistent_mode, messages>>

Ended == pc \in {"saved", "error", "exception"} /\ UNCHANGED vars

Next ==
  \/ GetArgs \/ CreateAddressMap \/ OtherRun \/ AddGlobalData \/ BeginModule
  \/ AddressForkserver \/ VisitFunction \/ FunctionsVisited
  \/ AddressPersistent \/ AddressHook \/ Announce \/ ShiftAlignment \/ Save
  \/ Ended

Spec == Init /\ [][Next]_vars

-----------------------------------------------------------------------------
Saved == pc = "saved"
Placed(kind) == {i \in DOMAIN patches : patches[i].kind = kind}
Hooks == {i \in DOMAIN patches : patches[i].hook}

\* Functions that begin_module visits, other than that of the entry point.
Visited == {f \in Range(binary.functions) : binary.entry_point \notin f.blocks}

\* A saved binary starts its fork server at exactly one place, the one that was
\* asked for: the address, or an entry of one function of the name that was
\* given, or of main; duplicates and the program's own entry do not matter.  A
\* hook at FORKSERVER_INIT is called in the child, as the next thing behind the
\* fork server, and no other hook is there.
OneForkserver ==
  Saved => \E i \in Placed("forkserver") :
    /\ Placed("forkserver") = {i}
    /\ IF options.forkserver_init_address # None
       THEN patches[i].asked = options.forkserver_init_address
       ELSE \E f \in Visited :
              /\ patches[i].at.block \in f.entries /\ patches[i].at.offset = 0
              /\ f.name = IF options.forkserver_init_func = None THEN Main
                          ELSE options.forkserver_init_func
    /\ options.hook_location = "FORKSERVER_INIT" =>
         /\ Hooks = {i + 1} /\ patches[i + 1].kind = "hook"
         /\ patches[i + 1].at = patches[i].at

\* Code at one place runs in this order: the set-up first, since the fork server
\* attaches to what it has mapped; then the fork server, so that all else runs
\* in the child only and is not traced for the parent; a persistent loop given
\* by function before the trampoline, so that each iteration is traced from its
\* first block.
MustPrecede(k) ==
  CASE k = "setup"      -> {"forkserver", "hook", "persistent", "trampoline"}
    [] k = "forkserver" -> {"hook", "persistent", "trampoline"}
    [] k = "persistent" -> IF options.persistent_mode_func # None
                           THEN {"trampoline"} ELSE {}
    [] OTHER            -> {}

OrderAtOnePlace ==
  \A i, j \in DOMAIN patches :
    patches[i].at = patches[j].at /\ patches[j].kind \in MustPrecede(patches[i].kind)
    => i < j

\* What is written into the data and what into the code agree as ForkServer
\* assumes it of every binary: no loop without the flag of the fork server, and
\* no hook without testcases in memory.  afl-fuzz is told of a loop as well; a
\* flag without its patch has one of two causes.
Mode == [persistent |-> globals.is_persistent,
         sharedmem  |-> globals.sharedmem_fuzzing,
         loop       |-> Placed("persistent") # {},
         hook       |-> Hooks # {}]

FlagsAgree ==
  /\ Consistent(Mode)
  /\ Mode.persistent = globals.PERSISTENT_MODE_SIGNATURE
  /\ Mode.persistent /\ ~Mode.loop =>
       \A f \in Visited : f.name # options.persistent_mode_func
  /\ Mode.sharedmem /\ ~Mode.hook => HookInLoop /\ ~Mode.loop

\* The messages about persistent mode and deferred initialisation are true; the
\* one about the hook is, unless the loop it belongs to is missing or it has a
\* name but no location.
MessagesTrue ==
  /\ "persistent" \in messages <=> Mode.loop
  /\ "deferred" \in messages <=> globals.DEFERRED_INITIALISATION_SIGNATURE
  /\ Mode.hook => "hook" \in messages
  /\ "hook" \in messages /\ ~Mode.hook =>
       (HookInLoop /\ ~Mode.loop) \/ options.hook_location = "none"

\* A saved binary, its data and what the user was told of it fit together.
FlagsMatchPatches == Saved => FlagsAgree /\ MessagesTrue

\* A loop is told to count down from at least one, since from zero it would
\* wrap around, and from what was asked for: the number given, or the default.
\* The sign of a negative number is lost in the register: it counts from a huge
\* one, and that is the only way to be misunderstood.
CountUsable ==
  Saved /\ Placed("persistent") # {} =>
    /\ Immediate \in 1..(Word - 1)
    /\ \/ Immediate = options.persistent_mode_count
       \/ Immediate = DefaultCount /\ options.persistent_mode_count \in {None, 0}
       \/ Immediate >= Word \div 2 /\ options.persistent_mode_count < 0

\* A patch lands at the address asked for, or one byte before it if that is
\* inside the block of the entry point; a refusal is for an address outside all
\* blocks or in the last one; what is not refused lies in its block or directly
\* behind it, and the block of the entry point is one byte longer by then.  The
\* map of another binary misplaces no patch: who has read it fails when it is
\* needed.
InBlock(b, a) == a \in b..(b + binary.size[b] - 1)
AskedAddresses == {options.forkserver_init_address,
                   options.persistent_mode_address,
                   options.hook_loc_address} \ {None}

AddressFaults ==
  /\ \A i \in DOMAIN patches :
       \/ patches[i].lands = patches[i].asked
       \/ /\ patches[i].lands = patches[i].asked - 1
          /\ patches[i].at.block = binary.entry_point /\ patches[i].at.offset > 0
  /\ pc = "exception" /\ ~foreign => \E a \in AskedAddresses :
       \/ \A b \in binary.blocks : ~InBlock(b, a)
       \/ a >= Greatest(binary.blocks)
  /\ Saved => \A a \in AskedAddresses : \E b \in binary.blocks :
       \/ InBlock(b, a) \/ InBlock(b, a - 1)
       \/ b = binary.entry_point /\ InBlock(b, a - 2)
  /\ Saved /\ foreign => AskedAddresses = {}

-----------------------------------------------------------------------------
(***************************************************************************)
(* What a comment says, and the code does not do.                          *)
(***************************************************************************)
\* "add patches to the blocks corresponding to the given address in the
\* unpatched binary": a patch comes before the instruction at its address.
AddressesHonoured == \A i \in DOMAIN patches : patches[i].lands = patches[i].asked
===============================================================================
