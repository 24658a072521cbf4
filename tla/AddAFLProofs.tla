----------------------------- MODULE AddAFLProofs -----------------------------
(***************************************************************************)
(* Proofs about AddAFL, for any command lines and any binaries.            *)
(***************************************************************************)
EXTENDS AddAFL, SequenceTheorems, FiniteSetTheorems, FunctionTheorems,
        WellFoundedInduction, TLAPS

-------------------------------------------------------------------------------
(***************************************************************************)
(* The stages of the program.                                              *)
(***************************************************************************)
AfterAnnounce   == {"alignment", "save", "saved"}
AfterHook       == {"announce"} \cup AfterAnnounce
AfterPersistent == {"hook_addr"} \cup AfterHook
AfterFunctions  == {"persistent_addr"} \cup AfterPersistent
AfterInit       == {"functions"} \cup AfterFunctions
AfterBegin      == {"init_addr"} \cup AfterInit
AfterData       == {"begin_afl"} \cup AfterBegin
AfterMap        == {"global_data"} \cup AfterData
AfterArgs       == {"address_map"} \cup AfterMap

InputInv == options \in Options /\ binary \in Binaries

\* TypeOK but for the patches.
VariablesOK ==
  /\ pc \in {"get_args", "error", "exception"} \cup AfterArgs
  /\ args \in [init_func : Names \cup {None}, count : Int \cup {None},
               is_deferred : BOOLEAN, is_persistent : BOOLEAN,
               is_sharedmem_fuzzing : BOOLEAN, hook_name : BOOLEAN]
  /\ mappings \subseteq binary.blocks /\ foreign \in BOOLEAN
  /\ added \in [binary.blocks -> Nat]
  /\ globals \in [PERSISTENT_MODE_SIGNATURE : BOOLEAN,
                  DEFERRED_INITIALISATION_SIGNATURE : BOOLEAN,
                  is_persistent : BOOLEAN, sharedmem_fuzzing : BOOLEAN]
  /\ function \in 1..(Len(binary.functions) + 1)
  /\ added_entrypoint \in BOOLEAN /\ added_persistent_mode \in BOOLEAN
  /\ messages \subseteq {"persistent", "deferred", "hook"}

\* The arguments are what the accepted options ask for.
ArgsInv ==
  /\ pc \in AfterArgs =>
       /\ ~Rejected /\ args.count = Count
       /\ args.is_deferred <=> AsksDeferred
       /\ args.is_persistent <=> AsksPersistent
       /\ args.is_sharedmem_fuzzing <=> AsksHook
       /\ args.hook_name <=> (AsksHook \/ options.hook_func_name)
  /\ pc \in {"address_map", "global_data", "begin_afl"} =>
       args.init_func = options.forkserver_init_func
  /\ pc \in AfterBegin =>
       args.init_func = IF AsksDeferred THEN options.forkserver_init_func ELSE Main

\* Only the block of the entry point has grown, and by one byte.
AddedInv ==
  /\ \A b \in binary.blocks : added[b] \in {0, 1}
  /\ \A b \in binary.blocks : added[b] = 1 => b = binary.entry_point
  /\ pc \in {"get_args", "address_map", "global_data"} =>
       \A b \in binary.blocks : added[b] = 0

MapInv == pc \in AfterMap => mappings = binary.blocks

GlobalsInv ==
  pc \in AfterData =>
    /\ globals.PERSISTENT_MODE_SIGNATURE <=> AsksPersistent
    /\ globals.is_persistent <=> AsksPersistent
    /\ globals.DEFERRED_INITIALISATION_SIGNATURE <=> AsksDeferred
    /\ globals.sharedmem_fuzzing <=> AsksHook

PatchRecord == [kind : Kinds, at : Place, asked : Nat, lands : Nat, hook : BOOLEAN]

\* A patch lands where it should, or one byte before; hooks and loops were asked
\* for.
GoodPatch(p) ==
  /\ \/ p.lands = p.asked
     \/ /\ p.lands = p.asked - 1
        /\ p.at.block = binary.entry_point /\ p.at.offset > 0
  /\ p.hook <=> p.kind = "hook" \/ (p.kind = "persistent" /\ HookInLoop)
  /\ p.kind = "hook" => options.hook_location \in {"FORKSERVER_INIT", "address"}
  /\ p.kind = "persistent" => AsksPersistent

\* What begin_module registers for a function: the fork server and the hook, the
\* loop, and then the trampolines.
HooksServer == options.hook_location = "FORKSERVER_INIT"
ServerPart(f, first) ==
  IF StartsServer(f)
  THEN ServerPatches(AtEntry("forkserver", first), Patch("hook", first, 0, TRUE))
  ELSE <<>>
LoopPart(f, last) ==
  IF StartsPersistent(f) THEN <<Patch("persistent", last, 0, HookInLoop)>> ELSE <<>>
ServerLength(f) == IF StartsServer(f) THEN IF HooksServer THEN 2 ELSE 1 ELSE 0
LoopLength(f)   == IF StartsPersistent(f) THEN 1 ELSE 0

PatchesInv ==
  /\ patches \in Seq(PatchRecord)
  /\ \A i \in DOMAIN patches : GoodPatch(patches[i])
  /\ pc \in {"get_args", "address_map", "global_data"} => patches = <<>>
  /\ pc = "begin_afl" => \A i \in DOMAIN patches : patches[i].kind = "data"
  /\ pc = "init_addr" => \A i \in DOMAIN patches : patches[i].kind \in {"data", "setup"}

SetUpInv ==
  InputInv /\ VariablesOK /\ ArgsInv /\ AddedInv /\ MapInv /\ GlobalsInv

\* What is placed is one fork server, at most, where it was asked for.
RightServer(p) ==
  IF options.forkserver_init_address # None
  THEN p.asked = options.forkserver_init_address
  ELSE \E f \in Visited :
         /\ p.at.block \in f.entries /\ p.at.offset = 0
         /\ f.name = IF options.forkserver_init_func = None THEN Main
                     ELSE options.forkserver_init_func

OneServer ==
  /\ ~added_entrypoint => Placed("forkserver") = {} /\ (HooksServer => Hooks = {})
  /\ added_entrypoint => \E i \in Placed("forkserver") :
       /\ Placed("forkserver") = {i} /\ RightServer(patches[i])
       /\ HooksServer =>
            /\ Hooks = {i + 1} /\ patches[i + 1].kind = "hook"
            /\ patches[i + 1].at = patches[i].at

ServerInv ==
  /\ OneServer
  /\ pc \in AfterInit /\ options.forkserver_init_address # None => added_entrypoint

\* A loop is there if and only if it is noted down; a function that it is asked
\* for is not passed over; an address that it is asked for is not forgotten.
Sought(f) == ~EntersProgram(f) /\ StartsPersistent(f)

LoopInv ==
  /\ added_persistent_mode <=> Placed("persistent") # {}
  /\ pc \in {"get_args", "functions", "persistent_addr"} \cup (AfterArgs \ AfterInit) =>
       (added_persistent_mode => options.persistent_mode_func # None)
  /\ \A k \in 1..(function - 1) :
       Sought(binary.functions[k]) => added_persistent_mode
  /\ pc \in AfterFunctions => function > Len(binary.functions)
  /\ pc \in AfterPersistent /\ options.persistent_mode_address # None =>
       added_persistent_mode
  /\ pc \in AfterHook /\ options.hook_loc_address # None => Hooks # {}

AnnounceInv == pc \in AfterAnnounce => added_entrypoint /\ messages = Messages

-------------------------------------------------------------------------------
(***************************************************************************)
(* Numbers in finite sets.                                                 *)
(***************************************************************************)
\* A finite set of numbers that is not empty has a greatest one.
LEMMA GreatestExists ==
  ASSUME NEW S \in SUBSET Nat, IsFiniteSet(S), S # {}
  PROVE  Greatest(S) \in S /\ \A n \in S : n <= Greatest(S)
<1> DEFINE HasOne(U) == \E m \in U : \A n \in U : n <= m
           Bad == {U \in FiniteSubsetsOf(Nat) : U # {} /\ ~HasOne(U)}
<1>1. Bad = {}
  <2> SUFFICES ASSUME Bad # {}
               PROVE  FALSE
    OBVIOUS
  <2>1. PICK U \in Bad : \A V \in Bad : <<V, U>> \notin StrictSubsetOrdering(Nat)
    <3>1. Bad \subseteq FiniteSubsetsOf(Nat)
      OBVIOUS
    <3>2. QED
      BY <3>1, WFMin, FS_StrictSubsetOrderingWellFounded
  <2>2. U \subseteq Nat /\ IsFiniteSet(U) /\ U # {} /\ ~HasOne(U)
    BY DEF FiniteSubsetsOf
  <2>3. PICK x \in U : TRUE
    BY <2>2
  <2>4. U \ {x} \in FiniteSubsetsOf(Nat) /\ U \ {x} \notin Bad
    <3>1. IsFiniteSet(U \ {x})
      BY <2>2, FS_RemoveElement
    <3>2. QED
      BY <2>1, <2>2, <2>3, <3>1 DEF FiniteSubsetsOf, StrictSubsetOrdering
  <2>5. U \ {x} = {} \/ HasOne(U \ {x})
    BY <2>4
  <2>6. QED
    BY <2>2, <2>3, <2>5
<1>2. HasOne(S)
  BY <1>1 DEF FiniteSubsetsOf
<1>3. QED
  BY <1>2 DEF Greatest

-------------------------------------------------------------------------------
(***************************************************************************)
(* The arguments, the address map and the data of the binary.              *)
(***************************************************************************)
\* What is known of a command line and of a binary.
LEMMA InputFacts ==
  ASSUME InputInv
  PROVE  /\ options \in OptionRecord
         /\ options.hook_location = "address" <=> options.hook_loc_address # None
         /\ binary.blocks # {} /\ binary.blocks \subseteq Nat \ {0}
         /\ IsFiniteSet(binary.blocks)
         /\ binary.size \in [binary.blocks -> Nat \ {0}]
         /\ binary.entry_point \in binary.blocks
         /\ binary.functions \in Seq(Function(binary.blocks))
         /\ Len(binary.functions) \in Nat
         /\ DOMAIN binary.functions = 1..Len(binary.functions)
         /\ \A i \in 1..Len(binary.functions) :
              /\ binary.functions[i] \in Function(binary.blocks)
              /\ binary.functions[i].heads \subseteq binary.functions[i].blocks
              /\ binary.functions[i].entries \subseteq binary.functions[i].blocks
<1>1. options \in OptionRecord
  BY OptionsAssumption DEF InputInv
<1>2. options.hook_location = "address" <=> options.hook_loc_address # None
  BY OptionsAssumption DEF InputInv
<1>3. /\ binary.blocks # {} /\ binary.blocks \subseteq Nat \ {0}
      /\ IsFiniteSet(binary.blocks)
      /\ binary.size \in [binary.blocks -> Nat \ {0}]
      /\ binary.entry_point \in binary.blocks
      /\ binary.functions \in Seq(Function(binary.blocks))
  BY BinariesAssumption DEF InputInv
<1>4. \A i \in DOMAIN binary.functions :
        /\ binary.functions[i].heads \subseteq binary.functions[i].blocks
        /\ binary.functions[i].entries \subseteq binary.functions[i].blocks
  BY BinariesAssumption DEF InputInv
<1>5. /\ Len(binary.functions) \in Nat
      /\ DOMAIN binary.functions = 1..Len(binary.functions)
  BY <1>3, LenProperties
<1>6. \A i \in 1..Len(binary.functions) :
        binary.functions[i] \in Function(binary.blocks)
  BY <1>3, ElementOfSeq
<1>7. QED
  BY <1>1, <1>2, <1>3, <1>4, <1>5, <1>6

\* At first nothing is known but the inputs.
LEMMA SetUpInit ==
  ASSUME Init
  PROVE  SetUpInv
<1>1. InputInv
  BY DEF Init, InputInv
<1>2. VariablesOK
  <2>1. 1 \in 1..(Len(binary.functions) + 1)
    BY <1>1, InputFacts
  <2>2. added \in [binary.blocks -> Nat] /\ mappings \subseteq binary.blocks
    BY DEF Init
  <2>3. args \in [init_func : Names \cup {None}, count : Int \cup {None},
                  is_deferred : BOOLEAN, is_persistent : BOOLEAN,
                  is_sharedmem_fuzzing : BOOLEAN, hook_name : BOOLEAN]
    BY DEF Init
  <2>4. globals \in [PERSISTENT_MODE_SIGNATURE : BOOLEAN,
                     DEFERRED_INITIALISATION_SIGNATURE : BOOLEAN,
                     is_persistent : BOOLEAN, sharedmem_fuzzing : BOOLEAN]
    BY DEF Init
  <2>5. QED
    BY <2>1, <2>2, <2>3, <2>4 DEF Init, VariablesOK
<1>3. ArgsInv /\ AddedInv /\ MapInv /\ GlobalsInv
  BY <1>1, InputFacts
  DEF Init, ArgsInv, AddedInv, MapInv, GlobalsInv, AfterArgs, AfterMap, AfterData,
      AfterBegin, AfterInit, AfterFunctions, AfterPersistent, AfterHook,
      AfterAnnounce
<1>4. QED
  BY <1>1, <1>2, <1>3 DEF SetUpInv

\* The options and the binary stay the same throughout a run.
LEMMA InputsKept ==
  ASSUME [Next]_vars
  PROVE  options' = options /\ binary' = binary
BY DEF Next, GetArgs, CreateAddressMap, OtherRun, AddGlobalData, BeginModule,
   AddressForkserver, VisitFunction, FunctionsVisited, AddressPersistent,
   AddressHook, Announce, ShiftAlignment, Save, Ended, vars

\* What a step of the search and the placement leaves alone.
LEMMA LaterSteps ==
  ASSUME [Next]_vars, ~GetArgs, ~CreateAddressMap, ~AddGlobalData, ~BeginModule
  PROVE  /\ args' = args /\ mappings' = mappings /\ added' = added
         /\ globals' = globals
BY DEF Next, OtherRun, AddressForkserver, VisitFunction, FunctionsVisited,
   AddressPersistent, AddressHook, Announce, ShiftAlignment, Save, Ended, vars,
   map_file

\* The stages follow one another.
LEMMA Stages ==
  ASSUME [Next]_vars
  PROVE  /\ pc' \in {"get_args", "error", "exception"} \cup AfterArgs
              \/ pc' = pc
         /\ pc' \in AfterArgs => pc \in AfterArgs \/ GetArgs
         /\ pc' \in AfterMap => pc \in AfterMap \/ CreateAddressMap
         /\ pc' \in AfterData => pc \in AfterData \/ AddGlobalData
         /\ pc' \in AfterBegin => pc \in AfterBegin \/ BeginModule
BY DEF Next, GetArgs, CreateAddressMap, OtherRun, AddGlobalData, BeginModule,
   AddressForkserver, VisitFunction, FunctionsVisited, AddressPersistent,
   AddressHook, Announce, ShiftAlignment, Save, Ended, vars, Raise, AfterArgs,
   AfterMap, AfterData, AfterBegin, AfterInit, AfterFunctions, AfterPersistent,
   AfterHook, AfterAnnounce

\* A step keeps the types of all variables but the patches.
LEMMA VariablesStep ==
  ASSUME SetUpInv, [Next]_vars
  PROVE  VariablesOK'
<1> USE DEF SetUpInv
<1> DEFINE ArgsRecord == [init_func : Names \cup {None}, count : Int \cup {None},
                          is_deferred : BOOLEAN, is_persistent : BOOLEAN,
                          is_sharedmem_fuzzing : BOOLEAN, hook_name : BOOLEAN]
<1>1. options' = options /\ binary' = binary
  BY InputsKept
<1>2. args' \in ArgsRecord
  <2>1. CASE GetArgs
    <3>1. CASE Rejected /\ UNCHANGED args
      BY <3>1 DEF VariablesOK
    <3>2. Count \in Int \cup {None}
      BY InputFacts, OptionsAssumption DEF Count, OptionRecord
    <3>3. options.forkserver_init_func \in Names \cup {None}
      BY InputFacts DEF OptionRecord
    <3>4. options.hook_func_name \in BOOLEAN
      BY InputFacts DEF OptionRecord
    <3>5. AsksDeferred \in BOOLEAN /\ AsksPersistent \in BOOLEAN /\ AsksHook \in BOOLEAN
      BY DEF AsksDeferred, AsksPersistent, AsksHook
    <3>6. QED
      BY <2>1, <3>1, <3>2, <3>3, <3>4, <3>5 DEF GetArgs
  <2>2. CASE BeginModule
    <3>1. Main \in Names
      BY OptionsAssumption
    <3>2. QED
      BY <2>2, <3>1 DEF BeginModule, VariablesOK
  <2>3. CASE ~GetArgs /\ ~BeginModule
    <3>1. args' = args
      BY <2>3, LaterSteps DEF CreateAddressMap, AddGlobalData
    <3>2. QED
      BY <3>1 DEF VariablesOK
  <2>4. QED
    BY <2>1, <2>2, <2>3
<1>3. mappings' \subseteq binary'.blocks
  <2>1. CASE CreateAddressMap
    BY <1>1, <2>1 DEF CreateAddressMap
  <2>2. CASE ~CreateAddressMap
    <3>1. mappings' = mappings
      BY <2>2, LaterSteps DEF GetArgs, AddGlobalData, BeginModule, map_file
    <3>2. QED
      BY <1>1, <3>1 DEF VariablesOK
  <2>3. QED
    BY <2>1, <2>2
<1>4. added' \in [binary'.blocks -> Nat]
  <2>1. CASE AddGlobalData
    BY <1>1, <2>1, InputFacts DEF AddGlobalData, VariablesOK
  <2>2. CASE ~AddGlobalData
    <3>1. added' = added
      BY <2>2, LaterSteps DEF GetArgs, CreateAddressMap, BeginModule
    <3>2. QED
      BY <1>1, <3>1 DEF VariablesOK
  <2>3. QED
    BY <2>1, <2>2
<1>5. globals' \in [PERSISTENT_MODE_SIGNATURE : BOOLEAN,
                    DEFERRED_INITIALISATION_SIGNATURE : BOOLEAN,
                    is_persistent : BOOLEAN, sharedmem_fuzzing : BOOLEAN]
  <2>1. CASE AddGlobalData
    BY <2>1 DEF AddGlobalData, Globals, GlobalData, VariablesOK
  <2>2. CASE ~AddGlobalData
    <3>1. globals' = globals
      BY <2>2, LaterSteps DEF GetArgs, CreateAddressMap, BeginModule
    <3>2. QED
      BY <3>1 DEF VariablesOK
  <2>3. QED
    BY <2>1, <2>2
<1>6. function' \in 1..(Len(binary'.functions) + 1)
  <2>1. CASE VisitFunction
    BY <1>1, <2>1, InputFacts DEF VisitFunction, VariablesOK
  <2>2. CASE ~VisitFunction
    <3>1. function' = function
      BY <2>2
      DEF Next, GetArgs, CreateAddressMap, OtherRun, AddGlobalData, BeginModule,
          AddressForkserver, FunctionsVisited, AddressPersistent, AddressHook,
          Announce, ShiftAlignment, Save, Ended, vars
    <3>2. QED
      BY <1>1, <3>1 DEF VariablesOK
  <2>3. QED
    BY <2>1, <2>2
<1>7. /\ added_entrypoint' \in BOOLEAN /\ added_persistent_mode' \in BOOLEAN
      /\ foreign' \in BOOLEAN
  BY DEF VariablesOK, Next, GetArgs, CreateAddressMap, OtherRun, AddGlobalData,
     BeginModule, AddressForkserver, VisitFunction, FunctionsVisited,
     AddressPersistent, AddressHook, Announce, ShiftAlignment, Save, Ended, vars,
     map_file
<1>8. messages' \subseteq {"persistent", "deferred", "hook"}
  BY DEF VariablesOK, Next, GetArgs, CreateAddressMap, OtherRun, AddGlobalData,
     BeginModule, AddressForkserver, VisitFunction, FunctionsVisited,
     AddressPersistent, AddressHook, Announce, ShiftAlignment, Save, Ended, vars,
     Messages
<1>9. QED
  BY <1>2, <1>3, <1>4, <1>5, <1>6, <1>7, <1>8, Stages DEF VariablesOK

\* The arguments, once made, go on to be what the options ask for.
LEMMA ArgsStep ==
  ASSUME SetUpInv, [Next]_vars
  PROVE  ArgsInv'
<1> USE DEF SetUpInv
<1>1. options' = options
  BY InputsKept
<1>2. CASE GetArgs
  <2>1. CASE pc' = "error"
    BY <2>1
    DEF ArgsInv, AfterArgs, AfterMap, AfterData, AfterBegin, AfterInit,
        AfterFunctions, AfterPersistent, AfterHook, AfterAnnounce
  <2>2. CASE pc' # "error"
    <3>1. /\ pc' = "address_map" /\ ~Rejected
          /\ args' = [init_func |-> options.forkserver_init_func, count |-> Count,
                      is_deferred |-> AsksDeferred,
                      is_persistent |-> AsksPersistent,
                      is_sharedmem_fuzzing |-> AsksHook,
                      hook_name |-> AsksHook \/ options.hook_func_name]
      BY <1>2, <2>2 DEF GetArgs
    <3>2. /\ args'.init_func = options.forkserver_init_func
          /\ args'.count = Count
          /\ args'.is_deferred <=> AsksDeferred
          /\ args'.is_persistent <=> AsksPersistent
          /\ args'.is_sharedmem_fuzzing <=> AsksHook
          /\ args'.hook_name <=> (AsksHook \/ options.hook_func_name)
      BY <3>1
    <3>3. QED
      BY <1>1, <3>1, <3>2
      DEF ArgsInv, Rejected, Count, AsksDeferred, AsksPersistent, AsksHook,
          AfterBegin, AfterInit, AfterFunctions, AfterPersistent, AfterHook,
          AfterAnnounce
  <2>3. QED
    BY <2>1, <2>2
<1>3. CASE BeginModule
  <2>1. pc = "begin_afl" /\ pc \in AfterArgs
    BY <1>3 DEF BeginModule, AfterArgs, AfterMap, AfterData
  <2>2. CASE pc' = "exception"
    BY <2>2
    DEF ArgsInv, AfterArgs, AfterMap, AfterData, AfterBegin, AfterInit,
        AfterFunctions, AfterPersistent, AfterHook, AfterAnnounce
  <2>3. CASE pc' # "exception"
    <3>1. /\ pc' = "init_addr"
          /\ args' = [args EXCEPT !.init_func = IF AsksDeferred THEN @ ELSE Main]
      BY <1>3, <2>3 DEF BeginModule, Raise
    <3>2. /\ args'.init_func = IF AsksDeferred THEN args.init_func ELSE Main
          /\ args'.count = args.count
          /\ args'.is_deferred = args.is_deferred
          /\ args'.is_persistent = args.is_persistent
          /\ args'.is_sharedmem_fuzzing = args.is_sharedmem_fuzzing
          /\ args'.hook_name = args.hook_name
      BY <3>1 DEF VariablesOK
    <3>3. QED
      BY <1>1, <2>1, <3>1, <3>2
      DEF ArgsInv, Rejected, Count, AsksDeferred, AsksPersistent, AsksHook
  <2>4. QED
    BY <2>2, <2>3
<1>4. CASE ~GetArgs /\ ~BeginModule
  <2>1. args' = args
    BY <1>4, LaterSteps DEF CreateAddressMap, AddGlobalData
  <2>2. /\ pc' \in AfterArgs => pc \in AfterArgs
        /\ pc' \in AfterBegin => pc \in AfterBegin
    BY <1>4, Stages
  <2>3. pc' \in {"address_map", "global_data", "begin_afl"} =>
          pc \in {"address_map", "global_data", "begin_afl"}
    BY <1>4
    DEF Next, CreateAddressMap, OtherRun, AddGlobalData, AddressForkserver,
        VisitFunction, FunctionsVisited, AddressPersistent, AddressHook, Announce,
        ShiftAlignment, Save, Ended, vars, Raise
  <2>4. QED
    BY <1>1, <2>1, <2>2, <2>3
    DEF ArgsInv, Rejected, Count, AsksDeferred, AsksPersistent, AsksHook
<1>5. QED
  BY <1>2, <1>3, <1>4

\* The block of the entry point grows once, the map and the data stay.
LEMMA DataStep ==
  ASSUME SetUpInv, [Next]_vars
  PROVE  (AddedInv /\ MapInv /\ GlobalsInv)'
<1> USE DEF SetUpInv
<1>1. options' = options /\ binary' = binary
  BY InputsKept
<1>2. AddedInv'
  <2>1. CASE AddGlobalData
    <3>1. /\ pc = "global_data" /\ pc' = "begin_afl"
          /\ added' = [added EXCEPT ![binary.entry_point] = @ + 1]
      BY <2>1 DEF AddGlobalData
    <3>2. QED
      BY <1>1, <3>1, InputFacts DEF AddedInv, VariablesOK
  <2>2. CASE ~AddGlobalData
    <3>1. added' = added
      BY <2>2, LaterSteps DEF GetArgs, CreateAddressMap, BeginModule
    <3>2. pc' \in {"get_args", "address_map", "global_data"} =>
            pc \in {"get_args", "address_map", "global_data"}
      BY <2>2
      DEF Next, GetArgs, CreateAddressMap, OtherRun, BeginModule,
          AddressForkserver, VisitFunction, FunctionsVisited, AddressPersistent,
          AddressHook, Announce, ShiftAlignment, Save, Ended, vars, Raise
    <3>3. QED
      BY <1>1, <3>1, <3>2 DEF AddedInv
  <2>3. QED
    BY <2>1, <2>2
<1>3. MapInv'
  <2>1. CASE CreateAddressMap
    BY <1>1, <2>1 DEF CreateAddressMap, MapInv
  <2>2. CASE ~CreateAddressMap
    <3>1. mappings' = mappings
      BY <2>2, LaterSteps DEF GetArgs, AddGlobalData, BeginModule, map_file
    <3>2. QED
      BY <1>1, <2>2, <3>1, Stages DEF MapInv
  <2>3. QED
    BY <2>1, <2>2
<1>4. GlobalsInv'
  <2>1. CASE AddGlobalData
    <3>1. pc \in AfterArgs /\ globals' = Globals
      BY <2>1 DEF AddGlobalData, AfterArgs, AfterMap
    <3>2. /\ globals'.PERSISTENT_MODE_SIGNATURE = args.is_persistent
          /\ globals'.is_persistent = args.is_persistent
          /\ globals'.DEFERRED_INITIALISATION_SIGNATURE = args.is_deferred
          /\ globals'.sharedmem_fuzzing = args.is_sharedmem_fuzzing
      BY <3>1 DEF Globals, GlobalData
    <3>3. QED
      BY <1>1, <3>1, <3>2
      DEF ArgsInv, GlobalsInv, AsksDeferred, AsksPersistent, AsksHook
  <2>2. CASE ~AddGlobalData
    <3>1. globals' = globals
      BY <2>2, LaterSteps DEF GetArgs, CreateAddressMap, BeginModule
    <3>2. QED
      BY <1>1, <2>2, <3>1, Stages
      DEF GlobalsInv, AsksDeferred, AsksPersistent, AsksHook
  <2>3. QED
    BY <2>1, <2>2
<1>5. QED
  BY <1>2, <1>3, <1>4

\* Options, arguments, map and data of the binary belong together.
THEOREM SetUpInvariance == Spec => []SetUpInv
<1>1. SetUpInv /\ [Next]_vars => SetUpInv'
  <2> SUFFICES ASSUME SetUpInv, [Next]_vars
               PROVE  SetUpInv'
    OBVIOUS
  <2>1. InputInv'
    BY InputsKept DEF SetUpInv, InputInv
  <2>2. QED
    BY <2>1, VariablesStep, ArgsStep, DataStep DEF SetUpInv
<1>2. QED
  BY <1>1, SetUpInit, PTL DEF Spec

-------------------------------------------------------------------------------
(***************************************************************************)
(* Sequences of patches.                                                   *)
(***************************************************************************)
\* A finite set of numbers can be listed in ascending order.
LEMMA SortingExists ==
  ASSUME NEW S \in SUBSET Nat, IsFiniteSet(S)
  PROVE  \E s \in [1..Cardinality(S) -> S] :
           \A i, j \in 1..Cardinality(S) : i < j => s[i] < s[j]
<1> DEFINE Sorts(s, U) == \A i, j \in 1..Cardinality(U) : i < j => s[i] < s[j]
           Listed(U) == \E s \in [1..Cardinality(U) -> U] : Sorts(s, U)
           Bad == {U \in FiniteSubsetsOf(Nat) : ~Listed(U)}
<1> HIDE DEF Sorts
<1>1. Bad = {}
  <2> SUFFICES ASSUME Bad # {}
               PROVE  FALSE
    OBVIOUS
  <2>1. PICK U \in Bad : \A V \in Bad : <<V, U>> \notin StrictSubsetOrdering(Nat)
    <3>1. Bad \subseteq FiniteSubsetsOf(Nat)
      OBVIOUS
    <3>2. QED
      BY <3>1, WFMin, FS_StrictSubsetOrderingWellFounded
  <2>2. U \subseteq Nat /\ IsFiniteSet(U) /\ ~Listed(U)
    BY DEF FiniteSubsetsOf
  <2>3. U # {}
    <3> SUFFICES ASSUME U = {}
                 PROVE  FALSE
      OBVIOUS
    <3>1. 1..Cardinality(U) = {}
      BY FS_EmptySet
    <3>2. [x \in {} |-> 0] \in [1..Cardinality(U) -> U]
      BY <3>1
    <3>3. Sorts([x \in {} |-> 0], U)
      BY <3>1 DEF Sorts
    <3>4. QED
      BY <2>2, <3>2, <3>3
  <2> DEFINE g == Greatest(U)
             V == U \ {g}
             n == Cardinality(U)
  <2>4. g \in U /\ \A m \in U : m <= g
    BY <2>2, <2>3, GreatestExists
  <2> HIDE DEF g
  <2>5. /\ IsFiniteSet(V) /\ n \in Nat \ {0} /\ Cardinality(V) = n - 1
    BY <2>2, <2>3, <2>4, FS_RemoveElement, FS_CardinalityType, FS_EmptySet
  <2>6. Listed(V)
    <3>1. V \in FiniteSubsetsOf(Nat) /\ <<V, U>> \in StrictSubsetOrdering(Nat)
      BY <2>2, <2>4, <2>5 DEF FiniteSubsetsOf, StrictSubsetOrdering
    <3>2. QED
      BY <2>1, <3>1
  <2>7. PICK s \in [1..(n - 1) -> V] : Sorts(s, V)
    BY <2>5, <2>6
  <2> DEFINE t == [i \in 1..n |-> IF i = n THEN g ELSE s[i]]
  <2>8. t \in [1..n -> U]
    <3> SUFFICES ASSUME NEW i \in 1..n, i # n
                 PROVE  s[i] \in U
      BY <2>4, <2>5
    <3>1. i \in 1..(n - 1)
      BY <2>5
    <3>2. QED
      BY <3>1
  <2>9. Sorts(t, U)
    <3> SUFFICES ASSUME NEW i \in 1..n, NEW j \in 1..n, i < j
                 PROVE  t[i] < t[j]
      BY DEF Sorts
    <3>1. i \in 1..(n - 1) /\ t[i] = s[i] /\ s[i] \in V
      BY <2>5
    <3>2. CASE j = n
      <4>1. t[j] = g
        BY <3>2
      <4>2. s[i] \in U /\ s[i] # g /\ s[i] \in Nat /\ g \in Nat
        BY <2>2, <2>4, <3>1
      <4>3. QED
        BY <2>4, <3>1, <4>1, <4>2
    <3>3. CASE j # n
      <4>1. j \in 1..(n - 1) /\ t[j] = s[j]
        BY <2>5, <3>3
      <4>2. QED
        BY <2>5, <2>7, <3>1, <4>1 DEF Sorts
    <3>4. QED
      BY <3>2, <3>3
  <2>10. QED
    BY <2>2, <2>8, <2>9
<1>2. Listed(S)
  BY <1>1 DEF FiniteSubsetsOf
<1>3. QED
  BY <1>2 DEF Sorts

\* One sequence behind another, by index.
LEMMA Joined ==
  ASSUME NEW S, NEW s \in Seq(S), NEW t \in Seq(S)
  PROVE  /\ Len(s) \in Nat /\ Len(t) \in Nat /\ s \o t \in Seq(S)
         /\ DOMAIN s = 1..Len(s) /\ DOMAIN t = 1..Len(t)
         /\ DOMAIN (s \o t) = 1..(Len(s) + Len(t))
         /\ Len(s \o t) = Len(s) + Len(t)
         /\ \A i \in 1..Len(s) : (s \o t)[i] = s[i]
         /\ \A i \in 1..Len(t) : (s \o t)[Len(s) + i] = t[i]
         /\ \A i \in 1..(Len(s) + Len(t)) : i > Len(s) =>
              i - Len(s) \in 1..Len(t) /\ (s \o t)[i] = t[i - Len(s)]
<1>1. /\ Len(s) \in Nat /\ Len(t) \in Nat
      /\ DOMAIN s = 1..Len(s) /\ DOMAIN t = 1..Len(t)
  BY LenProperties
<1>2. /\ s \o t \in Seq(S) /\ Len(s \o t) = Len(s) + Len(t)
      /\ \A i \in 1..(Len(s) + Len(t)) :
           (s \o t)[i] = IF i <= Len(s) THEN s[i] ELSE t[i - Len(s)]
  BY ConcatProperties
<1>3. DOMAIN (s \o t) = 1..(Len(s) + Len(t))
  BY <1>2, LenProperties
<1>4. QED
  BY <1>1, <1>2, <1>3

\* The same for a sequence and one more element.
LEMMA Appended ==
  ASSUME NEW S, NEW s \in Seq(S), NEW e \in S
  PROVE  /\ Len(s) \in Nat /\ Append(s, e) \in Seq(S)
         /\ DOMAIN s = 1..Len(s) /\ DOMAIN Append(s, e) = 1..(Len(s) + 1)
         /\ \A i \in 1..Len(s) : Append(s, e)[i] = s[i]
         /\ Append(s, e)[Len(s) + 1] = e
<1>1. Append(s, e) \in Seq(S) /\ Len(Append(s, e)) = Len(s) + 1
  BY AppendProperties
<1>2. DOMAIN Append(s, e) = 1..(Len(s) + 1)
  BY <1>1, LenProperties
<1>3. QED
  BY <1>1, <1>2, AppendProperties, LenProperties

-------------------------------------------------------------------------------
(***************************************************************************)
(* What the actions register.                                              *)
(***************************************************************************)
\* A patch in a block, at an offset or at the beginning.
LEMMA PatchInBlock ==
  ASSUME SetUpInv, NEW kind \in Kinds, NEW b \in binary.blocks, NEW offset \in Nat,
         NEW hook \in BOOLEAN
  PROVE  LET p == Patch(kind, b, offset, hook) IN
         /\ p \in PatchRecord
         /\ p.kind = kind /\ p.hook = hook /\ p.asked = b + offset
         /\ p.at = [block |-> b, offset |-> offset]
         /\ p.at.block = b /\ p.at.offset = offset
         /\ offset = 0 => p.lands = b
         /\ \/ p.lands = p.asked
            \/ /\ p.lands = p.asked - 1
               /\ p.at.block = binary.entry_point /\ p.at.offset > 0
<1>1. b \in Nat \ {0} /\ added[b] \in {0, 1} /\ (added[b] = 1 => b = binary.entry_point)
  BY InputFacts DEF SetUpInv, AddedInv
<1>2. b + offset \in Nat /\ LandsAt(b, offset) \in Nat
  BY <1>1 DEF LandsAt
<1>3. [block |-> b, offset |-> offset] \in Place
  BY DEF Place
<1>4. Patch(kind, b, offset, hook) \in PatchRecord
  BY <1>2, <1>3 DEF Patch, PatchRecord
<1>5. \/ LandsAt(b, offset) = b + offset
      \/ LandsAt(b, offset) = b + offset - 1 /\ b = binary.entry_point /\ offset > 0
  BY <1>1 DEF LandsAt
<1>6. offset = 0 => LandsAt(b, offset) = b
  BY DEF LandsAt
<1>7. LET p == Patch(kind, b, offset, hook) IN
      /\ p.kind = kind /\ p.asked = b + offset /\ p.lands = LandsAt(b, offset)
      /\ p.at = [block |-> b, offset |-> offset]
      /\ p.at.block = b /\ p.at.offset = offset
  BY DEF Patch
<1>8. Patch(kind, b, offset, hook).hook = hook
  BY DEF Patch
<1>9. QED
  BY <1>1, <1>4, <1>5, <1>6, <1>7, <1>8

\* What a hook and a loop are for makes a patch that is placed right a good one.
LEMMA Good ==
  ASSUME NEW p, \/ p.lands = p.asked
                \/ /\ p.lands = p.asked - 1
                   /\ p.at.block = binary.entry_point /\ p.at.offset > 0,
         p.hook <=> p.kind = "hook" \/ (p.kind = "persistent" /\ HookInLoop),
         p.kind = "hook" => options.hook_location \in {"FORKSERVER_INIT", "address"},
         p.kind = "persistent" => AsksPersistent
  PROVE  GoodPatch(p)
BY DEF GoodPatch

\* insert_patch_at_address finds the block that begins last before the address,
\* and the address is in it or behind it.
LEMMA Placeable ==
  ASSUME SetUpInv, pc \in AfterMap, NEW a \in Nat, Insertable(a)
  PROVE  /\ ~foreign /\ Found(a) \in binary.blocks /\ a - Found(a) \in Nat
         /\ a - Found(a) <= binary.size[Found(a)] + added[Found(a)]
         /\ \A m \in binary.blocks : m <= a => m <= Found(a)
<1>1. mappings = binary.blocks
  BY DEF SetUpInv, MapInv
<1>2. /\ binary.blocks \subseteq Nat \ {0} /\ IsFiniteSet(binary.blocks)
      /\ binary.blocks # {} /\ binary.size \in [binary.blocks -> Nat \ {0}]
      /\ added \in [binary.blocks -> Nat]
  BY InputFacts DEF SetUpInv, VariablesOK
<1>3. NotBehind(a) = {m \in binary.blocks : m <= a}
  BY <1>1, <1>2 DEF NotBehind, Behind
<1>4. IsFiniteSet(NotBehind(a)) /\ NotBehind(a) \in SUBSET Nat
  BY <1>2, <1>3, FS_Subset
<1>5. /\ Found(a) \in binary.blocks
      /\ NotBehind(a) # {} => \A m \in NotBehind(a) : m <= Found(a)
  BY <1>1, <1>2, <1>3, <1>4, GreatestExists DEF Found
<1>6. /\ ~foreign
      /\ a - Found(a) \in 0..(binary.size[Found(a)] + added[Found(a)])
  BY DEF Insertable
<1>7. QED
  BY <1>2, <1>3, <1>5, <1>6

\* The fork server, with a hook behind it or not.
LEMMA ServerShape ==
  ASSUME NEW p \in PatchRecord, NEW h \in PatchRecord
  PROVE  LET t == ServerPatches(p, h) IN
         /\ t \in Seq(PatchRecord) /\ t[1] = p
         /\ Len(t) = IF options.hook_location = "FORKSERVER_INIT" THEN 2 ELSE 1
         /\ options.hook_location = "FORKSERVER_INIT" => t[2] = h
BY DEF ServerPatches

\* The trampolines of a function are at the beginning of some of its blocks.
LEMMA TracingShape ==
  ASSUME SetUpInv, NEW f \in Function(binary.blocks), f.heads \subseteq f.blocks
  PROVE  /\ Tracing(f) \in Seq(PatchRecord)
         /\ \A n \in 1..Len(Tracing(f)) :
              \E h \in f.heads : Tracing(f)[n] = AtEntry("trampoline", h)
<1> DEFINE n == Cardinality(f.heads)
           order == CHOOSE s \in [1..n -> f.heads] :
                      \A i, j \in 1..n : i < j => s[i] < s[j]
<1>1. f.heads \subseteq binary.blocks /\ f.heads \in SUBSET Nat /\ IsFiniteSet(f.heads)
  BY InputFacts, FS_Subset DEF SetUpInv, Function
<1>2. n \in Nat /\ order \in [1..n -> f.heads]
  BY <1>1, SortingExists, FS_CardinalityType
<1> HIDE DEF n, order
<1>3. Tracing(f) = [i \in 1..n |-> AtEntry("trampoline", order[i])]
  BY DEF Tracing, n, order
<1>4. \A i \in 1..n : AtEntry("trampoline", order[i]) \in PatchRecord
  <2> SUFFICES ASSUME NEW i \in 1..n
               PROVE  AtEntry("trampoline", order[i]) \in PatchRecord
    OBVIOUS
  <2>1. order[i] \in binary.blocks
    BY <1>1, <1>2
  <2>2. QED
    BY <2>1, PatchInBlock DEF AtEntry, Kinds
<1>5. /\ Tracing(f) \in Seq(PatchRecord) /\ Len(Tracing(f)) = n
  BY <1>2, <1>3, <1>4
<1>6. QED
  BY <1>2, <1>3, <1>5

\* The patches of a function are those of its server, its loop and its
\* trampolines, one behind the other.
LEMMA FunctionParts ==
  ASSUME SetUpInv, NEW f \in Function(binary.blocks), f.heads \subseteq f.blocks,
         NEW first \in f.blocks, NEW last \in f.blocks
  PROVE  /\ FunctionPatches(f, first, last)
              = (ServerPart(f, first) \o LoopPart(f, last)) \o Tracing(f)
         /\ ServerPart(f, first) \in Seq(PatchRecord)
         /\ LoopPart(f, last) \in Seq(PatchRecord)
         /\ Tracing(f) \in Seq(PatchRecord)
         /\ Len(ServerPart(f, first)) = ServerLength(f)
         /\ Len(LoopPart(f, last)) = LoopLength(f)
<1>1. first \in binary.blocks /\ last \in binary.blocks
  BY DEF Function
<1>2. /\ AtEntry("forkserver", first) \in PatchRecord
      /\ Patch("hook", first, 0, TRUE) \in PatchRecord
      /\ Patch("persistent", last, 0, HookInLoop) \in PatchRecord
  BY <1>1, PatchInBlock DEF AtEntry, Kinds, HookInLoop
<1>3. /\ ServerPart(f, first) \in Seq(PatchRecord)
      /\ Len(ServerPart(f, first)) = ServerLength(f)
  BY <1>2, ServerShape, EmptySeq DEF ServerPart, ServerLength, HooksServer
<1>4. /\ LoopPart(f, last) \in Seq(PatchRecord)
      /\ Len(LoopPart(f, last)) = LoopLength(f)
  BY <1>2 DEF LoopPart, LoopLength
<1>5. FunctionPatches(f, first, last)
        = (ServerPart(f, first) \o LoopPart(f, last)) \o Tracing(f)
  BY DEF FunctionPatches, TracingLast, ServerPart, LoopPart
<1>6. QED
  BY <1>3, <1>4, <1>5, TracingShape

\* By index.
LEMMA FunctionShape ==
  ASSUME SetUpInv, NEW f \in Function(binary.blocks), f.heads \subseteq f.blocks,
         NEW first \in f.blocks, NEW last \in f.blocks
  PROVE  LET t == FunctionPatches(f, first, last)
             s == ServerLength(f)
             l == LoopLength(f)
         IN  /\ t \in Seq(PatchRecord) /\ Len(t) \in Nat /\ DOMAIN t = 1..Len(t)
             /\ Len(t) >= s + l
             /\ StartsServer(f) => t[1] = AtEntry("forkserver", first)
             /\ StartsServer(f) /\ HooksServer => t[2] = Patch("hook", first, 0, TRUE)
             /\ StartsPersistent(f) =>
                  t[s + 1] = Patch("persistent", last, 0, HookInLoop)
             /\ \A n \in DOMAIN t : n > s + l =>
                  \E h \in f.heads : t[n] = AtEntry("trampoline", h)
<1> DEFINE A == ServerPart(f, first)
           B == LoopPart(f, last)
           T == Tracing(f)
           t == FunctionPatches(f, first, last)
           s == ServerLength(f)
           l == LoopLength(f)
<1>1. first \in binary.blocks /\ last \in binary.blocks
  BY DEF Function
<1>2. /\ A \in Seq(PatchRecord) /\ B \in Seq(PatchRecord) /\ T \in Seq(PatchRecord)
      /\ Len(A) = s /\ Len(B) = l /\ t = (A \o B) \o T
      /\ s \in {0, 1, 2} /\ l \in {0, 1}
  BY FunctionParts DEF ServerLength, LoopLength
<1>3. StartsServer(f) =>
        /\ s \in {1, 2} /\ A[1] = AtEntry("forkserver", first)
        /\ HooksServer => s = 2 /\ A[2] = Patch("hook", first, 0, TRUE)
  <2>1. /\ AtEntry("forkserver", first) \in PatchRecord
        /\ Patch("hook", first, 0, TRUE) \in PatchRecord
    BY <1>1, PatchInBlock DEF AtEntry, Kinds
  <2>2. QED
    BY <2>1, ServerShape DEF ServerPart, ServerLength, HooksServer
<1>4. StartsPersistent(f) =>
        l = 1 /\ B[1] = Patch("persistent", last, 0, HookInLoop)
  BY DEF LoopPart, LoopLength
<1>5. \A n \in 1..Len(T) : \E h \in f.heads : T[n] = AtEntry("trampoline", h)
  BY TracingShape
<1> HIDE DEF A, B, T, t, s, l
<1> DEFINE AB == A \o B
<1>6. /\ AB \in Seq(PatchRecord) /\ Len(AB) = s + l /\ t = AB \o T
      /\ \A i \in 1..s : AB[i] = A[i]
      /\ \A i \in 1..l : AB[s + i] = B[i]
  BY <1>2, Joined
<1> HIDE DEF AB
<1>7. /\ t \in Seq(PatchRecord) /\ Len(T) \in Nat /\ Len(t) = s + l + Len(T)
      /\ DOMAIN t = 1..Len(t)
      /\ \A i \in 1..(s + l) : t[i] = AB[i]
      /\ \A i \in 1..Len(t) : i > s + l =>
           t[i] = T[i - (s + l)] /\ i - (s + l) \in 1..Len(T)
  <2> DEFINE joined == AB \o T
  <2>0. t = joined /\ AB \in Seq(PatchRecord) /\ T \in Seq(PatchRecord)
    BY <1>2, <1>6
  <2>3. /\ joined \in Seq(PatchRecord) /\ Len(T) \in Nat
        /\ Len(joined) = Len(AB) + Len(T)
        /\ DOMAIN joined = 1..(Len(AB) + Len(T))
        /\ \A i \in 1..Len(AB) : joined[i] = AB[i]
        /\ \A i \in 1..(Len(AB) + Len(T)) : i > Len(AB) =>
             i - Len(AB) \in 1..Len(T) /\ joined[i] = T[i - Len(AB)]
    BY <2>0, Joined
  <2> HIDE DEF joined
  <2>1. /\ t \in Seq(PatchRecord) /\ Len(T) \in Nat
        /\ Len(t) = Len(AB) + Len(T)
        /\ DOMAIN t = 1..(Len(AB) + Len(T))
        /\ \A i \in 1..Len(AB) : t[i] = AB[i]
        /\ \A i \in 1..(Len(AB) + Len(T)) : i > Len(AB) =>
             i - Len(AB) \in 1..Len(T) /\ t[i] = T[i - Len(AB)]
    BY <2>0, <2>3
  <2>2. QED
    BY <1>6, <2>1
<1>8. StartsServer(f) =>
        /\ t[1] = AtEntry("forkserver", first)
        /\ HooksServer => t[2] = Patch("hook", first, 0, TRUE)
  <2>1. \A i \in 1..s : i \in 1..(s + l) /\ t[i] = A[i]
    BY <1>2, <1>6, <1>7
  <2>2. s \in {1, 2} => 1 \in 1..s
    OBVIOUS
  <2>3. s = 2 => 2 \in 1..s
    OBVIOUS
  <2>4. QED
    BY <1>3, <2>1, <2>2, <2>3
<1>9. StartsPersistent(f) => t[s + 1] = Patch("persistent", last, 0, HookInLoop)
  BY <1>2, <1>4, <1>6, <1>7
<1>10. Len(t) >= s + l /\ Len(t) \in Nat
  BY <1>2, <1>7
<1>11. \A n \in DOMAIN t : n > s + l => \E h \in f.heads : t[n] = AtEntry("trampoline", h)
  BY <1>5, <1>7
<1>12. QED
  BY <1>7, <1>8, <1>9, <1>10, <1>11 DEF t, s, l

\* The kinds of a function's patches, and where they are.
LEMMA FunctionKinds ==
  ASSUME SetUpInv, NEW f \in Function(binary.blocks), f.heads \subseteq f.blocks,
         NEW first \in f.blocks, NEW last \in f.blocks
  PROVE  LET t == FunctionPatches(f, first, last) IN
         /\ StartsServer(f) => 1 \in DOMAIN t
         /\ StartsServer(f) /\ HooksServer => 2 \in DOMAIN t
         /\ StartsPersistent(f) => ServerLength(f) + 1 \in DOMAIN t
         /\ \A n \in DOMAIN t :
              /\ GoodPatch(t[n]) /\ t[n].lands = t[n].asked
              /\ t[n].kind \in {"forkserver", "hook", "persistent", "trampoline"}
              /\ t[n].at.offset = 0 /\ t[n].at.block \in f.blocks
              /\ t[n].kind = "forkserver" <=> StartsServer(f) /\ n = 1
              /\ t[n].kind = "hook" <=> StartsServer(f) /\ HooksServer /\ n = 2
              /\ t[n].kind = "persistent" <=>
                   StartsPersistent(f) /\ n = ServerLength(f) + 1
              /\ t[n].kind \in {"forkserver", "hook"} =>
                   t[n].at = [block |-> first, offset |-> 0]
              /\ t[n].kind = "persistent" => t[n].at.block = last
              /\ t[n].kind = "trampoline" => n > ServerLength(f) + LoopLength(f)
<1> DEFINE t == FunctionPatches(f, first, last)
           s == ServerLength(f)
           l == LoopLength(f)
<1>1. first \in binary.blocks /\ last \in binary.blocks /\ f.heads \subseteq binary.blocks
      /\ f.blocks \subseteq binary.blocks
  BY DEF Function
<1>2. /\ t \in Seq(PatchRecord) /\ Len(t) \in Nat /\ DOMAIN t = 1..Len(t)
      /\ Len(t) >= s + l
      /\ StartsServer(f) => t[1] = AtEntry("forkserver", first)
      /\ StartsServer(f) /\ HooksServer => t[2] = Patch("hook", first, 0, TRUE)
      /\ StartsPersistent(f) => t[s + 1] = Patch("persistent", last, 0, HookInLoop)
      /\ \A n \in DOMAIN t : n > s + l =>
           \E h \in f.heads : t[n] = AtEntry("trampoline", h)
  BY FunctionShape
<1>3. /\ s = IF StartsServer(f) THEN IF HooksServer THEN 2 ELSE 1 ELSE 0
      /\ l = IF StartsPersistent(f) THEN 1 ELSE 0
  BY DEF ServerLength, LoopLength
<1> HIDE DEF t, s, l
<1> DEFINE Plain(p, kind, b) == /\ p.kind = kind /\ p.lands = p.asked
                                /\ p.at.offset = 0 /\ p.at.block = b
                                /\ p.at = [block |-> b, offset |-> 0]
<1>4. \A h \in f.heads : LET p == AtEntry("trampoline", h) IN
        Plain(p, "trampoline", h) /\ p.hook = FALSE
  <2> SUFFICES ASSUME NEW h \in f.heads
               PROVE  LET p == Patch("trampoline", h, 0, FALSE) IN
                      Plain(p, "trampoline", h) /\ p.hook = FALSE
    BY DEF AtEntry
  <2>1. h \in binary.blocks /\ h + 0 = h
    BY <1>1, InputFacts DEF SetUpInv
  <2>2. QED
    BY <2>1 DEF Patch, LandsAt
<1>5. LET p == AtEntry("forkserver", first) IN
        Plain(p, "forkserver", first) /\ p.hook = FALSE
  <2>1. first + 0 = first
    BY <1>1, InputFacts DEF SetUpInv
  <2>2. QED
    BY <2>1 DEF AtEntry, Patch, LandsAt
<1>6. LET p == Patch("hook", first, 0, TRUE) IN
        Plain(p, "hook", first) /\ p.hook = TRUE
  <2>1. first + 0 = first
    BY <1>1, InputFacts DEF SetUpInv
  <2>2. QED
    BY <2>1 DEF Patch, LandsAt
<1>7. LET p == Patch("persistent", last, 0, HookInLoop) IN
        Plain(p, "persistent", last) /\ p.hook = HookInLoop
  <2>1. last + 0 = last /\ HookInLoop \in BOOLEAN
    BY <1>1, InputFacts DEF SetUpInv, HookInLoop
  <2>2. QED
    BY <1>1, <2>1, PatchInBlock DEF Kinds
<1>8. StartsPersistent(f) => AsksPersistent
  BY OptionsAssumption DEF StartsPersistent, AsksPersistent, Function
<1>9. \A n \in DOMAIN t : n \in 1..Len(t) /\ n \in Nat
  BY <1>2
<1>10. \A n \in DOMAIN t :
         \/ StartsServer(f) /\ n = 1
         \/ StartsServer(f) /\ HooksServer /\ n = 2
         \/ StartsPersistent(f) /\ n = s + 1
         \/ n > s + l
  BY <1>3, <1>9
<1>11. /\ StartsServer(f) => 1 \in DOMAIN t
       /\ StartsServer(f) /\ HooksServer => 2 \in DOMAIN t
       /\ StartsPersistent(f) => s + 1 \in DOMAIN t
  BY <1>2, <1>3
<1>12. ASSUME NEW n \in DOMAIN t
       PROVE  /\ GoodPatch(t[n]) /\ t[n].lands = t[n].asked
              /\ t[n].kind \in {"forkserver", "hook", "persistent", "trampoline"}
              /\ t[n].at.offset = 0 /\ t[n].at.block \in f.blocks
              /\ t[n].kind = "forkserver" <=> StartsServer(f) /\ n = 1
              /\ t[n].kind = "hook" <=> StartsServer(f) /\ HooksServer /\ n = 2
              /\ t[n].kind = "persistent" <=> StartsPersistent(f) /\ n = s + 1
              /\ t[n].kind \in {"forkserver", "hook"} =>
                   t[n].at = [block |-> first, offset |-> 0]
              /\ t[n].kind = "persistent" => t[n].at.block = last
              /\ t[n].kind = "trampoline" => n > s + l
  <2>1. CASE StartsServer(f) /\ n = 1
    <3>1. Plain(t[n], "forkserver", first) /\ t[n].hook = FALSE
      BY <1>2, <1>5, <2>1
    <3>2. GoodPatch(t[n])
      BY <3>1 DEF GoodPatch
    <3>3. s \in {1, 2}
      BY <1>3, <2>1
    <3>4. QED
      BY <2>1, <3>1, <3>2, <3>3
  <2>2. CASE StartsServer(f) /\ HooksServer /\ n = 2
    <3>1. Plain(t[n], "hook", first) /\ t[n].hook = TRUE
      BY <1>2, <1>6, <2>2
    <3>2. GoodPatch(t[n])
      BY <2>2, <3>1 DEF GoodPatch, HooksServer
    <3>3. s = 2
      BY <1>3, <2>2
    <3>4. QED
      BY <2>2, <3>1, <3>2, <3>3
  <2>3. CASE StartsPersistent(f) /\ n = s + 1
    <3>1. Plain(t[n], "persistent", last) /\ t[n].hook = HookInLoop
      BY <1>2, <1>7, <2>3
    <3>2. GoodPatch(t[n])
      BY <1>8, <2>3, <3>1 DEF GoodPatch, HookInLoop
    <3>3. /\ StartsServer(f) => n > 1
          /\ StartsServer(f) /\ HooksServer => n > 2
      BY <1>3, <2>3
    <3>4. QED
      BY <2>3, <3>1, <3>2, <3>3
  <2>4. CASE n > s + l
    <3>1. PICK h \in f.heads : t[n] = AtEntry("trampoline", h)
      BY <1>2, <2>4
    <3>2. Plain(t[n], "trampoline", h) /\ t[n].hook = FALSE /\ h \in f.blocks
      BY <1>4, <3>1
    <3>3. GoodPatch(t[n])
      BY <3>2 DEF GoodPatch
    <3>4. /\ StartsServer(f) => n > 1
          /\ StartsServer(f) /\ HooksServer => n > 2
          /\ StartsPersistent(f) => n > s + 1
      BY <1>3, <1>9, <2>4
    <3>5. t[n].kind = "trampoline" /\ ~(StartsPersistent(f) /\ n = s + 1)
      BY <1>9, <3>2, <3>4
    <3>6. QED
      BY <2>4, <3>2, <3>3, <3>4, <3>5
  <2>5. QED
    BY <1>10, <2>1, <2>2, <2>3, <2>4
<1>13. QED
  BY <1>11, <1>12 DEF t, s, l

\* What a patch at an address is made of.
LEMMA PatchAtAddress ==
  ASSUME SetUpInv, pc \in AfterMap, NEW a \in Nat, Insertable(a)
  PROVE  LET b == Found(a)
             k == a - Found(a)
         IN  /\ b \in binary.blocks /\ k \in Nat /\ b + k = a
             /\ [block |-> b, offset |-> k] \in Place /\ LandsAt(b, k) \in Nat
             /\ \/ LandsAt(b, k) = a
                \/ LandsAt(b, k) = a - 1 /\ b = binary.entry_point /\ k > 0
<1>1. Found(a) \in binary.blocks /\ a - Found(a) \in Nat
  BY Placeable
<1>2. Found(a) \in Nat \ {0} /\ Found(a) + (a - Found(a)) = a
  BY <1>1, InputFacts DEF SetUpInv
<1>3. /\ added[Found(a)] \in {0, 1}
      /\ added[Found(a)] = 1 => Found(a) = binary.entry_point
  BY <1>1 DEF SetUpInv, AddedInv
<1>4. [block |-> Found(a), offset |-> a - Found(a)] \in Place
  BY <1>1 DEF Place
<1>5. QED
  BY <1>1, <1>2, <1>3, <1>4 DEF LandsAt

\* Patches that are appended leave the others where they are.
LEMMA Several ==
  ASSUME PatchesInv, NEW t \in Seq(PatchRecord), \A n \in DOMAIN t : GoodPatch(t[n])
  PROVE  LET u == patches \o t IN
         /\ u \in Seq(PatchRecord) /\ Len(patches) \in Nat /\ Len(t) \in Nat
         /\ DOMAIN patches = 1..Len(patches) /\ DOMAIN t = 1..Len(t)
         /\ DOMAIN u = 1..(Len(patches) + Len(t))
         /\ \A i \in 1..Len(patches) : u[i] = patches[i]
         /\ \A n \in 1..Len(t) : u[Len(patches) + n] = t[n]
         /\ \A i \in DOMAIN u : i \in DOMAIN patches
              \/ (i - Len(patches) \in DOMAIN t /\ u[i] = t[i - Len(patches)])
         /\ \A i \in DOMAIN u : GoodPatch(u[i])
<1>1. patches \in Seq(PatchRecord) /\ \A i \in DOMAIN patches : GoodPatch(patches[i])
  BY DEF PatchesInv
<1> DEFINE u == patches \o t
<1>2. /\ Len(patches) \in Nat /\ Len(t) \in Nat /\ u \in Seq(PatchRecord)
      /\ DOMAIN patches = 1..Len(patches) /\ DOMAIN t = 1..Len(t)
      /\ DOMAIN u = 1..(Len(patches) + Len(t))
      /\ \A i \in 1..Len(patches) : u[i] = patches[i]
      /\ \A i \in 1..Len(t) : u[Len(patches) + i] = t[i]
      /\ \A i \in 1..(Len(patches) + Len(t)) : i > Len(patches) =>
           i - Len(patches) \in 1..Len(t) /\ u[i] = t[i - Len(patches)]
  BY <1>1, Joined
<1> HIDE DEF u
<1>3. \A i \in DOMAIN u : i \in DOMAIN patches
        \/ (i - Len(patches) \in DOMAIN t /\ u[i] = t[i - Len(patches)])
  BY <1>2
<1>4. \A i \in DOMAIN u : GoodPatch(u[i])
  BY <1>1, <1>2, <1>3
<1>5. QED
  BY <1>2, <1>3, <1>4 DEF u

\* The same for one patch.
LEMMA OneMore ==
  ASSUME PatchesInv, NEW p \in PatchRecord, GoodPatch(p)
  PROVE  LET u == Append(patches, p) IN
         /\ u \in Seq(PatchRecord) /\ Len(patches) \in Nat
         /\ DOMAIN patches = 1..Len(patches) /\ DOMAIN u = 1..(Len(patches) + 1)
         /\ \A i \in 1..Len(patches) : u[i] = patches[i]
         /\ u[Len(patches) + 1] = p
         /\ \A i \in DOMAIN u : GoodPatch(u[i])
<1>1. patches \in Seq(PatchRecord) /\ \A i \in DOMAIN patches : GoodPatch(patches[i])
  BY DEF PatchesInv
<1> DEFINE u == Append(patches, p)
<1>2. /\ Len(patches) \in Nat /\ u \in Seq(PatchRecord)
      /\ DOMAIN patches = 1..Len(patches) /\ DOMAIN u = 1..(Len(patches) + 1)
      /\ \A i \in 1..Len(patches) : u[i] = patches[i]
      /\ u[Len(patches) + 1] = p
  BY <1>1, Appended
<1> HIDE DEF u
<1>3. \A i \in DOMAIN u : GoodPatch(u[i])
  <2> SUFFICES ASSUME NEW i \in DOMAIN u
               PROVE  GoodPatch(u[i])
    OBVIOUS
  <2>1. i \in 1..Len(patches) \/ i = Len(patches) + 1
    BY <1>2
  <2>2. QED
    BY <1>1, <1>2, <2>1
<1>4. QED
  BY <1>2, <1>3 DEF u

\* What the actions but begin_module's register is a good patch.
LEMMA NewPatches ==
  ASSUME SetUpInv
  PROVE  /\ \A kind \in {"data", "setup", "padding"} :
              LET p == AtEntry(kind, binary.entry_point) IN
              p \in PatchRecord /\ GoodPatch(p) /\ p.kind = kind
         /\ AddressForkserver /\ patches' # patches =>
              LET a == options.forkserver_init_address
                  p == AtAddress("forkserver", a, FALSE)
                  h == AtAddress("hook", a, TRUE)
              IN  /\ a \in Nat /\ Insertable(a) /\ patches' = patches \o ServerPatches(p, h)
                  /\ added_entrypoint' = TRUE
                  /\ p \in PatchRecord /\ GoodPatch(p) /\ h \in PatchRecord
                  /\ p.kind = "forkserver" /\ p.asked = a
                  /\ h.kind = "hook" /\ h.at = p.at /\ h.hook = TRUE
                  /\ HooksServer => GoodPatch(h)
         /\ AddressPersistent /\ patches' # patches =>
              LET a == options.persistent_mode_address
                  p == AtAddress("persistent", a, HookInLoop)
              IN  /\ a \in Nat /\ Insertable(a) /\ patches' = Append(patches, p)
                  /\ p \in PatchRecord /\ GoodPatch(p) /\ p.kind = "persistent"
                  /\ added_persistent_mode' = TRUE
         /\ AddressHook /\ patches' # patches =>
              LET a == options.hook_loc_address
                  p == AtAddress("hook", a, TRUE)
              IN  /\ a \in Nat /\ Insertable(a) /\ patches' = Append(patches, p)
                  /\ p \in PatchRecord /\ GoodPatch(p) /\ p.kind = "hook"
<1>1. ASSUME NEW kind \in {"data", "setup", "padding"}
      PROVE  LET p == AtEntry(kind, binary.entry_point) IN
             p \in PatchRecord /\ GoodPatch(p) /\ p.kind = kind
  <2> DEFINE p == AtEntry(kind, binary.entry_point)
  <2>1. binary.entry_point \in binary.blocks
    BY InputFacts DEF SetUpInv
  <2>2. p \in PatchRecord
    BY <2>1, PatchInBlock DEF AtEntry, Kinds
  <2>3. p.kind = kind /\ p.lands = p.asked
    BY <2>1, InputFacts DEF AtEntry, Patch, LandsAt, SetUpInv
  <2>4. p.hook = FALSE
    BY DEF AtEntry, Patch
  <2> HIDE DEF p
  <2>5. GoodPatch(p)
    BY <2>3, <2>4 DEF GoodPatch
  <2>6. QED
    BY <2>2, <2>3, <2>5 DEF p
<1>2. ASSUME AddressForkserver, patches' # patches
      PROVE  LET a == options.forkserver_init_address
                 p == AtAddress("forkserver", a, FALSE)
                 h == AtAddress("hook", a, TRUE)
             IN  /\ a \in Nat /\ Insertable(a) /\ patches' = patches \o ServerPatches(p, h)
                 /\ added_entrypoint' = TRUE
                 /\ p \in PatchRecord /\ GoodPatch(p) /\ h \in PatchRecord
                 /\ p.kind = "forkserver" /\ p.asked = a
                 /\ h.kind = "hook" /\ h.at = p.at /\ h.hook = TRUE
                 /\ HooksServer => GoodPatch(h)
  <2> DEFINE a == options.forkserver_init_address
             p == AtAddress("forkserver", a, FALSE)
             h == AtAddress("hook", a, TRUE)
  <2>1. /\ a # None /\ Insertable(a) /\ patches' = patches \o ServerPatches(p, h)
        /\ added_entrypoint' = TRUE /\ pc = "init_addr"
    BY <1>2 DEF AddressForkserver, Raise
  <2>2. a \in Nat /\ pc \in AfterMap
    BY <2>1, InputFacts DEF SetUpInv, OptionRecord, AfterMap, AfterData, AfterBegin
  <2>3. /\ p \in PatchRecord /\ p.kind = "forkserver" /\ p.hook = FALSE /\ p.asked = a
        /\ p.at = [block |-> Found(a), offset |-> a - Found(a)]
        /\ \/ p.lands = p.asked
           \/ /\ p.lands = p.asked - 1
              /\ p.at.block = binary.entry_point /\ p.at.offset > 0
    BY <2>1, <2>2, PatchAtAddress DEF AtAddress, Patch, PatchRecord, Kinds
  <2>4. /\ h \in PatchRecord /\ h.kind = "hook" /\ h.hook = TRUE /\ h.asked = a
        /\ h.at = [block |-> Found(a), offset |-> a - Found(a)]
        /\ \/ h.lands = h.asked
           \/ /\ h.lands = h.asked - 1
              /\ h.at.block = binary.entry_point /\ h.at.offset > 0
    BY <2>1, <2>2, PatchAtAddress DEF AtAddress, Patch, PatchRecord, Kinds
  <2> HIDE DEF p, h
  <2>5. GoodPatch(p)
    BY <2>3 DEF GoodPatch
  <2>6. HooksServer => GoodPatch(h)
    BY <2>4 DEF GoodPatch, HooksServer
  <2>7. QED
    BY <2>1, <2>2, <2>3, <2>4, <2>5, <2>6 DEF p, h
<1>3. ASSUME AddressPersistent, patches' # patches
      PROVE  LET a == options.persistent_mode_address
                 p == AtAddress("persistent", a, HookInLoop)
             IN  /\ a \in Nat /\ Insertable(a) /\ patches' = Append(patches, p)
                 /\ p \in PatchRecord /\ GoodPatch(p) /\ p.kind = "persistent"
                 /\ added_persistent_mode' = TRUE
  <2> DEFINE a == options.persistent_mode_address
             p == AtAddress("persistent", a, HookInLoop)
  <2>1. /\ a # None /\ Insertable(a) /\ patches' = Append(patches, p)
        /\ added_persistent_mode' = TRUE /\ pc = "persistent_addr"
    BY <1>3 DEF AddressPersistent, Raise
  <2>2. a \in Nat /\ pc \in AfterMap
    BY <2>1, InputFacts
    DEF SetUpInv, OptionRecord, AfterMap, AfterData, AfterBegin, AfterInit,
        AfterFunctions
  <2>3. HookInLoop \in BOOLEAN
    BY DEF HookInLoop
  <2>4. /\ p \in PatchRecord /\ p.kind = "persistent" /\ p.hook = HookInLoop
        /\ \/ p.lands = p.asked
           \/ /\ p.lands = p.asked - 1
              /\ p.at.block = binary.entry_point /\ p.at.offset > 0
    BY <2>1, <2>2, <2>3, PatchAtAddress DEF AtAddress, Patch, PatchRecord, Kinds
  <2> HIDE DEF p
  <2>5. AsksPersistent
    BY <2>1 DEF AsksPersistent
  <2>6. GoodPatch(p)
    BY <2>4, <2>5 DEF GoodPatch
  <2>7. QED
    BY <2>1, <2>2, <2>4, <2>6 DEF p
<1>4. ASSUME AddressHook, patches' # patches
      PROVE  LET a == options.hook_loc_address
                 p == AtAddress("hook", a, TRUE)
             IN  /\ a \in Nat /\ Insertable(a) /\ patches' = Append(patches, p)
                 /\ p \in PatchRecord /\ GoodPatch(p) /\ p.kind = "hook"
  <2> DEFINE a == options.hook_loc_address
             p == AtAddress("hook", a, TRUE)
  <2>1. /\ a # None /\ Insertable(a) /\ patches' = Append(patches, p)
        /\ pc = "hook_addr"
    BY <1>4 DEF AddressHook, Raise
  <2>2. a \in Nat /\ pc \in AfterMap
    BY <2>1, InputFacts
    DEF SetUpInv, OptionRecord, AfterMap, AfterData, AfterBegin, AfterInit,
        AfterFunctions, AfterPersistent
  <2>3. /\ p \in PatchRecord /\ p.kind = "hook" /\ p.hook = TRUE
        /\ \/ p.lands = p.asked
           \/ /\ p.lands = p.asked - 1
              /\ p.at.block = binary.entry_point /\ p.at.offset > 0
    BY <2>1, <2>2, PatchAtAddress DEF AtAddress, Patch, PatchRecord, Kinds
  <2> HIDE DEF p
  <2>4. options.hook_location = "address"
    BY <2>1, InputFacts DEF SetUpInv
  <2>5. GoodPatch(p)
    BY <2>3, <2>4 DEF GoodPatch
  <2>6. QED
    BY <2>1, <2>2, <2>3, <2>5 DEF p
<1>5. QED
  BY <1>1, <1>2, <1>3, <1>4

\* The function that is visited, and what it adds.
LEMMA Visits ==
  ASSUME SetUpInv, VisitFunction
  PROVE  LET f == binary.functions[function] IN
         /\ function \in 1..Len(binary.functions)
         /\ f \in Function(binary.blocks) /\ f.heads \subseteq f.blocks
         /\ f.entries \subseteq f.blocks
         /\ \/ /\ EntersProgram(f)
               /\ UNCHANGED <<patches, added_entrypoint, added_persistent_mode>>
            \/ /\ ~EntersProgram(f)
               /\ \E first, last \in f.entries :
                    /\ patches' = patches \o FunctionPatches(f, first, last)
                    /\ FunctionPatches(f, first, last) \in Seq(PatchRecord)
               /\ added_entrypoint' = (added_entrypoint \/ StartsServer(f))
               /\ added_persistent_mode' = (added_persistent_mode \/ StartsPersistent(f))
<1> DEFINE f == binary.functions[function]
<1>1. function \in 1..Len(binary.functions)
  BY InputFacts DEF VisitFunction, SetUpInv, VariablesOK
<1>2. /\ f \in Function(binary.blocks) /\ f.heads \subseteq f.blocks
      /\ f.entries \subseteq f.blocks
  BY <1>1, InputFacts DEF SetUpInv
<1>3. CASE EntersProgram(f) /\ UNCHANGED <<patches, added_entrypoint, added_persistent_mode>>
  BY <1>1, <1>2, <1>3
<1>4. CASE /\ ~EntersProgram(f)
           /\ \E e \in FirstAndLast(f) :
                patches' = patches \o FunctionPatches(f, e[1], e[2])
           /\ added_entrypoint' = (added_entrypoint \/ StartsServer(f))
           /\ added_persistent_mode' = (added_persistent_mode \/ StartsPersistent(f))
  <2>1. PICK e \in FirstAndLast(f) : patches' = patches \o FunctionPatches(f, e[1], e[2])
    BY <1>4
  <2>2. e[1] \in f.entries /\ e[2] \in f.entries
    BY DEF FirstAndLast
  <2>3. FunctionPatches(f, e[1], e[2]) \in Seq(PatchRecord)
    BY <1>2, <2>2, FunctionShape
  <2>4. QED
    BY <1>1, <1>2, <1>4, <2>1, <2>2, <2>3
<1>5. QED
  BY <1>3, <1>4 DEF VisitFunction

\* Patches are appended only, good ones, and begin_module begins with none but
\* that of the data.
LEMMA PatchesStep ==
  ASSUME SetUpInv, PatchesInv, [Next]_vars
  PROVE  PatchesInv'
<1>1. options' = options /\ binary' = binary
  BY InputsKept
<1>2. patches' \in Seq(PatchRecord) /\ \A i \in DOMAIN patches' : GoodPatch(patches'[i])
  <2>1. CASE patches' = patches
    BY <2>1 DEF PatchesInv
  <2>2. CASE patches' # patches
    <3>1. CASE AddGlobalData \/ BeginModule \/ ShiftAlignment
      <4>1. PICK kind \in {"data", "setup", "padding"} :
              patches' = Append(patches, AtEntry(kind, binary.entry_point))
        BY <2>2, <3>1 DEF AddGlobalData, BeginModule, ShiftAlignment, Raise
      <4>2. QED
        BY <4>1, NewPatches, OneMore
    <3>2. CASE AddressForkserver
      <4> DEFINE a == options.forkserver_init_address
                 p == AtAddress("forkserver", a, FALSE)
                 h == AtAddress("hook", a, TRUE)
                 t == ServerPatches(p, h)
      <4>1. /\ patches' = patches \o t /\ p \in PatchRecord /\ GoodPatch(p)
            /\ h \in PatchRecord /\ (HooksServer => GoodPatch(h))
        BY <2>2, <3>2, NewPatches
      <4>2. /\ t \in Seq(PatchRecord) /\ t[1] = p
            /\ Len(t) = (IF HooksServer THEN 2 ELSE 1) /\ (HooksServer => t[2] = h)
        BY <4>1, ServerShape DEF HooksServer
      <4> HIDE DEF a, p, h, t
      <4>3. \A n \in DOMAIN t : GoodPatch(t[n])
        <5>1. DOMAIN t = 1..Len(t)
          BY <4>2, LenProperties
        <5>2. QED
          BY <4>1, <4>2, <5>1
      <4>4. QED
        BY <4>1, <4>2, <4>3, Several
    <3>3. CASE VisitFunction
      <4> DEFINE f == binary.functions[function]
      <4>1. /\ f \in Function(binary.blocks) /\ f.heads \subseteq f.blocks
            /\ f.entries \subseteq f.blocks
        BY <3>3, Visits
      <4>2. PICK first \in f.entries, last \in f.entries :
              /\ patches' = patches \o FunctionPatches(f, first, last)
              /\ FunctionPatches(f, first, last) \in Seq(PatchRecord)
        BY <2>2, <3>3, Visits
      <4>3. \A n \in DOMAIN FunctionPatches(f, first, last) :
              GoodPatch(FunctionPatches(f, first, last)[n])
        BY <4>1, FunctionKinds
      <4>4. QED
        BY <4>2, <4>3, Several
    <3>4. CASE AddressPersistent
      BY <2>2, <3>4, NewPatches, OneMore
    <3>5. CASE AddressHook
      BY <2>2, <3>5, NewPatches, OneMore
    <3>6. QED
      BY <2>2, <3>1, <3>2, <3>3, <3>4, <3>5
      DEF Next, GetArgs, CreateAddressMap, OtherRun, FunctionsVisited, Announce,
          Save, Ended, vars
  <2>3. QED
    BY <2>1, <2>2
<1>3. (\A i \in DOMAIN patches : GoodPatch(patches[i]))' /\ (patches \in Seq(PatchRecord))'
  <2>1. PatchRecord' = PatchRecord
    BY <1>1 DEF PatchRecord, Place
  <2>2. QED
    BY <1>1, <1>2, <2>1 DEF GoodPatch, HookInLoop, AsksPersistent
<1>4. pc' \in {"get_args", "address_map", "global_data"} => patches' = <<>>
  BY DEF PatchesInv, Next, GetArgs, CreateAddressMap, OtherRun, AddGlobalData,
     BeginModule, AddressForkserver, VisitFunction, FunctionsVisited,
     AddressPersistent, AddressHook, Announce, ShiftAlignment, Save, Ended, vars,
     Raise
<1>5. pc' = "begin_afl" => \A i \in DOMAIN patches' : patches'[i].kind = "data"
  <2>1. CASE AddGlobalData
    <3>1. patches = <<>> /\ patches' = Append(patches, AtEntry("data", binary.entry_point))
      BY <2>1 DEF AddGlobalData, PatchesInv
    <3>2. DOMAIN patches' = {1} /\ patches'[1] = AtEntry("data", binary.entry_point)
      BY <3>1
    <3>3. QED
      BY <3>2, NewPatches
  <2>2. CASE ~AddGlobalData
    <3>1. pc' = "begin_afl" => pc = "begin_afl" /\ patches' = patches
      BY <2>2
      DEF Next, GetArgs, CreateAddressMap, OtherRun, BeginModule,
          AddressForkserver, VisitFunction, FunctionsVisited, AddressPersistent,
          AddressHook, Announce, ShiftAlignment, Save, Ended, vars, Raise
    <3>2. QED
      BY <3>1 DEF PatchesInv
  <2>3. QED
    BY <2>1, <2>2
<1>6. pc' = "init_addr" =>
        \A i \in DOMAIN patches' : patches'[i].kind \in {"data", "setup"}
  <2>1. CASE BeginModule /\ pc' = "init_addr"
    <3>1. /\ patches' = Append(patches, AtEntry("setup", binary.entry_point))
          /\ pc = "begin_afl"
      BY <2>1 DEF BeginModule, Raise
    <3> DEFINE p == AtEntry("setup", binary.entry_point)
    <3>2. p \in PatchRecord /\ GoodPatch(p) /\ p.kind = "setup"
      BY NewPatches
    <3> HIDE DEF p
    <3>3. /\ DOMAIN patches = 1..Len(patches) /\ DOMAIN patches' = 1..(Len(patches) + 1)
          /\ \A i \in 1..Len(patches) : patches'[i] = patches[i]
          /\ patches'[Len(patches) + 1] = p /\ Len(patches) \in Nat
      BY <3>1, <3>2, OneMore DEF p
    <3>4. \A i \in DOMAIN patches : patches[i].kind = "data"
      BY <3>1 DEF PatchesInv
    <3>5. \A i \in DOMAIN patches' : i \in DOMAIN patches \/ i = Len(patches) + 1
      BY <3>3
    <3>6. QED
      BY <3>2, <3>3, <3>4, <3>5
  <2>2. CASE ~BeginModule
    <3>1. pc' = "init_addr" => pc = "init_addr" /\ patches' = patches
      BY <2>2
      DEF Next, GetArgs, CreateAddressMap, OtherRun, AddGlobalData,
          AddressForkserver, VisitFunction, FunctionsVisited, AddressPersistent,
          AddressHook, Announce, ShiftAlignment, Save, Ended, vars, Raise
    <3>2. QED
      BY <3>1 DEF PatchesInv
  <2>3. QED
    BY <2>1, <2>2
<1>7. QED
  BY <1>3, <1>4, <1>5, <1>6 DEF PatchesInv

\* What is registered is well placed from the first patch to the last.
THEOREM PatchesInvariance == Spec => [](SetUpInv /\ PatchesInv)
<1>1. Init => PatchesInv
  BY EmptySeq DEF Init, PatchesInv
<1>2. SetUpInv /\ PatchesInv /\ [Next]_vars => PatchesInv'
  BY PatchesStep
<1>3. QED
  BY <1>1, <1>2, SetUpInvariance, PTL DEF Spec

\* Every variable keeps its type, whatever the command line and the binary.
THEOREM TypeCorrect == Spec => []TypeOK
<1>1. SetUpInv /\ PatchesInv => TypeOK
  <2> SUFFICES ASSUME SetUpInv, PatchesInv
               PROVE  TypeOK
    OBVIOUS
  <2>1. \A i \in DOMAIN patches : patches[i] \in PatchRecord
    BY LenProperties, ElementOfSeq DEF PatchesInv
  <2>2. \A i \in DOMAIN patches :
          /\ patches[i].kind \in Kinds /\ patches[i].at \in Place
          /\ patches[i].asked \in Nat /\ patches[i].lands \in Nat
          /\ patches[i].hook \in BOOLEAN
    BY <2>1 DEF PatchRecord
  <2>3. QED
    BY <2>2
    DEF SetUpInv, VariablesOK, TypeOK, AfterArgs, AfterMap, AfterData, AfterBegin,
        AfterInit, AfterFunctions, AfterPersistent, AfterHook, AfterAnnounce
<1>2. QED
  BY <1>1, PatchesInvariance, PTL

-------------------------------------------------------------------------------
(***************************************************************************)
(* What is where.                                                          *)
(***************************************************************************)
\* The patches that a step adds, and which step it is.
LEMMA Registers ==
  ASSUME SetUpInv, PatchesInv, [Next]_vars, patches' # patches
  PROVE  \E t \in Seq(PatchRecord) :
    /\ patches' = patches \o t /\ \A n \in DOMAIN t : GoodPatch(t[n])
    /\ \/ /\ AddGlobalData \/ BeginModule \/ ShiftAlignment
          /\ DOMAIN t = {1} /\ t[1].kind \in {"data", "setup", "padding"}
          /\ t[1].kind = "setup" => BeginModule
       \/ AddressForkserver /\ added_entrypoint'
            /\ LET a == options.forkserver_init_address IN
               /\ a \in Nat /\ Insertable(a)
               /\ DOMAIN t = (IF HooksServer THEN {1, 2} ELSE {1})
               /\ t[1].kind = "forkserver" /\ t[1].asked = a
               /\ HooksServer =>
                    t[2].kind = "hook" /\ t[2].at = t[1].at /\ t[2].hook = TRUE
       \/ VisitFunction
            /\ LET f == binary.functions[function] IN
               /\ ~EntersProgram(f)
               /\ added_entrypoint' = (added_entrypoint \/ StartsServer(f))
               /\ added_persistent_mode' = (added_persistent_mode \/ StartsPersistent(f))
               /\ \E first, last \in f.entries : t = FunctionPatches(f, first, last)
       \/ AddressPersistent /\ added_persistent_mode'
            /\ options.persistent_mode_address # None
            /\ DOMAIN t = {1} /\ t[1].kind = "persistent"
       \/ AddressHook /\ DOMAIN t = {1} /\ t[1].kind = "hook"
            /\ options.hook_loc_address # None
<1>1. ASSUME NEW p \in PatchRecord, patches' = Append(patches, p)
      PROVE  /\ <<p>> \in Seq(PatchRecord) /\ patches' = patches \o <<p>>
             /\ DOMAIN <<p>> = {1} /\ <<p>>[1] = p
  BY <1>1, AppendIsConcat DEF PatchesInv
<1>2. CASE AddGlobalData \/ BeginModule \/ ShiftAlignment
  <2>1. PICK kind \in {"data", "setup", "padding"} :
          /\ patches' = Append(patches, AtEntry(kind, binary.entry_point))
          /\ kind = "setup" => BeginModule
    BY <1>2 DEF AddGlobalData, BeginModule, ShiftAlignment, Raise
  <2> DEFINE p == AtEntry(kind, binary.entry_point)
  <2>2. p \in PatchRecord /\ GoodPatch(p) /\ p.kind = kind
    BY NewPatches
  <2> HIDE DEF p
  <2>3. patches' = Append(patches, p)
    BY <2>1 DEF p
  <2>4. /\ <<p>> \in Seq(PatchRecord) /\ patches' = patches \o <<p>>
        /\ DOMAIN <<p>> = {1} /\ <<p>>[1] = p
    BY <1>1, <2>2, <2>3
  <2>5. QED
    BY <1>2, <2>1, <2>2, <2>4
<1>3. CASE AddressForkserver
  <2> DEFINE a == options.forkserver_init_address
             p == AtAddress("forkserver", a, FALSE)
             h == AtAddress("hook", a, TRUE)
             t == ServerPatches(p, h)
  <2>1. /\ a \in Nat /\ Insertable(a) /\ patches' = patches \o t
        /\ added_entrypoint' = TRUE
        /\ p \in PatchRecord /\ GoodPatch(p) /\ h \in PatchRecord
        /\ p.kind = "forkserver" /\ p.asked = a
        /\ h.kind = "hook" /\ h.at = p.at /\ h.hook = TRUE
        /\ HooksServer => GoodPatch(h)
    BY <1>3, NewPatches
  <2>2. /\ t \in Seq(PatchRecord) /\ t[1] = p
        /\ Len(t) = (IF HooksServer THEN 2 ELSE 1) /\ (HooksServer => t[2] = h)
    BY <2>1, ServerShape DEF HooksServer
  <2> HIDE DEF a, p, h, t
  <2>3. DOMAIN t = 1..Len(t)
    BY <2>2, LenProperties
  <2>4. DOMAIN t = (IF HooksServer THEN {1, 2} ELSE {1})
    <3>1. Len(t) = 1 => DOMAIN t = {1}
      BY <2>3
    <3>2. Len(t) = 2 => DOMAIN t = {1, 2}
      BY <2>3
    <3>3. QED
      BY <2>2, <3>1, <3>2
  <2>5. \A n \in DOMAIN t : GoodPatch(t[n])
    BY <2>1, <2>2, <2>4
  <2>6. added_entrypoint'
    BY <2>1
  <2>7. QED
    BY <1>3, <2>1, <2>2, <2>4, <2>5, <2>6 DEF a
<1>4. CASE VisitFunction
  <2> DEFINE f == binary.functions[function]
  <2>1. /\ f \in Function(binary.blocks) /\ f.heads \subseteq f.blocks
        /\ f.entries \subseteq f.blocks /\ ~EntersProgram(f)
        /\ added_entrypoint' = (added_entrypoint \/ StartsServer(f))
        /\ added_persistent_mode' = (added_persistent_mode \/ StartsPersistent(f))
    BY <1>4, Visits
  <2>2. PICK first \in f.entries, last \in f.entries :
          /\ patches' = patches \o FunctionPatches(f, first, last)
          /\ FunctionPatches(f, first, last) \in Seq(PatchRecord)
    BY <1>4, Visits
  <2>3. \A n \in DOMAIN FunctionPatches(f, first, last) :
          GoodPatch(FunctionPatches(f, first, last)[n])
    BY <2>1, FunctionKinds
  <2>4. QED
    BY <1>4, <2>1, <2>2, <2>3
<1>5. CASE AddressPersistent
  <2> DEFINE p == AtAddress("persistent", options.persistent_mode_address, HookInLoop)
  <2>1. /\ patches' = Append(patches, p) /\ p \in PatchRecord /\ GoodPatch(p)
        /\ p.kind = "persistent" /\ added_persistent_mode' = TRUE
    BY <1>5, NewPatches
  <2>2. options.persistent_mode_address # None /\ added_persistent_mode'
    BY <1>5, <2>1 DEF AddressPersistent, Raise
  <2> HIDE DEF p
  <2>3. /\ <<p>> \in Seq(PatchRecord) /\ patches' = patches \o <<p>>
        /\ DOMAIN <<p>> = {1} /\ <<p>>[1] = p
    BY <1>1, <2>1
  <2>4. QED
    BY <1>5, <2>1, <2>2, <2>3
<1>6. CASE AddressHook
  <2> DEFINE p == AtAddress("hook", options.hook_loc_address, TRUE)
  <2>1. /\ patches' = Append(patches, p) /\ p \in PatchRecord /\ GoodPatch(p)
        /\ p.kind = "hook"
    BY <1>6, NewPatches
  <2>2. options.hook_loc_address # None
    BY <1>6 DEF AddressHook, Raise
  <2> HIDE DEF p
  <2>3. /\ <<p>> \in Seq(PatchRecord) /\ patches' = patches \o <<p>>
        /\ DOMAIN <<p>> = {1} /\ <<p>>[1] = p
    BY <1>1, <2>1
  <2>4. QED
    BY <1>6, <2>1, <2>2, <2>3
<1>7. QED
  BY <1>2, <1>3, <1>4, <1>5, <1>6
  DEF Next, GetArgs, CreateAddressMap, OtherRun, FunctionsVisited, Announce,
      Save, Ended, vars

\* Which places of a kind there are, and which hooks, after patches were added.
LEMMA PlacedJoined ==
  ASSUME PatchesInv, NEW t \in Seq(PatchRecord), \A n \in DOMAIN t : GoodPatch(t[n]),
         patches' = patches \o t, NEW kind
  PROVE  /\ Placed(kind)' = Placed(kind)
              \cup {Len(patches) + n : n \in {n \in DOMAIN t : t[n].kind = kind}}
         /\ Hooks' = Hooks \cup {Len(patches) + n : n \in {n \in DOMAIN t : t[n].hook}}
<1> DEFINE u == patches \o t
           l == Len(patches)
<1>1. /\ l \in Nat /\ Len(t) \in Nat
      /\ DOMAIN patches = 1..l /\ DOMAIN t = 1..Len(t) /\ DOMAIN u = 1..(l + Len(t))
      /\ \A i \in 1..l : u[i] = patches[i]
      /\ \A n \in 1..Len(t) : u[l + n] = t[n]
      /\ \A i \in DOMAIN u : i \in DOMAIN patches
           \/ (i - l \in DOMAIN t /\ u[i] = t[i - l])
  BY Several
<1>2. u = patches'
  OBVIOUS
<1> HIDE DEF u, l
<1>3. \A i \in DOMAIN u : i \in DOMAIN patches
        \/ \E n \in DOMAIN t : i = l + n /\ u[i] = t[n]
  <2> SUFFICES ASSUME NEW i \in DOMAIN u, i \notin DOMAIN patches
               PROVE  \E n \in DOMAIN t : i = l + n /\ u[i] = t[n]
    OBVIOUS
  <2>1. i - l \in DOMAIN t /\ u[i] = t[i - l] /\ i = l + (i - l)
    BY <1>1
  <2>2. QED
    BY <2>1
<1>4. /\ \A i \in DOMAIN patches : i \in DOMAIN u /\ u[i] = patches[i]
      /\ \A n \in DOMAIN t : l + n \in DOMAIN u /\ u[l + n] = t[n]
  BY <1>1
<1>5. {i \in DOMAIN u : u[i].kind = kind}
        = {i \in DOMAIN patches : patches[i].kind = kind}
            \cup {l + n : n \in {n \in DOMAIN t : t[n].kind = kind}}
  BY <1>3, <1>4
<1>6. {i \in DOMAIN u : u[i].hook}
        = {i \in DOMAIN patches : patches[i].hook}
            \cup {l + n : n \in {n \in DOMAIN t : t[n].hook}}
  BY <1>3, <1>4
<1>7. QED
  BY <1>2, <1>5, <1>6 DEF Placed, Hooks, l

\* The later stages follow one another, too.
LEMMA LaterStages ==
  ASSUME [Next]_vars
  PROVE  /\ pc' \in AfterInit => pc \in AfterInit \/ AddressForkserver
         /\ pc' \in AfterFunctions => pc \in AfterFunctions \/ FunctionsVisited
         /\ pc' \in AfterPersistent => pc \in AfterPersistent \/ AddressPersistent
         /\ pc' \in AfterHook => pc \in AfterHook \/ AddressHook
         /\ pc' \in AfterAnnounce => pc \in AfterAnnounce \/ Announce
BY DEF Next, GetArgs, CreateAddressMap, OtherRun, AddGlobalData, BeginModule,
   AddressForkserver, VisitFunction, FunctionsVisited, AddressPersistent,
   AddressHook, Announce, ShiftAlignment, Save, Ended, vars, Raise, AfterInit,
   AfterFunctions, AfterPersistent, AfterHook, AfterAnnounce

\* No hook is lost; a patch that is appended is another one.
LEMMA HooksStay ==
  ASSUME SetUpInv, PatchesInv, [Next]_vars
  PROVE  Hooks \subseteq Hooks'
<1>1. CASE patches' = patches
  BY <1>1 DEF Hooks
<1>2. CASE patches' # patches
  <2>1. PICK t \in Seq(PatchRecord) :
          patches' = patches \o t /\ \A n \in DOMAIN t : GoodPatch(t[n])
    BY <1>2, Registers
  <2>2. QED
    BY <2>1, PlacedJoined
<1>3. QED
  BY <1>1, <1>2

\* A patch more makes another sequence.
LEMMA AppendIsNew ==
  ASSUME PatchesInv, NEW p \in PatchRecord
  PROVE  Append(patches, p) # patches
<1>1. Len(Append(patches, p)) = Len(patches) + 1 /\ Len(patches) \in Nat
  BY AppendProperties, LenProperties DEF PatchesInv
<1>2. QED
  BY <1>1

\* The persistent mode patch is placed by function or by address.
LEMMA LoopStep ==
  ASSUME SetUpInv, PatchesInv, LoopInv, [Next]_vars
  PROVE  LoopInv'
<1>1. options' = options /\ binary' = binary
  BY InputsKept
<1> DEFINE f == binary.functions[function]
<1>2. ASSUME VisitFunction
      PROVE  /\ function \in 1..Len(binary.functions) /\ function' = function + 1
             /\ pc = "functions" /\ pc' = "functions" /\ f.name \in Names
             /\ added_persistent_mode => added_persistent_mode'
             /\ Sought(f) => added_persistent_mode'
             /\ added_persistent_mode' => added_persistent_mode \/ StartsPersistent(f)
  <2>1. /\ function \in 1..Len(binary.functions) /\ function' = function + 1
        /\ pc = "functions" /\ pc' = "functions" /\ f.name \in Names
    BY <1>2, Visits DEF VisitFunction, Function
  <2>2. CASE /\ EntersProgram(f)
             /\ UNCHANGED <<patches, added_entrypoint, added_persistent_mode>>
    <3>1. ~Sought(f) /\ added_persistent_mode' = added_persistent_mode
      BY <2>2 DEF Sought
    <3>2. QED
      BY <2>1, <3>1
  <2>3. CASE added_persistent_mode' = (added_persistent_mode \/ StartsPersistent(f))
    <3>1. Sought(f) => StartsPersistent(f)
      BY DEF Sought
    <3>2. /\ added_persistent_mode => added_persistent_mode'
          /\ Sought(f) => added_persistent_mode'
          /\ added_persistent_mode' => added_persistent_mode \/ StartsPersistent(f)
      BY <2>3, <3>1, Zenon
    <3>3. QED
      BY <2>1, <3>2
  <2>4. QED
    BY <1>2, <2>2, <2>3, Visits
<1>3. (added_persistent_mode <=> Placed("persistent") # {})'
  <2>1. CASE VisitFunction
    <3>1. CASE UNCHANGED <<patches, added_entrypoint, added_persistent_mode>>
      BY <3>1 DEF LoopInv, Placed
    <3>2. CASE ~UNCHANGED <<patches, added_entrypoint, added_persistent_mode>>
      <4>1. /\ f \in Function(binary.blocks) /\ f.heads \subseteq f.blocks
            /\ f.entries \subseteq f.blocks
            /\ added_persistent_mode' = (added_persistent_mode \/ StartsPersistent(f))
        BY <2>1, <3>2, Visits
      <4>2. PICK first \in f.entries, last \in f.entries :
              /\ patches' = patches \o FunctionPatches(f, first, last)
              /\ FunctionPatches(f, first, last) \in Seq(PatchRecord)
        BY <2>1, <3>2, Visits
      <4> DEFINE t == FunctionPatches(f, first, last)
      <4>3. /\ \A n \in DOMAIN t : GoodPatch(t[n])
            /\ \A n \in DOMAIN t : t[n].kind = "persistent" <=>
                 StartsPersistent(f) /\ n = ServerLength(f) + 1
            /\ StartsPersistent(f) => ServerLength(f) + 1 \in DOMAIN t
        BY <4>1, FunctionKinds
      <4> HIDE DEF t, f
      <4>4. Placed("persistent")' = Placed("persistent")
              \cup {Len(patches) + n : n \in {n \in DOMAIN t : t[n].kind = "persistent"}}
        BY <4>2, <4>3, PlacedJoined DEF t
      <4>5. {n \in DOMAIN t : t[n].kind = "persistent"} # {} <=> StartsPersistent(f)
        BY <4>3
      <4>6. Placed("persistent")' # {} <=> Placed("persistent") # {} \/ StartsPersistent(f)
        BY <4>4, <4>5
      <4>7. QED
        BY <4>1, <4>6 DEF LoopInv
    <3>3. QED
      BY <3>1, <3>2
  <2>2. CASE AddressPersistent
    <3>1. CASE patches' = patches
      <4>1. added_persistent_mode' = added_persistent_mode
        <5> DEFINE a == options.persistent_mode_address
                   p == AtAddress("persistent", a, HookInLoop)
        <5>1. CASE UNCHANGED added_persistent_mode
          BY <5>1
        <5>2. CASE a # None /\ Insertable(a) /\ patches' = Append(patches, p)
          <6>1. pc \in AfterMap /\ a \in Nat
            BY <2>2, <5>2, InputFacts
            DEF AddressPersistent, SetUpInv, OptionRecord, AfterMap, AfterData,
                AfterBegin, AfterInit, AfterFunctions
          <6>2. HookInLoop \in BOOLEAN
            BY DEF HookInLoop
          <6>3. p \in PatchRecord
            BY <5>2, <6>1, <6>2, PatchAtAddress
            DEF AtAddress, Patch, PatchRecord, Kinds
          <6>4. QED
            BY <3>1, <5>2, <6>3, AppendIsNew
        <5>3. QED
          BY <2>2, <5>1, <5>2 DEF AddressPersistent
      <4>2. QED
        BY <3>1, <4>1 DEF LoopInv, Placed
    <3>2. CASE patches' # patches
      <4>1. PICK t \in Seq(PatchRecord) :
              /\ patches' = patches \o t /\ \A n \in DOMAIN t : GoodPatch(t[n])
              /\ DOMAIN t = {1} /\ t[1].kind = "persistent" /\ added_persistent_mode'
        BY <2>2, <3>2, Registers
        DEF AddressPersistent, AddGlobalData, BeginModule, ShiftAlignment,
            AddressForkserver, VisitFunction, AddressHook
      <4>2. Placed("persistent")' = Placed("persistent")
              \cup {Len(patches) + n : n \in {n \in DOMAIN t : t[n].kind = "persistent"}}
        BY <4>1, PlacedJoined
      <4>3. QED
        BY <4>1, <4>2
    <3>3. QED
      BY <3>1, <3>2
  <2>3. CASE ~VisitFunction /\ ~AddressPersistent
    <3>1. added_persistent_mode' = added_persistent_mode
      BY <2>3
      DEF Next, GetArgs, CreateAddressMap, OtherRun, AddGlobalData, BeginModule,
          AddressForkserver, FunctionsVisited, AddressHook, Announce,
          ShiftAlignment, Save, Ended, vars
    <3>2. CASE patches' = patches
      BY <3>1, <3>2 DEF LoopInv, Placed
    <3>3. CASE patches' # patches
      <4>1. PICK t \in Seq(PatchRecord) :
              /\ patches' = patches \o t /\ \A n \in DOMAIN t : GoodPatch(t[n])
              /\ \A n \in DOMAIN t : t[n].kind # "persistent"
        BY <2>3, <3>3, Registers
      <4>2. Placed("persistent")' = Placed("persistent")
              \cup {Len(patches) + n : n \in {n \in DOMAIN t : t[n].kind = "persistent"}}
        BY <4>1, PlacedJoined
      <4>3. {n \in DOMAIN t : t[n].kind = "persistent"} = {}
        BY <4>1
      <4>4. QED
        BY <3>1, <4>2, <4>3 DEF LoopInv
    <3>4. QED
      BY <3>2, <3>3
  <2>4. QED
    BY <2>1, <2>2, <2>3
<1>4. (pc \in {"get_args", "functions", "persistent_addr"} \cup (AfterArgs \ AfterInit) =>
         (added_persistent_mode => options.persistent_mode_func # None))'
  <2>1. CASE VisitFunction
    BY <1>1, <1>2, <2>1, OptionsAssumption DEF LoopInv, StartsPersistent
  <2>2. CASE ~VisitFunction
    <3>1. pc' \in {"get_args", "functions", "persistent_addr"} \cup (AfterArgs \ AfterInit) =>
            /\ pc \in {"get_args", "functions", "persistent_addr"}
                        \cup (AfterArgs \ AfterInit)
            /\ added_persistent_mode' = added_persistent_mode
      BY <2>2
      DEF Next, GetArgs, CreateAddressMap, OtherRun, AddGlobalData, BeginModule,
          AddressForkserver, FunctionsVisited, AddressPersistent, AddressHook,
          Announce, ShiftAlignment, Save, Ended, vars, Raise, AfterArgs, AfterMap,
          AfterData, AfterBegin, AfterInit, AfterFunctions, AfterPersistent,
          AfterHook, AfterAnnounce
    <3>2. QED
      BY <1>1, <3>1 DEF LoopInv
  <2>3. QED
    BY <2>1, <2>2
<1>5. (\A k \in 1..(function - 1) : Sought(binary.functions[k]) => added_persistent_mode)'
  <2>1. \A k \in 1..(function' - 1) :
          Sought(binary.functions[k]) => added_persistent_mode'
    <3>1. CASE VisitFunction
      <4>1. \A k \in 1..(function' - 1) : k \in 1..(function - 1) \/ k = function
        BY <1>2, <3>1
      <4>2. QED
        BY <1>2, <3>1, <4>1 DEF LoopInv
    <3>2. CASE ~VisitFunction
      <4>1. /\ function' = function
            /\ \/ added_persistent_mode' = added_persistent_mode
               \/ added_persistent_mode' = TRUE
        BY <3>2
        DEF Next, GetArgs, CreateAddressMap, OtherRun, AddGlobalData, BeginModule,
            AddressForkserver, FunctionsVisited, AddressPersistent, AddressHook,
            Announce, ShiftAlignment, Save, Ended, vars
      <4>2. QED
        BY <4>1 DEF LoopInv
    <3>3. QED
      BY <3>1, <3>2
  <2>2. QED
    BY <1>1, <2>1 DEF Sought, EntersProgram, StartsPersistent
<1>6. (pc \in AfterFunctions => function > Len(binary.functions))'
  <2>1. CASE FunctionsVisited
    BY <1>1, <2>1 DEF FunctionsVisited
  <2>2. CASE ~FunctionsVisited
    <3>1. pc' \in AfterFunctions => pc \in AfterFunctions
      BY <2>2, LaterStages
    <3>2. pc \in AfterFunctions => function' = function
      BY DEF Next, GetArgs, CreateAddressMap, OtherRun, AddGlobalData, BeginModule,
         AddressForkserver, VisitFunction, FunctionsVisited, AddressPersistent,
         AddressHook, Announce, ShiftAlignment, Save, Ended, vars, AfterFunctions,
         AfterPersistent, AfterHook, AfterAnnounce
    <3>3. QED
      BY <1>1, <3>1, <3>2 DEF LoopInv
  <2>3. QED
    BY <2>1, <2>2
<1>7. (pc \in AfterPersistent /\ options.persistent_mode_address # None =>
         added_persistent_mode)'
  <2>1. CASE AddressPersistent
    BY <1>1, <2>1
    DEF AddressPersistent, Raise, AfterPersistent, AfterHook, AfterAnnounce
  <2>2. CASE ~AddressPersistent
    <3>1. pc' \in AfterPersistent => pc \in AfterPersistent
      BY <2>2, LaterStages
    <3>2. pc \in AfterPersistent => added_persistent_mode' = added_persistent_mode
      BY <2>2
      DEF Next, GetArgs, CreateAddressMap, OtherRun, AddGlobalData, BeginModule,
         AddressForkserver, VisitFunction, FunctionsVisited, AddressHook, Announce,
         ShiftAlignment, Save, Ended, vars, AfterPersistent, AfterHook, AfterAnnounce
    <3>3. QED
      BY <1>1, <3>1, <3>2 DEF LoopInv
  <2>3. QED
    BY <2>1, <2>2
<1>8. (pc \in AfterHook /\ options.hook_loc_address # None => Hooks # {})'
  <2>1. CASE AddressHook /\ pc' \in AfterHook /\ options.hook_loc_address # None
    <3> DEFINE a == options.hook_loc_address
               p == AtAddress("hook", a, TRUE)
    <3>1. Insertable(a) /\ patches' = Append(patches, p) /\ pc = "hook_addr"
      BY <2>1 DEF AddressHook, Raise, AfterHook, AfterAnnounce
    <3>2. pc \in AfterMap /\ a \in Nat
      BY <2>1, <3>1, InputFacts
      DEF SetUpInv, OptionRecord, AfterMap, AfterData, AfterBegin, AfterInit,
          AfterFunctions, AfterPersistent
    <3>3. p \in PatchRecord
      BY <3>1, <3>2, PatchAtAddress DEF AtAddress, Patch, PatchRecord, Kinds
    <3>4. patches' # patches
      BY <3>1, <3>3, AppendIsNew
    <3>5. PICK t \in Seq(PatchRecord) :
            /\ patches' = patches \o t /\ \A n \in DOMAIN t : GoodPatch(t[n])
            /\ DOMAIN t = {1} /\ t[1].kind = "hook"
      BY <2>1, <3>4, Registers
      DEF AddressPersistent, AddGlobalData, BeginModule, ShiftAlignment,
          AddressForkserver, VisitFunction, AddressHook
    <3>6. t[1].hook
      BY <3>5 DEF GoodPatch
    <3>7. Hooks' = Hooks \cup {Len(patches) + n : n \in {n \in DOMAIN t : t[n].hook}}
      BY <3>5, PlacedJoined
    <3>8. QED
      BY <3>5, <3>6, <3>7
  <2>2. CASE ~AddressHook
    BY <1>1, <2>2, LaterStages, HooksStay DEF LoopInv
  <2>3. QED
    BY <1>1, <2>1, <2>2
<1>9. QED
  BY <1>3, <1>4, <1>5, <1>6, <1>7, <1>8 DEF LoopInv

\* Patches of other kinds leave the fork server and its hook as they are.
LEMMA ServerKept ==
  ASSUME PatchesInv, OneServer, NEW t \in Seq(PatchRecord),
         \A n \in DOMAIN t : GoodPatch(t[n]), patches' = patches \o t,
         \A n \in DOMAIN t : t[n].kind # "forkserver",
         HooksServer => \A n \in DOMAIN t : ~t[n].hook,
         options' = options, binary' = binary, added_entrypoint' = added_entrypoint
  PROVE  OneServer'
<1>1. Placed("forkserver")' = Placed("forkserver")
  <2>1. {n \in DOMAIN t : t[n].kind = "forkserver"} = {}
    OBVIOUS
  <2>2. Placed("forkserver")' = Placed("forkserver")
          \cup {Len(patches) + n : n \in {n \in DOMAIN t : t[n].kind = "forkserver"}}
    BY PlacedJoined
  <2>3. QED
    BY <2>1, <2>2
<1>2. HooksServer => Hooks' = Hooks
  <2>1. HooksServer => {n \in DOMAIN t : t[n].hook} = {}
    OBVIOUS
  <2>2. Hooks' = Hooks \cup {Len(patches) + n : n \in {n \in DOMAIN t : t[n].hook}}
    BY PlacedJoined
  <2>3. QED
    BY <2>1, <2>2
<1>3. \A i \in DOMAIN patches : patches'[i] = patches[i]
  BY Several
<1>4. HooksServer' = HooksServer /\ \A p : RightServer(p)' = RightServer(p)
  BY DEF HooksServer, RightServer, Visited, Range
<1>5. CASE ~added_entrypoint
  BY <1>1, <1>2, <1>4, <1>5 DEF OneServer
<1>6. CASE added_entrypoint
  <2>1. PICK i \in Placed("forkserver") :
          /\ Placed("forkserver") = {i} /\ RightServer(patches[i])
          /\ HooksServer =>
               /\ Hooks = {i + 1} /\ patches[i + 1].kind = "hook"
               /\ patches[i + 1].at = patches[i].at
    BY <1>6 DEF OneServer
  <2>2. i \in DOMAIN patches /\ patches'[i] = patches[i]
    BY <1>3 DEF Placed
  <2>3. HooksServer => patches'[i + 1] = patches[i + 1]
    BY <1>3, <2>1 DEF Hooks
  <2>4. RightServer(patches[i])'
    BY <2>1, <2>2 DEF RightServer, Visited, Range
  <2>5. QED
    BY <1>1, <1>2, <1>4, <1>6, <2>1, <2>2, <2>3, <2>4 DEF OneServer
<1>7. QED
  BY <1>5, <1>6

\* The first fork server is placed right, with its hook behind it.
LEMMA ServerAdded ==
  ASSUME PatchesInv, NEW t \in Seq(PatchRecord),
         \A n \in DOMAIN t : GoodPatch(t[n]), patches' = patches \o t,
         Placed("forkserver") = {}, HooksServer => Hooks = {},
         1 \in DOMAIN t, \A n \in DOMAIN t : t[n].kind = "forkserver" <=> n = 1,
         RightServer(t[1]),
         HooksServer => /\ 2 \in DOMAIN t /\ t[2].kind = "hook" /\ t[2].at = t[1].at
                        /\ \A n \in DOMAIN t : t[n].hook <=> n = 2,
         options' = options, binary' = binary, added_entrypoint'
  PROVE  OneServer'
<1>0. PICK i : i = Len(patches) + 1
  OBVIOUS
<1>1. Placed("forkserver")' = {i}
  <2>1. {n \in DOMAIN t : t[n].kind = "forkserver"} = {1}
    OBVIOUS
  <2>2. Placed("forkserver")' = Placed("forkserver")
          \cup {Len(patches) + n : n \in {n \in DOMAIN t : t[n].kind = "forkserver"}}
    BY PlacedJoined
  <2>3. QED
    BY <1>0, <2>1, <2>2
<1>2. HooksServer => Hooks' = {i + 1}
  <2>1. HooksServer => {n \in DOMAIN t : t[n].hook} = {2}
    OBVIOUS
  <2>2. Hooks' = Hooks \cup {Len(patches) + n : n \in {n \in DOMAIN t : t[n].hook}}
    BY PlacedJoined
  <2>3. Len(patches) + 2 = i + 1
    BY <1>0, Several
  <2>4. QED
    BY <2>1, <2>2, <2>3
<1>3. patches'[i] = t[1] /\ (HooksServer => patches'[i + 1] = t[2])
  <2>1. /\ Len(patches) \in Nat /\ DOMAIN t = 1..Len(t)
        /\ \A n \in 1..Len(t) : patches'[Len(patches) + n] = t[n]
    BY Several
  <2>2. patches'[Len(patches) + 1] = t[1]
    BY <2>1
  <2>3. HooksServer => patches'[Len(patches) + 2] = t[2]
    BY <2>1
  <2>4. Len(patches) + 2 = i + 1
    BY <1>0, <2>1
  <2>5. QED
    BY <1>0, <2>2, <2>3, <2>4
<1>4. HooksServer' = HooksServer
  BY DEF HooksServer
<1>5. RightServer(patches[i])'
  BY <1>3 DEF RightServer, Visited, Range
<1>6. HooksServer' => /\ Hooks' = {i + 1} /\ patches'[i + 1].kind = "hook"
                      /\ patches'[i + 1].at = patches'[i].at
  BY <1>2, <1>3, <1>4
<1>7. i \in Placed("forkserver")'
  BY <1>1
<1>8. added_entrypoint'
  OBVIOUS
<1>9. QED
  BY <1>1, <1>5, <1>6, <1>7, <1>8 DEF OneServer

\* Before the functions are visited nothing but data and set-up is there.
LEMMA NoServerYet ==
  ASSUME PatchesInv, pc = "init_addr"
  PROVE  Placed("forkserver") = {} /\ Hooks = {}
<1>1. \A i \in DOMAIN patches :
        patches[i].kind \in {"data", "setup"} /\ GoodPatch(patches[i])
  BY DEF PatchesInv
<1>2. \A i \in DOMAIN patches : patches[i].kind # "forkserver" /\ ~patches[i].hook
  BY <1>1 DEF GoodPatch
<1>3. QED
  BY <1>2 DEF Placed, Hooks

\* One fork server is placed, by address or else by function, and none behind it.
LEMMA ServerStep ==
  ASSUME SetUpInv, PatchesInv, ServerInv, [Next]_vars
  PROVE  ServerInv'
<1>1. options' = options /\ binary' = binary
  BY InputsKept
<1>2. OneServer'
  <2>1. CASE VisitFunction
    <3> DEFINE f == binary.functions[function]
    <3>1. /\ f \in Function(binary.blocks) /\ f.heads \subseteq f.blocks
          /\ f.entries \subseteq f.blocks
          /\ function \in 1..Len(binary.functions) /\ pc = "functions"
      BY <2>1, Visits DEF VisitFunction
    <3>2. CASE UNCHANGED <<patches, added_entrypoint, added_persistent_mode>>
      BY <1>1, <3>2
      DEF ServerInv, OneServer, Placed, Hooks, HooksServer, RightServer, Visited, Range
    <3>3. CASE ~UNCHANGED <<patches, added_entrypoint, added_persistent_mode>>
      <4>1. /\ ~EntersProgram(f)
            /\ added_entrypoint' = (added_entrypoint \/ StartsServer(f))
        BY <2>1, <3>3, Visits
      <4>2. PICK first \in f.entries, last \in f.entries :
              /\ patches' = patches \o FunctionPatches(f, first, last)
              /\ FunctionPatches(f, first, last) \in Seq(PatchRecord)
        BY <2>1, <3>3, Visits
      <4> DEFINE t == FunctionPatches(f, first, last)
      <4>3. /\ StartsServer(f) => 1 \in DOMAIN t
            /\ StartsServer(f) /\ HooksServer => 2 \in DOMAIN t
            /\ \A n \in DOMAIN t :
                 /\ GoodPatch(t[n])
                 /\ t[n].kind = "forkserver" <=> StartsServer(f) /\ n = 1
                 /\ t[n].kind = "hook" <=> StartsServer(f) /\ HooksServer /\ n = 2
                 /\ t[n].kind \in {"forkserver", "hook"} =>
                      t[n].at = [block |-> first, offset |-> 0]
        BY <3>1, FunctionKinds
      <4> HIDE DEF t
      <4>4. HooksServer =>
              \A n \in DOMAIN t : t[n].hook <=> StartsServer(f) /\ n = 2
        BY <4>3 DEF GoodPatch, HookInLoop, HooksServer
      <4>5. CASE StartsServer(f)
        <5>1. ~added_entrypoint /\ f.name = args.init_func /\ added_entrypoint'
          BY <4>1, <4>5 DEF StartsServer
        <5>2. /\ Placed("forkserver") = {} /\ (HooksServer => Hooks = {})
              /\ options.forkserver_init_address = None
          BY <3>1, <5>1 DEF ServerInv, OneServer, AfterInit
        <5>3. f.name = IF options.forkserver_init_func = None THEN Main
                       ELSE options.forkserver_init_func
          BY <3>1, <5>1, <5>2
          DEF SetUpInv, ArgsInv, AsksDeferred, AfterBegin, AfterInit
        <5>4. f \in Visited
          BY <3>1, <4>1, InputFacts DEF Visited, EntersProgram, Range, SetUpInv
        <5>5. t[1].at.block = first /\ t[1].at.offset = 0
          BY <4>3, <4>5
        <5>6. RightServer(t[1])
          BY <5>2, <5>3, <5>4, <5>5 DEF RightServer
        <5>7. \A n \in DOMAIN t : t[n].kind = "forkserver" <=> n = 1
          BY <4>3, <4>5
        <5>8. HooksServer =>
                /\ 2 \in DOMAIN t /\ t[2].kind = "hook" /\ t[2].at = t[1].at
                /\ \A n \in DOMAIN t : t[n].hook <=> n = 2
          BY <4>3, <4>4, <4>5
        <5>9. QED
          BY <1>1, <4>2, <4>3, <4>5, <5>1, <5>2, <5>6, <5>7, <5>8, ServerAdded DEF t
      <4>6. CASE ~StartsServer(f)
        <5>1. added_entrypoint' = added_entrypoint
          BY <4>1, <4>6 DEF SetUpInv, VariablesOK
        <5>2. /\ \A n \in DOMAIN t : GoodPatch(t[n])
              /\ \A n \in DOMAIN t : t[n].kind # "forkserver"
              /\ HooksServer => \A n \in DOMAIN t : ~t[n].hook
          BY <4>3, <4>4, <4>6
        <5>3. QED
          BY <1>1, <4>2, <5>1, <5>2, ServerKept DEF ServerInv, t
      <4>7. QED
        BY <4>5, <4>6
    <3>4. QED
      BY <3>2, <3>3
  <2>2. CASE AddressForkserver /\ patches' # patches
    <3>1. PICK t \in Seq(PatchRecord) :
            /\ patches' = patches \o t /\ \A n \in DOMAIN t : GoodPatch(t[n])
            /\ added_entrypoint'
            /\ options.forkserver_init_address \in Nat
            /\ DOMAIN t = (IF HooksServer THEN {1, 2} ELSE {1})
            /\ t[1].kind = "forkserver"
            /\ t[1].asked = options.forkserver_init_address
            /\ HooksServer =>
                 t[2].kind = "hook" /\ t[2].at = t[1].at /\ t[2].hook = TRUE
      BY <2>2, Registers
      DEF AddressForkserver, AddGlobalData, BeginModule, ShiftAlignment,
          VisitFunction, AddressPersistent, AddressHook
    <3>2. Placed("forkserver") = {} /\ Hooks = {}
      BY <2>2, NoServerYet DEF AddressForkserver
    <3>3. options.forkserver_init_address # None
      BY <3>1, OptionsAssumption
    <3>4. RightServer(t[1])
      BY <3>1, <3>3 DEF RightServer
    <3>5. 1 \in DOMAIN t /\ \A n \in DOMAIN t : t[n].kind = "forkserver" <=> n = 1
      BY <3>1
    <3>6. ~t[1].hook
      BY <3>1, <3>5 DEF GoodPatch
    <3>7. HooksServer =>
            /\ 2 \in DOMAIN t /\ t[2].kind = "hook" /\ t[2].at = t[1].at
            /\ \A n \in DOMAIN t : t[n].hook <=> n = 2
      BY <3>1, <3>6
    <3>8. QED
      BY <1>1, <3>1, <3>2, <3>4, <3>5, <3>7, ServerAdded
  <2>3. CASE ~VisitFunction /\ ~(AddressForkserver /\ patches' # patches)
    <3>1. added_entrypoint' = added_entrypoint
      <4>1. CASE AddressForkserver
        <5> DEFINE a == options.forkserver_init_address
                   p == AtAddress("forkserver", a, FALSE)
                   h == AtAddress("hook", a, TRUE)
                   t == ServerPatches(p, h)
        <5>1. CASE UNCHANGED added_entrypoint
          BY <5>1
        <5>2. CASE a # None /\ Insertable(a) /\ patches' = patches \o t
          <6>1. pc \in AfterMap /\ a \in Nat
            BY <4>1, <5>2, InputFacts
            DEF AddressForkserver, SetUpInv, OptionRecord, AfterMap, AfterData,
                AfterBegin
          <6>2. p \in PatchRecord /\ h \in PatchRecord
            BY <5>2, <6>1, PatchAtAddress DEF AtAddress, Patch, PatchRecord, Kinds
          <6> HIDE DEF p, h
          <6>3. t \in Seq(PatchRecord) /\ Len(t) \in {1, 2}
            BY <6>2, ServerShape
          <6> HIDE DEF t
          <6>4. Len(patches \o t) = Len(patches) + Len(t) /\ Len(patches) \in Nat
            BY <6>3, Joined DEF PatchesInv
          <6>5. patches' # patches
            <7>1. Len(patches \o t) # Len(patches)
              BY <6>3, <6>4
            <7>2. patches' = patches \o t
              BY <5>2
            <7>3. QED
              BY <7>1, <7>2, Zenon
          <6>6. QED
            BY <2>3, <4>1, <6>5
        <5>3. QED
          BY <4>1, <5>1, <5>2 DEF AddressForkserver
      <4>2. CASE ~AddressForkserver
        BY <2>3, <4>2
        DEF Next, GetArgs, CreateAddressMap, OtherRun, AddGlobalData, BeginModule,
            FunctionsVisited, AddressPersistent, AddressHook, Announce,
            ShiftAlignment, Save, Ended, vars
      <4>3. QED
        BY <4>1, <4>2
    <3>2. CASE patches' = patches
      BY <1>1, <3>1, <3>2
      DEF ServerInv, OneServer, Placed, Hooks, HooksServer, RightServer, Visited, Range
    <3>3. CASE patches' # patches
      <4>1. PICK t \in Seq(PatchRecord) :
              /\ patches' = patches \o t /\ \A n \in DOMAIN t : GoodPatch(t[n])
              /\ DOMAIN t = {1} /\ t[1].kind \in {"data", "setup", "padding",
                                                  "persistent", "hook"}
              /\ t[1].kind = "hook" => options.hook_loc_address # None
        BY <2>3, <3>3, Registers
      <4>2. HooksServer => ~t[1].hook
        <5>1. GoodPatch(t[1])
          BY <4>1
        <5>2. HooksServer => t[1].kind # "hook" /\ ~HookInLoop
          BY <4>1, InputFacts DEF HooksServer, HookInLoop, SetUpInv
        <5>3. QED
          BY <5>1, <5>2 DEF GoodPatch
      <4>3. QED
        BY <1>1, <3>1, <4>1, <4>2, ServerKept DEF ServerInv
    <3>4. QED
      BY <3>2, <3>3
  <2>4. QED
    BY <2>1, <2>2, <2>3
<1>3. (pc \in AfterInit /\ options.forkserver_init_address # None => added_entrypoint)'
  <2>1. CASE AddressForkserver
    BY <1>1, <2>1
    DEF AddressForkserver, Raise, AfterInit, AfterFunctions, AfterPersistent,
        AfterHook, AfterAnnounce
  <2>2. CASE ~AddressForkserver
    <3>1. pc' \in AfterInit => pc \in AfterInit
      BY <2>2, LaterStages
    <3>2. \/ added_entrypoint' = added_entrypoint
          \/ VisitFunction /\ added_entrypoint'
               = (added_entrypoint \/ StartsServer(binary.functions[function]))
      BY <2>2, Visits
      DEF Next, GetArgs, CreateAddressMap, OtherRun, AddGlobalData, BeginModule,
          FunctionsVisited, AddressPersistent, AddressHook, Announce,
          ShiftAlignment, Save, Ended, vars
    <3>3. added_entrypoint => added_entrypoint'
      BY <3>2, Zenon
    <3>4. QED
      BY <1>1, <3>1, <3>3 DEF ServerInv
  <2>3. QED
    BY <2>1, <2>2
<1>4. QED
  BY <1>2, <1>3 DEF ServerInv

\* From the announcement on there is a fork server and the messages are made.
LEMMA AnnounceStep ==
  ASSUME SetUpInv, AnnounceInv, [Next]_vars
  PROVE  AnnounceInv'
<1>1. options' = options /\ binary' = binary
  BY InputsKept
<1>2. CASE Announce
  <2>1. /\ args' = args /\ added_persistent_mode' = added_persistent_mode
        /\ added_entrypoint' = added_entrypoint
        /\ pc' \in AfterAnnounce => added_entrypoint /\ messages' = Messages
    BY <1>2 DEF Announce, AfterAnnounce
  <2>2. QED
    BY <1>1, <2>1 DEF AnnounceInv, Messages, AsksDeferred
<1>3. CASE ~Announce
  <2>1. pc' \in AfterAnnounce => pc \in AfterAnnounce
    BY <1>3, LaterStages
  <2>2. pc \in AfterAnnounce =>
          /\ args' = args /\ added_persistent_mode' = added_persistent_mode
          /\ added_entrypoint' = added_entrypoint /\ messages' = messages
    BY <1>3
    DEF Next, GetArgs, CreateAddressMap, OtherRun, AddGlobalData, BeginModule,
        AddressForkserver, VisitFunction, FunctionsVisited, AddressPersistent,
        AddressHook, ShiftAlignment, Save, Ended, vars, AfterAnnounce
  <2>3. QED
    BY <1>1, <2>1, <2>2 DEF AnnounceInv, Messages, AsksDeferred
<1>4. QED
  BY <1>2, <1>3

-------------------------------------------------------------------------------
(***************************************************************************)
(* What holds of what is saved.                                            *)
(***************************************************************************)
PlacesInv == SetUpInv /\ PatchesInv /\ LoopInv /\ ServerInv /\ AnnounceInv

\* The parts together are an inductive invariant.
THEOREM PlacesInvariance == Spec => []PlacesInv
<1>1. Init => LoopInv /\ ServerInv /\ AnnounceInv
  <2> SUFFICES ASSUME Init
               PROVE  LoopInv /\ ServerInv /\ AnnounceInv
    OBVIOUS
  <2>1. Placed("persistent") = {} /\ Placed("forkserver") = {} /\ Hooks = {}
    BY DEF Init, Placed, Hooks
  <2>2. 1..(function - 1) = {} /\ pc = "get_args"
    BY DEF Init
  <2>3. added_entrypoint = FALSE /\ added_persistent_mode = FALSE
    BY DEF Init
  <2>4. QED
    BY <2>1, <2>2, <2>3
    DEF LoopInv, ServerInv, OneServer, AnnounceInv, AfterInit, AfterFunctions,
        AfterPersistent, AfterHook, AfterAnnounce
<1>2. PlacesInv /\ [Next]_vars => (LoopInv /\ ServerInv /\ AnnounceInv)'
  BY LoopStep, ServerStep, AnnounceStep DEF PlacesInv
<1>3. QED
  <2>1. SetUpInv /\ PatchesInv /\ LoopInv /\ ServerInv /\ AnnounceInv <=> PlacesInv
    BY DEF PlacesInv
  <2>2. QED
    BY <1>1, <1>2, <2>1, PatchesInvariance, PTL DEF Spec

\* A saved binary starts its fork server at exactly one place, the one that was
\* asked for, and a hook at FORKSERVER_INIT comes directly behind it.
THEOREM ForkserverPlaced == Spec => []OneForkserver
<1>1. PlacesInv => OneForkserver
  <2> SUFFICES ASSUME PlacesInv, pc = "saved"
               PROVE  \E i \in Placed("forkserver") :
                        /\ Placed("forkserver") = {i} /\ RightServer(patches[i])
                        /\ HooksServer =>
                             /\ Hooks = {i + 1} /\ patches[i + 1].kind = "hook"
                             /\ patches[i + 1].at = patches[i].at
    BY DEF OneForkserver, Saved, RightServer, HooksServer
  <2>1. added_entrypoint
    BY DEF PlacesInv, AnnounceInv, AfterAnnounce
  <2>2. QED
    BY <2>1 DEF PlacesInv, ServerInv, OneServer
<1>2. QED
  BY <1>1, PlacesInvariance, PTL

\* The data, the code and the messages of a saved binary fit together.
THEOREM FlagsMatch == Spec => []FlagsMatchPatches
<1>1. PlacesInv => FlagsMatchPatches
  <2> SUFFICES ASSUME PlacesInv, pc = "saved"
               PROVE  FlagsAgree /\ MessagesTrue
    BY DEF FlagsMatchPatches, Saved
  <2>1. pc \in AfterAnnounce /\ pc \in AfterHook /\ pc \in AfterPersistent
        /\ pc \in AfterFunctions /\ pc \in AfterData /\ pc \in AfterArgs
    BY DEF AfterAnnounce, AfterHook, AfterPersistent, AfterFunctions, AfterInit,
           AfterBegin, AfterData, AfterMap, AfterArgs
  <2>2. /\ globals.PERSISTENT_MODE_SIGNATURE <=> AsksPersistent
        /\ globals.is_persistent <=> AsksPersistent
        /\ globals.DEFERRED_INITIALISATION_SIGNATURE <=> AsksDeferred
        /\ globals.sharedmem_fuzzing <=> AsksHook
    BY <2>1 DEF PlacesInv, SetUpInv, GlobalsInv
  <2>3. \A i \in DOMAIN patches : GoodPatch(patches[i])
    BY DEF PlacesInv, PatchesInv
  <2> DEFINE loop == Placed("persistent") # {}
             hook == Hooks # {}
  <2>4. loop => AsksPersistent
    BY <2>3 DEF Placed, GoodPatch
  <2>5. hook => AsksHook
    <3> SUFFICES ASSUME NEW i \in Hooks
                 PROVE  AsksHook
      OBVIOUS
    <3>1. GoodPatch(patches[i]) /\ patches[i].hook
      BY <2>3 DEF Hooks
    <3>2. QED
      BY <3>1 DEF GoodPatch, HookInLoop, AsksHook
  <2>6. HookInLoop /\ loop => hook
    <3> SUFFICES ASSUME HookInLoop, NEW i \in Placed("persistent")
                 PROVE  i \in Hooks
      OBVIOUS
    <3>1. i \in DOMAIN patches /\ GoodPatch(patches[i]) /\ patches[i].kind = "persistent"
      BY <2>3 DEF Placed
    <3>2. QED
      BY <3>1 DEF GoodPatch, Hooks
  <2>7. HooksServer => hook
    BY <2>1 DEF PlacesInv, AnnounceInv, ServerInv, OneServer
  <2>8. options.hook_loc_address # None => hook
    BY <2>1 DEF PlacesInv, LoopInv
  <2>9. AsksHook /\ ~hook => HookInLoop /\ ~loop
    <3>1. options \in OptionRecord
          /\ (options.hook_location = "address" <=> options.hook_loc_address # None)
          /\ options.hook_location # "unknown"
      BY <2>1, InputFacts DEF PlacesInv, SetUpInv, ArgsInv, Rejected
    <3>2. QED
      BY <2>6, <2>7, <2>8, <3>1 DEF AsksHook, HooksServer, HookInLoop, OptionRecord
  <2>10. AsksPersistent /\ ~loop =>
           \A f \in Visited : f.name # options.persistent_mode_func
    <3> SUFFICES ASSUME ~loop, NEW f \in Visited
                 PROVE  f.name # options.persistent_mode_func
      OBVIOUS
    <3>1. PICK k \in DOMAIN binary.functions : f = binary.functions[k]
      BY DEF Visited, Range
    <3>2. k \in 1..Len(binary.functions) /\ function > Len(binary.functions)
          /\ Len(binary.functions) \in Nat /\ function \in Nat
      BY <2>1, InputFacts DEF PlacesInv, SetUpInv, LoopInv, VariablesOK
    <3>3. k \in 1..(function - 1)
      BY <3>2
    <3>4. ~added_persistent_mode
      BY DEF PlacesInv, LoopInv
    <3>5. QED
      BY <3>1, <3>3, <3>4
      DEF PlacesInv, LoopInv, Sought, Visited, EntersProgram, StartsPersistent
  <2>11. /\ Mode.persistent <=> AsksPersistent
         /\ Mode.sharedmem <=> AsksHook
         /\ Mode.persistent = globals.is_persistent
         /\ Mode.loop <=> loop
         /\ Mode.hook <=> hook
    BY <2>2 DEF Mode
  <2>12. FlagsAgree
    <3>1. Consistent(Mode)
      BY <2>4, <2>5, <2>11 DEF Consistent
    <3>2. Mode.persistent = globals.PERSISTENT_MODE_SIGNATURE
      BY <2>2, <2>11 DEF PlacesInv, SetUpInv, VariablesOK
    <3>3. QED
      BY <2>9, <2>10, <2>11, <3>1, <3>2 DEF FlagsAgree
  <2>13. messages = Messages /\ (added_persistent_mode <=> loop)
    BY <2>1 DEF PlacesInv, AnnounceInv, LoopInv
  <2>14. args.hook_name <=> (AsksHook \/ options.hook_func_name)
    BY <2>1 DEF PlacesInv, SetUpInv, ArgsInv
  <2>15. /\ "persistent" \in messages <=> loop
         /\ "deferred" \in messages <=> AsksDeferred
         /\ "hook" \in messages <=> args.hook_name
    BY <2>13 DEF Messages
  <2>16. MessagesTrue
    BY <2>2, <2>5, <2>9, <2>11, <2>14, <2>15 DEF MessagesTrue, AsksHook
  <2>17. QED
    BY <2>12, <2>16
<1>2. QED
  BY <1>1, PlacesInvariance, PTL

\* What a register of Word values makes of a number that fits, with a sign or
\* without.
LEMMA RegisterValue ==
  ASSUME NEW n \in Int, 2 * n >= -Word, n < Word
  PROVE  /\ n >= 0 => n % Word = n
         /\ n < 0 => n % Word = n + Word /\ 2 * (n % Word) >= Word
<1>1. Word \in Nat /\ Word > 1
  BY OptionsAssumption
<1>2. ASSUME NEW w \in Nat, w > 1, NEW k \in Int, k >= 0, k < w
      PROVE  k % w = k
  BY <1>2
<1>3. ASSUME NEW w \in Nat, w > 1, NEW k \in Int, 2 * k >= -w, k < 0
      PROVE  k % w = k + w
  BY <1>3
<1>4. QED
  BY <1>1, <1>2, <1>3

\* CountUsable: an immediate with or without a sign fits the register of
\* __afl_persistent_loop, the default takes the place of zero and of nothing, and
\* only a negative count is misunderstood.
THEOREM CountsDown == Spec => []CountUsable
<1>1. PlacesInv => CountUsable
  <2> SUFFICES ASSUME PlacesInv, Saved, Placed("persistent") # {}
               PROVE  /\ Immediate \in 1..(Word - 1)
                      /\ \/ Immediate = options.persistent_mode_count
                         \/ /\ Immediate = DefaultCount
                            /\ options.persistent_mode_count \in {None, 0}
                         \/ /\ Immediate >= Word \div 2
                            /\ options.persistent_mode_count < 0
    BY DEF CountUsable
  <2> DEFINE asked == options.persistent_mode_count
  <2>1. AsksPersistent
    <3>1. \A i \in DOMAIN patches : GoodPatch(patches[i])
      BY DEF PlacesInv, PatchesInv
    <3>2. QED
      BY <3>1 DEF Placed, GoodPatch
  <2>2. args.count = IF asked \in {None, 0} THEN DefaultCount ELSE asked
    <3>1. args.count = Count
      BY DEF PlacesInv, SetUpInv, ArgsInv, Saved, AfterArgs, AfterMap, AfterData,
         AfterBegin, AfterInit, AfterFunctions, AfterPersistent, AfterHook,
         AfterAnnounce
    <3>2. QED
      BY <2>1, <3>1 DEF Count
  <2>3. Word \in Nat /\ DefaultCount \in 1..(Word - 1)
    BY OptionsAssumption
  <2>4. CASE asked \in {None, 0}
    <3>1. DefaultCount \in Int /\ 2 * DefaultCount >= -Word /\ DefaultCount < Word
          /\ DefaultCount >= 0
      BY <2>3
    <3>2. DefaultCount % Word = DefaultCount
      BY <3>1, RegisterValue
    <3>3. QED
      BY <2>2, <2>3, <2>4, <3>2 DEF Immediate
  <2>5. CASE asked \notin {None, 0}
    <3>1. asked \in Int /\ asked # 0 /\ 2 * asked >= -Word /\ asked < Word
      BY <2>5, InputFacts, OptionsAssumption
      DEF PlacesInv, SetUpInv, InputInv, OptionRecord
    <3>2. /\ asked >= 0 => asked % Word = asked
          /\ asked < 0 => asked % Word = asked + Word /\ 2 * (asked % Word) >= Word
      BY <3>1, RegisterValue
    <3>3. Immediate = asked % Word
      BY <2>2, <2>5 DEF Immediate
    <3>4. CASE asked >= 0
      BY <2>3, <3>1, <3>2, <3>3, <3>4
    <3>5. CASE asked < 0
      <4>1. /\ Immediate = asked + Word /\ 2 * Immediate >= Word
            /\ Immediate \in Int
        BY <2>3, <3>1, <3>2, <3>3, <3>5
      <4>2. Immediate >= Word \div 2
        BY <2>3, <4>1
      <4>3. QED
        BY <2>3, <3>1, <3>5, <4>1, <4>2
    <3>6. QED
      BY <3>1, <3>4, <3>5
  <2>6. QED
    BY <2>4, <2>5
<1>2. QED
  BY <1>1, PlacesInvariance, PTL

-------------------------------------------------------------------------------
(***************************************************************************)
(* The order of what is at one place.                                      *)
(***************************************************************************)
\* The partition of the code into functions: the entries of one are not in
\* another.
EntriesApart ==
  \A b \in Binaries : \A i, j \in DOMAIN b.functions :
    i # j => b.functions[i].entries \cap b.functions[j].blocks = {}

\* While functions are visited, every hook belongs to the fork server, and loops
\* and trampolines are in functions that were visited before.
VisitedInv ==
  pc = "functions" => \A i \in DOMAIN patches :
    /\ patches[i].kind = "hook" => HooksServer
    /\ patches[i].kind \in {"persistent", "trampoline"} =>
         \E k \in 1..(function - 1) :
           patches[i].at.block \in binary.functions[k].blocks

\* What may have to come behind a patch of a kind.
LEMMA Precedence ==
  ASSUME NEW k, NEW l \in MustPrecede(k)
  PROVE  \/ k = "setup" /\ l \in {"forkserver", "hook", "persistent", "trampoline"}
         \/ k = "forkserver" /\ l \in {"hook", "persistent", "trampoline"}
         \/ /\ k = "persistent" /\ l = "trampoline"
            /\ options.persistent_mode_func # None
BY DEF MustPrecede

\* The options decide the precedence.
LEMMA PrecedenceStays ==
  ASSUME options' = options, NEW k
  PROVE  MustPrecede(k)' = MustPrecede(k)
BY DEF MustPrecede

\* Patches in order, in order behind others that are.
LEMMA OrderJoined ==
  ASSUME PatchesInv, OrderAtOnePlace, options' = options,
         NEW t \in Seq(PatchRecord), \A n \in DOMAIN t : GoodPatch(t[n]),
         patches' = patches \o t,
         \A i \in DOMAIN patches, n \in DOMAIN t :
           t[n].at = patches[i].at => patches[i].kind \notin MustPrecede(t[n].kind),
         \A m, n \in DOMAIN t :
           t[m].at = t[n].at /\ t[n].kind \in MustPrecede(t[m].kind) => m < n
  PROVE  OrderAtOnePlace'
<1> DEFINE u == patches \o t
           l == Len(patches)
<1>1. /\ l \in Nat /\ Len(t) \in Nat
      /\ DOMAIN patches = 1..l /\ DOMAIN t = 1..Len(t) /\ DOMAIN u = 1..(l + Len(t))
      /\ \A i \in 1..l : u[i] = patches[i]
      /\ \A i \in DOMAIN u : i \in DOMAIN patches
           \/ (i - l \in DOMAIN t /\ u[i] = t[i - l])
  BY Several
<1>2. patches' = u
  OBVIOUS
<1> HIDE DEF u, l
<1> SUFFICES ASSUME NEW i \in DOMAIN u, NEW j \in DOMAIN u,
                    u[i].at = u[j].at, u[j].kind \in MustPrecede(u[i].kind)
             PROVE  i < j
  BY <1>2, PrecedenceStays DEF OrderAtOnePlace
<1>3. CASE i \in DOMAIN patches /\ j \in DOMAIN patches
  <2>1. u[i] = patches[i] /\ u[j] = patches[j]
    BY <1>1, <1>3
  <2>2. QED
    BY <1>3, <2>1 DEF OrderAtOnePlace
<1>4. CASE i \in DOMAIN patches /\ j \notin DOMAIN patches
  BY <1>1, <1>4
<1>5. CASE i \notin DOMAIN patches /\ j \in DOMAIN patches
  <2>1. u[j] = patches[j] /\ i - l \in DOMAIN t /\ u[i] = t[i - l]
    BY <1>1, <1>5
  <2>2. QED
    BY <1>5, <2>1
<1>6. CASE i \notin DOMAIN patches /\ j \notin DOMAIN patches
  <2>1. /\ i - l \in DOMAIN t /\ u[i] = t[i - l]
        /\ j - l \in DOMAIN t /\ u[j] = t[j - l]
    BY <1>1, <1>6
  <2>2. i - l < j - l
    BY <2>1
  <2>3. QED
    BY <1>1, <2>2
<1>7. QED
  BY <1>3, <1>4, <1>5, <1>6

\* Of what kinds patches are before and while functions are visited.
LEMMA VisitedStep ==
  ASSUME SetUpInv, PatchesInv, VisitedInv, [Next]_vars
  PROVE  VisitedInv'
<1> SUFFICES ASSUME pc' = "functions"
             PROVE  \A i \in DOMAIN patches' :
                      /\ patches'[i].kind = "hook" => HooksServer
                      /\ patches'[i].kind \in {"persistent", "trampoline"} =>
                           \E k \in 1..(function' - 1) :
                             patches'[i].at.block \in binary.functions[k].blocks
  BY InputsKept DEF VisitedInv, HooksServer
<1> DEFINE Fits(p) == /\ p.kind = "hook" => HooksServer
                      /\ p.kind \in {"persistent", "trampoline"} =>
                           \E k \in 1..(function' - 1) :
                             p.at.block \in binary.functions[k].blocks
<1>1. \/ pc = "init_addr" /\ AddressForkserver
      \/ pc = "functions" /\ (VisitFunction \/ function' = function)
  BY DEF Next, GetArgs, CreateAddressMap, OtherRun, AddGlobalData, BeginModule,
     AddressForkserver, VisitFunction, FunctionsVisited, AddressPersistent,
     AddressHook, Announce, ShiftAlignment, Save, Ended, vars, Raise
<1>2. ASSUME VisitFunction
      PROVE  /\ function \in 1..(function' - 1)
             /\ 1..(function - 1) \subseteq 1..(function' - 1)
  <2>1. /\ function \in 1..Len(binary.functions) /\ Len(binary.functions) \in Nat
        /\ function' = function + 1
    BY <1>2, Visits, InputFacts DEF VisitFunction, SetUpInv
  <2>2. QED
    BY <2>1
<1>3. \A i \in DOMAIN patches : Fits(patches[i])
  <2>1. CASE pc = "init_addr"
    BY <2>1 DEF PatchesInv
  <2>2. CASE pc = "functions"
    <3>1. 1..(function - 1) \subseteq 1..(function' - 1)
      BY <1>1, <1>2, <2>2
    <3>2. QED
      BY <2>2, <3>1 DEF VisitedInv
  <2>3. QED
    BY <1>1, <2>1, <2>2
<1>4. CASE patches' = patches
  BY <1>3, <1>4
<1>5. CASE patches' # patches
  <2>1. ASSUME NEW t \in Seq(PatchRecord), patches' = patches \o t,
               \A n \in DOMAIN t : GoodPatch(t[n]) /\ Fits(t[n])
        PROVE  \A i \in DOMAIN patches' : Fits(patches'[i])
    <3> DEFINE u == patches \o t
               l == Len(patches)
    <3>1. /\ DOMAIN patches = 1..l
          /\ \A i \in 1..l : u[i] = patches[i]
          /\ \A i \in DOMAIN u : i \in DOMAIN patches
               \/ (i - l \in DOMAIN t /\ u[i] = t[i - l])
      BY <2>1, Several
    <3> HIDE DEF u, l, Fits
    <3>2. \A i \in DOMAIN u : Fits(u[i])
      BY <1>3, <2>1, <3>1
    <3>3. QED
      BY <2>1, <3>2 DEF u
  <2>2. CASE AddressForkserver
    <3>1. PICK t \in Seq(PatchRecord) :
            /\ patches' = patches \o t /\ \A n \in DOMAIN t : GoodPatch(t[n])
            /\ DOMAIN t = (IF HooksServer THEN {1, 2} ELSE {1})
            /\ t[1].kind = "forkserver" /\ (HooksServer => t[2].kind = "hook")
      BY <1>5, <2>2, Registers DEF AddressForkserver, AddGlobalData, BeginModule,
         ShiftAlignment, VisitFunction, AddressPersistent, AddressHook
    <3>2. \A n \in DOMAIN t : Fits(t[n])
      BY <3>1
    <3> HIDE DEF Fits
    <3>3. QED
      BY <2>1, <3>1, <3>2 DEF Fits
  <2>3. CASE VisitFunction
    <3> DEFINE f == binary.functions[function]
    <3>1. /\ f \in Function(binary.blocks) /\ f.heads \subseteq f.blocks
          /\ f.entries \subseteq f.blocks
      BY <2>3, Visits
    <3>2. PICK first \in f.entries, last \in f.entries :
            /\ patches' = patches \o FunctionPatches(f, first, last)
            /\ FunctionPatches(f, first, last) \in Seq(PatchRecord)
      BY <1>5, <2>3, Visits
    <3> DEFINE t == FunctionPatches(f, first, last)
    <3>3. \A n \in DOMAIN t : /\ GoodPatch(t[n]) /\ t[n].at.block \in f.blocks
                              /\ t[n].kind = "hook" => HooksServer
      BY <3>1, FunctionKinds
    <3> HIDE DEF t
    <3>4. \A n \in DOMAIN t : Fits(t[n])
      BY <1>2, <2>3, <3>3
    <3> HIDE DEF Fits
    <3>5. patches' = patches \o t /\ t \in Seq(PatchRecord)
      BY <3>2 DEF t
    <3>6. QED
      BY <2>1, <3>3, <3>4, <3>5 DEF Fits
  <2>4. QED
    BY <1>1, <1>5, <2>2, <2>3
    DEF Next, GetArgs, CreateAddressMap, OtherRun, AddGlobalData, BeginModule,
        FunctionsVisited, AddressPersistent, AddressHook, Announce,
        ShiftAlignment, Save, Ended, vars
<1>6. QED
  BY <1>4, <1>5

\* The order survives a step: what is appended is behind what is there, and
\* where it would have to come first, nothing of that kind is there yet.
LEMMA OrderStep ==
  ASSUME EntriesApart, SetUpInv, PatchesInv, ServerInv, VisitedInv,
         OrderAtOnePlace, [Next]_vars
  PROVE  OrderAtOnePlace'
<1>1. options' = options
  BY InputsKept
<1>2. CASE patches' = patches
  <2>1. \A k : MustPrecede(k)' = MustPrecede(k)
    BY <1>1, PrecedenceStays
  <2>2. QED
    BY <1>2, <2>1 DEF OrderAtOnePlace
<1>3. CASE patches' # patches
  <2> DEFINE InOrder(t) ==
        /\ \A i \in DOMAIN patches, n \in DOMAIN t :
             t[n].at = patches[i].at => patches[i].kind \notin MustPrecede(t[n].kind)
        /\ \A m, n \in DOMAIN t :
             t[m].at = t[n].at /\ t[n].kind \in MustPrecede(t[m].kind) => m < n
  <2>1. ASSUME NEW t \in Seq(PatchRecord), patches' = patches \o t,
               \A n \in DOMAIN t : GoodPatch(t[n]), InOrder(t)
        PROVE  OrderAtOnePlace'
    BY <1>1, <2>1, OrderJoined
  <2> HIDE DEF InOrder
  <2>2. CASE AddGlobalData \/ BeginModule \/ ShiftAlignment
    <3>1. PICK t \in Seq(PatchRecord) :
            /\ patches' = patches \o t /\ \A n \in DOMAIN t : GoodPatch(t[n])
            /\ DOMAIN t = {1} /\ t[1].kind \in {"data", "setup", "padding"}
            /\ t[1].kind = "setup" => BeginModule
      BY <1>3, <2>2, Registers
      DEF AddressForkserver, AddGlobalData, BeginModule, ShiftAlignment,
          VisitFunction, AddressPersistent, AddressHook
    <3>2. \A i \in DOMAIN patches : patches[i].kind \notin MustPrecede(t[1].kind)
      <4> SUFFICES ASSUME NEW i \in DOMAIN patches,
                          patches[i].kind \in MustPrecede(t[1].kind)
                   PROVE  FALSE
        OBVIOUS
      <4>1. t[1].kind = "setup" /\ patches[i].kind # "data"
        BY <3>1, Precedence
      <4>2. pc = "begin_afl"
        BY <3>1, <4>1 DEF BeginModule
      <4>3. QED
        BY <4>1, <4>2 DEF PatchesInv
    <3>3. t[1].kind \notin MustPrecede(t[1].kind)
      BY <3>1, Precedence
    <3>4. InOrder(t)
      BY <3>1, <3>2, <3>3 DEF InOrder
    <3>5. QED
      BY <2>1, <3>1, <3>4
  <2>3. CASE AddressForkserver
    <3>1. PICK t \in Seq(PatchRecord) :
            /\ patches' = patches \o t /\ \A n \in DOMAIN t : GoodPatch(t[n])
            /\ DOMAIN t = (IF HooksServer THEN {1, 2} ELSE {1})
            /\ t[1].kind = "forkserver" /\ (HooksServer => t[2].kind = "hook")
      BY <1>3, <2>3, Registers
      DEF AddressForkserver, AddGlobalData, BeginModule, ShiftAlignment,
          VisitFunction, AddressPersistent, AddressHook
    <3>2. \A i \in DOMAIN patches : patches[i].kind \in {"data", "setup"}
      BY <2>3 DEF AddressForkserver, PatchesInv
    <3>3. \A n \in DOMAIN t : t[n].kind \in {"forkserver", "hook"}
      BY <3>1
    <3>4. \A m, n \in DOMAIN t : t[n].kind \in MustPrecede(t[m].kind) => m < n
      <4> SUFFICES ASSUME NEW m \in DOMAIN t, NEW n \in DOMAIN t,
                          t[n].kind \in MustPrecede(t[m].kind)
                   PROVE  m < n
        OBVIOUS
      <4>1. t[m].kind = "forkserver" /\ t[n].kind = "hook"
        BY <3>3, Precedence
      <4>2. m = 1 /\ n = 2
        BY <3>1, <4>1
      <4>3. QED
        BY <4>2
    <3>5. \A i \in DOMAIN patches, n \in DOMAIN t :
            patches[i].kind \notin MustPrecede(t[n].kind)
      BY <3>2, <3>3, Precedence
    <3>6. InOrder(t)
      BY <3>4, <3>5 DEF InOrder
    <3>7. QED
      BY <2>1, <3>1, <3>6
  <2>4. CASE VisitFunction
    <3> DEFINE f == binary.functions[function]
    <3>1. /\ function \in 1..Len(binary.functions)
          /\ f \in Function(binary.blocks) /\ f.heads \subseteq f.blocks
          /\ f.entries \subseteq f.blocks /\ pc = "functions"
      BY <2>4, Visits DEF VisitFunction
    <3>2. PICK first \in f.entries, last \in f.entries :
            /\ patches' = patches \o FunctionPatches(f, first, last)
            /\ FunctionPatches(f, first, last) \in Seq(PatchRecord)
      BY <1>3, <2>4, Visits
    <3> DEFINE t == FunctionPatches(f, first, last)
               s == ServerLength(f)
    <3>3. \A n \in DOMAIN t :
            /\ GoodPatch(t[n])
            /\ t[n].kind \in {"forkserver", "hook", "persistent", "trampoline"}
            /\ t[n].kind = "forkserver" => StartsServer(f) /\ n = 1
            /\ t[n].kind = "hook" => StartsServer(f) /\ HooksServer /\ n = 2
            /\ t[n].kind = "persistent" => n = s + 1
            /\ t[n].kind = "forkserver" => t[n].at = [block |-> first, offset |-> 0]
            /\ t[n].kind = "persistent" => t[n].at.block = last
            /\ t[n].kind = "trampoline" => n > s + LoopLength(f)
      BY <3>1, FunctionKinds
    <3>4. \A n \in DOMAIN t : t[n].kind = "persistent" => StartsPersistent(f)
      BY <3>1, FunctionKinds
    <3>5. t \in Seq(PatchRecord) /\ DOMAIN t \subseteq Nat /\ patches' = patches \o t
      BY <3>2, LenProperties
    <3>6. /\ s \in {0, 1, 2} /\ LoopLength(f) \in {0, 1}
          /\ StartsServer(f) => s >= 1
          /\ StartsServer(f) /\ HooksServer => s = 2
          /\ StartsPersistent(f) => LoopLength(f) = 1
      BY DEF ServerLength, LoopLength
    <3> HIDE DEF t, s
    <3>7. \A m, n \in DOMAIN t : t[n].kind \in MustPrecede(t[m].kind) => m < n
      <4> SUFFICES ASSUME NEW m \in DOMAIN t, NEW n \in DOMAIN t,
                          t[n].kind \in MustPrecede(t[m].kind)
                   PROVE  m < n
        OBVIOUS
      <4>1. \/ /\ t[m].kind = "forkserver"
               /\ t[n].kind \in {"hook", "persistent", "trampoline"}
            \/ t[m].kind = "persistent" /\ t[n].kind = "trampoline"
        BY <3>3, Precedence
      <4>2. m \in Nat /\ n \in Nat
        BY <3>5
      <4>3. CASE t[m].kind = "forkserver"
        <5>1. m = 1 /\ StartsServer(f)
          BY <3>3, <4>3
        <5>2. n = 2 \/ n = s + 1 \/ n > s + LoopLength(f)
          BY <3>3, <4>1, <4>3
        <5>3. QED
          BY <3>6, <4>2, <5>1, <5>2
      <4>4. CASE t[m].kind = "persistent" /\ t[n].kind = "trampoline"
        <5>1. m = s + 1 /\ StartsPersistent(f) /\ n > s + LoopLength(f)
          BY <3>3, <3>4, <4>4
        <5>2. QED
          BY <3>6, <4>2, <5>1
      <4>5. QED
        BY <4>1, <4>3, <4>4
    <3>8. ASSUME NEW i \in DOMAIN patches, NEW n \in DOMAIN t,
                 t[n].at = patches[i].at, patches[i].kind \in MustPrecede(t[n].kind)
          PROVE  FALSE
      <4>1. \/ /\ t[n].kind = "forkserver"
               /\ patches[i].kind \in {"hook", "persistent", "trampoline"}
            \/ t[n].kind = "persistent" /\ patches[i].kind = "trampoline"
        BY <3>3, <3>8, Precedence
      <4>2. t[n].at.block \in f.entries
        BY <3>3, <4>1
      <4>3. CASE patches[i].kind = "hook"
        <5>1. StartsServer(f) /\ HooksServer /\ patches[i].hook
          BY <3>1, <3>3, <4>1, <4>3 DEF VisitedInv, PatchesInv, GoodPatch
        <5>2. Hooks = {}
          BY <5>1 DEF ServerInv, OneServer, StartsServer
        <5>3. QED
          BY <5>1, <5>2 DEF Hooks
      <4>4. CASE patches[i].kind \in {"persistent", "trampoline"}
        <5>1. PICK k \in 1..(function - 1) :
                patches[i].at.block \in binary.functions[k].blocks
          BY <3>1, <4>4 DEF VisitedInv
        <5>2. /\ binary \in Binaries /\ function \in DOMAIN binary.functions
              /\ k \in DOMAIN binary.functions /\ k # function
          BY <3>1, InputFacts DEF SetUpInv, InputInv
        <5>3. f.entries \cap binary.functions[k].blocks = {}
          BY <5>2 DEF EntriesApart
        <5>4. QED
          BY <3>8, <4>2, <5>1, <5>3
      <4>5. QED
        BY <4>1, <4>3, <4>4
    <3>9. InOrder(t)
      BY <3>7, <3>8 DEF InOrder
    <3>10. QED
      BY <2>1, <3>3, <3>5, <3>9
  <2>5. CASE AddressPersistent
    <3>1. PICK t \in Seq(PatchRecord) :
            /\ patches' = patches \o t /\ \A n \in DOMAIN t : GoodPatch(t[n])
            /\ options.persistent_mode_address # None
            /\ DOMAIN t = {1} /\ t[1].kind = "persistent"
      BY <1>3, <2>5, Registers
      DEF AddressForkserver, AddGlobalData, BeginModule, ShiftAlignment,
          VisitFunction, AddressPersistent, AddressHook
    <3>2. options.persistent_mode_func = None
      <4>1. pc \in AfterArgs
        BY <2>5 DEF AddressPersistent, AfterArgs, AfterMap, AfterData, AfterBegin,
           AfterInit, AfterFunctions
      <4>2. ~Rejected
        BY <4>1 DEF SetUpInv, ArgsInv
      <4>3. QED
        BY <3>1, <4>2 DEF Rejected
    <3>3. MustPrecede(t[1].kind) = {}
      BY <3>1, <3>2, Precedence
    <3>4. InOrder(t)
      BY <3>1, <3>3 DEF InOrder
    <3>5. QED
      BY <2>1, <3>1, <3>4
  <2>6. CASE AddressHook
    <3>1. PICK t \in Seq(PatchRecord) :
            /\ patches' = patches \o t /\ \A n \in DOMAIN t : GoodPatch(t[n])
            /\ DOMAIN t = {1} /\ t[1].kind = "hook"
      BY <1>3, <2>6, Registers
      DEF AddressForkserver, AddGlobalData, BeginModule, ShiftAlignment,
          VisitFunction, AddressPersistent, AddressHook
    <3>2. MustPrecede(t[1].kind) = {}
      BY <3>1, Precedence
    <3>3. InOrder(t)
      BY <3>1, <3>2 DEF InOrder
    <3>4. QED
      BY <2>1, <3>1, <3>3
  <2>7. QED
    BY <1>3, <2>2, <2>3, <2>4, <2>5, <2>6
    DEF Next, GetArgs, CreateAddressMap, OtherRun, FunctionsVisited, Announce,
        Save, Ended, vars
<1>4. QED
  BY <1>2, <1>3

\* OrderAtOnePlace, for binaries whose functions do not share an entry: the set-up,
\* the fork server, and then what runs in the child; a loop given by function
\* before the trampoline.
THEOREM RightOrder ==
  ASSUME EntriesApart
  PROVE  Spec => []OrderAtOnePlace
<1>1. Init => VisitedInv /\ OrderAtOnePlace
  BY DEF Init, VisitedInv, OrderAtOnePlace
<1>2. PlacesInv /\ (VisitedInv /\ OrderAtOnePlace) /\ [Next]_vars
        => (VisitedInv /\ OrderAtOnePlace)'
  BY VisitedStep, OrderStep DEF PlacesInv
<1>3. QED
  BY <1>1, <1>2, PlacesInvariance, PTL DEF Spec

-------------------------------------------------------------------------------
(***************************************************************************)
(* Addresses that are accepted, and those that are refused.                *)
(***************************************************************************)
\* Blocks do not overlap.
BlocksApart ==
  \A b \in Binaries : \A m, n \in b.blocks : m < n => m + b.size[m] <= n

\* An address in a block or directly behind it, where a patch can be.
Accepted(a) == \E b \in binary.blocks :
  \/ InBlock(b, a) \/ InBlock(b, a - 1)
  \/ b = binary.entry_point /\ InBlock(b, a - 2)

\* An address that is in no block, or not before the last one.
Refused(a) ==
  \/ \A b \in binary.blocks : ~InBlock(b, a)
  \/ a >= Greatest(binary.blocks)

\* What was asked for at an address is in place once its turn has passed; a run
\* that failed has been asked for an address that it cannot insert at.
AddressInv ==
  /\ pc \in AfterInit /\ options.forkserver_init_address # None =>
       ~foreign /\ Accepted(options.forkserver_init_address)
  /\ pc \in AfterPersistent /\ options.persistent_mode_address # None =>
       ~foreign /\ Accepted(options.persistent_mode_address)
  /\ pc \in AfterHook /\ options.hook_loc_address # None =>
       ~foreign /\ Accepted(options.hook_loc_address)
  /\ pc = "exception" /\ ~foreign => \E a \in AskedAddresses : Refused(a)

\* What insert_patch_at_address takes.
LEMMA Accepts ==
  ASSUME SetUpInv, pc \in AfterMap, NEW a \in Nat, Insertable(a)
  PROVE  ~foreign /\ Accepted(a)
<1> DEFINE b == Found(a)
<1>1. /\ ~foreign /\ b \in binary.blocks /\ a - b \in Nat
      /\ a - b <= binary.size[b] + added[b]
  BY Placeable
<1>2. /\ b \in Nat /\ binary.size[b] \in Nat \ {0} /\ added[b] \in {0, 1}
      /\ added[b] = 1 => b = binary.entry_point
  BY <1>1, InputFacts DEF SetUpInv, AddedInv
<1> HIDE DEF b
<1>3. \/ a \in b..(b + binary.size[b] - 1)
      \/ a - 1 \in b..(b + binary.size[b] - 1)
      \/ added[b] = 1 /\ a - 2 \in b..(b + binary.size[b] - 1)
  <2>1. a \in Nat /\ a >= b /\ a <= b + binary.size[b] + added[b]
    BY <1>1, <1>2
  <2>2. CASE added[b] = 0
    BY <1>2, <2>1, <2>2
  <2>3. CASE added[b] = 1
    BY <1>2, <2>1, <2>3
  <2>4. QED
    BY <1>2, <2>2, <2>3
<1>4. QED
  BY <1>1, <1>2, <1>3 DEF Accepted, InBlock

\* What insert_patch_at_address refuses, with a map of its own binary.
LEMMA Refuses ==
  ASSUME BlocksApart, SetUpInv, pc \in AfterMap, ~foreign,
         NEW a \in Nat, ~Insertable(a)
  PROVE  Refused(a)
<1>1. mappings = binary.blocks
  BY DEF SetUpInv, MapInv
<1>2. /\ binary.blocks \subseteq Nat \ {0} /\ IsFiniteSet(binary.blocks)
      /\ binary.blocks # {} /\ binary.size \in [binary.blocks -> Nat \ {0}]
  BY InputFacts DEF SetUpInv
<1>3. /\ Behind(a) = {m \in binary.blocks : a < m}
      /\ NotBehind(a) = {m \in binary.blocks : m <= a}
  BY <1>1, <1>2 DEF NotBehind, Behind
<1>4. CASE Behind(a) = {}
  <2>1. Greatest(binary.blocks) \in binary.blocks
    BY <1>2, GreatestExists
  <2>2. a >= Greatest(binary.blocks)
    BY <1>2, <1>3, <1>4, <2>1
  <2>3. QED
    BY <2>2 DEF Refused
<1>5. CASE Behind(a) # {} /\ NotBehind(a) = {}
  BY <1>2, <1>3, <1>5 DEF Refused, InBlock
<1>6. CASE Behind(a) # {} /\ NotBehind(a) # {}
  <2> DEFINE g == Found(a)
  <2>1. IsFiniteSet(NotBehind(a)) /\ NotBehind(a) \in SUBSET Nat
    BY <1>2, <1>3, FS_Subset
  <2>2. g \in NotBehind(a) /\ \A m \in NotBehind(a) : m <= g
    BY <1>6, <2>1, GreatestExists DEF Found
  <2>3. g \in binary.blocks /\ g <= a /\ \A m \in binary.blocks : m <= a => m <= g
    BY <1>3, <2>2
  <2>4. a - g \notin 0..(binary.size[g] + added[g])
    BY <1>6 DEF Insertable
  <2>5. g \in Nat /\ binary.size[g] \in Nat /\ added[g] \in {0, 1}
    BY <1>2, <2>3 DEF SetUpInv, AddedInv
  <2> HIDE DEF g
  <2>6. a > g + binary.size[g]
    <3>1. a - g \in Nat /\ binary.size[g] + added[g] \in Nat
      BY <2>3, <2>5
    <3>2. a - g > binary.size[g] + added[g]
      BY <2>4, <3>1
    <3>3. QED
      BY <2>5, <3>2
  <2>7. ASSUME NEW b \in binary.blocks, InBlock(b, a)
        PROVE  FALSE
    <3>1. /\ b \in Nat /\ binary.size[b] \in Nat
          /\ b <= a /\ a <= b + binary.size[b] - 1
      BY <1>2, <2>7 DEF InBlock
    <3>2. b <= g
      BY <2>3, <3>1
    <3>3. b < g => b + binary.size[b] <= g
      BY <2>3 DEF BlocksApart, SetUpInv, InputInv
    <3>4. QED
      BY <2>3, <2>5, <2>6, <3>1, <3>2, <3>3
  <2>8. QED
    BY <2>7 DEF Refused
<1>7. QED
  BY <1>4, <1>5, <1>6

\* Who needs the map has his address accepted or fails.
LEMMA AddressStep ==
  ASSUME BlocksApart, SetUpInv, LoopInv, AddressInv, [Next]_vars
  PROVE  AddressInv'
<1>1. options' = options /\ binary' = binary
  BY InputsKept
<1>2. \A a : /\ Accepted(a)' <=> Accepted(a)
             /\ Refused(a)' <=> Refused(a)
  BY <1>1 DEF Accepted, Refused, InBlock, Greatest
<1>3. AskedAddresses' = AskedAddresses
  BY <1>1 DEF AskedAddresses
<1>4. /\ options.forkserver_init_address \in Nat \cup {None}
      /\ options.persistent_mode_address \in Nat \cup {None}
      /\ options.hook_loc_address \in Nat \cup {None}
  BY InputFacts DEF SetUpInv, OptionRecord
<1>5. pc \in {"init_addr", "persistent_addr", "hook_addr"} => pc \in AfterMap
  BY DEF AfterMap, AfterData, AfterBegin, AfterInit, AfterFunctions,
     AfterPersistent
<1>6. ~OtherRun => foreign' = foreign
  BY DEF Next, GetArgs, CreateAddressMap, AddGlobalData, BeginModule,
     AddressForkserver, VisitFunction, FunctionsVisited, AddressPersistent,
     AddressHook, Announce, ShiftAlignment, Save, Ended, vars, map_file
<1>7. OtherRun => pc' \notin AfterInit /\ pc' # "exception"
  BY DEF OtherRun, AfterInit, AfterFunctions, AfterPersistent, AfterHook,
     AfterAnnounce
<1>8. /\ AfterPersistent \subseteq AfterInit /\ AfterHook \subseteq AfterInit
  BY DEF AfterInit, AfterFunctions, AfterPersistent
<1>9. ASSUME pc' \in AfterInit, options.forkserver_init_address # None
      PROVE  ~foreign /\ Accepted(options.forkserver_init_address)
  <2>1. CASE pc \in AfterInit
    BY <1>9, <2>1 DEF AddressInv
  <2>2. CASE pc \notin AfterInit
    <3>1. AddressForkserver
      BY <1>9, <2>2, LaterStages
    <3>2. pc' # "exception"
      BY <1>9 DEF AfterInit, AfterFunctions, AfterPersistent, AfterHook,
         AfterAnnounce
    <3>3. pc = "init_addr" /\ Insertable(options.forkserver_init_address)
      BY <1>9, <3>1, <3>2 DEF AddressForkserver, Raise
    <3>4. QED
      BY <1>4, <1>5, <1>9, <3>3, Accepts
  <2>3. QED
    BY <2>1, <2>2
<1>10. ASSUME pc' \in AfterPersistent, options.persistent_mode_address # None
       PROVE  ~foreign /\ Accepted(options.persistent_mode_address)
  <2>1. CASE pc \in AfterPersistent
    BY <1>10, <2>1 DEF AddressInv
  <2>2. CASE pc \notin AfterPersistent
    <3>1. AddressPersistent /\ pc = "persistent_addr"
      BY <1>10, <2>2, LaterStages DEF AddressPersistent
    <3>2. pc' # "exception"
      BY <1>10 DEF AfterPersistent, AfterHook, AfterAnnounce
    <3>3. ~added_persistent_mode
      <4>1. pc \in AfterArgs
        BY <3>1 DEF AfterArgs, AfterMap, AfterData, AfterBegin, AfterInit,
           AfterFunctions
      <4>2. ~Rejected
        BY <4>1 DEF SetUpInv, ArgsInv
      <4>3. options.persistent_mode_func = None
        BY <1>10, <4>2 DEF Rejected
      <4>4. QED
        BY <3>1, <4>3 DEF LoopInv
    <3>4. Insertable(options.persistent_mode_address)
      BY <1>10, <3>1, <3>2, <3>3 DEF AddressPersistent, Raise
    <3>5. QED
      BY <1>4, <1>5, <1>10, <3>1, <3>4, Accepts
  <2>3. QED
    BY <2>1, <2>2
<1>11. ASSUME pc' \in AfterHook, options.hook_loc_address # None
       PROVE  ~foreign /\ Accepted(options.hook_loc_address)
  <2>1. CASE pc \in AfterHook
    BY <1>11, <2>1 DEF AddressInv
  <2>2. CASE pc \notin AfterHook
    <3>1. AddressHook
      BY <1>11, <2>2, LaterStages
    <3>2. pc' # "exception"
      BY <1>11 DEF AfterHook, AfterAnnounce
    <3>3. pc = "hook_addr" /\ Insertable(options.hook_loc_address)
      BY <1>11, <3>1, <3>2 DEF AddressHook, Raise
    <3>4. QED
      BY <1>4, <1>5, <1>11, <3>3, Accepts
  <2>3. QED
    BY <2>1, <2>2
<1>12. ASSUME pc' = "exception", ~foreign'
       PROVE  \E a \in AskedAddresses : Refused(a)
  <2>1. ~foreign
    BY <1>6, <1>7, <1>12
  <2>2. CASE pc = "exception"
    BY <2>1, <2>2 DEF AddressInv
  <2>3. CASE pc # "exception"
    <3>1. PICK a \in AskedAddresses : ~Insertable(a) /\ pc \in AfterMap
      <4>1. \/ /\ pc = "init_addr" /\ options.forkserver_init_address # None
               /\ ~Insertable(options.forkserver_init_address)
            \/ /\ pc = "persistent_addr" /\ options.persistent_mode_address # None
               /\ ~Insertable(options.persistent_mode_address)
            \/ /\ pc = "hook_addr" /\ options.hook_loc_address # None
               /\ ~Insertable(options.hook_loc_address)
        BY <1>12, <2>1, <2>3
        DEF Next, GetArgs, CreateAddressMap, OtherRun, AddGlobalData,
            BeginModule, AddressForkserver, VisitFunction, FunctionsVisited,
            AddressPersistent, AddressHook, Announce, ShiftAlignment, Save,
            Ended, vars
      <4>2. QED
        BY <1>5, <4>1 DEF AskedAddresses
    <3>2. a \in Nat
      BY <1>4 DEF AskedAddresses
    <3>3. QED
      BY <2>1, <3>1, <3>2, Refuses
  <2>4. QED
    BY <2>2, <2>3
<1>13. /\ pc' \in AfterInit => ~OtherRun
       /\ pc' = "exception" => ~OtherRun
  BY <1>7
<1>14. QED
  BY <1>1, <1>2, <1>3, <1>6, <1>8, <1>9, <1>10, <1>11, <1>12, <1>13
  DEF AddressInv

\* AddressFaults, for binaries whose blocks do not overlap: where patches for
\* addresses land, which addresses are refused and which are accepted.
THEOREM AddressesTaken ==
  ASSUME BlocksApart
  PROVE  Spec => []AddressFaults
<1>1. Init => AddressInv
  BY DEF Init, AddressInv, AfterInit, AfterFunctions, AfterPersistent, AfterHook,
     AfterAnnounce
<1>2. PlacesInv /\ AddressInv /\ [Next]_vars => AddressInv'
  BY AddressStep DEF PlacesInv
<1>3. PlacesInv /\ AddressInv => AddressFaults
  <2> SUFFICES ASSUME PlacesInv, AddressInv
               PROVE  AddressFaults
    OBVIOUS
  <2>1. \A i \in DOMAIN patches :
          \/ patches[i].lands = patches[i].asked
          \/ /\ patches[i].lands = patches[i].asked - 1
             /\ patches[i].at.block = binary.entry_point /\ patches[i].at.offset > 0
    BY DEF PlacesInv, PatchesInv, GoodPatch
  <2>2. pc = "exception" /\ ~foreign => \E a \in AskedAddresses : Refused(a)
    BY DEF AddressInv
  <2>3. Saved => \A a \in AskedAddresses : ~foreign /\ Accepted(a)
    BY DEF AddressInv, AskedAddresses, Saved, AfterInit, AfterFunctions,
       AfterPersistent, AfterHook, AfterAnnounce
  <2>4. QED
    BY <2>1, <2>2, <2>3 DEF AddressFaults, Accepted, Refused
<1>4. QED
  BY <1>1, <1>2, <1>3, PlacesInvariance, PTL DEF Spec
===============================================================================
