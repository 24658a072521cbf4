------------------------------- MODULE MCAddAFL -------------------------------
EXTENDS AddAFL

MCNames == {"_start", "main", "test", "absent"}
MCMain  == "main"

Fun(n, bs, es) == [name |-> n, blocks |-> bs, entries |-> es, heads |-> bs]

\* _start in one block; main in two, joined by a call; a hole; a function.
MCBlocks == {10, 20, 24, 30}
MCSize   == [b \in MCBlocks |-> 4]
Start    == Fun("_start", {10}, {10})
MainFun  == [Fun("main", {20, 24}, {20}) EXCEPT !.heads = {20}]

Bin(fs) == [blocks |-> MCBlocks, size |-> MCSize, entry_point |-> 10,
            functions |-> fs]

Usual     == Bin(<<Start, MainFun, Fun("test", {30}, {30})>>)
\* A program without a function called main; the other one has two entries.
Stripped  == Bin(<<Start, Fun("test", {20, 24}, {20, 24})>>)
\* Two static functions of the same name.
SameNames == Bin(<<Start, Fun("test", {20}, {20}), Fun("main", {24}, {24}),
                   Fun("test", {30}, {30})>>)
\* The entry point is in main.
OwnEntry  == Bin(<<Fun("main", {10}, {10}), Fun("test", {20, 24, 30}, {20})>>)

MCBinaries == {Usual, Stripped, SameNames, OwnEntry}

AnyOptions ==
  [forkserver_init_func : {None, "main", "test", "absent"},
   forkserver_init_address : {None, 5, 12, 20, 30},
   persistent_mode_func : {None, "test", "absent"},
   persistent_mode_address : {None, 15, 18, 20, 26},
   persistent_mode_count : {None, 0, 3, -1},
   hook_location : {"none", "PERSISTENT_LOOP", "FORKSERVER_INIT", "address",
                    "unknown"},
   hook_loc_address : {None, 12, 26},
   hook_func_name : BOOLEAN]

MCOptions ==
  {o \in AnyOptions :
     (o.hook_location = "address") <=> (o.hook_loc_address # None)}
===============================================================================
