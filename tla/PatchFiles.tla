------------------------------ MODULE PatchFiles ------------------------------
(***************************************************************************)
(* How the functions of afl-instrumentation.c get into a binary: gcc       *)
(* compiles them to assembly, parse_assembly.py cuts the assembly into one *)
(* patch file per function, add_afl.py lists the patch files, inserts the  *)
(* functions, and pads .rodata so that the target's own read-only data     *)
(* keeps its alignment.                                                    *)
(*                                                                         *)
(* A line of assembly is a record: what kind of line the regular           *)
(* expressions of parse_assembly.py see in it, and the symbol it is about. *)
(* A string constant is known by how many plain characters, newlines and   *)
(* other escapes it has.  A line has an index from 1, where the program    *)
(* counts from 0.                                                          *)
(*                                                                         *)
(* The C files are those of functions without a switch that gcc would      *)
(* compile to a jump table and without floating-point constants, whose     *)
(* strings are short enough for .string lines, arrays and constant tables; *)
(* the repository's is one.  All that is said of a C file is said of these.*)
(***************************************************************************)
EXTENDS Integers, SequencesExt, FiniteSetsExt

CONSTANTS
  Sources,    \* C files that are explored: sequences of items
  Strings,    \* string constants
  Plain, Newlines, Escapes,  \* number of each kind of character in a string
  Width,      \* characters an escape other than \n is written with
  TableSize,  \* bytes of a constant table
  Base,       \* a number below it is written with one digit: ten
  None

\* A function with the strings it uses in order, a char array with a string in
\* it, or a constant table.
Item == [kind : {"function", "array", "table"}, uses : Seq(Strings)]

ASSUME SourcesAssumption ==
  /\ Sources \subseteq Seq(Item)
  /\ \A s \in Sources : \A k \in DOMAIN s :
       /\ s[k].kind = "array" => Len(s[k].uses) = 1
       /\ s[k].kind = "table" => s[k].uses = <<>>

ASSUME NumbersAssumption ==
  /\ Plain \in [Strings -> Nat] /\ Newlines \in [Strings -> Nat]
  /\ Escapes \in [Strings -> Nat]
  /\ Width \in Nat \ {0, 1} /\ TableSize \in Nat \ {0}
  /\ Base \in Nat \ {0} /\ Strings \cap Nat = {} /\ None \notin Strings \cup Nat

VARIABLES
  source,            \* the C file
  assembly,          \* its lines of assembly
  pc, i, func_index,
  func_rodata, found_rodata, func_code,
  total_rodata_len,
  files,             \* patch files written
  inserted,          \* patch files inserted into the binary, in order
  rodata             \* bytes added to .rodata

scan == <<func_rodata, found_rodata, func_code>>
vars == <<source, assembly, pc, i, func_index, func_rodata, found_rodata,
          func_code, total_rodata_len, files, inserted, rodata>>

-----------------------------------------------------------------------------
(***************************************************************************)
(* gcc -S without optimisation: items in the order of the source; a string *)
(* constant is laid down once per file, before the first function that     *)
(* uses it; a section directive where the section changes.                 *)
(***************************************************************************)
Line(kind, symbol) == [kind |-> kind, symbol |-> symbol]

UsedBefore(src, k) ==
  UNION {ToSet(src[j].uses) : j \in {j \in 1..(k - 1) : src[j].kind = "function"}}

\* The uses of strings that are in the file for the first time.
FirstUses(src, k) ==
  {n \in DOMAIN src[k].uses :
     /\ src[k].uses[n] \notin UsedBefore(src, k)
     /\ \A m \in 1..(n - 1) : src[k].uses[m] # src[k].uses[n]}

SectionOf(item) == CASE item.kind = "function" -> "text"
                     [] item.kind = "array" -> "data"
                     [] item.kind = "table" -> "section_rodata"

Enter(section, current) ==
  IF section = current THEN <<>> ELSE <<Line(section, None)>>

Laid(s) == <<Line("align", None), Line("label", s), Line("string", s)>>

Pool(src, k) ==
  FlattenSeq([n \in DOMAIN src[k].uses |->
                IF n \in FirstUses(src, k) THEN Laid(src[k].uses[n]) ELSE <<>>])

\* What stands before a function, and the function.
Preamble(src, k, current) ==
  IF FirstUses(src, k) = {} THEN Enter("text", current)
  ELSE Enter("section_rodata", current) \o Pool(src, k) \o <<Line("text", None)>>

Body(uses, k) ==
  <<Line("type_function", k), Line("label", k), Line("cfi", None)>>
  \o [n \in DOMAIN uses |-> Line("code", uses[n])]
  \o <<Line("code", None), Line("cfi_endproc", None), Line("size", k)>>

Assemble(src, k) ==
  LET item    == src[k]
      current == IF k = 1 THEN "none" ELSE SectionOf(src[k - 1])
  IN CASE item.kind = "function" ->
            Preamble(src, k, current) \o Body(item.uses, k)
       [] item.kind = "array" ->
            Enter("data", current)
            \o <<Line("type_object", k), Line("label", k),
                 Line("string", item.uses[1])>>
       [] item.kind = "table" ->
            Enter("section_rodata", current)
            \o <<Line("type_object", k), Line("label", k), Line("table", k)>>

\* The file begins with a directive of no interest.
Assembly(src) ==
  <<Line("file", None)>> \o FlattenSeq([k \in DOMAIN src |-> Assemble(src, k)])

Bytes(s) == Plain[s] + Newlines[s] + Escapes[s] + 1

-----------------------------------------------------------------------------
TypeOK ==
  /\ pc \in {"search", "data", "code", "main", "globals", "insert", "shift", "done"}
  /\ i \in 1..(Len(assembly) + 1) /\ func_index \in 0..Len(assembly)
  /\ found_rodata \in BOOLEAN
  /\ total_rodata_len \in Nat /\ rodata \in Nat
  /\ ToSet(func_rodata) \subseteq ToSet(assembly)
  /\ ToSet(func_code) \subseteq ToSet(assembly)
  /\ \A n \in DOMAIN files : files[n].number = n - 1
  /\ ToSet(inserted) \subseteq ToSet(files)

Init ==
  /\ source \in Sources /\ assembly = Assembly(source)
  /\ pc = "search" /\ i = 1 /\ func_index = 0
  /\ func_rodata = <<>> /\ found_rodata = FALSE /\ func_code = <<>>
  /\ total_rodata_len = 0 /\ files = <<>> /\ inserted = <<>> /\ rodata = 0

(***************************************************************************)
(* parse_assembly.py                                                       *)
(***************************************************************************)
Here == assembly[i]

\* The outer loop: a .type directive for a function starts a search backwards.
Search ==
  /\ pc = "search" /\ i <= Len(assembly)
  /\ \/ /\ Here.kind = "type_function"
        /\ pc' = "data" /\ func_index' = i
        /\ func_rodata' = <<>> /\ found_rodata' = FALSE /\ func_code' = <<>>
        /\ UNCHANGED i
     \/ /\ Here.kind # "type_function"
        /\ i' = i + 1 /\ UNCHANGED <<pc, func_index, scan>>
  /\ UNCHANGED <<source, assembly, total_rodata_len, files, inserted, rodata>>

LeftOut == {"type_function", "type_object", "text", "align"}

\* The characters between the quotes, \n being counted as one, and the final 0.
CountEscaped(s) == Plain[s] + 2 * Newlines[s] + Width * Escapes[s] + 1  \* mutant
Count(s)        == Plain[s] + Newlines[s] + Width * Escapes[s] + 1

NeverStops(line) == line.kind = "section_rodata"   \* mutant: no stop at a function
Stops(line) == line.kind \in {"section_rodata", "cfi_endproc"}

ResumeHere == i             \* mutant: the index is not set back
ResumeAt == func_index + 2  \* behind the label

\* The inner loop over the lines before the function: lines are collected and
\* strings tallied up to .section .rodata, the end of another function, or the
\* first line, which is not looked at.
CollectData ==
  /\ pc = "data"
  /\ LET looks == i > 1
         kept  == IF looks /\ Here.kind \notin LeftOut THEN <<Here>> \o func_rodata
                  ELSE func_rodata
         found == looks /\ Here.kind = "section_rodata"
         stop  == ~looks \/ Stops(Here)
     IN
     /\ total_rodata_len' = total_rodata_len
          + IF looks /\ Here.kind = "string" THEN Count(Here.symbol) ELSE 0
     /\ found_rodata' = found
     /\ IF stop THEN /\ func_rodata' = IF found THEN kept ELSE <<>>
                     /\ i' = ResumeAt /\ pc' = "code"
                ELSE func_rodata' = kept /\ i' = i - 1 /\ UNCHANGED pc
  /\ UNCHANGED <<source, assembly, func_index, func_code, files, inserted, rodata>>

PatchNoFromOne == Len(files) + 1   \* mutant: counted from one
PatchNo        == Len(files)

\* The inner loop over the function itself, then the patch file
\* <patch_no>-<func_name>.s.
CollectCode ==
  /\ pc = "code"
  /\ \/ /\ Here.kind # "cfi_endproc"
        /\ func_code' = IF Here.kind = "cfi" THEN func_code ELSE Append(func_code, Here)
        /\ UNCHANGED <<pc, files>>
     \/ /\ Here.kind = "cfi_endproc"
        /\ files' = Append(files, [number |-> PatchNo,
                                   name   |-> assembly[func_index + 1].symbol,
                                   code   |-> func_code,
                                   rodata |-> func_rodata])
        /\ pc' = "search" /\ UNCHANGED func_code
  /\ i' = i + 1
  /\ UNCHANGED <<source, assembly, func_index, func_rodata, found_rodata,
                 total_rodata_len, inserted, rodata>>

\* added_bytes_rodata is written and the program ends.
AllParsed ==
  /\ pc = "search" /\ i > Len(assembly)
  /\ pc' = "globals"
  /\ UNCHANGED <<source, assembly, i, func_index, scan, total_rodata_len, files,
                 inserted, rodata>>

-----------------------------------------------------------------------------
(***************************************************************************)
(* add_afl.py: what its passes do to .rodata                               *)
(***************************************************************************)
\* AddAFLGlobalDataPass: .space 16, and 32 bytes for each signature.
GlobalData ==
  /\ pc = "globals"
  /\ \E is_persistent, is_deferred \in {0, 1} :
       rodata' = 16 + 32 * is_persistent + 32 * is_deferred
  /\ pc' = "insert"
  /\ UNCHANGED <<source, assembly, i, func_index, scan, total_rodata_len, files,
                 inserted>>

\* One digit and a hyphen.
Accepted(file) == file.number < Base

AsListed(listing) == listing             \* mutant: no sort
Sorted(listing) ==
  CHOOSE s \in SetToSeqs(ToSet(listing)) :
    \A m, n \in DOMAIN s : m < n => s[m].number < s[n].number

\* What a patch file adds to .rodata: an array is laid in .data again.
Section(file, n) ==
  LET switches == {m \in 1..n : file.rodata[m].kind \in {"section_rodata", "data"}}
  IN  file.rodata[Max(switches)].kind

Total(numbers) ==
  LET total[n \in 0..Len(numbers)] == IF n = 0 THEN 0 ELSE total[n - 1] + numbers[n]
  IN  total[Len(numbers)]

LaidDown(file) ==
  Total([n \in DOMAIN file.rodata |->
           CASE Section(file, n) = "data" -> 0
             [] file.rodata[n].kind = "string" -> Bytes(file.rodata[n].symbol)
             [] file.rodata[n].kind = "table" -> TableSize
             [] OTHER -> 0])

\* AddAFLPass: os.listdir returns the patch files in any order.
InsertFunctions ==
  /\ pc = "insert"
  /\ \E listing \in SetToSeqs({f \in ToSet(files) : Accepted(f)}) :
       inserted' = Sorted(listing)
  /\ rodata' = rodata + Total([n \in DOMAIN inserted' |-> LaidDown(inserted'[n])])
  /\ pc' = "shift"
  /\ UNCHANGED <<source, assembly, i, func_index, scan, total_rodata_len, files>>

\* RODATA_ALIGNMENT
Alignment == 16

\* calc_alignment, in main and in the ShiftRodataAlignment driver.
calc_alignment(nbytes) == Alignment * ((nbytes \div Alignment) + 1) - nbytes

\* ShiftRodataAlignmentPass
ShiftRodataAlignment ==
  /\ pc = "shift"
  /\ rodata' = rodata + calc_alignment(total_rodata_len)
  /\ pc' = "done"
  /\ UNCHANGED <<source, assembly, i, func_index, scan, total_rodata_len, files,
                 inserted>>

Done == pc = "done" /\ UNCHANGED vars

Next ==
  \/ Search \/ CollectData \/ CollectCode \/ AllParsed
  \/ GlobalData \/ InsertFunctions \/ ShiftRodataAlignment \/ Done

Spec == Init /\ [][Next]_vars

-----------------------------------------------------------------------------
(***************************************************************************)
(* Properties.                                                             *)
(***************************************************************************)
Functions == {k \in DOMAIN source : source[k].kind = "function"}

\* The patch files are the functions of the source in its order, each once,
\* with all of its instructions and no call frame directive.
FilesAreFunctions ==
  /\ \A n \in DOMAIN files :
       LET k == files[n].name
           u == source[k].uses
       IN  /\ k \in Functions
           /\ \A j \in Functions : j < k <=> \E m \in 1..(n - 1) : files[m].name = j
           /\ files[n].code = [m \in 1..(Len(u) + 1) |->
                Line("code", IF m <= Len(u) THEN u[m] ELSE None)]
  /\ pc \in {"globals", "insert", "shift", "done"} =>
       Functions = {files[n].name : n \in DOMAIN files}

\* Whatever order the directory is listed in, the functions are inserted in
\* that of the source; those from number ten on are left out.
InsertedInOrder ==
  pc \in {"shift", "done"} => inserted = SubSeq(files, 1, Min({Base, Len(files)}))

Defines(file) == {file.rodata[n].symbol :
                    n \in {n \in DOMAIN file.rodata : file.rodata[n].kind = "label"}}

\* A string that a function uses is defined by its own patch, or the function
\* is not the first to use it; no symbol is defined by two patches.
StringsDefinedOnce ==
  \A n \in DOMAIN files :
    /\ \A s \in ToSet(source[files[n].name].uses) :
         s \in Defines(files[n]) \/ s \in UsedBefore(source, files[n].name)
    /\ \A m \in DOMAIN files \ {n} : Defines(files[m]) \cap Defines(files[n]) = {}

\* The target's own read-only data keeps its alignment, unless one of four
\* things made the count of parse_assembly.py differ from what is inserted: an
\* escape other than \n, a table, an array, a function left out.  Jump tables,
\* floating-point constants and .ascii lines, which are in no C file here, would
\* be causes of their own.
MisalignmentCauses ==
  pc = "done" /\ rodata % Alignment # 0 =>
    \/ \E k \in DOMAIN source : \/ source[k].kind # "function"
                                \/ \E s \in ToSet(source[k].uses) : Escapes[s] > 0
    \/ Cardinality(Functions) > Base
===============================================================================
