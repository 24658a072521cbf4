------------------------- MODULE PatchAlignmentProofs -------------------------
(***************************************************************************)
(* Proofs about PatchFiles: the bytes that one program counts and the      *)
(* bytes that the other inserts, for any C file that PatchFiles describes. *)
(***************************************************************************)
EXTENDS PatchFilesProofs

-------------------------------------------------------------------------------
(***************************************************************************)
(* Numbers that are added up.                                              *)
(***************************************************************************)
\* The sums of the first numbers of s.
Sums(s) ==
  {t \in [0..Len(s) -> Nat] : t[0] = 0 /\ \A n \in 1..Len(s) : t[n] = t[n - 1] + s[n]}

\* There are such sums.
LEMMA SumsExist ==
  ASSUME NEW s \in Seq(Nat)
  PROVE  \E t : t \in Sums(s)
<1> DEFINE L == Len(s)
           First(t, n) == /\ t \in [0..n -> Nat] /\ t[0] = 0
                          /\ \A m \in 1..n : t[m] = t[m - 1] + s[m]
           P == {n \in Nat : n <= L => \E t : First(t, n)}
<1>1. L \in Nat /\ \A m \in 1..L : s[m] \in Nat
  BY LenProperties, ElementOfSeq
<1> HIDE DEF L
<1>2. 0 \in P
  <2>1. First([n \in 0..0 |-> 0], 0)
    OBVIOUS
  <2> HIDE DEF First
  <2>2. QED
    BY <2>1
<1>3. \A n \in Nat : n \in P => n + 1 \in P
  <2> SUFFICES ASSUME NEW n \in Nat, n + 1 <= L, NEW t, First(t, n)
               PROVE  \E u : First(u, n + 1)
    <3> HIDE DEF First
    <3>1. QED
      BY <1>1
  <2> DEFINE u == [m \in 0..(n + 1) |-> IF m <= n THEN t[m] ELSE t[n] + s[n + 1]]
  <2>1. s[n + 1] \in Nat
    BY <1>1
  <2>2. t[n] \in Nat /\ \A m \in 0..n : t[m] \in Nat
    OBVIOUS
  <2>3. u \in [0..(n + 1) -> Nat]
    BY <2>1, <2>2
  <2>4. u[0] = 0 /\ u[n + 1] = t[n] + s[n + 1] /\ \A m \in 0..n : u[m] = t[m]
    OBVIOUS
  <2>5. \A m \in 1..n : t[m] = t[m - 1] + s[m]
    OBVIOUS
  <2> HIDE DEF u
  <2>6. ASSUME NEW m \in 1..(n + 1)
        PROVE  u[m] = u[m - 1] + s[m]
    <3>1. m - 1 \in 0..n /\ u[m - 1] = t[m - 1]
      BY <2>4
    <3>2. CASE m \in 1..n
      <4>1. m \in 0..n
        BY <3>2
      <4>2. u[m] = t[m] /\ t[m] = t[m - 1] + s[m]
        BY <2>4, <2>5, <3>2, <4>1
      <4>3. QED
        BY <3>1, <4>2
    <3>3. CASE m = n + 1
      BY <2>4, <3>1, <3>3
    <3>4. QED
      BY <3>2, <3>3
  <2>7. QED
    BY <2>3, <2>4, <2>6
<1>4. L \in P
  <2> HIDE DEF P
  <2>1. QED
    BY <1>1, <1>2, <1>3, Induction
<1>5. QED
  BY <1>1, <1>4 DEF L, Sums

\* Total is the last of them.
LEMMA TotalIs ==
  ASSUME NEW s \in Seq(Nat), NEW t \in Sums(s)
  PROVE  Total(s) \in Nat /\ Total(s) = t[Len(s)]
<1> DEFINE L == Len(s)
           Adds(f) == f = [n \in 0..L |-> IF n = 0 THEN 0 ELSE f[n - 1] + s[n]]
           total == CHOOSE f : Adds(f)
<1>1. L \in Nat
  BY LenProperties
<1>2. Total(s) = total[L]
  BY DEF Total
<1>3. /\ t \in [0..L -> Nat] /\ t[0] = 0
      /\ \A n \in 1..L : t[n] = t[n - 1] + s[n]
  BY DEF Sums
<1> HIDE DEF L
<1>4. Adds(t)
  <2>1. \A n \in 0..L : t[n] = IF n = 0 THEN 0 ELSE t[n - 1] + s[n]
    BY <1>1, <1>3
  <2>2. t = [n \in 0..L |-> t[n]]
    BY <1>3
  <2>3. QED
    BY <2>1, <2>2
<1>5. Adds(total)
  BY <1>4
<1> HIDE DEF total
<1>6. \A n \in 0..L : total[n] = IF n = 0 THEN 0 ELSE total[n - 1] + s[n]
  BY <1>5
<1> DEFINE P == {n \in Nat : n <= L => total[n] = t[n]}
<1>7. 0 \in P
  BY <1>1, <1>3, <1>6
<1>8. \A n \in Nat : n \in P => n + 1 \in P
  <2> SUFFICES ASSUME NEW n \in Nat, total[n] = t[n], n + 1 <= L
               PROVE  total[n + 1] = t[n + 1]
    BY <1>1
  <2>1. n + 1 \in 1..L /\ n + 1 \in 0..L /\ n + 1 # 0 /\ (n + 1) - 1 = n
    BY <1>1
  <2>2. total[n + 1] = total[n] + s[n + 1]
    BY <1>6, <2>1
  <2>3. t[n + 1] = t[n] + s[n + 1]
    BY <1>3, <2>1
  <2>4. QED
    BY <2>2, <2>3
<1>9. L \in P
  <2> HIDE DEF P
  <2>1. QED
    BY <1>1, <1>7, <1>8, Induction
<1>10. total[L] = t[L] /\ t[L] \in Nat
  BY <1>1, <1>3, <1>9
<1>11. QED
  BY <1>2, <1>10 DEF L

\* One more number at the end.
LEMMA TotalAppend ==
  ASSUME NEW s \in Seq(Nat), NEW u \in Seq(Nat), NEW x \in Nat,
         Len(u) = Len(s) + 1, u[Len(s) + 1] = x,
         \A m \in 1..Len(s) : u[m] = s[m]
  PROVE  Total(u) = Total(s) + x
<1> DEFINE L == Len(s)
<1>1. L \in Nat /\ Len(u) = L + 1
  BY LenProperties
<1>2. PICK t : t \in Sums(s)
  BY SumsExist
<1>3. /\ t \in [0..L -> Nat] /\ t[0] = 0
      /\ \A n \in 1..L : t[n] = t[n - 1] + s[n]
  BY <1>2 DEF Sums
<1>4. u[L + 1] = x /\ \A m \in 1..L : u[m] = s[m]
  OBVIOUS
<1> HIDE DEF L
<1> DEFINE v == [m \in 0..(L + 1) |-> IF m <= L THEN t[m] ELSE t[L] + x]
<1>5. v[0] = 0 /\ v[L + 1] = t[L] + x /\ \A m \in 0..L : v[m] = t[m]
  BY <1>1, <1>3
<1>6. v \in [0..(L + 1) -> Nat]
  BY <1>1, <1>3
<1> HIDE DEF v
<1>7. ASSUME NEW m \in 1..(L + 1)
      PROVE  v[m] = v[m - 1] + u[m]
  <2>1. m - 1 \in 0..L /\ v[m - 1] = t[m - 1]
    BY <1>1, <1>5
  <2>2. CASE m \in 1..L
    <3>1. m \in 0..L
      BY <1>1, <2>2
    <3>2. v[m] = t[m] /\ t[m] = t[m - 1] + s[m] /\ u[m] = s[m]
      BY <1>3, <1>4, <1>5, <2>2, <3>1
    <3>3. QED
      BY <2>1, <3>2
  <2>3. CASE m = L + 1
    BY <1>1, <1>4, <1>5, <2>1, <2>3
  <2>4. QED
    BY <1>1, <2>2, <2>3
<1>8. v \in Sums(u)
  BY <1>1, <1>5, <1>6, <1>7 DEF Sums
<1>9. Total(u) = v[L + 1]
  BY <1>1, <1>8, TotalIs
<1>10. Total(s) = t[L]
  BY <1>2, TotalIs DEF L
<1>11. QED
  BY <1>5, <1>9, <1>10

\* One more number at the beginning.
LEMMA TotalPrepend ==
  ASSUME NEW s \in Seq(Nat), NEW u \in Seq(Nat), NEW x \in Nat,
         Len(u) = Len(s) + 1, u[1] = x,
         \A m \in 1..Len(s) : u[m + 1] = s[m]
  PROVE  Total(u) = Total(s) + x
<1> DEFINE L == Len(s)
<1>1. L \in Nat /\ Len(u) = L + 1
  BY LenProperties
<1>2. PICK t : t \in Sums(s)
  BY SumsExist
<1>3. /\ t \in [0..L -> Nat] /\ t[0] = 0
      /\ \A n \in 1..L : t[n] = t[n - 1] + s[n]
  BY <1>2 DEF Sums
<1>4. u[1] = x /\ \A m \in 1..L : u[m + 1] = s[m]
  OBVIOUS
<1> HIDE DEF L
<1> DEFINE v == [m \in 0..(L + 1) |-> IF m = 0 THEN 0 ELSE x + t[m - 1]]
<1>5. v[0] = 0 /\ \A m \in 1..(L + 1) : v[m] = x + t[m - 1]
  BY <1>1
<1>6. v \in [0..(L + 1) -> Nat]
  <2>1. ASSUME NEW m \in 0..(L + 1), m # 0
        PROVE  x + t[m - 1] \in Nat
    <3>1. m - 1 \in 0..L
      BY <1>1, <2>1
    <3>2. t[m - 1] \in Nat
      BY <1>3, <3>1
    <3>3. QED
      BY <3>2
  <2>2. QED
    BY <2>1
<1> HIDE DEF v
<1>7. ASSUME NEW m \in 1..(L + 1)
      PROVE  v[m] = v[m - 1] + u[m]
  <2>1. CASE m = 1
    BY <1>1, <1>3, <1>4, <1>5, <2>1
  <2>2. CASE m # 1
    <3>1. m - 1 \in 1..L /\ m - 1 \in 1..(L + 1) /\ (m - 1) + 1 = m
      BY <1>1, <2>2
    <3>2. v[m] = x + t[m - 1] /\ v[m - 1] = x + t[(m - 1) - 1]
      BY <1>5, <3>1
    <3>3. t[m - 1] = t[(m - 1) - 1] + s[m - 1] /\ u[m] = s[m - 1]
      BY <1>3, <1>4, <3>1
    <3>4. (m - 1) - 1 \in 0..L
      BY <1>1, <3>1
    <3>5. t[(m - 1) - 1] \in Nat /\ s[m - 1] \in Nat
      BY <1>3, <3>1, <3>4, ElementOfSeq DEF L
    <3>6. QED
      BY <3>2, <3>3, <3>5
  <2>3. QED
    BY <2>1, <2>2
<1>8. v \in Sums(u)
  BY <1>1, <1>5, <1>6, <1>7 DEF Sums
<1>9. Total(u) = v[L + 1]
  BY <1>1, <1>8, TotalIs
<1>10. Total(s) = t[L] /\ t[L] \in Nat
  BY <1>2, TotalIs DEF L
<1>11. v[L + 1] = x + t[L]
  BY <1>1, <1>5
<1>12. QED
  BY <1>9, <1>10, <1>11

\* Nothing but zeros.
LEMMA TotalZero ==
  ASSUME NEW s \in Seq(Nat), \A m \in 1..Len(s) : s[m] = 0
  PROVE  Total(s) = 0
<1> DEFINE L == Len(s)
           t == [n \in 0..L |-> 0]
<1>1. L \in Nat
  BY LenProperties
<1>2. t \in Sums(s)
  BY <1>1 DEF Sums
<1>3. Total(s) = t[L]
  BY <1>2, TotalIs
<1>4. t[L] = 0
  BY <1>1
<1>5. QED
  BY <1>3, <1>4

\* A function on the first numbers is a sequence.
LEMMA FunctionSeq ==
  ASSUME NEW S, NEW n \in Nat, NEW w \in [1..n -> S]
  PROVE  w \in Seq(S) /\ Len(w) = n /\ DOMAIN w = 1..n
OBVIOUS


\* A sum of numbers is a number.
LEMMA TotalNat ==
  ASSUME NEW s \in Seq(Nat)
  PROVE  Total(s) \in Nat
BY SumsExist, TotalIs

-------------------------------------------------------------------------------
(***************************************************************************)
(* Types.                                                                  *)
(***************************************************************************)
\* What a patch file adds is a number of bytes.
LEMMA LaidDownNat ==
  ASSUME NEW file \in FileType
  PROVE  LaidDown(file) \in Nat
<1> DEFINE r == file.rodata
           L == Len(r)
           laid(n) == CASE Section(file, n) = "data" -> 0
                        [] r[n].kind = "string" -> Bytes(r[n].symbol)
                        [] r[n].kind = "table" -> TableSize
                        [] OTHER -> 0
           w == [n \in DOMAIN r |-> laid(n)]
<1>1. r \in Seq(LineType)
  BY DEF FileType
<1>2. L \in Nat /\ DOMAIN r = 1..L /\ \A n \in 1..L : r[n] \in LineType
  BY <1>1, LenProperties, ElementOfSeq
<1>3. LaidDown(file) = Total(w)
  BY DEF LaidDown
<1>4. ASSUME NEW n \in 1..L
      PROVE  laid(n) \in Nat
  <2>1. r[n] \in LineType
    BY <1>2
  <2>2. r[n].kind = "string" => Bytes(r[n].symbol) \in Nat
    <3>1. r[n].kind = "string" => r[n].symbol \in Strings
      BY <2>1 DEF LineType
    <3>2. QED
      BY <3>1, CountShape
  <2>3. TableSize \in Nat
    BY NumbersAssumption
  <2>4. QED
    BY <2>2, <2>3
<1> HIDE DEF laid, L, r
<1>5. w \in [1..L -> Nat]
  BY <1>2, <1>4
<1> HIDE DEF w
<1>6. w \in Seq(Nat)
  BY <1>2, <1>5, FunctionSeq
<1>7. QED
  BY <1>3, <1>6, TotalNat

\* calc_alignment fills up to a multiple of the alignment.
LEMMA Fills ==
  ASSUME NEW n \in Nat
  PROVE  calc_alignment(n) \in Nat /\ \E c \in Nat : n + calc_alignment(n) = 16 * c
<1> DEFINE d == n \div 16
<1>1. d \in Nat /\ n < 16 * (d + 1)
  OBVIOUS
<1>2. calc_alignment(n) = 16 * (d + 1) - n
  BY DEF calc_alignment, Alignment
<1> HIDE DEF d
<1>3. calc_alignment(n) \in Nat
  BY <1>1, <1>2
<1>4. d + 1 \in Nat /\ n + calc_alignment(n) = 16 * (d + 1)
  BY <1>1, <1>2
<1>5. QED
  BY <1>3, <1>4

\* What is inserted adds a number of bytes.
LEMMA InsertedNat ==
  ASSUME NEW w \in Seq(FileType)
  PROVE  Total([n \in DOMAIN w |-> LaidDown(w[n])]) \in Nat
<1> DEFINE L == Len(w)
           v == [n \in DOMAIN w |-> LaidDown(w[n])]
<1>1. L \in Nat /\ DOMAIN w = 1..L
  BY LenProperties
<1>2. \A n \in 1..L : LaidDown(w[n]) \in Nat
  BY LaidDownNat, ElementOfSeq
<1> HIDE DEF L
<1>3. v \in [1..L -> Nat]
  BY <1>1, <1>2
<1> HIDE DEF v
<1>4. v \in Seq(Nat)
  BY <1>1, <1>3, FunctionSeq
<1>5. QED
  BY <1>4, TotalNat DEF v

\* The bytes that are added are a number.
RodataNat == rodata \in Nat

\* Types of the scan, the patch files and .rodata, for any C file.
THEOREM TypeCorrect == Spec => []TypeOK
<1>1. Init => RodataNat
  BY DEF Init, RodataNat
<1>2. CutInv /\ RodataNat /\ [Next]_vars => RodataNat'
  <2> SUFFICES ASSUME CutInv, RodataNat, [Next]_vars
               PROVE  RodataNat'
    OBVIOUS
  <2> USE DEF RodataNat
  <2>1. CASE Search
    BY <2>1 DEF Search
  <2>2. CASE CollectData
    BY <2>2 DEF CollectData
  <2>3. CASE CollectCode
    BY <2>3 DEF CollectCode
  <2>4. CASE AllParsed
    BY <2>4 DEF AllParsed
  <2>5. CASE GlobalData
    <3>1. PICK is_persistent \in {0, 1}, is_deferred \in {0, 1} :
                rodata' = 16 + 32 * is_persistent + 32 * is_deferred
      BY <2>5 DEF GlobalData
    <3>2. QED
      BY <3>1
  <2>6. CASE InsertFunctions
    <3> PICK w : w = inserted'
      OBVIOUS
    <3>1. w = SubSeq(files, 1, Min({Base, Len(files)}))
      BY <2>6, OrderInsert
    <3>2. w \in Seq(FileType)
      BY <3>1, FirstFiles
    <3>3. rodata' = rodata + Total([n \in DOMAIN w |-> LaidDown(w[n])])
      BY <2>6 DEF InsertFunctions
    <3>4. QED
      BY <3>2, <3>3, InsertedNat
  <2>7. CASE ShiftRodataAlignment
    <3>1. total_rodata_len \in Nat /\ rodata' = rodata + calc_alignment(total_rodata_len)
      BY <2>7 DEF ShiftRodataAlignment, CutInv, VariablesOK
    <3>2. calc_alignment(total_rodata_len) \in Nat
      BY <3>1, Fills
    <3>3. QED
      BY <3>1, <3>2
  <2>8. CASE UNCHANGED vars
    BY <2>8 DEF vars
  <2>9. QED
    BY <2>1, <2>2, <2>3, <2>4, <2>5, <2>6, <2>7, <2>8 DEF Next, Done
<1>3. Spec => []OrderInv
  BY OrderInvariance
<1>4. CutInv /\ RodataNat /\ OrderInv => TypeOK
  <2> SUFFICES ASSUME CutInv, RodataNat, OrderInv
               PROVE  TypeOK
    OBVIOUS
  <2>1. VariablesOK
    BY DEF CutInv
  <2>2. ToSet(inserted) \subseteq ToSet(files)
    <3>1. CASE inserted = <<>>
      BY <3>1 DEF ToSet
    <3>2. CASE inserted = SubSeq(files, 1, Min({Base, Len(files)}))
      BY <3>2, FirstFiles DEF ToSet
    <3>3. QED
      BY <2>1, <3>1, <3>2 DEF OrderInv, InsertedInOrder, VariablesOK, Parsing, Parsed
  <2>3. QED
    BY <2>1, <2>2 DEF TypeOK, VariablesOK, RodataNat, Parsing, Parsed
<1>5. QED
  BY <1>1, <1>2, <1>3, <1>4, CutInvariance, PTL DEF Spec


-------------------------------------------------------------------------------
(***************************************************************************)
(* What is counted and what is inserted.                                   *)
(***************************************************************************)
\* A C file with none of the things that the count goes wrong for.
PlainSource ==
  \A k \in DOMAIN source :
    source[k].kind = "function" /\ \A s \in ToSet(source[k].uses) : Escapes[s] = 0

\* What CollectData counts for a line, for lines, and for the patch files.
Counted(line) == IF line.kind = "string" THEN Count(line.symbol) ELSE 0
Tally(r)      == Total([n \in DOMAIN r |-> Counted(r[n])])
FilesTally    == Total([n \in DOMAIN files |-> Tally(files[n].rodata)])

Leads(r) == r = <<>> \/ r[1].kind = "section_rodata"

\* What has been counted is in the patch files and in the one being written, and
\* their data begins with the directive for .rodata.
CountInv ==
  PlainSource =>
    /\ total_rodata_len =
         FilesTally + IF pc \in {"data", "code"} THEN Tally(func_rodata) ELSE 0
    /\ pc = "code" => Leads(func_rodata)
    /\ \A n \in DOMAIN files : Leads(files[n].rodata)

\* What is counted for lines, one by one.
LEMMA TallyShape ==
  ASSUME NEW r \in Seq(LineType)
  PROVE  \E v \in Seq(Nat) :
           /\ Tally(r) = Total(v) /\ Tally(r) \in Nat /\ Len(v) = Len(r)
           /\ \A n \in 1..Len(r) : v[n] = Counted(r[n])
<1> DEFINE L == Len(r)
           v == [n \in DOMAIN r |-> Counted(r[n])]
<1>1. L \in Nat /\ DOMAIN r = 1..L
  BY LenProperties
<1>2. ASSUME NEW n \in 1..L
      PROVE  Counted(r[n]) \in Nat
  <2>1. r[n] \in LineType
    BY ElementOfSeq
  <2>2. r[n].kind = "string" => Count(r[n].symbol) \in Nat
    BY <2>1, CountShape DEF LineType
  <2>3. QED
    BY <2>2 DEF Counted
<1>3. Tally(r) = Total(v)
  BY DEF Tally
<1> HIDE DEF L
<1>4. v \in [1..L -> Nat] /\ \A n \in 1..L : v[n] = Counted(r[n])
  BY <1>1, <1>2
<1> HIDE DEF v
<1>5. v \in Seq(Nat) /\ Len(v) = L
  BY <1>1, <1>4, FunctionSeq
<1>6. Total(v) \in Nat
  BY <1>5, TotalNat
<1>7. QED
  BY <1>3, <1>4, <1>5, <1>6 DEF L

\* No lines, or none that is a string.
LEMMA TallyNone ==
  ASSUME NEW r \in Seq(LineType), \A m \in 1..Len(r) : r[m].kind # "string"
  PROVE  Tally(r) = 0
<1>1. PICK v \in Seq(Nat) : /\ Tally(r) = Total(v) /\ Len(v) = Len(r)
                            /\ \A n \in 1..Len(r) : v[n] = Counted(r[n])
  BY TallyShape
<1>2. \A n \in 1..Len(v) : v[n] = 0
  BY <1>1 DEF Counted
<1>3. QED
  BY <1>1, <1>2, TotalZero

\* One more line, before the others.
LEMMA TallyMore ==
  ASSUME NEW r \in Seq(LineType), NEW u \in Seq(LineType), Len(u) = Len(r) + 1,
         \A m \in 1..Len(r) : u[m + 1] = r[m]
  PROVE  Tally(u) = Tally(r) + Counted(u[1])
<1> PICK l : l = Len(r)
  OBVIOUS
<1>1. PICK v \in Seq(Nat) : /\ Tally(r) = Total(v) /\ Len(v) = l
                            /\ \A n \in 1..l : v[n] = Counted(r[n])
  BY TallyShape
<1>2. PICK w \in Seq(Nat) : /\ Tally(u) = Total(w) /\ Len(w) = Len(u)
                            /\ \A n \in 1..Len(u) : w[n] = Counted(u[n])
  BY TallyShape
<1>3. l \in Nat /\ Len(u) = l + 1 /\ \A m \in 1..l : u[m + 1] = r[m]
  BY LenProperties
<1>4. w[1] = Counted(u[1]) /\ \A m \in 1..l : w[m + 1] = v[m]
  <2>1. 1 \in 1..(l + 1) /\ \A m \in 1..l : m + 1 \in 1..(l + 1)
    BY <1>3
  <2>2. w[1] = Counted(u[1])
    BY <1>2, <1>3, <2>1
  <2>3. ASSUME NEW m \in 1..l
        PROVE  w[m + 1] = v[m]
    <3>1. w[m + 1] = Counted(u[m + 1]) /\ v[m] = Counted(r[m]) /\ u[m + 1] = r[m]
      BY <1>1, <1>2, <1>3, <2>1
    <3>2. QED
      BY <3>1
  <2>4. QED
    BY <2>2, <2>3
<1>5. w[1] \in Nat
  BY <1>2, <1>3, ElementOfSeq
<1>6. Len(w) = Len(v) + 1 /\ \A m \in 1..Len(v) : w[m + 1] = v[m]
  BY <1>1, <1>2, <1>3, <1>4
<1>7. Total(w) = Total(v) + w[1]
  BY <1>5, <1>6, TotalPrepend
<1>8. QED
  BY <1>1, <1>2, <1>4, <1>7

\* The tallies of the patch files.
LEMMA FilesTallyShape ==
  ASSUME NEW fs \in Seq(FileType)
  PROVE  \E v \in Seq(Nat) :
           /\ v = [n \in DOMAIN fs |-> Tally(fs[n].rodata)] /\ Len(v) = Len(fs)
           /\ \A n \in 1..Len(fs) : v[n] = Tally(fs[n].rodata)
<1> DEFINE L == Len(fs)
           v == [n \in DOMAIN fs |-> Tally(fs[n].rodata)]
<1>1. L \in Nat /\ DOMAIN fs = 1..L
  BY LenProperties
<1>2. ASSUME NEW n \in 1..L
      PROVE  Tally(fs[n].rodata) \in Nat
  <2>1. fs[n] \in FileType
    BY ElementOfSeq
  <2>2. fs[n].rodata \in Seq(LineType)
    BY <2>1 DEF FileType
  <2>3. QED
    BY <2>2, TallyShape
<1> HIDE DEF L
<1>3. v \in [1..L -> Nat] /\ \A n \in 1..L : v[n] = Tally(fs[n].rodata)
  BY <1>1, <1>2
<1>4. v = [n \in DOMAIN fs |-> Tally(fs[n].rodata)]
  OBVIOUS
<1> HIDE DEF v
<1>5. v \in Seq(Nat) /\ Len(v) = L
  BY <1>1, <1>3, FunctionSeq
<1>6. QED
  BY <1>3, <1>4, <1>5 DEF L

\* Where the strings of a file of functions are, and what is not in it.
LEMMA PlainLine ==
  ASSUME VariablesOK, PlainSource, NEW p \in 1..Len(assembly)
  PROVE  /\ assembly[p].kind \notin {"data", "table"}
         /\ assembly[p].kind = "string" =>
              /\ assembly[p].symbol \in Strings /\ Escapes[assembly[p].symbol] = 0
              /\ \E k \in FunctionsOf(source) :
                   FirstUses(source, k) # {} /\ Start(source, k) < p /\ p < TypeAt(source, k)
<1>1. source \in Sources /\ assembly = Assembly(source) /\ p \in 1..Len(Assembly(source))
  BY DEF VariablesOK
<1>2. CASE assembly[p].kind = "file"
  BY <1>2
<1>3. CASE assembly[p].kind # "file"
  <2>1. PICK k \in DOMAIN source : \E m \in 1..Size(source, k) : p = Start(source, k) + m
    BY <1>1, <1>3, LineOfItem
  <2>2. PICK m \in 1..Size(source, k) : p = Start(source, k) + m
    BY <2>1
  <2>3. k \in FunctionsOf(source)
    BY DEF PlainSource, FunctionsOf
  <2> DEFINE before == Before(source, k)
             uses == source[k].uses
  <2>4. \/ m \in 1..Len(before) /\ assembly[p] = before[m]
        \/ assembly[p].kind \in {"type_function", "label", "cfi_endproc", "cfi", "code", "size"}
    BY <1>1, <2>2, <2>3, FunctionKinds
  <2>5. CASE assembly[p].kind \in {"type_function", "label", "cfi_endproc", "cfi", "code", "size"}
    BY <2>5
  <2>6. CASE m \in 1..Len(before) /\ assembly[p] = before[m]
    <3>1. /\ before[m].kind \in {"text", "section_rodata", "align", "label", "string"}
          /\ before[m].kind \in {"label", "string"} =>
               \E n \in FirstUses(source, k) : before[m].symbol = uses[n]
      BY <1>1, <2>6, PreambleShape
    <3>2. ASSUME assembly[p].kind = "string"
          PROVE  /\ assembly[p].symbol \in Strings /\ Escapes[assembly[p].symbol] = 0
                 /\ FirstUses(source, k) # {}
      <4>1. PICK n \in FirstUses(source, k) : before[m].symbol = uses[n]
        BY <2>6, <3>1, <3>2
      <4>2. n \in DOMAIN uses /\ uses[n] \in Strings
        BY <1>1, SourceShape DEF FirstUses
      <4>3. uses[n] \in ToSet(uses)
        BY <4>2 DEF ToSet
      <4>4. Escapes[uses[n]] = 0
        BY <4>3 DEF PlainSource
      <4>5. QED
        BY <2>6, <4>1, <4>2, <4>4
    <3>3. Start(source, k) < p /\ p < TypeAt(source, k)
      <4>1. Start(source, k) \in Nat /\ Len(before) \in Nat
        BY <1>1, Layout, PreambleShape
      <4>2. TypeAt(source, k) = Start(source, k) + Len(before) + 1
        BY DEF TypeAt
      <4> HIDE DEF before
      <4>3. QED
        BY <2>2, <2>6, <4>1, <4>2
    <3>4. QED
      BY <2>3, <2>6, <3>1, <3>2, <3>3
  <2>7. QED
    BY <2>4, <2>5, <2>6
<1>4. QED
  BY <1>2, <1>3

\* Where the loop does not stop at .rodata, no string is lost.
LEMMA NothingLost ==
  ASSUME CutInv, pc = "data", Backwards, PlainSource, i = 1 \/ Here.kind = "cfi_endproc"
  PROVE  \A m \in 1..Len(func_rodata) : func_rodata[m].kind # "string"
<1> DEFINE k == Found
           t == TypeAt(source, k)
<1> SUFFICES ASSUME NEW m \in 1..Len(func_rodata), func_rodata[m].kind = "string"
             PROVE  FALSE
  OBVIOUS
<1>1. /\ VariablesOK /\ i <= func_index /\ k \in Functions /\ func_index = t
      /\ source \in Sources /\ assembly = Assembly(source)
      /\ func_index \in 0..Len(assembly)
  BY DEF CutInv, ScanInv, VariablesOK
<1>2. /\ i \in Nat /\ i >= 1 /\ t \in Nat /\ k \in FunctionsOf(source) /\ k \in Nat
      /\ t <= Len(assembly) /\ Len(assembly) \in Nat
  BY <1>1, Scanned, FunctionsSame DEF VariablesOK
<1>3. FirstUses(source, k) = {}
  BY StoppedElsewhere
<1>4. PICK p \in (i + 1)..t : func_rodata[m] = assembly[p]
  BY <1>1 DEF Backwards
<1>5. \A q \in (i + 1)..t : assembly[q].kind # "cfi_endproc"
  BY <1>1 DEF Backwards, Stops
<1> HIDE DEF t, k
<1>6. p \in 1..Len(assembly) /\ p <= t /\ i < p /\ p \in Nat
  BY <1>2
<1>7. PICK j \in FunctionsOf(source) :
         FirstUses(source, j) # {} /\ Start(source, j) < p /\ p < TypeAt(source, j)
  BY <1>1, <1>4, <1>6, PlainLine
<1>8. j \in Nat /\ j # k
  BY <1>1, <1>3, <1>7, Scanned, FunctionsSame
<1> DEFINE u == Len(source[j].uses)
           v == TypeAt(source, j)
<1>9. /\ v \in Nat /\ u \in Nat /\ assembly[v + u + 4] = Line("cfi_endproc", None)
      /\ Start(source, j) \in Nat
  BY <1>1, <1>7, FunctionLines, Layout DEF FunctionsOf
<1>10. assembly[v + u + 4].kind = "cfi_endproc"
  BY <1>9 DEF Line
<1>11. ~(j < k)
  <2> SUFFICES ASSUME j < k PROVE FALSE
    OBVIOUS
  <2>1. v + u + 5 <= Start(source, k)
    BY <1>1, <1>2, FunctionOrder
  <2>2. Start(source, k) < t /\ Start(source, k) \in Nat
    BY <1>1, <1>2, FunctionLines, Layout DEF t, FunctionsOf
  <2> HIDE DEF u, v
  <2>3. p < v
    BY <1>7 DEF v
  <2>4. v + u + 4 \in (i + 1)..t
    BY <1>2, <1>6, <1>9, <2>1, <2>2, <2>3
  <2>5. QED
    BY <1>5, <1>10, <2>4
<1>12. ~(k < j)
  <2> SUFFICES ASSUME k < j PROVE FALSE
    OBVIOUS
  <2>1. TypeAt(source, k) + Len(source[k].uses) + 5 <= Start(source, j)
    BY <1>1, <1>2, FunctionOrder
  <2>2. Len(source[k].uses) \in Nat /\ TypeAt(source, k) = t
    BY <1>1, <1>2, FunctionLines DEF t
  <2> DEFINE n == Len(source[k].uses)
             s == Start(source, j)
  <2>3. t < Start(source, j)
    <3>1. t + n + 5 <= s /\ n \in Nat /\ t \in Nat /\ s \in Nat
      BY <1>2, <1>9, <2>1, <2>2
    <3> HIDE DEF n, s
    <3>2. t < s
      BY <3>1
    <3>3. QED
      BY <3>2 DEF s
  <2>4. QED
    BY <1>2, <1>6, <1>7, <1>9, <2>3
<1>13. QED
  BY <1>2, <1>8, <1>11, <1>12


\* A line that CollectData takes is counted.
LEMMA TakenCounted ==
  ASSUME CutInv, pc = "data", NEW r, r = WithHere
  PROVE  /\ r \in Seq(LineType) /\ Tally(r) = Tally(func_rodata) + Counted(Here)
         /\ Here \in LineType /\ Tally(func_rodata) \in Nat /\ Counted(Here) \in Nat
         /\ Here.kind = "section_rodata" => Leads(r)
<1>1. VariablesOK /\ i <= func_index /\ func_rodata \in Seq(LineType)
  BY DEF CutInv, ScanInv, VariablesOK
<1>2. i \in 1..Len(assembly)
  BY <1>1, Scanned DEF VariablesOK
<1>3. Here \in LineType
  BY <1>1, <1>2, Scanned DEF Here
<1>4. Counted(Here) \in Nat
  <2>1. Here.kind = "string" => Count(Here.symbol) \in Nat
    BY <1>3, CountShape DEF LineType
  <2>2. QED
    BY <2>1 DEF Counted
<1>5. Tally(func_rodata) \in Nat
  BY <1>1, TallyShape
<1>6. CASE Here.kind \notin LeftOut
  <2> DEFINE t == func_rodata
             h == Here
             a == <<h>>
             u == a \o t
  <2>1. t \in Seq(LineType) /\ h \in LineType /\ a = <<h>> /\ u = a \o t
    BY <1>1, <1>3
  <2>2. r = u
    BY <1>6 DEF WithHere
  <2> HIDE DEF t, h, a, u
  <2>3. /\ u \in Seq(LineType) /\ Len(u) = Len(t) + 1 /\ u[1] = h
        /\ \A m \in 1..Len(t) : u[m + 1] = t[m]
    BY <2>1, Prepended
  <2>4. Tally(u) = Tally(t) + Counted(u[1])
    BY <2>1, <2>3, TallyMore
  <2>5. r \in Seq(LineType) /\ Tally(r) = Tally(t) + Counted(h)
    BY <2>2, <2>3, <2>4
  <2>6. h.kind = "section_rodata" => Leads(r)
    BY <2>2, <2>3 DEF Leads
  <2>7. QED
    BY <1>3, <1>4, <1>5, <2>5, <2>6 DEF t, h
<1>7. CASE Here.kind \in LeftOut
  <2>1. r = func_rodata
    BY <1>7 DEF WithHere
  <2>2. Counted(Here) = 0 /\ Here.kind # "section_rodata"
    BY <1>7 DEF LeftOut, Counted
  <2>3. QED
    BY <1>1, <1>3, <1>5, <2>1, <2>2
<1>8. QED
  BY <1>6, <1>7

\* FilesTally and PlainSource depend on the files and on the source.
LEMMA SameFiles ==
  ASSUME UNCHANGED files
  PROVE  FilesTally' = FilesTally /\ \A n : Leads(files[n].rodata)' <=> Leads(files[n].rodata)
BY DEF FilesTally, Leads

\* CollectData counts what it takes.
LEMMA CountCollectData ==
  ASSUME CutInv, RodataInv, CountInv, CollectData
  PROVE  CountInv'
<1>1. /\ pc = "data" /\ Backwards /\ UNCHANGED <<source, assembly, func_index, files>>
      /\ VariablesOK /\ i \in Nat /\ i >= 1 /\ func_rodata \in Seq(LineType)
  BY Scanned DEF RodataInv, CollectData, CutInv, VariablesOK
<1> SUFFICES ASSUME PlainSource
             PROVE  /\ total_rodata_len' = FilesTally' +
                         IF pc' \in {"data", "code"} THEN Tally(func_rodata') ELSE 0
                    /\ pc' = "code" => Leads(func_rodata')
                    /\ \A n \in DOMAIN files' : Leads(files'[n].rodata)
  BY <1>1 DEF CountInv, PlainSource
<1>2. total_rodata_len = FilesTally + Tally(func_rodata)
      /\ \A n \in DOMAIN files : Leads(files[n].rodata)
  BY <1>1 DEF CountInv
<1>3. FilesTally' = FilesTally /\ \A n \in DOMAIN files' : Leads(files'[n].rodata)
  BY <1>1, <1>2, SameFiles
<1>4. PICK r : r = WithHere
  OBVIOUS
<1>5. /\ r \in Seq(LineType) /\ Tally(r) = Tally(func_rodata) + Counted(Here)
      /\ Here \in LineType /\ Tally(func_rodata) \in Nat /\ Counted(Here) \in Nat
      /\ Here.kind = "section_rodata" => Leads(r)
  <2>1. CutInv /\ pc = "data" /\ r = WithHere
    BY <1>1, <1>4
  <2>2. QED
    BY <2>1, TakenCounted
<1>6. FilesTally \in Nat
  <2>1. files \in Seq(FileType)
    BY <1>1 DEF VariablesOK
  <2>2. QED
    BY <2>1, FilesTallyShape, TotalNat DEF FilesTally
<1>7. i > 1 => total_rodata_len' = total_rodata_len + Counted(Here)
  BY DEF CollectData, Counted
<1>8. CASE i > 1 /\ Here.kind # "cfi_endproc"
  <2>1. /\ func_rodata' = r
        /\ pc' = "code" => Here.kind = "section_rodata"
        /\ pc' \in {"data", "code"}
    <3>1. CASE Here.kind = "section_rodata"
      BY <1>4, <1>8, <3>1 DEF CollectData, WithHere, Stops, LeftOut
    <3>2. CASE Here.kind # "section_rodata"
      BY <1>1, <1>4, <1>8, <3>2 DEF CollectData, WithHere, Stops
    <3>3. QED
      BY <3>1, <3>2
  <2>2. total_rodata_len' = FilesTally + Tally(r)
    BY <1>2, <1>5, <1>6, <1>7, <1>8
  <2>3. QED
    BY <1>3, <1>5, <2>1, <2>2
<1>9. CASE i = 1 \/ (i > 1 /\ Here.kind = "cfi_endproc")
  <2>1. func_rodata' = <<>> /\ pc' = "code"
    BY <1>9 DEF CollectData, Stops
  <2>2. Tally(func_rodata) = 0 /\ Tally(<<>>) = 0
    <3>1. \A m \in 1..Len(func_rodata) : func_rodata[m].kind # "string"
      BY <1>1, <1>9, NothingLost
    <3>2. <<>> \in Seq(LineType) /\ Len(<<>>) = 0
      OBVIOUS
    <3>3. Tally(func_rodata) = 0
      BY <1>1, <3>1, TallyNone
    <3>4. Tally(<<>>) = 0
      <4>1. \A m \in 1..Len(<<>>) : <<>>[m].kind # "string"
        BY <3>2
      <4>2. QED
        BY <3>2, <4>1, TallyNone
    <3>5. QED
      BY <3>3, <3>4
  <2>3. total_rodata_len' = total_rodata_len
    <3>1. total_rodata_len' = total_rodata_len + 0
      BY <1>9 DEF CollectData
    <3>2. total_rodata_len \in Nat
      BY <1>1 DEF VariablesOK
    <3>3. QED
      BY <3>1, <3>2
  <2>4. total_rodata_len' = FilesTally' + Tally(func_rodata')
    BY <1>2, <1>3, <1>6, <2>1, <2>2, <2>3
  <2>5. QED
    BY <1>3, <2>1, <2>4 DEF Leads
<1>10. i = 1 \/ i > 1
  BY <1>1
<1>11. QED
  BY <1>8, <1>9, <1>10


\* A patch file takes over what has been counted for it.
LEMMA CountCollectCode ==
  ASSUME CutInv, CountInv, CollectCode
  PROVE  CountInv'
<1> DEFINE f == [number |-> PatchNo, name |-> Found, code |-> func_code,
                 rodata |-> func_rodata]
<1> PICK l : l = Len(files)
  OBVIOUS
<1>1. /\ pc = "code" /\ UNCHANGED <<source, assembly, func_index, func_rodata, total_rodata_len>>
      /\ VariablesOK /\ func_rodata \in Seq(LineType) /\ files \in Seq(FileType)
  BY DEF CollectCode, CutInv, VariablesOK
<1> SUFFICES ASSUME PlainSource
             PROVE  /\ total_rodata_len' = FilesTally' +
                         IF pc' \in {"data", "code"} THEN Tally(func_rodata') ELSE 0
                    /\ pc' = "code" => Leads(func_rodata')
                    /\ \A n \in DOMAIN files' : Leads(files'[n].rodata)
  BY <1>1 DEF CountInv, PlainSource
<1>2. /\ total_rodata_len = FilesTally + Tally(func_rodata) /\ Leads(func_rodata)
      /\ \A n \in DOMAIN files : Leads(files[n].rodata)
  BY <1>1 DEF CountInv
<1>3. CASE Here.kind # "cfi_endproc"
  <2>1. pc' = "code" /\ files' = files
    BY <1>1, <1>3 DEF CollectCode
  <2>2. FilesTally' = FilesTally
    BY <2>1, SameFiles
  <2>3. QED
    BY <1>1, <1>2, <2>1, <2>2
<1>4. CASE Here.kind = "cfi_endproc"
  <2>1. pc' = "search" /\ files' = Append(files, f)
    BY <1>1, <1>4 DEF CollectCode, Found
  <2>2. l \in Nat /\ DOMAIN files = 1..l
    BY <1>1, LenProperties
  <2>3. f \in FileType /\ f.rodata = func_rodata
    <3>1. Found \in Nat /\ PatchNo \in Nat
      BY <1>1, <2>2, Scanned DEF CutInv, ScanInv, PatchNo
    <3>2. func_code \in Seq(LineType) /\ func_rodata \in Seq(LineType)
      BY <1>1 DEF VariablesOK
    <3>3. QED
      BY <3>1, <3>2 DEF FileType
  <2> PICK g : g = files'
    OBVIOUS
  <2> HIDE DEF f
  <2>4. /\ g \in Seq(FileType) /\ Len(g) = l + 1
        /\ \A n \in 1..l : g[n] = files[n]
        /\ g[l + 1] = f
    <3>1. files \in Seq(FileType) /\ f \in FileType /\ g = Append(files, f)
      BY <1>1, <2>1, <2>3
    <3>2. QED
      BY <3>1, AppendShape
  <2>5. \A n \in DOMAIN g : n \in 1..l \/ n = l + 1
    BY <2>2, <2>4, LenProperties
  <2>6. \A n \in DOMAIN g : Leads(g[n].rodata)
    BY <1>2, <2>2, <2>3, <2>4, <2>5
  <2>7. PICK v \in Seq(Nat) :
          /\ v = [n \in DOMAIN files |-> Tally(files[n].rodata)] /\ Len(v) = l
          /\ \A n \in 1..l : v[n] = Tally(files[n].rodata)
    BY <1>1, FilesTallyShape
  <2>8. PICK w \in Seq(Nat) :
          /\ w = [n \in DOMAIN g |-> Tally(g[n].rodata)] /\ Len(w) = l + 1
          /\ \A n \in 1..(l + 1) : w[n] = Tally(g[n].rodata)
    BY <2>4, FilesTallyShape
  <2>9. FilesTally = Total(v)
    BY <2>7 DEF FilesTally
  <2>10. FilesTally' = Total(w)
    BY <2>8 DEF FilesTally
  <2>11. w[l + 1] = Tally(func_rodata) /\ \A n \in 1..l : w[n] = v[n]
    <3>1. l + 1 \in 1..(l + 1) /\ \A n \in 1..l : n \in 1..(l + 1)
      BY <2>2
    <3>2. QED
      BY <2>3, <2>4, <2>7, <2>8, <3>1
  <2>12. Tally(func_rodata) \in Nat
    BY <1>1, TallyShape
  <2>13. Len(w) = Len(v) + 1 /\ w[Len(v) + 1] = Tally(func_rodata)
         /\ \A n \in 1..Len(v) : w[n] = v[n]
    BY <2>7, <2>8, <2>11
  <2>14. Total(w) = Total(v) + Tally(func_rodata)
    BY <2>12, <2>13, TotalAppend
  <2>15. Total(v) \in Nat
    BY TotalNat
  <2>16. total_rodata_len' = FilesTally' + 0
    BY <1>1, <1>2, <2>9, <2>10, <2>12, <2>14, <2>15
  <2>17. QED
    BY <2>1, <2>6, <2>16
<1>5. QED
  BY <1>3, <1>4

\* Where a search begins, nothing has been counted for the function.
LEMMA CountSearch ==
  ASSUME CutInv, CountInv, Search
  PROVE  CountInv'
<1>1. pc = "search" /\ UNCHANGED <<source, total_rodata_len, files>>
  BY DEF Search
<1>2. FilesTally' = FilesTally
  BY <1>1, SameFiles
<1>3. pc' = "search" \/ (pc' = "data" /\ func_rodata' = <<>>)
  BY <1>1 DEF Search
<1>4. Tally(<<>>) = 0
  <2>1. <<>> \in Seq(LineType) /\ \A m \in 1..Len(<<>>) : <<>>[m].kind # "string"
    OBVIOUS
  <2>2. QED
    BY <2>1, TallyNone
<1>5. CASE pc' = "search"
  BY <1>1, <1>2, <1>5 DEF CountInv, PlainSource
<1>6. CASE pc' = "data" /\ func_rodata' = <<>>
  <2>1. Tally(func_rodata') = 0
    BY <1>4, <1>6
  <2>2. QED
    BY <1>1, <1>2, <1>6, <2>1 DEF CountInv, PlainSource
<1>7. QED
  BY <1>3, <1>5, <1>6

\* Behind the scan nothing is counted.
LEMMA CountLater ==
  ASSUME CutInv, CountInv, UNCHANGED <<source, total_rodata_len, files>>,
         \/ pc \in Parsed \cup {"search"} /\ pc' \in Parsed
         \/ UNCHANGED <<pc, func_rodata>>
  PROVE  CountInv'
<1>1. FilesTally' = FilesTally
  BY SameFiles
<1>2. CASE pc \in Parsed \cup {"search"} /\ pc' \in Parsed
  <2>1. /\ pc \notin {"data", "code"} /\ pc # "code"
        /\ pc' \notin {"data", "code"} /\ pc' # "code"
    BY <1>2 DEF Parsed
  <2>2. QED
    BY <1>1, <2>1 DEF CountInv, PlainSource
<1>3. CASE UNCHANGED <<pc, func_rodata>>
  BY <1>1, <1>3 DEF CountInv, PlainSource
<1>4. QED
  BY <1>2, <1>3

\* In a file of functions without other escapes, what is counted is what the
\* patch files hold.
THEOREM CountInvariance == Spec => []CountInv
<1>1. Init => CountInv
  <2> SUFFICES ASSUME Init
               PROVE  CountInv
    OBVIOUS
  <2>1. files = <<>> /\ pc = "search" /\ total_rodata_len = 0
    BY DEF Init
  <2>2. <<>> \in Seq(FileType) /\ Len(<<>>) = 0
    OBVIOUS
  <2>3. PICK v \in Seq(Nat) :
          v = [n \in DOMAIN files |-> Tally(files[n].rodata)] /\ Len(v) = 0
    BY <2>1, <2>2, FilesTallyShape
  <2>4. \A m \in 1..Len(v) : v[m] = 0
    BY <2>3
  <2>5. FilesTally = 0
    BY <2>3, <2>4, TotalZero DEF FilesTally
  <2>6. QED
    BY <2>1, <2>5 DEF CountInv
<1>2. CutInv /\ RodataInv /\ CountInv /\ [Next]_vars => CountInv'
  <2> SUFFICES ASSUME CutInv, RodataInv, CountInv, [Next]_vars
               PROVE  CountInv'
    OBVIOUS
  <2>1. CASE Search
    BY <2>1, CountSearch
  <2>2. CASE CollectData
    BY <2>2, CountCollectData
  <2>3. CASE CollectCode
    BY <2>3, CountCollectCode
  <2>4. CASE AllParsed
    BY <2>4, CountLater DEF AllParsed, Parsed
  <2>5. CASE GlobalData
    BY <2>5, CountLater DEF GlobalData, Parsed
  <2>6. CASE InsertFunctions
    BY <2>6, CountLater DEF InsertFunctions, Parsed
  <2>7. CASE ShiftRodataAlignment
    BY <2>7, CountLater DEF ShiftRodataAlignment, Parsed
  <2>8. CASE UNCHANGED vars
    BY <2>8, CountLater DEF vars
  <2>9. QED
    BY <2>1, <2>2, <2>3, <2>4, <2>5, <2>6, <2>7, <2>8 DEF Next, Done
<1>3. QED
  BY <1>1, <1>2, CutInvariance, RodataInvariance, PTL DEF Spec


-------------------------------------------------------------------------------
(***************************************************************************)
(* What is inserted is what was counted.                                   *)
(***************************************************************************)
\* Bounded numbers have a greatest one.
LEMMA GreatestNumber ==
  ASSUME NEW B, B \subseteq Nat, NEW k \in B, NEW n \in Nat, \A x \in B : x <= n
  PROVE  \E m \in B : \A x \in B : x <= m
<1> DEFINE C == {n - x : x \in B}
<1>1. C \subseteq Nat /\ n - k \in C
  OBVIOUS
<1> HIDE DEF C
<1>2. PICK c \in C : \A d \in C : c <= d
  BY <1>1, LeastNumber
<1>3. PICK m \in B : c = n - m
  BY DEF C
<1>4. ASSUME NEW x \in B
      PROVE  x <= m
  <2>1. n - x \in C
    BY DEF C
  <2>2. n - m <= n - x
    BY <1>2, <1>3, <2>1
  <2>3. x \in Nat /\ m \in Nat
    OBVIOUS
  <2>4. QED
    BY <2>2, <2>3
<1>5. QED
  BY <1>4

\* All that a patch file adds goes to .rodata.
LEMMA SectionIsRodata ==
  ASSUME NEW file \in FileType, NEW m \in 1..Len(file.rodata),
         file.rodata[1].kind = "section_rodata",
         \A x \in 1..Len(file.rodata) : file.rodata[x].kind # "data"
  PROVE  Section(file, m) = "section_rodata"
<1> DEFINE r == file.rodata
           switches == {x \in 1..m : r[x].kind \in {"section_rodata", "data"}}
<1>1. Len(r) \in Nat
  BY LenProperties DEF FileType
<1>2. /\ switches \subseteq Nat /\ 1 \in switches /\ m \in Nat /\ \A x \in switches : x <= m
      /\ \A x \in switches : r[x].kind = "section_rodata"
  <2>1. \A x \in 1..m : x \in 1..Len(r)
    BY <1>1
  <2>2. 1 \in 1..m /\ m \in Nat
    BY <1>1
  <2>3. QED
    BY <2>1, <2>2
<1>3. Section(file, m) = r[Max(switches)].kind
  BY DEF Section
<1> HIDE DEF switches, r
<1>4. \E x \in switches : \A y \in switches : y <= x
  BY <1>2, GreatestNumber
<1>5. \E x \in switches : \A y \in switches : x >= y
  BY <1>2, <1>4
<1>6. Max(switches) \in switches
  BY <1>5 DEF Max
<1>7. QED
  BY <1>2, <1>3, <1>6

\* A patch file adds what was counted for it.
LEMMA LaidDownIsTally ==
  ASSUME CutInv, RodataInv, CountInv, PlainSource, NEW n \in DOMAIN files
  PROVE  LaidDown(files[n]) = Tally(files[n].rodata)
<1> DEFINE file == files[n]
           r == file.rodata
           L == Len(r)
           laid(m) == CASE Section(file, m) = "data" -> 0
                        [] r[m].kind = "string" -> Bytes(r[m].symbol)
                        [] r[m].kind = "table" -> TableSize
                        [] OTHER -> 0
<1>1. /\ VariablesOK /\ files \in Seq(FileType) /\ Cut(r, file.name) /\ Leads(r)
      /\ file.name \in Functions
  BY DEF CutInv, VariablesOK, ScanInv, RightFile, RodataInv, RightRodata, CountInv
<1>2. file \in FileType /\ r \in Seq(LineType)
  <2>1. file \in FileType
    BY <1>1, LenProperties, ElementOfSeq
  <2>2. QED
    BY <2>1 DEF FileType
<1>3. L \in Nat /\ DOMAIN r = 1..L
  BY <1>2, LenProperties
<1>4. ASSUME NEW m \in 1..L
      PROVE  /\ r[m].kind \notin {"data", "table"}
             /\ r[m].kind = "string" => Bytes(r[m].symbol) = Count(r[m].symbol)
  <2> DEFINE t == TypeAt(source, file.name)
  <2>1. PICK p \in 1..t : r[m] = assembly[p]
    BY <1>1 DEF Cut, Near
  <2>2. /\ t \in Nat /\ Len(source[file.name].uses) \in Nat /\ Len(assembly) \in Nat
        /\ t + Len(source[file.name].uses) + 5 <= Len(assembly)
    BY <1>1, FunctionLines, FunctionsSame, Scanned DEF VariablesOK
  <2> HIDE DEF t
  <2>3. p \in 1..Len(assembly)
    BY <2>2
  <2>4. /\ assembly[p].kind \notin {"data", "table"}
        /\ assembly[p].kind = "string" =>
             assembly[p].symbol \in Strings /\ Escapes[assembly[p].symbol] = 0
    BY <1>1, <2>3, PlainLine
  <2>5. QED
    BY <2>1, <2>4, CountShape
<1>5. ASSUME NEW m \in 1..L
      PROVE  laid(m) = Counted(r[m])
  <2>1. r # <<>>
    BY <1>3
  <2>2. Section(file, m) = "section_rodata"
    BY <1>1, <1>2, <1>4, <2>1, SectionIsRodata DEF Leads
  <2>3. CASE r[m].kind = "string"
    BY <1>4, <2>2, <2>3 DEF Counted
  <2>4. CASE r[m].kind # "string"
    <3>1. r[m].kind # "table" /\ Section(file, m) # "data"
      BY <1>4, <2>2
    <3>2. laid(m) = 0
      BY <2>4, <3>1
    <3>3. QED
      BY <2>4, <3>2 DEF Counted
  <2>5. QED
    BY <2>3, <2>4
<1>6. LaidDown(file) = Total([m \in DOMAIN r |-> laid(m)])
  BY DEF LaidDown
<1>7. Tally(r) = Total([m \in DOMAIN r |-> Counted(r[m])])
  BY DEF Tally
<1> HIDE DEF laid
<1>8. [m \in DOMAIN r |-> laid(m)] = [m \in DOMAIN r |-> Counted(r[m])]
  BY <1>3, <1>5
<1>9. QED
  BY <1>6, <1>7, <1>8

\* If the functions can be numbered with one digit, no patch file is left out.
LEMMA NoneLeftOut ==
  ASSUME CutInv, Cardinality(Functions) <= Base
  PROVE  Len(files) <= Base
<1> DEFINE L == Len(files)
           F == Functions
           name == [n \in 1..L |-> files[n].name]
<1>1. /\ VariablesOK /\ files \in Seq(FileType) /\ \A n \in DOMAIN files : RightFile(n)
      /\ source \in Sources
  BY DEF CutInv, VariablesOK, ScanInv
<1>2. L \in Nat /\ DOMAIN files = 1..L
  BY <1>1, LenProperties
<1>3. IsFiniteSet(F)
  <2>1. Len(source) \in Nat /\ DOMAIN source = 1..Len(source)
    BY <1>1, SourceShape
  <2>2. IsFiniteSet(1..Len(source))
    BY <2>1, FS_Interval
  <2>3. F \subseteq 1..Len(source)
    BY <2>1 DEF Functions
  <2> HIDE DEF F
  <2>4. QED
    BY <2>2, <2>3, FS_Subset
<1>4. \A n \in 1..L : files[n].name \in F
  BY <1>1, <1>2 DEF RightFile
<1>5. \A m, n \in 1..L : m < n => files[m].name < files[n].name
  <2> TAKE m, n \in 1..L
  <2> HAVE m < n
  <2>1. m \in 1..(n - 1) /\ files[m].name \in F /\ RightFile(n)
    BY <1>1, <1>2, <1>4
  <2>2. QED
    BY <2>1 DEF RightFile
<1>6. \A m, n \in 1..L : files[m].name = files[n].name => m = n
  <2>1. \A n \in 1..L : files[n].name \in Nat
    BY <1>1, <1>4, Scanned
  <2>2. \A m, n \in 1..L : m < n \/ n < m \/ m = n
    BY <1>2
  <2>3. QED
    BY <1>5, <2>1, <2>2
<1> HIDE DEF F, L
<1>7. name \in Injection(1..L, F)
  <2>1. name \in [1..L -> F]
    BY <1>4
  <2>2. \A m, n \in 1..L : name[m] = name[n] => m = n
    BY <1>6
  <2> HIDE DEF name
  <2>3. QED
    BY <2>1, <2>2, Fun_IsInj
<1>8. Cardinality(1..L) <= Cardinality(F)
  BY <1>3, <1>7, FS_Injection
<1>9. Cardinality(1..L) = L
  <2>1. 1 \in Int /\ L \in Int
    BY <1>2
  <2>2. Cardinality(1..L) = IF 1 > L THEN 0 ELSE L - 1 + 1
    BY <2>1, FS_Interval
  <2>3. QED
    BY <1>2, <2>2
<1>10. Cardinality(F) \in Nat /\ Base \in Nat
  BY <1>3, FS_CardinalityType, NumbersAssumption
<1>11. QED
  BY <1>2, <1>8, <1>9, <1>10 DEF F, L

\* .rodata is filled up to a multiple of 16 but for what has been counted and
\* the alignment that is still to come.
AlignedInv ==
  PlainSource /\ Cardinality(Functions) <= Base =>
    /\ pc = "insert" => \E c \in Nat : rodata = 16 * c
    /\ pc = "shift" => \E c \in Nat : rodata = 16 * c + total_rodata_len
    /\ pc = "done" => \E c \in Nat : rodata = 16 * c

\* InsertFunctions adds what was counted.
LEMMA AlignedInsert ==
  ASSUME CutInv, RodataInv, CountInv, AlignedInv, InsertFunctions,
         PlainSource, Cardinality(Functions) <= Base
  PROVE  \E c \in Nat : rodata' = 16 * c + total_rodata_len
<1> PICK w : w = inserted'
  OBVIOUS
<1>1. /\ pc = "insert" /\ files \in Seq(FileType)
      /\ rodata' = rodata + Total([n \in DOMAIN w |-> LaidDown(w[n])])
  BY DEF InsertFunctions, CutInv, VariablesOK
<1>2. PICK c \in Nat : rodata = 16 * c
  BY <1>1 DEF AlignedInv
<1>3. w = SubSeq(files, 1, Min({Base, Len(files)}))
  BY OrderInsert
<1>4. /\ DOMAIN w = 1..Len(w) /\ Len(w) \in Nat /\ Len(w) <= Len(files) /\ Len(w) <= Base
      /\ Len(w) = Len(files) \/ Len(w) = Base
      /\ \A n \in 1..Len(w) : n \in DOMAIN files /\ w[n] = files[n]
  BY <1>3, FirstFiles
<1>5. Len(files) \in Nat /\ DOMAIN files = 1..Len(files) /\ Base \in Nat /\ Len(files) <= Base
  BY <1>1, LenProperties, NoneLeftOut, NumbersAssumption
<1>6. DOMAIN w = DOMAIN files
  <2> DEFINE x == Len(w)
             l == Len(files)
  <2>1. x = l
    <3>1. /\ x \in Nat /\ l \in Nat /\ Base \in Nat
          /\ x <= l /\ l <= Base /\ (x = l \/ x = Base)
      BY <1>4, <1>5
    <3> HIDE DEF x, l
    <3>2. QED
      BY <3>1
  <2>2. QED
    BY <1>4, <1>5, <2>1
<1>7. \A n \in DOMAIN files : LaidDown(w[n]) = Tally(files[n].rodata)
  BY <1>4, <1>6, LaidDownIsTally
<1>8. [n \in DOMAIN w |-> LaidDown(w[n])] = [n \in DOMAIN files |-> Tally(files[n].rodata)]
  BY <1>6, <1>7
<1>9. rodata' = 16 * c + FilesTally
  BY <1>1, <1>2, <1>8 DEF FilesTally
<1>10. total_rodata_len = FilesTally
  <2>1. total_rodata_len = FilesTally + 0
    BY <1>1 DEF CountInv
  <2>2. FilesTally \in Nat
    BY <1>1, FilesTallyShape, TotalNat DEF FilesTally
  <2>3. QED
    BY <2>1, <2>2
<1>11. QED
  BY <1>9, <1>10

\* The bytes that are added to .rodata keep its alignment, for any C file that
\* has functions only, few enough, and no escape but \n (and, as every file of
\* PatchFiles, no jump table, no floating-point constant and no .ascii line).
THEOREM Aligned == Spec => []MisalignmentCauses
<1>1. Init => AlignedInv
  BY DEF Init, AlignedInv
<1>2. CutInv /\ RodataInv /\ CountInv /\ AlignedInv /\ [Next]_vars => AlignedInv'
  <2> SUFFICES ASSUME CutInv, RodataInv, CountInv, AlignedInv, [Next]_vars,
                      PlainSource', Cardinality(Functions') <= Base
               PROVE  /\ pc' = "insert" => \E c \in Nat : rodata' = 16 * c
                      /\ pc' = "shift" => \E c \in Nat : rodata' = 16 * c + total_rodata_len'
                      /\ pc' = "done" => \E c \in Nat : rodata' = 16 * c
    BY DEF AlignedInv
  <2>1. source' = source
    BY DEF Next, vars, Search, CollectData, CollectCode, AllParsed, GlobalData,
           InsertFunctions, ShiftRodataAlignment, Done
  <2>2. PlainSource /\ Cardinality(Functions) <= Base
    BY <2>1 DEF PlainSource, Functions
  <2>3. CASE Search
    BY <2>3 DEF Search
  <2>4. CASE CollectData
    BY <2>4 DEF CollectData
  <2>5. CASE CollectCode
    BY <2>5 DEF CollectCode
  <2>6. CASE AllParsed
    BY <2>6 DEF AllParsed
  <2>7. CASE GlobalData
    <3>1. PICK x \in {0, 1}, y \in {0, 1} : rodata' = 16 + 32 * x + 32 * y
      BY <2>7 DEF GlobalData
    <3>2. pc' = "insert" /\ 1 + 2 * x + 2 * y \in Nat
      BY <2>7 DEF GlobalData
    <3>3. rodata' = 16 * (1 + 2 * x + 2 * y)
      BY <3>1
    <3>4. QED
      BY <3>2, <3>3
  <2>8. CASE InsertFunctions
    <3>1. pc' = "shift" /\ total_rodata_len' = total_rodata_len
      BY <2>8 DEF InsertFunctions
    <3>2. QED
      BY <2>2, <2>8, <3>1, AlignedInsert
  <2>9. CASE ShiftRodataAlignment
    <3>1. /\ pc = "shift" /\ pc' = "done" /\ total_rodata_len \in Nat
          /\ rodata' = rodata + calc_alignment(total_rodata_len)
      BY <2>9 DEF ShiftRodataAlignment, CutInv, VariablesOK
    <3>2. PICK c \in Nat : rodata = 16 * c + total_rodata_len
      BY <2>2, <3>1 DEF AlignedInv
    <3>3. PICK d \in Nat : total_rodata_len + calc_alignment(total_rodata_len) = 16 * d
      BY <3>1, Fills
    <3>4. calc_alignment(total_rodata_len) \in Nat
      BY <3>1, Fills
    <3>5. rodata' = 16 * (c + d) /\ c + d \in Nat
      BY <3>1, <3>2, <3>3, <3>4
    <3>6. QED
      BY <3>1, <3>5
  <2>10. CASE UNCHANGED vars
    BY <2>2, <2>10 DEF vars, AlignedInv
  <2>11. QED
    BY <2>3, <2>4, <2>5, <2>6, <2>7, <2>8, <2>9, <2>10 DEF Next, Done
<1>3. CutInv /\ AlignedInv => MisalignmentCauses
  <2> SUFFICES ASSUME CutInv, AlignedInv, pc = "done", rodata % Alignment # 0,
                      ~(Cardinality(Functions) > Base),
                      \A k \in DOMAIN source : source[k].kind = "function" /\
                        \A s \in ToSet(source[k].uses) : ~(Escapes[s] > 0)
               PROVE  FALSE
    BY DEF MisalignmentCauses
  <2>1. PlainSource
    <3> SUFFICES ASSUME NEW k \in DOMAIN source, NEW s \in ToSet(source[k].uses)
                 PROVE  Escapes[s] = 0
      BY DEF PlainSource
    <3>1. source \in Sources
      BY DEF CutInv, VariablesOK
    <3>2. s \in Strings
      BY <3>1, SourceShape DEF ToSet
    <3>3. Escapes[s] \in Nat
      BY <3>2, NumbersAssumption
    <3>4. QED
      BY <3>3
  <2>2. Cardinality(Functions) <= Base
    <3> DEFINE F == Functions
    <3>1. source \in Sources
      BY DEF CutInv, VariablesOK
    <3>2. Len(source) \in Nat /\ DOMAIN source = 1..Len(source)
      BY <3>1, SourceShape
    <3>3. IsFiniteSet(1..Len(source)) /\ F \subseteq 1..Len(source)
      BY <3>2, FS_Interval DEF Functions
    <3> HIDE DEF F
    <3>4. Cardinality(F) \in Nat
      BY <3>3, FS_Subset, FS_CardinalityType
    <3>5. QED
      BY <3>4, NumbersAssumption DEF F
  <2>3. PICK c \in Nat : rodata = 16 * c
    BY <2>1, <2>2 DEF AlignedInv
  <2>4. rodata % 16 = 0
    BY <2>3
  <2>5. QED
    BY <2>4 DEF Alignment
<1>4. QED
  BY <1>1, <1>2, <1>3, CutInvariance, RodataInvariance, CountInvariance, PTL DEF Spec
===============================================================================
