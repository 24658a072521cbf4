--------------------------- MODULE PatchFilesProofs ---------------------------
(***************************************************************************)
(* Proofs about PatchFiles, for any C file, any strings and any number of  *)
(* functions.                                                              *)
(***************************************************************************)
EXTENDS PatchFiles, SequenceTheorems, FiniteSetTheorems, FunctionTheorems,
        NaturalsInduction, WellFoundedInduction, TLAPS

-------------------------------------------------------------------------------
(***************************************************************************)
(* Sequences that are joined, and numbers that are added up.               *)
(***************************************************************************)
\* Induction over the numbers: a set with zero and the successors of its
\* members has them all.
LEMMA Induction ==
  ASSUME NEW S, 0 \in S, \A n \in Nat : n \in S => n + 1 \in S
  PROVE  \A n \in Nat : n \in S
<1> SUFFICES ASSUME NEW n \in Nat, n \notin S
             PROVE  FALSE
  OBVIOUS
<1> DEFINE B == Nat \ S
<1>1. PICK m \in B : \A k \in B : ~(<<k, m>> \in OpToRel(<, Nat))
  <2>1. B \subseteq Nat /\ B # {}
    OBVIOUS
  <2> HIDE DEF B
  <2>2. QED
    BY <2>1, WFMin, NatLessThanWellFounded
<1>2. m \in Nat /\ m # 0
  OBVIOUS
<1>3. m - 1 \in Nat /\ m - 1 < m
  BY <1>2
<1>4. <<m - 1, m>> \in OpToRel(<, Nat)
  BY <1>2, <1>3 DEF OpToRel
<1>5. m - 1 \in S
  BY <1>1, <1>3, <1>4
<1>6. m \in S
  BY <1>2, <1>3, <1>5
<1>7. QED
  BY <1>1, <1>6

\* A set of numbers with a member has a least one.
LEMMA LeastNumber ==
  ASSUME NEW B, B \subseteq Nat, NEW k \in B
  PROVE  \E m \in B : \A n \in B : m <= n
<1>1. PICK m \in B : \A n \in B : ~(<<n, m>> \in OpToRel(<, Nat))
  BY WFMin, NatLessThanWellFounded
<1>2. \A n \in B : ~(n < m)
  BY <1>1 DEF OpToRel
<1>3. QED
  BY <1>2

\* What is known of two sequences that are joined.
LEMMA JoinedSeq ==
  ASSUME NEW S, NEW s \in Seq(S), NEW t \in Seq(S), NEW u, u = s \o t
  PROVE  /\ u \in Seq(S) /\ Len(s) \in Nat /\ Len(t) \in Nat
         /\ Len(u) = Len(s) + Len(t)
         /\ \A x \in 1..Len(s) : u[x] = s[x]
         /\ \A m \in 1..Len(t) : u[Len(s) + m] = t[m]
<1>1. Len(s) \in Nat /\ Len(t) \in Nat
  BY LenProperties
<1>2. /\ s \o t \in Seq(S) /\ Len(s \o t) = Len(s) + Len(t)
      /\ \A x \in 1..(Len(s) + Len(t)) :
           (s \o t)[x] = IF x <= Len(s) THEN s[x] ELSE t[x - Len(s)]
  BY ConcatProperties
<1>3. QED
  BY <1>1, <1>2

\* Where the sequences of ss begin when they are joined.
Offsets(ss) ==
  {o \in [1..(Len(ss) + 1) -> Nat] :
     o[1] = 0 /\ \A k \in 1..Len(ss) : o[k + 1] = o[k] + Len(ss[k])}

\* The first n sequences of ss are laid down in f at those places.
LaidOut(ss, n, f, o) ==
  /\ Len(f) = o[n + 1]
  /\ \A k \in 1..n : \A m \in 1..Len(ss[k]) : f[o[k] + m] = ss[k][m]

\* There are such places.
LEMMA OffsetsExist ==
  ASSUME NEW S, NEW ss \in Seq(Seq(S))
  PROVE  \E o : o \in Offsets(ss)
<1> DEFINE L == Len(ss)
           Good(n, o) == /\ o \in [1..(n + 1) -> Nat] /\ o[1] = 0
                         /\ \A k \in 1..n : o[k + 1] = o[k] + Len(ss[k])
           Some(n) == \E o \in [1..(n + 1) -> Nat] : Good(n, o)
           P == {n \in Nat : n <= L => Some(n)}
<1>1. L \in Nat /\ \A k \in 1..L : Len(ss[k]) \in Nat
  BY LenProperties, ElementOfSeq
<1> HIDE DEF L
<1>2. 0 \in P
  <2>1. Good(0, [k \in 1..1 |-> 0])
    OBVIOUS
  <2>2. QED
    BY <2>1
<1>3. \A n \in Nat : n \in P => n + 1 \in P
  <2> SUFFICES ASSUME NEW n \in Nat, n + 1 <= L, Some(n)
               PROVE  Some(n + 1)
    <3> HIDE DEF Some
    <3>1. QED
      BY <1>1
  <2> PICK o \in [1..(n + 1) -> Nat] : Good(n, o)
    OBVIOUS
  <2> DEFINE q == [k \in 1..((n + 1) + 1) |->
                     IF k <= n + 1 THEN o[k] ELSE o[n + 1] + Len(ss[n + 1])]
  <2>1. Len(ss[n + 1]) \in Nat /\ o[n + 1] \in Nat
    BY <1>1
  <2>2. q \in [1..((n + 1) + 1) -> Nat] /\ q[1] = 0
    BY <2>1
  <2>3. \A k \in 1..(n + 1) : q[k + 1] = q[k] + Len(ss[k])
    <3> TAKE k \in 1..(n + 1)
    <3>1. CASE k = n + 1
      BY <2>1, <3>1
    <3>2. CASE k \in 1..n
      BY <2>1, <3>2
    <3>3. QED
      BY <3>1, <3>2
  <2>4. QED
    BY <2>2, <2>3
<1>4. L \in P
  <2> HIDE DEF P
  <2>1. QED
    BY <1>1, <1>2, <1>3, Induction
<1>5. QED
  BY <1>1, <1>4 DEF Offsets, L

\* Later sequences lie behind earlier ones.
LEMMA OffsetsGrow ==
  ASSUME NEW S, NEW ss \in Seq(Seq(S)), NEW o \in Offsets(ss)
  PROVE  \A j \in 1..Len(ss) : \A k \in 1..(Len(ss) + 1) :
           j < k => o[j] + Len(ss[j]) <= o[k]
<1> DEFINE L == Len(ss)
<1>1. L \in Nat /\ \A k \in 1..L : Len(ss[k]) \in Nat
  BY LenProperties, ElementOfSeq
<1>2. /\ o \in [1..(L + 1) -> Nat]
      /\ \A k \in 1..L : o[k + 1] = o[k] + Len(ss[k])
  BY DEF Offsets
<1> HIDE DEF L
<1> SUFFICES ASSUME NEW j \in 1..L
             PROVE  \A k \in 1..(L + 1) : j < k => o[j] + Len(ss[j]) <= o[k]
  BY DEF L
<1> DEFINE P == {n \in Nat : j + n < L + 1 => o[j] + Len(ss[j]) <= o[j + n + 1]}
<1>3. 0 \in P
  BY <1>1, <1>2
<1>4. \A n \in Nat : n \in P => n + 1 \in P
  <2> SUFFICES ASSUME NEW n \in Nat, n \in P, j + (n + 1) < L + 1
               PROVE  o[j] + Len(ss[j]) <= o[j + (n + 1) + 1]
    OBVIOUS
  <2> DEFINE k == j + n + 1
  <2>1. k \in 1..L /\ k + 1 = j + (n + 1) + 1
    BY <1>1
  <2>2. o[j] + Len(ss[j]) <= o[k]
    BY <1>1
  <2> HIDE DEF k
  <2>3. /\ o[k + 1] = o[k] + Len(ss[k]) /\ o[k] \in Nat /\ Len(ss[k]) \in Nat
    <3>1. k \in 1..(L + 1)
      BY <1>1, <2>1
    <3>2. QED
      BY <1>1, <1>2, <2>1, <3>1
  <2>4. o[j] \in Nat /\ Len(ss[j]) \in Nat
    BY <1>1, <1>2
  <2>5. o[j] + Len(ss[j]) <= o[k + 1]
    BY <2>2, <2>3, <2>4
  <2>6. QED
    BY <2>1, <2>5
<1>5. \A n \in Nat : n \in P
  <2> HIDE DEF P
  <2>1. QED
    BY <1>3, <1>4, Induction
<1>6. QED
  <2> TAKE k \in 1..(L + 1)
  <2> HAVE j < k
  <2>1. k - j - 1 \in Nat
    BY <1>1
  <2>2. k - j - 1 \in P
    BY <1>5, <2>1
  <2>3. j + (k - j - 1) < L + 1 /\ j + (k - j - 1) + 1 = k
    BY <1>1
  <2>4. QED
    BY <2>2, <2>3

\* Every place is in one of the sequences.
LEMMA EveryPlace ==
  ASSUME NEW S, NEW ss \in Seq(Seq(S)), NEW o \in Offsets(ss),
         NEW p \in 1..o[Len(ss) + 1]
  PROVE  \E k \in 1..Len(ss) : \E m \in 1..Len(ss[k]) : p = o[k] + m
<1> DEFINE L == Len(ss)
<1>1. L \in Nat /\ \A k \in 1..L : Len(ss[k]) \in Nat
  BY LenProperties, ElementOfSeq
<1>2. /\ o \in [1..(L + 1) -> Nat] /\ o[1] = 0
      /\ \A k \in 1..L : o[k + 1] = o[k] + Len(ss[k])
  BY DEF Offsets
<1>3. p \in 1..o[L + 1]
  OBVIOUS
<1> HIDE DEF L
<1> SUFFICES ASSUME \A k \in 1..L : \A m \in 1..Len(ss[k]) : p # o[k] + m
             PROVE  FALSE
  BY DEF L
<1> DEFINE P == {n \in Nat : n <= L => p > o[n + 1]}
<1>4. 0 \in P
  BY <1>1, <1>2, <1>3
<1>5. \A n \in Nat : n \in P => n + 1 \in P
  <2> SUFFICES ASSUME NEW n \in Nat, p > o[n + 1], n + 1 <= L
               PROVE  p > o[n + 2]
    BY <1>1
  <2>1. o[n + 2] = o[n + 1] + Len(ss[n + 1]) /\ n + 1 \in 1..L
    BY <1>1, <1>2
  <2>2. o[n + 1] \in Nat /\ Len(ss[n + 1]) \in Nat /\ p \in Nat
    BY <1>1, <1>2, <1>3
  <2>3. p - o[n + 1] \notin 1..Len(ss[n + 1])
    BY <2>1, <2>2
  <2>4. QED
    BY <2>1, <2>2, <2>3
<1>6. L \in P
  <2> HIDE DEF P
  <2>1. QED
    BY <1>1, <1>4, <1>5, Induction
<1>7. QED
  BY <1>1, <1>2, <1>3, <1>6


\* The sequences that FlattenSeq joins are laid down at their offsets.
LEMMA FlattenShape ==
  ASSUME NEW S, NEW ss \in Seq(Seq(S)), NEW o \in Offsets(ss)
  PROVE  /\ FlattenSeq(ss) \in Seq(S)
         /\ LaidOut(ss, Len(ss), FlattenSeq(ss), o)
<1> DEFINE L == Len(ss)
<1>1. CASE L = 0
  <2>1. ss = <<>>
    BY <1>1, EmptySeq
  <2>2. FlattenSeq(ss) = <<>>
    BY <2>1 DEF FlattenSeq
  <2>3. o[L + 1] = 0 /\ Len(FlattenSeq(ss)) = 0
    BY <1>1, <2>2 DEF Offsets
  <2>4. FlattenSeq(ss) \in Seq(S)
    BY <2>2
  <2> HIDE DEF L
  <2>5. LaidOut(ss, L, FlattenSeq(ss), o)
    BY <1>1, <2>3 DEF LaidOut
  <2>6. QED
    BY <2>4, <2>5 DEF L
<1>2. CASE L # 0
  <2> DEFINE Joins(f, n) == f = [x \in 1..n |-> IF x = 1 THEN ss[x] ELSE f[x - 1] \o ss[x]]
             Some(n) == \E f : Joins(f, n)
             flatten == CHOOSE f : Joins(f, L)
  <2>1. L \in Nat \ {0}
    BY <1>2, LenProperties
  <2>2. Some(L)
    <3> DEFINE P == {n \in Nat : Some(n)}
    <3>1. 0 \in P
      <4>1. Joins([x \in 1..0 |-> ss[x]], 0)
        OBVIOUS
      <4>2. QED
        BY <4>1
    <3>2. \A n \in Nat : n \in P => n + 1 \in P
      <4> SUFFICES ASSUME NEW n \in Nat, Some(n)
                   PROVE  Some(n + 1)
        <5> HIDE DEF Some
        <5>1. QED
          OBVIOUS
      <4> PICK f : Joins(f, n)
        OBVIOUS
      <4>0. \A x \in 1..n : f[x] = IF x = 1 THEN ss[x] ELSE f[x - 1] \o ss[x]
        OBVIOUS
      <4> DEFINE g == [x \in 1..(n + 1) |-> IF x <= n THEN f[x] ELSE
                         IF x = 1 THEN ss[x] ELSE f[x - 1] \o ss[x]]
      <4>1. \A x \in 1..(n + 1) : g[x] = IF x = 1 THEN ss[x] ELSE g[x - 1] \o ss[x]
        <5> TAKE x \in 1..(n + 1)
        <5>0. /\ x - 1 \in Nat /\ x - 1 <= n /\ (x # 1 => x - 1 \in 1..n)
              /\ (x <= n => x \in 1..n)
          OBVIOUS
        <5>1. x # 1 => g[x - 1] = f[x - 1]
          BY <5>0
        <5>2. x <= n => g[x] = f[x]
          OBVIOUS
        <5>3. x > n => g[x] = IF x = 1 THEN ss[x] ELSE f[x - 1] \o ss[x]
          OBVIOUS
        <5> HIDE DEF g
        <5>4. CASE x <= n
          <6>1. f[x] = IF x = 1 THEN ss[x] ELSE f[x - 1] \o ss[x]
            BY <4>0, <5>0, <5>4
          <6>2. QED
            BY <5>1, <5>2, <5>4, <6>1
        <5>5. CASE x > n
          BY <5>1, <5>3, <5>5
        <5>6. QED
          BY <5>0, <5>4, <5>5
      <4>2. g = [x \in 1..(n + 1) |-> g[x]]
        OBVIOUS
      <4> HIDE DEF g
      <4>3. Joins(g, n + 1)
        BY <4>1, <4>2
      <4>4. QED
        BY <4>3
    <3> HIDE DEF P
    <3>3. L \in P
      BY <2>1, <3>1, <3>2, Induction
    <3>4. QED
      BY <3>3 DEF P
  <2>3. FlattenSeq(ss) = flatten[L]
    BY <1>2 DEF FlattenSeq
  <2>4. Joins(flatten, L)
    BY <2>2
  <2> HIDE DEF flatten
  <2>5. \A n \in 1..L : flatten[n] = IF n = 1 THEN ss[n] ELSE flatten[n - 1] \o ss[n]
    BY <2>4
  <2> DEFINE Right(n) == flatten[n] \in Seq(S) /\ LaidOut(ss, n, flatten[n], o)
             P == {n \in Nat : n + 1 <= L => Right(n + 1)}
  <2>6. /\ \A k \in 1..L : ss[k] \in Seq(S) /\ Len(ss[k]) \in Nat
        /\ o \in [1..(L + 1) -> Nat] /\ o[1] = 0
        /\ \A k \in 1..L : o[k + 1] = o[k] + Len(ss[k])
    BY <2>1, LenProperties, ElementOfSeq DEF Offsets
  <2> HIDE DEF L
  <2>7. 0 \in P
    <3>1. flatten[1] = ss[1] /\ ss[1] \in Seq(S)
      BY <2>1, <2>5, <2>6
    <3>2. o[2] = Len(ss[1]) /\ o[1] = 0
      BY <2>1, <2>6
    <3>3. LaidOut(ss, 1, flatten[1], o)
      BY <3>1, <3>2 DEF LaidOut
    <3>4. Right(1)
      BY <3>1, <3>3
    <3> HIDE DEF Right
    <3>5. QED
      BY <3>4
  <2>8. \A n \in Nat : n \in P => n + 1 \in P
    <3> SUFFICES ASSUME NEW n \in Nat, (n + 1) + 1 <= L, Right(n + 1)
                 PROVE  Right((n + 1) + 1)
      <4> HIDE DEF Right
      <4>1. QED
        BY <2>1
    <3> DEFINE f == flatten[n + 1]
               k == (n + 1) + 1
    <3>1. k \in 1..L /\ n + 1 \in 1..L /\ k # 1 /\ k - 1 = n + 1 /\ k \in Nat
      BY <2>1
    <3>2. flatten[k] = f \o ss[k] /\ ss[k] \in Seq(S) /\ o[k + 1] = o[k] + Len(ss[k])
      BY <2>5, <2>6, <3>1
    <3>3. f \in Seq(S) /\ Len(f) = o[k]
      BY DEF LaidOut
    <3>4. \A j \in 1..(n + 1) : \A m \in 1..Len(ss[j]) : f[o[j] + m] = ss[j][m]
      BY DEF LaidOut
    <3> HIDE DEF f, k
    <3>5. /\ f \o ss[k] \in Seq(S) /\ Len(f \o ss[k]) = o[k] + Len(ss[k])
          /\ \A x \in 1..o[k] : (f \o ss[k])[x] = f[x]
          /\ \A m \in 1..Len(ss[k]) : (f \o ss[k])[o[k] + m] = ss[k][m]
      <4> DEFINE t == ss[k]
                 u == f \o t
      <4>1. f \in Seq(S) /\ t \in Seq(S) /\ u = f \o t
        BY <3>2, <3>3
      <4> HIDE DEF t, u
      <4>2. /\ u \in Seq(S) /\ Len(u) = Len(f) + Len(t)
            /\ \A x \in 1..Len(f) : u[x] = f[x]
            /\ \A m \in 1..Len(t) : u[Len(f) + m] = t[m]
        BY <4>1, JoinedSeq
      <4>3. QED
        BY <3>3, <4>2 DEF t, u
    <3>6. ASSUME NEW j \in 1..(n + 1), NEW m \in 1..Len(ss[j])
          PROVE  (f \o ss[k])[o[j] + m] = ss[j][m]
      <4>1. j \in 1..L /\ k \in 1..(L + 1) /\ j < k
        BY <3>1, <2>1 DEF k
      <4>2. o[j] + Len(ss[j]) <= o[k]
        BY <4>1, OffsetsGrow DEF L
      <4>3. o[j] \in Nat /\ o[k] \in Nat /\ Len(ss[j]) \in Nat
        <5>1. j \in 1..(L + 1)
          BY <2>1, <4>1
        <5>2. QED
          BY <2>6, <4>1, <5>1
      <4>4. o[j] + m \in 1..o[k]
        BY <4>2, <4>3
      <4>5. QED
        BY <3>4, <3>5, <4>4
    <3>7. \A j \in 1..k : j \in 1..(n + 1) \/ j = k
      BY DEF k
    <3>8. LaidOut(ss, k, flatten[k], o)
      <4>1. Len(flatten[k]) = o[k + 1]
        BY <3>2, <3>5
      <4>2. \A j \in 1..k : \A m \in 1..Len(ss[j]) : flatten[k][o[j] + m] = ss[j][m]
        BY <3>2, <3>5, <3>6, <3>7
      <4>3. QED
        BY <4>1, <4>2 DEF LaidOut
    <3>9. QED
      BY <3>2, <3>5, <3>8 DEF k
  <2>9. L - 1 \in P
    <3> HIDE DEF P
    <3>1. QED
      BY <2>1, <2>7, <2>8, Induction
  <2>10. Right(L)
    <3> HIDE DEF Right
    <3>1. L - 1 + 1 <= L /\ L - 1 + 1 = L
      BY <2>1
    <3>2. QED
      BY <2>9, <3>1
  <2>11. QED
    BY <2>3, <2>10 DEF L
<1>3. QED
  BY <1>1, <1>2


-------------------------------------------------------------------------------
(***************************************************************************)
(* Where the lines of an assembly file are.                                *)
(***************************************************************************)
LineType ==
  {l \in [kind : {"file", "align", "label", "string", "table", "text", "data",
                  "section_rodata", "type_function", "type_object", "cfi", "code",
                  "cfi_endproc", "size"},
          symbol : Strings \cup Nat \cup {None}] :
     l.kind = "string" => l.symbol \in Strings}

Parts(src) == [k \in DOMAIN src |-> Assemble(src, k)]
Offset(src) == CHOOSE o : o \in Offsets(Parts(src))
Start(src, k) == 1 + Offset(src)[k]
Size(src, k) == Len(Assemble(src, k))
Current(src, k) == IF k = 1 THEN "none" ELSE SectionOf(src[k - 1])
Before(src, k) == Preamble(src, k, Current(src, k))
FunctionsOf(src) == {k \in DOMAIN src : src[k].kind = "function"}

\* Where the .type directive of function k is.
TypeAt(src, k) == Start(src, k) + Len(Before(src, k)) + 1

\* What is known of a source.
LEMMA SourceShape ==
  ASSUME NEW src \in Sources
  PROVE  /\ src \in Seq(Item) /\ Len(src) \in Nat /\ DOMAIN src = 1..Len(src)
         /\ \A k \in DOMAIN src :
              /\ src[k].kind \in {"function", "array", "table"}
              /\ src[k].uses \in Seq(Strings) /\ Len(src[k].uses) \in Nat
              /\ DOMAIN src[k].uses = 1..Len(src[k].uses)
              /\ \A n \in DOMAIN src[k].uses : src[k].uses[n] \in Strings
              /\ src[k].kind = "array" => Len(src[k].uses) = 1
<1>1. src \in Seq(Item)
  BY SourcesAssumption
<1>2. Len(src) \in Nat /\ DOMAIN src = 1..Len(src) /\ \A k \in 1..Len(src) : src[k] \in Item
  BY <1>1, LenProperties, ElementOfSeq
<1>3. ASSUME NEW k \in DOMAIN src
      PROVE  /\ src[k].kind \in {"function", "array", "table"}
             /\ src[k].uses \in Seq(Strings)
             /\ src[k].kind = "array" => Len(src[k].uses) = 1
  BY <1>2, SourcesAssumption DEF Item
<1>4. ASSUME NEW k \in DOMAIN src
      PROVE  /\ Len(src[k].uses) \in Nat /\ DOMAIN src[k].uses = 1..Len(src[k].uses)
             /\ \A n \in DOMAIN src[k].uses : src[k].uses[n] \in Strings
  BY <1>3, LenProperties, ElementOfSeq
<1>5. QED
  BY <1>1, <1>2, <1>3, <1>4

\* A line is a line.
LEMMA LineShape ==
  ASSUME NEW kind \in {"file", "align", "label", "string", "table", "text", "data",
                       "section_rodata", "type_function", "type_object", "cfi",
                       "code", "cfi_endproc", "size"},
         NEW symbol \in Strings \cup Nat \cup {None},
         kind = "string" => symbol \in Strings
  PROVE  /\ Line(kind, symbol) \in LineType
         /\ Line(kind, symbol).kind = kind /\ Line(kind, symbol).symbol = symbol
BY DEF Line, LineType

\* The lines of a function, by index.
LEMMA BodyShape ==
  ASSUME NEW uses \in Seq(Strings), NEW k \in Nat
  PROVE  LET u == Len(uses)
             b == Body(uses, k)
         IN  /\ u \in Nat /\ b \in Seq(LineType) /\ Len(b) = u + 6
             /\ b[1] = Line("type_function", k) /\ b[2] = Line("label", k)
             /\ b[3] = Line("cfi", None)
             /\ \A n \in 1..u : b[n + 3] = Line("code", uses[n])
             /\ b[u + 4] = Line("code", None) /\ b[u + 5] = Line("cfi_endproc", None)
             /\ b[u + 6] = Line("size", k)
<1> DEFINE u == Len(uses)
           a == <<Line("type_function", k), Line("label", k), Line("cfi", None)>>
           c == [n \in DOMAIN uses |-> Line("code", uses[n])]
           d == <<Line("code", None), Line("cfi_endproc", None), Line("size", k)>>
<1>1. u \in Nat /\ DOMAIN uses = 1..u /\ \A n \in 1..u : uses[n] \in Strings
  BY LenProperties, ElementOfSeq
<1>2. a \in Seq(LineType) /\ Len(a) = 3
  BY LineShape
<1>3. d \in Seq(LineType) /\ Len(d) = 3
  BY LineShape
<1>4. /\ a[1] = Line("type_function", k) /\ a[2] = Line("label", k)
      /\ a[3] = Line("cfi", None)
  OBVIOUS
<1>5. /\ d[1] = Line("code", None) /\ d[2] = Line("cfi_endproc", None)
      /\ d[3] = Line("size", k)
  OBVIOUS
<1>6. c \in Seq(LineType) /\ Len(c) = u /\ \A n \in 1..u : c[n] = Line("code", uses[n])
  <2>1. \A n \in 1..u : Line("code", uses[n]) \in LineType
    BY <1>1, LineShape
  <2>2. c = [n \in 1..u |-> Line("code", uses[n])]
    BY <1>1
  <2> HIDE DEF u
  <2>3. QED
    BY <1>1, <2>1, <2>2
<1>7. Body(uses, k) = (a \o c) \o d
  BY DEF Body
<1> DEFINE ac == a \o c
           b == ac \o d
<1>8. ac = a \o c /\ b = ac \o d
  OBVIOUS
<1> HIDE DEF a, c, d, u, ac, b
<1>9. /\ ac \in Seq(LineType) /\ Len(ac) = 3 + u
      /\ \A n \in 1..3 : ac[n] = a[n] /\ \A m \in 1..u : ac[3 + m] = c[m]
  <2>1. /\ ac \in Seq(LineType) /\ Len(ac) = Len(a) + Len(c)
        /\ \A n \in 1..Len(a) : ac[n] = a[n]
        /\ \A m \in 1..Len(c) : ac[Len(a) + m] = c[m]
    <3>1. a \in Seq(LineType) /\ c \in Seq(LineType) /\ ac = a \o c
      BY <1>2, <1>6, <1>8
    <3>2. QED
      BY <3>1, JoinedSeq
  <2>2. QED
    BY <1>2, <1>6, <2>1
<1>15. /\ b \in Seq(LineType) /\ Len(b) = u + 6
      /\ \A n \in 1..(3 + u) : b[n] = ac[n] /\ \A m \in 1..3 : b[(3 + u) + m] = d[m]
  <2>1. /\ b \in Seq(LineType) /\ Len(b) = Len(ac) + Len(d)
        /\ \A n \in 1..Len(ac) : b[n] = ac[n]
        /\ \A m \in 1..Len(d) : b[Len(ac) + m] = d[m]
    <3>1. ac \in Seq(LineType) /\ d \in Seq(LineType) /\ b = ac \o d
      BY <1>3, <1>8, <1>9
    <3>2. QED
      BY <3>1, JoinedSeq
  <2>2. QED
    BY <1>1, <1>3, <1>9, <2>1
<1>10. b[1] = a[1] /\ b[2] = a[2] /\ b[3] = a[3]
  BY <1>1, <1>9, <1>15
<1>11. ASSUME NEW n \in 1..u
       PROVE  b[n + 3] = c[n]
  <2>1. 3 + n \in 1..(3 + u) /\ n + 3 = 3 + n
    BY <1>1
  <2>2. b[3 + n] = ac[3 + n] /\ ac[3 + n] = c[n]
    BY <1>9, <1>15, <2>1
  <2>3. QED
    BY <2>1, <2>2
<1>12. b[u + 4] = d[1] /\ b[u + 5] = d[2] /\ b[u + 6] = d[3]
  BY <1>1, <1>15
<1>13. b = Body(uses, k)
  BY <1>7 DEF b, ac
<1>14. QED
  BY <1>1, <1>4, <1>5, <1>6, <1>10, <1>11, <1>12, <1>13, <1>15 DEF u


\* The strings before function k: one label for each string that is used for
\* the first time.
LEMMA PoolShape ==
  ASSUME NEW src \in Sources, NEW k \in DOMAIN src
  PROVE  LET b == Pool(src, k)
             uses == src[k].uses
         IN  /\ b \in Seq(LineType)
             /\ \A p \in 1..Len(b) : b[p].kind \in {"align", "label", "string"}
             /\ \A p \in 1..Len(b) : b[p].kind \in {"label", "string"} =>
                  \E n \in FirstUses(src, k) : b[p].symbol = uses[n]
             /\ \A p, q \in 1..Len(b) :
                  /\ b[p].kind = "label" /\ b[q].kind = "label"
                  /\ b[p].symbol = b[q].symbol
                  => p = q
             /\ \A n \in FirstUses(src, k) : \E p \in 1..Len(b) :
                  b[p] = Line("label", uses[n])
<1> DEFINE uses == src[k].uses
           U == Len(uses)
           F == FirstUses(src, k)
           ss == [n \in 1..U |-> IF n \in F THEN Laid(uses[n]) ELSE <<>>]
           b == Pool(src, k)
<1>1. /\ U \in Nat /\ DOMAIN uses = 1..U /\ F \subseteq 1..U
      /\ \A n \in 1..U : uses[n] \in Strings
      /\ \A m, n \in F : uses[m] = uses[n] => m = n
  <2>1. U \in Nat /\ DOMAIN uses = 1..U /\ \A n \in 1..U : uses[n] \in Strings
    BY SourceShape
  <2>2. F \subseteq 1..U
    BY <2>1 DEF FirstUses
  <2>3. \A m, n \in F : m < n => uses[m] # uses[n]
    <3> TAKE m, n \in F
    <3> HAVE m < n
    <3>1. m \in 1..(n - 1)
      BY <2>1, <2>2
    <3>2. \A j \in 1..(n - 1) : uses[j] # uses[n]
      BY DEF FirstUses
    <3>3. QED
      BY <3>1, <3>2
  <2>4. \A m, n \in F : m < n \/ n < m \/ m = n
    BY <2>1, <2>2
  <2>5. QED
    BY <2>1, <2>2, <2>3, <2>4
<1>2. b = FlattenSeq(ss)
  BY <1>1 DEF Pool
<1> HIDE DEF uses, U, F
<1>3. ASSUME NEW n \in F
      PROVE  /\ ss[n] = Laid(uses[n]) /\ ss[n] \in Seq(LineType) /\ Len(ss[n]) = 3
             /\ ss[n][1] = Line("align", None) /\ ss[n][2] = Line("label", uses[n])
             /\ ss[n][3] = Line("string", uses[n])
  <2>1. ss[n] = Laid(uses[n]) /\ uses[n] \in Strings
    BY <1>1
  <2>2. /\ Line("align", None) \in LineType /\ Line("label", uses[n]) \in LineType
        /\ Line("string", uses[n]) \in LineType
    BY <2>1, LineShape
  <2> HIDE DEF ss
  <2>3. QED
    BY <2>1, <2>2 DEF Laid
<1>4. \A n \in (1..U) \ F : ss[n] = <<>> /\ ss[n] \in Seq(LineType)
  OBVIOUS
<1>5. ss \in Seq(Seq(LineType)) /\ Len(ss) = U
  <2>1. \A n \in 1..U : ss[n] \in Seq(LineType)
    BY <1>3, <1>4
  <2>2. DOMAIN ss = 1..U
    OBVIOUS
  <2>3. ss = [n \in 1..U |-> ss[n]]
    OBVIOUS
  <2> HIDE DEF ss
  <2>4. QED
    BY <1>1, <2>1, <2>2, <2>3
<1> HIDE DEF ss
<1>6. PICK o : o \in Offsets(ss)
  BY <1>5, OffsetsExist
<1>7. b \in Seq(LineType) /\ LaidOut(ss, U, b, o)
  BY <1>2, <1>5, <1>6, FlattenShape
<1> HIDE DEF b
<1>8. \A p \in 1..Len(b) : \E n \in F : \E m \in 1..3 : p = o[n] + m /\ b[p] = ss[n][m]
  <2> TAKE p \in 1..Len(b)
  <2>1. p \in 1..o[Len(ss) + 1]
    BY <1>5, <1>7 DEF LaidOut
  <2>2. PICK n \in 1..Len(ss) : \E m \in 1..Len(ss[n]) : p = o[n] + m
    BY <1>5, <1>6, <2>1, EveryPlace
  <2>3. PICK m \in 1..Len(ss[n]) : p = o[n] + m
    BY <2>2
  <2>4. b[p] = ss[n][m]
    BY <1>5, <1>7, <2>3 DEF LaidOut
  <2>5. n \in F
    BY <1>4, <1>5, <2>2, <2>3
  <2>6. QED
    BY <1>3, <2>3, <2>4, <2>5
<1>9. \A p \in 1..Len(b) :
        /\ b[p].kind \in {"align", "label", "string"}
        /\ b[p].kind = "label" =>
             \E n \in F : p = o[n] + 2 /\ b[p].symbol = uses[n]
        /\ b[p].kind = "string" => \E n \in F : b[p].symbol = uses[n]
  <2> TAKE p \in 1..Len(b)
  <2>1. PICK n \in F, m \in 1..3 : p = o[n] + m /\ b[p] = ss[n][m]
    BY <1>8
  <2>2. /\ m = 1 => b[p] = Line("align", None)
        /\ m = 2 => b[p] = Line("label", uses[n])
        /\ m = 3 => b[p] = Line("string", uses[n])
    BY <1>3, <2>1
  <2>3. /\ m = 1 => b[p].kind = "align"
        /\ m = 2 => b[p].kind = "label" /\ b[p].symbol = uses[n]
        /\ m = 3 => b[p].kind = "string" /\ b[p].symbol = uses[n]
    BY <2>2 DEF Line
  <2>4. m = 1 \/ m = 2 \/ m = 3
    OBVIOUS
  <2>5. QED
    BY <2>1, <2>3, <2>4
<1>10. \A p, q \in 1..Len(b) :
         /\ b[p].kind = "label" /\ b[q].kind = "label" /\ b[p].symbol = b[q].symbol
         => p = q
  BY <1>1, <1>9
<1>11. \A n \in F : \E p \in 1..Len(b) : b[p] = Line("label", uses[n])
  <2> TAKE n \in F
  <2>1. n \in 1..Len(ss) /\ U + 1 \in 1..(Len(ss) + 1) /\ n < U + 1
    BY <1>1, <1>5
  <2>2. Len(b) = o[U + 1] /\ b[o[n] + 2] = ss[n][2]
    BY <1>1, <1>3, <1>7 DEF LaidOut
  <2>3. o[n] + 3 <= o[U + 1]
    BY <1>3, <1>5, <1>6, <2>1, OffsetsGrow
  <2>4. o[n] \in Nat /\ o[U + 1] \in Nat
    BY <1>6, <2>1 DEF Offsets
  <2>5. o[n] + 2 \in 1..Len(b)
    BY <2>2, <2>3, <2>4
  <2>6. QED
    BY <1>3, <2>2, <2>5
<1>12. QED
  BY <1>7, <1>9, <1>10, <1>11 DEF b, F, uses


\* The directive that enters a section: one line, or none.
LEMMA EnterShape ==
  ASSUME NEW section \in {"text", "data", "section_rodata"}, NEW current
  PROVE  /\ Enter(section, current) \in Seq(LineType)
         /\ section = current => Len(Enter(section, current)) = 0
         /\ section # current =>
              /\ Len(Enter(section, current)) = 1
              /\ Enter(section, current)[1].kind = section
<1>1. Line(section, None) \in LineType /\ Line(section, None).kind = section
  BY LineShape
<1>2. QED
  BY <1>1 DEF Enter

\* What stands before function k.
LEMMA PreambleShape ==
  ASSUME NEW src \in Sources, NEW k \in DOMAIN src
  PROVE  LET b == Before(src, k)
             uses == src[k].uses
             rodata_line == FirstUses(src, k) # {} /\ Current(src, k) # "section_rodata"
         IN  /\ b \in Seq(LineType) /\ Len(b) \in Nat
             /\ \A p \in 1..Len(b) :
                  b[p].kind \in {"text", "section_rodata", "align", "label", "string"}
             /\ \A p \in 1..Len(b) : b[p].kind \in {"label", "string"} =>
                  FirstUses(src, k) # {}
             /\ \A p \in 1..Len(b) : b[p].kind \in {"label", "string"} =>
                  \E n \in FirstUses(src, k) : b[p].symbol = uses[n]
             /\ \A p, q \in 1..Len(b) :
                  /\ b[p].kind = "label" /\ b[q].kind = "label"
                  /\ b[p].symbol = b[q].symbol
                  => p = q
             /\ \A n \in FirstUses(src, k) : \E p \in 1..Len(b) :
                  b[p] = Line("label", uses[n])
             /\ \A p \in 1..Len(b) : b[p].kind = "section_rodata" => rodata_line /\ p = 1
             /\ rodata_line => Len(b) > 1 /\ b[1].kind = "section_rodata"
<1> DEFINE b == Before(src, k)
           uses == src[k].uses
           current == Current(src, k)
           rodata_line == FirstUses(src, k) # {} /\ current # "section_rodata"
<1>1. CASE FirstUses(src, k) = {}
  <2>1. b = Enter("text", current)
    BY <1>1 DEF Before, Preamble
  <2>2. \A p \in 1..Len(b) : p = 1 /\ b[p].kind = "text"
    <3>1. Len(b) = 0 \/ (Len(b) = 1 /\ b[1].kind = "text")
      BY <2>1, EnterShape
    <3> DEFINE x == Len(b)
    <3>2. x = 0 \/ x = 1
      BY <3>1
    <3> HIDE DEF b, x
    <3>3. \A p \in 1..x : p = 1 /\ x = 1
      BY <3>2
    <3>4. QED
      BY <3>1, <3>3 DEF x
  <2>3. b \in Seq(LineType) /\ Len(b) \in Nat
    BY <2>1, EnterShape, LenProperties
  <2> HIDE DEF b
  <2>4. QED
    BY <1>1, <2>2, <2>3 DEF b
<1>2. CASE FirstUses(src, k) # {}
  <2> DEFINE a == Enter("section_rodata", current)
             c == Pool(src, k)
             d == <<Line("text", None)>>
             ac == a \o c
             e == ac \o d
  <2>1. b = e /\ e = ac \o d /\ ac = a \o c
    BY <1>2 DEF Before, Preamble
  <2>2. /\ a \in Seq(LineType) /\ Len(a) \in {0, 1}
        /\ rodata_line => Len(a) = 1 /\ a[1].kind = "section_rodata"
        /\ Len(a) = 1 => rodata_line
    BY <1>2, EnterShape
  <2>3. c \in Seq(LineType) /\ Len(c) \in Nat
    BY PoolShape, LenProperties
  <2>4. d \in Seq(LineType) /\ Len(d) = 1 /\ d[1].kind = "text"
    <3>1. Line("text", None) \in LineType /\ Line("text", None).kind = "text"
      BY LineShape
    <3>2. QED
      BY <3>1
  <2>5. /\ \A p \in 1..Len(c) : c[p].kind \in {"align", "label", "string"}
        /\ \A p \in 1..Len(c) : c[p].kind \in {"label", "string"} =>
             \E n \in FirstUses(src, k) : c[p].symbol = uses[n]
        /\ \A p, q \in 1..Len(c) :
             /\ c[p].kind = "label" /\ c[q].kind = "label"
             /\ c[p].symbol = c[q].symbol
             => p = q
        /\ \A n \in FirstUses(src, k) : \E p \in 1..Len(c) :
             c[p] = Line("label", uses[n])
    BY PoolShape
  <2> HIDE DEF a, c, d, ac, e, b
  <2>6. /\ ac \in Seq(LineType) /\ Len(ac) = Len(a) + Len(c)
        /\ \A n \in 1..Len(a) : ac[n] = a[n]
        /\ \A m \in 1..Len(c) : ac[Len(a) + m] = c[m]
    <3>1. a \in Seq(LineType) /\ c \in Seq(LineType) /\ ac = a \o c
      BY <2>1, <2>2, <2>3
    <3>2. QED
      BY <3>1, JoinedSeq
  <2>7. /\ b \in Seq(LineType) /\ Len(b) = Len(ac) + Len(d)
        /\ \A n \in 1..Len(ac) : b[n] = ac[n]
        /\ \A m \in 1..Len(d) : b[Len(ac) + m] = d[m]
    <3>1. ac \in Seq(LineType) /\ d \in Seq(LineType) /\ b = ac \o d
      BY <2>1, <2>4, <2>6
    <3>2. QED
      BY <3>1, JoinedSeq
  <2> DEFINE x == Len(a)
             y == Len(c)
  <2>8. x \in {0, 1} /\ y \in Nat /\ Len(ac) = x + y /\ Len(b) = x + y + 1
    BY <2>2, <2>3, <2>4, <2>6, <2>7
  <2>9. \A m \in 1..y : b[x + m] = c[m] /\ x + m \in 1..Len(b)
    BY <2>6, <2>7, <2>8
  <2>10. b[x + y + 1].kind = "text"
    BY <2>4, <2>7, <2>8
  <2>11. x = 1 => b[1] = a[1]
    BY <2>6, <2>7, <2>8
  <2> HIDE DEF x, y
  <2>12. x = 1 <=> rodata_line
    BY <2>2 DEF x
  <2>13. x = 1 => b[1].kind = "section_rodata"
    BY <2>2, <2>11 DEF x
  <2>14. \A p \in 1..Len(b) :
           \/ p = 1 /\ x = 1
           \/ p - x \in 1..y /\ b[p] = c[p - x]
           \/ p = x + y + 1
    <3> TAKE p \in 1..Len(b)
    <3>1. p <= x \/ p - x \in 1..y \/ p = x + y + 1
      BY <2>8
    <3>2. p - x \in 1..y => b[p] = c[p - x]
      BY <2>8, <2>9
    <3>3. p <= x => p = 1 /\ x = 1
      BY <2>8
    <3>4. QED
      BY <3>1, <3>2, <3>3
  <2>15. \A p \in 1..Len(b) : b[p].kind \in {"label", "string", "align"} =>
           p - x \in 1..y /\ b[p] = c[p - x]
    BY <2>10, <2>13, <2>14
  <2>16. \A p \in 1..Len(b) :
           b[p].kind \in {"text", "section_rodata", "align", "label", "string"}
    BY <2>5, <2>10, <2>13, <2>14 DEF y
  <2>17. \A p \in 1..Len(b) : b[p].kind = "section_rodata" => x = 1 /\ p = 1
    BY <2>5, <2>10, <2>14 DEF y
  <2>18. \A p \in 1..Len(b) : b[p].kind \in {"label", "string"} =>
           \E n \in FirstUses(src, k) : b[p].symbol = uses[n]
    BY <2>5, <2>15 DEF y
  <2>19. \A p, q \in 1..Len(b) :
           /\ b[p].kind = "label" /\ b[q].kind = "label"
           /\ b[p].symbol = b[q].symbol
           => p = q
    <3> TAKE p, q \in 1..Len(b)
    <3> HAVE /\ b[p].kind = "label" /\ b[q].kind = "label"
             /\ b[p].symbol = b[q].symbol
    <3>1. /\ p - x \in 1..y /\ b[p] = c[p - x] /\ q - x \in 1..y /\ b[q] = c[q - x]
      BY <2>15
    <3>2. p - x = q - x
      BY <2>5, <3>1 DEF y
    <3>3. QED
      BY <2>8, <3>2
  <2>20. \A n \in FirstUses(src, k) : \E p \in 1..Len(b) : b[p] = Line("label", uses[n])
    <3> TAKE n \in FirstUses(src, k)
    <3>1. PICK m \in 1..y : c[m] = Line("label", uses[n])
      BY <2>5 DEF y
    <3>2. QED
      BY <2>9, <3>1
  <2>21. x = 1 => Len(b) > 1
    BY <2>8
  <2>22. Len(b) \in Nat
    BY <2>8
  <2>23. QED
    BY <1>2, <2>7, <2>12, <2>13, <2>16, <2>17, <2>18, <2>19, <2>20, <2>21, <2>22 DEF b
<1>3. QED
  BY <1>1, <1>2


\* What the assembler is given for an item that is not a function.
LEMMA DataShape ==
  ASSUME NEW src \in Sources, NEW k \in DOMAIN src, src[k].kind # "function"
  PROVE  LET b == Assemble(src, k)
             rodata_line == src[k].kind = "table" /\ Current(src, k) # "section_rodata"
         IN  /\ b \in Seq(LineType) /\ Len(b) \in Nat /\ Len(b) >= 3
             /\ \A p \in 1..Len(b) :
                  b[p].kind \in {"data", "section_rodata", "type_object", "label",
                                 "string", "table"}
             /\ \A p \in 1..Len(b) : b[p].kind = "label" <=> p = Len(b) - 1
             /\ b[Len(b) - 1].symbol = k
             /\ \A p \in 1..Len(b) : b[p].kind = "section_rodata" => rodata_line /\ p = 1
             /\ rodata_line => b[1].kind = "section_rodata"
<1> DEFINE b == Assemble(src, k)
           current == Current(src, k)
           rodata_line == src[k].kind = "table" /\ current # "section_rodata"
           section == IF src[k].kind = "array" THEN "data" ELSE "section_rodata"
           last == IF src[k].kind = "array" THEN Line("string", src[k].uses[1])
                   ELSE Line("table", k)
           a == Enter(section, current)
           d == <<Line("type_object", k), Line("label", k), last>>
           e == a \o d
<1>1. /\ src[k].kind \in {"array", "table"} /\ k \in Nat
      /\ src[k].kind = "array" => src[k].uses[1] \in Strings
  BY SourceShape
<1>2. b = e /\ e = a \o d
  <2>1. src[k].kind = "array" => b = e
    BY DEF Assemble, Current
  <2>2. src[k].kind = "table" => b = e
    BY DEF Assemble, Current
  <2>3. QED
    BY <1>1, <2>1, <2>2
<1>3. /\ a \in Seq(LineType) /\ Len(a) \in {0, 1}
      /\ Len(a) = 1 => a[1].kind = section
      /\ section # current => Len(a) = 1
      /\ section = current => Len(a) = 0
  BY EnterShape
<1>4. /\ d \in Seq(LineType) /\ Len(d) = 3
      /\ d[1].kind = "type_object" /\ d[2].kind = "label" /\ d[2].symbol = k
      /\ d[3].kind \in {"string", "table"}
  <2>1. /\ Line("type_object", k) \in LineType /\ Line("label", k) \in LineType
        /\ Line("type_object", k).kind = "type_object"
        /\ Line("label", k).kind = "label" /\ Line("label", k).symbol = k
    BY <1>1, LineShape
  <2>2. last \in LineType /\ last.kind \in {"string", "table"}
    BY <1>1, LineShape
  <2> HIDE DEF last
  <2>3. QED
    BY <2>1, <2>2
<1>5. src[k].kind = "table" <=> section = "section_rodata"
  BY <1>1
<1> HIDE DEF a, d, e, b, last, section, current
<1>6. /\ e \in Seq(LineType) /\ Len(e) = Len(a) + Len(d)
      /\ \A n \in 1..Len(a) : e[n] = a[n]
      /\ \A m \in 1..Len(d) : e[Len(a) + m] = d[m]
  <2>1. a \in Seq(LineType) /\ d \in Seq(LineType) /\ e = a \o d
    BY <1>2, <1>3, <1>4
  <2>2. QED
    BY <2>1, JoinedSeq
<1> DEFINE x == Len(a)
<1>7. x \in {0, 1} /\ Len(e) = x + 3
  BY <1>3, <1>4, <1>6
<1>8. e[x + 1] = d[1] /\ e[x + 2] = d[2] /\ e[x + 3] = d[3]
  BY <1>4, <1>6
<1>9. x = 1 => e[1] = a[1]
  BY <1>6
<1>10. x = 1 => e[1].kind = section
  BY <1>3, <1>9
<1> HIDE DEF x
<1>11. \A p \in 1..Len(e) :
         (p = 1 /\ x = 1) \/ p = x + 1 \/ p = x + 2 \/ p = x + 3
  BY <1>7
<1>12. section \in {"data", "section_rodata"}
  BY DEF section
<1>13. \A p \in 1..Len(e) :
         e[p].kind \in {"data", "section_rodata", "type_object", "label",
                        "string", "table"}
  BY <1>4, <1>8, <1>10, <1>11, <1>12
<1>14. \A p \in 1..Len(e) : e[p].kind = "label" <=> p = x + 2
  BY <1>4, <1>7, <1>8, <1>10, <1>11, <1>12
<1>15. \A p \in 1..Len(e) : e[p].kind = "section_rodata" =>
         p = 1 /\ x = 1 /\ section = "section_rodata"
  BY <1>4, <1>8, <1>10, <1>11
<1>16. x = 1 <=> section # current
  BY <1>3 DEF x
<1>17. Len(e) - 1 = x + 2 /\ Len(e) >= 3 /\ Len(e) \in Nat
  BY <1>7
<1>18. e[Len(e) - 1].symbol = k
  BY <1>4, <1>8, <1>17
<1>19. rodata_line <=> x = 1 /\ section = "section_rodata"
  BY <1>5, <1>16
<1>20. /\ \A p \in 1..Len(e) : e[p].kind = "section_rodata" => rodata_line /\ p = 1
       /\ rodata_line => e[1].kind = "section_rodata"
  BY <1>10, <1>15, <1>19
<1>21. \A p \in 1..Len(e) : e[p].kind = "label" <=> p = Len(e) - 1
  BY <1>14, <1>17
<1>22. QED
  BY <1>2, <1>6, <1>13, <1>17, <1>18, <1>20, <1>21 DEF b, current


\* The assembly of a file is its first line and the parts of the items.
LEMMA Layout ==
  ASSUME NEW src \in Sources
  PROVE  LET b == Assembly(src)
         IN  /\ b \in Seq(LineType) /\ Len(b) \in Nat
             /\ b[1].kind = "file" /\ Len(b) >= 1
             /\ \A k \in DOMAIN src :
                  /\ Start(src, k) \in Nat /\ Size(src, k) \in Nat /\ Start(src, k) >= 1
                  /\ Start(src, k) + Size(src, k) <= Len(b)
                  /\ \A m \in 1..Size(src, k) : b[Start(src, k) + m] = Assemble(src, k)[m]
             /\ \A j, k \in DOMAIN src : j < k =>
                  Start(src, j) + Size(src, j) <= Start(src, k)
             /\ \A p \in 2..Len(b) : \E k \in DOMAIN src : \E m \in 1..Size(src, k) :
                  p = Start(src, k) + m
<1> DEFINE ss == Parts(src)
           L == Len(src)
           o == Offset(src)
           a == <<Line("file", None)>>
           c == FlattenSeq(ss)
           b == Assembly(src)
<1>1. L \in Nat /\ DOMAIN src = 1..L
  BY SourceShape
<1>2. \A k \in 1..L : Assemble(src, k) \in Seq(LineType)
  <2> TAKE k \in 1..L
  <2>1. CASE src[k].kind = "function"
    <3> DEFINE x == Before(src, k)
               y == Body(src[k].uses, k)
               z == Assemble(src, k)
    <3>1. x \in Seq(LineType)
      BY <1>1, PreambleShape
    <3>2. y \in Seq(LineType)
      BY <1>1, SourceShape, BodyShape
    <3>3. z = x \o y
      BY <2>1 DEF Assemble, Before, Current
    <3> HIDE DEF x, y, z
    <3>4. z \in Seq(LineType)
      BY <3>1, <3>2, <3>3, JoinedSeq
    <3>5. QED
      BY <3>4 DEF z
  <2>2. CASE src[k].kind # "function"
    BY <1>1, <2>2, DataShape
  <2>3. QED
    BY <2>1, <2>2
<1>3. /\ ss \in Seq(Seq(LineType)) /\ Len(ss) = L
      /\ \A k \in 1..L : ss[k] = Assemble(src, k)
  <2>1. ss = [k \in 1..L |-> Assemble(src, k)]
    BY <1>1 DEF Parts
  <2> HIDE DEF ss
  <2>2. QED
    BY <1>1, <1>2, <2>1
<1>4. o \in Offsets(ss)
  <2>1. \E p : p \in Offsets(ss)
    BY <1>3, OffsetsExist
  <2>2. QED
    BY <2>1 DEF Offset
<1>5. c \in Seq(LineType) /\ LaidOut(ss, L, c, o)
  BY <1>3, <1>4, FlattenShape
<1>6. a \in Seq(LineType) /\ Len(a) = 1 /\ a[1].kind = "file"
  BY LineShape
<1>7. b = a \o c
  BY DEF Assembly, Parts
<1>8. \A k \in 1..L : ss[k] = Assemble(src, k) /\ Len(ss[k]) = Size(src, k)
                      /\ Start(src, k) = 1 + o[k]
  BY <1>3 DEF Size, Start
<1>9. \A k \in 1..L : Size(src, k) \in Nat
  BY <1>2, LenProperties DEF Size
<1> HIDE DEF ss, L, o, a, b, c
<1>10. o \in [1..(L + 1) -> Nat] /\ o[L + 1] = Len(c)
  BY <1>3, <1>4, <1>5 DEF Offsets, LaidOut
<1>11. /\ b \in Seq(LineType) /\ Len(b) = Len(a) + Len(c)
       /\ \A n \in 1..Len(a) : b[n] = a[n]
       /\ \A m \in 1..Len(c) : b[Len(a) + m] = c[m]
  <2>1. a \in Seq(LineType) /\ c \in Seq(LineType) /\ b = a \o c
    BY <1>5, <1>6, <1>7
  <2>2. QED
    BY <2>1, JoinedSeq
<1>12. \A j \in 1..L : \A k \in 1..(L + 1) : j < k => o[j] + Size(src, j) <= o[k]
  BY <1>3, <1>4, <1>8, OffsetsGrow
<1>13. \A p \in 1..o[L + 1] : \E k \in 1..L : \E m \in 1..Size(src, k) : p = o[k] + m
  BY <1>3, <1>4, <1>8, EveryPlace
<1>14. \A k \in 1..L : \A m \in 1..Size(src, k) : c[o[k] + m] = Assemble(src, k)[m]
  BY <1>5, <1>8 DEF LaidOut
<1>15. Len(c) \in Nat /\ Len(b) = 1 + Len(c) /\ b[1].kind = "file"
  <2>1. L + 1 \in 1..(L + 1)
    BY <1>1
  <2>2. o[L + 1] \in Nat
    BY <1>10, <2>1
  <2>3. QED
    BY <1>6, <1>10, <1>11, <2>2
<1>16. \A m \in 1..Len(c) : b[1 + m] = c[m]
  BY <1>6, <1>11
<1>17. ASSUME NEW k \in 1..L
       PROVE  /\ Start(src, k) \in Nat /\ Size(src, k) \in Nat /\ Start(src, k) >= 1
              /\ Start(src, k) + Size(src, k) <= Len(b)
              /\ \A m \in 1..Size(src, k) : b[Start(src, k) + m] = Assemble(src, k)[m]
  <2>1. k \in 1..(L + 1) /\ L + 1 \in 1..(L + 1) /\ k < L + 1
    BY <1>1
  <2>2. o[k] \in Nat /\ Size(src, k) \in Nat /\ Start(src, k) = 1 + o[k]
    BY <1>8, <1>9, <1>10, <2>1
  <2>3. o[k] + Size(src, k) <= Len(c)
    BY <1>10, <1>12, <2>1
  <2>4. ASSUME NEW m \in 1..Size(src, k)
        PROVE  b[Start(src, k) + m] = Assemble(src, k)[m]
    <3>1. o[k] + m \in 1..Len(c) /\ Start(src, k) + m = 1 + (o[k] + m)
      BY <1>15, <2>2, <2>3
    <3>2. QED
      BY <1>14, <1>16, <3>1
  <2>5. QED
    BY <1>15, <2>2, <2>3, <2>4
<1>18. ASSUME NEW j \in 1..L, NEW k \in 1..L, j < k
       PROVE  Start(src, j) + Size(src, j) <= Start(src, k)
  <2>1. j \in 1..(L + 1) /\ k \in 1..(L + 1)
    BY <1>1
  <2>2. o[j] \in Nat /\ o[k] \in Nat /\ Size(src, j) \in Nat
    BY <1>9, <1>10, <2>1
  <2>3. o[j] + Size(src, j) <= o[k]
    BY <1>12, <1>18, <2>1
  <2>4. QED
    BY <1>8, <2>2, <2>3
<1>19. ASSUME NEW p \in 2..Len(b)
       PROVE  \E k \in 1..L : \E m \in 1..Size(src, k) : p = Start(src, k) + m
  <2>1. p - 1 \in 1..o[L + 1]
    BY <1>10, <1>15
  <2>2. PICK k \in 1..L : \E m \in 1..Size(src, k) : p - 1 = o[k] + m
    BY <1>13, <2>1
  <2>3. PICK m \in 1..Size(src, k) : p - 1 = o[k] + m
    BY <2>2
  <2>4. o[k] \in Nat /\ m \in Nat
    BY <1>1, <1>9, <1>10
  <2>5. p = Start(src, k) + m
    BY <1>8, <2>3, <2>4
  <2>6. QED
    BY <2>5
<1>20. /\ b \in Seq(LineType) /\ Len(b) \in Nat
       /\ b[1].kind = "file" /\ Len(b) >= 1
  BY <1>11, <1>15
<1>21. \A k \in DOMAIN src :
         /\ Start(src, k) \in Nat /\ Size(src, k) \in Nat /\ Start(src, k) >= 1
         /\ Start(src, k) + Size(src, k) <= Len(b)
         /\ \A m \in 1..Size(src, k) : b[Start(src, k) + m] = Assemble(src, k)[m]
  BY <1>1, <1>17
<1>22. \A j, k \in DOMAIN src : j < k => Start(src, j) + Size(src, j) <= Start(src, k)
  BY <1>1, <1>18
<1>23. \A p \in 2..Len(b) : \E k \in DOMAIN src : \E m \in 1..Size(src, k) :
         p = Start(src, k) + m
  BY <1>1, <1>19
<1>24. QED
  BY <1>20, <1>21, <1>22, <1>23 DEF b


\* The lines of function k, from its .type directive on.
LEMMA FunctionLines ==
  ASSUME NEW src \in Sources, NEW k \in FunctionsOf(src)
  PROVE  LET b == Assembly(src)
             t == TypeAt(src, k)
             uses == src[k].uses
             u == Len(uses)
         IN  /\ t \in Nat /\ u \in Nat /\ Start(src, k) < t
             /\ t + u + 5 = Start(src, k) + Size(src, k) /\ t + u + 5 <= Len(b)
             /\ b[t] = Line("type_function", k) /\ b[t + 1] = Line("label", k)
             /\ b[t + 2] = Line("cfi", None)
             /\ \A n \in 1..u : b[t + 2 + n] = Line("code", uses[n])
             /\ b[t + u + 3] = Line("code", None)
             /\ b[t + u + 4] = Line("cfi_endproc", None)
             /\ b[t + u + 5] = Line("size", k)
             /\ \A m \in 1..Len(Before(src, k)) :
                  b[Start(src, k) + m] = Before(src, k)[m]
<1> DEFINE b == Assembly(src)
           t == TypeAt(src, k)
           uses == src[k].uses
           u == Len(uses)
           x == Before(src, k)
           y == Body(uses, k)
           z == Assemble(src, k)
           s == Start(src, k)
<1>1. k \in DOMAIN src /\ src[k].kind = "function" /\ k \in Nat /\ uses \in Seq(Strings)
  BY SourceShape DEF FunctionsOf
<1>2. z = x \o y
  BY <1>1 DEF Assemble, Before, Current
<1>3. x \in Seq(LineType) /\ Len(x) \in Nat
  BY <1>1, PreambleShape
<1>4. /\ u \in Nat /\ y \in Seq(LineType) /\ Len(y) = u + 6
      /\ y[1] = Line("type_function", k) /\ y[2] = Line("label", k)
      /\ y[3] = Line("cfi", None)
      /\ \A n \in 1..u : y[n + 3] = Line("code", uses[n])
      /\ y[u + 4] = Line("code", None) /\ y[u + 5] = Line("cfi_endproc", None)
      /\ y[u + 6] = Line("size", k)
  BY <1>1, BodyShape
<1>5. /\ s \in Nat /\ s + Len(z) <= Len(b) /\ Size(src, k) = Len(z) /\ Len(b) \in Nat
      /\ \A m \in 1..Len(z) : b[s + m] = z[m]
  BY <1>1, Layout DEF Size
<1>6. t = s + Len(x) + 1
  BY DEF TypeAt
<1> HIDE DEF b, t, u, x, y, z, s
<1>7. /\ z \in Seq(LineType) /\ Len(z) = Len(x) + Len(y)
      /\ \A n \in 1..Len(x) : z[n] = x[n]
      /\ \A m \in 1..Len(y) : z[Len(x) + m] = y[m]
  <2>1. x \in Seq(LineType) /\ y \in Seq(LineType) /\ z = x \o y
    BY <1>2, <1>3, <1>4
  <2>2. QED
    BY <2>1, JoinedSeq
<1>8. t \in Nat /\ s < t /\ t + u + 5 = s + Len(z) /\ t + u + 5 <= Len(b)
  BY <1>3, <1>4, <1>5, <1>6, <1>7
<1>9. \A m \in 1..(u + 6) : b[t - 1 + m] = y[m]
  <2> TAKE m \in 1..(u + 6)
  <2>1. Len(x) + m \in 1..Len(z) /\ z[Len(x) + m] = y[m]
    BY <1>3, <1>4, <1>7
  <2>2. t - 1 + m = s + (Len(x) + m)
    BY <1>3, <1>4, <1>5, <1>6
  <2>3. QED
    BY <1>5, <2>1, <2>2
<1>10. b[t] = y[1] /\ b[t + 1] = y[2] /\ b[t + 2] = y[3]
  <2>1. b[t - 1 + 1] = y[1] /\ b[t - 1 + 2] = y[2] /\ b[t - 1 + 3] = y[3]
    BY <1>4, <1>9
  <2>2. t - 1 + 1 = t /\ t - 1 + 2 = t + 1 /\ t - 1 + 3 = t + 2
    BY <1>8
  <2>3. QED
    BY <2>1, <2>2
<1>11. \A n \in 1..u : b[t + 2 + n] = y[n + 3]
  <2> TAKE n \in 1..u
  <2>1. n + 3 \in 1..(u + 6) /\ t - 1 + (n + 3) = t + 2 + n
    BY <1>4, <1>8
  <2>2. QED
    BY <1>9, <2>1
<1>12. b[t + u + 3] = y[u + 4] /\ b[t + u + 4] = y[u + 5] /\ b[t + u + 5] = y[u + 6]
  <2>1. /\ u + 4 \in 1..(u + 6) /\ u + 5 \in 1..(u + 6) /\ u + 6 \in 1..(u + 6)
        /\ t - 1 + (u + 4) = t + u + 3 /\ t - 1 + (u + 5) = t + u + 4
        /\ t - 1 + (u + 6) = t + u + 5
    BY <1>4, <1>8
  <2>2. QED
    BY <1>9, <2>1
<1>13. \A m \in 1..Len(x) : b[s + m] = x[m]
  <2> TAKE m \in 1..Len(x)
  <2>1. m \in 1..Len(z)
    BY <1>3, <1>4, <1>7
  <2>2. QED
    BY <1>5, <1>7, <2>1
<1>14. \A n \in 1..u : b[t + 2 + n] = Line("code", uses[n])
  BY <1>4, <1>11
<1>15. QED
  BY <1>4, <1>5, <1>8, <1>10, <1>12, <1>13, <1>14 DEF b, t, u, x, s

\* A later function lies behind an earlier one.
LEMMA FunctionOrder ==
  ASSUME NEW src \in Sources, NEW j \in FunctionsOf(src), NEW k \in FunctionsOf(src), j < k
  PROVE  TypeAt(src, j) + Len(src[j].uses) + 5 <= Start(src, k)
<1>1. TypeAt(src, j) + Len(src[j].uses) + 5 = Start(src, j) + Size(src, j)
  BY FunctionLines
<1>2. Start(src, j) + Size(src, j) <= Start(src, k)
  BY Layout DEF FunctionsOf
<1>3. QED
  BY <1>1, <1>2

\* Every line of a function is before it, or one of those that
\* parse_assembly.py looks for, or of no interest.
LEMMA FunctionKinds ==
  ASSUME NEW src \in Sources, NEW k \in FunctionsOf(src), NEW m \in 1..Size(src, k)
  PROVE  LET b == Assembly(src)
             p == Start(src, k) + m
             t == TypeAt(src, k)
             u == Len(src[k].uses)
         IN  \/ m \in 1..Len(Before(src, k)) /\ b[p] = Before(src, k)[m]
             \/ p = t /\ b[p].kind = "type_function"
             \/ p = t + 1 /\ b[p].kind = "label" /\ b[p].symbol = k
             \/ p = t + u + 4 /\ b[p].kind = "cfi_endproc"
             \/ p > t /\ b[p].kind \in {"cfi", "code", "size"}
<1> DEFINE b == Assembly(src)
           p == Start(src, k) + m
           t == TypeAt(src, k)
           u == Len(src[k].uses)
           s == Start(src, k)
           x == Len(Before(src, k))
<1>1. k \in DOMAIN src
  BY DEF FunctionsOf
<1>2. /\ t \in Nat /\ u \in Nat /\ s < t /\ t + u + 5 = s + Size(src, k)
      /\ b[t + 1] = Line("label", k)
      /\ b[t + 2] = Line("cfi", None)
      /\ \A n \in 1..u : b[t + 2 + n] = Line("code", src[k].uses[n])
      /\ b[t + u + 3] = Line("code", None)
      /\ b[t + u + 5] = Line("size", k)
      /\ b[t] = Line("type_function", k)
      /\ b[t + u + 4] = Line("cfi_endproc", None)
      /\ \A n \in 1..x : b[s + n] = Before(src, k)[n]
  BY FunctionLines
<1>3. t = s + x + 1 /\ s \in Nat /\ Size(src, k) \in Nat /\ x \in Nat /\ p = s + m
  BY <1>1, Layout, PreambleShape DEF TypeAt
<1> HIDE DEF t, u, s, x, b, p
<1>4. \/ m \in 1..x \/ p = t \/ p = t + 1 \/ p = t + 2
      \/ p - (t + 2) \in 1..u
      \/ p = t + u + 3 \/ p = t + u + 4 \/ p = t + u + 5
  BY <1>2, <1>3
<1>5. CASE m \in 1..x
  <2>1. b[p] = Before(src, k)[m]
    BY <1>2, <1>3, <1>5
  <2>2. QED
    BY <1>5, <2>1 DEF b, x, p, s
<1>6. CASE p = t \/ p = t + 1 \/ p = t + u + 4
  <2>1. /\ p = t => b[p].kind = "type_function"
        /\ p = t + 1 => b[p].kind = "label" /\ b[p].symbol = k
        /\ p = t + u + 4 => b[p].kind = "cfi_endproc"
    BY <1>2 DEF Line
  <2>2. QED
    BY <1>6, <2>1 DEF b, t, u, p, s
<1>7. CASE p - (t + 2) \in 1..u
  <2>1. p = t + 2 + (p - (t + 2)) /\ p > t
    BY <1>2, <1>3, <1>7
  <2>2. b[p] = Line("code", src[k].uses[p - (t + 2)])
    BY <1>2, <1>7, <2>1
  <2>3. b[p].kind = "code"
    BY <2>2 DEF Line
  <2>4. QED
    BY <2>1, <2>3 DEF b, t, p, s
<1>8. CASE p = t + 2 \/ p = t + u + 3 \/ p = t + u + 5
  <2>1. b[p].kind \in {"cfi", "code", "size"}
    BY <1>2, <1>8 DEF Line
  <2>2. p > t
    BY <1>2, <1>8
  <2>3. QED
    BY <2>1, <2>2 DEF b, t, p, s
<1>9. QED
  BY <1>4, <1>5, <1>6, <1>7, <1>8

\* Every line but the first belongs to an item.
LEMMA LineOfItem ==
  ASSUME NEW src \in Sources, NEW p \in 1..Len(Assembly(src)),
         Assembly(src)[p].kind # "file"
  PROVE  \E k \in DOMAIN src : \E m \in 1..Size(src, k) :
           p = Start(src, k) + m /\ Assembly(src)[p] = Assemble(src, k)[m]
<1>1. p # 1
  BY Layout
<1>2. p \in 2..Len(Assembly(src))
  BY <1>1, Layout
<1>3. PICK k \in DOMAIN src : \E m \in 1..Size(src, k) : p = Start(src, k) + m
  BY <1>2, Layout
<1>4. PICK m \in 1..Size(src, k) : p = Start(src, k) + m
  BY <1>3
<1>5. QED
  BY <1>4, Layout

\* A .type directive of a function and a .cfi_endproc belong to a function.
LEMMA LineBelongs ==
  ASSUME NEW src \in Sources, NEW p \in 1..Len(Assembly(src))
  PROVE  LET b == Assembly(src) IN
         /\ b[p].kind = "type_function" =>
              \E k \in FunctionsOf(src) : p = TypeAt(src, k)
         /\ b[p].kind = "cfi_endproc" =>
              \E k \in FunctionsOf(src) : p = TypeAt(src, k) + Len(src[k].uses) + 4
<1> DEFINE b == Assembly(src)
<1> SUFFICES ASSUME b[p].kind \in {"type_function", "cfi_endproc"}
             PROVE  \E k \in FunctionsOf(src) :
                      /\ b[p].kind = "type_function" => p = TypeAt(src, k)
                      /\ b[p].kind = "cfi_endproc" =>
                           p = TypeAt(src, k) + Len(src[k].uses) + 4
  OBVIOUS
<1>1. PICK k \in DOMAIN src : \E m \in 1..Size(src, k) :
             p = Start(src, k) + m /\ b[p] = Assemble(src, k)[m]
  BY LineOfItem
<1>2. PICK m \in 1..Size(src, k) : p = Start(src, k) + m /\ b[p] = Assemble(src, k)[m]
  BY <1>1
<1>3. CASE src[k].kind # "function"
  <2>1. b[p].kind \in {"data", "section_rodata", "type_object", "label",
                       "string", "table"}
    BY <1>2, <1>3, DataShape DEF Size
  <2>2. QED
    BY <2>1
<1>4. CASE src[k].kind = "function"
  <2>1. k \in FunctionsOf(src)
    BY <1>4 DEF FunctionsOf
  <2>2. m \in 1..Len(Before(src, k)) /\ b[p] = Before(src, k)[m] =>
          b[p].kind \in {"text", "section_rodata", "align", "label", "string"}
    BY PreambleShape
  <2>3. \/ m \in 1..Len(Before(src, k)) /\ b[p] = Before(src, k)[m]
        \/ p = TypeAt(src, k) /\ b[p].kind = "type_function"
        \/ b[p].kind = "label"
        \/ p = TypeAt(src, k) + Len(src[k].uses) + 4 /\ b[p].kind = "cfi_endproc"
        \/ b[p].kind \in {"cfi", "code", "size"}
    BY <1>2, <2>1, FunctionKinds
  <2>4. QED
    BY <2>1, <2>2, <2>3
<1>5. QED
  BY <1>3, <1>4

\* The label of an item.
Place(src, k) == IF src[k].kind = "function" THEN TypeAt(src, k) + 1
                 ELSE Start(src, k) + Size(src, k) - 1

\* A label is that of an item, or of a string before the function that uses it
\* first.
LEMMA LabelPlace ==
  ASSUME NEW src \in Sources, NEW p \in 1..Len(Assembly(src)),
         Assembly(src)[p].kind = "label"
  PROVE  LET b == Assembly(src) IN
         \/ \E k \in DOMAIN src : p = Place(src, k) /\ b[p].symbol = k
         \/ \E k \in FunctionsOf(src) :
              \E m \in 1..Len(Before(src, k)), n \in FirstUses(src, k) :
                /\ p = Start(src, k) + m /\ b[p] = Before(src, k)[m]
                /\ b[p].symbol = src[k].uses[n]
<1> DEFINE b == Assembly(src)
<1>1. PICK k \in DOMAIN src : \E m \in 1..Size(src, k) :
             p = Start(src, k) + m /\ b[p] = Assemble(src, k)[m]
  BY LineOfItem
<1>2. PICK m \in 1..Size(src, k) : p = Start(src, k) + m /\ b[p] = Assemble(src, k)[m]
  BY <1>1
<1>3. CASE src[k].kind # "function"
  <2>1. /\ m = Size(src, k) - 1
        /\ Assemble(src, k)[Size(src, k) - 1].symbol = k
    BY <1>2, <1>3, DataShape DEF Size
  <2>2. Start(src, k) \in Nat /\ Size(src, k) \in Nat
    BY Layout
  <2>3. p = Start(src, k) + Size(src, k) - 1 /\ b[p].symbol = k
    BY <1>2, <2>1, <2>2
  <2>4. QED
    BY <1>3, <2>3 DEF Place
<1>4. CASE src[k].kind = "function"
  <2>1. k \in FunctionsOf(src)
    BY <1>4 DEF FunctionsOf
  <2>2. \/ m \in 1..Len(Before(src, k)) /\ b[p] = Before(src, k)[m]
        \/ p = TypeAt(src, k) + 1 /\ b[p].symbol = k
        \/ b[p].kind \in {"type_function", "cfi_endproc", "cfi", "code", "size"}
    BY <1>2, <2>1, FunctionKinds
  <2>3. CASE m \in 1..Len(Before(src, k)) /\ b[p] = Before(src, k)[m]
    <3>1. \E n \in FirstUses(src, k) : b[p].symbol = src[k].uses[n]
      BY <2>3, PreambleShape
    <3>2. QED
      BY <1>2, <2>1, <2>3, <3>1
  <2>4. CASE p = TypeAt(src, k) + 1 /\ b[p].symbol = k
    BY <1>4, <2>4 DEF Place
  <2>5. QED
    BY <2>2, <2>3, <2>4
<1>5. QED
  BY <1>3, <1>4

\* A string of an earlier function has been used before.
LEMMA UsedEarlier ==
  ASSUME NEW src \in Sources, NEW j \in FunctionsOf(src), NEW k \in FunctionsOf(src),
         j < k, NEW n \in DOMAIN src[j].uses
  PROVE  src[j].uses[n] \in UsedBefore(src, k)
<1>1. j \in 1..(k - 1) /\ src[j].kind = "function"
  BY SourceShape DEF FunctionsOf
<1>2. src[j].uses[n] \in ToSet(src[j].uses)
  BY DEF ToSet
<1>3. QED
  BY <1>1, <1>2 DEF UsedBefore

\* No symbol has two labels.
LEMMA LabelsApart ==
  ASSUME NEW src \in Sources,
         NEW p \in 1..Len(Assembly(src)), NEW q \in 1..Len(Assembly(src)),
         Assembly(src)[p].kind = "label", Assembly(src)[q].kind = "label",
         Assembly(src)[p].symbol = Assembly(src)[q].symbol
  PROVE  p = q
<1> DEFINE b == Assembly(src)
           OfItem(r) == \E k \in DOMAIN src : r = Place(src, k) /\ b[r].symbol = k
           Text(r, k, m, n) == /\ r = Start(src, k) + m /\ b[r] = Before(src, k)[m]
                               /\ b[r].symbol = src[k].uses[n]
           Constant(r) == \E k \in FunctionsOf(src) :
              \E m \in 1..Len(Before(src, k)), n \in FirstUses(src, k) : Text(r, k, m, n)
<1>1. OfItem(p) \/ Constant(p)
  BY LabelPlace
<1>2. OfItem(q) \/ Constant(q)
  BY LabelPlace
<1>3. /\ \A k \in FunctionsOf(src) : \A n \in FirstUses(src, k) : src[k].uses[n] \in Strings
      /\ \A k \in FunctionsOf(src) : k \in DOMAIN src
      /\ \A k \in DOMAIN src : k \in Nat
  BY SourceShape DEF FunctionsOf, FirstUses
<1>4. Strings \cap Nat = {}
  BY NumbersAssumption
<1>5. OfItem(p) => b[p].symbol \in Nat
  BY <1>3
<1>6. OfItem(q) => b[q].symbol \in Nat
  BY <1>3
<1>7. Constant(p) => b[p].symbol \in Strings
  BY <1>3
<1>8. Constant(q) => b[q].symbol \in Strings
  BY <1>3
<1>9. CASE OfItem(p) /\ OfItem(q)
  BY <1>9
<1>10. CASE Constant(p) /\ Constant(q)
  <2>1. PICK k \in FunctionsOf(src) :
           \E m \in 1..Len(Before(src, k)), n \in FirstUses(src, k) : Text(p, k, m, n)
    BY <1>10
  <2>2. PICK m \in 1..Len(Before(src, k)), n \in FirstUses(src, k) : Text(p, k, m, n)
    BY <2>1
  <2>3. PICK j \in FunctionsOf(src) :
           \E m1 \in 1..Len(Before(src, j)), n1 \in FirstUses(src, j) : Text(q, j, m1, n1)
    BY <1>10
  <2>4. PICK m1 \in 1..Len(Before(src, j)), n1 \in FirstUses(src, j) : Text(q, j, m1, n1)
    BY <2>3
  <2>5. ~(j < k)
    <3>1. ASSUME j < k PROVE src[j].uses[n1] \in UsedBefore(src, k)
      <4>1. n1 \in DOMAIN src[j].uses
        BY DEF FirstUses
      <4>2. QED
        BY <3>1, <4>1, UsedEarlier
    <3>2. src[k].uses[n] \notin UsedBefore(src, k)
      BY DEF FirstUses
    <3>3. QED
      BY <2>2, <2>4, <3>1, <3>2
  <2>6. ~(k < j)
    <3>1. ASSUME k < j PROVE src[k].uses[n] \in UsedBefore(src, j)
      <4>1. n \in DOMAIN src[k].uses
        BY DEF FirstUses
      <4>2. QED
        BY <3>1, <4>1, UsedEarlier
    <3>2. src[j].uses[n1] \notin UsedBefore(src, j)
      BY DEF FirstUses
    <3>3. QED
      BY <2>2, <2>4, <3>1, <3>2
  <2>7. j = k
    BY <1>3, <2>5, <2>6
  <2>8. m = m1
    <3>1. /\ Before(src, k)[m].kind = "label" /\ Before(src, k)[m1].kind = "label"
          /\ Before(src, k)[m].symbol = Before(src, k)[m1].symbol
          /\ m1 \in 1..Len(Before(src, k))
      BY <2>2, <2>4, <2>7
    <3>2. k \in DOMAIN src
      BY <1>3
    <3>3. QED
      BY <3>1, <3>2, PreambleShape
  <2>9. QED
    BY <2>2, <2>4, <2>7, <2>8
<1> HIDE DEF OfItem, Constant, b
<1>11. b[p].symbol = b[q].symbol
  BY DEF b
<1>12. QED
  BY <1>1, <1>2, <1>4, <1>5, <1>6, <1>7, <1>8, <1>9, <1>10, <1>11

\* Before a function whose strings are laid down, .rodata is entered behind any
\* other function.
LEMMA RodataEntered ==
  ASSUME NEW src \in Sources, NEW k \in FunctionsOf(src), FirstUses(src, k) # {}
  PROVE  \E p \in 2..TypeAt(src, k) :
           /\ Assembly(src)[p].kind = "section_rodata" /\ p <= Start(src, k) + 1
           /\ \A q \in p..TypeAt(src, k) : Assembly(src)[q].kind # "cfi_endproc"
<1> DEFINE b == Assembly(src)
           Tables(j) == \A x \in j..(k - 1) : src[x].kind = "table"
           J == {j \in 1..k : Tables(j)}
<1>1. k \in DOMAIN src /\ DOMAIN src = 1..Len(src) /\ Len(src) \in Nat /\ k \in Nat
      /\ k \in 1..Len(src)
  BY SourceShape DEF FunctionsOf
<1>2. PICK j \in J : \A x \in J : j <= x
  <2>1. k \in J
    BY <1>1
  <2>2. J \subseteq Nat
    BY <1>1
  <2> HIDE DEF J
  <2>3. QED
    BY <2>1, <2>2, LeastNumber
<1>3. j \in 1..k /\ Tables(j)
  OBVIOUS
<1>4. j = 1 \/ src[j - 1].kind # "table"
  <2> SUFFICES ASSUME j # 1, src[j - 1].kind = "table"
               PROVE  FALSE
    OBVIOUS
  <2>1. j - 1 \in 1..k /\ ~(j <= j - 1)
    BY <1>1, <1>3
  <2>2. \A x \in (j - 1)..(k - 1) : x = j - 1 \/ x \in j..(k - 1)
    BY <1>1, <1>3
  <2>3. Tables(j - 1)
    BY <1>3, <2>2
  <2>4. QED
    BY <1>2, <2>1, <2>3
<1>5. j \in DOMAIN src /\ j \in Nat
  BY <1>1, <1>3
<1>6. Current(src, j) # "section_rodata"
  <2>1. CASE j = 1
    BY <2>1 DEF Current
  <2>2. CASE j # 1
    <3>1. j - 1 \in DOMAIN src
      BY <1>1, <1>3, <2>2
    <3>2. src[j - 1].kind \in {"function", "array"}
      BY <1>4, <2>2, <3>1, SourceShape
    <3>3. SectionOf(src[j - 1]) \in {"text", "data"}
      BY <3>2 DEF SectionOf
    <3>4. QED
      BY <2>2, <3>3 DEF Current
  <2>3. QED
    BY <2>1, <2>2
<1> DEFINE p == Start(src, j) + 1
<1>7. Start(src, j) \in Nat /\ Start(src, j) >= 1 /\ Start(src, k) \in Nat
  BY <1>1, <1>5, Layout
<1>8. /\ TypeAt(src, k) \in Nat /\ Start(src, k) < TypeAt(src, k)
      /\ Len(src[k].uses) \in Nat
      /\ TypeAt(src, k) + Len(src[k].uses) + 5 <= Len(b) /\ Len(b) \in Nat
  BY FunctionLines, Layout
<1>9. b[p].kind = "section_rodata" /\ p <= Start(src, k) + 1
  <2>1. CASE j = k
    <3>1. Len(Before(src, k)) > 1 /\ Before(src, k)[1].kind = "section_rodata"
      BY <1>1, <1>6, <2>1, PreambleShape
    <3>2. Len(Before(src, k)) \in Nat
      BY <1>1, PreambleShape
    <3>3. b[Start(src, k) + 1] = Before(src, k)[1]
      BY <3>1, <3>2, FunctionLines
    <3>4. QED
      BY <1>7, <2>1, <3>1, <3>3
  <2>2. CASE j < k
    <3>1. src[j].kind = "table"
      BY <1>1, <1>3, <2>2
    <3>2. Assemble(src, j)[1].kind = "section_rodata" /\ Size(src, j) >= 3
      BY <1>5, <1>6, <3>1, DataShape DEF Size
    <3>3. Size(src, j) \in Nat
      BY <1>5, Layout
    <3>4. b[Start(src, j) + 1] = Assemble(src, j)[1]
      <4>1. 1 \in 1..Size(src, j)
        BY <3>2, <3>3
      <4>2. QED
        BY <1>5, <4>1, Layout
    <3>5. Start(src, j) + Size(src, j) <= Start(src, k)
      BY <1>1, <1>5, <2>2, Layout
    <3>6. QED
      BY <1>7, <3>2, <3>3, <3>4, <3>5
  <2>3. QED
    BY <1>1, <1>3, <2>1, <2>2
<1>10. p \in Nat /\ p >= 2 /\ Start(src, j) < p
  BY <1>7
<1>11. p \in 2..TypeAt(src, k)
  BY <1>7, <1>8, <1>9, <1>10
<1> HIDE DEF p, J
<1>12. ASSUME NEW q \in p..TypeAt(src, k), b[q].kind = "cfi_endproc"
       PROVE  FALSE
  <2>1. q \in Nat /\ p <= q /\ q <= TypeAt(src, k) /\ Start(src, j) < q /\ 1 <= q
    BY <1>7, <1>8, <1>10
  <2>2. q <= Len(b)
    <3> HIDE DEF b
    <3>1. QED
      BY <1>8, <2>1
  <2>3. q \in 1..Len(b)
    <3> HIDE DEF b
    <3>1. QED
      BY <1>8, <2>1, <2>2
  <2>4. PICK f \in FunctionsOf(src) : q = TypeAt(src, f) + Len(src[f].uses) + 4
    BY <1>12, <2>3, LineBelongs
  <2>5. f \in DOMAIN src /\ src[f].kind = "function" /\ f \in Nat
    BY SourceShape DEF FunctionsOf
  <2>6. /\ TypeAt(src, f) \in Nat /\ Len(src[f].uses) \in Nat
        /\ TypeAt(src, f) + Len(src[f].uses) + 5 = Start(src, f) + Size(src, f)
        /\ Start(src, f) < TypeAt(src, f) /\ Start(src, f) \in Nat
    BY <2>5, FunctionLines, Layout
  <2>7. q + 1 = Start(src, f) + Size(src, f) /\ TypeAt(src, f) < q
    BY <2>1, <2>4, <2>6
  <2>8. ~(f < j)
    <3> SUFFICES ASSUME f < j PROVE FALSE
      OBVIOUS
    <3>1. Start(src, f) + Size(src, f) <= Start(src, j)
      BY <1>5, <2>5, Layout
    <3>2. q + 1 <= Start(src, j)
      BY <2>7, <3>1
    <3>3. QED
      BY <1>7, <2>1, <3>2
  <2>9. f \notin j..(k - 1)
    BY <1>3, <2>5
  <2>10. f = k \/ k < f
    BY <1>1, <1>3, <2>5, <2>8, <2>9
  <2>11. f # k
    BY <1>8, <2>1, <2>7
  <2>12. ~(k < f)
    <3> SUFFICES ASSUME k < f PROVE FALSE
      OBVIOUS
    <3>1. TypeAt(src, k) + Len(src[k].uses) + 5 <= Start(src, f)
      BY FunctionOrder
    <3>2. TypeAt(src, k) \in Nat /\ Len(src[k].uses) \in Nat
      BY <1>8
    <3>3. TypeAt(src, k) < Start(src, f)
      BY <2>6, <3>1, <3>2
    <3>4. QED
      BY <2>1, <2>6, <2>7, <3>2, <3>3
  <2>13. QED
    BY <2>10, <2>11, <2>12
<1>13. QED
  BY <1>9, <1>11, <1>12

-------------------------------------------------------------------------------
(***************************************************************************)
(* The scan of the assembly: what has been cut out of it where it stands.  *)
(***************************************************************************)
FileType == [number : Nat, name : Nat, code : Seq(LineType), rodata : Seq(LineType)]

Parsing == {"search", "data", "code"}
Parsed  == {"globals", "insert", "shift", "done"}

VariablesOK ==
  /\ source \in Sources /\ assembly = Assembly(source)
  /\ pc \in Parsing \cup Parsed
  /\ i \in 1..(Len(assembly) + 1) /\ func_index \in 0..Len(assembly)
  /\ found_rodata \in BOOLEAN /\ total_rodata_len \in Nat
  /\ func_rodata \in Seq(LineType) /\ ToSet(func_rodata) \subseteq ToSet(assembly)
  /\ func_code \in Seq(LineType) /\ ToSet(func_code) \subseteq ToSet(assembly)
  /\ files \in Seq(FileType)
  /\ \A n \in DOMAIN files : files[n].number = n - 1

Names      == {files[n].name : n \in DOMAIN files}
Earlier(p) == {k \in Functions : TypeAt(source, k) < p}

\* The function that is being cut out: the label behind its .type directive.
Found == assembly[func_index + 1].symbol

RightFile(n) ==
  LET k == files[n].name
      u == source[k].uses
  IN  /\ k \in Functions
      /\ \A j \in Functions : j < k <=> \E m \in 1..(n - 1) : files[m].name = j
      /\ files[n].code = [m \in 1..(Len(u) + 1) |->
           Line("code", IF m <= Len(u) THEN u[m] ELSE None)]

\* The patch files are the functions before the place of the outer loop; while
\* one is being cut out, they are those before it, and the lines that were taken
\* are those from its third to the place of the inner loop.
ScanInv ==
  /\ pc = "search" => Names = Earlier(i)
  /\ pc \in {"data", "code"} =>
       /\ Found \in Functions /\ func_index = TypeAt(source, Found)
       /\ Names = Earlier(func_index)
  /\ pc = "data" => i <= func_index /\ func_code = <<>>
  /\ pc = "code" =>
       /\ i \in (func_index + 2)..(func_index + Len(source[Found].uses) + 4)
       /\ Len(func_code) = IF i = func_index + 2 THEN 0 ELSE i - func_index - 3
       /\ \A m \in 1..Len(func_code) : func_code[m] = assembly[func_index + 2 + m]
  /\ pc \in Parsed => Names = Functions
  /\ \A n \in DOMAIN files : RightFile(n)

CutInv == VariablesOK /\ ScanInv

\* Functions, under its other name.
LEMMA FunctionsSame == Functions = FunctionsOf(source)
BY DEF Functions, FunctionsOf

\* What is known of the assembly wherever the program is.
LEMMA Scanned ==
  ASSUME VariablesOK
  PROVE  /\ assembly \in Seq(LineType) /\ Len(assembly) \in Nat /\ Len(assembly) >= 1
         /\ DOMAIN assembly = 1..Len(assembly)
         /\ \A p \in 1..Len(assembly) :
              assembly[p] \in LineType /\ assembly[p] \in ToSet(assembly)
         /\ i \in Nat /\ func_index \in Nat
         /\ \A k \in Functions : k \in Nat /\ k \in DOMAIN source
<1>1. assembly \in Seq(LineType) /\ Len(assembly) \in Nat /\ Len(assembly) >= 1
  BY Layout DEF VariablesOK
<1>2. /\ DOMAIN assembly = 1..Len(assembly)
      /\ \A p \in 1..Len(assembly) : assembly[p] \in LineType
  BY <1>1, LenProperties, ElementOfSeq
<1>3. \A p \in 1..Len(assembly) : assembly[p] \in ToSet(assembly)
  BY <1>2 DEF ToSet
<1>4. i \in Nat /\ func_index \in Nat
  BY <1>1 DEF VariablesOK
<1>5. \A k \in Functions : k \in Nat /\ k \in DOMAIN source
  BY SourceShape DEF VariablesOK, Functions
<1>6. QED
  BY <1>1, <1>2, <1>3, <1>4, <1>5

\* The invariant holds before the first line is read.
LEMMA CutInit ==
  ASSUME Init
  PROVE  CutInv
<1>1. source \in Sources /\ assembly = Assembly(source)
  BY DEF Init
<1>2. assembly \in Seq(LineType) /\ Len(assembly) \in Nat /\ Len(assembly) >= 1
  BY <1>1, Layout
<1>3. VariablesOK
  <2>1. i \in 1..(Len(assembly) + 1) /\ func_index \in 0..Len(assembly)
    BY <1>2 DEF Init
  <2>2. /\ files = <<>> /\ func_code = <<>> /\ func_rodata = <<>>
        /\ files \in Seq(FileType) /\ func_code \in Seq(LineType)
        /\ func_rodata \in Seq(LineType)
    BY DEF Init
  <2>3. ToSet(func_code) = {} /\ ToSet(func_rodata) = {}
    BY <2>2 DEF ToSet
  <2>4. \A n \in DOMAIN files : files[n].number = n - 1
    BY <2>2
  <2>5. QED
    BY <1>1, <2>1, <2>2, <2>3, <2>4 DEF Init, VariablesOK, Parsing
<1>4. ScanInv
  <2>1. Names = {}
    BY DEF Init, Names
  <2>2. Earlier(i) = {}
    <3> SUFFICES ASSUME NEW k \in Functions, TypeAt(source, k) < i
                 PROVE  FALSE
      BY DEF Earlier
    <3>1. TypeAt(source, k) \in Nat /\ Start(source, k) < TypeAt(source, k)
      BY <1>1, FunctionsSame, FunctionLines
    <3>2. Start(source, k) >= 1 /\ Start(source, k) \in Nat
      BY <1>1, Layout DEF Functions
    <3>3. i = 1
      BY DEF Init
    <3>4. QED
      BY <3>1, <3>2, <3>3
  <2>3. pc = "search" /\ files = <<>>
    BY DEF Init
  <2>4. QED
    BY <2>1, <2>2, <2>3 DEF ScanInv, Parsed
<1>5. QED
  BY <1>3, <1>4 DEF CutInv


\* A string is counted with a number.
LEMMA CountShape ==
  ASSUME NEW s \in Strings
  PROVE  Count(s) \in Nat /\ Bytes(s) \in Nat /\ (Escapes[s] = 0 => Count(s) = Bytes(s))
<1>1. /\ Plain[s] \in Nat /\ Newlines[s] \in Nat /\ Escapes[s] \in Nat /\ Width \in Nat
  BY NumbersAssumption
<1>2. Width * Escapes[s] \in Nat /\ (Escapes[s] = 0 => Width * Escapes[s] = 0)
  BY <1>1
<1>3. QED
  BY <1>1, <1>2 DEF Count, Bytes

\* Search keeps the invariant.
LEMMA CutSearch ==
  ASSUME CutInv, Search
  PROVE  CutInv'
<1>1. VariablesOK /\ ScanInv /\ pc = "search" /\ i <= Len(assembly)
  BY DEF CutInv, Search
<1>2. /\ assembly \in Seq(LineType) /\ Len(assembly) \in Nat
      /\ i \in 1..Len(assembly) /\ i \in Nat
  BY <1>1, Scanned DEF VariablesOK
<1>3. UNCHANGED <<source, assembly, total_rodata_len, files>>
  BY DEF Search
<1>4. Functions' = Functions /\ Names' = Names /\ \A n : RightFile(n)' = RightFile(n)
  BY <1>3 DEF Functions, Names, RightFile
<1>5. CASE Here.kind = "type_function"
  <2>1. /\ pc' = "data" /\ func_index' = i /\ i' = i
        /\ func_rodata' = <<>> /\ found_rodata' = FALSE /\ func_code' = <<>>
    BY <1>5 DEF Search
  <2>2. PICK k \in Functions : i = TypeAt(source, k)
    BY <1>1, <1>2, <1>5, LineBelongs, FunctionsSame DEF VariablesOK, Here
  <2>3. assembly[i + 1] = Line("label", k)
    BY <1>1, <2>2, FunctionLines, FunctionsSame DEF VariablesOK
  <2>4. Found' = k
    BY <1>3, <2>1, <2>3 DEF Found, Line
  <2>5. Names' = Earlier(i)'
    BY <1>1, <1>3, <1>4, <2>1 DEF ScanInv, Earlier
  <2>6. ScanInv'
    <3>1. Found' \in Functions' /\ func_index' = TypeAt(source, Found)'
          /\ Names' = Earlier(func_index)'
      BY <1>3, <1>4, <2>1, <2>2, <2>4, <2>5 DEF Earlier
    <3>2. i' <= func_index' /\ func_code' = <<>>
      BY <1>2, <2>1
    <3>3. \A n \in DOMAIN files' : RightFile(n)'
      BY <1>1, <1>3, <1>4 DEF ScanInv
    <3>4. QED
      BY <2>1, <3>1, <3>2, <3>3 DEF ScanInv, Parsed
  <2>7. VariablesOK'
    <3>1. /\ func_rodata' \in Seq(LineType) /\ ToSet(func_rodata)' = {}
          /\ func_code' \in Seq(LineType) /\ ToSet(func_code)' = {}
      BY <2>1 DEF ToSet
    <3>2. func_index' \in 0..Len(assembly')
      BY <1>2, <1>3, <2>1
    <3>3. QED
      BY <1>1, <1>3, <2>1, <3>1, <3>2 DEF VariablesOK, Parsing
  <2>8. QED
    BY <2>6, <2>7 DEF CutInv
<1>6. CASE Here.kind # "type_function"
  <2>1. i' = i + 1 /\ UNCHANGED <<pc, func_index, func_rodata, found_rodata, func_code>>
    BY <1>6 DEF Search, scan
  <2>2. Earlier(i)' = Earlier(i)
    <3>1. ASSUME NEW k \in Functions
          PROVE  TypeAt(source, k) < i + 1 <=> TypeAt(source, k) < i
      <4>1. TypeAt(source, k) \in Nat /\ assembly[TypeAt(source, k)].kind = "type_function"
        <5>1. /\ TypeAt(source, k) \in Nat
              /\ assembly[TypeAt(source, k)] = Line("type_function", k)
          BY <1>1, FunctionLines, FunctionsSame DEF VariablesOK
        <5>2. QED
          BY <5>1 DEF Line
      <4>2. TypeAt(source, k) # i
        BY <1>6, <4>1 DEF Here
      <4>3. QED
        BY <1>2, <4>1, <4>2
    <3>2. QED
      BY <1>3, <1>4, <2>1, <3>1 DEF Earlier
  <2>3. ScanInv'
    <3>1. pc' = "search" /\ Names' = Earlier(i)'
      BY <1>1, <1>4, <2>1, <2>2 DEF ScanInv
    <3>2. \A n \in DOMAIN files' : RightFile(n)'
      BY <1>1, <1>3, <1>4 DEF ScanInv
    <3>3. QED
      BY <3>1, <3>2 DEF ScanInv, Parsed
  <2>4. VariablesOK'
    <3>1. i' \in 1..(Len(assembly') + 1)
      BY <1>2, <1>3, <2>1
    <3>2. QED
      BY <1>1, <1>3, <2>1, <3>1 DEF VariablesOK
  <2>5. QED
    BY <2>3, <2>4 DEF CutInv
<1>7. QED
  BY <1>5, <1>6

\* A line before a sequence.
LEMMA Prepended ==
  ASSUME NEW S, NEW s \in Seq(S), NEW e \in S, NEW t, t = <<e>>, NEW u, u = t \o s
  PROVE  /\ u \in Seq(S) /\ Len(u) = Len(s) + 1 /\ u[1] = e /\ Len(s) \in Nat
         /\ \A m \in 1..Len(s) : u[m + 1] = s[m]
<1>1. t \in Seq(S) /\ Len(t) = 1 /\ t[1] = e /\ u = t \o s
  OBVIOUS
<1>2. /\ u \in Seq(S) /\ Len(u) = Len(t) + Len(s) /\ Len(s) \in Nat
      /\ \A n \in 1..Len(t) : u[n] = t[n]
      /\ \A m \in 1..Len(s) : u[Len(t) + m] = s[m]
  <2>1. t \in Seq(S) /\ s \in Seq(S) /\ u = t \o s
    BY <1>1
  <2>2. QED
    BY <2>1, JoinedSeq
<1>3. QED
  BY <1>1, <1>2

\* A sequence has its members at its places.
LEMMA MembersAt ==
  ASSUME NEW S, NEW s \in Seq(S), NEW T
  PROVE  ToSet(s) \subseteq T <=> \A m \in 1..Len(s) : s[m] \in T
<1>1. DOMAIN s = 1..Len(s)
  BY LenProperties
<1>2. QED
  BY <1>1 DEF ToSet

\* CollectData keeps the invariant.
LEMMA CutCollectData ==
  ASSUME CutInv, CollectData
  PROVE  CutInv'
<1> DEFINE looks == i > 1
           kept  == IF looks /\ Here.kind \notin LeftOut THEN <<Here>> \o func_rodata
                    ELSE func_rodata
           found == looks /\ Here.kind = "section_rodata"
           stop  == ~looks \/ Stops(Here)
<1>1. VariablesOK /\ ScanInv /\ pc = "data"
  BY DEF CutInv, CollectData
<1>2. /\ UNCHANGED <<source, assembly, func_index, func_code, files>>
      /\ total_rodata_len' = total_rodata_len
           + IF looks /\ Here.kind = "string" THEN Count(Here.symbol) ELSE 0
      /\ found_rodata' = found
  BY DEF CollectData
<1>3. \/ /\ func_rodata' = IF found THEN kept ELSE <<>>
         /\ i' = func_index + 2 /\ pc' = "code"
      \/ /\ ~stop /\ func_rodata' = kept /\ i' = i - 1 /\ pc' = "data"
  BY <1>1 DEF CollectData, ResumeAt
<1>4. /\ assembly \in Seq(LineType) /\ Len(assembly) \in Nat
      /\ i \in 1..func_index /\ func_index \in Nat /\ func_index \in 1..Len(assembly)
      /\ func_code = <<>>
  BY <1>1, Scanned DEF VariablesOK, ScanInv
<1>5. Here \in LineType /\ Here \in ToSet(assembly)
  BY <1>1, <1>4, Scanned DEF Here
<1>6. found_rodata' \in BOOLEAN
  BY <1>2
<1>7. kept \in Seq(LineType) /\ ToSet(kept) \subseteq ToSet(assembly)
  <2>1. func_rodata \in Seq(LineType) /\ ToSet(func_rodata) \subseteq ToSet(assembly)
    BY <1>1 DEF VariablesOK
  <2> DEFINE h == Here
             t == <<h>>
             u == t \o func_rodata
  <2>2. kept = u \/ kept = func_rodata
    OBVIOUS
  <2>3. t = <<h>> /\ u = t \o func_rodata /\ h \in LineType /\ h \in ToSet(assembly)
    BY <1>5
  <2> HIDE DEF h, t, u, kept
  <2>4. /\ u \in Seq(LineType) /\ Len(u) = Len(func_rodata) + 1 /\ u[1] = h
        /\ Len(func_rodata) \in Nat
        /\ \A m \in 1..Len(func_rodata) : u[m + 1] = func_rodata[m]
    <3>1. func_rodata \in Seq(LineType) /\ h \in LineType /\ t = <<h>> /\ u = t \o func_rodata
      BY <2>1, <2>3
    <3>2. QED
      BY <3>1, Prepended
  <2>5. \A m \in 1..Len(func_rodata) : func_rodata[m] \in ToSet(assembly)
    BY <2>1, MembersAt
  <2>6. \A m \in 1..Len(u) : u[m] \in ToSet(assembly)
    <3> TAKE m \in 1..Len(u)
    <3>1. m = 1 \/ (m - 1 \in 1..Len(func_rodata) /\ m = (m - 1) + 1)
      BY <2>4
    <3>2. QED
      BY <2>3, <2>4, <2>5, <3>1
  <2>7. ToSet(u) \subseteq ToSet(assembly)
    BY <2>4, <2>6, MembersAt
  <2>8. QED
    BY <2>1, <2>2, <2>4, <2>7
<1>8. total_rodata_len' \in Nat
  <2>1. Here.kind = "string" => Here.symbol \in Strings
    BY <1>5 DEF LineType
  <2>2. Here.kind = "string" => Count(Here.symbol) \in Nat
    BY <2>1, CountShape
  <2>3. total_rodata_len \in Nat
    BY <1>1 DEF VariablesOK
  <2>4. QED
    BY <1>2, <2>2, <2>3
<1> HIDE DEF kept, found, stop, looks
<1>9. Functions' = Functions /\ Names' = Names /\ (\A n : RightFile(n)' = RightFile(n))
      /\ Found' = Found /\ Earlier(func_index)' = Earlier(func_index)
  BY <1>2 DEF Functions, Names, RightFile, Found, Earlier
<1>10. /\ Found \in Functions /\ func_index = TypeAt(source, Found)
       /\ Names = Earlier(func_index) /\ \A n \in DOMAIN files : RightFile(n)
  BY <1>1 DEF ScanInv
<1>11. /\ Found' \in Functions' /\ func_index' = TypeAt(source', Found')
       /\ Names' = Earlier(func_index)' /\ \A n \in DOMAIN files' : RightFile(n)'
  BY <1>2, <1>9, <1>10
<1>12. CASE /\ func_rodata' = IF found THEN kept ELSE <<>>
            /\ i' = func_index + 2 /\ pc' = "code"
  <2> DEFINE u == Len(source[Found].uses)
  <2>1. u \in Nat /\ func_index + u + 5 <= Len(assembly)
    BY <1>1, <1>10, FunctionLines, FunctionsSame DEF VariablesOK
  <2>2. i' \in (func_index + 2)..(func_index + u + 4) /\ i' \in 1..(Len(assembly) + 1)
    BY <1>4, <1>12, <2>1
  <2>3. func_rodata' \in Seq(LineType) /\ ToSet(func_rodata') \subseteq ToSet(assembly)
    <3>1. <<>> \in Seq(LineType) /\ ToSet(<<>>) = {}
      BY DEF ToSet
    <3>2. QED
      BY <1>7, <1>12, <3>1
  <2>4. Len(func_code') = 0
    BY <1>2, <1>4
  <2>5. VariablesOK'
    BY <1>1, <1>2, <1>6, <1>8, <1>12, <2>2, <2>3 DEF VariablesOK, Parsing
  <2>6. ScanInv'
    <3>1. i' = func_index' + 2
      BY <1>2, <1>12
    <3>2. Len(source'[Found'].uses) = u
      BY <1>2, <1>9
    <3>3. i' \in (func_index' + 2)..(func_index' + Len(source'[Found'].uses) + 4)
      BY <1>2, <2>2, <3>2
    <3>4. Len(func_code') = IF i' = func_index' + 2 THEN 0 ELSE i' - func_index' - 3
      BY <2>4, <3>1
    <3>5. \A m \in 1..Len(func_code') : func_code'[m] = assembly'[func_index' + 2 + m]
      BY <2>4
    <3>6. QED
      BY <1>11, <1>12, <3>3, <3>4, <3>5 DEF ScanInv, Parsed
  <2>7. QED
    BY <2>5, <2>6 DEF CutInv
<1>13. CASE ~stop /\ func_rodata' = kept /\ i' = i - 1 /\ pc' = "data"
  <2>1. i > 1
    BY <1>13 DEF stop, looks
  <2>2. i' \in 1..func_index /\ i' \in 1..(Len(assembly) + 1) /\ i' <= func_index
    BY <1>4, <1>13, <2>1
  <2>3. VariablesOK'
    BY <1>1, <1>2, <1>6, <1>7, <1>8, <1>13, <2>2 DEF VariablesOK, Parsing
  <2>4. ScanInv'
    BY <1>2, <1>4, <1>11, <1>13, <2>2 DEF ScanInv, Parsed
  <2>5. QED
    BY <2>3, <2>4 DEF CutInv
<1>14. QED
  BY <1>3, <1>12, <1>13


\* One more element.
LEMMA AppendShape ==
  ASSUME NEW S, NEW s \in Seq(S), NEW e \in S, NEW u, u = Append(s, e)
  PROVE  /\ u \in Seq(S) /\ Len(s) \in Nat /\ Len(u) = Len(s) + 1
         /\ \A m \in 1..Len(s) : u[m] = s[m]
         /\ u[Len(s) + 1] = e
BY AppendProperties, LenProperties

\* The place of the inner loop over a function, and what is there.
LEMMA CodeLines ==
  ASSUME CutInv, pc = "code"
  PROVE  LET u == Len(source[Found].uses)
             t == func_index
         IN  /\ u \in Nat /\ t \in Nat /\ i \in Nat /\ Len(assembly) \in Nat
             /\ t + u + 5 <= Len(assembly) /\ t >= 1
             /\ i \in (t + 2)..(t + u + 4)
             /\ Here.kind = "cfi" <=> i = t + 2
             /\ Here.kind = "cfi_endproc" <=> i = t + u + 4
             /\ \A n \in 1..u : assembly[t + 2 + n] = Line("code", source[Found].uses[n])
             /\ assembly[t + u + 3] = Line("code", None)
<1> DEFINE u == Len(source[Found].uses)
           t == func_index
<1>1. /\ VariablesOK /\ Found \in Functions /\ t = TypeAt(source, Found)
      /\ i \in (t + 2)..(t + u + 4)
  BY DEF CutInv, ScanInv
<1>2. /\ t \in Nat /\ u \in Nat /\ Start(source, Found) < t
      /\ t + u + 5 <= Len(assembly)
      /\ assembly[t + 2] = Line("cfi", None)
      /\ \A n \in 1..u : assembly[t + 2 + n] = Line("code", source[Found].uses[n])
      /\ assembly[t + u + 3] = Line("code", None)
      /\ assembly[t + u + 4] = Line("cfi_endproc", None)
  BY <1>1, FunctionLines, FunctionsSame DEF VariablesOK
<1>3. i \in Nat /\ Len(assembly) \in Nat
  BY <1>1, Scanned
<1>4. t >= 1
  <2>1. Start(source, Found) >= 1 /\ Start(source, Found) \in Nat
    BY <1>1, Layout DEF VariablesOK, Functions
  <2>2. QED
    BY <1>2, <2>1
<1> HIDE DEF t, u
<1>5. i = t + 2 \/ i - (t + 2) \in 1..u \/ i = t + u + 3 \/ i = t + u + 4
  <2>1. i \in Nat /\ t \in Nat /\ u \in Nat /\ i >= t + 2 /\ i <= t + u + 4
    BY <1>1, <1>2, <1>3
  <2>2. QED
    BY <2>1
<1>6. /\ i = t + 2 => Here.kind = "cfi"
      /\ i = t + u + 3 => Here.kind = "code"
      /\ i = t + u + 4 => Here.kind = "cfi_endproc"
  BY <1>2 DEF Here, Line
<1>7. i - (t + 2) \in 1..u => Here.kind = "code"
  <2> HAVE i - (t + 2) \in 1..u
  <2>1. i = t + 2 + (i - (t + 2))
    BY <1>2, <1>3
  <2>2. Here = Line("code", source[Found].uses[i - (t + 2)])
    BY <1>2, <2>1 DEF Here
  <2>3. QED
    BY <2>2 DEF Line
<1>8. t + 2 # t + u + 4 /\ t + 2 # t + u + 3 /\ t + u + 3 # t + u + 4
  BY <1>2
<1>9. i - (t + 2) \in 1..u => i # t + 2 /\ i # t + u + 4
  BY <1>2, <1>3
<1>10. Here.kind = "cfi" <=> i = t + 2
  BY <1>5, <1>6, <1>7, <1>8
<1>11. Here.kind = "cfi_endproc" <=> i = t + u + 4
  BY <1>5, <1>6, <1>7, <1>8
<1>12. QED
  BY <1>1, <1>2, <1>3, <1>4, <1>10, <1>11 DEF t, u

\* CollectCode keeps the invariant, inside a function.
LEMMA CutCollectLine ==
  ASSUME CutInv, CollectCode, Here.kind # "cfi_endproc"
  PROVE  CutInv'
<1> DEFINE u == Len(source[Found].uses)
           t == func_index
<1>1. /\ VariablesOK /\ ScanInv /\ pc = "code" /\ pc' = "code" /\ i' = i + 1
      /\ func_code' = IF Here.kind = "cfi" THEN func_code ELSE Append(func_code, Here)
      /\ UNCHANGED <<source, assembly, func_index, func_rodata, found_rodata,
                     total_rodata_len, files>>
  BY DEF CutInv, CollectCode
<1>2. /\ u \in Nat /\ t \in Nat /\ i \in Nat /\ Len(assembly) \in Nat
      /\ t + u + 5 <= Len(assembly) /\ t >= 1
      /\ i \in (t + 2)..(t + u + 4)
      /\ Here.kind = "cfi" <=> i = t + 2
      /\ i # t + u + 4
  BY <1>1, CodeLines
<1>3. /\ func_code \in Seq(LineType) /\ ToSet(func_code) \subseteq ToSet(assembly)
      /\ Len(func_code) = IF i = t + 2 THEN 0 ELSE i - t - 3
      /\ \A m \in 1..Len(func_code) : func_code[m] = assembly[t + 2 + m]
  BY <1>1 DEF VariablesOK, ScanInv
<1>4. i \in 1..Len(assembly) /\ Here = assembly[i]
  BY <1>2 DEF Here
<1>5. Here \in LineType /\ Here \in ToSet(assembly)
  BY <1>1, <1>4, Scanned
<1> HIDE DEF u, t
<1>6. /\ func_code' \in Seq(LineType) /\ ToSet(func_code') \subseteq ToSet(assembly)
      /\ Len(func_code') = IF i + 1 = t + 2 THEN 0 ELSE (i + 1) - t - 3
      /\ \A m \in 1..Len(func_code') : func_code'[m] = assembly[t + 2 + m]
  <2>1. CASE i = t + 2
    <3>1. func_code' = func_code /\ Len(func_code) = 0
      BY <1>1, <1>2, <1>3, <2>1
    <3>2. i + 1 # t + 2 /\ (i + 1) - t - 3 = 0
      BY <1>2, <2>1
    <3>3. QED
      BY <1>3, <3>1, <3>2
  <2>2. CASE i # t + 2
    <3> DEFINE h == Here
               c == func_code'
               l == Len(func_code)
    <3>1. c = Append(func_code, h) /\ h = assembly[i]
      BY <1>1, <1>2, <1>4, <2>2
    <3>2. func_code \in Seq(LineType) /\ h \in LineType
      BY <1>3, <1>5
    <3> HIDE DEF h, c
    <3>3. /\ c \in Seq(LineType) /\ l \in Nat /\ Len(c) = l + 1
          /\ \A m \in 1..l : c[m] = func_code[m]
          /\ c[l + 1] = h
      <4>1. func_code \in Seq(LineType) /\ h \in LineType /\ c = Append(func_code, h)
        BY <3>1, <3>2
      <4>2. QED
        BY <4>1, AppendShape
    <3>4. l = i - t - 3 /\ t + 2 + (l + 1) = i /\ i + 1 # t + 2
      BY <1>2, <1>3, <2>2
    <3>5. ASSUME NEW m \in 1..Len(c)
          PROVE  c[m] = assembly[t + 2 + m] /\ c[m] \in ToSet(assembly)
      <4>1. m \in 1..l \/ m = l + 1
        BY <3>3
      <4>2. CASE m \in 1..l
        <5>1. c[m] = func_code[m] /\ func_code[m] = assembly[t + 2 + m]
          BY <1>3, <3>3, <4>2
        <5>2. func_code[m] \in ToSet(assembly)
          BY <1>3, <4>2, MembersAt
        <5>3. QED
          BY <5>1, <5>2
      <4>3. CASE m = l + 1
        BY <1>5, <3>1, <3>3, <3>4, <4>3 DEF h
      <4>4. QED
        BY <4>1, <4>2, <4>3
    <3>6. ToSet(c) \subseteq ToSet(assembly)
      BY <3>3, <3>5, MembersAt
    <3>7. Len(c) = (i + 1) - t - 3
      BY <1>2, <3>3, <3>4
    <3>8. QED
      BY <3>3, <3>4, <3>5, <3>6, <3>7 DEF c
  <2>3. QED
    BY <2>1, <2>2
<1>7. i' \in (t + 2)..(t + u + 4) /\ i' \in 1..(Len(assembly) + 1)
  BY <1>1, <1>2
<1>8. /\ Functions' = Functions /\ Names' = Names /\ Found' = Found
      /\ Earlier(func_index)' = Earlier(func_index)
      /\ \A n : RightFile(n)' = RightFile(n)
  BY <1>1 DEF Functions, Names, RightFile, Found, Earlier
<1>9. VariablesOK'
  BY <1>1, <1>6, <1>7 DEF VariablesOK
<1>10. /\ Found' \in Functions' /\ func_index' = TypeAt(source', Found')
       /\ Names' = Earlier(func_index)' /\ \A n \in DOMAIN files' : RightFile(n)'
  BY <1>1, <1>8 DEF ScanInv
<1>11. /\ i' \in (func_index' + 2)..(func_index' + Len(source'[Found'].uses) + 4)
       /\ Len(func_code') = IF i' = func_index' + 2 THEN 0 ELSE i' - func_index' - 3
       /\ \A m \in 1..Len(func_code') : func_code'[m] = assembly'[func_index' + 2 + m]
  BY <1>1, <1>6, <1>7, <1>8 DEF t, u
<1>12. ScanInv'
  BY <1>1, <1>10, <1>11 DEF ScanInv, Parsed
<1>13. QED
  BY <1>9, <1>12 DEF CutInv


\* CollectCode keeps the invariant, at the end of a function.
LEMMA CutWriteFile ==
  ASSUME CutInv, CollectCode, Here.kind = "cfi_endproc"
  PROVE  CutInv'
<1> DEFINE uses == source[Found].uses
           u == Len(uses)
           t == func_index
           f == [number |-> PatchNo, name |-> Found, code |-> func_code,
                 rodata |-> func_rodata]
<1> PICK l : l = Len(files)
  OBVIOUS
<1>1. /\ VariablesOK /\ ScanInv /\ pc = "code" /\ pc' = "search" /\ i' = i + 1
      /\ files' = Append(files, f)
      /\ UNCHANGED <<source, assembly, func_index, func_rodata, found_rodata, func_code,
                     total_rodata_len>>
  BY DEF CutInv, CollectCode, Found
<1>2. /\ u \in Nat /\ t \in Nat /\ i \in Nat /\ Len(assembly) \in Nat
      /\ t + u + 5 <= Len(assembly) /\ t >= 1 /\ i = t + u + 4
      /\ \A n \in 1..u : assembly[t + 2 + n] = Line("code", uses[n])
      /\ assembly[t + u + 3] = Line("code", None)
  BY <1>1, CodeLines
<1>3. /\ func_code \in Seq(LineType)
      /\ Len(func_code) = IF i = t + 2 THEN 0 ELSE i - t - 3
      /\ \A m \in 1..Len(func_code) : func_code[m] = assembly[t + 2 + m]
      /\ Found \in Functions /\ t = TypeAt(source, Found)
      /\ Names = Earlier(t) /\ \A n \in DOMAIN files : RightFile(n)
      /\ files \in Seq(FileType) /\ func_rodata \in Seq(LineType)
  BY <1>1 DEF VariablesOK, ScanInv
<1>4. l \in Nat /\ DOMAIN files = 1..l
  BY <1>3, LenProperties
<1>5. f \in FileType
  BY <1>1, <1>3, <1>4, Scanned DEF FileType, PatchNo
<1>6. func_code = [m \in 1..(u + 1) |-> Line("code", IF m <= u THEN uses[m] ELSE None)]
  <2> HIDE DEF u, t
  <2>1. Len(func_code) = u + 1
    BY <1>2, <1>3
  <2>2. ASSUME NEW m \in 1..(u + 1)
        PROVE  func_code[m] = Line("code", IF m <= u THEN uses[m] ELSE None)
    <3>1. func_code[m] = assembly[t + 2 + m]
      BY <1>3, <2>1
    <3>2. CASE m \in 1..u
      <4>1. m <= u
        BY <1>2, <3>2
      <4>2. assembly[t + 2 + m] = Line("code", uses[m])
        BY <1>2, <3>2
      <4>3. QED
        BY <3>1, <4>1, <4>2
    <3>3. CASE m = u + 1
      <4>1. t + 2 + m = t + u + 3 /\ ~(m <= u)
        BY <1>2, <3>3
      <4>2. QED
        BY <1>2, <3>1, <4>1
    <3>4. m \in 1..u \/ m = u + 1
      BY <1>2
    <3>5. QED
      BY <3>2, <3>3, <3>4
  <2>3. DOMAIN func_code = 1..(u + 1) /\ func_code = [m \in DOMAIN func_code |-> func_code[m]]
    BY <1>3, <2>1, LenProperties
  <2>4. QED
    BY <2>2, <2>3
<1> HIDE DEF uses, u, t, f
<1>7. /\ files' \in Seq(FileType) /\ Len(files') = l + 1
      /\ \A n \in 1..l : files'[n] = files[n]
      /\ files'[l + 1] = f
  <2>1. files \in Seq(FileType) /\ f \in FileType /\ files' = Append(files, f)
    BY <1>1, <1>3, <1>5
  <2>2. QED
    BY <2>1, AppendShape
<1>8. DOMAIN files' = 1..(l + 1)
  BY <1>4, <1>7, LenProperties
<1>9. \A n \in DOMAIN files' : n \in 1..l \/ n = l + 1
  BY <1>4, <1>8
<1>10. f.name = Found /\ f.code = func_code /\ f.number = l
  BY DEF f, PatchNo
<1>11. Functions' = Functions /\ source' = source
  BY <1>1 DEF Functions
<1>12. Names' = Names \cup {Found}
  <2>1. \A n \in 1..l : files'[n].name = files[n].name
    BY <1>7
  <2>2. files'[l + 1].name = Found
    BY <1>7, <1>10
  <2>3. l + 1 \in DOMAIN files' /\ \A n \in 1..l : n \in DOMAIN files'
    BY <1>4, <1>8
  <2>4. QED
    BY <1>4, <1>9, <2>1, <2>2, <2>3 DEF Names
<1>13. \A j \in Functions : /\ j < Found <=> TypeAt(source, j) < t
                            /\ TypeAt(source, j) < t + u + 5 <=> j \in Names \/ j = Found
  <2> TAKE j \in Functions
  <2>1. j \in FunctionsOf(source) /\ Found \in FunctionsOf(source) /\ source \in Sources
    BY <1>1, <1>3, FunctionsSame DEF VariablesOK
  <2>2. j \in Nat /\ Found \in Nat
    BY <1>1, <1>3, Scanned
  <2>3. /\ TypeAt(source, j) \in Nat /\ Len(source[j].uses) \in Nat
        /\ Start(source, j) < TypeAt(source, j) /\ Start(source, Found) < t
    BY <1>3, <2>1, FunctionLines
  <2>4. Start(source, j) \in Nat /\ Start(source, Found) \in Nat
    BY <2>1, Layout DEF FunctionsOf
  <2>5. j < Found => TypeAt(source, j) + Len(source[j].uses) + 5 <= Start(source, Found)
    BY <2>1, FunctionOrder
  <2>6. Found < j => t + u + 5 <= Start(source, j)
    BY <1>3, <2>1, FunctionOrder DEF u, uses
  <2>7. j < Found => TypeAt(source, j) < t
    <3>1. t \in Nat /\ u \in Nat
      BY <1>2
    <3>2. QED
      BY <2>3, <2>4, <2>5, <3>1
  <2>8. Found < j => t + u + 5 < TypeAt(source, j) /\ ~(TypeAt(source, j) < t)
    BY <1>2, <2>3, <2>4, <2>6
  <2>9. j = Found => TypeAt(source, j) = t
    BY <1>3
  <2>10. j < Found \/ j = Found \/ Found < j
    BY <2>2
  <2>11. j < Found <=> TypeAt(source, j) < t
    BY <1>2, <2>2, <2>7, <2>8, <2>9, <2>10
  <2>12. j \in Names <=> TypeAt(source, j) < t
    BY <1>3 DEF Earlier
  <2>13. TypeAt(source, j) < t + u + 5 <=> j < Found \/ j = Found
    <3>1. j < Found => TypeAt(source, j) < t + u + 5
      BY <1>2, <2>3, <2>7
    <3>2. j = Found => TypeAt(source, j) < t + u + 5
      BY <1>2, <2>9
    <3>3. Found < j => ~(TypeAt(source, j) < t + u + 5)
      BY <1>2, <2>3, <2>8
    <3>4. Found < j => ~(j < Found)
      BY <2>2
    <3>5. QED
      BY <2>10, <3>1, <3>2, <3>3
  <2>14. QED
    BY <2>11, <2>12, <2>13
<1>14. Names' = Earlier(i)'
  <2>1. i' = t + u + 5
    BY <1>1, <1>2
  <2>2. Names \cup {Found} \subseteq Functions
    BY <1>3 DEF Earlier
  <2>3. Earlier(i)' = {k \in Functions : TypeAt(source, k) < t + u + 5}
    BY <1>11, <2>1 DEF Earlier
  <2>4. QED
    BY <1>12, <1>13, <2>2, <2>3
<1>15. \A n \in DOMAIN files' : RightFile(n)'
  <2>1. ASSUME NEW n \in 1..l
        PROVE  RightFile(n)'
    <3>1. n \in DOMAIN files /\ RightFile(n)
      BY <1>3, <1>4
    <3>2. files'[n] = files[n] /\ \A m \in 1..(n - 1) : files'[m] = files[m]
      BY <1>4, <1>7
    <3>3. QED
      BY <1>11, <3>1, <3>2 DEF RightFile
  <2>2. RightFile(l + 1)'
    <3>1. files'[l + 1].name = Found /\ files'[l + 1].code = func_code
      BY <1>7, <1>10
    <3>2. \A j \in Functions : j < Found <=> \E m \in 1..l : files'[m].name = j
      <4>1. \A j \in Functions : j < Found <=> j \in Names
        BY <1>3, <1>13 DEF Earlier
      <4>2. \A j : j \in Names <=> \E m \in 1..l : files[m].name = j
        BY <1>4 DEF Names
      <4>3. QED
        BY <1>7, <4>1, <4>2
    <3>3. (l + 1) - 1 = l
      BY <1>4
    <3>4. QED
      BY <1>3, <1>6, <1>11, <3>1, <3>2, <3>3 DEF RightFile, u, uses
  <2>3. QED
    BY <1>9, <2>1, <2>2
<1>16. \A n \in DOMAIN files' : files'[n].number = n - 1
  <2>1. \A n \in 1..l : files[n].number = n - 1
    BY <1>1, <1>4 DEF VariablesOK
  <2>2. files'[l + 1].number = (l + 1) - 1
    BY <1>4, <1>7, <1>10
  <2>3. QED
    BY <1>7, <1>9, <2>1, <2>2
<1>17. i' \in 1..(Len(assembly) + 1)
  BY <1>1, <1>2
<1>18. VariablesOK'
  BY <1>1, <1>7, <1>16, <1>17 DEF VariablesOK, Parsing
<1>19. ScanInv'
  BY <1>1, <1>14, <1>15 DEF ScanInv, Parsed
<1>20. QED
  BY <1>18, <1>19 DEF CutInv

\* When all lines are read, all functions have been cut out.
LEMMA CutAllParsed ==
  ASSUME CutInv, AllParsed
  PROVE  CutInv'
<1>1. /\ VariablesOK /\ ScanInv /\ pc = "search" /\ i > Len(assembly) /\ pc' = "globals"
      /\ UNCHANGED <<source, assembly, i, func_index, func_rodata, found_rodata, func_code,
                     total_rodata_len, files>>
  BY DEF CutInv, AllParsed, scan
<1>2. Earlier(i) = Functions
  <2>1. ASSUME NEW k \in Functions
        PROVE  TypeAt(source, k) < i
    <3>1. /\ TypeAt(source, k) \in Nat /\ Len(source[k].uses) \in Nat
          /\ TypeAt(source, k) + Len(source[k].uses) + 5 <= Len(assembly)
      BY <1>1, FunctionLines, FunctionsSame DEF VariablesOK
    <3>2. QED
      BY <1>1, <3>1, Scanned
  <2>2. QED
    BY <2>1 DEF Earlier
<1>3. /\ Functions' = Functions /\ Names' = Names
      /\ \A n : RightFile(n)' = RightFile(n)
  BY <1>1 DEF Functions, Names, RightFile
<1>4. VariablesOK'
  BY <1>1 DEF VariablesOK, Parsed
<1>5. ScanInv'
  <2>1. Names' = Functions' /\ \A n \in DOMAIN files' : RightFile(n)'
    BY <1>1, <1>2, <1>3 DEF ScanInv
  <2>2. QED
    BY <1>1, <2>1 DEF ScanInv
<1>6. QED
  BY <1>4, <1>5 DEF CutInv

\* Behind the scan nothing that the invariant is about changes.
LEMMA CutLater ==
  ASSUME CutInv, pc \in Parsed, pc' \in Parsed,
         UNCHANGED <<source, assembly, i, func_index, func_rodata, found_rodata, func_code,
                     total_rodata_len, files>>
  PROVE  CutInv'
<1>1. /\ Functions' = Functions /\ Names' = Names
      /\ \A n : RightFile(n)' = RightFile(n)
  BY DEF Functions, Names, RightFile
<1>2. VariablesOK'
  BY DEF CutInv, VariablesOK
<1>3. pc' \notin Parsing
  BY DEF Parsing, Parsed
<1>4. Names' = Functions' /\ \A n \in DOMAIN files' : RightFile(n)'
  BY <1>1 DEF CutInv, ScanInv
<1>5. ScanInv'
  BY <1>3, <1>4 DEF ScanInv, Parsing
<1>6. QED
  BY <1>2, <1>5 DEF CutInv

\* The patch files follow the place of the scan, for any C file.
THEOREM CutInvariance == Spec => []CutInv
<1>1. Init => CutInv
  BY CutInit
<1>2. CutInv /\ [Next]_vars => CutInv'
  <2> SUFFICES ASSUME CutInv, [Next]_vars
               PROVE  CutInv'
    OBVIOUS
  <2>1. CASE Search
    BY <2>1, CutSearch
  <2>2. CASE CollectData
    BY <2>2, CutCollectData
  <2>3. CASE CollectCode
    BY <2>3, CutCollectLine, CutWriteFile
  <2>4. CASE AllParsed
    BY <2>4, CutAllParsed
  <2>5. CASE GlobalData
    BY <2>5, CutLater DEF GlobalData, Parsed, scan
  <2>6. CASE InsertFunctions
    BY <2>6, CutLater DEF InsertFunctions, Parsed, scan
  <2>7. CASE ShiftRodataAlignment
    BY <2>7, CutLater DEF ShiftRodataAlignment, Parsed, scan
  <2>8. CASE UNCHANGED vars
    <3>1. /\ Functions' = Functions /\ Names' = Names /\ Found' = Found
          /\ \A n : RightFile(n)' = RightFile(n)
          /\ \A p : Earlier(p)' = Earlier(p)
      BY <2>8 DEF Functions, Names, RightFile, Found, Earlier, vars
    <3>2. VariablesOK'
      BY <2>8 DEF CutInv, VariablesOK, vars
    <3>3. ScanInv'
      BY <2>8, <3>1 DEF CutInv, ScanInv, vars
    <3>4. QED
      BY <3>2, <3>3 DEF CutInv
  <2>9. QED
    BY <2>1, <2>2, <2>3, <2>4, <2>5, <2>6, <2>7, <2>8 DEF Next, Done
<1>3. QED
  BY <1>1, <1>2, PTL DEF Spec

\* Whatever the C file holds, the patch files are its functions in its order,
\* each once, with all of its instructions and nothing else.
THEOREM Functionwise == Spec => []FilesAreFunctions
<1>1. CutInv => FilesAreFunctions
  <2> SUFFICES ASSUME CutInv
               PROVE  FilesAreFunctions
    OBVIOUS
  <2>1. \A n \in DOMAIN files : RightFile(n)
    BY DEF CutInv, ScanInv
  <2>2. pc \in Parsed => Functions = Names
    BY DEF CutInv, ScanInv
  <2>3. QED
    BY <2>1, <2>2 DEF FilesAreFunctions, RightFile, Parsed, Names
<1>2. QED
  BY <1>1, CutInvariance, PTL


-------------------------------------------------------------------------------
(***************************************************************************)
(* The order in which the functions are inserted.                          *)
(***************************************************************************)
Ascends(s) == \A m, n \in DOMAIN s : m < n => s[m].number < s[n].number

\* Files with ascending numbers are as many as their places.
LEMMA AscendingFiles ==
  ASSUME NEW w \in Seq(FileType), Ascends(w)
  PROVE  /\ IsFiniteSet(ToSet(w)) /\ Cardinality(ToSet(w)) = Len(w)
         /\ Len(w) \in Nat /\ DOMAIN w = 1..Len(w) /\ w \in SetToSeqs(ToSet(w))
<1> DEFINE c == Len(w)
           A == ToSet(w)
<1>1. c \in Nat /\ DOMAIN w = 1..c
  BY LenProperties
<1>2. \A m \in 1..c : w[m].number \in Nat
  <2>1. \A m \in 1..c : w[m] \in FileType
    BY ElementOfSeq
  <2>2. QED
    BY <2>1 DEF FileType
<1>3. w \in [1..c -> A]
  <2>1. \A m \in 1..c : w[m] \in A
    BY <1>1 DEF ToSet
  <2>2. w = [m \in 1..c |-> w[m]]
    BY <1>1
  <2> HIDE DEF A, c
  <2>3. QED
    BY <2>1, <2>2
<1>4. \A m, n \in 1..c : w[m] = w[n] => m = n
  <2> TAKE m, n \in 1..c
  <2> HAVE w[m] = w[n]
  <2>1. w[m].number \in Nat /\ w[m].number = w[n].number
    BY <1>2
  <2>2. ~(m < n) /\ ~(n < m)
    BY <1>1, <2>1 DEF Ascends
  <2>3. QED
    BY <1>1, <2>2
<1>5. \A x \in A : \E m \in 1..c : w[m] = x
  BY <1>1 DEF ToSet
<1> HIDE DEF A, c
<1>6. w \in Bijection(1..c, A)
  BY <1>3, <1>4, <1>5 DEF Bijection, Injection, Surjection, IsInjective
<1>7. IsFiniteSet(1..c) /\ Cardinality(1..c) = c
  BY <1>1, FS_Interval
<1>8. IsFiniteSet(A) /\ Cardinality(A) = c
  BY <1>6, <1>7, FS_Bijection DEF ExistsBijection
<1>9. w \in SetToSeqs(A)
  BY <1>3, <1>4, <1>8 DEF SetToSeqs
<1>10. QED
  BY <1>1, <1>8, <1>9 DEF A, c

\* A listing of as many files as there are has all of them.
LEMMA ListingHasAll ==
  ASSUME NEW A, IsFiniteSet(A), NEW listing \in SetToSeqs(A)
  PROVE  /\ ToSet(listing) = A /\ listing \in [1..Cardinality(A) -> A]
         /\ \A m, n \in 1..Cardinality(A) : listing[m] = listing[n] => m = n
<1> DEFINE c == Cardinality(A)
<1>1. c \in Nat
  BY FS_CardinalityType
<1>2. /\ listing \in [1..c -> A]
      /\ \A m, n \in 1..c : listing[m] = listing[n] => m = n
  BY DEF SetToSeqs
<1>3. listing \in Injection(1..c, A)
  BY <1>2 DEF Injection, IsInjective
<1>4. Cardinality(1..c) = c
  <2> HIDE DEF c
  <2>1. QED
    BY <1>1, FS_Interval
<1>5. listing \in Surjection(1..c, A)
  BY <1>3, <1>4, FS_Injection
<1>6. ToSet(listing) = A
  BY <1>2, <1>5 DEF Surjection, ToSet
<1>7. QED
  BY <1>2, <1>6

\* Whatever order files are listed in, they are sorted into the one order of
\* their numbers.
LEMMA SortedIs ==
  ASSUME NEW w \in Seq(FileType), Ascends(w), NEW listing \in SetToSeqs(ToSet(w))
  PROVE  Sorted(listing) = w
<1> DEFINE A == ToSet(w)
           c == Len(w)
           s == Sorted(listing)
<1>1. /\ IsFiniteSet(A) /\ Cardinality(A) = c /\ c \in Nat /\ DOMAIN w = 1..c
      /\ w \in SetToSeqs(A)
  BY AscendingFiles
<1>2. ToSet(listing) = A
  BY <1>1, ListingHasAll
<1>3. s \in SetToSeqs(A) /\ Ascends(s)
  BY <1>1, <1>2 DEF Sorted, Ascends
<1> HIDE DEF s
<1>4. /\ ToSet(s) = A /\ s \in [1..c -> A]
      /\ \A m, n \in 1..c : s[m] = s[n] => m = n
  BY <1>1, <1>3, ListingHasAll
<1>5. \A m \in 1..c : /\ w[m].number \in Nat
                      /\ \E n \in 1..c : w[m] = s[n]
                      /\ \E n \in 1..c : s[m] = w[n]
  <2>1. \A m \in 1..c : w[m].number \in Nat /\ w[m] \in A
    <3>1. \A m \in 1..c : w[m] \in FileType
      BY ElementOfSeq
    <3>2. \A m \in 1..c : w[m] \in A
      BY <1>1 DEF ToSet
    <3>3. QED
      BY <3>1, <3>2 DEF FileType
  <2>2. \A x \in A : (\E n \in 1..c : x = s[n]) /\ (\E n \in 1..c : x = w[n])
    BY <1>1, <1>4 DEF ToSet
  <2>3. \A m \in 1..c : s[m] \in A
    BY <1>4
  <2> HIDE DEF A, c
  <2>4. QED
    BY <2>1, <2>2, <2>3
<1>6. /\ \A m, n \in 1..c : m < n => w[m].number < w[n].number
      /\ \A m, n \in 1..c : m < n => s[m].number < s[n].number
  BY <1>1, <1>3, <1>4 DEF Ascends
<1> HIDE DEF A, c
<1> DEFINE P == {n \in Nat : n <= c => \A m \in 1..n : s[m] = w[m]}
<1>7. 0 \in P
  OBVIOUS
<1>8. \A n \in Nat : n \in P => n + 1 \in P
  <2> SUFFICES ASSUME NEW n \in Nat, n + 1 <= c, \A m \in 1..n : s[m] = w[m]
               PROVE  s[n + 1] = w[n + 1]
    BY <1>1
  <2>0. n + 1 \in 1..c
    BY <1>1
  <2>1. PICK q \in 1..c : w[n + 1] = s[q]
    BY <1>5, <2>0
  <2>2. PICK r \in 1..c : s[n + 1] = w[r]
    BY <1>5, <2>0
  <2>3. \A m \in 1..n : m \in 1..c
    BY <1>1
  <2>4. q \notin 1..n
    <3> SUFFICES ASSUME q \in 1..n PROVE FALSE
      OBVIOUS
    <3>1. w[q] = w[n + 1] /\ q < n + 1
      BY <2>1
    <3>2. w[q].number < w[n + 1].number /\ w[q].number \in Nat
      BY <1>5, <1>6, <2>0, <3>1
    <3>3. QED
      BY <3>1, <3>2
  <2>5. r \notin 1..n
    <3> SUFFICES ASSUME r \in 1..n PROVE FALSE
      OBVIOUS
    <3>1. s[r] = s[n + 1]
      BY <2>2
    <3>2. r = n + 1
      BY <1>4, <2>0, <3>1
    <3>3. QED
      BY <3>2
  <2>6. (q = n + 1 \/ n + 1 < q) /\ (r = n + 1 \/ n + 1 < r)
    BY <1>1, <2>4, <2>5
  <2>7. CASE n + 1 < q /\ n + 1 < r
    <3>1. s[n + 1].number < s[q].number
      BY <1>6, <2>0, <2>7
    <3>2. w[n + 1].number < w[r].number
      BY <1>6, <2>0, <2>7
    <3>3. w[r].number \in Nat /\ w[n + 1].number \in Nat
      BY <1>5, <2>0
    <3>4. w[r].number < w[n + 1].number
      BY <2>1, <2>2, <3>1
    <3>5. QED
      BY <3>2, <3>3, <3>4
  <2>8. QED
    BY <2>1, <2>2, <2>6, <2>7
<1>9. \A m \in 1..c : s[m] = w[m]
  <2>1. c \in P
    <3> HIDE DEF P
    <3>1. QED
      BY <1>1, <1>7, <1>8, Induction
  <2>2. QED
    BY <1>1, <2>1
<1>10. w = [m \in 1..c |-> w[m]] /\ s = [m \in 1..c |-> s[m]]
  BY <1>1, <1>4
<1>11. s = w
  BY <1>9, <1>10
<1>12. QED
  BY <1>11 DEF s


\* What is inserted: the first files, as many as have a number of one digit.
OrderInv ==
  /\ pc \in {"search", "data", "code", "globals", "insert"} => inserted = <<>>
  /\ InsertedInOrder

\* The files that are inserted are the first ones.
LEMMA FirstFiles ==
  ASSUME CutInv, NEW w, w = SubSeq(files, 1, Min({Base, Len(files)}))
  PROVE  /\ w \in Seq(FileType) /\ Len(w) \in Nat /\ DOMAIN w = 1..Len(w)
         /\ Len(w) <= Len(files) /\ Len(w) <= Base
         /\ Len(w) = Len(files) \/ Len(w) = Base
         /\ \A n \in 1..Len(w) : n \in DOMAIN files /\ w[n] = files[n]
<1> DEFINE l == Len(files)
           c == Min({Base, l})
<1>1. files \in Seq(FileType)
  BY DEF CutInv, VariablesOK
<1>2. l \in Nat /\ DOMAIN files = 1..l /\ \A n \in 1..l : files[n] \in FileType
  BY <1>1, LenProperties, ElementOfSeq
<1>3. Base \in Nat
  BY NumbersAssumption
<1> HIDE DEF l
<1>4. c \in Nat /\ c <= l /\ c <= Base /\ (c = l \/ c = Base)
  <2>1. CASE Base <= l
    <3>1. Base \in {Base, l} /\ \A y \in {Base, l} : Base <= y
      BY <1>2, <1>3, <2>1
    <3>2. c \in {Base, l} /\ \A y \in {Base, l} : c <= y
      BY <3>1 DEF Min
    <3>3. QED
      BY <1>2, <1>3, <2>1, <3>2
  <2>2. CASE l <= Base
    <3>1. l \in {Base, l} /\ \A y \in {Base, l} : l <= y
      BY <1>2, <1>3, <2>2
    <3>2. c \in {Base, l} /\ \A y \in {Base, l} : c <= y
      BY <3>1 DEF Min
    <3>3. QED
      BY <1>2, <1>3, <2>2, <3>2
  <2>3. QED
    BY <1>2, <1>3, <2>1, <2>2
<1> DEFINE v == SubSeq(files, 1, c)
<1>5. w = v
  BY DEF l
<1> HIDE DEF c
<1>6. 1 \in Int /\ c \in Int /\ \A n \in 1..c : files[n] \in FileType
  BY <1>2, <1>4
<1>7. /\ w \in Seq(FileType) /\ Len(w) = IF 1 <= c THEN c - 1 + 1 ELSE 0
      /\ \A n \in 1..(c - 1 + 1) : w[n] = files[1 + n - 1]
  <2>1. /\ v \in Seq(FileType) /\ Len(v) = IF 1 <= c THEN c - 1 + 1 ELSE 0
        /\ \A n \in 1..(c - 1 + 1) : v[n] = files[1 + n - 1]
    BY <1>6, SubSeqProperties
  <2> HIDE DEF v
  <2>2. QED
    BY <1>5, <2>1
<1>8. Len(w) = c /\ DOMAIN w = 1..c
  <2>1. Len(w) = c
    BY <1>4, <1>7
  <2>2. QED
    BY <1>7, <2>1, LenProperties
<1>9. \A n \in 1..c : w[n] = files[n] /\ n \in DOMAIN files
  <2> TAKE n \in 1..c
  <2>1. n \in 1..(c - 1 + 1) /\ 1 + n - 1 = n /\ n \in 1..l
    BY <1>2, <1>4
  <2>2. QED
    BY <1>2, <1>7, <2>1
<1>10. QED
  BY <1>4, <1>7, <1>8, <1>9 DEF l

\* InsertFunctions takes the first files in their order.
LEMMA OrderInsert ==
  ASSUME CutInv, InsertFunctions
  PROVE  inserted' = SubSeq(files, 1, Min({Base, Len(files)}))
<1> DEFINE l == Len(files)
           w == SubSeq(files, 1, Min({Base, l}))
           c == Len(w)
           A == {f \in ToSet(files) : Accepted(f)}
<1>1. /\ files \in Seq(FileType) /\ \A n \in DOMAIN files : files[n].number = n - 1
  BY DEF CutInv, VariablesOK
<1>2. l \in Nat /\ DOMAIN files = 1..l /\ \A n \in 1..l : files[n] \in FileType
  BY <1>1, LenProperties, ElementOfSeq
<1>3. Base \in Nat
  BY NumbersAssumption
<1>4. /\ w \in Seq(FileType) /\ c \in Nat /\ DOMAIN w = 1..c
      /\ c <= l /\ c <= Base /\ (c = l \/ c = Base)
      /\ \A n \in 1..c : w[n] = files[n] /\ n \in DOMAIN files
  BY FirstFiles
<1> HIDE DEF w, c, l
<1>5. Ascends(w)
  <2> SUFFICES ASSUME NEW m \in 1..c, NEW n \in 1..c, m < n
               PROVE  w[m].number < w[n].number
    BY <1>4 DEF Ascends
  <2>1. w[m].number = m - 1 /\ w[n].number = n - 1
    BY <1>1, <1>4
  <2>2. QED
    BY <1>4, <2>1
<1>6. ToSet(w) = A
  <2>1. \A n \in 1..c : files[n] \in A
    <3> TAKE n \in 1..c
    <3>1. files[n].number = n - 1 /\ n - 1 < Base /\ n \in DOMAIN files
      BY <1>1, <1>3, <1>4
    <3>2. QED
      BY <3>1 DEF Accepted, ToSet
  <2>2. \A x \in A : \E n \in 1..c : x = files[n]
    <3> TAKE x \in A
    <3>1. PICK n \in 1..l : x = files[n] /\ x.number < Base
      BY <1>2 DEF Accepted, ToSet
    <3>2. n - 1 < Base
      BY <1>1, <1>2, <3>1
    <3>3. n \in 1..c
      BY <1>2, <1>3, <1>4, <3>2
    <3>4. QED
      BY <3>1, <3>3
  <2>3. ToSet(w) = {files[n] : n \in 1..c}
    BY <1>4 DEF ToSet
  <2> HIDE DEF A
  <2>4. QED
    BY <2>1, <2>2, <2>3
<1>7. PICK listing \in SetToSeqs(A) : inserted' = Sorted(listing)
  BY DEF InsertFunctions
<1>8. Sorted(listing) = w
  BY <1>4, <1>5, <1>6, <1>7, SortedIs
<1>9. QED
  BY <1>7, <1>8 DEF w, c, l

\* Nothing is inserted before InsertFunctions, then the first files.
THEOREM OrderInvariance == Spec => []OrderInv
<1>1. Init => OrderInv
  BY DEF Init, OrderInv, InsertedInOrder
<1>2. CutInv /\ OrderInv /\ [Next]_vars => OrderInv'
  <2> SUFFICES ASSUME CutInv, OrderInv, [Next]_vars
               PROVE  OrderInv'
    OBVIOUS
  <2> USE DEF OrderInv, InsertedInOrder
  <2>1. CASE Search
    BY <2>1 DEF Search
  <2>2. CASE CollectData
    BY <2>2 DEF CollectData
  <2>3. CASE CollectCode
    BY <2>3 DEF CollectCode
  <2>4. CASE AllParsed
    BY <2>4 DEF AllParsed
  <2>5. CASE GlobalData
    BY <2>5 DEF GlobalData
  <2>6. CASE InsertFunctions
    <3>1. inserted' = SubSeq(files, 1, Min({Base, Len(files)}))
      BY <2>6, OrderInsert
    <3>2. files' = files /\ pc' = "shift"
      BY <2>6 DEF InsertFunctions
    <3>3. QED
      BY <3>1, <3>2
  <2>7. CASE ShiftRodataAlignment
    BY <2>7 DEF ShiftRodataAlignment
  <2>8. CASE UNCHANGED vars
    BY <2>8 DEF vars
  <2>9. QED
    BY <2>1, <2>2, <2>3, <2>4, <2>5, <2>6, <2>7, <2>8 DEF Next, Done
<1>3. QED
  BY <1>1, <1>2, CutInvariance, PTL DEF Spec

\* In whatever order the directory is listed, the functions are inserted in the
\* order of the source, and only those from number Base on are left out.
THEOREM Inserted == Spec => []InsertedInOrder
<1>1. OrderInv => InsertedInOrder
  BY DEF OrderInv
<1>2. QED
  BY <1>1, OrderInvariance, PTL


-------------------------------------------------------------------------------
(***************************************************************************)
(* The read-only data that a patch file takes along.                       *)
(***************************************************************************)
\* A line before function k, no other function ending between.
Near(line, k) ==
  \E p \in 1..TypeAt(source, k) :
    /\ line = assembly[p]
    /\ \A q \in p..TypeAt(source, k) : assembly[q].kind # "cfi_endproc"

\* The lines r serve function k: they are before it, and the strings that are
\* laid down for it are among them.
Cut(r, k) ==
  /\ \A m \in 1..Len(r) : Near(r[m], k)
  /\ \A n \in FirstUses(source, k) : \E m \in 1..Len(r) :
       r[m] = Line("label", source[k].uses[n])

\* The inner loop has taken the labels between its place and the function, from
\* there only, and met nothing to stop at.
Backwards ==
  /\ \A m \in 1..Len(func_rodata) : \E p \in (i + 1)..func_index :
       func_rodata[m] = assembly[p]
  /\ \A p \in (i + 1)..func_index :
       assembly[p].kind = "label" => \E m \in 1..Len(func_rodata) : func_rodata[m] = assembly[p]
  /\ \A p \in (i + 1)..func_index : ~Stops(assembly[p])

RightRodata(n) == Cut(files[n].rodata, files[n].name)

RodataInv ==
  /\ pc = "data" => Backwards
  /\ pc = "code" => Cut(func_rodata, Found)
  /\ \A n \in DOMAIN files : RightRodata(n)

\* What is taken when the loop looks at a line.
WithHere == IF Here.kind \notin LeftOut THEN <<Here>> \o func_rodata ELSE func_rodata

\* One step back: what is taken then.
LEMMA LineTaken ==
  ASSUME CutInv, pc = "data", Backwards, NEW r, r = WithHere
  PROVE  /\ \A m \in 1..Len(r) : \E p \in i..func_index : r[m] = assembly[p]
         /\ \A p \in i..func_index :
              assembly[p].kind = "label" => \E m \in 1..Len(r) : r[m] = assembly[p]
<1>1. /\ VariablesOK /\ i <= func_index /\ func_rodata \in Seq(LineType)
      /\ i \in 1..(Len(assembly) + 1) /\ func_index \in 0..Len(assembly)
  BY DEF CutInv, ScanInv, VariablesOK
<1>2. i \in Nat /\ func_index \in Nat /\ Len(assembly) \in Nat
  BY <1>1, Scanned
<1>3. /\ i \in 1..Len(assembly) /\ i \in i..func_index
      /\ \A p \in i..func_index : p = i \/ p \in (i + 1)..func_index
      /\ \A p \in (i + 1)..func_index : p \in i..func_index
  BY <1>1, <1>2
<1>4. Here \in LineType /\ Here = assembly[i]
  BY <1>1, <1>3, Scanned DEF Here
<1> DEFINE t == func_rodata
           h == Here
           a == <<h>>
           u == a \o t
<1>5. /\ \A m \in 1..Len(t) : \E p \in (i + 1)..func_index : t[m] = assembly[p]
      /\ \A p \in (i + 1)..func_index :
           assembly[p].kind = "label" => \E m \in 1..Len(t) : t[m] = assembly[p]
  BY DEF Backwards
<1>6. CASE Here.kind \notin LeftOut
  <2>1. t \in Seq(LineType) /\ h \in LineType /\ a = <<h>> /\ u = a \o t
    BY <1>1, <1>4
  <2>2. r = u /\ h = assembly[i]
    BY <1>4, <1>6 DEF WithHere
  <2> HIDE DEF t, h, a, u
  <2>3. /\ u \in Seq(LineType) /\ Len(u) = Len(t) + 1 /\ u[1] = h /\ Len(t) \in Nat
        /\ \A m \in 1..Len(t) : u[m + 1] = t[m]
    BY <2>1, Prepended
  <2>4. ASSUME NEW m \in 1..Len(r)
        PROVE  \E p \in i..func_index : r[m] = assembly[p]
    <3>1. m = 1 \/ (m - 1 \in 1..Len(t) /\ m = (m - 1) + 1)
      BY <2>2, <2>3
    <3>2. CASE m = 1
      BY <1>3, <2>2, <2>3, <3>2
    <3>3. CASE m - 1 \in 1..Len(t) /\ m = (m - 1) + 1
      <4>1. u[m] = t[m - 1]
        BY <2>3, <3>3
      <4>2. QED
        BY <1>3, <1>5, <2>2, <3>3, <4>1
    <3>4. QED
      BY <3>1, <3>2, <3>3
  <2>5. ASSUME NEW p \in i..func_index, assembly[p].kind = "label"
        PROVE  \E m \in 1..Len(r) : r[m] = assembly[p]
    <3>1. CASE p = i
      <4>1. 1 \in 1..Len(r)
        BY <2>2, <2>3
      <4>2. QED
        BY <2>2, <2>3, <3>1, <4>1
    <3>2. CASE p \in (i + 1)..func_index
      <4>1. PICK m \in 1..Len(t) : t[m] = assembly[p]
        BY <1>5, <2>5, <3>2
      <4>2. m + 1 \in 1..Len(r)
        BY <2>2, <2>3
      <4>3. QED
        BY <2>2, <2>3, <4>1, <4>2
    <3>3. QED
      BY <1>3, <3>1, <3>2
  <2>6. QED
    BY <2>4, <2>5
<1>7. CASE Here.kind \in LeftOut
  <2>1. assembly[i].kind # "label" /\ r = t
    BY <1>4, <1>7 DEF LeftOut, WithHere
  <2>2. QED
    BY <1>3, <1>5, <2>1
<1>8. QED
  BY <1>6, <1>7

\* Where the loop stops at .rodata, it has passed every string that is laid
\* down for the function.
LEMMA StoppedAtRodata ==
  ASSUME CutInv, pc = "data", Backwards, i > 1, Here.kind = "section_rodata",
         NEW r,
         /\ \A m \in 1..Len(r) : \E p \in i..func_index : r[m] = assembly[p]
         /\ \A p \in i..func_index :
              assembly[p].kind = "label" => \E m \in 1..Len(r) : r[m] = assembly[p]
  PROVE  Cut(r, Found)
<1> DEFINE k == Found
           before == Before(source, k)
           s == Start(source, k)
           t == TypeAt(source, k)
<1>1. /\ VariablesOK /\ i <= func_index /\ k \in Functions /\ func_index = t
      /\ source \in Sources /\ assembly = Assembly(source)
  BY DEF CutInv, ScanInv, VariablesOK
<1>2. /\ i \in Nat /\ t \in Nat /\ i \in 1..t /\ k \in FunctionsOf(source)
      /\ k \in DOMAIN source /\ s \in Nat /\ s < t /\ s >= 1
  <2>1. i \in Nat /\ k \in FunctionsOf(source) /\ k \in DOMAIN source
    BY <1>1, Scanned, FunctionsSame
  <2>2. t \in Nat /\ s < t
    BY <1>1, <2>1, FunctionLines
  <2>3. s \in Nat /\ s >= 1
    BY <1>1, <2>1, Layout
  <2> HIDE DEF s, t, k
  <2>4. i \in 1..t
    BY <1>1, <2>1, <2>2
  <2>5. QED
    BY <2>1, <2>2, <2>3, <2>4
<1>3. \A q \in i..t : assembly[q].kind # "cfi_endproc"
  <2>1. \A q \in i..t : q = i \/ q \in (i + 1)..t
    <3> HIDE DEF t
    <3>1. QED
      BY <1>2
  <2>2. \A q \in (i + 1)..t : assembly[q].kind # "cfi_endproc"
    BY <1>1 DEF Backwards, Stops
  <2>3. assembly[i].kind # "cfi_endproc"
    BY DEF Here
  <2>4. QED
    BY <2>1, <2>2, <2>3
<1>4. ASSUME NEW m \in 1..Len(r)
      PROVE  Near(r[m], k)
  <2>1. PICK p \in i..t : r[m] = assembly[p]
    BY <1>1
  <2> HIDE DEF t
  <2>2. p \in 1..t /\ \A q \in p..t : q \in i..t
    BY <1>2
  <2>3. QED
    BY <1>3, <2>1, <2>2 DEF Near, t
<1>5. ASSUME NEW n \in FirstUses(source, k)
      PROVE  \E m \in 1..Len(r) : r[m] = Line("label", source[k].uses[n])
  <2>1. PICK l \in 1..Len(before) : before[l] = Line("label", source[k].uses[n])
    BY <1>1, <1>2, PreambleShape
  <2>2. assembly[s + l] = before[l]
    BY <1>1, <1>2, FunctionLines
  <2>3. Len(before) \in Nat /\ t = s + Len(before) + 1 /\ l \in Nat
    BY <1>1, <1>2, PreambleShape DEF TypeAt
  <2>4. before[l].kind = "label" /\ assembly[s + l].kind = "label"
    BY <2>1, <2>2 DEF Line
  <2>5. i <= s + l
    <3> SUFFICES ASSUME i > s + l
                 PROVE  FALSE
      <4> HIDE DEF s, t, before
      <4>1. QED
        BY <1>2, <2>3
    <3>1. i # t
      <4>1. assembly[t] = Line("type_function", k)
        BY <1>1, <1>2, FunctionLines
      <4>2. assembly[t].kind = "type_function"
        BY <4>1 DEF Line
      <4>3. QED
        BY <4>2 DEF Here
    <3> DEFINE x == i - s
    <3>2. x \in 1..Len(before) /\ i = s + x /\ l < x /\ 1 <= l
      <4> HIDE DEF s, t, before
      <4>1. QED
        BY <1>2, <2>3, <3>1
    <3>3. assembly[s + x] = before[x]
      BY <1>1, <1>2, <3>2, FunctionLines
    <3>4. before[x].kind = "section_rodata"
      BY <3>2, <3>3 DEF Here
    <3>5. x = 1
      BY <1>1, <1>2, <3>2, <3>4, PreambleShape
    <3>6. QED
      BY <2>3, <3>2, <3>5
  <2>6. s + l \in i..t
    <3> HIDE DEF s, t, before
    <3>1. QED
      BY <1>2, <2>3, <2>5
  <2>7. QED
    BY <1>1, <2>1, <2>2, <2>4, <2>6
<1>6. QED
  BY <1>4, <1>5 DEF Cut

\* Where it stops at another function or at the first line, no string is laid
\* down for the function.
LEMMA StoppedElsewhere ==
  ASSUME CutInv, pc = "data", Backwards, i = 1 \/ Here.kind = "cfi_endproc"
  PROVE  FirstUses(source, Found) = {} /\ Cut(<<>>, Found)
<1> DEFINE k == Found
           t == TypeAt(source, k)
<1>1. /\ VariablesOK /\ i <= func_index /\ k \in Functions /\ func_index = t
      /\ source \in Sources /\ assembly = Assembly(source)
  BY DEF CutInv, ScanInv, VariablesOK
<1>2. /\ i \in Nat /\ t \in Nat /\ k \in FunctionsOf(source)
  BY <1>1, Scanned, FunctionsSame
<1>3. FirstUses(source, k) = {}
  <2> SUFFICES ASSUME FirstUses(source, k) # {}
               PROVE  FALSE
    OBVIOUS
  <2>1. PICK p \in 2..t : /\ assembly[p].kind = "section_rodata"
                          /\ \A q \in p..t : assembly[q].kind # "cfi_endproc"
    BY <1>1, <1>2, RodataEntered
  <2>2. p \notin (i + 1)..t
    BY <1>1, <2>1 DEF Backwards, Stops
  <2> HIDE DEF t
  <2>3. p <= i /\ i # 1
    BY <1>2, <2>2
  <2>4. i \in p..t
    BY <1>1, <1>2, <2>3
  <2>5. QED
    BY <2>1, <2>3, <2>4 DEF Here
<1>4. Len(<<>>) = 0
  OBVIOUS
<1>5. QED
  BY <1>3, <1>4 DEF Cut

\* A patch file that stays as it is keeps what serves its function.
LEMMA RightRodataKept ==
  ASSUME NEW n, source' = source, assembly' = assembly, files'[n] = files[n],
         RightRodata(n)
  PROVE  RightRodata(n)'
BY DEF RightRodata, Cut, Near

\* The inner loop hands over what serves the function.
LEMMA RodataCollectData ==
  ASSUME CutInv, RodataInv, CollectData
  PROVE  RodataInv'
<1>1. /\ CutInv /\ pc = "data" /\ Backwards
      /\ UNCHANGED <<source, assembly, func_index, files>>
      /\ \A n \in DOMAIN files : RightRodata(n)
  BY DEF RodataInv, CollectData
<1>2. i \in Nat /\ i >= 1 /\ func_index \in Nat
  BY <1>1, Scanned DEF CutInv, VariablesOK
<1>3. \A n \in DOMAIN files' : RightRodata(n)'
  BY <1>1, RightRodataKept
<1>4. PICK r : r = WithHere
  OBVIOUS
<1>5. /\ \A m \in 1..Len(r) : \E p \in i..func_index : r[m] = assembly[p]
      /\ \A p \in i..func_index :
           assembly[p].kind = "label" => \E m \in 1..Len(r) : r[m] = assembly[p]
  <2>1. /\ CutInv /\ pc = "data" /\ Backwards
        /\ r = WithHere
    BY <1>1, <1>4
  <2>2. QED
    BY <2>1, LineTaken
<1>6. CASE i > 1 /\ Here.kind = "section_rodata"
  <2>1. Here.kind \notin LeftOut /\ Stops(Here)
    BY <1>6 DEF LeftOut, Stops
  <2>2. func_rodata' = r /\ pc' = "code"
    BY <1>4, <1>6, <2>1 DEF CollectData, WithHere
  <2>3. Cut(r, Found)
    BY <1>1, <1>5, <1>6, StoppedAtRodata
  <2>4. Cut(func_rodata, Found)'
    BY <1>1, <2>2, <2>3 DEF Cut, Near, Found
  <2>5. QED
    BY <1>3, <2>2, <2>4 DEF RodataInv
<1>7. CASE i = 1 \/ (i > 1 /\ Here.kind = "cfi_endproc")
  <2>1. func_rodata' = <<>> /\ pc' = "code"
    BY <1>7 DEF CollectData, Stops
  <2>2. Cut(<<>>, Found)
    BY <1>1, <1>7, StoppedElsewhere
  <2>3. Cut(func_rodata, Found)'
    BY <1>1, <2>1, <2>2 DEF Cut, Near, Found
  <2>4. QED
    BY <1>3, <2>1, <2>3 DEF RodataInv
<1>8. CASE i > 1 /\ Here.kind \notin {"section_rodata", "cfi_endproc"}
  <2>1. ~Stops(Here)
    BY <1>8 DEF Stops
  <2>2. func_rodata' = r /\ pc' = "data" /\ i' = i - 1
    BY <1>1, <1>4, <1>8, <2>1 DEF CollectData, WithHere
  <2>3. i' + 1 = i
    BY <1>2, <2>2
  <2>4. \A p \in i..func_index : ~Stops(assembly[p])
    <3>1. \A p \in i..func_index : p = i \/ p \in (i + 1)..func_index
      BY <1>2
    <3>2. QED
      BY <1>1, <2>1, <3>1 DEF Backwards, Here
  <2>5. Backwards'
    BY <1>1, <1>5, <2>2, <2>3, <2>4 DEF Backwards, Stops
  <2>6. QED
    BY <1>3, <2>2, <2>5 DEF RodataInv
<1>9. i = 1 \/ i > 1
  BY <1>2
<1>10. QED
  BY <1>6, <1>7, <1>8, <1>9


\* The lines before a function stay in its patch file.
LEMMA RodataCollectCode ==
  ASSUME CutInv, RodataInv, CollectCode
  PROVE  RodataInv'
<1> DEFINE f == [number |-> PatchNo, name |-> Found, code |-> func_code,
                 rodata |-> func_rodata]
<1> PICK l : l = Len(files)
  OBVIOUS
<1>1. /\ VariablesOK /\ pc = "code" /\ Cut(func_rodata, Found)
      /\ \A n \in DOMAIN files : RightRodata(n)
      /\ UNCHANGED <<source, assembly, func_index, func_rodata>>
  BY DEF CutInv, RodataInv, CollectCode
<1>2. CASE Here.kind # "cfi_endproc"
  <2>1. pc' = "code" /\ files' = files
    BY <1>1, <1>2 DEF CollectCode
  <2>2. \A n \in DOMAIN files' : RightRodata(n)'
    BY <1>1, <2>1, RightRodataKept
  <2>3. Cut(func_rodata, Found)'
    BY <1>1 DEF Cut, Near, Found
  <2>4. QED
    BY <2>1, <2>2, <2>3 DEF RodataInv
<1>3. CASE Here.kind = "cfi_endproc"
  <2>1. pc' = "search" /\ files' = Append(files, f)
    BY <1>1, <1>3 DEF CollectCode, Found
  <2>2. files \in Seq(FileType) /\ l \in Nat /\ DOMAIN files = 1..l
    BY <1>1, LenProperties DEF VariablesOK
  <2>3. f \in FileType /\ f.name = Found /\ f.rodata = func_rodata
    <3>1. Found \in Nat /\ PatchNo \in Nat
      BY <1>1, <2>2, Scanned DEF CutInv, ScanInv, PatchNo
    <3>2. func_code \in Seq(LineType) /\ func_rodata \in Seq(LineType)
      BY <1>1 DEF VariablesOK
    <3>3. QED
      BY <3>1, <3>2 DEF FileType
  <2> HIDE DEF f
  <2>4. /\ files' \in Seq(FileType) /\ Len(files') = l + 1
        /\ \A n \in 1..l : files'[n] = files[n]
        /\ files'[l + 1] = f
    <3>1. files \in Seq(FileType) /\ f \in FileType /\ files' = Append(files, f)
      BY <2>1, <2>2, <2>3
    <3>2. QED
      BY <3>1, AppendShape
  <2>5. \A n \in DOMAIN files' : n \in 1..l \/ n = l + 1
    BY <2>2, <2>4, LenProperties
  <2>6. ASSUME NEW n \in 1..l
        PROVE  RightRodata(n)'
    <3>1. RightRodata(n) /\ files'[n] = files[n]
      BY <1>1, <2>2, <2>4
    <3>2. QED
      BY <1>1, <3>1, RightRodataKept
  <2>7. RightRodata(l + 1)'
    <3>1. files'[l + 1].name = Found /\ files'[l + 1].rodata = func_rodata
      BY <2>3, <2>4
    <3>2. QED
      BY <1>1, <3>1 DEF RightRodata, Cut, Near
  <2>8. \A n \in DOMAIN files' : RightRodata(n)'
    BY <2>5, <2>6, <2>7
  <2>9. QED
    BY <2>1, <2>8 DEF RodataInv
<1>4. QED
  BY <1>2, <1>3

\* Everywhere else a patch file stays as it is.
LEMMA RodataElsewhere ==
  ASSUME CutInv, RodataInv, UNCHANGED <<source, assembly, files>>,
         \/ Search
         \/ pc' \in Parsed
         \/ UNCHANGED <<pc, i, func_index, func_rodata>>
  PROVE  RodataInv'
<1>1. \A n \in DOMAIN files' : RightRodata(n)'
  <2>1. \A n \in DOMAIN files : RightRodata(n)
    BY DEF RodataInv
  <2>2. QED
    BY <2>1, RightRodataKept
<1>2. CASE Search
  <2>1. pc = "search" /\ i \in Nat
    BY <1>2, Scanned DEF CutInv, Search
  <2>2. CASE Here.kind = "type_function"
    <3>1. pc' = "data" /\ func_index' = i /\ i' = i /\ func_rodata' = <<>>
      BY <1>2, <2>2 DEF Search
    <3>2. Len(func_rodata') = 0 /\ \A p \in (i' + 1)..func_index' : FALSE
      BY <2>1, <3>1
    <3>3. Backwards'
      BY <3>2 DEF Backwards
    <3>4. QED
      BY <1>1, <3>1, <3>3 DEF RodataInv
  <2>3. CASE Here.kind # "type_function"
    <3>1. pc' = "search"
      BY <1>2, <2>1, <2>3 DEF Search
    <3>2. QED
      BY <1>1, <3>1 DEF RodataInv
  <2>4. QED
    BY <2>2, <2>3
<1>3. CASE pc' \in Parsed
  BY <1>1, <1>3 DEF RodataInv, Parsed
<1>4. CASE UNCHANGED <<pc, i, func_index, func_rodata>>
  <2>1. Backwards => Backwards'
    BY <1>4 DEF Backwards, Stops
  <2>2. Cut(func_rodata, Found) => Cut(func_rodata, Found)'
    BY <1>4 DEF Cut, Near, Found
  <2>3. QED
    BY <1>1, <1>4, <2>1, <2>2 DEF RodataInv
<1>5. QED
  BY <1>2, <1>3, <1>4

\* Each patch file takes along the strings that are laid down for its function,
\* and lines from no further than the function before.
THEOREM RodataInvariance == Spec => []RodataInv
<1>1. Init => RodataInv
  BY DEF Init, RodataInv
<1>2. CutInv /\ RodataInv /\ [Next]_vars => RodataInv'
  <2> SUFFICES ASSUME CutInv, RodataInv, [Next]_vars
               PROVE  RodataInv'
    OBVIOUS
  <2>1. CASE Search
    BY <2>1, RodataElsewhere DEF Search
  <2>2. CASE CollectData
    BY <2>2, RodataCollectData
  <2>3. CASE CollectCode
    BY <2>3, RodataCollectCode
  <2>4. CASE AllParsed
    BY <2>4, RodataElsewhere DEF AllParsed, Parsed
  <2>5. CASE GlobalData
    BY <2>5, RodataElsewhere DEF GlobalData, Parsed
  <2>6. CASE InsertFunctions
    BY <2>6, RodataElsewhere DEF InsertFunctions, Parsed
  <2>7. CASE ShiftRodataAlignment
    BY <2>7, RodataElsewhere DEF ShiftRodataAlignment, Parsed
  <2>8. CASE UNCHANGED vars
    BY <2>8, RodataElsewhere DEF vars
  <2>9. QED
    BY <2>1, <2>2, <2>3, <2>4, <2>5, <2>6, <2>7, <2>8 DEF Next, Done
<1>3. QED
  BY <1>1, <1>2, CutInvariance, PTL DEF Spec

\* A string that a function uses is in its patch file or was used before.
LEMMA StringsServed ==
  ASSUME CutInv, RodataInv, NEW n \in DOMAIN files,
         NEW s \in ToSet(source[files[n].name].uses)
  PROVE  s \in Defines(files[n]) \/ s \in UsedBefore(source, files[n].name)
<1> DEFINE k == files[n].name
           uses == source[k].uses
           rodata_lines == files[n].rodata
           M == {m \in DOMAIN uses : uses[m] = s}
<1>1. /\ VariablesOK /\ Cut(rodata_lines, k) /\ k \in Functions
  BY DEF CutInv, ScanInv, RodataInv, RightFile, RightRodata
<1>2. uses \in Seq(Strings) /\ DOMAIN uses = 1..Len(uses)
  <2>1. source \in Sources /\ k \in DOMAIN source
    BY <1>1, Scanned DEF VariablesOK
  <2>2. QED
    BY <2>1, SourceShape
<1>3. PICK m \in M : \A x \in M : m <= x
  <2>1. M \subseteq Nat
    BY <1>2
  <2>2. \E x : x \in M
    BY DEF ToSet
  <2> HIDE DEF M
  <2>3. PICK x : x \in M
    BY <2>2
  <2>4. QED
    BY <2>1, <2>3, LeastNumber
<1>4. SUFFICES ASSUME s \notin UsedBefore(source, k)
               PROVE  s \in Defines(files[n])
  OBVIOUS
<1>5. m \in DOMAIN uses /\ uses[m] = s
  BY <1>3
<1>6. \A x \in 1..(m - 1) : uses[x] # s
  <2> SUFFICES ASSUME NEW x \in 1..(m - 1), uses[x] = s
               PROVE  FALSE
    OBVIOUS
  <2>1. x \in DOMAIN uses /\ ~(m <= x)
    BY <1>2, <1>5
  <2>2. x \in M
    BY <2>1
  <2>3. QED
    BY <1>3, <2>1, <2>2
<1>7. m \in FirstUses(source, k)
  BY <1>4, <1>5, <1>6 DEF FirstUses
<1>8. PICK x \in 1..Len(rodata_lines) : rodata_lines[x] = Line("label", s)
  BY <1>1, <1>5, <1>7 DEF Cut
<1>9. rodata_lines[x].kind = "label" /\ rodata_lines[x].symbol = s
  BY <1>8 DEF Line
<1>10. x \in DOMAIN rodata_lines
  <2>1. files \in Seq(FileType)
    BY <1>1 DEF VariablesOK
  <2>2. files[n] \in FileType
    BY <2>1, LenProperties, ElementOfSeq
  <2>3. rodata_lines \in Seq(LineType)
    BY <2>2 DEF FileType
  <2>4. QED
    BY <1>8, <2>3, LenProperties
<1>11. QED
  BY <1>9, <1>10 DEF Defines

\* The patch files of two functions define nothing in common.
LEMMA PatchesApart ==
  ASSUME CutInv, RodataInv, NEW m \in DOMAIN files, NEW n \in DOMAIN files, m < n
  PROVE  Defines(files[m]) \cap Defines(files[n]) = {}
<1> DEFINE j == files[m].name
           k == files[n].name
           a == files[m].rodata
           b == files[n].rodata
           t == TypeAt(source, j)
           u == Len(source[j].uses)
           v == TypeAt(source, k)
<1> SUFFICES ASSUME NEW s, s \in Defines(files[m]), s \in Defines(files[n])
             PROVE  FALSE
  OBVIOUS
<1>1. /\ VariablesOK /\ Cut(a, j) /\ Cut(b, k) /\ RightFile(n) /\ RightFile(m)
  BY DEF CutInv, ScanInv, RodataInv, RightRodata
<1>2. j \in Functions /\ k \in Functions /\ j < k
  <2>1. files \in Seq(FileType) /\ DOMAIN files = 1..Len(files)
    BY <1>1, LenProperties DEF VariablesOK
  <2>2. m \in 1..(n - 1)
    BY <2>1
  <2>3. QED
    BY <1>1, <2>2 DEF RightFile
<1>3. /\ source \in Sources /\ assembly = Assembly(source)
      /\ j \in FunctionsOf(source) /\ k \in FunctionsOf(source)
  BY <1>1, <1>2, FunctionsSame DEF VariablesOK
<1>4. /\ t \in Nat /\ u \in Nat /\ t + u + 5 <= Len(assembly) /\ Len(assembly) \in Nat
      /\ assembly[t + u + 4].kind = "cfi_endproc"
      /\ v \in Nat /\ v <= Len(assembly) /\ t + u + 5 <= v
  <2>1. /\ t \in Nat /\ u \in Nat /\ t + u + 5 <= Len(assembly)
        /\ assembly[t + u + 4] = Line("cfi_endproc", None)
    BY <1>3, FunctionLines
  <2>2. assembly[t + u + 4].kind = "cfi_endproc" /\ Len(assembly) \in Nat
    BY <1>1, <2>1, Scanned DEF Line
  <2>3. /\ v \in Nat /\ Len(source[k].uses) \in Nat
        /\ v + Len(source[k].uses) + 5 <= Len(assembly) /\ Start(source, k) < v
    BY <1>3, FunctionLines
  <2>4. t + u + 5 <= Start(source, k) /\ Start(source, k) \in Nat
    BY <1>2, <1>3, FunctionOrder, Layout DEF FunctionsOf
  <2> HIDE DEF t, u, v
  <2>5. v <= Len(assembly)
    BY <2>2, <2>3
  <2>6. t + u + 5 <= v
    BY <2>1, <2>3, <2>4
  <2>7. QED
    BY <2>1, <2>2, <2>3, <2>5, <2>6
<1>5. /\ a \in Seq(LineType) /\ DOMAIN a = 1..Len(a)
      /\ b \in Seq(LineType) /\ DOMAIN b = 1..Len(b)
  <2>1. files \in Seq(FileType)
    BY <1>1 DEF VariablesOK
  <2>2. files[m] \in FileType /\ files[n] \in FileType
    BY <2>1, LenProperties, ElementOfSeq
  <2>3. a \in Seq(LineType) /\ b \in Seq(LineType)
    BY <2>2 DEF FileType
  <2>4. QED
    BY <2>3, LenProperties
<1>6. PICK x \in 1..Len(a) : a[x].kind = "label" /\ a[x].symbol = s
  BY <1>5 DEF Defines
<1>7. PICK y \in 1..Len(b) : b[y].kind = "label" /\ b[y].symbol = s
  BY <1>5 DEF Defines
<1>8. PICK p \in 1..t : a[x] = assembly[p]
  BY <1>1, <1>6 DEF Cut, Near
<1>9. PICK q \in 1..v : /\ b[y] = assembly[q]
                        /\ \A z \in q..v : assembly[z].kind # "cfi_endproc"
  BY <1>1, <1>7 DEF Cut, Near
<1>10. p = q
  <2>1. p \in 1..Len(assembly) /\ q \in 1..Len(assembly)
    <3> HIDE DEF t, u, v
    <3>1. QED
      BY <1>4
  <2>2. QED
    BY <1>3, <1>6, <1>7, <1>8, <1>9, <2>1, LabelsApart
<1>11. t + u + 4 \in q..v
  <2> HIDE DEF t, u, v
  <2>1. QED
    BY <1>4, <1>8, <1>9, <1>10
<1>12. QED
  BY <1>4, <1>9, <1>11

\* Whatever strings the functions share, each one is defined by exactly one
\* patch, that of the first function that uses it.
THEOREM StringsOnce == Spec => []StringsDefinedOnce
<1>1. CutInv /\ RodataInv => StringsDefinedOnce
  <2> SUFFICES ASSUME CutInv, RodataInv
               PROVE  StringsDefinedOnce
    OBVIOUS
  <2>1. ASSUME NEW n \in DOMAIN files, NEW m \in DOMAIN files \ {n}
        PROVE  Defines(files[m]) \cap Defines(files[n]) = {}
    <3>1. m < n \/ n < m
      <4>1. DOMAIN files = 1..Len(files)
        BY LenProperties DEF CutInv, VariablesOK
      <4>2. QED
        BY <4>1
    <3>2. QED
      BY <3>1, PatchesApart
  <2>2. QED
    BY <2>1, StringsServed DEF StringsDefinedOnce
<1>2. QED
  BY <1>1, CutInvariance, RodataInvariance, PTL
===============================================================================
