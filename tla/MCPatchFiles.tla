----------------------------- MODULE MCPatchFiles -----------------------------
EXTENDS PatchFiles
CONSTANTS s1, s2, s3

MCStrings  == {s1, s2, s3}
\* "shmat", "reading\n" and "\033[0m" (an escape of four characters).
MCPlain    == s1 :> 5 @@ s2 :> 7 @@ s3 :> 3
MCNewlines == s1 :> 0 @@ s2 :> 1 @@ s3 :> 0
MCEscapes  == s1 :> 0 @@ s2 :> 0 @@ s3 :> 1

It(kind, uses) == [kind |-> kind, uses |-> uses]

Items == {It("function", u) : u \in {<<>>, <<s1>>, <<s2, s1>>, <<s2, s2>>, <<s3>>}}
         \cup {It("array", <<s2>>), It("table", <<>>)}

\* Every file of at most four items.
MCSources == UNION {[1..n -> Items] : n \in 1..4}
===============================================================================
