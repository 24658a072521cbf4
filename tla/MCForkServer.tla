---------------------------- MODULE MCForkServer ----------------------------
EXTENDS ForkServer
CONSTANTS p1, p2

MCPids == {p1, p2}

Mode(p, l, s, h, f) ==
  [persistent |-> p, loop |-> l, sharedmem |-> s, hook |-> h, fuzzer |-> f]

\* The modes of a binary with testcases in a file, and of one with testcases in
\* shared memory; afl-fuzz answers the options word, or does not know it.
FileModes  == {Mode(p, l, FALSE, FALSE, "plain") : p, l \in BOOLEAN}
ShmModes   == {Mode(p, l, TRUE, h, f) :
                 p, l, h \in BOOLEAN, f \in {"plain", "options"}}
AloneModes == {Mode(p, l, s, h, "none") : p, l, s, h \in BOOLEAN}

AllModes == {m \in FileModes \cup ShmModes \cup AloneModes : Consistent(m)}

\* Those in which afl-fuzz and the server agree on the options word.
ServedModes == {m \in AllModes :
  m.sharedmem /\ m.fuzzer # "none" => m.persistent # (m.fuzzer = "options")}

\* All, but for those that answer the options word and have no hook.
AnyModes == {m \in AllModes : m.fuzzer = "options" => m.hook}

\* Persistent mode and shared memory fuzzing, with an afl-fuzz that answers the
\* options word (target add-afl-sharedmem of example/Makefile).
SharedmemModes == {Mode(TRUE, TRUE, TRUE, TRUE, "options")}
=============================================================================
