-------------------------- MODULE MCPersistentLoop --------------------------
EXTENDS PersistentLoop

\* Every use of the function: called once or twice, calling itself or not, any
\* place of the hook, under a fork server or started from a shell.
AnyUse == [calls : 1..2, recursive : BOOLEAN, hook : {"none", "loop", "body"},
           parent : BOOLEAN]

\* A function the target calls twice.
TwoCalls ==
  {[calls |-> 2, recursive |-> FALSE, hook |-> "none", parent |-> TRUE]}

MCCounts == 1..3
MCValues == 0..1
=============================================================================
