------------------------------ MODULE RunService ------------------------------
(***************************************************************************)
(* What a fork server promises to afl-fuzz, whatever processes, signals    *)
(* and pipes it is made of: one testcase at a time is handed over, the     *)
(* fuzzed code runs at most once for it and never at another moment, and   *)
(* every request ends with an answer or with the end of the service.  An   *)
(* answer is "complete" only if the fuzzed code did run.                   *)
(***************************************************************************)
EXTENDS Naturals

CONSTANT MaxExecs   \* bound: requests made

VARIABLES
  phase,    \* "starting", "ready", "busy" or "over"
  request,  \* number of the current testcase
  ran,      \* executions for it so far
  result    \* of the last request: "none" while busy, "complete" or "cut"

vars == <<phase, request, ran, result>>

\* "over" from the start: the program was not started by afl-fuzz.
Init ==
  /\ phase \in {"starting", "over"}
  /\ request = 0 /\ ran = 0 /\ result = "none"

Start ==
  /\ phase = "starting" /\ phase' = "ready"
  /\ UNCHANGED <<request, ran, result>>

Request ==
  /\ phase = "ready" /\ request < MaxExecs
  /\ phase' = "busy" /\ request' = request + 1 /\ ran' = 0 /\ result' = "none"

\* The run may still take place when afl-fuzz has left in the middle of it.
Execute ==
  /\ phase \in {"busy", "over"} /\ request > 0 /\ ran = 0
  /\ ran' = 1 /\ UNCHANGED <<phase, request, result>>

Answer ==
  /\ phase = "busy" /\ phase' = "ready"
  /\ \/ result' = "complete" /\ ran = 1
     \/ result' = "cut"
  /\ UNCHANGED <<request, ran>>

Close == phase # "over" /\ phase' = "over" /\ UNCHANGED <<request, ran, result>>

EndRequest == Answer \/ (phase = "busy" /\ Close)

Next == Start \/ Request \/ Execute \/ Answer \/ Close

Safe == Init /\ [][Next]_vars

Spec == Safe /\ WF_vars(EndRequest)
===============================================================================
