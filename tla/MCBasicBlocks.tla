---------------------------- MODULE MCBasicBlocks ----------------------------
EXTENDS BasicBlocks

\* Four blocks one after the other.
MCAddress == 1..4

\* What a block can end in, and where that leads.
Jumps     == [kind : {"jump", "cond"}, target : MCAddress]
Calls     == [kind : {"call"}, target : {3, Outside}]
OtherEnds == [kind : {"exit_call", "ret", "fall", "stop"}, target : {Outside}]
Ends      == Jumps \cup Calls \cup OtherEnds

\* Execution falls through to the next block only where there is one.
CanEnd(b) == {x \in Ends : x.kind \in {"cond", "call", "fall"} => b < 4}

FallsThrough(b) == [src |-> b, dst |-> b + 1, type |-> "Fallthrough"]
Leads(b, x, t)  == [src |-> b, dst |-> x.target, type |-> t]

EdgesOf(b, x) ==
  CASE x.kind = "jump" -> {Leads(b, x, "Branch")}
    [] x.kind = "cond" -> {Leads(b, x, "Branch"), FallsThrough(b)}
    [] x.kind = "call" -> {Leads(b, x, "Call"), FallsThrough(b)}
    [] x.kind = "exit_call" -> {Leads(b, x, "Call")}
    [] x.kind = "ret" -> {Leads(b, x, "Return")}
    [] x.kind = "fall" -> {FallsThrough(b)}
    [] OTHER -> {}

Program(fn, ends) ==
  [blocks |-> fn, entries |-> {CHOOSE b \in fn : \A c \in fn : b <= c},
   edges |-> UNION {EdgesOf(b, ends[b]) : b \in MCAddress}]

AllEnds == {f \in [MCAddress -> Ends] : \A b \in MCAddress : f[b] \in CanEnd(b)}

\* The whole program, the end of it, or a function with a gap.
MCCfgs == {Program(fn, f) : fn \in {1..4, 2..4, {1, 2, 4}}, f \in AllEnds}
=============================================================================
