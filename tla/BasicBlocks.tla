----------------------------- MODULE BasicBlocks -----------------------------
(***************************************************************************)
(* Where add_afl.py puts coverage trampolines in one function:             *)
(* get_basic_blocks groups the function's code blocks, visited by address, *)
(* so that a call does not end a block, and add_afl_block_tracing puts a   *)
(* trampoline at the head of each group.                                   *)
(*                                                                         *)
(* A block is named by its address.  The control flow graph is that of the *)
(* whole program; Outside stands for code without a block (an imported     *)
(* function, the target of an indirect jump).  The list `blocks' of the    *)
(* code is kept as a set of groups: their order only decides which random  *)
(* id a trampoline gets.                                                   *)
(***************************************************************************)
EXTENDS Integers, Sequences, FiniteSets

CONSTANTS
  Address,  \* addresses of code blocks
  Outside,  \* the end of an edge that is not a code block
  Cfgs      \* functions and control flow graphs that are explored

EdgeType == {"Branch", "Call", "Fallthrough", "Return"}
Edge     == [src : Address \cup {Outside}, dst : Address \cup {Outside},
             type : EdgeType]

ASSUME AddressAssumption == Address \subseteq Nat /\ Outside \notin Address

Cfg      == [blocks : SUBSET Address,   \* those of the function,
             entries : SUBSET Address,  \* function.get_entry_blocks()
             edges : SUBSET Edge]

ASSUME CfgsAssumption ==
  /\ Cfgs \subseteq Cfg
  /\ \A c \in Cfgs : IsFiniteSet(c.blocks) /\ c.entries \subseteq c.blocks
  \* Execution falls through to a block at a higher address ...
  /\ \A c \in Cfgs : \A e \in c.edges :
       e.type = "Fallthrough" => e.src \in Address /\ e.dst \in Address
                                 /\ e.src < e.dst
  \* ... and, as blocks do not overlap, from one block to one block.
  /\ \A c \in Cfgs : \A e, f \in c.edges :
       /\ e.type = "Fallthrough" /\ f.type = "Fallthrough"
       /\ e.src = f.src \/ e.dst = f.dst
       => e = f

VARIABLES
  cfg,
  pc,      \* "group" in get_basic_blocks, "insert", "done"
  todo,    \* blocks that get_basic_blocks has still to visit
  groups,  \* the lists in `blocks'
  traced,  \* blocks with a trampoline at their entry
  instrumented_locations

vars == <<cfg, pc, todo, groups, traced, instrumented_locations>>

TypeOK ==
  /\ cfg \in Cfg
  /\ pc \in {"group", "insert", "done"}
  /\ todo \subseteq cfg.blocks
  /\ groups \subseteq Seq(cfg.blocks) \ {<<>>}
  /\ traced \subseteq cfg.blocks
  /\ instrumented_locations \in Nat

\* function.get_all_blocks()
ModuleBlocks(c) == {e.src : e \in c.edges}    \* mutant: module.code_blocks
AllBlocks(c)    == c.blocks

Init ==
  /\ cfg \in Cfgs
  /\ pc = "group" /\ todo = AllBlocks(cfg)
  /\ groups = {} /\ traced = {} /\ instrumented_locations = 0

-----------------------------------------------------------------------------
Incoming(b) == {e \in cfg.edges : e.dst = b}
Outgoing(b) == {e \in cfg.edges : e.src = b}
Types(E)    == {e.type : e \in E}
Members(g)  == {g[i] : i \in DOMAIN g}

\* A block without any path to or from it, other than an entry block.
Detached(b) == Incoming(b) = {} /\ Outgoing(b) = {} /\ b \notin cfg.entries

\* Edges by which execution comes to b when a call before it has returned.
AnyFallthrough(b) ==           \* mutant: the source block is not looked at
  {e \in Incoming(b) : e.type = "Fallthrough"}
ReturnsInto(b) ==
  {e \in Incoming(b) : /\ e.type = "Fallthrough"
                       /\ Types(Outgoing(e.src)) = {"Call", "Fallthrough"}}

\* b continues the block before it: no jump leads to it, and a call does.
ContinuesDespiteJump(b) == ReturnsInto(b) # {}  \* mutant: jumps are ignored
Continues(b) == "Branch" \notin Types(Incoming(b)) /\ ReturnsInto(b) # {}

\* sorted(function.get_all_blocks(), key=lambda e: e.address)
Unsorted(b) == TRUE            \* mutant: blocks come in any order
LeastAddress(b) == \A c \in todo : b <= c

\* blocklist.append(block) for each list that has the source in it
AppendToAll(g, src, b) == Append(g, b)       \* mutant: no search for the source
AppendAfter(g, src, b) == IF src \in Members(g) THEN Append(g, b) ELSE g

VisitDetached(b) == Detached(b) /\ UNCHANGED groups

\* One of the sources is looked for; if no list has it, b is in no list.
VisitContinuation(b) ==
  /\ ~Detached(b) /\ Continues(b)
  /\ \E e \in ReturnsInto(b) :
       groups' = {AppendAfter(g, e.src, b) : g \in groups}

VisitHead(b) ==
  /\ ~Detached(b) /\ ~Continues(b)
  /\ groups' = groups \cup {<<b>>}

Visit ==
  /\ pc = "group"
  /\ \E b \in todo :
       /\ LeastAddress(b)
       /\ VisitDetached(b) \/ VisitContinuation(b) \/ VisitHead(b)
       /\ todo' = todo \ {b}
  /\ UNCHANGED <<cfg, pc, traced, instrumented_locations>>

ReturnBlocks ==
  /\ pc = "group" /\ todo = {}
  /\ pc' = "insert"
  /\ UNCHANGED <<cfg, todo, groups, traced, instrumented_locations>>

\* SingleBlockScope(blocklist[0], BlockPosition.ENTRY)
LastBlock(g) == g[Len(g)]      \* mutant: blocklist[-1]
HeadBlock(g) == g[1]

\* self.instrumented_locations is counted up for each group.
BlocksIn(G)   == Cardinality(UNION {Members(g) : g \in G})   \* mutant: blocks
Insertions(G) == Cardinality(G)

\* add_afl_block_tracing: a trampoline at the head of each group.
AddTracing ==
  /\ pc = "insert"
  /\ traced' = {HeadBlock(g) : g \in groups}
  /\ instrumented_locations' = instrumented_locations + Insertions(groups)
  /\ pc' = "done"
  /\ UNCHANGED <<cfg, todo, groups>>

Done == pc = "done" /\ UNCHANGED vars

Next == Visit \/ ReturnBlocks \/ AddTracing \/ Done

Spec == Init /\ [][Next]_vars

-----------------------------------------------------------------------------
\* No block is in two groups, or twice in one.
InOneGroup ==
  \A g \in groups, h \in groups : \A i \in DOMAIN g, j \in DOMAIN h :
    g[i] = h[j] => g = h /\ i = j

\* A group is a chain: each member is entered by a return from a call that the
\* member before it ends in, and no jump leads into the middle of the chain.
GroupsAreChains ==
  \A g \in groups : \A i \in DOMAIN g :
    IF i = 1 THEN ~Continues(g[i])
    ELSE /\ \E e \in ReturnsInto(g[i]) : e.src = g[i - 1]
         /\ \A e \in Incoming(g[i]) : e.type # "Branch"

\* Whenever a jump leads to a block of the function, or a conditional jump is
\* not taken and falls through to one, a trampoline records it.
JumpsAreRecorded ==
  pc = "done" => \A e \in cfg.edges :
    /\ e.dst \in cfg.blocks
    /\ \/ e.type = "Branch"
       \/ e.type = "Fallthrough" /\ "Branch" \in Types(Outgoing(e.src))
    => e.dst \in traced

\* The number that is printed counts trampolines, one to a block.
CountsTrampolines ==
  pc = "done" => instrumented_locations = Cardinality(traced)

\* No call in another function falls through into this one.
CallsReturnInside(c) ==
  \A e \in c.edges :
    /\ e.type = "Fallthrough" /\ e.dst \in c.blocks
    /\ {f.type : f \in {f \in c.edges : f.src = e.src}} = {"Call", "Fallthrough"}
    => e.src \in c.blocks

\* Every block that is not detached is in a group, so that a trampoline stands
\* before it: none is left out of the coverage.
EveryBlockGrouped ==
  pc # "group" =>
    \A b \in cfg.blocks : ~Detached(b) => \E g \in groups : b \in Members(g)

\* The same for a function into which no foreign call falls through.
EveryBlockGroupedIfClosed == CallsReturnInside(cfg) => EveryBlockGrouped
=============================================================================
