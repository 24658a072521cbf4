-------------------------- MODULE BasicBlocksProofs --------------------------
(***************************************************************************)
(* Theorems about the grouping of basic blocks, for every set of control   *)
(* flow graphs that CfgsAssumption allows.                                 *)
(***************************************************************************)
EXTENDS BasicBlocks, SequenceTheorems, FiniteSetTheorems, FunctionTheorems,
        TLAPS

\* Lists hold visited blocks only.
VisitedOnly == \A g \in groups : Members(g) \cap todo = {}

\* A visited block that does not continue another one heads a list.
HeadsGrouped ==
  \A b \in cfg.blocks \ todo :
    ~Detached(b) /\ ~Continues(b) => \E g \in groups : g[1] = b

\* A visited block is in a list, if all its predecessors are in the function.
VisitedGrouped ==
  CallsReturnInside(cfg) =>
    \A b \in cfg.blocks \ todo :
      ~Detached(b) => \E g \in groups : b \in Members(g)

\* Both loops run to their ends.
Progress ==
  /\ pc # "group" => todo = {}
  /\ pc # "done" => instrumented_locations = 0
  /\ pc = "done" => /\ traced = {HeadBlock(g) : g \in groups}
                    /\ instrumented_locations = Cardinality(groups)

IInv ==
  /\ TypeOK /\ cfg \in Cfgs /\ IsFiniteSet(groups)
  /\ VisitedOnly /\ InOneGroup /\ GroupsAreChains
  /\ HeadsGrouped /\ VisitedGrouped /\ Progress

-----------------------------------------------------------------------------
\* A list with one block.
LEMMA NewGroup ==
  ASSUME NEW S, NEW b \in S
  PROVE  <<b>> \in Seq(S) \ {<<>>} /\ DOMAIN <<b>> = {1} /\ <<b>>[1] = b
OBVIOUS

\* Appending a block keeps the list's members and adds one.
LEMMA AppendedGroup ==
  ASSUME NEW S, NEW g \in Seq(S) \ {<<>>}, NEW b \in S
  PROVE  /\ Append(g, b) \in Seq(S) \ {<<>>}
         /\ DOMAIN g = 1..Len(g) /\ Len(g) \in Nat /\ 1 \in DOMAIN g
         /\ DOMAIN Append(g, b) = 1..(Len(g) + 1)
         /\ \A i \in DOMAIN g : Append(g, b)[i] = g[i] /\ g[i] \in S
         /\ Append(g, b)[Len(g) + 1] = b
         /\ Members(Append(g, b)) = Members(g) \cup {b}
<1>1. /\ Append(g, b) \in Seq(S) /\ Append(g, b) # <<>>
      /\ Len(Append(g, b)) = Len(g) + 1
      /\ \A i \in 1..Len(g) : Append(g, b)[i] = g[i]
      /\ Append(g, b)[Len(g) + 1] = b
  BY AppendProperties
<1>2. /\ Len(g) \in Nat /\ DOMAIN g = 1..Len(g) /\ g \in [1..Len(g) -> S]
  BY LenProperties
<1>3. DOMAIN Append(g, b) = 1..(Len(g) + 1)
  BY <1>1, LenProperties
<1>4. Len(g) # 0
  BY <1>2, EmptySeq
<1>5. Members(Append(g, b)) = Members(g) \cup {b}
  <2>1. ASSUME NEW x \in Members(Append(g, b)) PROVE x \in Members(g) \cup {b}
    <3>1. PICK i \in 1..(Len(g) + 1) : x = Append(g, b)[i]
      BY <2>1, <1>3 DEF Members
    <3>2. CASE i = Len(g) + 1
      BY <3>1, <3>2, <1>1
    <3>3. CASE i # Len(g) + 1
      <4>1. i \in 1..Len(g)
        BY <3>1, <3>3, <1>2
      <4> QED BY <4>1, <3>1, <1>1, <1>2 DEF Members
    <3> QED BY <3>2, <3>3
  <2>2. ASSUME NEW x \in Members(g) PROVE x \in Members(Append(g, b))
    <3>1. PICK i \in 1..Len(g) : x = g[i]
      BY <2>2, <1>2 DEF Members
    <3>2. i \in 1..(Len(g) + 1)
      BY <1>2
    <3> QED BY <3>1, <3>2, <1>1, <1>3 DEF Members
  <2>3. b \in Members(Append(g, b))
    BY <1>1, <1>2, <1>3 DEF Members
  <2> QED BY <2>1, <2>2, <2>3
<1> QED BY <1>1, <1>2, <1>3, <1>4, <1>5

-----------------------------------------------------------------------------
\* Before any block has been visited there is nothing to hold.
LEMMA InitInv == Init => IInv
<1> SUFFICES ASSUME Init PROVE IInv
  OBVIOUS
<1>1. cfg \in Cfg
  BY CfgsAssumption DEF Init
<1>2. TypeOK
  BY <1>1 DEF Init, AllBlocks, TypeOK
<1>3. IsFiniteSet(groups)
  BY FS_EmptySet DEF Init
<1> QED
  BY <1>2, <1>3 DEF Init, AllBlocks, IInv, VisitedOnly, InOneGroup, GroupsAreChains,
     HeadsGrouped, VisitedGrouped, Progress

\* A detached block leaves the lists alone.
LEMMA DetachedKeepsInv ==
  ASSUME IInv, NEW b \in todo, LeastAddress(b), pc = "group",
         todo' = todo \ {b}, VisitDetached(b),
         UNCHANGED <<cfg, pc, traced, instrumented_locations>>
  PROVE  IInv'
<1> USE DEF IInv, VisitDetached
<1>1. TypeOK'
  BY DEF TypeOK
<1>2. (VisitedOnly /\ InOneGroup /\ GroupsAreChains)'
  <2>1. \A x : /\ Continues(x)' = Continues(x)
               /\ ReturnsInto(x)' = ReturnsInto(x)
               /\ Incoming(x)' = Incoming(x)
    BY DEF Continues, ReturnsInto, Incoming, Outgoing, Types
  <2>2. GroupsAreChains'
    BY <2>1 DEF GroupsAreChains
  <2>3. InOneGroup' /\ VisitedOnly'
    BY DEF InOneGroup, VisitedOnly, Members
  <2> QED BY <2>2, <2>3
<1>3. HeadsGrouped'
  BY DEF HeadsGrouped, Detached, Continues, ReturnsInto, Incoming, Outgoing,
     Types
<1>4. VisitedGrouped'
  BY DEF VisitedGrouped, CallsReturnInside, Detached, Incoming, Outgoing,
     Members
<1>5. Progress'
  BY DEF Progress
<1> QED BY <1>1, <1>2, <1>3, <1>4, <1>5

\* A block that continues no other one starts a list.
LEMMA HeadKeepsInv ==
  ASSUME IInv, NEW b \in todo, LeastAddress(b), pc = "group",
         todo' = todo \ {b}, VisitHead(b),
         UNCHANGED <<cfg, pc, traced, instrumented_locations>>
  PROVE  IInv'
<1> USE DEF IInv
<1> DEFINE new == <<b>>
<1>1. /\ b \in cfg.blocks /\ groups' = groups \cup {new}
      /\ ~Detached(b) /\ ~Continues(b)
  BY DEF VisitHead, TypeOK
<1>2. /\ new \in Seq(cfg.blocks) \ {<<>>}
      /\ DOMAIN new = {1} /\ new[1] = b
  BY <1>1, NewGroup
<1>3. Members(new) = {b}
  BY <1>2 DEF Members
<1>4. TypeOK'
  BY <1>1, <1>2 DEF TypeOK
<1>5. VisitedOnly'
  BY <1>1, <1>3 DEF VisitedOnly, Members
<1>6. InOneGroup'
  <2>1. ASSUME NEW g \in groups, NEW i \in DOMAIN g PROVE g[i] # b
    BY DEF VisitedOnly, Members
  <2> QED BY <2>1, <1>1, <1>2 DEF InOneGroup
<1>7. GroupsAreChains'
  <2>1. \A x : Continues(x)' = Continues(x) /\ ReturnsInto(x)' = ReturnsInto(x)
               /\ Incoming(x)' = Incoming(x)
    BY DEF Continues, ReturnsInto, Incoming, Outgoing, Types
  <2> QED BY <2>1, <1>1, <1>2 DEF GroupsAreChains
<1>8. HeadsGrouped'
  <2>1. \A x : Continues(x)' = Continues(x) /\ Detached(x)' = Detached(x)
    BY DEF Continues, Detached, ReturnsInto, Incoming, Outgoing, Types
  <2> QED BY <2>1, <1>1, <1>2 DEF HeadsGrouped
<1>9. VisitedGrouped'
  <2>1. \A x : Detached(x)' = Detached(x)
    BY DEF Detached, Incoming, Outgoing
  <2> QED BY <2>1, <1>1, <1>3 DEF VisitedGrouped, CallsReturnInside, Members
<1>10. Progress'
  BY DEF Progress
<1>11. IsFiniteSet(groups)'
  BY <1>1, FS_AddElement
<1> QED BY <1>4, <1>5, <1>6, <1>7, <1>8, <1>9, <1>10, <1>11

\* A block that continues another one goes to the end of that one's list: if
\* its predecessor were in the middle, the next member would be the block
\* itself, which is not in a list yet.
LEMMA ContinuationKeepsInv ==
  ASSUME IInv, NEW b \in todo, LeastAddress(b), pc = "group",
         todo' = todo \ {b}, VisitContinuation(b),
         UNCHANGED <<cfg, pc, traced, instrumented_locations>>
  PROVE  IInv'
<1> USE DEF IInv
<1>1. PICK e \in ReturnsInto(b) :
        groups' = {AppendAfter(g, e.src, b) : g \in groups}
  BY DEF VisitContinuation
<1>2. b \in cfg.blocks /\ ~Detached(b) /\ Continues(b)
  BY DEF VisitContinuation, TypeOK
<1>3. e \in cfg.edges /\ e.dst = b /\ e.type = "Fallthrough"
  BY DEF ReturnsInto, Incoming
<1>4. e.src \in Nat /\ b \in Nat /\ e.src < b
  <2>1. e.src \in Address /\ b \in Address /\ e.src < b
    BY <1>3, CfgsAssumption
  <2>2. Address \subseteq Nat
    BY AddressAssumption
  <2> QED BY <2>1, <2>2
<1> DEFINE After(g) == AppendAfter(g, e.src, b)
<1>5. \A x : /\ Continues(x)' = Continues(x) /\ ReturnsInto(x)' = ReturnsInto(x)
             /\ Incoming(x)' = Incoming(x) /\ Detached(x)' = Detached(x)
  BY DEF Continues, Detached, ReturnsInto, Incoming, Outgoing, Types
<1>6. ASSUME NEW g \in groups
      PROVE  /\ g \in Seq(cfg.blocks) \ {<<>>} /\ b \notin Members(g)
             /\ DOMAIN g = 1..Len(g) /\ Len(g) \in Nat /\ 1 \in DOMAIN g
  BY AppendedGroup, <1>2 DEF TypeOK, VisitedOnly
<1>7. ASSUME NEW g \in groups
      PROVE  /\ After(g) \in Seq(cfg.blocks) \ {<<>>}
             /\ DOMAIN g \subseteq DOMAIN After(g)
             /\ \A i \in DOMAIN g : After(g)[i] = g[i]
             /\ \A i \in DOMAIN After(g) \ DOMAIN g :
                  i = Len(g) + 1 /\ After(g)[i] = b /\ e.src \in Members(g)
             /\ Members(g) \subseteq Members(After(g))
             /\ Members(After(g)) \subseteq Members(g) \cup {b}
             /\ e.src \in Members(g) => b \in Members(After(g))
  <2>1. CASE e.src \in Members(g)
    <3>1. After(g) = Append(g, b)
      BY <2>1 DEF AppendAfter
    <3> HIDE DEF After
    <3>2. /\ Append(g, b) \in Seq(cfg.blocks) \ {<<>>}
          /\ DOMAIN g = 1..Len(g) /\ Len(g) \in Nat
          /\ DOMAIN Append(g, b) = 1..(Len(g) + 1)
          /\ \A i \in DOMAIN g : Append(g, b)[i] = g[i]
          /\ Append(g, b)[Len(g) + 1] = b
          /\ Members(Append(g, b)) = Members(g) \cup {b}
      BY <1>2, <1>6, AppendedGroup
    <3> QED BY <2>1, <3>1, <3>2
  <2>2. CASE e.src \notin Members(g)
    BY <2>2, <1>6 DEF AppendAfter
  <2> QED BY <2>1, <2>2
<1> HIDE DEF After
<1>8. groups' = {After(g) : g \in groups}
  BY <1>1 DEF After
<1>9. TypeOK'
  <2>1. groups' \subseteq Seq(cfg'.blocks) \ {<<>>}
    BY <1>7, <1>8
  <2> QED BY <2>1 DEF TypeOK
<1>10. VisitedOnly'
  BY <1>7, <1>8 DEF VisitedOnly
<1>11. InOneGroup'
  <2> SUFFICES ASSUME NEW g \in groups, NEW h \in groups,
                      NEW i \in DOMAIN After(g), NEW j \in DOMAIN After(h),
                      After(g)[i] = After(h)[j]
               PROVE  After(g) = After(h) /\ i = j
    BY <1>8 DEF InOneGroup
  <2>1. CASE i \in DOMAIN g /\ j \in DOMAIN h
    BY <2>1, <1>7 DEF InOneGroup
  <2>2. CASE i \notin DOMAIN g /\ j \notin DOMAIN h
    <3>1. e.src \in Members(g) /\ e.src \in Members(h)
      BY <2>2, <1>7
    <3>2. g = h
      BY <3>1 DEF InOneGroup, Members
    <3> QED BY <2>2, <3>2, <1>7
  <2>3. CASE i \in DOMAIN g /\ j \notin DOMAIN h
    <3>1. g[i] = b
      BY <2>3, <1>7
    <3> QED BY <3>1, <2>3, <1>6 DEF Members
  <2>4. CASE i \notin DOMAIN g /\ j \in DOMAIN h
    <3>1. h[j] = b
      BY <2>4, <1>7
    <3> QED BY <3>1, <2>4, <1>6 DEF Members
  <2> QED BY <2>1, <2>2, <2>3, <2>4
<1>12. GroupsAreChains'
  <2> SUFFICES ASSUME NEW g \in groups, NEW i \in DOMAIN After(g)
               PROVE  IF i = 1 THEN ~Continues(After(g)[i])
                      ELSE /\ \E f \in ReturnsInto(After(g)[i]) :
                                f.src = After(g)[i - 1]
                           /\ \A f \in Incoming(After(g)[i]) : f.type # "Branch"
    BY <1>5, <1>8 DEF GroupsAreChains
  <2>1. CASE i \in DOMAIN g
    <3>1. i # 1 => i - 1 \in DOMAIN g
      BY <2>1, <1>6
    <3> QED BY <2>1, <3>1, <1>7 DEF GroupsAreChains
  <2>2. CASE i \notin DOMAIN g
    <3>1. i = Len(g) + 1 /\ After(g)[i] = b /\ e.src \in Members(g)
      BY <2>2, <1>7
    <3>2. PICK j \in DOMAIN g : g[j] = e.src
      BY <3>1 DEF Members
    <3>3. CASE j = Len(g)
      <4>1. i # 1 /\ i - 1 = j
        BY <3>1, <3>3, <1>6
      <4>2. After(g)[i - 1] = e.src
        BY <4>1, <3>2, <1>7
      <4>3. \A f \in Incoming(b) : f.type # "Branch"
        BY <1>2 DEF Continues, Types
      <4> QED BY <3>1, <4>1, <4>2, <4>3
    <3>4. CASE j # Len(g)
      <4>1. j + 1 \in DOMAIN g /\ j + 1 # 1 /\ (j + 1) - 1 = j
        BY <3>4, <1>6
      <4>2. PICK f \in ReturnsInto(g[j + 1]) : f.src = g[j]
        BY <4>1 DEF GroupsAreChains
      <4>3. f \in cfg.edges /\ f.dst = g[j + 1] /\ f.type = "Fallthrough"
        BY <4>2 DEF ReturnsInto, Incoming
      <4>4. f = e
        BY <4>2, <4>3, <3>2, <1>3, CfgsAssumption
      <4>5. g[j + 1] = b
        BY <4>3, <4>4, <1>3
      <4> QED BY <4>1, <4>5, <1>6 DEF Members
    <3> QED BY <3>3, <3>4
  <2> QED BY <2>1, <2>2
<1>13. HeadsGrouped'
  <2> SUFFICES ASSUME NEW x \in cfg.blocks \ todo', ~Detached(x), ~Continues(x)
               PROVE  \E g \in groups' : g[1] = x
    BY <1>5 DEF HeadsGrouped
  <2>1. x \in cfg.blocks \ todo
    BY <1>2
  <2>2. PICK g \in groups : g[1] = x
    BY <2>1 DEF HeadsGrouped
  <2>3. After(g)[1] = x /\ After(g) \in groups'
    BY <2>2, <1>6, <1>7, <1>8
  <2> QED BY <2>3
<1>14. VisitedGrouped'
  <2> SUFFICES ASSUME CallsReturnInside(cfg),
                      NEW x \in cfg.blocks \ todo', ~Detached(x)
               PROVE  \E g \in groups' : x \in Members(g)
    BY <1>5 DEF VisitedGrouped, Members
  <2>1. CASE x = b
    <3>1. e.src \in cfg.blocks
      BY <1>3, <1>2 DEF CallsReturnInside, ReturnsInto, Types, Outgoing
    <3>2. e.src \notin todo
      <4> DEFINE s == e.src
      <4>1. s \in Nat /\ b \in Nat /\ s < b
        BY <1>4
      <4> HIDE DEF s
      <4>2. ~(b <= s)
        BY <4>1
      <4>3. s \notin todo
        BY <4>2 DEF LeastAddress
      <4> QED BY <4>3 DEF s
    <3>3. ~Detached(e.src)
      BY <1>3 DEF Detached, Outgoing
    <3>4. PICK g \in groups : e.src \in Members(g)
      BY <3>1, <3>2, <3>3 DEF VisitedGrouped
    <3>5. b \in Members(After(g)) /\ After(g) \in groups'
      BY <3>4, <1>7, <1>8
    <3> QED BY <2>1, <3>5
  <2>2. CASE x # b
    <3>1. PICK g \in groups : x \in Members(g)
      BY <2>2 DEF VisitedGrouped
    <3>2. x \in Members(After(g)) /\ After(g) \in groups'
      BY <3>1, <1>7, <1>8
    <3> QED BY <3>2
  <2> QED BY <2>1, <2>2
<1>15. Progress'
  BY DEF Progress
<1>16. IsFiniteSet(groups)'
  <2>1. [g \in groups |-> After(g)] \in Surjection(groups, groups')
    BY <1>8 DEF Surjection
  <2> QED BY <2>1, FS_Surjection
<1> QED BY <1>9, <1>10, <1>11, <1>12, <1>13, <1>14, <1>15, <1>16

\* The inserted trampolines, and the steps that change no list.
LEMMA OthersKeepInv ==
  ASSUME IInv, ReturnBlocks \/ AddTracing \/ UNCHANGED vars
  PROVE  IInv'
<1> USE DEF IInv
<1>1. cfg' = cfg /\ todo' = todo /\ groups' = groups
  BY DEF ReturnBlocks, AddTracing, vars
<1>2. TypeOK'
  <2>1. CASE ReturnBlocks
    BY <2>1 DEF ReturnBlocks, TypeOK
  <2>2. CASE AddTracing
    <3>1. \A g \in groups : HeadBlock(g) \in cfg.blocks
      BY AppendedGroup DEF TypeOK, HeadBlock
    <3>2. instrumented_locations' \in Nat
      BY <2>2, FS_CardinalityType DEF AddTracing, Insertions, TypeOK
    <3> QED BY <2>2, <3>1, <3>2 DEF AddTracing, TypeOK
  <2>3. CASE UNCHANGED vars
    BY <2>3 DEF vars, TypeOK
  <2> QED BY <2>1, <2>2, <2>3
<1>3. (VisitedOnly /\ InOneGroup /\ GroupsAreChains)'
  <2>1. \A x : /\ Continues(x)' = Continues(x)
               /\ ReturnsInto(x)' = ReturnsInto(x)
               /\ Incoming(x)' = Incoming(x)
    BY <1>1 DEF Continues, ReturnsInto, Incoming, Outgoing, Types
  <2>2. GroupsAreChains'
    BY <1>1, <2>1 DEF GroupsAreChains
  <2>3. InOneGroup' /\ VisitedOnly'
    BY <1>1 DEF InOneGroup, VisitedOnly, Members
  <2> QED BY <2>2, <2>3
<1>4. HeadsGrouped'
  BY <1>1 DEF HeadsGrouped, Detached, Continues, ReturnsInto, Incoming,
     Outgoing, Types
<1>5. VisitedGrouped'
  BY <1>1 DEF VisitedGrouped, CallsReturnInside, Detached, Incoming, Outgoing,
     Members
<1>6. Progress'
  <2>1. CASE ReturnBlocks
    BY <2>1 DEF Progress, ReturnBlocks
  <2>2. CASE AddTracing
    <3>1. Cardinality(groups) \in Nat
      BY FS_CardinalityType
    <3> QED BY <2>2, <3>1 DEF Progress, AddTracing, Insertions, HeadBlock
  <2>3. CASE UNCHANGED vars
    BY <2>3 DEF Progress, vars, HeadBlock
  <2> QED BY <2>1, <2>2, <2>3
<1> QED BY <1>1, <1>2, <1>3, <1>4, <1>5, <1>6

-----------------------------------------------------------------------------
\* The inductive invariant holds throughout.
THEOREM Invariance == Spec => []IInv
<1>1. IInv /\ [Next]_vars => IInv'
  <2> SUFFICES ASSUME IInv, [Next]_vars PROVE IInv'
    OBVIOUS
  <2>1. CASE Visit
    <3>1. PICK b \in todo :
            /\ LeastAddress(b) /\ todo' = todo \ {b}
            /\ VisitDetached(b) \/ VisitContinuation(b) \/ VisitHead(b)
      BY <2>1 DEF Visit
    <3>2. pc = "group" /\ UNCHANGED <<cfg, pc, traced, instrumented_locations>>
      BY <2>1 DEF Visit
    <3> QED
      BY <3>1, <3>2, DetachedKeepsInv, ContinuationKeepsInv, HeadKeepsInv
  <2>2. CASE ReturnBlocks \/ AddTracing \/ UNCHANGED vars
    BY <2>2, OthersKeepInv
  <2> QED BY <2>1, <2>2 DEF Next, Done
<1> QED BY <1>1, InitInv, PTL DEF Spec

\* Types of the grouping, for every control flow graph.
THEOREM TypeCorrect == Spec => []TypeOK
BY Invariance, PTL DEF IInv

\* No block is in two groups or twice in one.
THEOREM OneGroup == Spec => []InOneGroup
BY Invariance, PTL DEF IInv

\* Groups are chains of blocks joined by calls, and nothing jumps into one.
THEOREM Chains == Spec => []GroupsAreChains
BY Invariance, PTL DEF IInv

\* If no call of another function falls through into this one, every block
\* that is not detached is in a group.
THEOREM Grouped == Spec => []EveryBlockGroupedIfClosed
<1>1. IInv => EveryBlockGroupedIfClosed
  BY DEF IInv, EveryBlockGroupedIfClosed, EveryBlockGrouped, VisitedGrouped,
     Progress
<1> QED BY <1>1, Invariance, PTL

\* Every jump is recorded, for every control flow graph: no foreign call can
\* spoil that, as a block that is jumped to continues nothing.
THEOREM Recorded == Spec => []JumpsAreRecorded
<1>1. IInv => JumpsAreRecorded
  <2> SUFFICES ASSUME IInv, pc = "done", NEW e \in cfg.edges,
                      e.dst \in cfg.blocks,
                      \/ e.type = "Branch"
                      \/ e.type = "Fallthrough" /\ "Branch" \in Types(Outgoing(e.src))
               PROVE  e.dst \in traced
    BY DEF JumpsAreRecorded
  <2>1. ~Detached(e.dst)
    BY DEF Detached, Incoming
  <2>2. ~Continues(e.dst)
    <3>1. CASE e.type = "Branch"
      BY <3>1 DEF Continues, Types, Incoming
    <3>2. CASE e.type = "Fallthrough" /\ "Branch" \in Types(Outgoing(e.src))
      <4> SUFFICES ASSUME NEW f \in ReturnsInto(e.dst) PROVE FALSE
        BY DEF Continues
      <4>1. f \in cfg.edges /\ f.dst = e.dst /\ f.type = "Fallthrough"
            /\ Types(Outgoing(f.src)) = {"Call", "Fallthrough"}
        BY DEF ReturnsInto, Incoming
      <4>2. f = e
        BY <3>2, <4>1, CfgsAssumption DEF IInv
      <4> QED BY <3>2, <4>1, <4>2
    <3> QED BY <3>1, <3>2
  <2>3. PICK g \in groups : g[1] = e.dst
    BY <2>1, <2>2 DEF IInv, HeadsGrouped, Progress
  <2> QED BY <2>3 DEF IInv, Progress, HeadBlock
<1> QED BY <1>1, Invariance, PTL

\* The number printed is that of the trampolines: lists with the same head are
\* the same list.
THEOREM Counts == Spec => []CountsTrampolines
<1>1. IInv => CountsTrampolines
  <2> SUFFICES ASSUME IInv, pc = "done"
               PROVE  Cardinality(groups) = Cardinality(traced)
    BY DEF CountsTrampolines, IInv, Progress
  <2> DEFINE F == [g \in groups |-> HeadBlock(g)]
  <2>1. F \in Surjection(groups, traced)
    BY DEF IInv, Progress, Surjection
  <2>2. ASSUME NEW g \in groups, NEW h \in groups, F[g] = F[h] PROVE g = h
    <3>1. 1 \in DOMAIN g /\ 1 \in DOMAIN h
      BY AppendedGroup DEF IInv, TypeOK
    <3> QED BY <2>2, <3>1 DEF IInv, InOneGroup, HeadBlock
  <2>3. F \in Injection(groups, traced)
    BY <2>1, <2>2 DEF Injection, IsInjective, Surjection
  <2>4. ExistsBijection(groups, traced)
    BY <2>1, <2>3 DEF Bijection, ExistsBijection
  <2> QED BY <2>4, FS_Bijection DEF IInv
<1> QED BY <1>1, Invariance, PTL
=============================================================================
