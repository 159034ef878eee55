------------------------------- MODULE ReplayLanes -----------------------------
(***************************************************************************)
(* issueDVRReplayLanes: the replay lanes of the generations in the helper   *)
(* walk a recorded program in groups.  A generation has a current group (a  *)
(* PC and a mask) and a stack of deferred paths; a branch on which its      *)
(* lanes disagree defers one path, and the path is resumed when the other   *)
(* one reaches the join or has no lane left.                                *)
(*                                                                          *)
(* PCs are places in the program.  The operands of a branch are not         *)
(* modelled but what they say: each lane takes a branch or does not.  When  *)
(* operands are ready, when an instruction is decoded and a functional unit *)
(* free, and which lanes compute a usable address, is left open.  Registers *)
(* are HelperRegisters' matter, credits HelperThread's.                     *)
(***************************************************************************)
EXTENDS Naturals, Sequences, FiniteSets, SequencesExt

CONSTANTS
    Programs,           \* [uops, past, control, lanes]: see Program
    Generations,
    LanesPerGeneration,
    LanesPerCopy,       \* LanesPerVIRCopy
    VIRCapacity,
    StackEntries,       \* ReplayReconvergenceState::Entries
    HelperMaxUops       \* dvrHelperMaxUops

Kinds == {"compute", "branch", "jump", "load", "nop"}

\* past: continuePastFLR; control: loopControlPC.  A load is a tainted one; an
\* untainted load is skipped like a compute.  join: reconvergencePC, 0 if none.
\* lanes: how many of its lanes a generation launches.
Program(p) ==
    /\ p.uops \in Seq([kind : Kinds, target : Nat, join : Nat])
    /\ p.uops # <<>>
    /\ p.past \in BOOLEAN
    /\ p.control \in Nat
    /\ p.lanes \in 1 .. LanesPerGeneration

ASSUME ReplayLanesAssumption ==
    /\ \A p \in Programs : Program(p)
    /\ {LanesPerGeneration, LanesPerCopy, VIRCapacity, StackEntries,
        HelperMaxUops} \subseteq Nat \ {0}
    /\ Generations \subseteq Nat \ {0}

Lanes == Generations \X (0 .. LanesPerGeneration - 1)
CopyOf(l) == l[2] \div LanesPerCopy
Copies == {CopyOf(l) : l \in Lanes}
NoGeneration == 0

VARIABLES
    program,    \* the replay template
    taken,      \* per lane: the branches its operands take
    waiting,    \* lanes whose source value has yet to arrive
    helper,     \* the lanes in order, each lane, and a stack per generation
    issued      \* VIR copies that have not retired

vars == <<program, taken, waiting, helper, issued>>

Uops == program.uops
PCs == DOMAIN Uops

NoGroup == [pc |-> 0, mask |-> {}]
NoContext == [stack |-> <<>>, current |-> NoGroup]
NewLane == [pc |-> 1, index |-> 1, blocked |-> FALSE, uops |-> 0]

Init ==
    /\ program \in Programs
    /\ waiting = {l \in Lanes : l[2] < program.lanes}
    /\ taken \in [waiting -> SUBSET {pc \in PCs : Uops[pc].kind = "branch"}]
    /\ helper = [order   |-> <<>>,
                 lane    |-> [l \in Lanes |-> NewLane],
                 context |-> [g \in Generations |-> NoContext]]
    /\ issued = {}

(***************************************************************************)
(* Lanes and groups of a helper state h.  A lane that has ended is not in   *)
(* its order any more.                                                      *)
(***************************************************************************)
Live(h) == Range(h.order)
Of(h, g) == {l \in Live(h) : l[1] = g}
Open(h, g) == {l \in Of(h, g) : ~h.lane[l].blocked}
Parked(h) == {l \in Live(h) : h.lane[l].pc = 0}

End(h, lanes) == [h EXCEPT !.order = SelectSeq(@, LAMBDA l : l \notin lanes)]

InGroup(h, l) ==
    LET current == h.context[l[1]].current
    IN  /\ l \in Open(h, l[1])
        /\ current.pc # 0
        /\ h.lane[l].pc = current.pc
        /\ l \in current.mask

\* Faulty: an exhausted group is kept.
Refreshed_Kept(h, g) ==
    LET current == h.context[g].current
    IN  [h EXCEPT !.context[g].current.mask =
            {l \in Open(h, g) : l \in current.mask /\ h.lane[l].pc = current.pc}]

\* refreshCurrentGroup: the current group loses the lanes that left it; when
\* none is left, the first lane that may go on sets the PC.
Refreshed(h, g) ==
    LET current == h.context[g].current
        kept    == {l \in Open(h, g) : InGroup(h, l)}
        able    == SelectSeq(h.order, LAMBDA l : l \in Open(h, g)
                                                 /\ h.lane[l].pc # 0)
        first   == h.lane[Head(able)].pc
    IN  [h EXCEPT !.context[g].current =
            IF kept # {} THEN [pc |-> current.pc, mask |-> kept]
            ELSE IF able = <<>> THEN NoGroup
            ELSE [pc |-> first, mask |-> {l \in Open(h, g) :
                                             h.lane[l].pc = first}]]

(***************************************************************************)
(* The stack of deferred paths.                                             *)
(***************************************************************************)
Top(h, g) == Last(h.context[g].stack)

Pops(h, g) ==
    /\ h.context[g].stack # <<>>
    /\ \/ \E l \in Open(h, g) : h.lane[l].pc = Top(h, g).join
       \/ Open(h, g) \subseteq Top(h, g).mask

\* Faulty: the lanes of the deferred path stay where they were deferred.
Popped_Stay(h, g) ==
    LET frame == Top(h, g)
    IN  [h EXCEPT
           !.context[g] = [stack   |-> Front(@.stack),
                           current |-> [pc |-> frame.pc, mask |-> frame.mask]],
           !.lane = [l \in Lanes |->
               CASE l \in Of(h, g) /\ l \in frame.mask ->
                        [@[l] EXCEPT !.blocked = FALSE]
                 [] l \in Of(h, g) \ frame.mask /\ @[l].pc = frame.join ->
                        [@[l] EXCEPT !.blocked = TRUE]
                 [] OTHER -> @[l]]]

\* The deferred path becomes the current group, and the lanes at the join are
\* put aside.
Popped(h, g) ==
    LET frame == Top(h, g)
    IN  [h EXCEPT
           !.context[g] = [stack   |-> Front(@.stack),
                           current |-> [pc |-> frame.pc, mask |-> frame.mask]],
           !.lane = [l \in Lanes |->
               CASE l \in Of(h, g) /\ l \in frame.mask ->
                        [@[l] EXCEPT !.blocked = FALSE, !.pc = frame.pc]
                 [] l \in Of(h, g) \ frame.mask /\ @[l].pc = frame.join ->
                        [@[l] EXCEPT !.blocked = TRUE]
                 [] OTHER -> @[l]]]

AllPopped(h, g) ==
    LET PopAgain(state, frame) == IF Pops(state, g) THEN Popped(state, g)
                                  ELSE state
    IN  FoldLeft(PopAgain, h, h.context[g].stack)

(***************************************************************************)
(* The context of a step: the first lane, in order of arrival, whose stack  *)
(* has a path to resume; else the first one that is ready, parked ones      *)
(* included.                                                                *)
(***************************************************************************)
Preferred(h, ready) ==
    SelectSeq(h.order, LAMBDA l : Pops(h, l[1])) \o
    SelectSeq(h.order, LAMBDA l : ~h.lane[l].blocked /\ l \in ready)

(***************************************************************************)
(* Selection of the lanes that issue, in order of arrival: ready lanes of   *)
(* the current group, all of one copy that is free.  On the way lanes run   *)
(* out of their budget or of the program, and uops without an effect are    *)
(* passed over.                                                             *)
(***************************************************************************)
Beyond(pc) == {next \in PCs : /\ next >= pc
                              /\ Uops[next].kind # "nop"
                              /\ \A between \in pc .. next - 1 :
                                    Uops[between].kind = "nop"}

Expired(lane) == lane.uops >= HelperMaxUops

Visit(h, group, ready, l) ==
    LET lane    == h.lane[l]
        place   == CHOOSE next \in Beyond(lane.pc) : TRUE
        uops    == lane.uops + (place - lane.pc)
        dropped == \/ lane.pc \notin PCs
                   \/ Beyond(lane.pc) = {}
                   \/ place # lane.pc /\ uops >= HelperMaxUops
        matches == /\ l \in ready
                   /\ CopyOf(l) \notin issued
                   /\ group # <<>> => /\ h.lane[group[1]].index = place
                                      /\ CopyOf(group[1]) = CopyOf(l)
    IN  IF Len(group) = LanesPerCopy THEN [state |-> h, group |-> group]
        ELSE IF Expired(lane) THEN [state |-> End(h, {l}), group |-> group]
        ELSE IF ~InGroup(h, l) THEN [state |-> h, group |-> group]
        ELSE IF dropped THEN [state |-> End(h, {l}), group |-> group]
        ELSE [state |-> [h EXCEPT !.lane[l].pc = place, !.lane[l].index = place,
                                  !.lane[l].uops = uops],
              group |-> IF matches THEN Append(group, l) ELSE group]

\* Only lanes of context g are in a group that counts.
Selected(h, g, ready) ==
    LET Look(found, l) ==
            IF l[1] # g
            THEN [found EXCEPT !.state =
                     IF Len(found.group) < LanesPerCopy /\ Expired(@.lane[l])
                     THEN End(@, {l}) ELSE @]
            ELSE Visit(found.state, found.group, ready, l)
    IN  FoldLeft(Look, [state |-> h, group |-> <<>>], h.order)

(***************************************************************************)
(* Execution.  Lanes of a helper state move on or end.                      *)
(***************************************************************************)
Advanced(h, l, next) ==
    LET uops == h.lane[l].uops + 1
    IN  IF next \notin PCs \/ uops >= HelperMaxUops THEN End(h, {l})
        ELSE [h EXCEPT !.lane[l] = [@ EXCEPT !.pc = next, !.index = next,
                                             !.uops = uops]]

\* The uop at a lane's index, anything but a conditional branch.  A lane whose
\* address or result is of no use ends; so does one at its final load, unless
\* the program goes on past it: then it is parked until the value returns.
Execute(h, l, fails) ==
    LET index == h.lane[l].index
        uop   == Uops[index]
    IN  CASE l \in fails \/ uop.kind = "nop" -> End(h, {l})
          [] l \notin fails /\ uop.kind = "load" ->
                 IF program.past THEN [h EXCEPT !.lane[l].pc = 0]
                 ELSE End(h, {l})
          [] l \notin fails /\ uop.kind = "jump" ->
                 Advanced(h, l, uop.target)
          [] l \notin fails /\ uop.kind = "compute" ->
                 Advanced(h, l, index + 1)

NextOf(l, pc) == IF pc \in taken[l] THEN Uops[pc].target ELSE pc + 1

\* Taking a branch, a lane leaves the program, or the loop it replays.
Leaves(l, pc) ==
    \/ NextOf(l, pc) \notin PCs
    \/ program.past /\ (Uops[pc].target < pc \/ pc = program.control)

\* The lanes at the branch of the current group.
Deciding(h, g, pc) == {l \in Of(h, g) : InGroup(h, l) /\ h.lane[l].index = pc}

\* The loop compares with the index of the seed, which it has moved itself: the
\* lanes behind the seed are passed over, unless the seed leaves.
Committed(h, deciding, seed, pc) ==
    LET Place(l) == CHOOSE i \in DOMAIN h.order : h.order[i] = l
    IN  IF Leaves(seed, pc) THEN deciding
        ELSE {l \in deciding : Place(l) <= Place(seed)}

Commit(h, lanes, pc) ==
    LET Take(state, l) ==
            IF l \notin lanes THEN state
            ELSE IF Leaves(l, pc) THEN End(state, {l})
            ELSE Advanced(state, l, NextOf(l, pc))
    IN  FoldLeft(Take, h, h.order)

\* Faulty: the deferred lanes are not held back.
Deferred_Open(h, g, lanes, next, join) ==
    IF Len(h.context[g].stack) = StackEntries THEN End(h, lanes)
    ELSE [h EXCEPT !.context[g].stack =
             Append(@, [join |-> join, pc |-> next, mask |-> lanes])]

\* The lanes that go the other way are deferred; a full stack drops them.
Deferred(h, g, lanes, next, join) ==
    IF Len(h.context[g].stack) = StackEntries THEN End(h, lanes)
    ELSE [h EXCEPT
             !.context[g].stack = Append(@, [join |-> join, pc |-> next,
                                             mask |-> lanes]),
             !.lane = [l \in Lanes |-> IF l \in lanes
                                       THEN [@[l] EXCEPT !.blocked = TRUE]
                                       ELSE @[l]]]

\* A branch: next PCs, the deferred path, and then, the seed being at its next
\* uop already, that uop too.
Branched(h, g, deciding, seed, fails) ==
    LET pc      == h.lane[seed].index
        other   == {l \in deciding : NextOf(l, pc) # NextOf(seed, pc)}
        next    == NextOf(CHOOSE l \in other : TRUE, pc)
        moved   == Commit(h, Committed(h, deciding, seed, pc), pc)
        split   == IF other = {} \/ Uops[pc].join = 0 THEN moved
                   ELSE Refreshed(Deferred(moved, g, other, next,
                                           Uops[pc].join), g)
        at      == split.lane[seed].index
    IN  IF seed \notin Live(split) \/ Uops[at].kind = "branch" THEN split
        ELSE Execute(split, seed, fails)

Executed(h, group, fails) ==
    FoldLeft(LAMBDA state, l : Execute(state, l, fails), h, group)

(***************************************************************************)
(* Actions.                                                                 *)
(***************************************************************************)
\* enqueueReplayLane
Enter(l) ==
    LET current == helper.context[l[1]].current
        pc      == IF current.pc = 0 THEN 1 ELSE current.pc
    IN  /\ l \in waiting
        /\ waiting' = waiting \ {l}
        /\ helper' = [helper EXCEPT
                         !.order = Append(@, l),
                         !.context[l[1]].current =
                             [pc   |-> pc,
                              mask |-> IF pc = 1 THEN current.mask \cup {l}
                                       ELSE current.mask]]
        /\ UNCHANGED <<program, taken, issued>>

\* One call of issueDVRReplayLanes.  ready: the lanes whose operands are;
\* granted: the instruction is decoded and a functional unit is free.
Outcome(ready, granted, fails) ==
    LET preferred == Preferred(helper, ready)
        g         == IF preferred = <<>> THEN NoGeneration
                     ELSE Head(preferred)[1]
        resumed   == IF preferred = <<>> THEN helper
                     ELSE AllPopped(Refreshed(helper, g), g)
        found     == Selected(resumed, g, ready)
        h         == found.state
        seed      == found.group[1]
        pc        == h.lane[seed].index
        branch    == Uops[pc].kind = "branch"
        deciding  == Deciding(h, g, pc)
        admitted  == /\ found.group # <<>>
                     /\ branch => deciding # {} /\ deciding \subseteq ready
                     /\ granted
        executed  == IF branch THEN Branched(h, g, deciding, seed, fails)
                     ELSE Executed(h, found.group, fails)
    IN  IF admitted THEN [helper |-> Refreshed(executed, g),
                          issued |-> issued \cup {CopyOf(seed)}]
        ELSE [helper |-> h, issued |-> issued]

CanStep == helper.order # <<>> /\ Cardinality(issued) < VIRCapacity

Step(ready, granted, fails) ==
    LET outcome == Outcome(ready, granted, fails)
    IN  /\ CanStep
        /\ helper' = outcome.helper
        /\ issued' = outcome.issued
        /\ UNCHANGED <<program, taken, waiting>>

\* retireCompletedVIR
Retire(copy) ==
    /\ copy \in issued
    /\ issued' = issued \ {copy}
    /\ UNCHANGED <<program, taken, waiting, helper>>

\* resumeDependentLane
Resume(l) ==
    LET next == helper.lane[l].index + 1
    IN  /\ l \in Parked(helper)
        /\ helper' = IF next \notin PCs THEN End(helper, {l})
                     ELSE [helper EXCEPT !.lane[l] =
                              [@ EXCEPT !.pc = next, !.index = next,
                                        !.uops = @ + 1]]
        /\ UNCHANGED <<program, taken, waiting, issued>>

\* A destination that cannot be renamed ends the whole group; an address of no
\* use ends a lane, which only matters where it would not end anyway.
StepAny ==
    \E ready \in SUBSET Live(helper) :
        /\ Parked(helper) \subseteq ready
        /\ \/ Step(ready, FALSE, {})
           \/ \E fails \in IF program.past THEN SUBSET ready ELSE {{}, ready} :
                 Step(ready, TRUE, fails)

Next ==
    \/ \E l \in Lanes : Enter(l) \/ Resume(l)
    \/ StepAny
    \/ \E copy \in Copies : Retire(copy)

Spec == Init /\ [][Next]_vars

\* A step in which all operands are ready and a functional unit is free, and
\* the states where it changes something.
Running == Step(Live(helper), TRUE, {})
CanRun == /\ CanStep
          /\ Outcome(Live(helper), TRUE, {}) # [helper |-> helper,
                                                issued |-> issued]

\* Operands become ready and functional units free again and again (strong
\* fairness of Running), and copies retire at the end of their latency.
Scheduling ==
    /\ []<>CanRun => []<><<Running>>_vars
    /\ WF_vars(\E copy \in Copies : Retire(copy))

\* Every value returns.
FairSpec == Spec /\ Scheduling /\ WF_vars(\E l \in Lanes : Resume(l))

--------------------------------------------------------------------------------
Frames(g) == Range(helper.context[g].stack)

\* The stack says where every lane that is held back belongs: the lanes of a
\* deferred path are held until it is resumed, and no lane is on two paths.
DeferredHeld ==
    \A g \in Generations :
        LET stack == helper.context[g].stack
        IN  \A i \in DOMAIN stack :
                /\ \A l \in stack[i].mask \cap Of(helper, g) :
                       helper.lane[l].blocked
                /\ \A j \in DOMAIN stack \ {i} :
                       stack[i].mask \cap stack[j].mask \cap Of(helper, g) = {}

\* A lane walks its own path: whatever group it is issued with, deferred with
\* and resumed with, it goes through the program as its own branches say.
Where(l) ==
    LET frames == {frame \in Frames(l[1]) : l \in frame.mask}
        lane   == helper.lane[l]
    IN  IF l \in waiting \/ l \notin DOMAIN taken THEN 0
        ELSE IF l \notin Live(helper) THEN Len(Uops) + 1
        ELSE IF frames # {} THEN (CHOOSE frame \in frames : TRUE).pc
        ELSE IF lane.pc = 0 THEN lane.index ELSE lane.pc

Walk == INSTANCE LaneWalk WITH
    uops <- Uops, at <- [l \in Lanes |-> Where(l)]
OwnPath == Walk!Spec

\* Every lane that enters ends: at its final load, out of the program or out of
\* its budget.  It does where no branch has a join; where one has, it may not:
\* the lanes put aside at the join by Popped are in no mask, so that no later
\* pop releases them.
LanesEnd ==
    \A l \in Lanes :
        /\ \A pc \in PCs : Uops[pc].join = 0
        /\ l \in Live(helper)
        ~> l \notin Live(helper)
================================================================================
