------------------------------ MODULE NestedProofs -----------------------------
(***************************************************************************)
(* Theorems about NestedDiscovery, for every set of instructions and every  *)
(* value of the budgets.                                                    *)
(***************************************************************************)
EXTENDS NestedDiscovery, SequenceTheorems, WellFoundedInduction, TLAPS

--------------------------------------------------------------------------------
(* Least and greatest elements.                                             *)

\* A non-empty set of numbers has a least element, which Min chooses.
THEOREM MinProperties ==
    ASSUME NEW S \in SUBSET Nat, S # {}
    PROVE  Min(S) \in S /\ \A y \in S : Min(S) <= y
<1> DEFINE R == OpToRel(<, Nat)
<1>1. IsWellFoundedOn(R, Nat)
  BY NatLessThanWellFounded, Zenon
<1>2. PICK x \in S : \A y \in S : ~(<<y, x>> \in R)
  <2> HIDE DEF R
  <2> QED BY <1>1, WFMin, Zenon
<1>3. \A y \in S : x <= y
  <2> TAKE y \in S
  <2>1. x \in Nat /\ y \in Nat
    OBVIOUS
  <2>2. ~(y < x)
    <3> SUFFICES ASSUME y < x PROVE FALSE
      OBVIOUS
    <3>1. <<y, x>> \in {z \in Nat \X Nat : z[1] < z[2]}
      BY <2>1
    <3> QED
      BY <1>2, <3>1 DEF OpToRel
  <2> QED
    BY <2>1, <2>2
<1> QED
  BY <1>3, Zenon DEF Min

\* A non-empty set of numbers up to n has a greatest element, which is the
\* one Max chooses.
THEOREM MaxProperties ==
    ASSUME NEW n \in Nat, NEW S \in SUBSET (0 .. n), S # {}
    PROVE  Max(S) \in S /\ \A y \in S : y <= Max(S)
<1> DEFINE T == {n - x : x \in S}
<1>1. T \in SUBSET Nat
  OBVIOUS
<1>2. T # {}
  BY Zenon
<1>3. Min(T) \in T /\ \A e \in T : Min(T) <= e
  <2> HIDE DEF T
  <2> QED
    BY <1>1, <1>2, MinProperties, Zenon
<1>4. PICK d \in T : \A e \in T : d <= e
  BY <1>3, Zenon
<1>5. PICK x \in S : d = n - x
  OBVIOUS
<1>6. \A y \in S : y <= x
  <2> TAKE y \in S
  <2>1. n - x <= n - y
    BY <1>4, <1>5
  <2> HIDE DEF T
  <2>2. S \subseteq Nat /\ x \in S /\ y \in S
    OBVIOUS
  <2> QED
    BY <2>1, <2>2
<1> QED
  BY <1>6 DEF Max

--------------------------------------------------------------------------------
(* The stride table and the Discovery controller.                           *)

\* The undo loop of the stride table keeps a prefix of its writes.
LEMMA WritesKeptRange ==
    ASSUME NEW t \in StrideRecord, NEW seq \in Nat
    PROVE  WritesKept(t, seq) \in 0 .. Len(t.writes)
<1> DEFINE S == {0} \cup {k \in DOMAIN t.writes : t.writes[k].sequence < seq}
<1>1. S \in SUBSET (0 .. Len(t.writes)) /\ S # {} /\ Len(t.writes) \in Nat
  BY DEF StrideRecord
<1>2. Max(S) \in S
  <2> HIDE DEF S
  <2> QED BY <1>1, MaxProperties, Zenon
<1> QED
  BY <1>1, <1>2 DEF WritesKept

\* Undoing and ending a generation returns a stride table; ending it clears
\* every bit and re-arms every trained PC.
LEMMA TableUndoTypes ==
    ASSUME NEW t \in StrideRecord, NEW seq \in Nat
    PROVE  /\ SquashDiscovery(t, seq) \in StrideRecord
           /\ EndDiscovery(t) \in StrideRecord
           /\ EndDiscovery(t).seen = {} /\ EndDiscovery(t).writes = <<>>
           /\ EndDiscovery(t).pending = EndDiscovery(t).trained
<1>1. SquashDiscovery(t, seq) \in StrideRecord
  <2> DEFINE kept == WritesKept(t, seq)
  <2>1. kept \in 0 .. Len(t.writes)
    BY WritesKeptRange
  <2>2. SubSeq(t.writes, 1, kept) \in Seq(DiscoverySeenWrite)
    BY <2>1, SubSeqProperties DEF StrideRecord
  <2> HIDE DEF kept
  <2>3. [t EXCEPT !.seen = @ \ {t.writes[k].pc : k \in (kept + 1) .. Len(t.writes)},
                  !.writes = SubSeq(@, 1, kept)] \in StrideRecord
    BY <2>2, Zenon DEF StrideRecord
  <2> QED
    BY <2>3 DEF SquashDiscovery, kept
<1>2. /\ EndDiscovery(t) \in StrideRecord
      /\ EndDiscovery(t).seen = {} /\ EndDiscovery(t).writes = <<>>
      /\ EndDiscovery(t).pending = EndDiscovery(t).trained
  <2> DEFINE empty == <<>>
  <2>1. empty \in Seq(DiscoverySeenWrite)
    OBVIOUS
  <2> HIDE DEF empty
  <2> DEFINE e == [t EXCEPT !.seen = {}, !.writes = empty, !.pending = t.trained]
  <2>2. e \in StrideRecord /\ e.seen = {} /\ e.writes = empty /\ e.pending = e.trained
    BY <2>1, Zenon DEF StrideRecord
  <2> QED
    BY <2>2, Zenon DEF EndDiscovery, empty
<1> QED
  BY <1>1, <1>2

\* Every method of the stride table returns a stride table.
LEMMA TableTypes ==
    ASSUME NEW t \in StrideRecord, NEW pc \in PCs, NEW seq \in Nat,
           NEW window \in BOOLEAN
    PROVE  /\ EmptyTable \in StrideRecord
           /\ Train(t, pc) \in StrideRecord
           /\ Untrain(t, pc) \in StrideRecord
           /\ Evict(t, pc) \in StrideRecord
           /\ TableObserveDispatch(t, pc, window, seq) \in StrideRecord
           /\ BeginDiscovery(t, pc) \in StrideRecord
           /\ SquashDiscovery(t, seq) \in StrideRecord
           /\ EndDiscovery(t) \in StrideRecord
<1>1. EmptyTable \in StrideRecord
  BY DEF EmptyTable, StrideRecord
<1>2. Train(t, pc) \in StrideRecord /\ Untrain(t, pc) \in StrideRecord
  BY Zenon DEF Train, Untrain, StrideRecord
<1>3. Evict(t, pc) \in StrideRecord
  BY Zenon DEF Evict, Untrain, StrideRecord
<1>4. TableObserveDispatch(t, pc, window, seq) \in StrideRecord
  <2>1. Append(t.writes, [sequence |-> seq, pc |-> pc]) \in
            Seq(DiscoverySeenWrite)
    BY AppendProperties DEF StrideRecord, DiscoverySeenWrite
  <2> QED
    BY <2>1, Zenon DEF TableObserveDispatch, StrideRecord
<1>5. BeginDiscovery(t, pc) \in StrideRecord
  <2> DEFINE empty == <<>>
  <2>1. empty \in Seq(DiscoverySeenWrite)
    OBVIOUS
  <2> HIDE DEF empty
  <2>2. [t EXCEPT !.seen = {pc}, !.writes = empty] \in StrideRecord
    BY <2>1, Zenon DEF StrideRecord
  <2> QED
    BY <2>2, Zenon DEF BeginDiscovery, empty
<1>6. SquashDiscovery(t, seq) \in StrideRecord /\ EndDiscovery(t) \in StrideRecord
  BY TableUndoTypes
<1> QED
  BY <1>1, <1>2, <1>3, <1>4, <1>5, <1>6

\* Every method of the controller returns a controller that has not reached
\* its instruction limit.
LEMMA ControllerTypes ==
    ASSUME NEW c \in Controller, c.instructions < MaxInstructions,
           NEW pc \in PCs, NEW seq \in Nat,
           NEW d, d \in {Finished, Arm(c, pc, seq), Restart(c, pc, seq),
                        ControllerObserveDispatch(c, pc, seq),
                        ControllerObserveCommit(c, seq), Rollback(c, seq)}
    PROVE  d \in Controller /\ d.instructions < MaxInstructions
<1> USE MaxInstructionsAssumption DEF Controller
<1>1. Finished \in Controller /\ Finished.instructions < MaxInstructions
  BY DEF Finished
<1>2. CASE d = Arm(c, pc, seq)
  BY <1>2 DEF Arm
<1>3. CASE d = Restart(c, pc, seq)
  BY <1>3 DEF Restart, Arm, Finished
<1>4. CASE d = ControllerObserveDispatch(c, pc, seq)
  BY <1>4 DEF ControllerObserveDispatch
<1>5. CASE d = ControllerObserveCommit(c, seq)
  <2>1. CASE CommitEvent(c, seq) = "None"
    BY <1>5, <2>1 DEF ControllerObserveCommit
  <2>2. CASE CommitEvent(c, seq) = "Counted"
    <3>1. c.instructions + 1 < MaxInstructions
      BY <2>2 DEF CommitEvent
    <3>2. d = [c EXCEPT !.instructions = @ + 1]
      BY <1>5, <2>2 DEF ControllerObserveCommit
    <3> QED
      BY <3>1, <3>2
  <2>3. CASE CommitEvent(c, seq) \notin {"None", "Counted"}
    BY <1>1, <1>5, <2>3 DEF ControllerObserveCommit
  <2> QED
    BY <2>1, <2>2, <2>3
<1>6. CASE d = Rollback(c, seq)
  BY <1>1, <1>6 DEF Rollback
<1> QED
  BY <1>1, <1>2, <1>3, <1>4, <1>5, <1>6

--------------------------------------------------------------------------------
\* s is a record of the nested state, as instDone() threads it.
IsState(s) ==
    s = [nested |-> s.nested, ndm |-> s.ndm, pending |-> s.pending,
         context |-> s.context, batch |-> s.batch, launch |-> s.launch]

\* launchDVRNestedPrefetches() touches neither controller.
LEMMA LaunchEffect ==
  ASSUME NEW s, IsState(s), NEW room
  PROVE  /\ IsState(LaunchNested(s, room))
         /\ LaunchNested(s, room).nested = s.nested
         /\ LaunchNested(s, room).ndm = s.ndm
         /\ LaunchNested(s, room).pending = s.pending
         /\ LaunchNested(s, room).context = s.context
  BY Zenon DEF LaunchNested, IsState

\* The outcome of a child leaves the stack alone and clears the context; it
\* leaves an idle NDM idle.
LEMMA ChildEffect ==
  ASSUME NEW s, IsState(s), NEW outcome, NEW room
  PROVE  /\ IsState(CompleteContext(s, outcome, room))
         /\ CompleteContext(s, outcome, room).nested = s.nested
         /\ CompleteContext(s, outcome, room).pending = s.pending
         /\ CompleteContext(s, outcome, room).context = NoContext
         /\ ~NDMActive(s.ndm) => ~NDMActive(CompleteContext(s, outcome, room).ndm)
<1> DEFINE c == ChildOutcome(s, outcome, room)
           pc == s.context.triggerPC
           ndm1 == IF HasLanes(outcome) THEN RecordOuterInvocation(s.ndm) ELSE s.ndm
           count == IF s.batch.triggerPC = pc THEN s.batch.count ELSE 0
           new == [triggerPC |-> pc, count |-> Least(count + 1, MaxOuterInvocations)]
           filled == [s EXCEPT !.ndm = ndm1, !.batch = new]
           done == IF PlanReady(ndm1) THEN FinishVectorization(ndm1) ELSE ndm1
<1>1. ~NDMActive(s.ndm) => ~NDMActive(ndm1) /\ ~NDMActive(done)
  BY DEF NDMActive, RecordOuterInvocation, PlanReady
<1>2. c \in {[s EXCEPT !.ndm = ndm1], filled,
             [LaunchNested(filled, room) EXCEPT !.ndm = done]}
  BY DEF ChildOutcome
<1> HIDE DEF ndm1, new, done
<1>3. IsState(filled) /\ filled.nested = s.nested /\ filled.ndm = ndm1
        /\ filled.pending = s.pending
  <2> DEFINE half == [s EXCEPT !.ndm = ndm1]
  <2>1. /\ IsState(half) /\ half.nested = s.nested /\ half.ndm = ndm1
        /\ half.pending = s.pending
    BY DEF IsState
  <2>2. filled = [half EXCEPT !.batch = new]
    OBVIOUS
  <2> HIDE DEF half, filled
  <2> QED
    BY <2>1, <2>2 DEF IsState
<1>4. /\ IsState(c) /\ c.nested = s.nested /\ c.ndm \in {ndm1, done}
      /\ c.pending = s.pending
  <2>1. CASE c = [s EXCEPT !.ndm = ndm1]
    BY <2>1 DEF IsState
  <2>2. CASE c = filled
    BY <2>2, <1>3
  <2>3. CASE c = [LaunchNested(filled, room) EXCEPT !.ndm = done]
    <3> DEFINE l == LaunchNested(filled, room)
    <3>1. IsState(l) /\ l.nested = s.nested /\ l.pending = s.pending
      BY <1>3, LaunchEffect, Zenon
    <3> HIDE DEF l
    <3>2. c = [l EXCEPT !.ndm = done]
      BY <2>3 DEF l
    <3> QED
      BY <3>1, <3>2 DEF IsState
  <2> QED
    BY <1>2, <2>1, <2>2, <2>3
<1>5. CompleteContext(s, outcome, room) = [c EXCEPT !.context = NoContext]
  BY DEF CompleteContext
<1> HIDE DEF c
<1> QED
  BY <1>1, <1>4, <1>5 DEF IsState

\* Admitting a candidate leaves NDM alone.
LEMMA AdmitEffect ==
  ASSUME NEW s, IsState(s), NEW pc, NEW seq
  PROVE  IsState(AdmitCandidate(s, pc, seq)) /\ AdmitCandidate(s, pc, seq).ndm = s.ndm
<1> DEFINE nested1 == IF NDMActive(s.ndm) /\ Depth(s.nested) = 0
                      THEN StartRoot(s.nested, seq) ELSE s.nested
           child == StartNested(nested1, pc, seq)
           con == [active |-> TRUE, id |-> nested1.nextId, triggerPC |-> pc,
                   triggerSequence |-> seq]
<1>1. AdmitCandidate(s, pc, seq) \in
        {[s EXCEPT !.nested = child, !.context = con, !.pending = NoCandidate],
         [s EXCEPT !.nested = nested1, !.pending = NoCandidate],
         [s EXCEPT !.pending = NoCandidate], s}
  BY DEF AdmitCandidate
<1> HIDE DEF nested1, child, con
<1> QED
  BY <1>1, Zenon DEF IsState

\* A root discovery that times out leaves NDM alone.
LEMMA TimedOutEffect ==
  ASSUME NEW s, IsState(s)
  PROVE  IsState(RootTimedOut(s)) /\ RootTimedOut(s).ndm = s.ndm
<1> DEFINE n == NestedReset(s.nested)
<1>1. RootTimedOut(s) \in {s, [s EXCEPT !.nested = n, !.context = NoContext]}
  BY DEF RootTimedOut
<1> HIDE DEF n
<1> QED
  BY <1>1, Zenon DEF IsState

--------------------------------------------------------------------------------
(* The inner Discovery and the outer search exclude each other.  The        *)
(* property is inductive as it stands: a begin checks NDMActive, a restart  *)
(* and a rollback reset NDM, and NDM starts in the commit that finishes the *)
(* controller.                                                              *)

\* A commit that does not complete the Discovery leaves an idle NDM idle.
LEMMA CommitLeavesIdle ==
  ASSUME NEW pc, NEW seq, NEW delta, NEW outcome, NEW lanes, NEW room,
         ~NDMActive(ndm), CommitEvent(ctl, seq) # "Completed",
         InstDone(pc, seq, delta, outcome, lanes, room)
  PROVE  ~NDMActive(ndm')
<1> DEFINE event == NestedEvent(nested, pc, seq)
           ended == event # "None" /\ context.active
                        /\ Top(nested).id = context.id
           ndm1 == ObserveInnerBranch(NDMObserveCommit(ndm), pc)
           ndm2 == IF NDMActive(ndm1) /\ pc \in Loads
                   THEN ObserveOuterLoad(ndm1, pc, delta) ELSE ndm1
           s1 == [nested |-> NestedObserveCommit(nested, pc, seq), ndm |-> ndm2,
                  pending |-> pending, context |-> context, batch |-> batch,
                  launch |-> NoLaunch]
           s2 == IF ended /\ event = "Completed"
                 THEN CompleteContext(s1, outcome, room) ELSE s1
           s3 == AdmitCandidate(s2, pc, seq)
           s4 == IF ended /\ event = "TimedOut" /\ s3.context.id = context.id
                 THEN [s3 EXCEPT !.context = NoContext] ELSE s3
<1>1. ndm' \in {s4.ndm, RootTimedOut(s4).ndm}
  <2> HIDE DEF s4
  <2>1. CASE CommitEvent(ctl, seq) = "TimedOut"
    BY <2>1, ZenonT(40) DEF InstDone, s4
  <2>2. CASE CommitEvent(ctl, seq) # "TimedOut"
    BY <2>2, ZenonT(40) DEF InstDone, s4
  <2> QED
    BY <2>1, <2>2
<1>2. ~NDMActive(ndm1) /\ ndm2 = ndm1
  BY DEF NDMActive, NDMObserveCommit, ObserveInnerBranch
<1>3. IsState(s1) /\ ~NDMActive(s1.ndm)
  BY <1>2, Zenon, SMTT(30) DEF IsState
<1>4. IsState(s2) /\ ~NDMActive(s2.ndm)
  BY <1>3, ChildEffect, Zenon, SMTT(30)
<1>5. IsState(s3) /\ ~NDMActive(s3.ndm)
  BY <1>4, AdmitEffect
<1>6. IsState(s4) /\ ~NDMActive(s4.ndm)
  <2> HIDE DEF s3
  <2> QED
    BY <1>5 DEF IsState
<1> QED
  BY <1>1, <1>6, TimedOutEffect, Zenon

\* Every step keeps the two apart.
LEMMA NextKeepsExclusion ==
  NDMExcludesDiscovery /\ [Next]_vars => NDMExcludesDiscovery'
<1> SUFFICES ASSUME NDMExcludesDiscovery, [Next]_vars PROVE NDMExcludesDiscovery'
  OBVIOUS
<1>1. CASE UNCHANGED <<ctl, ndm>>
  BY <1>1 DEF NDMExcludesDiscovery
<1>2. ASSUME NEW pc \in PCs, Dispatch(pc) PROVE NDMExcludesDiscovery'
  <2> DEFINE seen == ControllerObserveDispatch(ctl, pc, nextSeq)
  <2>1. seen.state = ctl.state
    BY DEF ControllerObserveDispatch, IsDiscovering
  <2>2. CASE UNCHANGED ndm /\ ctl' = seen
    BY <2>1, <2>2 DEF NDMExcludesDiscovery, IsDiscovering
  <2>3. ASSUME NEW next, BeginDVRDiscovery(pc, nextSeq, next, TRUE)
        PROVE  NDMExcludesDiscovery'
    BY <2>3 DEF BeginDVRDiscovery, NDMExcludesDiscovery, NDMActive, NDMReset
  <2>4. ASSUME NEW next, BeginDVRDiscovery(pc, nextSeq, next, FALSE), MayBegin(seen)
        PROVE  NDMExcludesDiscovery'
    BY <2>4 DEF BeginDVRDiscovery, NDMExcludesDiscovery, MayBegin
  <2> QED
    BY <1>2, <2>2, <2>3, <2>4, ZenonT(40) DEF Dispatch, ObserveDVRDispatch
<1>3. CASE Commit
  <2> DEFINE pc == insts[1].pc
             seq == insts[1].seq
  <2>1. PICK in : InstDone(pc, seq, in.delta, in.outcome, in.lanes, in.room)
    BY <1>3, SMTT(30) DEF Commit
  <2>2. ctl' = ControllerObserveCommit(ctl, seq)
    BY <2>1, Zenon DEF InstDone
  <2>3. CASE CommitEvent(ctl, seq) \in {"Completed", "TimedOut"}
    <3>1. ctl' = Finished
      BY <2>2, <2>3 DEF ControllerObserveCommit
    <3> QED
      BY <3>1 DEF NDMExcludesDiscovery, Finished, IsDiscovering
  <2>4. CASE CommitEvent(ctl, seq) \notin {"Completed", "TimedOut"}
    <3>1. CASE NDMActive(ndm)
      <4>1. ~IsDiscovering(ctl) /\ ctl' = ctl
        BY <2>2, <3>1 DEF NDMExcludesDiscovery, CommitEvent, ControllerObserveCommit
      <4> QED
        BY <4>1 DEF NDMExcludesDiscovery
    <3>2. CASE ~NDMActive(ndm)
      BY <2>1, <2>4, <3>2, CommitLeavesIdle DEF NDMExcludesDiscovery
    <3> QED
      BY <3>1, <3>2
  <2> QED
    BY <2>3, <2>4
<1>4. ASSUME NEW seq, SquashInstIt(seq) PROVE NDMExcludesDiscovery'
  BY <1>4, <1>1 DEF SquashInstIt, ndmVars, NDMReset, NDMActive, NDMExcludesDiscovery
<1>5. CASE SquashFromTrap
  BY <1>1, <1>4, <1>5, ZenonT(40) DEF SquashFromTrap, root, ndmVars
<1>6. CASE \/ \E k \in DOMAIN insts, pc \in PCs : ExecuteLoad(k, pc)
           \/ \E k \in DOMAIN insts : Squash(k)
           \/ Trap \/ UNCHANGED vars
  BY <1>1, <1>6 DEF ExecuteLoad, Squash, Trap, vars, root, ndmVars
<1> QED
  BY <1>2, <1>3, <1>5, <1>6 DEF Next

\* No Discovery runs while NDM searches, whatever is squashed or trapped.
THEOREM ExclusionHolds == Spec => []NDMExcludesDiscovery
<1>1. Init => NDMExcludesDiscovery
  BY DEF Init, NDMExcludesDiscovery, NDMActive, NDMReset
<1> QED
  BY <1>1, NextKeepsExclusion, PTL DEF Spec

--------------------------------------------------------------------------------
(* The child context is the second frame of the controller.  The inductive  *)
(* invariant adds the types of the two and that identifiers are fresh: a    *)
(* child admitted by the commit that times its predecessor out must not be  *)
(* taken for it.                                                            *)

Linked(n, c) ==
    /\ n \in Nested /\ c \in Context
    /\ Len(n.frames) <= 2
    /\ c.active <=> Len(n.frames) = 2
    /\ c.active => /\ c.id = n.frames[2].id /\ c.id < n.nextId
                   /\ c.triggerPC = n.frames[2].triggerPC
                   /\ c.triggerSequence = n.frames[2].triggerSequence
                   /\ n.frames[2].parentId = n.frames[1].id

\* The PCs and sequence numbers in flight, for the types of the frames.
StackInv ==
    /\ Linked(nested, context)
    /\ insts \in Seq([seq : Nat \ {0}, pc : PCs, skipped : BOOLEAN])
    /\ nextSeq \in Nat \ {0}

\* Ageing changes nothing but the counters.
LEMMA AgedFrames ==
  ASSUME NEW n \in Nested
  PROVE  /\ Aged(n) \in Nested /\ Len(Aged(n).frames) = Len(n.frames)
         /\ Aged(n).nextId = n.nextId
         /\ \A i \in DOMAIN n.frames :
               /\ Aged(n).frames[i].id = n.frames[i].id
               /\ Aged(n).frames[i].parentId = n.frames[i].parentId
               /\ Aged(n).frames[i].triggerPC = n.frames[i].triggerPC
               /\ Aged(n).frames[i].triggerSequence = n.frames[i].triggerSequence
<1> DEFINE old(i) == n.frames[i]
           older(i) == [old(i) EXCEPT !.committed = @ + 1]
           f == [i \in DOMAIN n.frames |-> older(i)]
<1>1. /\ n.frames \in Seq(Frame) /\ n.nextId \in Nat \ {0}
      /\ n = [frames |-> n.frames, nextId |-> n.nextId]
  BY DEF Nested
<1>2. ASSUME NEW i \in DOMAIN n.frames
      PROVE  /\ older(i) \in Frame /\ older(i).id = old(i).id
             /\ older(i).parentId = old(i).parentId
             /\ older(i).triggerPC = old(i).triggerPC
             /\ older(i).triggerSequence = old(i).triggerSequence
  <2>1. old(i) \in Frame
    BY <1>1, ElementOfSeq
  <2> HIDE DEF old
  <2> QED
    BY <2>1 DEF Frame
<1>3. DOMAIN n.frames = 1 .. Len(n.frames) /\ Len(n.frames) \in Nat
  BY <1>1, LenProperties
<1> HIDE DEF older
<1>4. f \in Seq(Frame) /\ Len(f) = Len(n.frames)
  <2>1. f \in [1 .. Len(n.frames) -> Frame]
    BY <1>2, <1>3
  <2> QED
    BY <1>3, <2>1, IsASeq, LenProperties
<1>5. Aged(n) = [frames |-> f, nextId |-> n.nextId]
  <2>1. Aged(n) = [n EXCEPT !.frames = f]
    BY Zenon DEF Aged, older, old
  <2> HIDE DEF f
  <2> QED
    BY <1>1, <2>1
<1>6. \A i \in DOMAIN n.frames : f[i] = older(i)
  OBVIOUS
<1> HIDE DEF f
<1>7. Aged(n).frames = f /\ Aged(n).nextId = n.nextId /\ Aged(n) \in Nested
  BY <1>1, <1>4, <1>5 DEF Nested
<1> QED
  BY <1>2, <1>4, <1>6, <1>7 DEF old

\* Popping keeps the frames below.
LEMMA PopFrames ==
  ASSUME NEW n \in Nested, n.frames # <<>>
  PROVE  /\ Pop(n) \in Nested /\ Len(Pop(n).frames) = Len(n.frames) - 1
         /\ Pop(n).nextId = n.nextId
<1> DEFINE f == SubSeq(n.frames, 1, Len(n.frames) - 1)
<1>1. /\ n.frames \in Seq(Frame) /\ n.nextId \in Nat \ {0}
      /\ n = [frames |-> n.frames, nextId |-> n.nextId]
  BY DEF Nested
<1>2. Len(n.frames) \in Nat \ {0}
  BY <1>1, EmptySeq, LenProperties
<1>3. f \in Seq(Frame) /\ Len(f) = Len(n.frames) - 1
  <2>1. \A i \in 1 .. (Len(n.frames) - 1) : n.frames[i] \in Frame
    BY <1>1, <1>2, ElementOfSeq
  <2>2. Len(f) = (IF 1 <= Len(n.frames) - 1 THEN Len(n.frames) - 1 ELSE 0)
          /\ f \in Seq(Frame)
    BY <1>1, <2>1, SubSeqProperties, Z3
  <2> QED
    BY <1>2, <2>2
<1>4. Pop(n) = [n EXCEPT !.frames = f]
  BY DEF Pop
<1> HIDE DEF f
<1> QED
  BY <1>1, <1>3, <1>4 DEF Nested

\* Pushing adds a fresh frame on top.
LEMMA PushFrames ==
  ASSUME NEW n \in Nested, NEW parent \in Nat, NEW pc \in PCs \cup {NoPC},
         NEW seq \in Nat
  PROVE  /\ Push(n, parent, pc, seq) \in Nested
         /\ Len(Push(n, parent, pc, seq).frames) = Len(n.frames) + 1
         /\ Len(n.frames) \in Nat /\ n.nextId \in Nat
         /\ Push(n, parent, pc, seq).nextId = n.nextId + 1
         /\ Push(n, parent, pc, seq).frames[Len(n.frames) + 1] =
               [id |-> n.nextId, parentId |-> parent, triggerPC |-> pc,
                triggerSequence |-> seq, committed |-> 0]
<1> DEFINE f == [id |-> n.nextId, parentId |-> parent, triggerPC |-> pc,
                 triggerSequence |-> seq, committed |-> 0]
<1>1. n.frames \in Seq(Frame) /\ n.nextId \in Nat \ {0} /\ f \in Frame
  BY DEF Nested, Frame
<1>2. Push(n, parent, pc, seq) = [frames |-> Append(n.frames, f), nextId |-> n.nextId + 1]
  BY DEF Push
<1> HIDE DEF f
<1>3. /\ Append(n.frames, f) \in Seq(Frame)
      /\ Len(Append(n.frames, f)) = Len(n.frames) + 1
      /\ Append(n.frames, f)[Len(n.frames) + 1] = f
      /\ Len(n.frames) \in Nat
  BY <1>1, AppendProperties, LenProperties
<1>4. /\ Push(n, parent, pc, seq).frames = Append(n.frames, f)
      /\ Push(n, parent, pc, seq).nextId = n.nextId + 1
      /\ Push(n, parent, pc, seq) \in Nested
  BY <1>1, <1>2, <1>3 DEF Nested
<1> QED
  BY <1>1, <1>3, <1>4 DEF f

\* A frame pushed on a lone root leaves the root at the bottom.
LEMMA PushOnRoot ==
  ASSUME NEW n \in Nested, Len(n.frames) = 1, NEW parent \in Nat,
         NEW pc \in PCs \cup {NoPC}, NEW seq \in Nat
  PROVE  Push(n, parent, pc, seq).frames[1] = n.frames[1]
<1> DEFINE f == [id |-> n.nextId, parentId |-> parent, triggerPC |-> pc,
                 triggerSequence |-> seq, committed |-> 0]
<1>1. n.frames \in Seq(Frame) /\ f \in Frame
  BY DEF Nested, Frame
<1>2. Push(n, parent, pc, seq).frames = Append(n.frames, f)
  BY DEF Push
<1> HIDE DEF f
<1>3. Append(n.frames, f)[1] = n.frames[1]
  BY <1>1, AppendProperties
<1> QED
  BY <1>2, <1>3

\* An inactive context goes with a stack that holds no child.
LEMMA InactiveLinked ==
  ASSUME NEW n \in Nested, Len(n.frames) < 2, NEW c \in Context, ~c.active
  PROVE  Linked(n, c)
<1> DEFINE len == Len(n.frames)
<1>1. len \in Nat /\ len < 2
  BY LenProperties DEF Nested
<1> HIDE DEF len
<1>2. len <= 2 /\ len # 2
  BY <1>1
<1> QED
  BY <1>2, ZenonT(40) DEF Linked, len

\* The cleared context is a context, and inactive.
LEMMA NoContextType == NoContext \in Context /\ ~NoContext.active
  BY DEF NoContext, Context

\* A reset of both keeps the link.
LEMMA ResetLinked ==
  ASSUME NEW n \in Nested
  PROVE  Linked(NestedReset(n), NoContext)
<1> DEFINE empty == <<>>
<1>1. empty \in Seq(Frame) /\ Len(empty) = 0
  BY EmptySeq
<1>2. NestedReset(n) = [n EXCEPT !.frames = empty]
  BY Zenon DEF NestedReset
<1> HIDE DEF empty
<1>3. NestedReset(n) \in Nested /\ Len(NestedReset(n).frames) = 0
  BY <1>1, <1>2, Zenon DEF Nested
<1> QED
  BY <1>3, NoContextType, InactiveLinked

\* The first frame pushed is the only one.
LEMMA FirstFrame ==
  ASSUME NEW n \in Nested, Len(n.frames) = 0, NEW seq \in Nat
  PROVE  /\ Push(n, 0, NoPC, seq) \in Nested
         /\ Len(Push(n, 0, NoPC, seq).frames) = 1
<1>1. 0 + 1 = 1 /\ 0 \in Nat /\ NoPC \in PCs \cup {NoPC}
  OBVIOUS
<1> QED
  BY <1>1, PushFrames, ZenonT(40)

\* A root frame is only pushed on an empty stack, so it is no child.
LEMMA RootStarts ==
  ASSUME NEW n, NEW c, Linked(n, c), NEW seq \in Nat
  PROVE  Linked(StartRoot(n, seq), c)
<1>1. CASE Len(n.frames) # 0
  BY <1>1 DEF StartRoot, Depth
<1>2. CASE Len(n.frames) = 0
  <2>1. StartRoot(n, seq) = Push(n, 0, NoPC, seq)
    BY <1>2 DEF StartRoot, Depth
  <2>2. n \in Nested /\ c \in Context /\ ~c.active
    BY <1>2 DEF Linked
  <2>3. 1 < 2
    OBVIOUS
  <2> QED
    BY <1>2, <2>1, <2>2, <2>3, FirstFrame, InactiveLinked, ZenonT(40)
<1> QED
  BY <1>1, <1>2

\* A child frame on a root goes with the context that AdmitCandidate builds.
LEMMA ChildStarts ==
  ASSUME NEW n \in Nested, Len(n.frames) = 1, NEW pc \in PCs, NEW seq \in Nat
  PROVE  Linked(StartNested(n, pc, seq),
                [active |-> TRUE, id |-> n.nextId, triggerPC |-> pc,
                 triggerSequence |-> seq])
<1> DEFINE c == [active |-> TRUE, id |-> n.nextId, triggerPC |-> pc,
                 triggerSequence |-> seq]
           p == Push(n, n.frames[1].id, pc, seq)
<1>1. n.frames \in Seq(Frame) /\ n.nextId \in Nat
  BY DEF Nested
<1>2. n.frames[1] \in Frame
  BY <1>1, ElementOfSeq
<1>3. n.frames[1].id \in Nat
  BY <1>2 DEF Frame
<1>4. StartNested(n, pc, seq) = p
  BY DEF StartNested, Depth, MaxDepth, Top
<1>5. /\ p \in Nested /\ Len(p.frames) = 2 /\ p.nextId = n.nextId + 1
      /\ p.frames[1] = n.frames[1]
      /\ p.frames[2] = [id |-> n.nextId, parentId |-> n.frames[1].id,
                        triggerPC |-> pc, triggerSequence |-> seq, committed |-> 0]
  <2>1. 1 + 1 = 2
    OBVIOUS
  <2>2. pc \in PCs \cup {NoPC}
    OBVIOUS
  <2>3. /\ p \in Nested /\ Len(p.frames) = Len(n.frames) + 1
        /\ p.nextId = n.nextId + 1
        /\ p.frames[1] = n.frames[1]
        /\ p.frames[Len(n.frames) + 1] =
              [id |-> n.nextId, parentId |-> n.frames[1].id,
               triggerPC |-> pc, triggerSequence |-> seq, committed |-> 0]
    <3> DEFINE parent == n.frames[1].id
    <3>1. parent \in Nat
      BY <1>3
    <3> HIDE DEF parent
    <3>2. p = Push(n, parent, pc, seq)
      BY DEF parent
    <3> HIDE DEF p
    <3>3. /\ p \in Nested /\ Len(p.frames) = Len(n.frames) + 1
          /\ p.nextId = n.nextId + 1
      BY <2>2, <3>1, <3>2, PushFrames, ZenonT(40)
    <3>4. p.frames[1] = n.frames[1]
      BY <2>2, <3>1, <3>2, PushOnRoot, ZenonT(40)
    <3>5. p.frames[Len(n.frames) + 1] =
              [id |-> n.nextId, parentId |-> parent,
               triggerPC |-> pc, triggerSequence |-> seq, committed |-> 0]
      BY <2>2, <3>1, <3>2, PushFrames, ZenonT(40)
    <3> QED
      BY <3>3, <3>4, <3>5, ZenonT(40) DEF parent
  <2> HIDE DEF p
  <2> QED
    BY <2>1, <2>3, ZenonT(40)
<1>6. c \in Context
  BY <1>1, Zenon, SMTT(30) DEF Context
<1> HIDE DEF p
<1> QED
  BY <1>1, <1>4, <1>5, <1>6 DEF Linked

\* Admitting a candidate keeps the link, or restores it under a lone root.
LEMMA AdmitLinked ==
  ASSUME NEW s, IsState(s), s.nested \in Nested, NEW pc \in PCs, NEW seq \in Nat
  PROVE  LET a == AdmitCandidate(s, pc, seq)
         IN  /\ Linked(s.nested, s.context) => Linked(a.nested, a.context)
             /\ Len(s.nested.frames) = 1 =>
                    \/ a.nested = s.nested /\ a.context = s.context
                    \/ Linked(a.nested, a.context) /\ a.context.id = s.nested.nextId
<1> DEFINE a == AdmitCandidate(s, pc, seq)
           admits == s.pending.valid /\ s.pending.sequence = seq /\ s.pending.pc = pc
           n == IF NDMActive(s.ndm) /\ Depth(s.nested) = 0
                THEN StartRoot(s.nested, seq) ELSE s.nested
           child == StartNested(n, pc, seq)
           con == [active |-> TRUE, id |-> n.nextId, triggerPC |-> pc,
                   triggerSequence |-> seq]
<1>1. Len(s.nested.frames) = 1 => n = s.nested
  BY DEF Depth
<1>2. CASE admits /\ Depth(n) = 1
  <2>1. a = [s EXCEPT !.nested = child, !.context = con, !.pending = NoCandidate]
    BY <1>2 DEF AdmitCandidate
  <2>2. n \in Nested /\ Len(n.frames) = 1
    <3>1. CASE n = s.nested
      BY <1>2, <3>1 DEF Depth
    <3>2. CASE n = StartRoot(s.nested, seq) /\ Len(s.nested.frames) = 0
      <4>1. n = Push(s.nested, 0, NoPC, seq)
        BY <3>2 DEF StartRoot, Depth
      <4> QED
        BY <3>2, <4>1, FirstFrame, ZenonT(40)
    <3> QED
      BY <3>1, <3>2 DEF Depth
  <2>3. Linked(child, con)
    <3> HIDE DEF n
    <3> QED
      BY <2>2, ChildStarts
  <2> HIDE DEF n, child, con, a
  <2>4. a.nested = child /\ a.context = con
    BY <2>1 DEF IsState
  <2>5. con.id = n.nextId
    BY DEF con
  <2> QED
    BY <1>1, <2>3, <2>4, <2>5, Zenon, SMTT(30) DEF a
<1>3. CASE admits /\ Depth(n) # 1
  <2>1. a = [s EXCEPT !.nested = n, !.pending = NoCandidate]
    BY <1>3 DEF AdmitCandidate
  <2>2. n = s.nested
    <3>1. ASSUME n = StartRoot(s.nested, seq), Len(s.nested.frames) = 0
          PROVE  FALSE
      <4>1. n = Push(s.nested, 0, NoPC, seq)
        BY <3>1 DEF StartRoot, Depth
      <4>2. Len(n.frames) = 1
        BY <3>1, <4>1, FirstFrame, ZenonT(40)
      <4> QED
        BY <1>3, <4>2 DEF Depth
    <3> QED
      BY <3>1 DEF Depth
  <2> HIDE DEF n, a
  <2>3. a.nested = s.nested /\ a.context = s.context
    BY <2>1, <2>2 DEF IsState
  <2> QED
    BY <2>3 DEF a
<1>4. CASE ~admits
  <2>1. a \in {s, [s EXCEPT !.pending = NoCandidate]}
    BY <1>4 DEF AdmitCandidate
  <2> HIDE DEF a
  <2>2. a.nested = s.nested /\ a.context = s.context
    BY <2>1 DEF IsState
  <2> QED
    BY <2>2 DEF a
<1> QED
  BY <1>2, <1>3, <1>4

\* The end of the root discovery keeps the link.
LEMMA RootEndLinked ==
  ASSUME NEW s, IsState(s), Linked(s.nested, s.context),
         NEW pc, NEW lanes, NEW outcome, NEW room
  PROVE  /\ Linked(RootTimedOut(s).nested, RootTimedOut(s).context)
         /\ Linked(RootCompleted(s, pc, lanes, outcome, room).nested,
                   RootCompleted(s, pc, lanes, outcome, room).context)
<1> DEFINE reset == NestedReset(s.nested)
<1>1. s.nested \in Nested /\ s.context \in Context
  BY Zenon DEF Linked
<1>2. Linked(reset, NoContext)
  BY <1>1, ResetLinked
<1>3. Linked(RootTimedOut(s).nested, RootTimedOut(s).context)
  <2> DEFINE r == RootTimedOut(s)
  <2>1. r \in {s, [s EXCEPT !.nested = reset, !.context = NoContext]}
    BY DEF RootTimedOut
  <2> HIDE DEF reset, r
  <2>2. \/ r.nested = s.nested /\ r.context = s.context
        \/ r.nested = reset /\ r.context = NoContext
    BY <2>1, Zenon DEF IsState
  <2> QED
    BY <1>2, <2>2, ZenonT(40) DEF r
<1>4. ASSUME NEW d, IsState(d), d.nested = s.nested,
             d.context \in {s.context, NoContext},
             NEW r, r = IF Depth(d.nested) > 1
                        THEN [d EXCEPT !.nested = NestedReset(@), !.context = NoContext]
                        ELSE IF Depth(d.nested) = 1 THEN [d EXCEPT !.nested = Pop(@)]
                        ELSE d
      PROVE  Linked(r.nested, r.context)
  <2> DEFINE len == Len(s.nested.frames)
             popped == Pop(s.nested)
  <2>1. len \in Nat /\ (len = 0 => s.nested.frames = <<>>)
    BY <1>1, LenProperties, EmptySeq DEF Nested
  <2>2. CASE len > 1
    <3>1. r = [d EXCEPT !.nested = reset, !.context = NoContext]
      BY <1>4, <2>2 DEF Depth
    <3> HIDE DEF reset
    <3>2. r.nested = reset /\ r.context = NoContext
      BY <1>4, <3>1, Zenon DEF IsState
    <3> QED
      BY <1>2, <3>2, ZenonT(40)
  <2>3. CASE ~(len > 1)
    <3>1. len # 2
      <4> HIDE DEF len
      <4> QED
        BY <2>1, <2>3
    <3>2. ~s.context.active
      BY <3>1, ZenonT(40) DEF Linked
    <3>3. d.context \in Context /\ ~d.context.active
      BY <1>1, <1>4, <3>2, NoContextType
    <3>4. CASE len = 1
      <4>1. r = [d EXCEPT !.nested = popped]
        BY <1>4, <2>3, <3>4 DEF Depth
      <4>2. popped \in Nested /\ Len(popped.frames) < 2
        <5>1. s.nested.frames # <<>>
          BY <3>4, EmptySeq
        <5>2. popped \in Nested /\ Len(popped.frames) = len - 1
          BY <1>1, <5>1, PopFrames, ZenonT(40)
        <5>3. 1 - 1 < 2
          OBVIOUS
        <5> QED
          BY <3>4, <5>2, <5>3, ZenonT(40)
      <4> HIDE DEF popped
      <4>3. r.nested = popped /\ r.context = d.context
        BY <1>4, <4>1, Zenon DEF IsState
      <4> QED
        BY <3>3, <4>2, <4>3, InactiveLinked, ZenonT(40)
    <3>5. CASE len # 1
      <4>1. r = d
        BY <1>4, <2>3, <3>5 DEF Depth
      <4>2. len < 2
        <5> HIDE DEF len
        <5> QED
          BY <2>1, <2>3
      <4> QED
        BY <1>1, <1>4, <3>3, <4>1, <4>2, InactiveLinked, ZenonT(40)
    <3> QED
      BY <3>4, <3>5
  <2> QED
    BY <2>2, <2>3
<1> DEFINE ndm1 == IF HasLanes(outcome) THEN RecordOuterInvocation(s.ndm) ELSE s.ndm
           ndm2 == IF lanes = "short" THEN NDMStart(ndm1, pc) ELSE NDMReset
           fin == FinishVectorization(ndm2)
           half == [s EXCEPT !.ndm = ndm2]
           launched == LaunchNested(half, room)
           capture == PlanReady(ndm2) /\ outcome \in {"rejected", "accepted"}
           done == IF capture
                   THEN [launched EXCEPT !.ndm = fin, !.context = NoContext]
                   ELSE half
<1>5. /\ IsState(done) /\ done.nested = s.nested
      /\ done.context \in {s.context, NoContext}
  <2> HIDE DEF ndm2, fin, capture
  <2>1. IsState(half) /\ half.nested = s.nested /\ half.context = s.context
    BY DEF IsState
  <2> HIDE DEF half
  <2>2. IsState(launched) /\ launched.nested = s.nested
    BY <2>1, LaunchEffect
  <2> HIDE DEF launched
  <2>3. CASE capture
    <3>1. done = [launched EXCEPT !.ndm = fin, !.context = NoContext]
      BY <2>3
    <3> HIDE DEF done
    <3> QED
      BY <2>2, <3>1, Zenon DEF IsState
  <2> QED
    BY <2>1, <2>3
<1>6. Linked(RootCompleted(s, pc, lanes, outcome, room).nested,
             RootCompleted(s, pc, lanes, outcome, room).context)
  <2> DEFINE r == RootCompleted(s, pc, lanes, outcome, room)
  <2>1. r = IF Depth(done.nested) > 1
            THEN [done EXCEPT !.nested = NestedReset(@), !.context = NoContext]
            ELSE IF Depth(done.nested) = 1 THEN [done EXCEPT !.nested = Pop(@)]
            ELSE done
    BY Zenon DEF RootCompleted
  <2> HIDE DEF done, r
  <2> QED
    BY <1>4, <1>5, <2>1, ZenonT(40) DEF r
<1> QED
  BY <1>3, <1>6

\* Ageing keeps the link.
LEMMA AgedLinked ==
  ASSUME NEW n, NEW c, Linked(n, c)
  PROVE  Linked(Aged(n), c)
<1> DEFINE a == Aged(n)
<1>1. n \in Nested /\ c \in Context
  BY Zenon DEF Linked
<1>2. /\ a \in Nested /\ Len(a.frames) = Len(n.frames) /\ a.nextId = n.nextId
      /\ \A i \in DOMAIN n.frames :
            /\ a.frames[i].id = n.frames[i].id
            /\ a.frames[i].parentId = n.frames[i].parentId
            /\ a.frames[i].triggerPC = n.frames[i].triggerPC
            /\ a.frames[i].triggerSequence = n.frames[i].triggerSequence
  BY <1>1, AgedFrames
<1> HIDE DEF a
<1>3. CASE Len(n.frames) = 2
  <2>1. 1 \in DOMAIN n.frames /\ 2 \in DOMAIN n.frames
    BY <1>1, <1>3, LenProperties DEF Nested
  <2> QED
    BY <1>2, <2>1, ZenonT(40) DEF Linked, a
<1>4. CASE Len(n.frames) # 2
  BY <1>2, <1>4, ZenonT(40) DEF Linked, a
<1> QED
  BY <1>3, <1>4

\* A commit keeps the link, whatever ends in it.
LEMMA CommitLinked ==
  ASSUME NEW pc \in PCs, NEW seq \in Nat, NEW delta, NEW outcome, NEW lanes,
         NEW room, Linked(nested, context),
         InstDone(pc, seq, delta, outcome, lanes, room)
  PROVE  Linked(nested', context')
<1> DEFINE event == NestedEvent(nested, pc, seq)
           ended == event # "None" /\ context.active
                        /\ Top(nested).id = context.id
           ndm1 == ObserveInnerBranch(NDMObserveCommit(ndm), pc)
           ndm2 == IF NDMActive(ndm1) /\ pc \in Loads
                   THEN ObserveOuterLoad(ndm1, pc, delta) ELSE ndm1
           observed == NestedObserveCommit(nested, pc, seq)
           s1 == [nested |-> observed, ndm |-> ndm2,
                  pending |-> pending, context |-> context, batch |-> batch,
                  launch |-> NoLaunch]
           s2 == IF ended /\ event = "Completed"
                 THEN CompleteContext(s1, outcome, room) ELSE s1
           s3 == AdmitCandidate(s2, pc, seq)
           s4 == IF ended /\ event = "TimedOut" /\ s3.context.id = context.id
                 THEN [s3 EXCEPT !.context = NoContext] ELSE s3
           s5 == CASE CommitEvent(ctl, seq) = "Completed" ->
                          RootCompleted(s4, pc, lanes, outcome, room)
                   [] CommitEvent(ctl, seq) = "TimedOut" -> RootTimedOut(s4)
                   [] OTHER -> s4
<1>1. nested' = s5.nested /\ context' = s5.context
  BY Zenon DEF InstDone
<1>2. /\ nested \in Nested /\ context \in Context
      /\ Len(nested.frames) \in Nat /\ Len(nested.frames) <= 2
      /\ nested.frames \in Seq(Frame)
  BY LenProperties DEF Linked, Nested
<1>3. IsState(s1) /\ s1.nested = observed /\ s1.context = context
  <2> HIDE DEF observed, ndm2
  <2> QED
    BY DEF IsState
<1>4. /\ Aged(nested) \in Nested /\ Linked(Aged(nested), context)
      /\ Aged(nested).nextId = nested.nextId
      /\ Len(Aged(nested).frames) = Len(nested.frames)
  BY <1>2, AgedFrames, AgedLinked
<1>5. event \in {"None", "Completed", "TimedOut"}
  BY Zenon, SMTT(30) DEF NestedEvent
<1>6. IsState(s2) /\ IsState(s3)
  <2> HIDE DEF s1
  <2> QED
    BY <1>3, ChildEffect, AdmitEffect, Zenon, SMTT(30)
<1>7. IsState(s4) /\ Linked(s4.nested, s4.context)
  <2> HIDE DEF s1, event
  <2>1. CASE event = "None"
    <3>1. observed = Aged(nested)
      BY <2>1 DEF NestedObserveCommit, event
    <3>2. s4 = s3 /\ s2 = s1
      BY <2>1
    <3> HIDE DEF observed, s2, s3, s4
    <3>3. Linked(s2.nested, s2.context) /\ s2.nested \in Nested
      BY <1>3, <1>4, <3>1, <3>2
    <3>4. Linked(s3.nested, s3.context)
      BY <1>6, <3>3, AdmitLinked DEF s3
    <3> QED
      BY <1>6, <3>2, <3>4
  <2>2. CASE event = "Completed"
    <3>1. observed = Pop(nested) /\ nested.frames # <<>> /\ Depth(nested) > 1
      BY <2>2 DEF NestedObserveCommit, NestedEvent, event
    <3>2. Len(nested.frames) = 2
      <4> DEFINE len == Len(nested.frames)
      <4>1. len \in Nat /\ len <= 2 /\ len > 1
        BY <1>2, <3>1, ZenonT(40) DEF Depth
      <4> HIDE DEF len
      <4>2. len = 2
        BY <4>1
      <4> QED
        BY <4>2 DEF len
    <3>3. ended
      <4>1. context.active /\ context.id = nested.frames[2].id
        BY <3>2, ZenonT(40) DEF Linked
      <4>2. Top(nested) = nested.frames[2]
        BY <3>2 DEF Top
      <4> QED
        BY <2>2, <4>1, <4>2
    <3>4. s2 = CompleteContext(s1, outcome, room) /\ s4 = s3
      BY <2>2, <3>3
    <3>5. observed \in Nested /\ Len(observed.frames) < 2
      <4>1. 2 - 1 < 2
        OBVIOUS
      <4>2. Pop(nested) \in Nested /\ Len(Pop(nested).frames) = 2 - 1
        BY <1>2, <3>1, <3>2, PopFrames, ZenonT(40)
      <4> QED
        BY <3>1, <4>1, <4>2, ZenonT(40)
    <3> HIDE DEF observed, s2, s3, s4
    <3>6. s2.nested = observed /\ s2.context = NoContext
      BY <1>3, <3>4, ChildEffect
    <3>7. Linked(s2.nested, s2.context) /\ s2.nested \in Nested
      BY <3>5, <3>6, NoContextType, InactiveLinked, ZenonT(40)
    <3>8. Linked(s3.nested, s3.context)
      BY <1>6, <3>7, AdmitLinked DEF s3
    <3> QED
      BY <1>6, <3>4, <3>8
  <2>3. CASE event = "TimedOut"
    <3>1. observed = Pop(Aged(nested)) /\ nested.frames # <<>>
      BY <2>3 DEF NestedObserveCommit, NestedEvent, event
    <3>2. Aged(nested).frames # <<>>
      BY <1>2, <1>4, <3>1, EmptySeq, LenProperties, Zenon, SMTT(30) DEF Nested
    <3>3. /\ observed \in Nested /\ observed.nextId = nested.nextId
          /\ Len(observed.frames) = Len(nested.frames) - 1
      BY <1>4, <3>1, <3>2, PopFrames
    <3>4. s2 = s1
      BY <2>3
    <3>5. Len(nested.frames) \in {1, 2}
      <4> DEFINE len == Len(nested.frames)
      <4>1. len \in Nat /\ len <= 2 /\ len # 0
        BY <1>2, <3>1, EmptySeq, ZenonT(40)
      <4> HIDE DEF len
      <4>2. len \in {1, 2}
        BY <4>1
      <4> QED
        BY <4>2 DEF len
    <3>6. CASE Len(nested.frames) = 1
      <4>1. ~context.active
        BY <3>6 DEF Linked
      <4>2. s4 = s3
        BY <4>1
      <4>3. 1 - 1 < 2
        OBVIOUS
      <4> HIDE DEF observed, s2, s3, s4
      <4>4. Linked(s2.nested, s2.context) /\ s2.nested \in Nested
        BY <1>2, <1>3, <3>3, <3>4, <3>6, <4>1, <4>3, InactiveLinked, ZenonT(40)
      <4>5. Linked(s3.nested, s3.context)
        BY <1>6, <4>4, AdmitLinked DEF s3
      <4> QED
        BY <1>6, <4>2, <4>5, Zenon, SMTT(30)
    <3>7. CASE Len(nested.frames) = 2
      <4>1. /\ context.active /\ context.id = nested.frames[2].id
            /\ context.id < nested.nextId
        BY <3>7, ZenonT(40) DEF Linked
      <4>2. ended
        BY <2>3, <3>7, <4>1 DEF Top
      <4>3. s4 = IF s3.context.id = context.id
                 THEN [s3 EXCEPT !.context = NoContext] ELSE s3
        BY <2>3, <4>2
      <4> HIDE DEF observed, s2, s3, s4
      <4>4. Len(observed.frames) = 1
        BY <3>3, <3>7
      <4>5. s2.nested = observed /\ s2.context = context
        BY <1>3, <3>4
      <4>6. \/ s3.nested = observed /\ s3.context = context
            \/ Linked(s3.nested, s3.context) /\ s3.context.id = nested.nextId
        BY <1>6, <3>3, <4>4, <4>5, AdmitLinked, ZenonT(40) DEF s3
      <4>7. nested.nextId # context.id
        <5>1. nested.nextId \in Nat /\ context.id \in Nat
          BY <1>2 DEF Nested, Context
        <5> QED
          BY <4>1, <5>1
      <4>8. CASE s3.nested = observed /\ s3.context = context
        <5>1. s4 = [s3 EXCEPT !.context = NoContext]
          BY <4>3, <4>8
        <5>2. IsState(s4) /\ s4.nested = observed /\ s4.context = NoContext
          BY <1>6, <4>8, <5>1 DEF IsState
        <5>3. 1 < 2
          OBVIOUS
        <5> QED
          BY <3>3, <4>4, <5>2, <5>3, NoContextType, InactiveLinked, ZenonT(40)
      <4>9. CASE Linked(s3.nested, s3.context) /\ s3.context.id = nested.nextId
        BY <1>6, <4>3, <4>7, <4>9
      <4> QED
        BY <4>6, <4>8, <4>9
    <3> QED
      BY <3>5, <3>6, <3>7
  <2> QED
    BY <1>5, <2>1, <2>2, <2>3 DEF event
<1> HIDE DEF s4
<1>8. Linked(s5.nested, s5.context)
  <2>1. CASE CommitEvent(ctl, seq) = "Completed"
    BY <1>7, <2>1, RootEndLinked, ZenonT(40)
  <2>2. CASE CommitEvent(ctl, seq) = "TimedOut"
    <3>1. s5 = RootTimedOut(s4)
      BY <2>2
    <3> QED
      BY <1>7, <3>1, RootEndLinked, ZenonT(40)
  <2>3. CASE CommitEvent(ctl, seq) \notin {"Completed", "TimedOut"}
    BY <1>7, <2>3
  <2> QED
    BY <2>1, <2>2, <2>3
<1> QED
  BY <1>1, <1>8

\* A hook at dispatch keeps the link.
LEMMA DispatchLinked ==
  ASSUME NEW pc \in PCs, NEW seq \in Nat, Linked(nested, context),
         ObserveDVRDispatch(pc, seq)
  PROVE  Linked(nested', context')
<1> DEFINE reset == NestedReset(nested)
<1>1. nested \in Nested
  BY Zenon DEF Linked
<1>2. ASSUME NEW next, BeginDVRDiscovery(pc, seq, next, TRUE)
      PROVE  Linked(nested', context')
  <2>1. nested' = StartRoot(reset, seq) /\ context' = NoContext
    BY <1>2, ZenonT(40) DEF BeginDVRDiscovery
  <2> QED
    BY <1>1, <2>1, ResetLinked, RootStarts, ZenonT(40)
<1>3. ASSUME NEW next, BeginDVRDiscovery(pc, seq, next, FALSE)
      PROVE  Linked(nested', context')
  <2>1. nested' = StartRoot(nested, seq) /\ context' = context
    BY <1>3 DEF BeginDVRDiscovery
  <2> QED
    BY <2>1, RootStarts, ZenonT(40)
<1>4. CASE UNCHANGED <<nested, context>>
  BY <1>4
<1> QED
  BY <1>2, <1>3, <1>4, ZenonT(40) DEF ObserveDVRDispatch

\* Every step keeps the strengthened invariant.
LEMMA NextKeepsStack == StackInv /\ [Next]_vars => StackInv'
<1> SUFFICES ASSUME StackInv, [Next]_vars PROVE StackInv'
  OBVIOUS
<1> DEFINE Inst == [seq : Nat \ {0}, pc : PCs, skipped : BOOLEAN]
<1>1. /\ Linked(nested, context) /\ nested \in Nested
      /\ insts \in Seq(Inst) /\ nextSeq \in Nat \ {0}
  BY Zenon DEF StackInv, Linked
<1>2. ASSUME NEW pc \in PCs, Dispatch(pc) PROVE StackInv'
  <2> DEFINE skips == commitStatus = "TrapPending"
             inst == [seq |-> nextSeq, pc |-> pc, skipped |-> skips]
  <2>1. skips \in BOOLEAN
    OBVIOUS
  <2>2. insts' = Append(insts, inst) /\ nextSeq' = nextSeq + 1
    BY <1>2 DEF Dispatch
  <2>3. ObserveDVRDispatch(pc, nextSeq)
    BY <1>2 DEF Dispatch
  <2> HIDE DEF skips
  <2>4. inst \in Inst
    BY <1>1, <2>1
  <2> HIDE DEF inst, Inst
  <2>5. insts' \in Seq(Inst)
    BY <1>1, <2>2, <2>4, AppendProperties
  <2>6. nextSeq' \in Nat \ {0} /\ nextSeq \in Nat
    BY <1>1, <2>2
  <2>7. Linked(nested', context')
    BY <1>1, <2>3, <2>6, DispatchLinked
  <2> QED
    BY <2>5, <2>6, <2>7, ZenonT(40) DEF StackInv, Inst, Linked
<1>3. CASE Commit
  <2> DEFINE head == insts[1]
  <2>1. insts # <<>> /\ insts' = Tail(insts) /\ nextSeq' = nextSeq
    BY <1>3 DEF Commit
  <2>2. PICK in : InstDone(head.pc, head.seq, in.delta, in.outcome, in.lanes, in.room)
    BY <1>3 DEF Commit
  <2>3. insts' \in Seq(Inst) /\ head \in Inst
    <3> HIDE DEF Inst
    <3> QED
      BY <1>1, <2>1, HeadTailProperties DEF Head
  <2> HIDE DEF head
  <2>4. head.pc \in PCs /\ head.seq \in Nat
    BY <2>3
  <2>5. Linked(nested', context')
    BY <1>1, <2>2, <2>4, CommitLinked, ZenonT(40)
  <2> QED
    BY <1>1, <2>1, <2>3, <2>5, ZenonT(40) DEF StackInv, Linked
<1>4. ASSUME NEW k \in DOMAIN insts, Squash(k) PROVE StackInv'
  <2>1. /\ insts' = SubSeq(insts, 1, k) /\ nextSeq' = nextSeq
        /\ nested' = nested /\ context' = context
    BY <1>4 DEF Squash, ndmVars
  <2>2. insts' \in Seq(Inst)
    <3> HIDE DEF Inst
    <3>1. k \in Int /\ k \in 1 .. Len(insts)
      BY <1>1, LenProperties
    <3>2. \A i \in 1 .. k : insts[i] \in Inst
      BY <1>1, <3>1, ElementOfSeq
    <3> QED
      BY <1>1, <2>1, <3>1, <3>2, SubSeqProperties, Z3
  <2> QED
    BY <1>1, <2>1, <2>2 DEF StackInv, Linked
<1>5. ASSUME NEW seq, SquashInstIt(seq) PROVE Linked(nested', context')
  <2>1. \/ nested' = NestedReset(nested) /\ context' = NoContext
        \/ nested' = nested /\ context' = context
    BY <1>5 DEF SquashInstIt, ndmVars
  <2> QED
    BY <1>1, <2>1, ResetLinked, ZenonT(40)
<1>6. CASE SquashFromTrap
  <2> DEFINE empty == <<>>
  <2>1. empty \in Seq(Inst)
    BY EmptySeq
  <2>2. insts' = empty /\ nextSeq' = nextSeq
    BY <1>6 DEF SquashFromTrap
  <2>3. Linked(nested', context')
    <3>1. \/ UNCHANGED <<root, ndmVars>> \/ \E seq : SquashInstIt(seq)
      BY <1>6, ZenonT(40) DEF SquashFromTrap
    <3> QED
      BY <1>1, <1>5, <3>1, ZenonT(40) DEF ndmVars
  <2> HIDE DEF empty
  <2> QED
    BY <1>1, <2>1, <2>2, <2>3, ZenonT(40) DEF StackInv, Linked
<1>7. CASE UNCHANGED <<insts, nextSeq, nested, context>>
  BY <1>7 DEF StackInv, Linked
<1>8. CASE \/ \E k \in DOMAIN insts, pc \in PCs : ExecuteLoad(k, pc)
           \/ Trap \/ UNCHANGED vars
  BY <1>7, <1>8 DEF ExecuteLoad, Trap, vars, root, ndmVars, pipeline
<1> QED
  BY <1>2, <1>3, <1>4, <1>6, <1>8 DEF Next

\* The context and the stack never drift apart, for every budget, window and
\* program: in particular a child admitted by the commit that times its
\* predecessor out is not mistaken for it.
THEOREM ContextAlwaysChild == Spec => []ContextIsChild
<1> DEFINE empty == <<>>
<1>1. Init => StackInv
  <2> SUFFICES ASSUME Init PROVE StackInv
    OBVIOUS
  <2>1. /\ empty \in Seq(Frame) /\ Len(empty) = 0
        /\ empty \in Seq([seq : Nat \ {0}, pc : PCs, skipped : BOOLEAN])
    BY EmptySeq
  <2>2. nested = [frames |-> empty, nextId |-> 1] /\ context = NoContext
          /\ insts = empty /\ nextSeq = 1
    BY DEF Init, EmptyNested
  <2> HIDE DEF empty
  <2>3. nested \in Nested /\ Len(nested.frames) < 2
    BY <2>1, <2>2 DEF Nested
  <2>4. Linked(nested, context)
    BY <2>2, <2>3, NoContextType, InactiveLinked, ZenonT(40)
  <2> QED
    BY <2>1, <2>2, <2>4 DEF StackInv
<1>2. StackInv => ContextIsChild
  BY Zenon DEF StackInv, Linked, ContextIsChild, Depth
<1> QED
  BY <1>1, <1>2, NextKeepsStack, PTL DEF Spec

--------------------------------------------------------------------------------
(* The NDM plan.  PlanIsWhole needs to know the plan in the other states:   *)
(* nothing is planned before an outer load is found, and the one found has  *)
(* at least one base.                                                       *)

PlanOK(n) ==
    /\ n \in NDM
    /\ n.bases <= MaxOuterInvocations
    /\ n.state \in {"Idle", "SeekingOuter"} => n.bases = 0
    /\ n.state = "OuterFound" => n.bases >= 1
    /\ IF n.state = "Vectorizing"
       THEN n.invocations = n.bases /\ n.consumed = n.bases
       ELSE n.invocations = 0 /\ n.consumed = 0

\* The NDM methods that touch no plan: reset, start, ageing, timeout, control.
LEMMA PlanReset == PlanOK(NDMReset)
<1> DEFINE none == [pc \in PCs |-> 0]
<1>1. none \in Probes
  BY DEF Probes
<1> HIDE DEF none
<1>2. NDMReset = [state |-> "Idle", innerPC |-> NoPC, control |-> FALSE,
                  probes |-> none, outerPC |-> NoPC, bases |-> 0,
                  consumed |-> 0, invocations |-> 0, committed |-> 0]
  BY DEF NDMReset, none
<1> HIDE DEF NDMReset
<1> QED
  BY <1>1, <1>2, NDMBoundsAssumption DEF PlanOK, NDM

\* Changing the counter and the control flag keeps the plan.
LEMMA PlanKept ==
    ASSUME NEW n, PlanOK(n), NEW c \in Nat
    PROVE  PlanOK([n EXCEPT !.committed = c]) /\ PlanOK([n EXCEPT !.control = TRUE])
             /\ PlanOK([n EXCEPT !.committed = c, !.control = FALSE])
  BY Zenon DEF PlanOK, NDM

LEMMA PlanStart ==
    ASSUME NEW n, PlanOK(n), NEW pc \in PCs
    PROVE  PlanOK(NDMStart(n, pc))
<1> DEFINE started == [NDMReset EXCEPT !.state = "SeekingOuter", !.innerPC = pc]
<1>1. PlanOK(started)
  <2> DEFINE r == NDMReset
  <2>1. PlanOK(r) /\ r.state = "Idle"
    BY PlanReset DEF NDMReset
  <2> HIDE DEF r
  <2>2. PlanOK([r EXCEPT !.state = "SeekingOuter", !.innerPC = pc])
    BY <2>1, Zenon DEF PlanOK, NDM
  <2> QED
    BY <2>2 DEF r
<1>2. NDMStart(n, pc) \in {n, started, [n EXCEPT !.committed = 0, !.control = FALSE]}
  BY DEF NDMStart
<1>3. PlanOK([n EXCEPT !.committed = 0, !.control = FALSE])
  BY PlanKept, Zenon
<1> HIDE DEF started
<1> QED
  BY <1>1, <1>2, <1>3

LEMMA PlanAges ==
    ASSUME NEW n, PlanOK(n), NEW pc
    PROVE  PlanOK(ObserveInnerBranch(NDMObserveCommit(n), pc))
<1>1. PlanOK(NDMObserveCommit(n))
  <2>1. n.committed + 1 \in Nat
    BY DEF PlanOK, NDM
  <2>2. NDMObserveCommit(n) \in {n, NDMReset, [n EXCEPT !.committed = n.committed + 1]}
    BY DEF NDMObserveCommit
  <2> QED
    BY <2>1, <2>2, PlanKept, PlanReset, ZenonT(30)
<1> DEFINE m == NDMObserveCommit(n)
<1>2. ObserveInnerBranch(m, pc) \in {m, [m EXCEPT !.control = TRUE]}
  BY DEF ObserveInnerBranch
<1> HIDE DEF m
<1>3. PlanOK(m)
  BY <1>1, SMTT(30) DEF m
<1>4. PlanOK(ObserveInnerBranch(m, pc))
  BY <1>2, <1>3, PlanKept, Zenon
<1> QED
  BY <1>4, SMTT(30) DEF m

\* Finding the outer load and collecting its bases.
LEMMA PlanCollects ==
    ASSUME NEW n, PlanOK(n), NEW pc \in PCs, NEW delta \in Deltas
    PROVE  PlanOK(ObserveOuterLoad(n, pc, delta))
<1>0. /\ n \in NDM /\ n.probes \in Probes /\ n.bases \in Nat
      /\ MaxOuterInvocations \in Nat \ {0}
  BY NDMBoundsAssumption DEF PlanOK, NDM
<1>1. ASSUME n.state = "SeekingOuter", NEW k \in 0 .. 2
      PROVE  PlanOK([n EXCEPT !.probes[pc] = k])
  <2> DEFINE probed == [n.probes EXCEPT ![pc] = k]
  <2>1. probed \in Probes
    BY <1>0 DEF Probes
  <2> HIDE DEF probed
  <2>2. PlanOK([n EXCEPT !.probes = probed])
    BY <2>1 DEF PlanOK, NDM
  <2> QED
    BY <2>2 DEF probed
<1>2. ASSUME n.state = "SeekingOuter" PROVE PlanOK(AcceptOuter(n, pc))
  <2> DEFINE first == Least(3, MaxOuterInvocations)
  <2>1. first \in Nat /\ first >= 1 /\ first <= MaxOuterInvocations
    BY <1>0 DEF Least
  <2> HIDE DEF first
  <2>2. AcceptOuter(n, pc) = [n EXCEPT !.state = "OuterFound", !.outerPC = pc,
                                       !.committed = 0, !.bases = first]
    BY DEF AcceptOuter, first
  <2> QED
    BY <1>2, <2>1, <2>2, ZenonT(30) DEF PlanOK, NDM
<1>3. ASSUME n.state = "SeekingOuter", delta # "none" PROVE PlanOK(Probe(n, pc, delta))
  <2>1. n.probes[pc] \in {0, 1, 2} /\ delta \in {"zero", "same", "other"}
    BY <1>0, <1>3 DEF Probes, Deltas
  <2>2. Probe(n, pc, delta) \in {n, [n EXCEPT !.probes[pc] = 1],
                                 [n EXCEPT !.probes[pc] = 2], AcceptOuter(n, pc)}
    BY <2>1 DEF Probe
  <2> QED
    BY <1>1, <1>2, <1>3, <2>2
<1>4. ASSUME n.state = "OuterFound"
      PROVE  PlanOK([n EXCEPT !.bases = Least(@ + 1, MaxOuterInvocations),
                              !.committed = 0])
  <2> DEFINE more == Least(n.bases + 1, MaxOuterInvocations)
  <2>1. more \in Nat /\ more >= 1 /\ more <= MaxOuterInvocations
    BY <1>0 DEF Least
  <2> HIDE DEF more
  <2>2. PlanOK([n EXCEPT !.bases = more, !.committed = 0])
    BY <1>4, <2>1, ZenonT(30) DEF PlanOK, NDM
  <2> QED
    BY <2>2 DEF more
<1> QED
  BY <1>3, <1>4 DEF ObserveOuterLoad

\* Recording a child plans every collected base, and only the first time.
LEMMA PlanRecords ==
    ASSUME NEW n, PlanOK(n)
    PROVE  PlanOK(RecordOuterInvocation(n))
<1>0. /\ n \in NDM /\ n.bases \in Nat /\ n.consumed \in Nat /\ n.invocations \in Nat
      /\ n.bases <= MaxOuterInvocations /\ MaxOuterInvocations \in Nat \ {0}
  BY NDMBoundsAssumption DEF PlanOK, NDM
<1>1. CASE /\ n.state \in {"OuterFound", "Vectorizing"} /\ n.consumed < n.bases
           /\ n.control
  <2>1. n.state = "OuterFound" /\ n.invocations = 0 /\ n.consumed = 0 /\ n.bases >= 1
    BY <1>0, <1>1 DEF PlanOK
  <2>2. /\ n.invocations < MaxOuterInvocations
        /\ InvocationsAfter(n) = n.bases /\ ConsumedAfter(n) = n.bases
    BY <1>0, <2>1 DEF InvocationsAfter, ConsumedAfter, Materialises
  <2>3. RecordOuterInvocation(n) =
            [n EXCEPT !.invocations = n.bases, !.consumed = n.bases,
                      !.state = "Vectorizing", !.committed = 0]
    BY <1>1, <2>2 DEF RecordOuterInvocation
  <2> DEFINE b == n.bases
  <2> HIDE DEF b
  <2>4. PlanOK([n EXCEPT !.invocations = b, !.consumed = b,
                         !.state = "Vectorizing", !.committed = 0])
    BY <1>0, Zenon DEF PlanOK, NDM, b
  <2> QED
    BY <2>3, <2>4 DEF b
<1>2. CASE ~(/\ n.state \in {"OuterFound", "Vectorizing"} /\ n.consumed < n.bases
             /\ n.control)
  BY <1>2 DEF RecordOuterInvocation
<1> QED
  BY <1>1, <1>2

LEMMA PlanFinishes ==
    ASSUME NEW n, PlanOK(n)
    PROVE  PlanOK(FinishVectorization(n))
  BY PlanReset DEF FinishVectorization

--------------------------------------------------------------------------------
(* The state that instDone() threads: the plan, the types of what the stack *)
(* does not hold, and that a launch is plural.                              *)

Plural(s) == s.launch \in Nat /\ (s.launch # NoLaunch => s.launch >= 2)

StateOK(s) ==
    /\ IsState(s)
    /\ PlanOK(s.ndm)
    /\ s.pending \in Candidate
    /\ s.batch \in Batch
    /\ Plural(s)

\* A launch of a ready plan, or of a ready batch when there is no plan.
LEMMA LaunchOK ==
    ASSUME NEW s, StateOK(s), NEW room,
           IF s.ndm.state = "Vectorizing" THEN s.ndm.invocations >= 2
                                          ELSE s.batch.count >= 2
    PROVE  StateOK(LaunchNested(s, room))
<1> DEFINE count == IF s.ndm.state = "Vectorizing" THEN s.ndm.invocations
                                                  ELSE s.batch.count
<1>1. count \in Nat /\ count >= 2
  BY DEF StateOK, PlanOK, NDM, Batch
<1>2. LaunchNested(s, room) \in {s, [s EXCEPT !.batch = NoBatch, !.launch = count]}
  BY DEF LaunchNested
<1>3. NoBatch \in Batch
  BY DEF NoBatch, Batch
<1> HIDE DEF count
<1>4. StateOK([s EXCEPT !.batch = NoBatch, !.launch = count])
  <2> DEFINE half == [s EXCEPT !.batch = NoBatch]
             r == [s EXCEPT !.batch = NoBatch, !.launch = count]
  <2>1. /\ IsState(half) /\ half.ndm = s.ndm /\ half.pending = s.pending
        /\ half.batch = NoBatch
    BY DEF StateOK, IsState
  <2>2. r = [half EXCEPT !.launch = count]
    OBVIOUS
  <2> HIDE DEF half, r
  <2>3. /\ IsState(r) /\ r.ndm = s.ndm /\ r.pending = s.pending
        /\ r.batch = NoBatch /\ r.launch = count
    BY <2>1, <2>2 DEF IsState
  <2>4. StateOK(r)
    BY <1>1, <1>3, <2>3 DEF StateOK, Plural
  <2> QED
    BY <2>4 DEF r
<1> QED
  BY <1>2, <1>4, Zenon, SMTT(30)

\* Replacing one of the stack, the context, the plan and the candidate, ...
LEMMA ReplaceOne ==
    ASSUME NEW s, StateOK(s), NEW n, NEW c, NEW m, PlanOK(m), NEW p \in Candidate
    PROVE  /\ StateOK([s EXCEPT !.context = c])
           /\ StateOK([s EXCEPT !.ndm = m])
           /\ StateOK([s EXCEPT !.nested = n])
           /\ StateOK([s EXCEPT !.pending = p])
<1>0. IsState(s) /\ PlanOK(s.ndm) /\ s.pending \in Candidate
  BY DEF StateOK
<1>1. ASSUME NEW r, IsState(r), r.batch = s.batch, r.launch = s.launch,
             r.ndm \in {s.ndm, m}, r.pending \in {s.pending, p}
      PROVE  StateOK(r)
  BY <1>0, <1>1 DEF StateOK, Plural
<1>2. StateOK([s EXCEPT !.context = c])
  <2> DEFINE r == [s EXCEPT !.context = c]
  <2>1. /\ IsState(r) /\ r.batch = s.batch /\ r.launch = s.launch
        /\ r.ndm \in {s.ndm, m} /\ r.pending \in {s.pending, p}
    BY <1>0 DEF IsState
  <2> HIDE DEF r
  <2>2. StateOK(r)
    BY <1>1, <2>1
  <2> QED
    BY <2>2 DEF r
<1>3. StateOK([s EXCEPT !.ndm = m])
  <2> DEFINE r == [s EXCEPT !.ndm = m]
  <2>1. /\ IsState(r) /\ r.batch = s.batch /\ r.launch = s.launch
        /\ r.ndm \in {s.ndm, m} /\ r.pending \in {s.pending, p}
    BY <1>0 DEF IsState
  <2> HIDE DEF r
  <2>2. StateOK(r)
    BY <1>1, <2>1
  <2> QED
    BY <2>2 DEF r
<1>4. StateOK([s EXCEPT !.nested = n])
  <2> DEFINE r == [s EXCEPT !.nested = n]
  <2>1. /\ IsState(r) /\ r.batch = s.batch /\ r.launch = s.launch
        /\ r.ndm \in {s.ndm, m} /\ r.pending \in {s.pending, p}
    BY <1>0 DEF IsState
  <2> HIDE DEF r
  <2>2. StateOK(r)
    BY <1>1, <2>1
  <2> QED
    BY <2>2 DEF r
<1>5. StateOK([s EXCEPT !.pending = p])
  <2> DEFINE r == [s EXCEPT !.pending = p]
  <2>1. /\ IsState(r) /\ r.batch = s.batch /\ r.launch = s.launch
        /\ r.ndm \in {s.ndm, m} /\ r.pending \in {s.pending, p}
    BY <1>0 DEF IsState
  <2> HIDE DEF r
  <2>2. StateOK(r)
    BY <1>1, <2>1
  <2> QED
    BY <2>2 DEF r
<1> QED
  BY <1>2, <1>3, <1>4, <1>5

\* ... or several of them.
LEMMA ReplaceOK ==
    ASSUME NEW s, StateOK(s), NEW n, NEW c, NEW m, PlanOK(m), NEW p \in Candidate
    PROVE  /\ StateOK([s EXCEPT !.ndm = m, !.context = c])
           /\ StateOK([s EXCEPT !.nested = n, !.context = c])
           /\ StateOK([s EXCEPT !.nested = n, !.pending = p])
           /\ StateOK([s EXCEPT !.nested = n, !.context = c, !.pending = p])
<1>1. StateOK([s EXCEPT !.ndm = m, !.context = c])
  <2> DEFINE half == [s EXCEPT !.ndm = m]
  <2>1. StateOK(half) /\ [s EXCEPT !.ndm = m, !.context = c] = [half EXCEPT !.context = c]
    BY ReplaceOne, Zenon
  <2> HIDE DEF half
  <2>2. StateOK([half EXCEPT !.context = c])
    BY <2>1, ReplaceOne, Zenon
  <2> QED
    BY <2>1, <2>2
<1>2. StateOK([s EXCEPT !.nested = n, !.context = c])
  <2> DEFINE half == [s EXCEPT !.nested = n]
  <2>1. StateOK(half) /\ [s EXCEPT !.nested = n, !.context = c] = [half EXCEPT !.context = c]
    BY ReplaceOne, Zenon
  <2> HIDE DEF half
  <2>2. StateOK([half EXCEPT !.context = c])
    BY <2>1, ReplaceOne, Zenon
  <2> QED
    BY <2>1, <2>2
<1>3. StateOK([s EXCEPT !.nested = n, !.pending = p])
  <2> DEFINE half == [s EXCEPT !.nested = n]
  <2>1. StateOK(half) /\ [s EXCEPT !.nested = n, !.pending = p] = [half EXCEPT !.pending = p]
    BY ReplaceOne, Zenon
  <2> HIDE DEF half
  <2>2. StateOK([half EXCEPT !.pending = p])
    BY <2>1, ReplaceOne, Zenon
  <2> QED
    BY <2>1, <2>2
<1>4. StateOK([s EXCEPT !.nested = n, !.context = c, !.pending = p])
  <2> DEFINE half == [s EXCEPT !.nested = n, !.context = c]
  <2>1. /\ StateOK(half)
        /\ [s EXCEPT !.nested = n, !.context = c, !.pending = p] = [half EXCEPT !.pending = p]
    BY <1>2
  <2> HIDE DEF half
  <2>2. StateOK([half EXCEPT !.pending = p])
    BY <2>1, ReplaceOne, Zenon
  <2> QED
    BY <2>1, <2>2
<1> QED
  BY <1>1, <1>2, <1>3, <1>4

\* The outcome of a child.
LEMMA ChildOK ==
    ASSUME NEW s, StateOK(s), s.context \in Context, NEW outcome, NEW room
    PROVE  StateOK(CompleteContext(s, outcome, room))
<1> DEFINE pc == s.context.triggerPC
           ndm1 == IF HasLanes(outcome) THEN RecordOuterInvocation(s.ndm) ELSE s.ndm
           count == IF s.batch.triggerPC = pc THEN s.batch.count ELSE 0
           new == [triggerPC |-> pc, count |-> Least(count + 1, MaxOuterInvocations)]
           filled == [s EXCEPT !.ndm = ndm1, !.batch = new]
           flattens == /\ PlanReady(ndm1) \/ BatchReady(new)
                       /\ PlanReady(ndm1) \/ ~NDMActive(ndm1)
           done == IF PlanReady(ndm1) THEN FinishVectorization(ndm1) ELSE ndm1
           c == ChildOutcome(s, outcome, room)
<1>1. PlanOK(ndm1) /\ PlanOK(done)
  BY PlanRecords, PlanFinishes DEF StateOK
<1>2. new \in Batch
  <2>1. count \in Nat /\ MaxOuterInvocations \in Nat /\ pc \in PCs \cup {NoPC}
    BY NDMBoundsAssumption DEF StateOK, Batch, Context
  <2> HIDE DEF count, pc
  <2> QED
    BY <2>1 DEF Batch, Least
<1>3. filled.batch = new /\ filled.ndm = ndm1 /\ StateOK(filled)
  <2> HIDE DEF ndm1, new
  <2>1. /\ IsState(filled) /\ filled.ndm = ndm1 /\ filled.pending = s.pending
        /\ filled.batch = new /\ filled.launch = s.launch
    <3> DEFINE half == [s EXCEPT !.ndm = ndm1]
    <3>1. /\ IsState(half) /\ half.ndm = ndm1 /\ half.pending = s.pending
          /\ half.launch = s.launch
      BY DEF StateOK, IsState
    <3>2. filled = [half EXCEPT !.batch = new]
      OBVIOUS
    <3> HIDE DEF half, filled
    <3> QED
      BY <3>1, <3>2 DEF IsState
  <2> HIDE DEF filled
  <2> QED
    BY <1>1, <1>2, <2>1 DEF StateOK, Plural
<1>4. \/ c \in {[s EXCEPT !.ndm = ndm1], filled}
      \/ flattens /\ c = [LaunchNested(filled, room) EXCEPT !.ndm = done]
  <2> HIDE DEF ndm1, new, done
  <2> QED
    BY <1>3 DEF ChildOutcome, ndm1, new, done
<1>5. flattens => StateOK([LaunchNested(filled, room) EXCEPT !.ndm = done])
  <2>1. flattens => IF ndm1.state = "Vectorizing" THEN ndm1.invocations >= 2
                                                ELSE new.count >= 2
    <3> HIDE DEF ndm1, new
    <3> QED
      BY DEF PlanReady, BatchReady, NDMActive
  <2>2. flattens => StateOK(LaunchNested(filled, room))
    <3> HIDE DEF ndm1, new, filled, flattens
    <3> QED
      BY <1>3, <2>1, LaunchOK
  <2> DEFINE l == LaunchNested(filled, room)
  <2> HIDE DEF ndm1, new, filled, flattens, done, l
  <2>3. NoCandidate \in Candidate
    BY DEF NoCandidate, Candidate
  <2>4. flattens => StateOK([l EXCEPT !.ndm = done])
    BY <1>1, <2>2, <2>3, ReplaceOne, Zenon DEF l
  <2> QED
    BY <2>4 DEF l
<1>6. StateOK(c)
  <2> HIDE DEF ndm1, new, filled, flattens, done, c
  <2>1. NoCandidate \in Candidate
    BY DEF NoCandidate, Candidate
  <2>2. StateOK([s EXCEPT !.ndm = ndm1])
    BY <1>1, <2>1, ReplaceOne, Zenon
  <2> QED
    BY <1>3, <1>4, <1>5, <2>2
<1>7. CompleteContext(s, outcome, room) = [c EXCEPT !.context = NoContext]
  BY DEF CompleteContext
<1> HIDE DEF c
<1>8. StateOK([c EXCEPT !.context = NoContext])
  <2>1. NoCandidate \in Candidate
    BY DEF NoCandidate, Candidate
  <2> QED
    BY <1>1, <1>6, <2>1, ReplaceOne, ZenonT(30)
<1> QED
  BY <1>7, <1>8

\* A candidate that becomes a child, or is dropped.
LEMMA AdmitOK ==
    ASSUME NEW s, StateOK(s), NEW pc, NEW seq
    PROVE  StateOK(AdmitCandidate(s, pc, seq))
<1> DEFINE nested1 == IF NDMActive(s.ndm) /\ Depth(s.nested) = 0
                      THEN StartRoot(s.nested, seq) ELSE s.nested
           child == StartNested(nested1, pc, seq)
           con == [active |-> TRUE, id |-> nested1.nextId, triggerPC |-> pc,
                   triggerSequence |-> seq]
<1>1. AdmitCandidate(s, pc, seq) \in
        {[s EXCEPT !.nested = child, !.context = con, !.pending = NoCandidate],
         [s EXCEPT !.nested = nested1, !.pending = NoCandidate],
         [s EXCEPT !.pending = NoCandidate], s}
  BY DEF AdmitCandidate
<1> HIDE DEF nested1, child, con
<1>2. NoCandidate \in Candidate /\ PlanOK(s.ndm)
  BY DEF NoCandidate, Candidate, StateOK
<1>3. /\ StateOK([s EXCEPT !.nested = child, !.context = con, !.pending = NoCandidate])
      /\ StateOK([s EXCEPT !.nested = nested1, !.pending = NoCandidate])
      /\ StateOK([s EXCEPT !.pending = NoCandidate])
  BY <1>2, ReplaceOne, ReplaceOK, Zenon
<1> QED
  BY <1>1, <1>3, Zenon, SMTT(30)

\* The root Discovery completes, ...
LEMMA RootOK ==
    ASSUME NEW s, StateOK(s), NEW pc \in PCs, NEW lanes, NEW outcome, NEW room
    PROVE  StateOK(RootCompleted(s, pc, lanes, outcome, room))
<1> DEFINE ndm1 == IF HasLanes(outcome) THEN RecordOuterInvocation(s.ndm) ELSE s.ndm
           ndm2 == IF lanes = "short" THEN NDMStart(ndm1, pc) ELSE NDMReset
           with == [s EXCEPT !.ndm = ndm2]
           l == LaunchNested(with, room)
           fin == FinishVectorization(ndm2)
           launched == [l EXCEPT !.ndm = fin, !.context = NoContext]
           capture == PlanReady(ndm2) /\ outcome \in {"rejected", "accepted"}
           done == IF capture THEN launched ELSE with
           Result == {[done EXCEPT !.nested = NestedReset(done.nested),
                                   !.context = NoContext],
                      [done EXCEPT !.nested = Pop(done.nested)], done}
<1>0. NoCandidate \in Candidate
  BY DEF NoCandidate, Candidate
<1>1. PlanOK(ndm2) /\ PlanOK(fin)
  <2>1. PlanOK(ndm1)
    BY PlanRecords DEF StateOK
  <2> HIDE DEF ndm1
  <2>2. PlanOK(ndm2)
    BY <2>1, PlanStart, PlanReset, Zenon, SMTT(30)
  <2> HIDE DEF ndm2
  <2> QED
    BY <2>2, PlanFinishes
<1>2. RootCompleted(s, pc, lanes, outcome, room) \in Result
  <2> HIDE DEF ndm2
  <2> QED
    BY ZenonT(40) DEF RootCompleted, ndm2
<1> HIDE DEF ndm2, fin
<1>3. StateOK(with) /\ with.ndm = ndm2
  <2>1. StateOK(with)
    BY <1>0, <1>1, ReplaceOne, ZenonT(30)
  <2> QED
    BY <2>1 DEF StateOK, IsState
<1> HIDE DEF with
<1>4. capture => StateOK(l)
  BY <1>3, LaunchOK DEF PlanReady
<1> HIDE DEF l
<1>5. capture => StateOK(launched)
  BY <1>0, <1>1, <1>4, ReplaceOK, Zenon
<1> HIDE DEF launched
<1>6. StateOK(done)
  BY <1>3, <1>5
<1> HIDE DEF done
<1>7. \A r \in Result : StateOK(r)
  <2> DEFINE n1 == NestedReset(done.nested)
             n2 == Pop(done.nested)
  <2> HIDE DEF n1, n2
  <2>1. StateOK([done EXCEPT !.nested = n1, !.context = NoContext])
    BY <1>0, <1>1, <1>6, ReplaceOK, ZenonT(30)
  <2>2. StateOK([done EXCEPT !.nested = n2])
    BY <1>0, <1>1, <1>6, ReplaceOne, Zenon
  <2> QED
    BY <1>6, <2>1, <2>2, SMTT(30) DEF n1, n2
<1> HIDE DEF Result
<1> QED
  BY <1>2, <1>7

\* ... or times out.
LEMMA TimedOutOK ==
    ASSUME NEW s, StateOK(s)
    PROVE  StateOK(RootTimedOut(s))
<1> DEFINE n == NestedReset(s.nested)
<1>1. RootTimedOut(s) \in {s, [s EXCEPT !.nested = n, !.context = NoContext]}
  BY DEF RootTimedOut
<1> HIDE DEF n
<1>2. NoCandidate \in Candidate /\ PlanOK(s.ndm)
  BY DEF NoCandidate, Candidate, StateOK
<1>3. StateOK([s EXCEPT !.nested = n, !.context = NoContext])
  BY <1>2, ReplaceOK, Zenon
<1> QED
  BY <1>1, <1>3

\* The nested state beside the stack.
PlanInv ==
    /\ PlanOK(ndm)
    /\ pending \in Candidate
    /\ batch \in Batch
    /\ launch \in Nat /\ LaunchIsPlural

\* A commit, through the five stages of instDone().
LEMMA CommitOK ==
    ASSUME PlanInv, context \in Context, NEW pc \in PCs, NEW seq, NEW delta \in Deltas,
           NEW outcome, NEW lanes, NEW room,
           InstDone(pc, seq, delta, outcome, lanes, room)
    PROVE  PlanInv'
<1> DEFINE event == NestedEvent(nested, pc, seq)
           ended == event # "None" /\ context.active
                        /\ Top(nested).id = context.id
           ndm1 == ObserveInnerBranch(NDMObserveCommit(ndm), pc)
           ndm2 == IF NDMActive(ndm1) /\ pc \in Loads
                   THEN ObserveOuterLoad(ndm1, pc, delta) ELSE ndm1
           s1 == [nested |-> NestedObserveCommit(nested, pc, seq), ndm |-> ndm2,
                  pending |-> pending, context |-> context, batch |-> batch,
                  launch |-> NoLaunch]
           s2 == IF ended /\ event = "Completed"
                 THEN CompleteContext(s1, outcome, room) ELSE s1
           s3 == AdmitCandidate(s2, pc, seq)
           s4 == IF ended /\ event = "TimedOut" /\ s3.context.id = context.id
                 THEN [s3 EXCEPT !.context = NoContext] ELSE s3
           s5 == CASE CommitEvent(ctl, seq) = "Completed" ->
                          RootCompleted(s4, pc, lanes, outcome, room)
                   [] CommitEvent(ctl, seq) = "TimedOut" -> RootTimedOut(s4)
                   [] OTHER -> s4
<1>1. /\ ndm' = s5.ndm /\ pending' = s5.pending /\ batch' = s5.batch
      /\ launch' = s5.launch
  <2> HIDE DEF s5
  <2> QED
    BY ZenonT(40) DEF InstDone, s5
<1>2. PlanOK(ndm2)
  <2>1. PlanOK(ndm1)
    BY PlanAges DEF PlanInv
  <2> HIDE DEF ndm1
  <2> QED
    BY <2>1, PlanCollects
<1> HIDE DEF ndm2
<1>3. StateOK(s1) /\ s1.context \in Context
  <2> DEFINE n == NestedObserveCommit(nested, pc, seq)
  <2> HIDE DEF n
  <2>1. StateOK([nested |-> n, ndm |-> ndm2, pending |-> pending, context |-> context,
                 batch |-> batch, launch |-> NoLaunch])
    BY <1>2, Zenon, SMTT(30) DEF PlanInv, StateOK, IsState, Plural, NoLaunch
  <2> QED
    BY <2>1, Zenon, SMTT(30) DEF n
<1> HIDE DEF s1
<1>4. StateOK(s2)
  BY <1>3, ChildOK
<1> HIDE DEF s2
<1>5. StateOK(s3)
  BY <1>4, AdmitOK
<1> HIDE DEF s3
<1>6. StateOK(s4)
  <2>1. NoCandidate \in Candidate /\ PlanOK(s3.ndm)
    BY <1>5 DEF NoCandidate, Candidate, StateOK
  <2> QED
    BY <1>5, <2>1, ReplaceOne, Zenon
<1> HIDE DEF s4
<1>7. StateOK(s5)
  BY <1>6, RootOK, TimedOutOK
<1> HIDE DEF s5
<1> QED
  BY <1>1, <1>7 DEF PlanInv, LaunchIsPlural, StateOK, Plural

--------------------------------------------------------------------------------
(* The rest of the state, and the three theorems.                           *)

NestedInv ==
    /\ StackInv
    /\ PlanInv
    /\ commitStatus \in {"Running", "TrapPending"}
    /\ ctl \in Controller /\ ctl.instructions < MaxInstructions
    /\ table \in StrideRecord

\* The hook at dispatch.
LEMMA DispatchOK ==
    ASSUME NestedInv, NEW pc \in PCs, NEW seq \in Nat, ObserveDVRDispatch(pc, seq)
    PROVE  /\ PlanInv'
           /\ ctl' \in Controller /\ ctl'.instructions < MaxInstructions
           /\ table' \in StrideRecord
<1> DEFINE seen == ControllerObserveDispatch(ctl, pc, seq)
           window == IsDiscovering(seen) /\ ~StopPending(seen)
           observed == pc \in Loads /\ ~StopPending(seen)
           next == IF observed THEN TableObserveDispatch(table, pc, window, seq)
                               ELSE table
           candidate == observed /\ ReportsCandidate(table, pc, window)
           new == [valid |-> TRUE, pc |-> pc, sequence |-> seq]
<1>0. /\ PlanInv /\ table \in StrideRecord
      /\ ctl \in Controller /\ ctl.instructions < MaxInstructions
  BY DEF NestedInv
<1>1. next \in StrideRecord
  <2>1. window \in BOOLEAN
    BY DEF IsDiscovering
  <2> HIDE DEF window
  <2> QED
    BY <1>0, <2>1, TableTypes
<1>2. new \in Candidate
  BY DEF Candidate
<1>3. seen \in Controller /\ seen.instructions < MaxInstructions
  BY <1>0, ControllerTypes
<1>4. \/ \E restart \in BOOLEAN : BeginDVRDiscovery(pc, seq, next, restart)
      \/ /\ ctl' = seen /\ table' = next /\ pending' \in {pending, new}
         /\ UNCHANGED <<nested, ndm, context, batch, launch>>
  BY ZenonT(60) DEF ObserveDVRDispatch
<1> HIDE DEF seen, next, new
<1>5. ASSUME NEW restart \in BOOLEAN, BeginDVRDiscovery(pc, seq, next, restart)
      PROVE  /\ PlanInv' /\ table' \in StrideRecord
             /\ ctl' \in Controller /\ ctl'.instructions < MaxInstructions
  <2>1. /\ ctl' \in {Restart(ctl, pc, seq), Arm(ctl, pc, seq)}
        /\ table' = BeginDiscovery(next, pc)
        /\ ndm' \in {NDMReset, ndm} /\ UNCHANGED <<pending, batch, launch>>
    BY <1>5 DEF BeginDVRDiscovery
  <2>2. ctl' \in Controller /\ ctl'.instructions < MaxInstructions
    BY <1>0, <2>1, ControllerTypes, Zenon, SMTT(30)
  <2>3. table' \in StrideRecord
    <3>1. TRUE \in BOOLEAN
      OBVIOUS
    <3> QED
      BY <1>1, <2>1, <3>1, TableTypes
  <2>4. PlanInv'
    BY <1>0, <2>1, PlanReset, Zenon, SMTT(30) DEF PlanInv, LaunchIsPlural
  <2> QED
    BY <2>2, <2>3, <2>4, Zenon, SMTT(30)
<1>6. CASE /\ ctl' = seen /\ table' = next /\ pending' \in {pending, new}
           /\ UNCHANGED <<nested, ndm, context, batch, launch>>
  BY <1>0, <1>1, <1>2, <1>3, <1>6, Zenon, SMTT(30) DEF PlanInv, LaunchIsPlural
<1> QED
  BY <1>4, <1>5, <1>6

\* The hook at squash.
LEMMA SquashOK ==
    ASSUME NestedInv, NEW seq \in Nat, SquashInstIt(seq)
    PROVE  /\ PlanInv'
           /\ ctl' \in Controller /\ ctl'.instructions < MaxInstructions
           /\ table' \in StrideRecord
<1>0. /\ PlanInv /\ table \in StrideRecord
      /\ ctl \in Controller /\ ctl.instructions < MaxInstructions
  BY DEF NestedInv
<1>1. /\ NoCandidate \in Candidate
      /\ Finished \in Controller /\ Finished.instructions < MaxInstructions
  BY MaxInstructionsAssumption DEF NoCandidate, Candidate, Finished, Controller
<1>2. SquashDiscovery(table, seq) \in StrideRecord
  BY <1>0, TableUndoTypes, ZenonT(30)
<1>3. EndDiscovery(SquashDiscovery(table, seq)) \in StrideRecord
  BY <1>2, TableUndoTypes
<1>4. \/ /\ ctl' = Finished /\ table' = EndDiscovery(SquashDiscovery(table, seq))
         /\ ndm' = NDMReset /\ pending' = NoCandidate /\ UNCHANGED <<batch, launch>>
      \/ /\ table' = SquashDiscovery(table, seq)
         /\ UNCHANGED <<ctl, ndm, pending, batch, launch>>
  BY ZenonT(40) DEF SquashInstIt, Rollback, ndmVars
<1> QED
  BY <1>0, <1>1, <1>2, <1>3, <1>4, PlanReset, Zenon, SMTT(30) DEF PlanInv, LaunchIsPlural

\* Every step keeps the types, the plan and plural launches.
LEMMA NextKeepsNested == NestedInv /\ [Next]_vars => NestedInv'
<1> SUFFICES ASSUME NestedInv, [Next]_vars PROVE NestedInv'
  OBVIOUS
<1>0. /\ StackInv' /\ PlanInv /\ table \in StrideRecord /\ context \in Context
      /\ commitStatus \in {"Running", "TrapPending"}
      /\ ctl \in Controller /\ ctl.instructions < MaxInstructions
      /\ insts \in Seq([seq : Nat \ {0}, pc : PCs, skipped : BOOLEAN])
      /\ nextSeq \in Nat \ {0}
  BY NextKeepsStack, ZenonT(40) DEF NestedInv, StackInv, Linked
<1>1. \A k \in DOMAIN insts : insts[k].seq \in Nat /\ insts[k].pc \in PCs
  <2> TAKE k \in DOMAIN insts
  <2> DEFINE e == insts[k]
             Inst == [seq : Nat \ {0}, pc : PCs, skipped : BOOLEAN]
  <2>1. insts \in Seq(Inst)
    BY <1>0
  <2> HIDE DEF Inst
  <2>2. e \in Inst
    BY <2>1, ElementOfSeq, LenProperties
  <2> HIDE DEF e
  <2>3. e.seq \in Nat /\ e.pc \in PCs
    BY <2>2 DEF Inst
  <2> QED
    BY <2>3 DEF e
<1>2. CASE UNCHANGED <<root, ndm, pending, batch, launch>> /\
             commitStatus' \in {"Running", "TrapPending"}
  BY <1>0, <1>2 DEF NestedInv, PlanInv, LaunchIsPlural, root
<1>3. ASSUME NEW pc \in PCs, Dispatch(pc) PROVE NestedInv'
  <2>1. ObserveDVRDispatch(pc, nextSeq) /\ commitStatus' = commitStatus /\ nextSeq \in Nat
    BY <1>0, <1>3 DEF Dispatch
  <2>2. /\ PlanInv' /\ table' \in StrideRecord
        /\ ctl' \in Controller /\ ctl'.instructions < MaxInstructions
    BY <2>1, DispatchOK, Zenon, SMTT(30)
  <2> QED
    BY <1>0, <2>1, <2>2, Zenon, SMTT(30) DEF NestedInv
<1>4. ASSUME NEW k \in DOMAIN insts, NEW pc \in PCs, ExecuteLoad(k, pc) PROVE NestedInv'
  <2>1. /\ table' \in {Train(table, pc), Untrain(table, pc), Evict(table, pc)}
        /\ UNCHANGED <<commitStatus, ctl, ndm, pending, batch, launch>>
    BY <1>4 DEF ExecuteLoad, pipeline, ndmVars
  <2>2. table' \in StrideRecord
    <3>1. TRUE \in BOOLEAN /\ 0 \in Nat
      OBVIOUS
    <3> QED
      BY <1>0, <2>1, <3>1, TableTypes, ZenonT(30)
  <2> QED
    BY <1>0, <2>1, <2>2, Zenon, SMTT(30) DEF NestedInv, PlanInv, LaunchIsPlural
<1>5. CASE Commit
  <2> DEFINE pc == insts[1].pc
             seq == insts[1].seq
  <2>1. PICK in \in CommitInputs(pc, seq) :
            InstDone(pc, seq, in.delta, in.outcome, in.lanes, in.room)
    BY <1>5, Zenon, SMTT(30) DEF Commit
  <2>2. pc \in PCs /\ seq \in Nat
    BY <1>0, <1>1, <1>5 DEF Commit
  <2> HIDE DEF pc, seq
  <2>3. in.delta \in Deltas
    BY <2>1 DEF CommitInputs, Deltas
  <2>4. PlanInv'
    BY <1>0, <2>1, <2>2, <2>3, CommitOK, Zenon, SMTT(30)
  <2>5. /\ ctl' = ControllerObserveCommit(ctl, seq)
        /\ table' \in {EndDiscovery(table), table}
    BY <2>1, Zenon DEF InstDone
  <2>6. ctl' \in Controller /\ ctl'.instructions < MaxInstructions
    BY <1>0, <2>2, <2>5, ControllerTypes, Zenon, SMTT(30)
  <2>7. table' \in StrideRecord
    BY <1>0, <2>2, <2>5, TableUndoTypes, Zenon, SMTT(30)
  <2>8. commitStatus' = commitStatus
    BY <1>5 DEF Commit
  <2> QED
    BY <1>0, <2>4, <2>6, <2>7, <2>8, Zenon, SMTT(30) DEF NestedInv
<1>6. CASE (\E k \in DOMAIN insts : Squash(k)) \/ Trap
  <2>1. UNCHANGED <<root, ndmVars>> /\ commitStatus' \in {"Running", "TrapPending"}
    BY <1>0, <1>6 DEF Squash, Trap
  <2> QED
    BY <1>2, <2>1 DEF ndmVars
<1>7. CASE SquashFromTrap
  <2> DEFINE skipped == {k \in DOMAIN insts : insts[k].skipped}
             seq == insts[Min(skipped)].seq
  <2>1. /\ commitStatus' = "Running"
        /\ IF skipped = {} THEN UNCHANGED <<root, ndmVars>> ELSE SquashInstIt(seq)
    BY <1>7, ZenonT(40) DEF SquashFromTrap
  <2>2. CASE skipped = {}
    BY <1>2, <2>1, <2>2, Zenon, SMTT(30) DEF ndmVars
  <2>3. CASE skipped # {}
    <3>1. seq \in Nat
      <4>1. skipped \in SUBSET Nat /\ skipped \subseteq DOMAIN insts
        BY <1>0
      <4> HIDE DEF skipped
      <4>2. Min(skipped) \in skipped
        BY <2>3, <4>1, MinProperties
      <4> QED
        BY <1>1, <4>1, <4>2, Zenon
    <3> HIDE DEF seq, skipped
    <3>2. /\ PlanInv' /\ table' \in StrideRecord
          /\ ctl' \in Controller /\ ctl'.instructions < MaxInstructions
      BY <2>1, <2>3, <3>1, SquashOK, Zenon, SMTT(30)
    <3> QED
      BY <1>0, <2>1, <3>2 DEF NestedInv
  <2> QED
    BY <2>2, <2>3
<1>8. CASE UNCHANGED vars
  BY <1>0, <1>2, <1>8, Zenon, SMTT(30) DEF vars, pipeline, ndmVars
<1> QED
  BY <1>3, <1>4, <1>5, <1>6, <1>7, <1>8, Zenon, SMTT(30) DEF Next

\* The first state satisfies it.
LEMMA InitNested == Init => NestedInv
<1> SUFFICES ASSUME Init PROVE NestedInv
  OBVIOUS
<1> DEFINE empty == <<>>
<1>1. /\ empty \in Seq(Frame) /\ Len(empty) = 0 /\ empty \in Seq(DiscoverySeenWrite)
      /\ empty \in Seq([seq : Nat \ {0}, pc : PCs, skipped : BOOLEAN])
  BY EmptySeq, Zenon, SMTT(30)
<1>2. /\ nested = [frames |-> empty, nextId |-> 1] /\ insts = empty /\ nextSeq = 1
      /\ table = [trained |-> {}, pending |-> {}, seen |-> {}, writes |-> empty]
      /\ context = NoContext /\ ndm = NDMReset /\ pending = NoCandidate
      /\ batch = NoBatch /\ launch = 0 /\ commitStatus = "Running" /\ ctl = Finished
  BY Zenon, SMTT(30) DEF Init, EmptyNested, EmptyTable, NoLaunch
<1> HIDE DEF empty
<1>3. nested \in Nested /\ Len(nested.frames) < 2
  BY <1>1, <1>2 DEF Nested
<1>4. StackInv
  <2>1. Linked(nested, context)
    BY <1>2, <1>3, NoContextType, InactiveLinked, ZenonT(40)
  <2> QED
    BY <1>1, <1>2, <2>1 DEF StackInv
<1>5. PlanInv
  BY <1>2, PlanReset, Zenon, SMTT(30) DEF PlanInv, NoCandidate, Candidate, NoBatch, Batch, LaunchIsPlural,
     NoLaunch
<1>6. table \in StrideRecord
  BY <1>1, <1>2, Zenon, SMTT(30) DEF StrideRecord
<1>7. ctl \in Controller /\ ctl.instructions < MaxInstructions
  BY <1>2, MaxInstructionsAssumption DEF Finished, Controller
<1> QED
  BY <1>2, <1>4, <1>5, <1>6, <1>7, Zenon, SMTT(30) DEF NestedInv

\* The state keeps its types: two frames at most, and no more bases than the
\* array of outer invocations holds.
THEOREM NestedTypeCorrect == Spec => []TypeOK
<1>1. NestedInv => TypeOK
  BY Zenon DEF NestedInv, StackInv, PlanInv, PlanOK, Linked, TypeOK, Depth, MaxDepth
<1> QED
  BY <1>1, InitNested, NextKeepsNested, PTL DEF Spec

\* Once a child is recorded the plan holds every collected base exactly once,
\* for every capacity and every order of loads, children and timeouts.
THEOREM PlanAlwaysWhole == Spec => []PlanIsWhole
<1>1. NestedInv => PlanIsWhole
  BY DEF NestedInv, PlanInv, PlanOK, PlanIsWhole
<1> QED
  BY <1>1, InitNested, NextKeepsNested, PTL DEF Spec

\* Every nested launch flattens at least two invocations.
THEOREM LaunchAlwaysPlural == Spec => []LaunchIsPlural
<1>1. NestedInv => LaunchIsPlural
  BY DEF NestedInv, PlanInv
<1> QED
  BY <1>1, InitNested, NextKeepsNested, PTL DEF Spec
================================================================================
