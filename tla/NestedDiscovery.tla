---------------------------- MODULE NestedDiscovery ----------------------------
(***************************************************************************)
(* dvrMode "nested": the Discovery controller and the stride table composed *)
(* with the nested controller, the Nested Discovery Mode (NDM), the nested  *)
(* candidate that waits for its commit, the child context it becomes and    *)
(* the batch of completed children, driven by the same hooks as module      *)
(* Discovery.  Taint, recorders and loop bounds appear only through the     *)
(* outcome of a completed discovery.                                        *)
(*                                                                         *)
(* An instruction is its PC.  insts holds the dispatched instructions that  *)
(* are neither committed nor squashed, oldest first; skipped ones reached   *)
(* dispatch while a trap was pending and never entered the ROB.  The hook   *)
(* at squash only concerns them: other instructions outside the ROB have    *)
(* not been dispatched, so no structure refers to them.                     *)
(*                                                                         *)
(* MaxSeq bounds the instructions dispatched and Window the ones in flight. *)
(* A definition with an underscore in its name is a faulty variant of the   *)
(* one that follows it; no specification uses it.                           *)
(***************************************************************************)
EXTENDS NestedController, NestedMode, StrideTable

CONSTANTS Loads, MaxSeq, Window

ASSUME LoadsAssumption == Loads \subseteq PCs
ASSUME WindowAssumption == MaxSeq \in Nat /\ Window \in Nat

VARIABLES
    insts, nextSeq, commitStatus,
    ctl,         \* dvrDiscovery
    table,       \* dvrStrideDetector
    nested,      \* dvrNestedController
    ndm,         \* dvrNestedDiscoveryMode
    pending,     \* dvrPendingNestedCandidate
    context,     \* dvrNestedContext
    batch,       \* dvrNestedInvocationBatch
    launch       \* the invocations that the last commit flattened

pipeline == <<insts, nextSeq, commitStatus>>
root == <<ctl, table>>
ndmVars == <<nested, ndm, pending, context, batch, launch>>
vars == <<pipeline, root, ndmVars>>

Candidate == [valid : BOOLEAN, pc : PCs \cup {NoPC}, sequence : Nat]
NoCandidate == [valid |-> FALSE, pc |-> NoPC, sequence |-> 0]

Context == [active : BOOLEAN, id : Nat, triggerPC : PCs \cup {NoPC},
            triggerSequence : Nat]
NoContext == [active |-> FALSE, id |-> 0, triggerPC |-> NoPC,
              triggerSequence |-> 0]

Batch == [triggerPC : PCs \cup {NoPC}, count : Nat]
NoBatch == [triggerPC |-> NoPC, count |-> 0]

NoLaunch == 0

\* A completed discovery has no trusted bound or no FLR; or its recorder
\* overflowed; or the vector program was rejected; or it was accepted.  A
\* trusted bound leaves at least one lane (LoopBound).
Outcomes == {"unbounded", "overflowed", "rejected", "accepted"}

HasLanes(outcome) == outcome # "unbounded"

\* "short" is a proved lane count below the NDM threshold.
Lanes == {"short", "long"}

Deltas == {"none", "zero", "same", "other"}

(***************************************************************************)
(* The hook at dispatch.                                                    *)
(***************************************************************************)

BeginDVRDiscovery(pc, seq, next, restart) ==
    /\ ctl' = IF restart THEN Restart(ctl, pc, seq) ELSE Arm(ctl, pc, seq)
    /\ table' = BeginDiscovery(next, pc)
    /\ nested' = StartRoot(IF restart THEN NestedReset(nested) ELSE nested, seq)
    /\ ndm' = IF restart THEN NDMReset ELSE ndm
    /\ context' = IF restart THEN NoContext ELSE context
    /\ UNCHANGED <<pending, batch, launch>>

MayBegin_DuringNDM(seen) == ~IsDiscovering(seen)

MayBegin(seen) == ~IsDiscovering(seen) /\ ~NDMActive(ndm)

ObserveDVRDispatch(pc, seq) ==
    LET seen == ControllerObserveDispatch(ctl, pc, seq)
        window == IsDiscovering(seen) /\ ~StopPending(seen)
        observed == pc \in Loads /\ ~StopPending(seen)
        next == IF observed THEN TableObserveDispatch(table, pc, window, seq)
                            ELSE table
        candidate == observed /\ ReportsCandidate(table, pc, window)
    IN  IF candidate /\ window /\ pc # ctl.triggerPC
        THEN BeginDVRDiscovery(pc, seq, next, TRUE)
        ELSE IF candidate /\ MayBegin(seen)
        THEN BeginDVRDiscovery(pc, seq, next, FALSE)
        ELSE /\ ctl' = seen
             /\ table' = next
             /\ pending' = IF candidate /\ (pending.valid => seq < pending.sequence)
                           THEN [valid |-> TRUE, pc |-> pc, sequence |-> seq]
                           ELSE pending
             /\ UNCHANGED <<nested, ndm, context, batch, launch>>

(***************************************************************************)
(* The hook at commit.  s collects the nested state as instDone() changes   *)
(* it: [nested, ndm, pending, context, batch, launch].                      *)
(***************************************************************************)

\* launchDVRNestedPrefetches(): the NDM plan if there is one, else the batch;
\* it returns early with nothing to flatten, with no room in the prefetch queue,
\* or with no register for the vector.

LaunchNested(s, room) ==
    LET planned == s.ndm.state = "Vectorizing"
    IN  IF ~room THEN s
        ELSE [s EXCEPT !.batch = NoBatch,
                       !.launch = IF planned THEN s.ndm.invocations
                                             ELSE s.batch.count]

BatchReady(filled) == filled.count >= 2

\* completeDVRNestedContext() up to its reset of the context.
ChildOutcome(s, outcome, room) ==
    LET pc == s.context.triggerPC
        ndm1 == IF HasLanes(outcome) THEN RecordOuterInvocation(s.ndm) ELSE s.ndm
        admitted == \/ outcome = "accepted"
                    \/ outcome = "rejected" /\ ndm1.state = "Vectorizing"
        count == IF s.batch.triggerPC = pc THEN s.batch.count ELSE 0
        filled == [s EXCEPT !.ndm = ndm1,
                            !.batch = [triggerPC |-> pc,
                                       count |-> Least(count + 1, MaxOuterInvocations)]]
        flattens == /\ PlanReady(ndm1) \/ BatchReady(filled.batch)
                    /\ PlanReady(ndm1) \/ ~NDMActive(ndm1)
    IN  IF ~admitted THEN [s EXCEPT !.ndm = ndm1]
        ELSE IF ~flattens THEN filled
        ELSE [LaunchNested(filled, room) EXCEPT
                 !.ndm = IF PlanReady(ndm1) THEN FinishVectorization(ndm1)
                                            ELSE ndm1]

CompleteContext_EarlyReturn(s, outcome, room) ==
    IF outcome = "unbounded"
    THEN s
    ELSE [ChildOutcome(s, outcome, room) EXCEPT !.context = NoContext]

CompleteContext(s, outcome, room) ==
    [ChildOutcome(s, outcome, room) EXCEPT !.context = NoContext]

\* The pending candidate becomes a child when it commits, and is dropped when
\* a younger instruction commits.
AdmitCandidate(s, pc, seq) ==
    LET admits == s.pending.valid /\ s.pending.sequence = seq /\ s.pending.pc = pc
        nested1 == IF NDMActive(s.ndm) /\ Depth(s.nested) = 0
                   THEN StartRoot(s.nested, seq) ELSE s.nested
    IN  IF admits
        THEN IF Depth(nested1) = 1
             THEN [s EXCEPT !.nested = StartNested(nested1, pc, seq),
                            !.context = [active |-> TRUE, id |-> nested1.nextId,
                                         triggerPC |-> pc, triggerSequence |-> seq],
                            !.pending = NoCandidate]
             ELSE [s EXCEPT !.nested = nested1, !.pending = NoCandidate]
        ELSE IF s.pending.valid /\ seq > s.pending.sequence
        THEN [s EXCEPT !.pending = NoCandidate]
        ELSE s

\* The root Discovery completes, in nested mode: an eligible lane count
\* starts NDM, any other discards it.
RootCompleted(s, pc, lanes, outcome, room) ==
    LET ndm1 == IF HasLanes(outcome) THEN RecordOuterInvocation(s.ndm) ELSE s.ndm
        ndm2 == IF lanes = "short" THEN NDMStart(ndm1, pc) ELSE NDMReset
        capture == PlanReady(ndm2) /\ outcome \in {"rejected", "accepted"}
        done == IF capture
                THEN [LaunchNested([s EXCEPT !.ndm = ndm2], room) EXCEPT
                         !.ndm = FinishVectorization(ndm2), !.context = NoContext]
                ELSE [s EXCEPT !.ndm = ndm2]
    IN  IF Depth(done.nested) > 1
        THEN [done EXCEPT !.nested = NestedReset(@), !.context = NoContext]
        ELSE IF Depth(done.nested) = 1
        THEN [done EXCEPT !.nested = Pop(@)]
        ELSE done

RootTimedOut(s) ==
    IF Depth(s.nested) = 0 THEN s
    ELSE [s EXCEPT !.nested = NestedReset(@), !.context = NoContext]

InstDone(pc, seq, delta, outcome, lanes, room) ==
    LET event == NestedEvent(nested, pc, seq)
        ended == event # "None" /\ context.active
                     /\ Top(nested).id = context.id
        ndm1 == ObserveInnerBranch(NDMObserveCommit(ndm), pc)
        ndm2 == IF NDMActive(ndm1) /\ pc \in Loads
                THEN ObserveOuterLoad(ndm1, pc, delta) ELSE ndm1
        s1 == [nested |-> NestedObserveCommit(nested, pc, seq), ndm |-> ndm2,
               pending |-> pending, context |-> context, batch |-> batch,
               launch |-> NoLaunch]
        s2 == IF ended /\ event = "Completed" THEN CompleteContext(s1, outcome, room)
                                              ELSE s1
        s3 == AdmitCandidate(s2, pc, seq)
        s4 == IF ended /\ event = "TimedOut" /\ s3.context.id = context.id
              THEN [s3 EXCEPT !.context = NoContext] ELSE s3
        s5 == CASE CommitEvent(ctl, seq) = "Completed" ->
                       RootCompleted(s4, pc, lanes, outcome, room)
                [] CommitEvent(ctl, seq) = "TimedOut" -> RootTimedOut(s4)
                [] OTHER -> s4
    IN  /\ ctl' = ControllerObserveCommit(ctl, seq)
        /\ table' = IF CommitEvent(ctl, seq) \in {"Completed", "TimedOut"}
                    THEN EndDiscovery(table) ELSE table
        /\ nested' = s5.nested
        /\ ndm' = s5.ndm
        /\ pending' = s5.pending
        /\ context' = s5.context
        /\ batch' = s5.batch
        /\ launch' = s5.launch

(***************************************************************************)
(* The hook at squash, for the oldest instruction it is called for.         *)
(***************************************************************************)
SquashInstIt(seq) ==
    IF RollsBack(ctl, seq)
    THEN /\ ctl' = Rollback(ctl, seq)
         /\ table' = EndDiscovery(SquashDiscovery(table, seq))
         /\ nested' = NestedReset(nested)
         /\ ndm' = NDMReset
         /\ context' = NoContext
         /\ pending' = NoCandidate
         /\ UNCHANGED <<batch, launch>>
    ELSE /\ table' = SquashDiscovery(table, seq)
         /\ UNCHANGED <<ctl, ndmVars>>

(***************************************************************************)
(* The pipeline.                                                            *)
(***************************************************************************)
Init ==
    /\ insts = <<>>
    /\ nextSeq = 1
    /\ commitStatus = "Running"
    /\ ctl = Finished
    /\ table = EmptyTable
    /\ nested = EmptyNested
    /\ ndm = NDMReset
    /\ pending = NoCandidate
    /\ context = NoContext
    /\ batch = NoBatch
    /\ launch = NoLaunch

\* Fetch, rename and dispatch of the next instruction.
Dispatch(pc) ==
    /\ nextSeq <= MaxSeq
    /\ Len(insts) < Window
    /\ insts' = Append(insts, [seq |-> nextSeq, pc |-> pc,
                               skipped |-> commitStatus = "TrapPending"])
    /\ nextSeq' = nextSeq + 1
    /\ UNCHANGED commitStatus
    /\ ObserveDVRDispatch(pc, nextSeq)

\* observeDVRLoad(): the address of a load trains its PC, weakens it, or takes
\* the slot of another PC.
ExecuteLoad(k, pc) ==
    /\ insts[k].pc \in Loads
    /\ \/ pc = insts[k].pc /\ pc \notin table.trained /\ table' = Train(table, pc)
       \/ pc = insts[k].pc /\ pc \in table.trained /\ table' = Untrain(table, pc)
       \/ pc # insts[k].pc /\ insts[k].pc \notin table.trained \cup table.seen
             /\ table' = Evict(table, pc)
    /\ UNCHANGED <<pipeline, ctl, ndmVars>>

\* What a commit learns about the data: the delta of an outer load, and the
\* outcome, the lanes and the room in the queue if a discovery completes.
CommitInputs(pc, seq) ==
    LET rootEnds == CommitEvent(ctl, seq) = "Completed"
        childEnds == NestedEvent(nested, pc, seq) = "Completed"
    IN  [delta : IF NDMActive(ndm) /\ pc \in Loads THEN Deltas ELSE {"none"},
         outcome : IF rootEnds \/ childEnds THEN Outcomes ELSE {"unbounded"},
         lanes : IF rootEnds THEN Lanes ELSE {"long"},
         room : IF rootEnds \/ childEnds THEN BOOLEAN ELSE {FALSE}]

Commit ==
    /\ insts # <<>>
    /\ commitStatus = "Running"
    /\ insts' = Tail(insts)
    /\ UNCHANGED <<nextSeq, commitStatus>>
    /\ \E in \in CommitInputs(insts[1].pc, insts[1].seq) :
          InstDone(insts[1].pc, insts[1].seq, in.delta, in.outcome, in.lanes, in.room)

\* The ROB squashes what follows instruction k, no hook is called.
Squash(k) ==
    /\ commitStatus = "Running"
    /\ k < Len(insts)
    /\ insts' = SubSeq(insts, 1, k)
    /\ UNCHANGED <<nextSeq, commitStatus, root, ndmVars>>

Trap ==
    /\ insts # <<>>
    /\ commitStatus = "Running"
    /\ commitStatus' = "TrapPending"
    /\ UNCHANGED <<insts, nextSeq, root, ndmVars>>

\* The skipped instructions are removed with the hook, the others without.
SquashFromTrap ==
    LET skipped == {k \in DOMAIN insts : insts[k].skipped}
    IN  /\ commitStatus = "TrapPending"
        /\ commitStatus' = "Running"
        /\ insts' = <<>>
        /\ UNCHANGED nextSeq
        /\ IF skipped = {} THEN UNCHANGED <<root, ndmVars>>
                           ELSE SquashInstIt(insts[Min(skipped)].seq)

Next ==
    \/ \E pc \in PCs : Dispatch(pc)
    \/ \E k \in DOMAIN insts, pc \in PCs : ExecuteLoad(k, pc)
    \/ Commit
    \/ \E k \in DOMAIN insts : Squash(k)
    \/ Trap
    \/ SquashFromTrap

Spec == Init /\ [][Next]_vars

--------------------------------------------------------------------------------

\* The type of the state: the stack of discoveries stays within MaxDepth and
\* the collected outer bases within their array.
TypeOK ==
    /\ insts \in Seq([seq : Nat \ {0}, pc : PCs, skipped : BOOLEAN])
    /\ nextSeq \in Nat \ {0}
    /\ commitStatus \in {"Running", "TrapPending"}
    /\ ctl \in Controller
    /\ table \in StrideRecord
    /\ nested \in Nested /\ Depth(nested) <= MaxDepth
    /\ ndm \in NDM /\ ndm.bases <= MaxOuterInvocations
    /\ pending \in Candidate
    /\ context \in Context
    /\ batch \in Batch
    /\ launch \in Nat

\* observeDVRDispatch(), instDone(): the inner Discovery and the outer search
\* are never active together, so a completing Discovery never finds an NDM
\* plan to extend: children alone feed it.
NDMExcludesDiscovery == NDMActive(ndm) => ~IsDiscovering(ctl)

\* dvrNestedContext is the second frame of dvrNestedController, although the
\* two are pushed, timed out, completed, reset and rolled back separately.
ContextIsChild ==
    /\ context.active <=> Depth(nested) = 2
    /\ context.active =>
           LET child == nested.frames[2]
           IN  /\ context.id = child.id
               /\ context.triggerPC = child.triggerPC
               /\ context.triggerSequence = child.triggerSequence
               /\ child.parentId = nested.frames[1].id

\* recordOuterInvocation(): once a child is recorded, every collected outer
\* base is in the plan, each once, and nothing is collected any more.
PlanIsWhole ==
    ndm.state = "Vectorizing" =>
        /\ ndm.invocations = ndm.bases
        /\ ndm.consumed = ndm.bases
        /\ ndm.invocations <= MaxOuterInvocations

\* completeDVRNestedContext(): a nested launch flattens at least two
\* invocations, from the plan or from the batch.
LaunchIsPlural == launch # NoLaunch => launch >= 2
================================================================================
