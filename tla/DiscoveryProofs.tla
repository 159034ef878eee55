---------------------------- MODULE DiscoveryProofs ----------------------------
(***************************************************************************)
(* Type correctness and safety of Discovery, for every set of instructions, *)
(* every window and every capacity.                                         *)
(***************************************************************************)
EXTENDS Discovery, SequenceTheorems, WellFoundedInduction, TLAPS

--------------------------------------------------------------------------------
(* Least and greatest elements.                                             *)

\* A non-empty set of numbers has a least element, which Min chooses.
THEOREM MinProperties ==
    ASSUME NEW S \in SUBSET Nat, S # {}
    PROVE  Min(S) \in S /\ \A y \in S : Min(S) <= y
<1> DEFINE R == OpToRel(<, Nat)
<1>1. IsWellFoundedOn(R, Nat)
  BY NatLessThanWellFounded, Zenon
<1>2. PICK x \in S : \A y \in S : ~(<<y, x>> \in R)
  <2> HIDE DEF R
  <2> QED BY <1>1, WFMin, Zenon
<1>3. \A y \in S : x <= y
  <2> TAKE y \in S
  <2>1. x \in Nat /\ y \in Nat
    OBVIOUS
  <2>2. ~(y < x)
    <3> SUFFICES ASSUME y < x PROVE FALSE
      OBVIOUS
    <3>1. <<y, x>> \in {z \in Nat \X Nat : z[1] < z[2]}
      BY <2>1
    <3> QED
      BY <1>2, <3>1 DEF OpToRel
  <2> QED
    BY <2>1, <2>2
<1> QED
  BY <1>3, Zenon DEF Min

\* A non-empty set of numbers up to n has a greatest element, which is the
\* one Max chooses.
THEOREM MaxProperties ==
    ASSUME NEW n \in Nat, NEW S \in SUBSET (0 .. n), S # {}
    PROVE  Max(S) \in S /\ \A y \in S : y <= Max(S)
<1> DEFINE T == {n - x : x \in S}
<1>1. T \in SUBSET Nat
  OBVIOUS
<1>2. T # {}
  BY Zenon
<1>3. Min(T) \in T /\ \A e \in T : Min(T) <= e
  <2> HIDE DEF T
  <2> QED
    BY <1>1, <1>2, MinProperties, Zenon
<1>4. PICK d \in T : \A e \in T : d <= e
  BY <1>3, Zenon
<1>5. PICK x \in S : d = n - x
  OBVIOUS
<1>6. \A y \in S : y <= x
  <2> TAKE y \in S
  <2>1. n - x <= n - y
    BY <1>4, <1>5
  <2> HIDE DEF T
  <2>2. S \subseteq Nat /\ x \in S /\ y \in S
    OBVIOUS
  <2> QED
    BY <2>1, <2>2
<1> QED
  BY <1>6 DEF Max

--------------------------------------------------------------------------------
(* The stride table and the Discovery controller.                           *)

\* The undo loop of the stride table keeps a prefix of its writes.
LEMMA WritesKeptRange ==
    ASSUME NEW t \in StrideRecord, NEW seq \in Nat
    PROVE  WritesKept(t, seq) \in 0 .. Len(t.writes)
<1> DEFINE S == {0} \cup {k \in DOMAIN t.writes : t.writes[k].sequence < seq}
<1>1. S \in SUBSET (0 .. Len(t.writes)) /\ S # {} /\ Len(t.writes) \in Nat
  BY DEF StrideRecord
<1>2. Max(S) \in S
  <2> HIDE DEF S
  <2> QED BY <1>1, MaxProperties, Zenon
<1> QED
  BY <1>1, <1>2 DEF WritesKept

\* Undoing and ending a generation returns a stride table; ending it clears
\* every bit and re-arms every trained PC.
LEMMA TableUndoTypes ==
    ASSUME NEW t \in StrideRecord, NEW seq \in Nat
    PROVE  /\ SquashDiscovery(t, seq) \in StrideRecord
           /\ EndDiscovery(t) \in StrideRecord
           /\ EndDiscovery(t).seen = {} /\ EndDiscovery(t).writes = <<>>
           /\ EndDiscovery(t).pending = EndDiscovery(t).trained
<1>1. SquashDiscovery(t, seq) \in StrideRecord
  <2> DEFINE kept == WritesKept(t, seq)
  <2>1. kept \in 0 .. Len(t.writes)
    BY WritesKeptRange
  <2>2. SubSeq(t.writes, 1, kept) \in Seq(DiscoverySeenWrite)
    BY <2>1, SubSeqProperties DEF StrideRecord
  <2> HIDE DEF kept
  <2>3. [t EXCEPT !.seen = @ \ {t.writes[k].pc : k \in (kept + 1) .. Len(t.writes)},
                  !.writes = SubSeq(@, 1, kept)] \in StrideRecord
    BY <2>2, Zenon DEF StrideRecord
  <2> QED
    BY <2>3 DEF SquashDiscovery, kept
<1>2. /\ EndDiscovery(t) \in StrideRecord
      /\ EndDiscovery(t).seen = {} /\ EndDiscovery(t).writes = <<>>
      /\ EndDiscovery(t).pending = EndDiscovery(t).trained
  <2> DEFINE empty == <<>>
  <2>1. empty \in Seq(DiscoverySeenWrite)
    OBVIOUS
  <2> HIDE DEF empty
  <2> DEFINE e == [t EXCEPT !.seen = {}, !.writes = empty, !.pending = t.trained]
  <2>2. e \in StrideRecord /\ e.seen = {} /\ e.writes = empty /\ e.pending = e.trained
    BY <2>1, Zenon DEF StrideRecord
  <2> QED
    BY <2>2, Zenon DEF EndDiscovery, empty
<1> QED
  BY <1>1, <1>2

\* Every method of the stride table returns a stride table.
LEMMA TableTypes ==
    ASSUME NEW t \in StrideRecord, NEW pc \in PCs, NEW seq \in Nat,
           NEW window \in BOOLEAN
    PROVE  /\ EmptyTable \in StrideRecord
           /\ Train(t, pc) \in StrideRecord
           /\ Untrain(t, pc) \in StrideRecord
           /\ Evict(t, pc) \in StrideRecord
           /\ TableObserveDispatch(t, pc, window, seq) \in StrideRecord
           /\ BeginDiscovery(t, pc) \in StrideRecord
           /\ SquashDiscovery(t, seq) \in StrideRecord
           /\ EndDiscovery(t) \in StrideRecord
<1>1. EmptyTable \in StrideRecord
  BY DEF EmptyTable, StrideRecord
<1>2. Train(t, pc) \in StrideRecord /\ Untrain(t, pc) \in StrideRecord
  BY Zenon DEF Train, Untrain, StrideRecord
<1>3. Evict(t, pc) \in StrideRecord
  BY Zenon DEF Evict, Untrain, StrideRecord
<1>4. TableObserveDispatch(t, pc, window, seq) \in StrideRecord
  <2>1. Append(t.writes, [sequence |-> seq, pc |-> pc]) \in
            Seq(DiscoverySeenWrite)
    BY AppendProperties DEF StrideRecord, DiscoverySeenWrite
  <2> QED
    BY <2>1, Zenon DEF TableObserveDispatch, StrideRecord
<1>5. BeginDiscovery(t, pc) \in StrideRecord
  <2> DEFINE empty == <<>>
  <2>1. empty \in Seq(DiscoverySeenWrite)
    OBVIOUS
  <2> HIDE DEF empty
  <2>2. [t EXCEPT !.seen = {pc}, !.writes = empty] \in StrideRecord
    BY <2>1, Zenon DEF StrideRecord
  <2> QED
    BY <2>2, Zenon DEF BeginDiscovery, empty
<1>6. SquashDiscovery(t, seq) \in StrideRecord /\ EndDiscovery(t) \in StrideRecord
  BY TableUndoTypes
<1> QED
  BY <1>1, <1>2, <1>3, <1>4, <1>5, <1>6

\* Every method of the controller returns a controller that has not reached
\* its instruction limit.
LEMMA ControllerTypes ==
    ASSUME NEW c \in Controller, c.instructions < MaxInstructions,
           NEW pc \in PCs, NEW seq \in Nat,
           NEW d, d \in {Finished, Arm(c, pc, seq), Restart(c, pc, seq),
                        ControllerObserveDispatch(c, pc, seq),
                        ControllerObserveCommit(c, seq), Rollback(c, seq)}
    PROVE  d \in Controller /\ d.instructions < MaxInstructions
<1> USE MaxInstructionsAssumption DEF Controller
<1>1. Finished \in Controller /\ Finished.instructions < MaxInstructions
  BY DEF Finished
<1>2. CASE d = Arm(c, pc, seq)
  BY <1>2 DEF Arm
<1>3. CASE d = Restart(c, pc, seq)
  BY <1>3 DEF Restart, Arm, Finished
<1>4. CASE d = ControllerObserveDispatch(c, pc, seq)
  BY <1>4 DEF ControllerObserveDispatch
<1>5. CASE d = ControllerObserveCommit(c, seq)
  <2>1. CASE CommitEvent(c, seq) = "None"
    BY <1>5, <2>1 DEF ControllerObserveCommit
  <2>2. CASE CommitEvent(c, seq) = "Counted"
    <3>1. c.instructions + 1 < MaxInstructions
      BY <2>2 DEF CommitEvent
    <3>2. d = [c EXCEPT !.instructions = @ + 1]
      BY <1>5, <2>2 DEF ControllerObserveCommit
    <3> QED
      BY <3>1, <3>2
  <2>3. CASE CommitEvent(c, seq) \notin {"None", "Counted"}
    BY <1>1, <1>5, <2>3 DEF ControllerObserveCommit
  <2> QED
    BY <2>1, <2>2, <2>3
<1>6. CASE d = Rollback(c, seq)
  BY <1>1, <1>6 DEF Rollback
<1> QED
  BY <1>1, <1>2, <1>3, <1>4, <1>5, <1>6

--------------------------------------------------------------------------------
(* The operations of the components keep their types.                       *)

\* The undo loop of the taint tracker keeps a prefix of its history.
LEMMA VTTKeptRange ==
    ASSUME NEW v \in VTT, NEW seq \in Nat
    PROVE  VTTKept(v, seq) \in 0 .. Len(v.history)
<1> DEFINE S == {0} \cup {k \in DOMAIN v.history : v.history[k].sequence < seq}
<1>1. S \in SUBSET (0 .. Len(v.history)) /\ S # {} /\ Len(v.history) \in Nat
  BY DEF VTT
<1>2. Max(S) \in S
  <2> HIDE DEF S
  <2> QED BY <1>1, MaxProperties, Zenon
<1> QED
  BY <1>1, <1>2 DEF VTTKept

\* Every method of the taint tracker returns a taint tracker.
LEMMA VTTTypes ==
    ASSUME NEW v \in VTT, NEW inst \in DVRInst, NEW seq \in Nat
    PROVE  /\ VTTReset \in VTT
           /\ VTTBegin(inst) \in VTT
           /\ VTTObserveSpeculative(v, inst, seq) \in VTT
           /\ VTTSquash(v, seq) \in VTT
<1>1. VTTReset \in VTT
  BY DEF VTTReset, VTT
<1>2. VTTBegin(inst) \in VTT
  <2>1. VTTBegin(inst) = [taint |-> inst.dests, finalLoadPC |-> NoPC,
                          history |-> <<>>]
    BY DEF VTTBegin, VTTReset
  <2> QED
    BY <2>1 DEF VTT, DVRInst
<1>3. VTTObserveSpeculative(v, inst, seq) \in VTT
  <2> DEFINE snapshot == [sequence |-> seq, taint |-> v.taint,
                          finalLoadPC |-> v.finalLoadPC]
  <2>1. snapshot \in SpeculativeState
    BY DEF VTT, SpeculativeState
  <2>2. Append(v.history, snapshot) \in Seq(SpeculativeState)
    BY <2>1, AppendProperties DEF VTT
  <2>3. TaintAfter(v.taint, inst) \in SUBSET Regs
    BY DEF TaintAfter, VTT, DVRInst
  <2>4. FLRAfter(v.taint, v.finalLoadPC, inst) \in PCs \cup {NoPC}
    BY DEF FLRAfter, VTT, DVRInst
  <2> QED
    BY <2>2, <2>3, <2>4, Zenon DEF VTTObserveSpeculative, VTTObserve, VTT
<1>4. VTTSquash(v, seq) \in VTT
  <2> DEFINE kept == VTTKept(v, seq)
  <2>1. kept \in 0 .. Len(v.history)
    BY VTTKeptRange
  <2>2. CASE kept = Len(v.history)
    BY <2>2 DEF VTTSquash
  <2>3. CASE kept # Len(v.history)
    <3>1. v.history[kept + 1] \in SpeculativeState
      BY <2>1, <2>3, ElementOfSeq DEF VTT
    <3>2. SubSeq(v.history, 1, kept) \in Seq(SpeculativeState)
      BY <2>1, SubSeqProperties DEF VTT
    <3> HIDE DEF kept
    <3>3. [taint |-> v.history[kept + 1].taint,
           finalLoadPC |-> v.history[kept + 1].finalLoadPC,
           history |-> SubSeq(v.history, 1, kept)] \in VTT
      BY <3>1, <3>2 DEF VTT, SpeculativeState
    <3> QED
      BY <2>3, <3>3 DEF VTTSquash, kept
  <2> QED
    BY <2>2, <2>3
<1> QED
  BY <1>1, <1>2, <1>3, <1>4

\* Recording an instruction stays within the capacity of the recorder.
LEMMA RecordTypes ==
    ASSUME NEW rec \in Recorder, Len(rec.uops) <= MaxUops,
           NEW inst \in DVRInst, NEW tainted \in BOOLEAN
    PROVE  /\ Record(rec, inst, tainted) \in Recorder
           /\ Len(Record(rec, inst, tainted).uops) <= MaxUops
<1> DEFINE uop == [pc |-> inst.pc, tainted |-> tainted]
<1> DEFINE Uop == [pc : PCs, tainted : BOOLEAN]
<1>1. uop \in Uop
  BY DEF DVRInst
<1>2. rec.uops \in Seq(Uop) /\ Len(rec.uops) \in Nat
  BY DEF Recorder
<1>3. CASE Len(rec.uops) >= MaxUops
  BY <1>3, Zenon DEF Record, Recorder
<1>4. CASE ~(Len(rec.uops) >= MaxUops)
  <2> DEFINE longer == Append(rec.uops, uop)
  <2>1. longer \in Seq(Uop) /\ Len(longer) = Len(rec.uops) + 1
    BY <1>1, <1>2, AppendProperties
  <2> HIDE DEF longer
  <2>2. [rec EXCEPT !.uops = longer] \in Recorder
    BY <2>1 DEF Recorder
  <2>3. [rec EXCEPT !.uops = longer].uops = longer
    BY DEF Recorder
  <2>4. Record(rec, inst, tainted) = [rec EXCEPT !.uops = longer]
    BY <1>4, Zenon DEF Record, longer
  <2> QED
    BY <1>2, <1>4, <2>1, <2>2, <2>3, <2>4, BoundsAssumption
<1> QED
  BY <1>3, <1>4

\* The empty recorder, the cleared marks and the erased ones have their types.
LEMMA EmptyTypes ==
    /\ EmptyRecorder \in Recorder
    /\ Len(EmptyRecorder.uops) <= MaxUops
    /\ NoMarks \in Marks
    /\ \A seq : marks \in Marks => EraseMarks(seq) \in Marks
  BY BoundsAssumption DEF EmptyRecorder, Recorder, NoMarks, Marks, EraseMarks

--------------------------------------------------------------------------------
(* The hooks keep the types of the DVR state.                               *)

\* The hook at dispatch keeps the types.
LEMMA DispatchKeepsTypes ==
    ASSUME DVRTypeOK, NEW inst \in DVRInst, NEW seq \in Nat,
           ObserveDVRDispatch(inst, seq)
    PROVE  DVRTypeOK'
<1> DEFINE seen == ControllerObserveDispatch(ctl, inst.pc, seq)
           window == IsDiscovering(seen) /\ ~StopPending(seen)
           observed == inst.load /\ ~StopPending(seen)
           next == IF observed
                   THEN TableObserveDispatch(table, inst.pc, window, seq)
                   ELSE table
<1>1. inst.pc \in PCs /\ window \in BOOLEAN
  BY DEF DVRInst, IsDiscovering
<1>2. next \in StrideRecord
  <2> HIDE DEF window
  <2> QED BY <1>1, TableTypes, Zenon DEF DVRTypeOK
<1>3. CASE BeginDVRDiscovery(inst, seq, next, window)
  <2> HIDE DEF next, window
  <2>1. ctl' \in Controller /\ ctl'.instructions < MaxInstructions
    BY <1>1, <1>3, ControllerTypes DEF DVRTypeOK, BeginDVRDiscovery
  <2>2. table' \in StrideRecord
    BY <1>1, <1>2, <1>3, TableTypes DEF BeginDVRDiscovery
  <2>3. vtt' \in VTT
    BY <1>3, VTTTypes DEF DVRTypeOK, BeginDVRDiscovery
  <2>4. recorder' \in Recorder /\ Len(recorder'.uops) <= MaxUops
    BY <1>3, EmptyTypes, RecordTypes, Zenon DEF BeginDVRDiscovery
  <2>5. marks' \in Marks /\ flr' \in PCs \cup {NoPC}
    BY <1>3, EmptyTypes DEF BeginDVRDiscovery
  <2> QED
    BY <2>1, <2>2, <2>3, <2>4, <2>5 DEF DVRTypeOK
<1>4. CASE /\ ctl' = seen /\ table' = next
           /\ IF window /\ seq > seen.triggerSequence
              THEN ObserveBody(inst, seq)
              ELSE UNCHANGED <<vtt, marks>>
           /\ UNCHANGED <<flr, recorder>>
  <2>1. ctl' \in Controller /\ ctl'.instructions < MaxInstructions
    BY <1>1, <1>4, ControllerTypes DEF DVRTypeOK
  <2>2. table' \in StrideRecord
    BY <1>2, <1>4
  <2> HIDE DEF next, window, seen
  <2>3. CASE ObserveBody(inst, seq)
    <3>1. vtt' \in VTT
      BY <2>3, VTTTypes DEF DVRTypeOK, ObserveBody
    <3>2. marks' \in Marks
      BY <2>3 DEF DVRTypeOK, ObserveBody, Marks
    <3> QED
      BY <1>4, <2>1, <2>2, <3>1, <3>2 DEF DVRTypeOK
  <2>4. CASE UNCHANGED <<vtt, marks>>
    BY <1>4, <2>1, <2>2, <2>4 DEF DVRTypeOK
  <2> QED
    BY <1>4, <2>3, <2>4
<1> QED
  BY <1>3, <1>4, Zenon DEF ObserveDVRDispatch

\* The hook at commit keeps the types, the counter and the recorder in bounds.
LEMMA CommitKeepsTypes ==
    ASSUME DVRTypeOK, NEW inst \in DVRInst, NEW seq \in Nat, InstDone(inst, seq)
    PROVE  DVRTypeOK'
<1>1. ctl' \in Controller /\ ctl'.instructions < MaxInstructions
  <2>1. inst.pc \in PCs
    BY DEF DVRInst
  <2> QED
    BY <2>1, ControllerTypes DEF DVRTypeOK, InstDone
<1>2. CASE EndGeneration /\ marks' \in {marks, EraseMarks(seq)}
  <2>1. table' \in StrideRecord
    <3>1. inst.pc \in PCs
      BY DEF DVRInst
    <3> QED
      BY <1>2, <3>1, TableTypes, Zenon DEF DVRTypeOK, EndGeneration
  <2>2. vtt' \in VTT
    BY <1>2, VTTTypes DEF DVRTypeOK, EndGeneration
  <2> QED
    BY <1>1, <1>2, <2>1, <2>2, EmptyTypes DEF DVRTypeOK, EndGeneration
<1>3. CASE /\ CommitBody(inst, seq) \/ UNCHANGED <<marks, recorder, flr>>
           /\ UNCHANGED <<table, vtt>>
  <2>1. CASE CommitBody(inst, seq)
    <3>1. recorder' \in Recorder /\ Len(recorder'.uops) <= MaxUops
      <4> DEFINE tainted == seq \in marks.tainted
                 longer == Record(recorder, inst, tainted)
      <4>1. tainted \in BOOLEAN
        OBVIOUS
      <4>2. recorder' \in {recorder, longer}
        BY <2>1 DEF CommitBody
      <4> HIDE DEF tainted
      <4>3. longer \in Recorder /\ Len(longer.uops) <= MaxUops
        BY <4>1, RecordTypes DEF DVRTypeOK
      <4> QED
        BY <4>2, <4>3 DEF DVRTypeOK
    <3>2. marks' \in Marks /\ flr' \in PCs \cup {NoPC}
      BY <2>1, EmptyTypes DEF DVRTypeOK, CommitBody, DVRInst
    <3> QED
      BY <1>1, <1>3, <3>1, <3>2 DEF DVRTypeOK
  <2>2. CASE UNCHANGED <<marks, recorder, flr>>
    BY <1>1, <1>3, <2>2 DEF DVRTypeOK
  <2> QED
    BY <1>3, <2>1, <2>2
<1> QED
  BY <1>2, <1>3 DEF InstDone

\* Removing instructions, with the hook at squash, keeps the types.
LEMMA SquashKeepsTypes ==
    ASSUME DVRTypeOK, NEW seq \in Nat, NEW inst \in DVRInst, SquashInstIt(seq)
    PROVE  DVRTypeOK'
<1>1. inst.pc \in PCs
  BY DEF DVRInst
<1>2. SquashDiscovery(table, seq) \in StrideRecord
  BY <1>1, TableTypes, Zenon DEF DVRTypeOK
<1>3. CASE RollsBack(ctl, seq)
  <2>1. ctl' \in Controller /\ ctl'.instructions < MaxInstructions
    BY <1>1, <1>3, ControllerTypes DEF DVRTypeOK, SquashInstIt
  <2>2. table' \in StrideRecord
    BY <1>1, <1>2, <1>3, TableTypes, Zenon DEF SquashInstIt
  <2>3. vtt' \in VTT
    BY <1>3, VTTTypes DEF DVRTypeOK, SquashInstIt
  <2> QED
    BY <1>3, <2>1, <2>2, <2>3, EmptyTypes DEF DVRTypeOK, SquashInstIt
<1>4. CASE ~RollsBack(ctl, seq)
  <2>1. vtt' \in VTT
    BY <1>4, VTTTypes DEF DVRTypeOK, SquashInstIt
  <2> QED
    BY <1>2, <1>4, <2>1 DEF DVRTypeOK, SquashInstIt
<1> QED
  BY <1>3, <1>4

--------------------------------------------------------------------------------
(* Type correctness.                                                        *)

\* The first position outside the ROB lies in the list or just after it.
LEMMA FirstNotInROBRange ==
    ASSUME PipelineTypeOK
    PROVE  FirstNotInROB \in 1 .. (Len(insts) + 1)
<1> DEFINE S == {0} \cup {k \in DOMAIN insts : InROB(k)}
<1>1. S \in SUBSET (0 .. Len(insts)) /\ S # {} /\ Len(insts) \in Nat
  BY DEF PipelineTypeOK
<1>2. Max(S) \in S
  <2> HIDE DEF S
  <2> QED BY <1>1, MaxProperties, Zenon
<1> QED
  BY <1>1, <1>2 DEF FirstNotInROB

\* Marking instructions as squashed changes nothing else about the list.
LEMMA ROBSquashProperties ==
    ASSUME PipelineTypeOK, NEW seq
    PROVE  /\ ROBSquash(seq) \in Seq(InFlight)
           /\ Len(ROBSquash(seq)) = Len(insts)
           /\ DOMAIN ROBSquash(seq) = DOMAIN insts
           /\ \A k \in DOMAIN insts :
                 /\ ROBSquash(seq)[k].seq = insts[k].seq
                 /\ ROBSquash(seq)[k].inst = insts[k].inst
                 /\ ROBSquash(seq)[k].place = insts[k].place
                 /\ ROBSquash(seq)[k].dispatched = insts[k].dispatched
                 /\ insts[k].squashed => ROBSquash(seq)[k].squashed
<1>1. /\ Len(insts) \in Nat
      /\ DOMAIN insts = 1 .. Len(insts)
      /\ \A k \in DOMAIN insts : insts[k] \in InFlight
  BY DEF PipelineTypeOK
<1>2. \A k \in DOMAIN insts :
         [insts[k] EXCEPT !.squashed = TRUE] \in InFlight
  BY <1>1, Zenon DEF InFlight
<1>3. ROBSquash(seq) \in [1 .. Len(insts) -> InFlight]
  BY <1>1, <1>2 DEF ROBSquash
<1>4. ROBSquash(seq) \in Seq(InFlight) /\ Len(ROBSquash(seq)) = Len(insts)
  <2> DEFINE list == ROBSquash(seq)
  <2> HIDE DEF list
  <2> SUFFICES list \in Seq(InFlight) /\ Len(list) = Len(insts)
    BY DEF list
  <2>1. list \in [1 .. Len(insts) -> InFlight]
    BY <1>3 DEF list
  <2> QED
    BY <1>1, <2>1, IsASeq
<1>5. \A k \in DOMAIN insts :
         /\ ROBSquash(seq)[k].seq = insts[k].seq
         /\ ROBSquash(seq)[k].inst = insts[k].inst
         /\ ROBSquash(seq)[k].place = insts[k].place
         /\ ROBSquash(seq)[k].dispatched = insts[k].dispatched
         /\ insts[k].squashed => ROBSquash(seq)[k].squashed
  BY <1>1 DEF ROBSquash, InFlight
<1> QED
  BY <1>1, <1>3, <1>4, <1>5

\* Removing a suffix of the list keeps the types of everything.
LEMMA RemoveKeepsTypes ==
    ASSUME TypeOK, NEW list \in Seq(InFlight), NEW first \in 1 .. (Len(list) + 1),
           RemoveInsts(list, first)
    PROVE  insts' \in Seq(InFlight) /\ DVRTypeOK'
<1>1. insts' \in Seq(InFlight)
  BY SubSeqProperties DEF RemoveInsts
<1>2. CASE first <= Len(list)
  <2>1. list[first].seq \in Nat /\ list[first].inst \in DVRInst
    <3>1. list[first] \in InFlight
      BY <1>2, ElementOfSeq
    <3> QED
      BY <3>1 DEF InFlight
  <2>2. SquashInstIt(list[first].seq)
    BY <1>2 DEF RemoveInsts
  <2> QED
    BY <1>1, <2>1, <2>2, SquashKeepsTypes DEF TypeOK
<1>3. CASE ~(first <= Len(list))
  BY <1>1, <1>3 DEF RemoveInsts, TypeOK, DVRTypeOK, dvr
<1> QED
  BY <1>2, <1>3

\* Every instruction in flight has the type of one.
LEMMA EntryTypes ==
    ASSUME PipelineTypeOK
    PROVE  /\ Len(insts) \in Nat /\ DOMAIN insts = 1 .. Len(insts)
           /\ \A k \in DOMAIN insts :
                 /\ insts[k] \in InFlight
                 /\ insts[k].seq \in Nat \ {0}
                 /\ insts[k].inst \in DVRInst
                 /\ insts[k].dispatched \in BOOLEAN
                 /\ insts[k].squashed \in BOOLEAN
<1>1. insts \in Seq(InFlight)
  BY DEF PipelineTypeOK
<1>2. \A k \in DOMAIN insts : insts[k] \in InFlight
  BY <1>1, ElementOfSeq
<1> QED
  BY <1>1, <1>2 DEF InFlight

\* Replacing one instruction by another keeps the list a list.
LEMMA ReplaceEntry ==
    ASSUME PipelineTypeOK, NEW k \in DOMAIN insts, NEW entry \in InFlight
    PROVE  [insts EXCEPT ![k] = entry] \in Seq(InFlight)
  BY ExceptSeq DEF PipelineTypeOK

\* The initial state is well typed.
LEMMA InitTypeOK == Init => TypeOK
<1> SUFFICES ASSUME Init PROVE TypeOK
  OBVIOUS
<1>1. PipelineTypeOK
  BY DEF Init, PipelineTypeOK
<1>2. ctl \in Controller /\ ctl.instructions < MaxInstructions
  BY MaxInstructionsAssumption DEF Init, Finished, Controller
<1>3. table \in StrideRecord
  BY DEF Init, EmptyTable, StrideRecord
<1>4. vtt \in VTT
  BY DEF Init, VTTReset, VTT
<1> QED
  BY <1>1, <1>2, <1>3, <1>4, EmptyTypes DEF Init, TypeOK, DVRTypeOK

\* Every step keeps the types.
LEMMA NextTypeOK == TypeOK /\ [Next]_vars => TypeOK'
<1> SUFFICES ASSUME TypeOK, [Next]_vars PROVE TypeOK'
  OBVIOUS
<1>0. /\ PipelineTypeOK /\ insts \in Seq(InFlight) /\ nextSeq \in Nat \ {0}
      /\ \A k \in DOMAIN insts :
            /\ insts[k] \in InFlight
            /\ insts[k].seq \in Nat /\ insts[k].inst \in DVRInst
  BY EntryTypes DEF TypeOK, PipelineTypeOK
<1> USE DEF PipelineTypeOK
<1>1. ASSUME NEW inst \in Insts, Fetch(inst) PROVE TypeOK'
  <2> DEFINE fetched == [seq |-> nextSeq, inst |-> inst, place |-> "front",
                         dispatched |-> FALSE, squashed |-> FALSE]
  <2>1. fetched \in InFlight
    BY <1>0, InstsAssumption DEF InFlight
  <2>2. insts' \in Seq(InFlight)
    BY <1>0, <1>1, <2>1, AppendProperties DEF Fetch
  <2> QED
    BY <1>1, <2>2 DEF Fetch, TypeOK, DVRTypeOK, dvr
<1>2. ASSUME NEW k \in DOMAIN insts, GetInst(k) PROVE TypeOK'
  <2>1. PICK place \in {"skipped", "ROB"} :
               insts' = [insts EXCEPT ![k] = [insts[k] EXCEPT !.place = place]]
    BY <1>2, Zenon DEF GetInst
  <2>2. [insts[k] EXCEPT !.place = place] \in InFlight
    BY <1>0, Zenon DEF InFlight
  <2>3. insts' \in Seq(InFlight)
    BY <1>0, <2>1, <2>2, ReplaceEntry
  <2> QED
    BY <1>2, <2>3 DEF GetInst, TypeOK, DVRTypeOK, dvr
<1>3. ASSUME NEW k \in DOMAIN insts, Dispatch(k) PROVE TypeOK'
  <2>1. insts' \in Seq(InFlight)
    <3>1. insts' = [insts EXCEPT ![k] = [insts[k] EXCEPT !.dispatched = TRUE]]
      BY <1>3 DEF Dispatch
    <3>2. [insts[k] EXCEPT !.dispatched = TRUE] \in InFlight
      BY <1>0, Zenon DEF InFlight
    <3> QED
      BY <1>0, <3>1, <3>2, ReplaceEntry
  <2>2. DVRTypeOK'
    BY <1>0, <1>3, DispatchKeepsTypes DEF Dispatch, TypeOK
  <2> QED
    BY <1>3, <2>1, <2>2 DEF Dispatch, TypeOK
<1>4. ASSUME NEW k \in DOMAIN insts, NEW pc \in PCs, ExecuteLoad(k, pc)
      PROVE  TypeOK'
  <2>1. table' \in StrideRecord
    BY <1>4, TableTypes, Zenon DEF ExecuteLoad, TypeOK, DVRTypeOK
  <2> QED
    BY <1>4, <2>1 DEF ExecuteLoad, TypeOK, DVRTypeOK, pipeline
<1>5. CASE Commit
  <2>1. insts' \in Seq(InFlight) /\ 1 \in DOMAIN insts
    BY <1>0, <1>5, HeadTailProperties DEF Commit
  <2>2. DVRTypeOK'
    BY <1>0, <1>5, <2>1, CommitKeepsTypes DEF Commit, TypeOK
  <2> QED
    BY <1>5, <2>1, <2>2 DEF Commit, TypeOK
<1>6. CASE RetireSquashed
  <2>1. insts' \in Seq(InFlight)
    BY <1>0, <1>6, HeadTailProperties DEF RetireSquashed
  <2> QED
    BY <1>6, <2>1 DEF RetireSquashed, TypeOK, DVRTypeOK, dvr
<1>7. ASSUME NEW k \in DOMAIN insts, Squash(k) PROVE TypeOK'
  <2>1. PICK seq : RemoveInsts(ROBSquash(seq), FirstNotInROB)
    BY <1>7 DEF Squash
  <2>2. insts' \in Seq(InFlight) /\ DVRTypeOK'
    BY <2>1, FirstNotInROBRange, ROBSquashProperties, RemoveKeepsTypes DEF TypeOK
  <2> QED
    BY <1>7, <2>2 DEF Squash, TypeOK
<1>8. ASSUME NEW k \in DOMAIN insts, DecodeSquash(k) PROVE TypeOK'
  <2>1. k + 1 \in 1 .. (Len(insts) + 1)
    BY <1>0, <1>8 DEF DecodeSquash
  <2>2. insts' \in Seq(InFlight) /\ DVRTypeOK'
    BY <1>0, <1>8, <2>1, RemoveKeepsTypes DEF DecodeSquash
  <2> QED
    BY <1>8, <2>2 DEF DecodeSquash, TypeOK
<1>9. CASE Trap
  BY <1>9 DEF Trap, TypeOK, DVRTypeOK, dvr
<1>10. CASE SquashFromTrap
  <2>1. PICK seq : RemoveInsts(ROBSquash(seq), FirstNotInROB)
    BY <1>10 DEF SquashFromTrap
  <2>2. insts' \in Seq(InFlight) /\ DVRTypeOK'
    BY <2>1, FirstNotInROBRange, ROBSquashProperties, RemoveKeepsTypes DEF TypeOK
  <2> QED
    BY <1>10, <2>2 DEF SquashFromTrap, TypeOK
<1>11. CASE UNCHANGED vars
  BY <1>11 DEF vars, pipeline, dvr, TypeOK, DVRTypeOK
<1> QED
  BY <1>1, <1>2, <1>3, <1>4, <1>5, <1>6, <1>7, <1>8, <1>9, <1>10, <1>11 DEF Next

\* The DVR state keeps its type, the commit counter stays below
\* MaxInstructions and the recorder within MaxUops, for every window.
THEOREM TypeCorrect == Spec => []TypeOK
  BY InitTypeOK, NextTypeOK, PTL DEF Spec

--------------------------------------------------------------------------------
(* The dispatch window and the commit window agree.                         *)

\* Instructions are in flight in sequence order and dispatched in that order.
InFlightOrdered ==
    /\ \A k \in DOMAIN insts : insts[k].seq < nextSeq
    /\ \A j, k \in DOMAIN insts : j < k =>
          /\ insts[j].seq < insts[k].seq
          /\ insts[k].dispatched => insts[j].dispatched \/ insts[j].squashed

\* What the running generation refers to was dispatched before everything
\* that is still to be dispatched, and what it recorded is in its body.
ObservedIsOld ==
    IsDiscovering(ctl) =>
        /\ ctl.triggerSequence < nextSeq /\ ctl.stopSequence < nextSeq
        /\ \A s \in marks.recorded : s < nextSeq /\ InDiscoveryBody(ctl, s)
        /\ \A k \in DOMAIN insts : ~insts[k].dispatched /\ ~insts[k].squashed =>
              /\ ctl.triggerSequence < insts[k].seq
              /\ ctl.stopSequence < insts[k].seq
              /\ \A s \in marks.recorded : s < insts[k].seq

\* Every dispatched instruction in the body of the generation is recorded.
BodyIsRecorded ==
    IsDiscovering(ctl) =>
        \A k \in DOMAIN insts :
            insts[k].dispatched /\ InDiscoveryBody(ctl, insts[k].seq) =>
                insts[k].seq \in marks.recorded

WindowInv == TypeOK /\ InFlightOrdered /\ ObservedIsOld /\ BodyIsRecorded

\* A step that only drops or squashes instructions and only forgets marks of
\* dropped ones keeps the invariant; f says where a remaining one was.
LEMMA Thinning ==
    ASSUME WindowInv, TypeOK', nextSeq' = nextSeq,
           NEW f \in [DOMAIN insts' -> DOMAIN insts],
           \A j, k \in DOMAIN insts' : j < k => f[j] < f[k],
           \A k \in DOMAIN insts' :
               /\ insts'[k].seq = insts[f[k]].seq
               /\ insts'[k].dispatched = insts[f[k]].dispatched
               /\ insts[f[k]].squashed => insts'[k].squashed,
           IsDiscovering(ctl') =>
               /\ IsDiscovering(ctl)
               /\ ctl'.triggerSequence = ctl.triggerSequence
               /\ ctl'.stopSequence = ctl.stopSequence
               /\ marks'.recorded \subseteq marks.recorded
               /\ \A k \in DOMAIN insts' :
                     insts'[k].seq \in marks.recorded =>
                         insts'[k].seq \in marks'.recorded
    PROVE  WindowInv'
<1>1. InFlightOrdered'
  BY DEF WindowInv, InFlightOrdered
<1>2. \A s : IsDiscovering(ctl') =>
         (InDiscoveryBody(ctl', s) <=> InDiscoveryBody(ctl, s))
  BY DEF InDiscoveryBody
<1>3. ObservedIsOld'
  BY <1>2 DEF WindowInv, ObservedIsOld
<1>4. BodyIsRecorded'
  BY <1>2 DEF WindowInv, BodyIsRecorded
<1> QED
  BY <1>1, <1>3, <1>4 DEF WindowInv

\* The list after RemoveInsts is a prefix, so the lemma applies to a squash.
LEMMA RemoveKeepsWindow ==
    ASSUME WindowInv, TypeOK', nextSeq' = nextSeq, NEW list \in Seq(InFlight),
           Len(list) = Len(insts),
           \A k \in DOMAIN insts :
               /\ list[k].seq = insts[k].seq
               /\ list[k].dispatched = insts[k].dispatched
               /\ insts[k].squashed => list[k].squashed,
           NEW first \in 1 .. (Len(list) + 1), RemoveInsts(list, first)
    PROVE  WindowInv'
<1> DEFINE f == [k \in DOMAIN insts' |-> k]
<1>0. DOMAIN insts = 1 .. Len(insts) /\ Len(insts) \in Nat
  BY EntryTypes DEF WindowInv, TypeOK
<1>1. /\ DOMAIN insts' = 1 .. (first - 1)
      /\ \A k \in DOMAIN insts' : insts'[k] = list[k] /\ k \in DOMAIN insts
  BY <1>0, SubSeqProperties DEF RemoveInsts
<1>2. IsDiscovering(ctl') => ctl' = ctl /\ marks' = marks
  <2>1. CASE first <= Len(list)
    BY <2>1 DEF RemoveInsts, SquashInstIt, Rollback, RollsBack, Finished, IsDiscovering
  <2>2. CASE ~(first <= Len(list))
    BY <2>2 DEF RemoveInsts, dvr
  <2> QED
    BY <2>1, <2>2, Zenon, SMTT(30)
<1>3. /\ f \in [DOMAIN insts' -> DOMAIN insts]
      /\ \A j, k \in DOMAIN insts' : j < k => f[j] < f[k]
      /\ \A k \in DOMAIN insts' :
            /\ insts'[k].seq = insts[f[k]].seq
            /\ insts'[k].dispatched = insts[f[k]].dispatched
            /\ insts[f[k]].squashed => insts'[k].squashed
  BY <1>1
<1> HIDE DEF f
<1> QED
  BY <1>2, <1>3, Thinning

\* In particular to the squash of the ROB from an instruction on.
LEMMA ROBSquashKeepsWindow ==
    ASSUME WindowInv, TypeOK', PipelineTypeOK, nextSeq' = nextSeq,
           NEW seq, RemoveInsts(ROBSquash(seq), FirstNotInROB)
    PROVE  WindowInv'
<1> DEFINE list == ROBSquash(seq)
           first == FirstNotInROB
<1>1. /\ list \in Seq(InFlight) /\ Len(list) = Len(insts)
      /\ \A k \in DOMAIN insts :
            /\ list[k].seq = insts[k].seq
            /\ list[k].dispatched = insts[k].dispatched
            /\ insts[k].squashed => list[k].squashed
  BY ROBSquashProperties, Zenon
<1>2. first \in 1 .. (Len(list) + 1)
  BY <1>1, FirstNotInROBRange, Zenon
<1> HIDE DEF list, first
<1>3. RemoveInsts(list, first)
  BY Zenon DEF list, first
<1> QED
  BY <1>1, <1>2, <1>3, RemoveKeepsWindow, Zenon

\* Dropping the head, committed or squashed, is thinning as well.
LEMMA TailKeepsWindow ==
    ASSUME WindowInv, TypeOK', nextSeq' = nextSeq, insts # <<>>,
           insts' = Tail(insts),
           IsDiscovering(ctl') =>
               /\ IsDiscovering(ctl)
               /\ ctl'.triggerSequence = ctl.triggerSequence
               /\ ctl'.stopSequence = ctl.stopSequence
               /\ \/ marks' = marks
                  \/ marks'.recorded = marks.recorded \ {insts[1].seq}
    PROVE  WindowInv'
<1> DEFINE f == [k \in DOMAIN insts' |-> k + 1]
<1>0. DOMAIN insts = 1 .. Len(insts) /\ Len(insts) \in Nat \ {0}
      /\ insts \in Seq(InFlight)
  BY EntryTypes DEF WindowInv, TypeOK, PipelineTypeOK
<1>1. /\ DOMAIN insts' = 1 .. (Len(insts) - 1)
      /\ \A k \in DOMAIN insts' : insts'[k] = insts[k + 1] /\ k + 1 \in DOMAIN insts
  BY <1>0, HeadTailProperties
<1>2. \A k \in DOMAIN insts' : insts'[k].seq # insts[1].seq
  <2> TAKE k \in DOMAIN insts'
  <2>1. insts[1].seq < insts[k + 1].seq /\ insts[1].seq \in Nat
    BY <1>0, <1>1, EntryTypes DEF WindowInv, TypeOK, InFlightOrdered
  <2> QED
    BY <1>1, <2>1
<1>3. /\ f \in [DOMAIN insts' -> DOMAIN insts]
      /\ \A j, k \in DOMAIN insts' : j < k => f[j] < f[k]
      /\ \A k \in DOMAIN insts' :
            /\ insts'[k].seq = insts[f[k]].seq
            /\ insts'[k].dispatched = insts[f[k]].dispatched
            /\ insts[f[k]].squashed => insts'[k].squashed
  BY <1>1
<1> HIDE DEF f
<1> QED
  BY <1>2, <1>3, Thinning

\* Dispatching the oldest instruction that waits for it keeps the invariant:
\* it is younger than all the generation refers to and older than all that
\* still waits, so it opens a window, closes it, or falls into it.
LEMMA DispatchKeepsWindow ==
    ASSUME WindowInv, TypeOK', NEW k \in DOMAIN insts, Dispatch(k)
    PROVE  WindowInv'
<1> DEFINE seq == insts[k].seq
           inst == insts[k].inst
           seen == ControllerObserveDispatch(ctl, inst.pc, seq)
           window == IsDiscovering(seen) /\ ~StopPending(seen)
<1>0. /\ DOMAIN insts = 1 .. Len(insts) /\ Len(insts) \in Nat
      /\ \A j \in DOMAIN insts : insts[j].seq \in Nat \ {0}
      /\ nextSeq \in Nat /\ nextSeq' = nextSeq
      /\ marks.recorded \subseteq Nat
      /\ ctl.triggerSequence \in Nat /\ ctl.stopSequence \in Nat
      /\ IsDiscovering(ctl) \in BOOLEAN
  BY EntryTypes, Zenon, SMTT(30) DEF WindowInv, TypeOK, PipelineTypeOK, DVRTypeOK, Marks, Controller,
     Dispatch, IsDiscovering
<1>1. /\ DOMAIN insts' = DOMAIN insts
      /\ \A j \in DOMAIN insts : /\ insts'[j].seq = insts[j].seq
                                 /\ insts'[j].squashed = insts[j].squashed
      /\ \A j \in DOMAIN insts \ {k} : insts'[j].dispatched = insts[j].dispatched
      /\ insts'[k].dispatched
  <2>1. insts' = [insts EXCEPT ![k] = [insts[k] EXCEPT !.dispatched = TRUE]]
    BY DEF Dispatch
  <2>2. insts[k] \in InFlight
    BY EntryTypes DEF WindowInv, TypeOK
  <2>3. /\ [insts[k] EXCEPT !.dispatched = TRUE].seq = insts[k].seq
        /\ [insts[k] EXCEPT !.dispatched = TRUE].squashed = insts[k].squashed
        /\ [insts[k] EXCEPT !.dispatched = TRUE].dispatched = TRUE
    BY <2>2 DEF InFlight
  <2> QED
    BY <2>1, <2>3, Zenon
<1>2. /\ ~insts[k].dispatched /\ ~insts[k].squashed
      /\ \A j \in DOMAIN insts : j < k => insts[j].dispatched \/ insts[j].squashed
  BY <1>0 DEF Dispatch
<1>3. \A j \in DOMAIN insts : k < j => ~insts[j].dispatched
  BY <1>2 DEF WindowInv, InFlightOrdered
<1>4. InFlightOrdered'
  <2>1. \A j \in DOMAIN insts : insts[j].seq < nextSeq
    BY DEF WindowInv, InFlightOrdered
  <2>2. \A i, j \in DOMAIN insts : i < j => insts[i].seq < insts[j].seq
    BY DEF WindowInv, InFlightOrdered
  <2>3. ASSUME NEW i \in DOMAIN insts, NEW j \in DOMAIN insts, i < j,
               insts'[j].dispatched
        PROVE  insts'[i].dispatched \/ insts'[i].squashed
    <3>1. insts[i].dispatched \/ insts[i].squashed
      <4>1. CASE j = k
        BY <1>2, <2>3, <4>1, Zenon, SMTT(30)
      <4>2. CASE j # k
        BY <1>1, <2>3, <4>2, Zenon, SMTT(30) DEF WindowInv, InFlightOrdered
      <4> QED
        BY <4>1, <4>2
    <3> QED
      BY <1>1, <3>1
  <2> QED
    BY <1>0, <1>1, <2>1, <2>2, <2>3, Zenon, SMTT(30) DEF InFlightOrdered
<1>5. \A j \in DOMAIN insts' : ~insts'[j].dispatched /\ ~insts'[j].squashed =>
         insts'[j].seq > seq /\ ~insts[j].dispatched /\ ~insts[j].squashed
  BY <1>0, <1>1, <1>2 DEF WindowInv, InFlightOrdered
<1>6. \A j \in DOMAIN insts' : insts'[j].dispatched =>
         insts'[j].seq <= seq /\ (j # k => insts'[j].seq # seq /\ insts[j].dispatched)
  BY <1>0, <1>1, <1>3 DEF WindowInv, InFlightOrdered
<1>7. seq < nextSeq /\ seq \in Nat \ {0} /\ \A j \in DOMAIN insts : insts'[j].seq \in Nat
  BY <1>0, <1>1 DEF WindowInv, InFlightOrdered
<1>8. IsDiscovering(ctl) =>
         /\ ctl.triggerSequence < seq /\ ctl.stopSequence < seq
         /\ \A s \in marks.recorded : s < seq
  BY <1>2 DEF WindowInv, ObservedIsOld
<1> HIDE DEF window, seen, inst, seq
<1>9. CASE /\ ~StopPending(seen)
           /\ \E next : BeginDVRDiscovery(inst, seq, next, window)
  <2>1. marks'.recorded = {}
    BY <1>9 DEF BeginDVRDiscovery, NoMarks
  <2>2. ctl'.triggerSequence = seq /\ ctl'.stopSequence = 0
    <3>1. CASE window
      BY <1>9, <3>1 DEF BeginDVRDiscovery, Restart, Arm, Finished
    <3>2. CASE ~window
      <4>1. ctl.state = "Idle"
        BY <1>9, <3>2, Zenon, SMTT(30) DEF window, seen, WindowInv, TypeOK, DVRTypeOK, Controller,
           ControllerObserveDispatch, IsDiscovering
      <4> QED
        BY <1>9, <3>2, <4>1 DEF BeginDVRDiscovery, Arm
    <3> QED
      BY <3>1, <3>2, Zenon, SMTT(30)
  <2>3. ObservedIsOld'
    BY <1>0, <1>1, <1>5, <1>7, <2>1, <2>2, SMTT(30) DEF ObservedIsOld
  <2>4. BodyIsRecorded'
    <3>1. ASSUME NEW j \in DOMAIN insts', insts'[j].dispatched
          PROVE  ~InDiscoveryBody(ctl', insts'[j].seq)
      <4>1. insts'[j].seq <= seq /\ insts'[j].seq \in Nat /\ seq \in Nat
        BY <1>1, <1>6, <1>7, <3>1, Zenon
      <4>2. ~(insts'[j].seq > ctl'.triggerSequence)
        BY <2>2, <4>1
      <4> QED
        BY <4>2, Zenon DEF InDiscoveryBody
    <3> QED
      BY <3>1, Zenon DEF BodyIsRecorded
  <2> QED
    BY <1>4, <2>3, <2>4 DEF WindowInv
<1>10. CASE /\ ctl' = seen
            /\ IF window /\ seq > seen.triggerSequence
               THEN ObserveBody(inst, seq)
               ELSE UNCHANGED <<vtt, marks>>
  <2>1. CASE ~IsDiscovering(ctl)
    <3>1. ~IsDiscovering(ctl')
      BY <1>10, <2>1 DEF seen, ControllerObserveDispatch
    <3> QED
      BY <1>4, <3>1 DEF WindowInv, ObservedIsOld, BodyIsRecorded
  <2>2. CASE IsDiscovering(ctl) /\ ctl.stopSequence # 0
    <3>1. ctl' = ctl /\ ~window
      BY <1>10, <2>2, Zenon, SMTT(30) DEF window, seen, ControllerObserveDispatch, StopPending
    <3>2. marks' = marks
      BY <1>10, <3>1, Zenon, SMTT(30)
    <3>3. ObservedIsOld'
      BY <1>0, <1>1, <1>5, <3>1, <3>2, Zenon, SMTT(30) DEF WindowInv, ObservedIsOld
    <3>4. BodyIsRecorded'
      <4>1. ASSUME NEW j \in DOMAIN insts', insts'[j].dispatched,
                   InDiscoveryBody(ctl', insts'[j].seq)
            PROVE  insts'[j].seq \in marks'.recorded
        <5>1. insts'[j].seq < ctl.stopSequence
          BY <2>2, <3>1, <4>1, Zenon DEF InDiscoveryBody
        <5>2. insts'[j].seq # seq
          BY <1>0, <1>1, <1>7, <1>8, <2>2, <5>1
        <5>3. j # k
          BY <1>1, <5>2, Zenon DEF seq
        <5>4. j \in DOMAIN insts /\ insts[j].dispatched /\ insts[j].seq = insts'[j].seq
          BY <1>1, <1>6, <4>1, <5>3, Zenon
        <5> QED
          BY <2>2, <3>1, <3>2, <4>1, <5>4, Zenon DEF WindowInv, BodyIsRecorded
      <4> QED
        BY <4>1, Zenon DEF BodyIsRecorded
    <3> QED
      BY <1>4, <3>3, <3>4 DEF WindowInv
  <2>3. CASE IsDiscovering(ctl) /\ ctl.stopSequence = 0 /\ inst.pc = ctl.triggerPC
    <3>1. ctl' = [ctl EXCEPT !.stopSequence = seq]
      BY <1>8, <1>10, <2>3 DEF seen, ControllerObserveDispatch
    <3>2. /\ ctl'.stopSequence = seq /\ ctl'.triggerSequence = ctl.triggerSequence
          /\ IsDiscovering(ctl') /\ StopPending(ctl')
      BY <1>7, <2>3, <3>1, Zenon, SMTT(30) DEF WindowInv, TypeOK, DVRTypeOK, Controller, IsDiscovering,
         StopPending
    <3>3. marks' = marks
      BY <1>10, <3>2, Zenon, SMTT(30) DEF window
    <3>4. ObservedIsOld'
      BY <1>0, <1>1, <1>5, <1>7, <1>8, <2>3, <3>2, <3>3, Zenon, SMTT(30)
         DEF WindowInv, ObservedIsOld, InDiscoveryBody
    <3>5. BodyIsRecorded'
      <4>1. ASSUME NEW j \in DOMAIN insts', insts'[j].dispatched,
                   InDiscoveryBody(ctl', insts'[j].seq)
            PROVE  insts'[j].seq \in marks'.recorded
        <5>1. insts'[j].seq < seq /\ insts'[j].seq > ctl.triggerSequence
          BY <1>7, <3>2, <4>1 DEF InDiscoveryBody
        <5>2. j # k
          BY <1>1, <1>7, <5>1 DEF seq
        <5>3. j \in DOMAIN insts /\ insts[j].dispatched /\ insts[j].seq = insts'[j].seq
          BY <1>1, <1>6, <4>1, <5>2, Zenon
        <5>4. InDiscoveryBody(ctl, insts[j].seq)
          BY <2>3, <5>1, <5>3, Zenon DEF InDiscoveryBody
        <5> QED
          BY <2>3, <3>3, <5>3, <5>4, Zenon DEF WindowInv, BodyIsRecorded
      <4> QED
        BY <4>1, Zenon DEF BodyIsRecorded
    <3> QED
      BY <1>4, <3>4, <3>5 DEF WindowInv
  <2>4. CASE IsDiscovering(ctl) /\ ctl.stopSequence = 0 /\ inst.pc # ctl.triggerPC
    <3>1. ctl' = ctl /\ window /\ seq > seen.triggerSequence
      <4>1. seen = ctl
        BY <2>4, Zenon DEF seen, ControllerObserveDispatch
      <4>2. window
        BY <2>4, <4>1, Zenon DEF window, StopPending
      <4>3. seq > ctl.triggerSequence
        BY <1>0, <1>7, <1>8, <2>4
      <4> QED
        BY <1>10, <4>1, <4>2, <4>3, Zenon
    <3>2. marks'.recorded = marks.recorded \cup {seq}
      BY <1>10, <3>1 DEF ObserveBody
    <3>3. ObservedIsOld'
      BY <1>0, <1>1, <1>5, <1>7, <1>8, <2>4, <3>1, <3>2, Zenon, SMTT(30)
         DEF WindowInv, ObservedIsOld, InDiscoveryBody
    <3>4. BodyIsRecorded'
      BY <1>0, <1>1, <1>6, <2>4, <3>1, <3>2, ZenonT(30) DEF seq, WindowInv, BodyIsRecorded
    <3> QED
      BY <1>4, <3>3, <3>4 DEF WindowInv
  <2> QED
    BY <2>1, <2>2, <2>3, <2>4, Zenon, SMTT(30)
<1> QED
  <2>1. ObserveDVRDispatch(inst, seq)
    BY DEF Dispatch, inst, seq
  <2> QED
    BY <1>9, <1>10, <2>1, Zenon DEF ObserveDVRDispatch, seen, window

\* Every step keeps the window invariant.
LEMMA NextKeepsWindow == WindowInv /\ [Next]_vars => WindowInv'
<1> SUFFICES ASSUME WindowInv, [Next]_vars PROVE WindowInv'
  OBVIOUS
<1>0. TypeOK' /\ TypeOK /\ PipelineTypeOK /\ insts \in Seq(InFlight)
  BY NextTypeOK DEF WindowInv, TypeOK, PipelineTypeOK
<1>00. DOMAIN insts = 1 .. Len(insts) /\ Len(insts) \in Nat
  BY <1>0, EntryTypes
<1>1. ASSUME NEW inst \in Insts, Fetch(inst) PROVE WindowInv'
  <2> DEFINE fetched == [seq |-> nextSeq, inst |-> inst, place |-> "front",
                         dispatched |-> FALSE, squashed |-> FALSE]
             n == Len(insts) + 1
  <2>1. insts' = Append(insts, fetched) /\ nextSeq' = nextSeq + 1 /\ UNCHANGED dvr
    BY <1>1 DEF Fetch
  <2>2. /\ DOMAIN insts' = 1 .. n
        /\ \A j \in DOMAIN insts : insts'[j] = insts[j]
        /\ insts'[n] = fetched
    BY <1>0, <1>00, <2>1, AppendProperties
  <2>3. nextSeq \in Nat
    BY <1>0, Zenon, SMTT(30) DEF PipelineTypeOK
  <2>4. InFlightOrdered'
    BY <1>0, <1>00, <2>1, <2>2, <2>3, EntryTypes DEF WindowInv, InFlightOrdered
  <2>5. ctl' = ctl /\ marks' = marks /\ marks.recorded \subseteq Nat
        /\ ctl.triggerSequence \in Nat /\ ctl.stopSequence \in Nat
    BY <1>0, <2>1, Zenon, SMTT(30) DEF dvr, TypeOK, DVRTypeOK, Marks, Controller
  <2>50. /\ \A j \in DOMAIN insts' : j \in DOMAIN insts \/ j = n
         /\ insts'[n].seq = nextSeq /\ ~insts'[n].dispatched
    BY <1>00, <2>2
  <2> HIDE DEF n, fetched
  <2>6. ObservedIsOld'
    <3> SUFFICES ASSUME IsDiscovering(ctl) PROVE ObservedIsOld'
      BY <2>5, Zenon DEF ObservedIsOld
    <3>1. /\ ctl.triggerSequence < nextSeq /\ ctl.stopSequence < nextSeq
          /\ \A s \in marks.recorded : s < nextSeq /\ InDiscoveryBody(ctl, s)
      BY Zenon DEF WindowInv, ObservedIsOld
    <3>2. /\ ctl.triggerSequence < nextSeq' /\ ctl.stopSequence < nextSeq'
          /\ \A s \in marks.recorded : s < nextSeq'
      BY <2>1, <2>3, <2>5, <3>1
    <3>3. ASSUME NEW j \in DOMAIN insts', ~insts'[j].dispatched, ~insts'[j].squashed
          PROVE  /\ ctl.triggerSequence < insts'[j].seq
                 /\ ctl.stopSequence < insts'[j].seq
                 /\ \A s \in marks.recorded : s < insts'[j].seq
      <4>1. CASE j \in DOMAIN insts
        BY <2>2, <3>3, <4>1, Zenon DEF WindowInv, ObservedIsOld
      <4>2. CASE j = n
        BY <2>50, <3>1, <4>2, Zenon
      <4> QED
        BY <2>50, <4>1, <4>2, Zenon
    <3> QED
      BY <2>5, <3>1, <3>2, <3>3, Zenon DEF ObservedIsOld
  <2>7. BodyIsRecorded'
    BY <2>2, <2>5, <2>50, Zenon DEF WindowInv, BodyIsRecorded
  <2> QED
    BY <1>0, <2>4, <2>6, <2>7 DEF WindowInv
<1>2. ASSUME NEW k \in DOMAIN insts, GetInst(k) PROVE WindowInv'
  <2>1. PICK place : insts' = [insts EXCEPT ![k] = [insts[k] EXCEPT !.place = place]]
    BY <1>2, ZenonT(30) DEF GetInst
  <2>2. insts[k] \in InFlight
    BY <1>0, EntryTypes
  <2>3. /\ DOMAIN insts' = DOMAIN insts
        /\ \A j \in DOMAIN insts : /\ insts'[j].seq = insts[j].seq
                                   /\ insts'[j].dispatched = insts[j].dispatched
                                   /\ insts'[j].squashed = insts[j].squashed
    BY <2>1, <2>2 DEF InFlight
  <2>4. ctl' = ctl /\ marks' = marks /\ nextSeq' = nextSeq
    BY <1>2 DEF GetInst, dvr
  <2> DEFINE f == [j \in DOMAIN insts' |-> j]
  <2>5. /\ f \in [DOMAIN insts' -> DOMAIN insts]
        /\ \A i, j \in DOMAIN insts' : i < j => f[i] < f[j]
        /\ \A j \in DOMAIN insts' : f[j] = j
    BY <2>3
  <2> HIDE DEF f
  <2> QED
    BY <1>0, <2>3, <2>4, <2>5, Thinning
<1>3. ASSUME NEW k \in DOMAIN insts, Dispatch(k) PROVE WindowInv'
  BY <1>0, <1>3, DispatchKeepsWindow, Zenon, SMTT(30)
<1>4. ASSUME NEW k \in DOMAIN insts, NEW pc \in PCs, ExecuteLoad(k, pc)
      PROVE  WindowInv'
  BY <1>0, <1>4, Zenon, SMTT(30) DEF ExecuteLoad, pipeline, WindowInv, InFlightOrdered,
     ObservedIsOld, BodyIsRecorded
<1>5. CASE Commit
  <2> DEFINE seq == insts[1].seq
  <2>1. ctl' = ControllerObserveCommit(ctl, seq)
    BY <1>5 DEF Commit, InstDone
  <2>2. IsDiscovering(ctl') =>
           /\ IsDiscovering(ctl)
           /\ ctl'.triggerSequence = ctl.triggerSequence
           /\ ctl'.stopSequence = ctl.stopSequence
    <3>1. ctl' \in {ctl, [ctl EXCEPT !.instructions = @ + 1], Finished}
      BY <2>1 DEF ControllerObserveCommit
    <3> QED
      BY <1>0, <3>1 DEF TypeOK, DVRTypeOK, Controller, Finished, IsDiscovering
  <2>3. marks' = marks \/ marks'.recorded = marks.recorded \ {seq}
    BY <1>5 DEF Commit, InstDone, CommitBody, EraseMarks
  <2> QED
    BY <1>0, <1>5, <2>2, <2>3, TailKeepsWindow DEF Commit
<1>6. CASE RetireSquashed
  BY <1>0, <1>6, TailKeepsWindow, Zenon, SMTT(30) DEF RetireSquashed, dvr
<1>7. ASSUME NEW k \in DOMAIN insts, Squash(k) PROVE WindowInv'
  <2>1. PICK seq : RemoveInsts(ROBSquash(seq), FirstNotInROB)
    BY <1>7 DEF Squash
  <2> QED
    <3>1. nextSeq' = nextSeq
      BY <1>7 DEF Squash
    <3> QED
      BY <1>0, <2>1, <3>1, ROBSquashKeepsWindow, Zenon
<1>8. ASSUME NEW k \in DOMAIN insts, DecodeSquash(k) PROVE WindowInv'
  <2>1. k + 1 \in 1 .. (Len(insts) + 1)
    BY <1>00, <1>8 DEF DecodeSquash
  <2> QED
    BY <1>0, <1>8, <2>1, RemoveKeepsWindow DEF DecodeSquash
<1>9. CASE Trap
  BY <1>0, <1>9 DEF Trap, dvr, WindowInv, InFlightOrdered, ObservedIsOld, BodyIsRecorded
<1>10. CASE SquashFromTrap
  <2>1. PICK seq : RemoveInsts(ROBSquash(seq), FirstNotInROB)
    BY <1>10 DEF SquashFromTrap
  <2> QED
    <3>1. nextSeq' = nextSeq
      BY <1>10 DEF SquashFromTrap
    <3> QED
      BY <1>0, <2>1, <3>1, ROBSquashKeepsWindow, Zenon
<1>11. CASE UNCHANGED vars
  BY <1>0, <1>11, Zenon, SMTT(30) DEF vars, pipeline, dvr, WindowInv, InFlightOrdered, ObservedIsOld,
     BodyIsRecorded
<1> QED
  BY <1>1, <1>2, <1>3, <1>4, <1>5, <1>6, <1>7, <1>8, <1>9, <1>10, <1>11 DEF Next

\* The initial state satisfies the window invariant.
LEMMA InitWindow == Init => WindowInv
<1> SUFFICES ASSUME Init PROVE WindowInv
  OBVIOUS
<1>1. insts = <<>> /\ ~IsDiscovering(ctl)
  BY DEF Init, Finished, IsDiscovering
<1> QED
  BY <1>1, InitTypeOK DEF WindowInv, InFlightOrdered, ObservedIsOld, BodyIsRecorded

\* Whatever is fetched, squashed, trapped or restarted, instDone() treats an
\* instruction as part of the body exactly when observeDVRDispatch() did.
THEOREM WindowsAlwaysAgree == Spec => []WindowsAgree
<1>1. WindowInv => WindowsAgree
  BY DEF WindowInv, ObservedIsOld, BodyIsRecorded, WindowsAgree
<1> QED
  BY <1>1, InitWindow, NextKeepsWindow, PTL DEF Spec

--------------------------------------------------------------------------------
(* Between generations.                                                     *)

IdleInv == TypeOK /\ IdleIsClean /\ IdleIsArmed

\* The undo operations do nothing to structures that hold nothing to undo.
LEMMA NothingToUndo ==
    ASSUME NEW seq \in Nat
    PROVE  /\ VTTSquash(VTTReset, seq) = VTTReset
           /\ \A t \in StrideRecord : t.seen = {} /\ t.writes = <<>> =>
                 /\ SquashDiscovery(t, seq).seen = {}
                 /\ SquashDiscovery(t, seq).writes = <<>>
                 /\ SquashDiscovery(t, seq).trained = t.trained
                 /\ SquashDiscovery(t, seq).pending = t.pending
<1>1. VTTReset \in VTT /\ VTTReset.history = <<>>
  BY DEF VTTReset, VTT
<1>2. VTTKept(VTTReset, seq) = Len(VTTReset.history)
  BY <1>1, VTTKeptRange
<1>3. ASSUME NEW t \in StrideRecord, t.seen = {}, t.writes = <<>>
      PROVE  /\ SquashDiscovery(t, seq).seen = {}
             /\ SquashDiscovery(t, seq).writes = <<>>
             /\ SquashDiscovery(t, seq).trained = t.trained
             /\ SquashDiscovery(t, seq).pending = t.pending
  <2> DEFINE kept == WritesKept(t, seq)
  <2>1. kept = 0
    BY <1>3, WritesKeptRange
  <2>2. SubSeq(t.writes, 1, kept) = <<>>
    BY <1>3, <2>1
  <2> HIDE DEF kept
  <2> QED
    BY <1>3, <2>2 DEF SquashDiscovery, StrideRecord, kept
<1> QED
  BY <1>2, <1>3 DEF VTTSquash

\* A squash leaves an idle controller clean and armed.
LEMMA SquashKeepsIdle ==
    ASSUME IdleInv, NEW seq \in Nat, SquashInstIt(seq)
    PROVE  IdleIsClean' /\ IdleIsArmed'
<1>1. CASE RollsBack(ctl, seq)
  <2>1. table'.seen = {} /\ table'.writes = <<>> /\ table'.pending = table'.trained
    <3>1. SquashDiscovery(table, seq) \in StrideRecord
      BY TableUndoTypes, Zenon DEF IdleInv, TypeOK, DVRTypeOK
    <3>2. table' = EndDiscovery(SquashDiscovery(table, seq))
      BY <1>1 DEF SquashInstIt
    <3> QED
      BY <3>1, <3>2, TableUndoTypes
  <2> QED
    BY <1>1, <2>1 DEF SquashInstIt, IdleIsClean, IdleIsArmed
<1>2. CASE ~RollsBack(ctl, seq)
  <2> SUFFICES ASSUME ~IsDiscovering(ctl)
               PROVE  IdleIsClean' /\ IdleIsArmed'
    BY <1>2 DEF SquashInstIt, IdleIsClean, IdleIsArmed
  <2>1. vtt = VTTReset /\ table.seen = {} /\ table.writes = <<>> /\ table \in StrideRecord
    BY DEF IdleInv, IdleIsClean, TypeOK, DVRTypeOK
  <2>2. vtt' = VTTReset /\ table' = SquashDiscovery(table, seq)
        /\ UNCHANGED <<ctl, flr, recorder>>
    BY <1>2, <2>1, NothingToUndo DEF SquashInstIt
  <2> QED
    BY <2>1, <2>2, NothingToUndo DEF IdleInv, IdleIsClean, IdleIsArmed
<1> QED
  BY <1>1, <1>2

\* Dispatch either starts a generation or consumes no notification that
\* could have started one.
LEMMA DispatchKeepsIdle ==
    ASSUME IdleInv, NEW inst \in DVRInst, NEW seq \in Nat,
           ObserveDVRDispatch(inst, seq)
    PROVE  IdleIsClean' /\ IdleIsArmed'
<1> DEFINE seen == ControllerObserveDispatch(ctl, inst.pc, seq)
           window == IsDiscovering(seen) /\ ~StopPending(seen)
           observed == inst.load /\ ~StopPending(seen)
           next == IF observed
                   THEN TableObserveDispatch(table, inst.pc, window, seq)
                   ELSE table
           candidate == /\ observed
                        /\ ReportsCandidate(table, inst.pc, window)
                        /\ inst.pc \in Allowed
<1>1. CASE IsDiscovering(ctl')
  BY <1>1 DEF IdleIsClean, IdleIsArmed
<1>2. CASE ~IsDiscovering(ctl')
  <2>1. ~IsDiscovering(ctl) /\ seen = ctl /\ ~window /\ ~StopPending(seen)
    <3>1. IsDiscovering(ctl) => IsDiscovering(seen)
      BY SMTT(30) DEF ControllerObserveDispatch, IsDiscovering, IdleInv, TypeOK, DVRTypeOK,
         Controller
    <3>2. ctl' = seen \/ ctl' = Restart(ctl, inst.pc, seq) \/ ctl' = Arm(ctl, inst.pc, seq)
      BY Zenon DEF ObserveDVRDispatch, BeginDVRDiscovery
    <3>3. ctl' # Restart(ctl, inst.pc, seq)
      BY <1>2 DEF Restart, Arm, Finished, IsDiscovering
    <3>4. IsDiscovering(ctl) => ctl' # Arm(ctl, inst.pc, seq)
      BY <1>2 DEF Arm, IsDiscovering
    <3>5. ~IsDiscovering(ctl)
      BY <1>2, <3>1, <3>2, <3>3, <3>4
    <3> QED
      BY <3>5 DEF ControllerObserveDispatch, StopPending
  <2>2. ctl.state = "Idle"
    BY <2>1 DEF IdleInv, TypeOK, DVRTypeOK, Controller, IsDiscovering
  <2>3. ~candidate
    <3> SUFFICES ASSUME candidate PROVE FALSE
      OBVIOUS
    <3>1. BeginDVRDiscovery(inst, seq, next, window)
      <4> HIDE DEF next
      <4> QED BY <2>1, Zenon DEF ObserveDVRDispatch, next
    <3>2. ctl' = Arm(ctl, inst.pc, seq)
      <4> HIDE DEF next, window
      <4> QED BY <2>1, <3>1 DEF BeginDVRDiscovery
    <3> QED
      BY <1>2, <2>2, <3>2 DEF Arm, IsDiscovering
  <2>4. /\ table' = next
        /\ UNCHANGED <<ctl, vtt, flr, recorder>>
    <3> HIDE DEF next, candidate
    <3> QED BY <2>1, <2>3, Zenon DEF ObserveDVRDispatch, next, candidate
  <2>5. /\ next.seen = table.seen /\ next.writes = table.writes
        /\ next.trained = table.trained
        /\ \/ next.pending = table.pending
           \/ /\ inst.load /\ inst.pc \in table.trained
              /\ next.pending = table.pending \ {inst.pc}
    BY <2>1 DEF TableObserveDispatch, IdleInv, TypeOK, DVRTypeOK, StrideRecord
  <2>6. inst.load /\ inst.pc \in table.trained /\ inst.pc \in Allowed =>
            inst.pc \notin table.pending
    BY <2>1, <2>3, Zenon, SMTT(30) DEF ReportsCandidate
  <2> HIDE DEF next
  <2>7. IdleIsClean'
    BY <2>1, <2>4, <2>5, Zenon, SMTT(30) DEF IdleInv, IdleIsClean
  <2>8. IdleIsArmed'
    BY <2>1, <2>4, <2>5, <2>6 DEF IdleInv, IdleIsArmed
  <2> QED
    BY <2>7, <2>8
<1> QED
  BY <1>1, <1>2

\* Every step leaves an idle controller clean and armed.
LEMMA NextKeepsIdle == IdleInv /\ [Next]_vars => IdleInv'
<1> SUFFICES ASSUME IdleInv, [Next]_vars PROVE IdleInv'
  OBVIOUS
<1>0. TypeOK' /\ TypeOK /\ PipelineTypeOK /\ DVRTypeOK
  BY NextTypeOK DEF IdleInv, TypeOK
<1>00. \A k \in DOMAIN insts : insts[k].seq \in Nat /\ insts[k].inst \in DVRInst
  BY <1>0, EntryTypes
<1>1. CASE UNCHANGED dvr
  BY <1>0, <1>1 DEF dvr, IdleInv, IdleIsClean, IdleIsArmed
<1>2. ASSUME NEW k \in DOMAIN insts, Dispatch(k) PROVE IdleInv'
  BY <1>0, <1>00, <1>2, DispatchKeepsIdle DEF Dispatch, IdleInv
<1>3. ASSUME NEW k \in DOMAIN insts, NEW pc \in PCs, ExecuteLoad(k, pc)
      PROVE  IdleInv'
  <2>1. UNCHANGED <<ctl, vtt, flr, recorder>>
    BY <1>3 DEF ExecuteLoad
  <2>2. /\ table'.seen \subseteq table.seen /\ table'.writes = table.writes
        /\ table.trained \cap Allowed \subseteq table.pending =>
               table'.trained \cap Allowed \subseteq table'.pending
    <3>1. table' \in {Train(table, pc), Untrain(table, pc), Evict(table, pc)}
      BY <1>3 DEF ExecuteLoad
    <3>2. CASE table' = Train(table, pc)
      BY <1>0, <3>2 DEF Train, DVRTypeOK, StrideRecord
    <3>3. CASE table' = Untrain(table, pc)
      BY <1>0, <3>3 DEF Untrain, DVRTypeOK, StrideRecord
    <3>4. CASE table' = Evict(table, pc)
      BY <1>0, <3>4 DEF Untrain, Evict, DVRTypeOK, StrideRecord
    <3> QED
      BY <3>1, <3>2, <3>3, <3>4, Zenon, SMTT(30)
  <2>3. IdleIsClean'
    BY <2>1, <2>2 DEF IdleInv, IdleIsClean
  <2>4. IdleIsArmed'
    BY <2>1, <2>2 DEF IdleInv, IdleIsArmed
  <2> QED
    BY <1>0, <2>3, <2>4, Zenon, SMTT(30) DEF IdleInv
<1>4. CASE Commit
  <2> DEFINE seq == insts[1].seq
  <2>0. 1 \in DOMAIN insts
    BY <1>0, <1>4, EntryTypes DEF Commit, PipelineTypeOK
  <2>1. InstDone(insts[1].inst, seq)
    BY <1>4 DEF Commit
  <2>2. CASE EndGeneration
    <3>1. table'.seen = {} /\ table'.writes = <<>> /\ table'.pending = table'.trained
      BY <1>0, <1>00, <2>0, <2>2, TableUndoTypes DEF EndGeneration, DVRTypeOK
    <3>2. IdleIsClean'
      BY <2>2, <3>1 DEF EndGeneration, IdleIsClean
    <3>3. IdleIsArmed'
      BY <3>1 DEF IdleIsArmed
    <3> QED
      BY <1>0, <3>2, <3>3 DEF IdleInv
  <2>3. CASE CommitEvent(ctl, seq) \notin {"Completed", "TimedOut"}
    <3>1. IsDiscovering(ctl) => IsDiscovering(ctl')
      <4>1. ctl' \in {ctl, [ctl EXCEPT !.instructions = @ + 1]}
        BY <2>1, <2>3 DEF InstDone, ControllerObserveCommit, CommitEvent
      <4> QED
        BY <1>0, <4>1 DEF DVRTypeOK, Controller, IsDiscovering
    <3>2. UNCHANGED <<table, vtt>>
      BY <2>1, <2>3 DEF InstDone
    <3>3. ~IsDiscovering(ctl) => UNCHANGED <<recorder, flr>>
      BY <2>1, <2>3 DEF InstDone, InDiscoveryBody
    <3>4. IdleIsClean'
      BY <3>1, <3>2, <3>3, Zenon, SMTT(30) DEF IdleInv, IdleIsClean
    <3>5. IdleIsArmed'
      BY <3>1, <3>2 DEF IdleInv, IdleIsArmed
    <3> QED
      BY <1>0, <3>4, <3>5 DEF IdleInv
  <2> QED
    BY <2>1, <2>2, <2>3 DEF InstDone
<1>5. ASSUME NEW seq \in Nat, SquashInstIt(seq) PROVE IdleInv'
  BY <1>0, <1>5, SquashKeepsIdle DEF IdleInv
<1>6. ASSUME NEW list \in Seq(InFlight), NEW first \in 1 .. (Len(list) + 1),
             RemoveInsts(list, first)
      PROVE  IdleInv'
  <2>1. CASE first <= Len(list)
    <3>1. list[first] \in InFlight
      BY <2>1, ElementOfSeq
    <3>2. list[first].seq \in Nat
      BY <3>1 DEF InFlight
    <3> QED
      BY <1>5, <1>6, <2>1, <3>2 DEF RemoveInsts
  <2>2. CASE ~(first <= Len(list))
    BY <1>1, <1>6, <2>2 DEF RemoveInsts
  <2> QED
    BY <2>1, <2>2
<1>7. ASSUME NEW seq, RemoveInsts(ROBSquash(seq), FirstNotInROB) PROVE IdleInv'
  BY <1>0, <1>6, <1>7, FirstNotInROBRange, ROBSquashProperties
<1>8. ASSUME NEW k \in DOMAIN insts, DecodeSquash(k) PROVE IdleInv'
  <2>1. k + 1 \in 1 .. (Len(insts) + 1) /\ insts \in Seq(InFlight)
    BY <1>0, <1>8, EntryTypes DEF DecodeSquash, PipelineTypeOK
  <2> QED
    BY <1>6, <1>8, <2>1 DEF DecodeSquash
<1>9. CASE \/ \E inst \in Insts : Fetch(inst)
           \/ \E k \in DOMAIN insts : GetInst(k)
           \/ RetireSquashed \/ Trap \/ UNCHANGED vars
  BY <1>1, <1>9, Zenon DEF Fetch, GetInst, RetireSquashed, Trap, vars
<1>10. CASE (\E k \in DOMAIN insts : Squash(k)) \/ SquashFromTrap
  BY <1>7, <1>10 DEF Squash, SquashFromTrap
<1> QED
  BY <1>2, <1>3, <1>4, <1>8, <1>9, <1>10 DEF Next

\* The initial state is idle, clean and armed.
LEMMA InitIdle == Init => IdleInv
  BY InitTypeOK DEF Init, IdleInv, IdleIsClean, IdleIsArmed, EmptyTable

\* However a generation ends, the next one inherits nothing from it.
THEOREM IdleAlwaysClean == Spec => []IdleIsClean
<1>1. IdleInv => IdleIsClean
  BY DEF IdleInv
<1> QED
  BY <1>1, InitIdle, NextKeepsIdle, PTL DEF Spec

\* Between generations every trained load that may start one is armed.
THEOREM IdleAlwaysArmed == Spec => []IdleIsArmed
<1>1. IdleInv => IdleIsArmed
  BY Zenon, SMTT(30) DEF IdleInv
<1> QED
  BY <1>1, InitIdle, NextKeepsIdle, PTL DEF Spec

--------------------------------------------------------------------------------
(* The committed FLR.                                                       *)

\* A dependent load was recorded as tainted, and the program of a running
\* generation has its trigger.
FLRInv ==
    /\ TypeOK
    /\ marks.dependent \subseteq marks.recorded \cap marks.tainted
    /\ IsDiscovering(ctl) => recorder.uops # <<>>
    /\ FLRIsRecorded

\* Recording appends to the program, or marks it as overflowed.
LEMMA RecordAppends ==
    ASSUME NEW rec \in Recorder, NEW inst \in DVRInst, NEW tainted \in BOOLEAN
    PROVE  LET longer == Record(rec, inst, tainted)
               n == Len(rec.uops)
           IN  \/ /\ longer.overflowed
                  /\ longer.uops = rec.uops /\ Len(rec.uops) >= MaxUops
               \/ /\ longer.overflowed = rec.overflowed
                  /\ longer.uops \in Seq([pc : PCs, tainted : BOOLEAN])
                  /\ DOMAIN longer.uops = 1 .. (n + 1) /\ Len(longer.uops) = n + 1
                  /\ \A i \in DOMAIN rec.uops : longer.uops[i] = rec.uops[i]
                  /\ longer.uops[n + 1] = [pc |-> inst.pc, tainted |-> tainted]
<1> DEFINE Uop == [pc : PCs, tainted : BOOLEAN]
           uop == [pc |-> inst.pc, tainted |-> tainted]
<1>1. uop \in Uop
  BY DEF DVRInst
<1>2. rec.uops \in Seq(Uop) /\ Len(rec.uops) \in Nat
  BY DEF Recorder
<1>3. CASE Len(rec.uops) >= MaxUops
  BY <1>3, Zenon DEF Record, Recorder
<1>4. CASE ~(Len(rec.uops) >= MaxUops)
  <2> DEFINE longer == Append(rec.uops, uop)
             n == Len(rec.uops)
  <2>1. /\ longer \in Seq(Uop) /\ Len(longer) = n + 1 /\ DOMAIN longer = 1 .. (n + 1)
        /\ \A i \in DOMAIN rec.uops : longer[i] = rec.uops[i]
        /\ longer[n + 1] = uop
    BY <1>1, <1>2, AppendProperties
  <2> HIDE DEF longer
  <2>2. /\ [rec EXCEPT !.uops = longer].uops = longer
        /\ [rec EXCEPT !.uops = longer].overflowed = rec.overflowed
    BY DEF Recorder
  <2>3. Record(rec, inst, tainted) = [rec EXCEPT !.uops = longer]
    BY <1>4, Zenon DEF Record, longer
  <2> QED
    BY <2>1, <2>2, <2>3
<1> QED
  BY <1>3, <1>4

\* Every step keeps what the FLR needs.
LEMMA NextKeepsFLR == FLRInv /\ [Next]_vars => FLRInv'
<1> SUFFICES ASSUME FLRInv, [Next]_vars PROVE FLRInv'
  OBVIOUS
<1>0. TypeOK' /\ TypeOK /\ PipelineTypeOK /\ DVRTypeOK
  BY NextTypeOK DEF FLRInv, TypeOK
<1>00. \A k \in DOMAIN insts : insts[k].seq \in Nat /\ insts[k].inst \in DVRInst
  BY <1>0, EntryTypes
<1>1. CASE /\ UNCHANGED <<marks, flr, recorder>>
           /\ IsDiscovering(ctl') => IsDiscovering(ctl)
  BY <1>0, <1>1, Zenon DEF FLRInv, FLRIsRecorded
<1>2. CASE /\ marks' = NoMarks /\ flr' = NoPC
           /\ IsDiscovering(ctl') => recorder'.uops # <<>>
  BY <1>0, <1>2 DEF FLRInv, FLRIsRecorded, NoMarks
<1>3. ASSUME NEW k \in DOMAIN insts, Dispatch(k) PROVE FLRInv'
  <2> DEFINE inst == insts[k].inst
             seq == insts[k].seq
             seen == ControllerObserveDispatch(ctl, inst.pc, seq)
  <2>0. IsDiscovering(seen) => IsDiscovering(ctl)
    BY DEF ControllerObserveDispatch
  <2>1. CASE marks' = NoMarks /\ flr' = NoPC
             /\ recorder' = Record(EmptyRecorder, inst, FALSE)
    <3>1. recorder'.uops # <<>>
      <4>1. EmptyRecorder \in Recorder /\ Len(EmptyRecorder.uops) = 0
        BY DEF EmptyRecorder, Recorder
      <4>2. inst \in DVRInst /\ ~(Len(EmptyRecorder.uops) >= MaxUops)
        BY <1>00, <4>1, BoundsAssumption
      <4>3. DOMAIN recorder'.uops = 1 .. (0 + 1)
        BY <2>1, <4>1, <4>2, RecordAppends, Zenon
      <4> QED
        BY <4>3
    <3> QED
      BY <1>2, <2>1, <3>1, Zenon
  <2>2. CASE /\ ctl' = seen /\ UNCHANGED <<flr, recorder>>
             /\ ObserveBody(inst, seq)
    <3>1. marks'.dependent \subseteq marks'.recorded \cap marks'.tainted
      BY <2>2 DEF FLRInv, ObserveBody, DependentLoad
    <3> QED
      BY <1>0, <2>0, <2>2, <3>1, Zenon DEF FLRInv, FLRIsRecorded
  <2>3. CASE /\ ctl' = seen /\ UNCHANGED <<flr, recorder, marks>>
    BY <1>1, <2>0, <2>3
  <2> QED
    <3>1. ObserveDVRDispatch(inst, seq)
      BY <1>3 DEF Dispatch
    <3> HIDE DEF inst, seq
    <3> QED
      BY <2>1, <2>2, <2>3, <3>1, Zenon DEF ObserveDVRDispatch, BeginDVRDiscovery, seen
<1>4. ASSUME NEW seq \in Nat, SquashInstIt(seq) PROVE FLRInv'
  <2>1. CASE RollsBack(ctl, seq)
    <3>1. marks' = NoMarks /\ flr' = NoPC /\ ~IsDiscovering(ctl')
      BY <1>4, <2>1 DEF SquashInstIt, Rollback, Finished, IsDiscovering
    <3> QED
      BY <1>2, <3>1
  <2>2. CASE ~RollsBack(ctl, seq)
    BY <1>1, <1>4, <2>2, Zenon, SMTT(30) DEF SquashInstIt
  <2> QED
    BY <2>1, <2>2, Zenon, SMTT(30)
<1>5. ASSUME NEW list \in Seq(InFlight), NEW first \in 1 .. (Len(list) + 1),
             RemoveInsts(list, first)
      PROVE  FLRInv'
  <2>1. CASE first <= Len(list)
    <3>1. list[first] \in InFlight
      BY <2>1, ElementOfSeq
    <3>2. list[first].seq \in Nat
      BY <3>1 DEF InFlight
    <3> QED
      BY <1>4, <1>5, <2>1, <3>2 DEF RemoveInsts
  <2>2. CASE ~(first <= Len(list))
    BY <1>1, <1>5, <2>2 DEF RemoveInsts, dvr
  <2> QED
    BY <2>1, <2>2
<1>6. CASE Commit
  <2> DEFINE seq == insts[1].seq
             inst == insts[1].inst
  <2>0. 1 \in DOMAIN insts
    BY <1>0, <1>6, EntryTypes DEF Commit, PipelineTypeOK
  <2>1. InstDone(inst, seq)
    BY <1>6 DEF Commit
  <2>2. IsDiscovering(ctl') => IsDiscovering(ctl)
    BY <2>1, Zenon, SMTT(30) DEF InstDone, ControllerObserveCommit, CommitEvent, Finished, IsDiscovering
  <2>3. marks' \in {marks, EraseMarks(seq)}
    BY <2>1, Zenon, SMTT(30) DEF InstDone, CommitBody
  <2>4. marks'.dependent \subseteq marks'.recorded \cap marks'.tainted
    BY <2>3, SMTT(30) DEF FLRInv, EraseMarks
  <2>5. CASE EndGeneration /\ CommitEvent(ctl, seq) \in {"Completed", "TimedOut"}
    <3>1. ~IsDiscovering(ctl')
      BY <2>1, <2>5 DEF InstDone, ControllerObserveCommit, Finished, IsDiscovering
    <3> QED
      BY <1>0, <2>4, <2>5, <3>1, Zenon DEF FLRInv, FLRIsRecorded, EndGeneration
  <2>6. CASE CommitBody(inst, seq) /\ InDiscoveryBody(ctl, seq)
    <3> DEFINE tainted == seq \in marks.tainted
               longer == Record(recorder, inst, tainted)
               n == Len(recorder.uops)
    <3>0. inst \in DVRInst /\ tainted \in BOOLEAN /\ recorder \in Recorder
      BY <1>0, <1>00, <2>0 DEF DVRTypeOK
    <3>1. recorder.uops \in Seq([pc : PCs, tainted : BOOLEAN]) /\ n \in Nat
          /\ DOMAIN recorder.uops = 1 .. n
      BY <3>0 DEF Recorder
    <3>2. \/ longer.overflowed /\ longer.uops = recorder.uops
          \/ /\ longer.overflowed = recorder.overflowed
             /\ DOMAIN longer.uops = 1 .. (n + 1)
             /\ \A i \in DOMAIN recorder.uops : longer.uops[i] = recorder.uops[i]
             /\ longer.uops[n + 1] = [pc |-> inst.pc, tainted |-> tainted]
      <4> HIDE DEF tainted, inst
      <4> QED BY <3>0, RecordAppends, Zenon, SMTT(30)
    <3>3. recorder' = IF seq \in marks.recorded THEN longer ELSE recorder
      BY <2>6 DEF CommitBody
    <3>4. IsDiscovering(ctl') => recorder'.uops # <<>>
      <4> HIDE DEF longer
      <4> QED BY <2>2, <3>1, <3>2, <3>3 DEF FLRInv
    <3>5. FLRIsRecorded'
      <4>1. CASE seq \in marks.dependent
        <5>0. seq \in marks.recorded /\ tainted /\ recorder.uops # <<>>
          BY <2>6, <4>1, Zenon DEF FLRInv, InDiscoveryBody
        <5>1. flr' = inst.pc /\ tainted /\ recorder' = longer /\ recorder.uops # <<>>
          BY <2>6, <3>3, <4>1, <5>0, Zenon DEF CommitBody
        <5>2. n + 1 > 1
          <6> HIDE DEF longer, tainted, inst, seq
          <6> QED BY <3>1, <5>1
        <5>3. CASE longer.overflowed
          BY <5>1, <5>3 DEF FLRIsRecorded
        <5>4. CASE ~longer.overflowed
          <6>1. [pc |-> inst.pc, tainted |-> tainted] = [pc |-> flr', tainted |-> TRUE]
            BY <5>1, Zenon
          <6>2. n + 1 \in DOMAIN recorder'.uops
            <7> HIDE DEF longer
            <7>1. DOMAIN longer.uops = 1 .. (n + 1)
              BY <3>2, <5>4, Zenon
            <7>2. n + 1 \in 1 .. (n + 1)
              BY <3>1
            <7> QED
              BY <5>1, <7>1, <7>2, Zenon
          <6>3. recorder'.uops[n + 1] = [pc |-> flr', tainted |-> TRUE]
            <7> HIDE DEF tainted
            <7> QED BY <3>2, <5>1, <5>4, <6>1, Zenon
          <6> QED
            BY <5>2, <6>2, <6>3 DEF FLRIsRecorded
        <5> QED
          BY <5>3, <5>4, Zenon, SMTT(30)
      <4>2. CASE seq \notin marks.dependent
        <5>1. flr' = flr
          BY <2>6, <4>2 DEF CommitBody
        <5>2. CASE recorder'.overflowed
          BY <5>2 DEF FLRIsRecorded
        <5>3. CASE ~recorder'.overflowed
          <6>1. /\ recorder'.overflowed = recorder.overflowed
                /\ \A i \in DOMAIN recorder.uops : /\ i \in DOMAIN recorder'.uops
                                                  /\ recorder'.uops[i] = recorder.uops[i]
            <7> HIDE DEF longer
            <7> QED BY <3>1, <3>2, <3>3, <5>3
          <6> QED
            BY <5>1, <6>1, Zenon DEF FLRInv, FLRIsRecorded
        <5> QED
          BY <5>2, <5>3, Zenon, SMTT(30)
      <4> QED
        BY <4>1, <4>2
    <3> QED
      BY <1>0, <2>4, <3>4, <3>5 DEF FLRInv
  <2>7. CASE UNCHANGED <<marks, recorder, flr>>
    BY <1>1, <2>2, <2>7, Zenon, SMTT(30)
  <2> QED
    BY <2>1, <2>5, <2>6, <2>7, Zenon, SMTT(30) DEF InstDone
<1>7. ASSUME NEW k \in DOMAIN insts, DecodeSquash(k) PROVE FLRInv'
  <2>1. k + 1 \in 1 .. (Len(insts) + 1) /\ insts \in Seq(InFlight)
    BY <1>0, <1>7, EntryTypes DEF DecodeSquash, PipelineTypeOK
  <2> QED
    BY <1>5, <1>7, <2>1 DEF DecodeSquash
<1>8. ASSUME NEW seq, RemoveInsts(ROBSquash(seq), FirstNotInROB) PROVE FLRInv'
  BY <1>0, <1>5, <1>8, FirstNotInROBRange, ROBSquashProperties
<1>9. CASE (\E k \in DOMAIN insts : Squash(k)) \/ SquashFromTrap
  BY <1>8, <1>9 DEF Squash, SquashFromTrap
<1>10. CASE \/ \E inst \in Insts : Fetch(inst)
            \/ \E k \in DOMAIN insts : GetInst(k)
            \/ \E k \in DOMAIN insts, pc \in PCs : ExecuteLoad(k, pc)
            \/ RetireSquashed \/ Trap \/ UNCHANGED vars
  BY <1>1, <1>10, Zenon DEF Fetch, GetInst, ExecuteLoad, RetireSquashed, Trap, vars, dvr
<1> QED
  BY <1>3, <1>6, <1>7, <1>9, <1>10 DEF Next

\* The FLR only ever names a committed dependent load, so the recorded
\* program, unless it overflowed, holds a tainted uop to cut it at.
THEOREM FLRAlwaysRecorded == Spec => []FLRIsRecorded
<1>1. Init => FLRInv
  BY InitTypeOK DEF Init, FLRInv, FLRIsRecorded, NoMarks, Finished, IsDiscovering
<1>2. FLRInv => FLRIsRecorded
  BY DEF FLRInv
<1> QED
  BY <1>1, <1>2, NextKeepsFLR, PTL DEF Spec
================================================================================
