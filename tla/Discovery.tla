------------------------------- MODULE Discovery -------------------------------
(***************************************************************************)
(* One Discovery generation after another on an out-of-order pipeline: the  *)
(* stride table, the Discovery controller, the taint tracker, the committed *)
(* FLR and the instruction recorder, driven by the CPU's hooks at dispatch  *)
(* (observeDVRDispatch), load execution (observeDVRLoad), commit (instDone) *)
(* and squash (squashInstIt), in dvrMode "full".                            *)
(*                                                                         *)
(* insts is the CPU's instList.  place says where an instruction is:        *)
(*   "front"    fetched, not yet past rename;                               *)
(*   "ROB"      in the reorder buffer, which it enters before dispatch;     *)
(*   "skipped"  past rename while commit was in TrapPending: getInsts()     *)
(*              does not insert it into the ROB, IEW still dispatches it.   *)
(* squashInstIt(), the only caller of the three undo operations, is called  *)
(* for instructions that are not in the ROB; the ROB only marks its own as  *)
(* squashed.                                                               *)
(*                                                                         *)
(* MaxSeq bounds the instructions fetched and Window the ones in flight.    *)
(* A definition with an underscore in its name is a faulty variant of the   *)
(* one that follows it; no specification uses it.                           *)
(***************************************************************************)
EXTENDS VectorTaint, DiscoveryController, StrideTable

CONSTANTS Insts, Allowed, MaxUops, MaxSeq, Window

ASSUME InstsAssumption == Insts \subseteq DVRInst
ASSUME AllowedAssumption == Allowed \subseteq PCs
ASSUME BoundsAssumption ==
    MaxUops \in Nat \ {0} /\ MaxSeq \in Nat /\ Window \in Nat

VARIABLES
    insts,          \* instList, oldest first
    nextSeq,        \* the next sequence number fetch hands out
    commitStatus,   \* "Running" or "TrapPending"
    ctl,            \* dvrDiscovery
    table,          \* dvrStrideDetector
    vtt,            \* dvrTaintTracker
    marks,          \* dvrDispatchRecorded, dvrDispatchTainted,
                    \* dvrDispatchDependentLoads
    flr,            \* dvrCommittedFinalLoadPC
    recorder        \* dvrInstructionRecorder

pipeline == <<insts, nextSeq, commitStatus>>
dvr == <<ctl, table, vtt, marks, flr, recorder>>
vars == <<pipeline, dvr>>

InFlight == [seq : Nat \ {0}, inst : DVRInst, place : {"front", "ROB", "skipped"},
             dispatched : BOOLEAN, squashed : BOOLEAN]

Marks == [recorded : SUBSET Nat, tainted : SUBSET Nat, dependent : SUBSET Nat]

NoMarks == [recorded |-> {}, tainted |-> {}, dependent |-> {}]

EraseMarks(seq) ==
    [recorded |-> marks.recorded \ {seq}, tainted |-> marks.tainted \ {seq},
     dependent |-> marks.dependent \ {seq}]

Recorder == [uops : Seq([pc : PCs, tainted : BOOLEAN]), overflowed : BOOLEAN]

EmptyRecorder == [uops |-> <<>>, overflowed |-> FALSE]

Record_OffByOne(rec, inst, tainted) ==
    IF Len(rec.uops) > MaxUops
    THEN [rec EXCEPT !.overflowed = TRUE]
    ELSE [rec EXCEPT !.uops = Append(@, [pc |-> inst.pc, tainted |-> tainted])]

Record_Silent(rec, inst, tainted) ==
    IF Len(rec.uops) >= MaxUops
    THEN rec
    ELSE [rec EXCEPT !.uops = Append(@, [pc |-> inst.pc, tainted |-> tainted])]

Record(rec, inst, tainted) ==
    IF Len(rec.uops) >= MaxUops
    THEN [rec EXCEPT !.overflowed = TRUE]
    ELSE [rec EXCEPT !.uops = Append(@, [pc |-> inst.pc, tainted |-> tainted])]

(***************************************************************************)
(* The hook at dispatch.                                                    *)
(***************************************************************************)

\* beginDVRDiscoveryAtDispatch(); next is the table after the observation.
BeginDVRDiscovery(inst, seq, next, restart) ==
    /\ ctl' = IF restart THEN Restart(ctl, inst.pc, seq)
                         ELSE Arm(ctl, inst.pc, seq)
    /\ table' = BeginDiscovery(next, inst.pc)
    /\ vtt' = VTTBegin(inst)
    /\ flr' = NoPC
    /\ recorder' = Record(EmptyRecorder, inst, FALSE)
    /\ marks' = NoMarks

\* The instruction is inside the window: taint it and mark it for commit.
ObserveBody(inst, seq) ==
    /\ vtt' = VTTObserveSpeculative(vtt, inst, seq)
    /\ marks' = [recorded |-> marks.recorded \cup {seq},
                 tainted |-> IF SourceTainted(vtt, inst)
                             THEN marks.tainted \cup {seq} ELSE marks.tainted,
                 dependent |-> IF DependentLoad(vtt, inst)
                               THEN marks.dependent \cup {seq}
                               ELSE marks.dependent]

ObserveDVRDispatch(inst, seq) ==
    LET seen == ControllerObserveDispatch(ctl, inst.pc, seq)
        window == IsDiscovering(seen) /\ ~StopPending(seen)
        observed == inst.load /\ ~StopPending(seen)
        next == IF observed
                THEN TableObserveDispatch(table, inst.pc, window, seq)
                ELSE table
        candidate == /\ observed
                     /\ ReportsCandidate(table, inst.pc, window)
                     /\ inst.pc \in Allowed
    IN  IF candidate /\ (window => inst.pc # ctl.triggerPC)
        THEN BeginDVRDiscovery(inst, seq, next, window)
        ELSE /\ ctl' = seen
             /\ table' = next
             /\ IF window /\ seq > seen.triggerSequence
                THEN ObserveBody(inst, seq)
                ELSE UNCHANGED <<vtt, marks>>
             /\ UNCHANGED <<flr, recorder>>

(***************************************************************************)
(* The hook at commit.                                                      *)
(***************************************************************************)

EndGeneration_KeepsTaint ==
    /\ table' = EndDiscovery(table)
    /\ vtt' = vtt
    /\ flr' = NoPC
    /\ recorder' = EmptyRecorder

\* Completed and TimedOut leave the same state; only Completed launches the
\* helper.  The marks are left alone.
EndGeneration ==
    /\ table' = EndDiscovery(table)
    /\ vtt' = VTTReset
    /\ flr' = NoPC
    /\ recorder' = EmptyRecorder

CommitBody_SpeculativeFLR(inst, seq) ==
    /\ marks' = EraseMarks(seq)
    /\ recorder' = IF seq \in marks.recorded
                   THEN Record(recorder, inst, seq \in marks.tainted)
                   ELSE recorder
    /\ flr' = vtt.finalLoadPC

CommitBody(inst, seq) ==
    /\ marks' = EraseMarks(seq)
    /\ recorder' = IF seq \in marks.recorded
                   THEN Record(recorder, inst, seq \in marks.tainted)
                   ELSE recorder
    /\ flr' = IF seq \in marks.dependent THEN inst.pc ELSE flr

InstDone(inst, seq) ==
    /\ ctl' = ControllerObserveCommit(ctl, seq)
    /\ IF CommitEvent(ctl, seq) \in {"Completed", "TimedOut"}
       THEN /\ EndGeneration
            /\ marks' = IF InDiscoveryBody(ctl, seq)
                        THEN EraseMarks(seq)
                        ELSE marks
       ELSE /\ IF InDiscoveryBody(ctl, seq)
               THEN CommitBody(inst, seq)
               ELSE UNCHANGED <<marks, recorder, flr>>
            /\ UNCHANGED <<table, vtt>>

(***************************************************************************)
(* The hook at squash.  The list is walked from its youngest instruction to *)
(* the oldest one removed; each call undoes at least what the ones before   *)
(* it undid, so the walk amounts to the call for the oldest, seq.           *)
(***************************************************************************)
SquashInstIt(seq) ==
    IF RollsBack(ctl, seq)
    THEN /\ ctl' = Rollback(ctl, seq)
         /\ table' = EndDiscovery(SquashDiscovery(table, seq))
         /\ vtt' = VTTReset
         /\ flr' = NoPC
         /\ recorder' = EmptyRecorder
         /\ marks' = NoMarks
    ELSE /\ table' = SquashDiscovery(table, seq)
         /\ vtt' = VTTSquash(vtt, seq)
         /\ UNCHANGED <<ctl, flr, recorder, marks>>

\* removeInstsNotInROB() and removeInstsUntil(): drop the instructions from
\* position first on.
RemoveInsts(list, first) ==
    /\ insts' = SubSeq(list, 1, first - 1)
    /\ IF first <= Len(list)
       THEN SquashInstIt(list[first].seq)
       ELSE UNCHANGED dvr

(***************************************************************************)
(* The pipeline.                                                            *)
(***************************************************************************)
InROB(k) == insts[k].place = "ROB"

Live(k) == insts[k].dispatched /\ ~insts[k].squashed

FirstNotInROB == 1 + Max({0} \cup {k \in DOMAIN insts : InROB(k)})

\* The ROB marks what is younger than seq as squashed.
ROBSquash(seq) ==
    [k \in DOMAIN insts |->
        IF InROB(k) /\ insts[k].seq > seq
        THEN [insts[k] EXCEPT !.squashed = TRUE]
        ELSE insts[k]]

Init ==
    /\ insts = <<>>
    /\ nextSeq = 1
    /\ commitStatus = "Running"
    /\ ctl = Finished
    /\ table = EmptyTable
    /\ vtt = VTTReset
    /\ marks = NoMarks
    /\ flr = NoPC
    /\ recorder = EmptyRecorder

Fetch(inst) ==
    /\ nextSeq <= MaxSeq
    /\ Len(insts) < Window
    /\ insts' = Append(insts, [seq |-> nextSeq, inst |-> inst, place |-> "front",
                               dispatched |-> FALSE, squashed |-> FALSE])
    /\ nextSeq' = nextSeq + 1
    /\ UNCHANGED <<commitStatus, dvr>>

\* Commit::getInsts(): the oldest renamed instruction reaches the ROB, or is
\* skipped while a trap is pending.
GetInst(k) ==
    /\ insts[k].place = "front"
    /\ \A j \in 1 .. (k - 1) : insts[j].place # "front"
    /\ insts' = [insts EXCEPT ![k].place =
                     IF commitStatus = "TrapPending" THEN "skipped" ELSE "ROB"]
    /\ UNCHANGED <<nextSeq, commitStatus, dvr>>

\* IEW::dispatchInsts(): in order; squashed instructions are dropped before
\* the hook.
Dispatch(k) ==
    /\ insts[k].place # "front"
    /\ ~insts[k].dispatched /\ ~insts[k].squashed
    /\ \A j \in 1 .. (k - 1) : insts[j].dispatched \/ insts[j].squashed
    /\ insts' = [insts EXCEPT ![k].dispatched = TRUE]
    /\ UNCHANGED <<nextSeq, commitStatus>>
    /\ ObserveDVRDispatch(insts[k].inst, insts[k].seq)

\* LSQUnit::read() -> observeDVRLoad(): the address of a load trains its PC,
\* weakens it, or takes the slot of another PC.
ExecuteLoad(k, pc) ==
    /\ Live(k) /\ insts[k].inst.load
    /\ \/ pc = insts[k].inst.pc /\ pc \notin table.trained /\ table' = Train(table, pc)
       \/ pc = insts[k].inst.pc /\ pc \in table.trained /\ table' = Untrain(table, pc)
       \/ pc # insts[k].inst.pc /\ insts[k].inst.pc \notin table.trained \cup table.seen
             /\ table' = Evict(table, pc)
    /\ UNCHANGED <<pipeline, ctl, vtt, marks, flr, recorder>>

Commit ==
    /\ insts # <<>> /\ InROB(1) /\ Live(1)
    /\ commitStatus = "Running"
    /\ insts' = Tail(insts)
    /\ UNCHANGED <<nextSeq, commitStatus>>
    /\ InstDone(insts[1].inst, insts[1].seq)

\* A squashed ROB head leaves without instDone().
RetireSquashed ==
    /\ insts # <<>> /\ InROB(1) /\ insts[1].squashed
    /\ commitStatus = "Running"
    /\ insts' = Tail(insts)
    /\ UNCHANGED <<nextSeq, commitStatus, dvr>>

\* A mispredicted branch squashes what follows it, a memory-order violation
\* the offending load as well.
Squash(k) ==
    /\ InROB(k) /\ Live(k)
    /\ commitStatus = "Running"
    /\ RemoveInsts(ROBSquash(IF insts[k].inst.load THEN insts[k].seq - 1
                                                  ELSE insts[k].seq),
                   FirstNotInROB)
    /\ UNCHANGED <<nextSeq, commitStatus>>

\* Decode corrects a branch target: the instructions fetched after it go.
DecodeSquash(k) ==
    /\ insts[k].place = "front"
    /\ k < Len(insts)
    /\ RemoveInsts(insts, k + 1)
    /\ UNCHANGED <<nextSeq, commitStatus>>

\* The ROB head faults; the squash follows trapLatency cycles later.
Trap ==
    /\ insts # <<>> /\ InROB(1) /\ Live(1)
    /\ commitStatus = "Running"
    /\ commitStatus' = "TrapPending"
    /\ UNCHANGED <<insts, nextSeq, dvr>>

SquashFromTrap ==
    /\ commitStatus = "TrapPending"
    /\ commitStatus' = "Running"
    /\ RemoveInsts(ROBSquash(insts[1].seq - 1), FirstNotInROB)
    /\ UNCHANGED nextSeq

Next ==
    \/ \E inst \in Insts : Fetch(inst)
    \/ \E k \in DOMAIN insts : GetInst(k)
    \/ \E k \in DOMAIN insts : Dispatch(k)
    \/ \E k \in DOMAIN insts, pc \in PCs : ExecuteLoad(k, pc)
    \/ Commit
    \/ RetireSquashed
    \/ \E k \in DOMAIN insts : Squash(k)
    \/ \E k \in DOMAIN insts : DecodeSquash(k)
    \/ Trap
    \/ SquashFromTrap

Spec == Init /\ [][Next]_vars

--------------------------------------------------------------------------------

\* The type of the state.  The commit counter stays below its limit and the
\* recorder within its capacity, as observeCommit() and record() promise.
PipelineTypeOK ==
    /\ insts \in Seq(InFlight)
    /\ nextSeq \in Nat \ {0}
    /\ commitStatus \in {"Running", "TrapPending"}

DVRTypeOK ==
    /\ ctl \in Controller
    /\ table \in StrideRecord
    /\ vtt \in VTT
    /\ marks \in Marks
    /\ flr \in PCs \cup {NoPC}
    /\ recorder \in Recorder
    /\ ctl.instructions < MaxInstructions
    /\ Len(recorder.uops) <= MaxUops

TypeOK == PipelineTypeOK /\ DVRTypeOK

\* A sequence number the undo structures still hold.
SpeculativeRefs ==
    (IF IsDiscovering(ctl) THEN {ctl.triggerSequence} ELSE {})
        \cup {vtt.history[k].sequence : k \in DOMAIN vtt.history}
        \cup {table.writes[k].sequence : k \in DOMAIN table.writes}

\* observeDVRDispatch() at dispatch and inDiscoveryBody() at commit agree on
\* the window: while a generation runs, the instructions in flight that
\* instDone() will treat as its body are exactly the dispatched ones marked
\* as recorded, whatever was squashed, trapped or restarted in between.
WindowsAgree ==
    \A k \in DOMAIN insts :
        insts[k].dispatched /\ IsDiscovering(ctl) =>
            (InDiscoveryBody(ctl, insts[k].seq) <=> insts[k].seq \in marks.recorded)

\* instDone(): "Only a committed dependent load may advance the FLR that
\* delimits the generated helper program": the recorded program contains a
\* tainted uop at the FLR, so cutting it there keeps the whole chain.
FLRIsRecorded ==
    flr # NoPC /\ ~recorder.overflowed =>
        \E i \in DOMAIN recorder.uops :
            i > 1 /\ recorder.uops[i] = [pc |-> flr, tainted |-> TRUE]

\* However a generation ends (complete, timeout, rollback), an idle
\* controller leaves no taint, FLR, recorded uop or seen bit to the next one.
IdleIsClean ==
    ~IsDiscovering(ctl) =>
        /\ vtt = VTTReset
        /\ flr = NoPC
        /\ recorder = EmptyRecorder
        /\ table.seen = {} /\ table.writes = <<>>

\* While no generation runs, every trained PC that may start one still has
\* its candidate notification: endDiscovery() never loses a load for good.
IdleIsArmed ==
    ~IsDiscovering(ctl) => table.trained \cap Allowed \subseteq table.pending

\* beginDiscovery() and squashDiscovery(): a seen bit other than the
\* trigger's is backed by a write that a squash would undo.
SeenIsUndoable ==
    table.seen \ {ctl.triggerPC} \subseteq
        {table.writes[k].pc : k \in DOMAIN table.writes}

\* squashInstIt(): once an instruction outside the ROB is removed, neither
\* the trigger, nor the taint history, nor a seen bit refers to it.
RemovedIsUndone ==
    \A k \in DOMAIN insts :
        ~InROB(k) /\ (\A j \in DOMAIN insts' : insts'[j].seq # insts[k].seq)
            => insts[k].seq \notin SpeculativeRefs'

UndoIsComplete == [][RemovedIsUndone]_vars
================================================================================
