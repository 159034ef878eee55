------------------------------- MODULE NestedMode ------------------------------
(***************************************************************************)
(* DVRNestedDiscoveryMode (NDM): after a short inner loop, find the load    *)
(* that strides in the outer loop and collect a plan of outer invocations.  *)
(*                                                                         *)
(* Addresses are abstracted to what the class compares.  A committed load   *)
(* comes with a delta: "none" if it has no valid address, else "zero", the  *)
(* "same" as the stride its PC has shown before, or "other".  The collected *)
(* outer bases are a count.                                                 *)
(* control stands for control.valid: the inner backward branch has been     *)
(* seen and inverted.                                                       *)
(***************************************************************************)
EXTENDS DVRTypes, Naturals, FiniteSetsExt, Functions

CONSTANTS Encloses,              \* [branch, load]: a backward branch over a load
          NDMMaxInsts,           \* the parameter dvrNDMMaxInsts
          PaperOuterSearchInstructions, MaxOuterInvocations, NumProbes

ASSUME EnclosesAssumption == Encloses \subseteq PCs \X PCs
ASSUME NDMBoundsAssumption ==
    /\ NDMMaxInsts \in Nat \ {0}
    /\ PaperOuterSearchInstructions \in Nat \ {0}
    /\ MaxOuterInvocations \in Nat \ {0}
    /\ NumProbes \in Nat

Least(a, b) == IF a <= b THEN a ELSE b
Greatest(a, b) == IF a <= b THEN b ELSE a

outerSearchMax == Least(NDMMaxInsts, PaperOuterSearchInstructions)
outerCollectionMax ==
    Greatest(NDMMaxInsts, PaperOuterSearchInstructions) * MaxOuterInvocations

\* The probe of a PC: 0 is no probe, else its samples (2: a stride to confirm).
Probes == [PCs -> 0 .. 2]

NDM == [state : {"Idle", "SeekingOuter", "OuterFound", "Vectorizing"},
        innerPC : PCs \cup {NoPC}, control : BOOLEAN, probes : Probes,
        outerPC : PCs \cup {NoPC}, bases : Nat, consumed : Nat,
        invocations : Nat, committed : Nat]

NDMReset == [state |-> "Idle", innerPC |-> NoPC, control |-> FALSE,
             probes |-> [pc \in PCs |-> 0], outerPC |-> NoPC, bases |-> 0,
             consumed |-> 0, invocations |-> 0, committed |-> 0]

NDMActive(ndm) == ndm.state # "Idle"

\* start(), called for an eligible lane count only.
NDMStart(ndm, pc) ==
    IF ndm.state = "Vectorizing" /\ pc = ndm.innerPC
    THEN [ndm EXCEPT !.committed = 0, !.control = FALSE]
    ELSE IF NDMActive(ndm) /\ ndm.state # "Vectorizing"
    THEN ndm
    ELSE [NDMReset EXCEPT !.state = "SeekingOuter", !.innerPC = pc]

Budget(ndm) ==
    IF ndm.state = "SeekingOuter" THEN outerSearchMax ELSE outerCollectionMax

\* observeCommit(): age the generation, or time it out.
NDMObserveCommit(ndm) ==
    IF ~NDMActive(ndm) THEN ndm
    ELSE IF ndm.committed + 1 < Budget(ndm)
    THEN [ndm EXCEPT !.committed = @ + 1]
    ELSE NDMReset

ObserveInnerBranch(ndm, pc) ==
    IF NDMActive(ndm) /\ ~ndm.control /\ <<pc, ndm.innerPC>> \in Encloses
    THEN [ndm EXCEPT !.control = TRUE]
    ELSE ndm

\* The three addresses that confirmed the stride are the first bases.
AcceptOuter(ndm, pc) ==
    [ndm EXCEPT !.state = "OuterFound", !.outerPC = pc, !.committed = 0,
                !.bases = Least(3, MaxOuterInvocations)]

\* A load of a PC without a probe takes a free one, if there is any.
Probe(ndm, pc, delta) ==
    CASE ndm.probes[pc] = 0 ->
             IF Cardinality({p \in PCs : ndm.probes[p] # 0}) < NumProbes
             THEN [ndm EXCEPT !.probes[pc] = 1] ELSE ndm
      [] ndm.probes[pc] # 0 /\ delta = "zero" -> [ndm EXCEPT !.probes[pc] = 1]
      [] ndm.probes[pc] # 0 /\ delta = "other" -> [ndm EXCEPT !.probes[pc] = 2]
      [] ndm.probes[pc] = 1 /\ delta = "same" -> [ndm EXCEPT !.probes[pc] = 2]
      [] ndm.probes[pc] = 2 /\ delta = "same" -> AcceptOuter(ndm, pc)

ObserveOuterLoad(ndm, pc, delta) ==
    IF ~ndm.control \/ pc = ndm.innerPC \/ delta = "none"
    THEN ndm
    ELSE CASE ndm.state = "SeekingOuter" -> Probe(ndm, pc, delta)
           [] ndm.state = "OuterFound" /\ pc = ndm.outerPC /\ delta = "same" ->
                  [ndm EXCEPT !.bases = Least(@ + 1, MaxOuterInvocations),
                              !.committed = 0]
           [] OTHER -> ndm

\* The first child is paired with the first base and copied for the others.
Materialises(ndm) == ndm.invocations = 0 /\ ndm.bases > 1

ConsumedAfter_FirstOnly(ndm) == ndm.consumed + 1

ConsumedAfter(ndm) ==
    IF Materialises(ndm) THEN ndm.bases ELSE ndm.consumed + 1

InvocationsAfter(ndm) ==
    IF Materialises(ndm) THEN ndm.bases ELSE ndm.invocations + 1

RecordOuterInvocation(ndm) ==
    IF /\ ndm.state \in {"OuterFound", "Vectorizing"}
       /\ ndm.consumed < ndm.bases
       /\ ndm.control
    THEN LET fits == ndm.invocations < MaxOuterInvocations
         IN  [ndm EXCEPT !.invocations = IF fits THEN InvocationsAfter(ndm) ELSE @,
                         !.consumed = IF fits THEN ConsumedAfter(ndm) ELSE @,
                         !.state = "Vectorizing",
                         !.committed = 0]
    ELSE ndm

FinishVectorization(ndm) == IF ndm.state = "Vectorizing" THEN NDMReset ELSE ndm

\* readyToVectorize() with at least two planned invocations.
PlanReady(ndm) == ndm.state = "Vectorizing" /\ ndm.invocations >= 2
================================================================================
