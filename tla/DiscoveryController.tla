-------------------------- MODULE DiscoveryController --------------------------
(***************************************************************************)
(* DVRDiscoveryController: one Discovery interval, opened by the dispatch   *)
(* of a striding load (the trigger), closed by the commit of the next       *)
(* dispatched instance of the same PC, or by a timeout.  A controller is a  *)
(* record and every method an operator on it.  Sequence number 0 means      *)
(* "none", as in the code.  The enumerators Armed, Started and Abandoned    *)
(* exist in the class, but arm() goes straight to Discovering, so the       *)
(* branches that handle them are never entered and are not modelled.        *)
(***************************************************************************)
EXTENDS DVRTypes, Naturals

CONSTANT MaxInstructions

ASSUME MaxInstructionsAssumption == MaxInstructions \in Nat \ {0}

Controller ==
    [state : {"Idle", "Discovering"}, triggerPC : PCs \cup {NoPC},
     triggerSequence : Nat, stopSequence : Nat, instructions : Nat]

Finished == [state |-> "Idle", triggerPC |-> NoPC, triggerSequence |-> 0,
             stopSequence |-> 0, instructions |-> 0]

IsDiscovering(ctl) == ctl.state = "Discovering"

StopPending(ctl) == IsDiscovering(ctl) /\ ctl.stopSequence # 0

InDiscoveryBody_WithStop(ctl, seq) ==
    /\ IsDiscovering(ctl)
    /\ seq > ctl.triggerSequence
    /\ ctl.stopSequence = 0 \/ seq <= ctl.stopSequence

InDiscoveryBody(ctl, seq) ==
    /\ IsDiscovering(ctl)
    /\ seq > ctl.triggerSequence
    /\ ctl.stopSequence = 0 \/ seq < ctl.stopSequence

Arm(ctl, pc, seq) ==
    IF ctl.state # "Idle"
    THEN ctl
    ELSE [state |-> "Discovering", triggerPC |-> pc, triggerSequence |-> seq,
          stopSequence |-> 0, instructions |-> 0]

Restart(ctl, pc, seq) == Arm(Finished, pc, seq)

ControllerObserveDispatch(ctl, pc, seq) ==
    IF /\ IsDiscovering(ctl)
       /\ seq > ctl.triggerSequence
       /\ ctl.stopSequence = 0
       /\ pc = ctl.triggerPC
    THEN [ctl EXCEPT !.stopSequence = seq]
    ELSE ctl

\* The event a commit produces, and the controller it leaves.
CommitEvent(ctl, seq) ==
    IF ~IsDiscovering(ctl) \/ seq <= ctl.triggerSequence THEN "None"
    ELSE IF ctl.stopSequence # 0 /\ seq = ctl.stopSequence THEN "Completed"
    ELSE IF ctl.instructions + 1 >= MaxInstructions THEN "TimedOut"
    ELSE "Counted"

ControllerObserveCommit(ctl, seq) ==
    CASE CommitEvent(ctl, seq) = "None" -> ctl
      [] CommitEvent(ctl, seq) = "Counted" ->
             [ctl EXCEPT !.instructions = @ + 1]
      [] OTHER -> Finished

RollsBack(ctl, seq) == ctl.state # "Idle" /\ ctl.triggerSequence >= seq

Rollback(ctl, seq) == IF RollsBack(ctl, seq) THEN Finished ELSE ctl
================================================================================
