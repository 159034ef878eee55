---------------------------- MODULE NestedController ---------------------------
(***************************************************************************)
(* DVRNestedController: a stack of at most MaxDepth discoveries, the root   *)
(* first.  A frame ages with every commit; only the top one is checked for  *)
(* completion and for a timeout.  The PC of a root frame is never read and  *)
(* is left out (NoPC).                                                      *)
(***************************************************************************)
EXTENDS DiscoveryController, Sequences

MaxDepth == 2

Frame == [id : Nat \ {0}, parentId : Nat, triggerPC : PCs \cup {NoPC},
          triggerSequence : Nat, committed : Nat]

Nested == [frames : Seq(Frame), nextId : Nat \ {0}]

EmptyNested == [frames |-> <<>>, nextId |-> 1]

Depth(nested) == Len(nested.frames)

NestedReset(nested) == [nested EXCEPT !.frames = <<>>]

Push(nested, parentId, pc, seq) ==
    [frames |-> Append(nested.frames,
                       [id |-> nested.nextId, parentId |-> parentId,
                        triggerPC |-> pc, triggerSequence |-> seq,
                        committed |-> 0]),
     nextId |-> nested.nextId + 1]

Pop(nested) == [nested EXCEPT !.frames = SubSeq(@, 1, Len(@) - 1)]

Top(nested) == nested.frames[Len(nested.frames)]

\* Rejected while a discovery is active.
StartRoot(nested, seq) ==
    IF Depth(nested) # 0 THEN nested ELSE Push(nested, 0, NoPC, seq)

\* The caller passes the identifier of the top frame as the parent.
StartNested(nested, pc, seq) ==
    IF Depth(nested) = 0 \/ Depth(nested) = MaxDepth
    THEN nested
    ELSE Push(nested, Top(nested).id, pc, seq)

NestedEvent(nested, pc, seq) ==
    IF nested.frames = <<>> THEN "None"
    ELSE LET top == Top(nested)
         IN  IF /\ Depth(nested) > 1
                /\ seq > top.triggerSequence
                /\ pc = top.triggerPC
             THEN "Completed"
             ELSE IF top.committed + 1 >= MaxInstructions THEN "TimedOut"
             ELSE "None"

Aged(nested) ==
    [nested EXCEPT !.frames =
        [i \in DOMAIN nested.frames |->
            [nested.frames[i] EXCEPT !.committed = @ + 1]]]

NestedObserveCommit(nested, pc, seq) ==
    CASE NestedEvent(nested, pc, seq) = "Completed" -> Pop(nested)
      [] NestedEvent(nested, pc, seq) = "TimedOut" -> Pop(Aged(nested))
      [] OTHER -> Aged(nested)
================================================================================
