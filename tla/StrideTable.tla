------------------------------ MODULE StrideTable ------------------------------
(***************************************************************************)
(* What DVRStrideDetector promises its caller, per load PC: whether the PC  *)
(* is trained (a confident non-zero stride), whether its one candidate      *)
(* notification is still pending, and whether the running Discovery has     *)
(* already seen it.  Confidence, strides, slots and LRU replacement are the *)
(* business of module StrideDetector, which implements this one.            *)
(*                                                                         *)
(* writes records the speculative false-to-true transitions of the seen    *)
(* bits, in dispatch order, for squashDiscovery to undo.                    *)
(***************************************************************************)
EXTENDS DVRTypes, Naturals, Sequences, FiniteSetsExt

DiscoverySeenWrite == [sequence : Nat, pc : PCs]

StrideRecord ==
    [trained : SUBSET PCs, pending : SUBSET PCs, seen : SUBSET PCs,
     writes : Seq(DiscoverySeenWrite)]

EmptyTable == [trained |-> {}, pending |-> {}, seen |-> {}, writes |-> <<>>]

\* observe(): the confidence of pc crosses the threshold upwards, ...
Train(table, pc) ==
    [table EXCEPT !.trained = @ \cup {pc}, !.pending = @ \cup {pc}]

\* ... or falls below it, ...
Untrain(table, pc) ==
    [table EXCEPT !.trained = @ \ {pc}, !.pending = @ \ {pc}]

\* ... or the slot of pc is reused for another PC.
Evict(table, pc) ==
    [Untrain(table, pc) EXCEPT !.seen = @ \ {pc}]

\* observeDispatch(): does it report a candidate, and what does it leave?
ReportsCandidate(table, pc, window) ==
    /\ pc \in table.trained
    /\ IF window THEN pc \in table.seen ELSE pc \in table.pending

TableObserveDispatch(table, pc, window, seq) ==
    IF pc \notin table.trained THEN table
    ELSE IF ~window THEN [table EXCEPT !.pending = @ \ {pc}]
    ELSE IF pc \in table.seen THEN table
    ELSE [table EXCEPT !.seen = @ \cup {pc},
                       !.writes = Append(@, [sequence |-> seq, pc |-> pc])]

BeginDiscovery(table, triggerPC) ==
    [table EXCEPT !.seen = {triggerPC}, !.writes = <<>>]

WritesKept(table, seq) ==
    Max({0} \cup {k \in DOMAIN table.writes : table.writes[k].sequence < seq})

SquashDiscovery(table, seq) ==
    LET kept == WritesKept(table, seq)
    IN  [table EXCEPT
            !.seen = @ \ {table.writes[k].pc :
                              k \in (kept + 1) .. Len(table.writes)},
            !.writes = SubSeq(@, 1, kept)]

EndDiscovery_NoRearm(table) ==
    [table EXCEPT !.seen = {}, !.writes = <<>>]

EndDiscovery(table) ==
    [table EXCEPT !.seen = {}, !.writes = <<>>, !.pending = table.trained]
================================================================================
