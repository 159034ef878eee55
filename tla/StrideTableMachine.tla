-------------------------- MODULE StrideTableMachine ---------------------------
(***************************************************************************)
(* The stride table as its caller may observe it: an abstract machine that   *)
(* says which calls can do what to the trained, pending and seen sets, and   *)
(* when observeDispatch() reports a candidate.  It does not say when a PC    *)
(* is trained or evicted.                                                   *)
(***************************************************************************)
EXTENDS StrideTable

VARIABLES table, reply, nextSeq

tvars == <<table, reply, nextSeq>>

\* What observeDispatch() last returned: a PC, or None.
None == [candidate |-> FALSE]
Candidate(pc) == [candidate |-> TRUE, pc |-> pc]

Init ==
    /\ table = EmptyTable
    /\ reply = None
    /\ nextSeq = 1

Observe(pc) ==
    /\ \/ pc \notin table.trained /\ table' = Train(table, pc)
       \/ pc \in table.trained /\ table' = Untrain(table, pc)
       \/ \E other \in PCs \ {pc} : table' = Evict(table, other)
       \/ table' = table
    /\ reply' = None
    /\ UNCHANGED nextSeq

ObserveDispatch(pc, window) ==
    /\ table' = TableObserveDispatch(table, pc, window, nextSeq)
    /\ reply' = IF ReportsCandidate(table, pc, window) THEN Candidate(pc) ELSE None
    /\ nextSeq' = nextSeq + 1

Begin(pc) ==
    /\ reply = Candidate(pc)
    /\ table' = BeginDiscovery(table, pc)
    /\ reply' = None
    /\ UNCHANGED nextSeq

Squash(seq) ==
    /\ table' = SquashDiscovery(table, seq)
    /\ reply' = None
    /\ UNCHANGED nextSeq

End ==
    /\ table' = EndDiscovery(table)
    /\ reply' = None
    /\ UNCHANGED nextSeq

Next ==
    \/ \E pc \in PCs : Observe(pc) \/ Begin(pc)
    \/ \E pc \in PCs, window \in BOOLEAN : ObserveDispatch(pc, window)
    \/ \E seq \in 1 .. nextSeq : Squash(seq)
    \/ End

Spec == Init /\ [][Next]_tvars
================================================================================
