----------------------------- MODULE StrideDetector ----------------------------
(***************************************************************************)
(* DVRStrideDetector: the reference prediction table (RPT) with its         *)
(* confidence counters, its least-recently-used replacement and the         *)
(* Discovery bits, which are indexed by slot and not by PC.                 *)
(*                                                                         *)
(* An address is abstracted to what observe() makes of it, the observed     *)
(* stride: the same non-zero one as the entry's, another non-zero one, or   *)
(* zero; and a stride to whether it is non-zero.  Ages are unique, so only  *)
(* their order matters: lru lists the valid slots, oldest first.            *)
(***************************************************************************)
EXTENDS DVRTypes, Naturals, Sequences, FiniteSetsExt

CONSTANTS NumEntries, MaxSeq

ASSUME NumEntriesAssumption == NumEntries \in Nat \ {0}

CandidateConfidence == 2
MaxConfidence == 3

VARIABLES
    entries,    \* the slots
    lru,        \* the valid slots, least recently observed first
    bits,       \* discoveryBits: the slots whose bit is set
    writes,     \* discoverySeenWrites, with the PC the slot held
    reply,      \* what the last observeDispatch() returned
    nextSeq

vars == <<entries, lru, bits, writes, reply, nextSeq>>

Slots == 1 .. NumEntries

Entry == [pc : PCs \cup {NoPC}, strided : BOOLEAN,
          confidence : 0 .. MaxConfidence, candidatePending : BOOLEAN]

Invalid == [pc |-> NoPC, strided |-> FALSE, confidence |-> 0,
            candidatePending |-> FALSE]

None == [candidate |-> FALSE]
Candidate(pc) == [candidate |-> TRUE, pc |-> pc]

Trained(entry) == entry.strided /\ entry.confidence >= CandidateConfidence

SlotsOf(pc) == {i \in Slots : entries[i].pc = pc}

\* A slot leaves its place in an order of slots and joins it last.
MovedLast(order, i) ==
    LET rest == IF \E k \in DOMAIN order : order[k] = i
                THEN LET k == CHOOSE k \in DOMAIN order : order[k] = i
                     IN  SubSeq(order, 1, k - 1) \o SubSeq(order, k + 1, Len(order))
                ELSE order
    IN  Append(rest, i)

Touch(i) == MovedLast(lru, i)

\* The slot a missing PC takes: the first invalid one, else the oldest.
Victim ==
    IF SlotsOf(NoPC) # {} THEN Min(SlotsOf(NoPC)) ELSE Head(lru)

ObserveMiss_KeepsBit(pc) ==
    /\ SlotsOf(pc) = {}
    /\ entries' = [entries EXCEPT ![Victim] = [Invalid EXCEPT !.pc = pc]]
    /\ lru' = Touch(Victim)
    /\ reply' = None
    /\ UNCHANGED <<bits, writes, nextSeq>>

ObserveMiss(pc) ==
    /\ SlotsOf(pc) = {}
    /\ bits' = bits \ {Victim}
    /\ entries' = [entries EXCEPT ![Victim] = [Invalid EXCEPT !.pc = pc]]
    /\ lru' = Touch(Victim)
    /\ reply' = None
    /\ UNCHANGED <<writes, nextSeq>>

Trains_Eager(entry, stride) ==
    IF stride = "same"
    THEN [entry EXCEPT !.confidence = Min({@ + 1, MaxConfidence})]
    ELSE [entry EXCEPT !.confidence = Max({@ - 1, 0}), !.strided = stride = "other"]

\* A repeated stride strengthens the entry; any other weakens it and is
\* learnt once nothing is left of the old one.
Trains(entry, stride) ==
    IF stride = "same"
    THEN [entry EXCEPT !.confidence = Min({@ + 1, MaxConfidence})]
    ELSE LET weaker == Max({entry.confidence - 1, 0})
         IN  [entry EXCEPT
                 !.confidence = weaker,
                 !.strided = IF weaker = 0 THEN stride = "other" ELSE @]

\* Crossing the threshold upwards arms one candidate notification.
Rearm(old, new) ==
    [new EXCEPT !.candidatePending =
        IF new.confidence < CandidateConfidence THEN FALSE
        ELSE @ \/ old.confidence < CandidateConfidence]

ObserveHit(pc, stride) ==
    /\ reply' = None
    /\ \E i \in SlotsOf(pc) :
          /\ stride = "same" => entries[i].strided
          /\ entries' = [entries EXCEPT ![i] = Rearm(@, Trains(@, stride))]
          /\ lru' = Touch(i)
    /\ UNCHANGED <<bits, writes, nextSeq>>

\* observeDispatch() while Discovery has its window open, ...
DispatchInWindow(i) ==
    IF i \in bits
    THEN /\ reply' = Candidate(entries[i].pc)
         /\ UNCHANGED <<entries, bits, writes>>
    ELSE /\ reply' = None
         /\ bits' = bits \cup {i}
         /\ writes' = Append(writes, [sequence |-> nextSeq, entry |-> i,
                                      pc |-> entries[i].pc])
         /\ UNCHANGED entries

\* ... and while it does not.
DispatchOutside(i) ==
    /\ reply' = IF entries[i].candidatePending THEN Candidate(entries[i].pc)
                                               ELSE None
    /\ entries' = [entries EXCEPT ![i].candidatePending = FALSE]
    /\ UNCHANGED <<bits, writes>>

ObserveDispatch(pc, window) ==
    /\ nextSeq <= MaxSeq
    /\ nextSeq' = nextSeq + 1
    /\ UNCHANGED lru
    /\ IF \E i \in SlotsOf(pc) : Trained(entries[i])
       THEN \E i \in SlotsOf(pc) :
               IF window THEN DispatchInWindow(i) ELSE DispatchOutside(i)
       ELSE reply' = None /\ UNCHANGED <<entries, bits, writes>>

Begin(pc) ==
    /\ reply = Candidate(pc)
    /\ bits' = SlotsOf(pc)
    /\ writes' = <<>>
    /\ reply' = None
    /\ UNCHANGED <<entries, lru, nextSeq>>

Squash(seq) ==
    LET kept == Max({0} \cup {k \in DOMAIN writes : writes[k].sequence < seq})
    IN  /\ bits' = bits \ {writes[k].entry : k \in (kept + 1) .. Len(writes)}
        /\ writes' = SubSeq(writes, 1, kept)
        /\ reply' = None
        /\ UNCHANGED <<entries, lru, nextSeq>>

End ==
    /\ bits' = {}
    /\ writes' = <<>>
    /\ entries' = [i \in Slots |->
                      [entries[i] EXCEPT !.candidatePending = Trained(entries[i])]]
    /\ reply' = None
    /\ UNCHANGED <<lru, nextSeq>>

Init ==
    /\ entries = [i \in Slots |-> Invalid]
    /\ lru = <<>>
    /\ bits = {}
    /\ writes = <<>>
    /\ reply = None
    /\ nextSeq = 1

Next ==
    \/ \E pc \in PCs : ObserveMiss(pc)
    \/ \E pc \in PCs, stride \in {"same", "other", "zero"} : ObserveHit(pc, stride)
    \/ \E pc \in PCs, window \in BOOLEAN : ObserveDispatch(pc, window)
    \/ \E pc \in PCs : Begin(pc)
    \/ \E seq \in 1 .. (nextSeq - 1) : Squash(seq)
    \/ End

Spec == Init /\ [][Next]_vars

--------------------------------------------------------------------------------

\* The type of the table; lru lists each valid slot once.
TypeOK ==
    /\ entries \in [Slots -> Entry]
    /\ lru \in Seq(Slots)
    /\ bits \subseteq Slots
    /\ writes \in Seq([sequence : Nat, entry : Slots, pc : PCs])
    /\ reply \in {None} \cup {Candidate(pc) : pc \in PCs}
    /\ nextSeq \in Nat
    /\ {lru[k] : k \in DOMAIN lru} = Slots \ SlotsOf(NoPC)
    /\ \A j, k \in DOMAIN lru : lru[j] = lru[k] => j = k

\* observe(): confidence is only ever gained in a non-zero stride, so a
\* notification is never armed for an entry that observeDispatch() skips.
ConfidenceHasStride ==
    \A i \in Slots :
        /\ entries[i].confidence > 0 => entries[i].strided
        /\ entries[i].candidatePending => Trained(entries[i])

\* What the table promises per PC.
Table ==
    [trained |-> {entries[i].pc : i \in {j \in Slots : Trained(entries[j])}},
     pending |-> {entries[i].pc : i \in {j \in Slots : entries[j].candidatePending}},
     seen |-> {entries[i].pc : i \in bits},
     writes |-> [k \in DOMAIN writes |->
                    [sequence |-> writes[k].sequence, pc |-> writes[k].pc]]]

Abstract == INSTANCE StrideTableMachine WITH table <- Table

\* The table with slots, counters and replacement implements the per-PC one:
\* reusing a slot, and undoing bits by slot number, never shows through.
ImplementsTable == Abstract!Spec
================================================================================
