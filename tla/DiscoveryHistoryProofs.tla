------------------------- MODULE DiscoveryHistoryProofs ------------------------
(***************************************************************************)
(* What squashes undo and what a completed generation hands over, for every *)
(* set of instructions, every window and every capacity.                    *)
(***************************************************************************)
EXTENDS DiscoveryHistory, DiscoveryProofs

--------------------------------------------------------------------------------
(* Histories in dispatch order, and what an undo loop keeps of them.        *)

\* A prefix of a sequence.
LEMMA PrefixProperties ==
    ASSUME NEW R, NEW q \in Seq(R), NEW n \in 0 .. Len(q)
    PROVE  /\ SubSeq(q, 1, n) \in Seq(R)
           /\ Len(SubSeq(q, 1, n)) = n /\ DOMAIN SubSeq(q, 1, n) = 1 .. n
           /\ \A k \in 1 .. n : SubSeq(q, 1, n)[k] = q[k]
<1>1. \A k \in 1 .. n : q[k] \in R
  BY ElementOfSeq
<1> QED
  BY <1>1, SubSeqProperties

InOrder(history) ==
    \A j, k \in DOMAIN history : j < k => history[j].sequence < history[k].sequence

\* One history is the other up to the entries that are not older than seq.
Shortens(short, long, seq) ==
    \A k \in DOMAIN short :
        /\ k \in DOMAIN long /\ short[k] = long[k]
        /\ short[k].sequence < seq

\* An undo loop keeps the prefix of an ordered history that is older than
\* the squashed instruction.
LEMMA KeptPrefix ==
    ASSUME NEW R, NEW q \in Seq(R), NEW seq \in Nat, NEW kept,
           \A k \in DOMAIN q : q[k].sequence \in Nat,
           InOrder(q), kept = Max({0} \cup {k \in DOMAIN q : q[k].sequence < seq})
    PROVE  /\ kept \in 0 .. Len(q)
           /\ DOMAIN SubSeq(q, 1, kept) = 1 .. kept
           /\ Shortens(SubSeq(q, 1, kept), q, seq)
           /\ kept = Len(q) => Shortens(q, q, seq)
<1> DEFINE S == {0} \cup {k \in DOMAIN q : q[k].sequence < seq}
<1>1. S \in SUBSET (0 .. Len(q)) /\ S # {} /\ Len(q) \in Nat /\ DOMAIN q = 1 .. Len(q)
  OBVIOUS
<1>2. kept \in S
  <2> HIDE DEF S
  <2> QED BY <1>1, MaxProperties, Zenon DEF S
<1>3. kept \in 0 .. Len(q)
  BY <1>1, <1>2
<1>4. \A k \in 1 .. kept : k \in DOMAIN q /\ q[k].sequence < seq
  <2> SUFFICES ASSUME NEW k \in 1 .. kept
               PROVE  k \in DOMAIN q /\ q[k].sequence < seq
    OBVIOUS
  <2>1. kept \in DOMAIN q /\ q[kept].sequence < seq
    BY <1>1, <1>2, <1>3
  <2> HIDE DEF S
  <2> QED
    BY <1>1, <1>3, <2>1 DEF InOrder
<1>5. /\ DOMAIN SubSeq(q, 1, kept) = 1 .. kept
      /\ \A k \in 1 .. kept : SubSeq(q, 1, kept)[k] = q[k]
  BY <1>3, PrefixProperties, Zenon
<1>6. Shortens(SubSeq(q, 1, kept), q, seq)
  BY <1>4, <1>5, Zenon DEF Shortens
<1>7. kept = Len(q) => Shortens(q, q, seq)
  BY <1>1, <1>4, Zenon DEF Shortens
<1> QED
  BY <1>3, <1>5, <1>6, <1>7

--------------------------------------------------------------------------------
(* What a squash undoes.                                                    *)

\* The sequence numbers still to be dispatched.
Waiting ==
    {insts[k].seq : k \in {j \in DOMAIN insts : ~insts[j].dispatched /\ ~insts[j].squashed}}

\* The history holds nothing younger than what is still to be dispatched.
IsOld(history) ==
    \A k \in DOMAIN history :
        /\ history[k].sequence < nextSeq
        /\ \A s \in Waiting : history[k].sequence < s

\* The undo structures are in dispatch order.
HistoriesOrdered ==
    /\ InOrder(vtt.history) /\ IsOld(vtt.history)
    /\ InOrder(table.writes) /\ IsOld(table.writes)

UndoInv == WindowInv /\ IdleInv /\ HistoriesOrdered /\ SeenIsUndoable

\* The entries of the undo structures.
LEMMA HistoryTypes ==
    ASSUME NEW v \in VTT, NEW t \in StrideRecord
    PROVE  /\ v.history \in Seq(SpeculativeState)
           /\ \A k \in DOMAIN v.history : v.history[k].sequence \in Nat
           /\ t.writes \in Seq(DiscoverySeenWrite)
           /\ \A k \in DOMAIN t.writes : t.writes[k].sequence \in Nat
<1>1. v.history \in Seq(SpeculativeState)
  BY DEF VTT
<1>2. \A k \in DOMAIN v.history : v.history[k] \in SpeculativeState
  BY <1>1, ElementOfSeq
<1>3. t.writes \in Seq(DiscoverySeenWrite)
  BY DEF StrideRecord
<1>4. \A k \in DOMAIN t.writes : t.writes[k] \in DiscoverySeenWrite
  BY <1>3, ElementOfSeq
<1> QED
  BY <1>1, <1>2, <1>3, <1>4 DEF SpeculativeState, DiscoverySeenWrite

\* The undo loop pops whatever is not older than the squashed instruction.
LEMMA UndoPops ==
    ASSUME NEW v \in VTT, NEW t \in StrideRecord, NEW seq \in Nat
    PROVE  /\ InOrder(v.history) =>
                  Shortens(VTTSquash(v, seq).history, v.history, seq)
           /\ InOrder(t.writes) =>
                  /\ Shortens(SquashDiscovery(t, seq).writes, t.writes, seq)
                  /\ \A pc \in SquashDiscovery(t, seq).seen :
                        /\ pc \in t.seen
                        /\ \A k \in DOMAIN t.writes : t.writes[k].pc = pc =>
                              /\ k \in DOMAIN SquashDiscovery(t, seq).writes
                              /\ SquashDiscovery(t, seq).writes[k] = t.writes[k]
<1>1. ASSUME InOrder(v.history)
      PROVE  Shortens(VTTSquash(v, seq).history, v.history, seq)
  <2> DEFINE kept == VTTKept(v, seq)
             q == v.history
  <2>1. q \in Seq(SpeculativeState) /\ \A k \in DOMAIN q : q[k].sequence \in Nat
    BY HistoryTypes
  <2>2. kept = Max({0} \cup {k \in DOMAIN q : q[k].sequence < seq})
    BY DEF VTTKept
  <2> HIDE DEF kept
  <2>3. /\ Shortens(SubSeq(q, 1, kept), q, seq)
        /\ kept = Len(q) => Shortens(q, q, seq)
    BY <1>1, <2>1, <2>2, KeptPrefix, Zenon
  <2>4. VTTSquash(v, seq).history = IF kept = Len(q) THEN q ELSE SubSeq(q, 1, kept)
    BY DEF VTTSquash, kept
  <2> QED
    BY <2>3, <2>4
<1>2. ASSUME InOrder(t.writes)
      PROVE  /\ Shortens(SquashDiscovery(t, seq).writes, t.writes, seq)
             /\ \A pc \in SquashDiscovery(t, seq).seen :
                   /\ pc \in t.seen
                   /\ \A k \in DOMAIN t.writes : t.writes[k].pc = pc =>
                         /\ k \in DOMAIN SquashDiscovery(t, seq).writes
                         /\ SquashDiscovery(t, seq).writes[k] = t.writes[k]
  <2> DEFINE kept == WritesKept(t, seq)
             q == t.writes
  <2>1. q \in Seq(DiscoverySeenWrite) /\ \A k \in DOMAIN q : q[k].sequence \in Nat
    BY HistoryTypes
  <2>2. kept = Max({0} \cup {k \in DOMAIN q : q[k].sequence < seq})
    BY DEF WritesKept
  <2> HIDE DEF kept
  <2>3. /\ kept \in 0 .. Len(q)
        /\ Shortens(SubSeq(q, 1, kept), q, seq)
        /\ DOMAIN SubSeq(q, 1, kept) = 1 .. kept
    BY <1>2, <2>1, <2>2, KeptPrefix, Zenon
  <2>4. /\ SquashDiscovery(t, seq).writes = SubSeq(q, 1, kept)
        /\ SquashDiscovery(t, seq).seen =
               t.seen \ {q[k].pc : k \in (kept + 1) .. Len(q)}
    BY Zenon DEF SquashDiscovery, kept, StrideRecord
  <2>5. ASSUME NEW pc \in SquashDiscovery(t, seq).seen, NEW k \in DOMAIN q, q[k].pc = pc
        PROVE  k \in 1 .. kept
    BY <2>1, <2>3, <2>4, <2>5
  <2>6. \A k \in 1 .. kept : SubSeq(q, 1, kept)[k] = q[k]
    BY <2>3 DEF Shortens
  <2> QED
    BY <2>3, <2>4, <2>5, <2>6
<1> QED
  BY <1>1, <1>2

\* Histories that only lose entries, while no instruction older than nextSeq
\* starts to wait, stay in dispatch order.
LEMMA ShorteningKeepsOrder ==
    ASSUME TypeOK, HistoriesOrdered, nextSeq' \in Nat, nextSeq <= nextSeq',
           \A s \in Waiting' : s \in Waiting \/ s = nextSeq,
           \A k \in DOMAIN vtt'.history :
               k \in DOMAIN vtt.history /\ vtt'.history[k] = vtt.history[k],
           \A k \in DOMAIN table'.writes :
               k \in DOMAIN table.writes /\ table'.writes[k] = table.writes[k]
    PROVE  HistoriesOrdered'
<1>1. nextSeq \in Nat
      /\ (\A k \in DOMAIN vtt.history : vtt.history[k].sequence \in Nat)
      /\ (\A k \in DOMAIN table.writes : table.writes[k].sequence \in Nat)
  BY HistoryTypes DEF TypeOK, PipelineTypeOK, DVRTypeOK
<1>2. InOrder(vtt.history)' /\ InOrder(table.writes)'
  BY DEF HistoriesOrdered, InOrder
<1>3. IsOld(vtt.history)'
  BY <1>1 DEF HistoriesOrdered, IsOld
<1>4. IsOld(table.writes)'
  BY <1>1 DEF HistoriesOrdered, IsOld
<1> QED
  BY <1>2, <1>3, <1>4 DEF HistoriesOrdered

\* A history in order stays so when something younger is appended.
LEMMA AppendKeepsOrder ==
    ASSUME NEW R, NEW q \in Seq(R), NEW e \in R, InOrder(q),
           \A k \in DOMAIN q : q[k].sequence < e.sequence
    PROVE  /\ InOrder(Append(q, e))
           /\ \A k \in DOMAIN Append(q, e) :
                 (k \in DOMAIN q /\ Append(q, e)[k] = q[k]) \/ Append(q, e)[k] = e
<1> DEFINE n == Len(q)
<1>1. /\ n \in Nat /\ DOMAIN q = 1 .. n
      /\ DOMAIN Append(q, e) = 1 .. (n + 1)
      /\ Append(q, e)[n + 1] = e
      /\ \A k \in 1 .. n : Append(q, e)[k] = q[k]
  BY AppendProperties
<1> QED
  BY <1>1 DEF InOrder

\* Dropping, squashing or dispatching instructions makes none of them wait.
LEMMA WaitingThins ==
    ASSUME \A k \in DOMAIN insts' : \E j \in DOMAIN insts :
               /\ insts'[k].seq = insts[j].seq
               /\ insts[j].dispatched => insts'[k].dispatched
               /\ insts[j].squashed => insts'[k].squashed
    PROVE  Waiting' \subseteq Waiting
  BY DEF Waiting

\* A squash keeps the histories in order, and nothing of what it removes.
LEMMA SquashKeepsUndo ==
    ASSUME UndoInv, nextSeq' = nextSeq, Waiting' \subseteq Waiting,
           NEW seq \in Nat, SquashInstIt(seq)
    PROVE  /\ HistoriesOrdered' /\ SeenIsUndoable'
           /\ \A s \in SpeculativeRefs' : s < seq
<1>0. TypeOK /\ vtt \in VTT /\ table \in StrideRecord /\ nextSeq \in Nat
  BY DEF UndoInv, WindowInv, TypeOK, PipelineTypeOK, DVRTypeOK
<1>1. CASE RollsBack(ctl, seq)
  <2>1. vtt'.history = <<>> /\ table'.writes = <<>> /\ table'.seen = {}
    <3>1. SquashDiscovery(table, seq) \in StrideRecord
      BY <1>0, TableUndoTypes
    <3> QED
      BY <1>1, <3>1, TableUndoTypes DEF SquashInstIt, VTTReset
  <2>2. ~IsDiscovering(ctl')
    BY <1>1 DEF SquashInstIt, Rollback, Finished, IsDiscovering
  <2> QED
    BY <2>1, <2>2 DEF HistoriesOrdered, InOrder, IsOld, SeenIsUndoable, SpeculativeRefs
<1>2. CASE ~RollsBack(ctl, seq)
  <2>1. ctl' = ctl /\ vtt' = VTTSquash(vtt, seq) /\ table' = SquashDiscovery(table, seq)
    BY <1>2 DEF SquashInstIt
  <2>2. /\ Shortens(vtt'.history, vtt.history, seq)
        /\ Shortens(table'.writes, table.writes, seq)
        /\ \A pc \in table'.seen :
              /\ pc \in table.seen
              /\ \A k \in DOMAIN table.writes : table.writes[k].pc = pc =>
                    k \in DOMAIN table'.writes /\ table'.writes[k] = table.writes[k]
    BY <1>0, <2>1, UndoPops DEF UndoInv, HistoriesOrdered
  <2>3. HistoriesOrdered'
    BY <1>0, <2>2, ShorteningKeepsOrder DEF UndoInv, Shortens
  <2>4. SeenIsUndoable'
    BY <2>1, <2>2 DEF UndoInv, SeenIsUndoable
  <2>5. IsDiscovering(ctl') => ctl'.triggerSequence < seq
    BY <1>0, <1>2, <2>1 DEF RollsBack, IsDiscovering, TypeOK, DVRTypeOK, Controller
  <2>6. \A s \in SpeculativeRefs' : s < seq
    BY <2>2, <2>5 DEF Shortens, SpeculativeRefs
  <2> QED
    BY <2>3, <2>4, <2>6
<1> QED
  BY <1>1, <1>2

\* Dispatch appends the youngest dispatched instruction, or starts afresh.
LEMMA DispatchKeepsUndo ==
    ASSUME UndoInv, NEW k \in DOMAIN insts, Dispatch(k)
    PROVE  HistoriesOrdered' /\ SeenIsUndoable'
<1> DEFINE seq == insts[k].seq
           inst == insts[k].inst
           seen == ControllerObserveDispatch(ctl, inst.pc, seq)
           window == IsDiscovering(seen) /\ ~StopPending(seen)
           observed == inst.load /\ ~StopPending(seen)
           next == IF observed
                   THEN TableObserveDispatch(table, inst.pc, window, seq)
                   ELSE table
<1>0. /\ TypeOK /\ PipelineTypeOK /\ vtt \in VTT /\ table \in StrideRecord
      /\ nextSeq \in Nat /\ nextSeq' = nextSeq
      /\ ctl \in Controller
  BY DEF UndoInv, WindowInv, TypeOK, PipelineTypeOK, DVRTypeOK, Dispatch
<1>1. /\ DOMAIN insts = 1 .. Len(insts) /\ Len(insts) \in Nat
      /\ \A j \in DOMAIN insts : insts[j].seq \in Nat
      /\ inst.pc \in PCs
  BY <1>0, EntryTypes DEF DVRInst
<1>2. /\ DOMAIN insts' = DOMAIN insts
      /\ \A j \in DOMAIN insts : /\ insts'[j].seq = insts[j].seq
                                 /\ insts'[j].squashed = insts[j].squashed
      /\ \A j \in DOMAIN insts \ {k} : insts'[j].dispatched = insts[j].dispatched
      /\ insts'[k].dispatched
  <2>1. insts' = [insts EXCEPT ![k] = [insts[k] EXCEPT !.dispatched = TRUE]]
    BY DEF Dispatch
  <2>2. insts[k] \in InFlight
    BY <1>0, EntryTypes
  <2>3. /\ [insts[k] EXCEPT !.dispatched = TRUE].seq = insts[k].seq
        /\ [insts[k] EXCEPT !.dispatched = TRUE].squashed = insts[k].squashed
        /\ [insts[k] EXCEPT !.dispatched = TRUE].dispatched = TRUE
    BY <2>2 DEF InFlight
  <2> QED
    BY <2>1, <2>3, Zenon
<1>3. Waiting' \subseteq Waiting
  BY <1>2, WaitingThins
<1>4. \A s \in Waiting' : seq < s
  BY <1>1, <1>2 DEF Waiting, Dispatch, UndoInv, WindowInv, InFlightOrdered
<1>5. seq \in Waiting /\ seq < nextSeq
  BY DEF Waiting, Dispatch, UndoInv, WindowInv, InFlightOrdered
<1>6. /\ \A j \in DOMAIN vtt.history : vtt.history[j].sequence < seq
      /\ \A j \in DOMAIN table.writes : table.writes[j].sequence < seq
  BY <1>5 DEF UndoInv, HistoriesOrdered, IsOld
<1>7. CASE ~StopPending(seen) /\ BeginDVRDiscovery(inst, seq, next, window)
  <2>1. vtt'.history = <<>>
    BY <1>7 DEF BeginDVRDiscovery, VTTBegin, VTTReset
  <2>2. next \in StrideRecord
    <3>1. window \in BOOLEAN
      BY DEF IsDiscovering
    <3> HIDE DEF window
    <3> QED BY <1>0, <1>1, <3>1, TableTypes, Zenon
  <2>3. table'.writes = <<>> /\ table'.seen = {inst.pc}
    <3>1. table' = BeginDiscovery(next, inst.pc)
      BY <1>7 DEF BeginDVRDiscovery
    <3> HIDE DEF next
    <3> QED BY <2>2, <3>1 DEF BeginDiscovery, StrideRecord
  <2>4. ctl'.triggerPC = inst.pc
    <3>1. CASE window
      BY <1>7, <3>1 DEF BeginDVRDiscovery, Restart, Arm, Finished
    <3>2. CASE ~window
      <4>1. ctl.state = "Idle"
        BY <1>0, <1>7, <3>2 DEF Controller, ControllerObserveDispatch, IsDiscovering
      <4> QED
        BY <1>7, <3>2, <4>1 DEF BeginDVRDiscovery, Arm
    <3> QED
      BY <3>1, <3>2
  <2> QED
    BY <2>1, <2>3, <2>4 DEF HistoriesOrdered, InOrder, IsOld, SeenIsUndoable
<1>8. CASE /\ ctl' = seen /\ table' = next
           /\ \/ ObserveBody(inst, seq)
              \/ UNCHANGED <<vtt, marks>>
  <2>1. InOrder(vtt.history)' /\ IsOld(vtt.history)'
    <3>1. CASE vtt' = vtt
      BY <1>0, <1>3, <3>1 DEF UndoInv, HistoriesOrdered, IsOld, InOrder
    <3>2. CASE vtt' = VTTObserveSpeculative(vtt, inst, seq)
      <4> DEFINE e == [sequence |-> seq, taint |-> vtt.taint,
                       finalLoadPC |-> vtt.finalLoadPC]
                 q == vtt.history
      <4>1. e \in SpeculativeState /\ e.sequence = seq
        BY <1>0, <1>1 DEF VTT, SpeculativeState
      <4>2. vtt'.history = Append(q, e)
        BY <1>0, <3>2 DEF VTTObserveSpeculative, VTTObserve, VTT
      <4>3. q \in Seq(SpeculativeState) /\ InOrder(q)
        BY <1>0, HistoryTypes DEF UndoInv, HistoriesOrdered
      <4> HIDE DEF e
      <4>4. /\ InOrder(Append(q, e))
            /\ \A j \in DOMAIN Append(q, e) :
                  (j \in DOMAIN q /\ Append(q, e)[j] = q[j]) \/ Append(q, e)[j] = e
        BY <1>6, <4>1, <4>3, AppendKeepsOrder
      <4>5. IsOld(q)
        BY DEF UndoInv, HistoriesOrdered
      <4>6. IsOld(vtt.history)'
        BY <1>0, <1>3, <1>4, <1>5, <4>1, <4>2, <4>4, <4>5, Zenon, SMTT(30) DEF IsOld
      <4> QED
        BY <4>2, <4>4, <4>6, Zenon, SMTT(30)
    <3> QED
      BY <1>8, <3>1, <3>2 DEF ObserveBody
  <2>2. ctl'.triggerPC = ctl.triggerPC
    BY <1>0, <1>8 DEF ControllerObserveDispatch, Controller
  <2>3. CASE table'.writes = table.writes /\ table'.seen = table.seen
    <3>1. InOrder(table.writes)' /\ IsOld(table.writes)'
      BY <1>0, <1>3, <2>3 DEF UndoInv, HistoriesOrdered, IsOld, InOrder
    <3> QED
      BY <2>1, <2>2, <2>3, <3>1, Zenon, SMTT(30) DEF UndoInv, HistoriesOrdered, SeenIsUndoable
  <2>4. CASE table' = [table EXCEPT !.seen = @ \cup {inst.pc},
                          !.writes = Append(@, [sequence |-> seq, pc |-> inst.pc])]
    <3> DEFINE e == [sequence |-> seq, pc |-> inst.pc]
               q == table.writes
    <3>1. e \in DiscoverySeenWrite /\ e.sequence = seq /\ e.pc = inst.pc
      BY <1>1 DEF DiscoverySeenWrite
    <3>2. table'.writes = Append(q, e) /\ table'.seen = table.seen \cup {inst.pc}
      BY <1>0, <2>4 DEF StrideRecord
    <3>3. q \in Seq(DiscoverySeenWrite) /\ InOrder(q) /\ IsOld(q)
      BY <1>0, HistoryTypes DEF UndoInv, HistoriesOrdered
    <3> HIDE DEF e
    <3>4. /\ InOrder(Append(q, e))
          /\ \A j \in DOMAIN Append(q, e) :
                (j \in DOMAIN q /\ Append(q, e)[j] = q[j]) \/ Append(q, e)[j] = e
      BY <1>6, <3>1, <3>3, AppendKeepsOrder
    <3>5. IsOld(table.writes)'
      BY <1>0, <1>3, <1>4, <1>5, <3>1, <3>2, <3>3, <3>4, Zenon, SMTT(30) DEF IsOld
    <3>6. /\ \A j \in DOMAIN q : j \in DOMAIN Append(q, e) /\ Append(q, e)[j] = q[j]
          /\ \E j \in DOMAIN Append(q, e) : Append(q, e)[j] = e
      BY <3>1, <3>3, AppendProperties
    <3>7. SeenIsUndoable'
      BY <2>2, <3>1, <3>2, <3>6 DEF UndoInv, SeenIsUndoable
    <3> QED
      BY <2>1, <3>2, <3>4, <3>5, <3>7, Zenon, SMTT(30) DEF HistoriesOrdered
  <2> QED
    BY <1>0, <1>8, <2>3, <2>4 DEF TableObserveDispatch, StrideRecord
<1> QED
  <2>1. ObserveDVRDispatch(inst, seq)
    BY DEF Dispatch
  <2> HIDE DEF inst, seq
  <2> QED
    BY <1>7, <1>8, <2>1, Zenon DEF ObserveDVRDispatch

\* Removing a suffix of the list undoes all that was observed of it.
LEMMA RemoveKeepsUndo ==
    ASSUME UndoInv, nextSeq' = nextSeq, NEW list \in Seq(InFlight),
           Len(list) = Len(insts),
           \A k \in DOMAIN insts :
               /\ list[k].seq = insts[k].seq
               /\ list[k].dispatched = insts[k].dispatched
               /\ insts[k].squashed => list[k].squashed,
           NEW first \in 1 .. (Len(list) + 1), RemoveInsts(list, first)
    PROVE  HistoriesOrdered' /\ SeenIsUndoable' /\ RemovedIsUndone
<1>0. /\ TypeOK /\ DOMAIN insts = 1 .. Len(insts) /\ Len(insts) \in Nat
      /\ \A k \in DOMAIN insts : insts[k].seq \in Nat
      /\ nextSeq \in Nat
  BY EntryTypes DEF UndoInv, WindowInv, TypeOK, PipelineTypeOK
<1>1. /\ DOMAIN insts' = 1 .. (first - 1)
      /\ \A k \in DOMAIN insts' : insts'[k] = list[k] /\ k \in DOMAIN insts
  BY <1>0, SubSeqProperties DEF RemoveInsts
<1>2. Waiting' \subseteq Waiting
  BY <1>1, WaitingThins
<1>3. \A k \in DOMAIN insts :
         (\A j \in DOMAIN insts' : insts'[j].seq # insts[k].seq) => k >= first
  BY <1>0, <1>1
<1>4. CASE first <= Len(list)
  <2>1. list[first].seq = insts[first].seq /\ first \in DOMAIN insts
        /\ list[first].seq \in Nat
    BY <1>0, <1>4
  <2>2. SquashInstIt(list[first].seq)
    BY <1>4 DEF RemoveInsts
  <2>3. /\ HistoriesOrdered' /\ SeenIsUndoable'
        /\ \A s \in SpeculativeRefs' : s < insts[first].seq
    BY <1>2, <2>1, <2>2, SquashKeepsUndo
  <2>4. \A k \in DOMAIN insts : k >= first => ~(insts[k].seq < insts[first].seq)
    BY <1>0, <2>1 DEF UndoInv, WindowInv, InFlightOrdered
  <2>5. RemovedIsUndone
    BY <1>3, <2>3, <2>4 DEF RemovedIsUndone
  <2> QED
    BY <2>3, <2>5
<1>5. CASE ~(first <= Len(list))
  <2>1. UNCHANGED dvr
    BY <1>5 DEF RemoveInsts
  <2>2. HistoriesOrdered'
    BY <1>0, <1>2, <2>1, ShorteningKeepsOrder DEF dvr, UndoInv
  <2>3. RemovedIsUndone
    BY <1>0, <1>3, <1>5 DEF RemovedIsUndone
  <2> QED
    BY <2>1, <2>2, <2>3 DEF dvr, UndoInv, SeenIsUndoable
<1> QED
  BY <1>4, <1>5

\* Every step keeps the undo structures in order, and undoes what it removes.
LEMMA NextKeepsUndo == UndoInv /\ [Next]_vars => UndoInv' /\ RemovedIsUndone
<1> SUFFICES ASSUME UndoInv, [Next]_vars PROVE UndoInv' /\ RemovedIsUndone
  OBVIOUS
<1>0. /\ TypeOK /\ PipelineTypeOK /\ DVRTypeOK /\ nextSeq \in Nat
      /\ insts \in Seq(InFlight) /\ WindowInv' /\ IdleInv'
  BY NextKeepsWindow, NextKeepsIdle DEF UndoInv, WindowInv, TypeOK, PipelineTypeOK
<1>00. /\ DOMAIN insts = 1 .. Len(insts) /\ Len(insts) \in Nat
       /\ \A k \in DOMAIN insts : insts[k] \in InFlight /\ insts[k].seq \in Nat
  BY <1>0, EntryTypes
<1> SUFFICES HistoriesOrdered' /\ SeenIsUndoable' /\ RemovedIsUndone
  BY <1>0 DEF UndoInv
<1>1. ASSUME UNCHANGED dvr, nextSeq' \in Nat, nextSeq <= nextSeq',
             \A s \in Waiting' : s \in Waiting \/ s = nextSeq
      PROVE  HistoriesOrdered' /\ SeenIsUndoable'
  <2>1. HistoriesOrdered'
    BY <1>0, <1>1, ShorteningKeepsOrder DEF dvr, UndoInv
  <2> QED
    BY <1>1, <2>1 DEF dvr, UndoInv, SeenIsUndoable
<1>2. ASSUME \A k \in DOMAIN insts : \E j \in DOMAIN insts' : insts'[j].seq = insts[k].seq
      PROVE  RemovedIsUndone
  BY <1>2 DEF RemovedIsUndone
<1>3. ASSUME NEW inst \in Insts, Fetch(inst)
      PROVE  HistoriesOrdered' /\ SeenIsUndoable' /\ RemovedIsUndone
  <2> DEFINE fetched == [seq |-> nextSeq, inst |-> inst, place |-> "front",
                         dispatched |-> FALSE, squashed |-> FALSE]
             n == Len(insts) + 1
  <2>1. insts' = Append(insts, fetched) /\ nextSeq' = nextSeq + 1 /\ UNCHANGED dvr
    BY <1>3 DEF Fetch
  <2>2. /\ DOMAIN insts' = 1 .. n
        /\ \A j \in DOMAIN insts : insts'[j] = insts[j]
        /\ insts'[n].seq = nextSeq
    BY <1>0, <1>00, <2>1, AppendProperties
  <2>3. \A s \in Waiting' : s \in Waiting \/ s = nextSeq
    BY <1>00, <2>2 DEF Waiting
  <2>4. RemovedIsUndone
    BY <1>00, <1>2, <2>2
  <2> QED
    BY <1>0, <1>1, <2>1, <2>3, <2>4
<1>4. ASSUME NEW k \in DOMAIN insts, GetInst(k)
      PROVE  HistoriesOrdered' /\ SeenIsUndoable' /\ RemovedIsUndone
  <2>1. PICK place : insts' = [insts EXCEPT ![k] = [insts[k] EXCEPT !.place = place]]
    BY <1>4, Zenon DEF GetInst
  <2>2. /\ DOMAIN insts' = DOMAIN insts
        /\ \A j \in DOMAIN insts : /\ insts'[j].seq = insts[j].seq
                                   /\ insts'[j].dispatched = insts[j].dispatched
                                   /\ insts'[j].squashed = insts[j].squashed
    BY <1>00, <2>1 DEF InFlight
  <2>3. Waiting' \subseteq Waiting
    BY <2>2, WaitingThins
  <2> QED
    BY <1>0, <1>1, <1>2, <1>4, <2>2, <2>3 DEF GetInst
<1>5. ASSUME NEW k \in DOMAIN insts, Dispatch(k)
      PROVE  HistoriesOrdered' /\ SeenIsUndoable' /\ RemovedIsUndone
  <2>1. insts' = [insts EXCEPT ![k] = [insts[k] EXCEPT !.dispatched = TRUE]]
    BY <1>5 DEF Dispatch
  <2>2. \A j \in DOMAIN insts : j \in DOMAIN insts' /\ insts'[j].seq = insts[j].seq
    BY <1>00, <2>1 DEF InFlight
  <2> QED
    BY <1>2, <1>5, <2>2, DispatchKeepsUndo
<1>6. ASSUME NEW k \in DOMAIN insts, NEW pc \in PCs, ExecuteLoad(k, pc)
      PROVE  HistoriesOrdered' /\ SeenIsUndoable' /\ RemovedIsUndone
  <2>1. UNCHANGED <<pipeline, ctl, vtt>>
    BY <1>6 DEF ExecuteLoad
  <2>2. table'.writes = table.writes /\ table'.seen \subseteq table.seen
    BY <1>0, <1>6, ZenonT(30) DEF ExecuteLoad, Train, Untrain, Evict, DVRTypeOK, StrideRecord
  <2>3. Waiting' = Waiting /\ nextSeq' = nextSeq /\ insts' = insts
    BY <2>1 DEF pipeline, Waiting
  <2>4. HistoriesOrdered'
    BY <1>0, <2>1, <2>2, <2>3, ShorteningKeepsOrder DEF UndoInv
  <2>5. SeenIsUndoable'
    BY <2>1, <2>2 DEF UndoInv, SeenIsUndoable
  <2>6. RemovedIsUndone
    BY <1>2, <2>3
  <2> QED
    BY <2>4, <2>5, <2>6
<1>7. CASE /\ insts # <<>> /\ insts' = Tail(insts) /\ InROB(1) /\ nextSeq' = nextSeq
           /\ UNCHANGED dvr \/ InstDone(insts[1].inst, insts[1].seq)
  <2>0. Len(insts) > 0 /\ 1 \in DOMAIN insts
    BY <1>0, <1>00, <1>7
  <2>1. /\ DOMAIN insts' = 1 .. (Len(insts) - 1)
        /\ \A k \in DOMAIN insts' : insts'[k] = insts[k + 1] /\ k + 1 \in DOMAIN insts
    BY <1>0, <1>00, <1>7, <2>0, HeadTailProperties
  <2>2. Waiting' \subseteq Waiting
    BY <2>1, WaitingThins
  <2>3. RemovedIsUndone
    <3>1. ASSUME NEW k \in DOMAIN insts, k # 1
          PROVE  k - 1 \in DOMAIN insts' /\ insts'[k - 1] = insts[k]
      <4>1. k - 1 \in DOMAIN insts' /\ (k - 1) + 1 = k
        BY <1>00, <2>1, <3>1
      <4> QED
        BY <2>1, <4>1
    <3> QED
      BY <1>7, <3>1, Zenon DEF RemovedIsUndone
  <2>4. CASE EndGeneration
    <3>1. table'.seen = {} /\ table'.writes = <<>> /\ vtt'.history = <<>>
      BY <1>0, <1>00, <2>0, <2>4, TableUndoTypes, Zenon, SMTT(30) DEF EndGeneration, DVRTypeOK, VTTReset
    <3> QED
      BY <2>3, <3>1 DEF HistoriesOrdered, InOrder, IsOld, SeenIsUndoable
  <2>5. CASE UNCHANGED <<table, vtt>> /\ ctl'.triggerPC = ctl.triggerPC
    <3>1. HistoriesOrdered'
      BY <1>0, <1>7, <2>2, <2>5, ShorteningKeepsOrder DEF UndoInv
    <3> QED
      BY <2>3, <2>5, <3>1 DEF UndoInv, SeenIsUndoable
  <2>6. InstDone(insts[1].inst, insts[1].seq) /\ ~EndGeneration =>
           UNCHANGED <<table, vtt>> /\ ctl'.triggerPC = ctl.triggerPC
    BY <1>0 DEF InstDone, ControllerObserveCommit, CommitEvent, DVRTypeOK, Controller
  <2> QED
    BY <1>7, <2>4, <2>5, <2>6, Zenon, SMTT(30) DEF dvr
<1>8. ASSUME NEW seq, RemoveInsts(ROBSquash(seq), FirstNotInROB), nextSeq' = nextSeq
      PROVE  HistoriesOrdered' /\ SeenIsUndoable' /\ RemovedIsUndone
  BY <1>0, <1>8, FirstNotInROBRange, ROBSquashProperties, RemoveKeepsUndo
<1>9. ASSUME NEW k \in DOMAIN insts, DecodeSquash(k)
      PROVE  HistoriesOrdered' /\ SeenIsUndoable' /\ RemovedIsUndone
  <2>1. k + 1 \in 1 .. (Len(insts) + 1)
    BY <1>00, <1>9 DEF DecodeSquash
  <2> QED
    BY <1>0, <1>9, <2>1, RemoveKeepsUndo DEF DecodeSquash
<1>10. CASE Trap \/ UNCHANGED vars
  <2>1. UNCHANGED <<insts, nextSeq, dvr>> /\ Waiting' = Waiting
    BY <1>10 DEF Trap, vars, pipeline, Waiting
  <2> QED
    BY <1>0, <1>1, <1>2, <2>1
<1>11. CASE (\E k \in DOMAIN insts : Squash(k)) \/ SquashFromTrap
  BY <1>8, <1>11 DEF Squash, SquashFromTrap
<1>12. CASE Commit \/ RetireSquashed
  BY <1>7, <1>12 DEF Commit, RetireSquashed
<1> QED
  BY <1>3, <1>4, <1>5, <1>6, <1>9, <1>10, <1>11, <1>12, Zenon, SMTT(30) DEF Next

\* Initially there is nothing to undo.
LEMMA InitUndo == Init => UndoInv
<1> SUFFICES ASSUME Init PROVE UndoInv
  OBVIOUS
<1>1. WindowInv
  BY InitWindow
<1>2. vtt.history = <<>> /\ table.writes = <<>> /\ table.seen = {}
  BY DEF Init, VTTReset, EmptyTable
<1> QED
  BY <1>1, <1>2, InitIdle DEF UndoInv, HistoriesOrdered, InOrder, IsOld, SeenIsUndoable

\* Every seen bit but the trigger's can be undone by a squash.
THEOREM SeenAlwaysUndoable == Spec => []SeenIsUndoable
<1>1. UndoInv => SeenIsUndoable
  BY DEF UndoInv
<1> QED
  BY <1>1, InitUndo, NextKeepsUndo, PTL DEF Spec

\* Whatever is removed without having reached the ROB, the trigger, the taint
\* history and the seen bits forget it in the same step.
THEOREM UndoAlwaysComplete == Spec => UndoIsComplete
  BY InitUndo, NextKeepsUndo, PTL DEF Spec, UndoIsComplete

--------------------------------------------------------------------------------
(* The program of a completed generation.                                   *)

\* The next instance of the trigger, once dispatched, closes the window.
StopIsNext ==
    IsDiscovering(ctl) =>
        \A k \in DOMAIN insts :
            /\ insts[k].dispatched
            /\ insts[k].seq > ctl.triggerSequence
            /\ insts[k].inst.pc = ctl.triggerPC
            => ctl.stopSequence # 0 /\ ctl.stopSequence <= insts[k].seq

\* The generation can still complete.
StopAhead ==
    ctl.stopSequence = 0 \/ \E k \in DOMAIN insts : insts[k].seq = ctl.stopSequence

ProgramInv ==
    /\ WindowInv
    /\ body \in Seq(PCs)
    /\ StopIsNext
    /\ recorder.overflowed => Len(recorder.uops) >= MaxUops
    /\ IsDiscovering(ctl) /\ StopAhead => ProgramIsLoop

\* The recorded program and the loop as sequences.
LEMMA ProgramTypes ==
    ASSUME NEW rec \in Recorder, NEW pc \in PCs \cup {NoPC}, NEW b \in Seq(PCs)
    PROVE  /\ Program(rec) \in Seq(PCs \cup {NoPC}) /\ Len(Program(rec)) = Len(rec.uops)
           /\ \A i \in 1 .. Len(rec.uops) : Program(rec)[i] = rec.uops[i].pc
           /\ Loop(pc, b) \in Seq(PCs \cup {NoPC}) /\ Len(Loop(pc, b)) = Len(b) + 1
           /\ Loop(pc, b)[1] = pc
           /\ \A i \in 1 .. Len(b) : Loop(pc, b)[i + 1] = b[i]
<1> DEFINE uops == rec.uops
           n == Len(uops)
           R == PCs \cup {NoPC}
           p == Program(rec)
<1>1. uops \in Seq([pc : PCs, tainted : BOOLEAN]) /\ n \in Nat /\ DOMAIN uops = 1 .. n
  BY DEF Recorder
<1>2. \A i \in 1 .. n : uops[i].pc \in R
  <2>1. \A i \in 1 .. n : uops[i] \in [pc : PCs, tainted : BOOLEAN]
    <3> HIDE DEF uops
    <3> QED BY <1>1, ElementOfSeq, Zenon
  <2> QED
    BY <2>1
<1>3. p \in [1 .. n -> R] /\ \A i \in 1 .. n : p[i] = uops[i].pc
  BY <1>1, <1>2 DEF Program
<1>4. p \in Seq(R) /\ Len(p) = n
  <2> HIDE DEF p
  <2> QED BY <1>1, <1>3, IsASeq
<1>5. <<pc>> \in Seq(R) /\ b \in Seq(R) /\ Len(b) \in Nat
  OBVIOUS
<1>6. /\ Loop(pc, b) \in Seq(R) /\ Len(Loop(pc, b)) = Len(b) + 1
      /\ Loop(pc, b)[1] = pc
      /\ \A i \in 1 .. Len(b) : Loop(pc, b)[i + 1] = b[i]
  BY <1>5, ConcatProperties DEF Loop
<1> QED
  BY <1>3, <1>4, <1>6

\* Committing an instruction of the body extends the program and the loop by
\* the same instruction, unless the recorder is full.
LEMMA ProgramGrows ==
    ASSUME recorder \in Recorder, recorder' \in Recorder,
           ctl \in Controller, ctl' \in Controller, ctl'.triggerPC = ctl.triggerPC,
           body \in Seq(PCs), NEW inst \in DVRInst, NEW tainted \in BOOLEAN,
           recorder' = Record(recorder, inst, tainted), body' = Append(body, inst.pc),
           recorder.overflowed => Len(recorder.uops) >= MaxUops,
           ProgramIsLoop
    PROVE  body' \in Seq(PCs) /\ ProgramIsLoop'
<1> DEFINE R == PCs \cup {NoPC}
           n == Len(body)
           m == Len(recorder.uops)
           program == Program(recorder)
           loop == Loop(ctl.triggerPC, body)
           program2 == Program(recorder')
           loop2 == Loop(ctl.triggerPC, body')
<1>0. inst.pc \in PCs /\ n \in Nat /\ m \in Nat /\ MaxUops \in Nat
  BY BoundsAssumption DEF DVRInst, Recorder
<1>1. /\ body' \in Seq(PCs) /\ Len(body') = n + 1 /\ body'[n + 1] = inst.pc
      /\ \A i \in 1 .. n : body'[i] = body[i]
  BY <1>0, AppendProperties
<1>01. ctl.triggerPC \in R
  BY DEF Controller
<1>2. /\ program \in Seq(R) /\ Len(program) = m
      /\ \A i \in 1 .. m : program[i] = recorder.uops[i].pc
      /\ loop \in Seq(R) /\ Len(loop) = n + 1 /\ loop[1] = ctl.triggerPC
      /\ \A i \in 1 .. n : loop[i + 1] = body[i]
  BY <1>01, ProgramTypes, ZenonT(30)
<1>3. /\ program2 \in Seq(R) /\ Len(program2) = Len(recorder'.uops)
      /\ \A i \in 1 .. Len(recorder'.uops) : program2[i] = recorder'.uops[i].pc
      /\ loop2 \in Seq(R) /\ Len(loop2) = n + 2 /\ loop2[1] = ctl.triggerPC
      /\ \A i \in 1 .. (n + 1) : loop2[i + 1] = body'[i]
  <2>1. Len(body') + 1 = n + 2
    BY <1>0, <1>1
  <2>2. /\ program2 \in Seq(R) /\ Len(program2) = Len(recorder'.uops)
        /\ \A i \in 1 .. Len(recorder'.uops) : program2[i] = recorder'.uops[i].pc
        /\ loop2 \in Seq(R) /\ Len(loop2) = Len(body') + 1 /\ loop2[1] = ctl.triggerPC
        /\ \A i \in 1 .. Len(body') : loop2[i + 1] = body'[i]
    BY <1>1, <1>01, ProgramTypes, ZenonT(30)
  <2> QED
    BY <1>1, <2>1, <2>2
<1> HIDE DEF program, loop, program2, loop2
<1>4. \A i \in 1 .. (n + 1) : loop2[i] = loop[i]
  <2> TAKE i \in 1 .. (n + 1)
  <2>1. CASE i = 1
    BY <1>2, <1>3, <2>1
  <2>2. CASE i # 1
    <3>1. i - 1 \in 1 .. n /\ (i - 1) + 1 = i /\ i - 1 \in 1 .. (n + 1)
      BY <1>0, <2>2
    <3>2. loop2[(i - 1) + 1] = body'[i - 1] /\ loop[(i - 1) + 1] = body[i - 1]
      BY <1>2, <1>3, <3>1, Zenon, SMTT(30)
    <3> QED
      BY <1>1, <3>1, <3>2
  <2> QED
    BY <2>1, <2>2
<1>5. loop2[n + 2] = inst.pc
  <2>1. loop2[(n + 1) + 1] = body'[n + 1]
    BY <1>0, <1>3
  <2> QED
    BY <1>0, <1>1, <2>1
<1>6. CASE recorder'.overflowed /\ recorder'.uops = recorder.uops
  <2>1. m <= n + 1 /\ \A i \in 1 .. m : program[i] = loop[i]
    <3>1. DOMAIN program = 1 .. m
      BY <1>2
    <3>2. IF recorder.overflowed
          THEN Len(program) < Len(loop) /\ \A i \in DOMAIN program : program[i] = loop[i]
          ELSE program = loop
      BY Zenon DEF ProgramIsLoop, program, loop
    <3>3. CASE recorder.overflowed
      <4>1. m < n + 1 /\ \A i \in 1 .. m : program[i] = loop[i]
        BY <1>2, <3>1, <3>2, <3>3, Zenon
      <4> QED
        BY <1>0, <4>1
    <3>4. CASE ~recorder.overflowed
      <4>1. program = loop /\ m = n + 1
        BY <1>2, <3>2, <3>4, Zenon
      <4> QED
        BY <1>0, <4>1
    <3> QED
      BY <3>3, <3>4
  <2>2. \A i \in 1 .. m : program2[i] = loop2[i]
    BY <1>0, <1>2, <1>3, <1>4, <1>6, <2>1
  <2>3. Len(program2) < Len(loop2) /\ DOMAIN program2 = 1 .. m
    BY <1>0, <1>3, <1>6, <2>1
  <2> QED
    BY <1>1, <1>6, <2>2, <2>3, Zenon, SMTT(30) DEF ProgramIsLoop, program2, loop2
<1>7. CASE /\ m < MaxUops /\ recorder'.overflowed = recorder.overflowed
           /\ Len(recorder'.uops) = m + 1
           /\ \A i \in 1 .. m : recorder'.uops[i] = recorder.uops[i]
           /\ recorder'.uops[m + 1] = [pc |-> inst.pc, tainted |-> tainted]
  <2>1. ~recorder.overflowed /\ program = loop
    BY <1>0, <1>7 DEF ProgramIsLoop, program, loop, program2, loop2
  <2>2. m = n + 1
    BY <1>0, <1>2, <2>1, Zenon, SMTT(30)
  <2>3. \A i \in 1 .. (m + 1) : program2[i] = loop2[i]
    <3> TAKE i \in 1 .. (m + 1)
    <3>1. CASE i = m + 1
      BY <1>0, <1>3, <1>5, <1>7, <2>2, <3>1
    <3>2. CASE i # m + 1
      <4>1. i \in 1 .. m
        BY <1>0, <3>2
      <4>2. program2[i] = program[i]
        BY <1>0, <1>2, <1>3, <1>7, <4>1, ZenonT(30)
      <4> QED
        BY <1>4, <2>1, <2>2, <4>1, <4>2, Zenon, SMTT(30)
    <3> QED
      BY <3>1, <3>2
  <2>4. program2 = loop2
    <3>1. Len(program2) = m + 1 /\ Len(loop2) = m + 1
      BY <1>0, <1>3, <1>7, <2>2
    <3> QED
      BY <1>3, <2>3, <3>1, SeqEqual
  <2> QED
    BY <1>1, <1>7, <2>1, <2>4, Zenon, SMTT(30) DEF ProgramIsLoop, program, loop, program2, loop2
<1>8. \/ recorder'.overflowed /\ recorder'.uops = recorder.uops
      \/ /\ m < MaxUops /\ recorder'.overflowed = recorder.overflowed
         /\ Len(recorder'.uops) = m + 1
         /\ \A i \in 1 .. m : recorder'.uops[i] = recorder.uops[i]
         /\ recorder'.uops[m + 1] = [pc |-> inst.pc, tainted |-> tainted]
  <2>1. CASE m >= MaxUops
    BY <2>1 DEF Record, Recorder
  <2>2. CASE ~(m >= MaxUops)
    <3>1. DOMAIN recorder.uops = 1 .. m
      BY DEF Recorder
    <3> QED
      BY <1>0, <2>2, <3>1, RecordAppends
  <2> QED
    BY <2>1, <2>2
<1> QED
  BY <1>6, <1>7, <1>8

\* A step that commits nothing, only drops instructions and leaves the
\* generation as it is, or ends it, keeps the invariant.
LEMMA QuietKeepsProgram ==
    ASSUME ProgramInv, WindowInv', HNext, ~Committing,
           \A k \in DOMAIN insts' :
               \/ insts'[k].seq = nextSeq /\ ~insts'[k].dispatched
               \/ \E j \in DOMAIN insts :
                     /\ insts'[k].seq = insts[j].seq
                     /\ insts'[k].inst = insts[j].inst
                     /\ insts'[k].dispatched = insts[j].dispatched,
           \/ UNCHANGED <<ctl, recorder>>
           \/ ~IsDiscovering(ctl') /\ ~recorder'.overflowed
    PROVE  ProgramInv'
<1>1. CASE ~IsDiscovering(ctl') /\ (~recorder'.overflowed \/ UNCHANGED recorder)
  <2>1. body' = <<>>
    BY <1>1 DEF HNext, Continuing
  <2> QED
    BY <1>1, <2>1 DEF ProgramInv, StopIsNext
<1>2. CASE IsDiscovering(ctl') /\ UNCHANGED <<ctl, recorder>>
  <2>1. body' = body
    BY <1>2 DEF HNext, Continuing
  <2>2. StopIsNext'
    BY <1>2, Zenon, SMTT(30) DEF ProgramInv, StopIsNext
  <2>3. StopAhead' => StopAhead
    BY <1>2, SMTT(30) DEF ProgramInv, WindowInv, ObservedIsOld, StopAhead, TypeOK, DVRTypeOK, Controller,
       PipelineTypeOK
  <2>4. ProgramIsLoop => ProgramIsLoop'
    BY <1>2, <2>1 DEF ProgramIsLoop
  <2> QED
    BY <1>2, <2>1, <2>2, <2>3, <2>4, Zenon, SMTT(30) DEF ProgramInv
<1> QED
  BY <1>1, <1>2, Zenon, SMTT(30)

\* A squash that keeps the ROB head is no commit.
LEMMA RemoveKeepsProgram ==
    ASSUME ProgramInv, WindowInv', HNext, NEW list \in Seq(InFlight),
           Len(list) = Len(insts),
           \A k \in DOMAIN insts :
               /\ list[k].seq = insts[k].seq
               /\ list[k].inst = insts[k].inst
               /\ list[k].dispatched = insts[k].dispatched,
           NEW first \in 1 .. (Len(list) + 1), insts # <<>> /\ InROB(1) => first > 1,
           RemoveInsts(list, first)
    PROVE  ProgramInv'
<1>0. /\ DOMAIN insts = 1 .. Len(insts) /\ Len(insts) \in Nat
      /\ insts \in Seq(InFlight) /\ TypeOK
      /\ \A k \in DOMAIN insts : insts[k].seq \in Nat
  BY EntryTypes, Zenon, SMTT(30) DEF ProgramInv, WindowInv, TypeOK, PipelineTypeOK
<1>1. /\ DOMAIN insts' = 1 .. (first - 1)
      /\ \A k \in DOMAIN insts' : insts'[k] = list[k] /\ k \in DOMAIN insts
  BY <1>0, SubSeqProperties DEF RemoveInsts
<1>2. ~Committing
  <2> SUFFICES ASSUME Committing PROVE FALSE
    OBVIOUS
  <2>1. insts # <<>> /\ InROB(1) /\ insts' = Tail(insts)
    BY DEF Committing
  <2>2. 1 \in DOMAIN insts' /\ insts'[1].seq = insts[1].seq
    BY <1>1, <2>1
  <2>3. DOMAIN insts' = 1 .. (Len(insts) - 1) /\ insts'[1] = insts[2] /\ 2 \in DOMAIN insts
    BY <1>0, <2>1, <2>2, HeadTailProperties
  <2>4. insts[1].seq < insts[2].seq /\ 1 \in DOMAIN insts
    <3>1. 1 \in DOMAIN insts
      BY <1>1, <2>2, Zenon, SMTT(30)
    <3> QED
      BY <2>3, <3>1 DEF ProgramInv, WindowInv, InFlightOrdered
  <2> QED
    BY <1>0, <2>2, <2>3, <2>4
<1>3. \/ UNCHANGED <<ctl, recorder>>
      \/ ~IsDiscovering(ctl') /\ ~recorder'.overflowed
  BY DEF RemoveInsts, SquashInstIt, dvr, Rollback, Finished, IsDiscovering, EmptyRecorder
<1> QED
  BY <1>1, <1>2, <1>3, QuietKeepsProgram, Zenon, SMTT(30)

\* The first position outside the ROB comes after the head that is in it.
LEMMA HeadInROB ==
    ASSUME PipelineTypeOK, insts # <<>>, InROB(1)
    PROVE  FirstNotInROB > 1
<1> DEFINE S == {0} \cup {k \in DOMAIN insts : InROB(k)}
<1>1. S \in SUBSET (0 .. Len(insts)) /\ 1 \in S /\ Len(insts) \in Nat
  BY DEF PipelineTypeOK
<1>2. Max(S) \in S /\ 1 <= Max(S)
  <2> HIDE DEF S
  <2> QED BY <1>1, MaxProperties, Zenon
<1>3. FirstNotInROB = 1 + Max(S)
  BY DEF FirstNotInROB
<1>4. Max(S) \in Nat
  BY <1>1, <1>2
<1> HIDE DEF S
<1> QED
  BY <1>2, <1>3, <1>4

\* Dispatch starts a program, or closes the window, or leaves both alone.
LEMMA DispatchKeepsProgram ==
    ASSUME ProgramInv, WindowInv', HNext, NEW k \in DOMAIN insts, Dispatch(k)
    PROVE  ProgramInv'
<1> DEFINE seq == insts[k].seq
           inst == insts[k].inst
           seen == ControllerObserveDispatch(ctl, inst.pc, seq)
           window == IsDiscovering(seen) /\ ~StopPending(seen)
<1>0. /\ TypeOK /\ PipelineTypeOK /\ ctl \in Controller /\ insts \in Seq(InFlight)
      /\ DOMAIN insts = 1 .. Len(insts) /\ Len(insts) \in Nat
      /\ \A j \in DOMAIN insts : insts[j].seq \in Nat \ {0} /\ insts[j].inst \in DVRInst
      /\ inst.pc \in PCs
  BY EntryTypes DEF ProgramInv, WindowInv, TypeOK, PipelineTypeOK, DVRTypeOK, DVRInst
<1>1. /\ DOMAIN insts' = DOMAIN insts
      /\ \A j \in DOMAIN insts : /\ insts'[j].seq = insts[j].seq
                                 /\ insts'[j].inst = insts[j].inst
      /\ \A j \in DOMAIN insts \ {k} : insts'[j].dispatched = insts[j].dispatched
  <2>1. insts' = [insts EXCEPT ![k] = [insts[k] EXCEPT !.dispatched = TRUE]]
    BY DEF Dispatch
  <2>2. insts[k] \in InFlight
    BY <1>0, EntryTypes
  <2>3. /\ [insts[k] EXCEPT !.dispatched = TRUE].seq = insts[k].seq
        /\ [insts[k] EXCEPT !.dispatched = TRUE].inst = insts[k].inst
    BY <2>2 DEF InFlight
  <2> QED
    BY <2>1, <2>3
<1>2. ~Committing
  <2>1. Len(insts') = Len(insts)
    BY <1>0 DEF Dispatch
  <2>2. insts # <<>> => Len(Tail(insts)) # Len(insts)
    <3>1. insts # <<>> => Len(Tail(insts)) = Len(insts) - 1
      BY <1>0, HeadTailProperties, Zenon
    <3>2. Len(insts) \in Nat
      BY <1>0
    <3> QED
      BY <3>1, <3>2
  <2> QED
    BY <2>1, <2>2 DEF Committing
<1>3. IsDiscovering(ctl) => ctl.triggerSequence < seq /\ ctl.stopSequence < seq
  BY DEF ProgramInv, WindowInv, ObservedIsOld, Dispatch
<1>4. \A j \in DOMAIN insts : insts'[j].dispatched => insts[j].seq <= seq
  BY <1>0, <1>1 DEF ProgramInv, WindowInv, InFlightOrdered, Dispatch
<1>5. CASE /\ ~StopPending(seen)
           /\ \E next : BeginDVRDiscovery(inst, seq, next, window)
  <2>1. /\ ctl'.triggerSequence = seq /\ ctl'.stopSequence = 0
        /\ ctl'.triggerPC = inst.pc
    <3>1. CASE window
      BY <1>5, <3>1 DEF BeginDVRDiscovery, Restart, Arm, Finished
    <3>2. CASE ~window
      <4>1. ctl.state = "Idle"
        BY <1>0, <1>5, <3>2, Zenon, SMTT(30) DEF Controller, ControllerObserveDispatch, IsDiscovering
      <4> QED
        BY <1>5, <3>2, <4>1 DEF BeginDVRDiscovery, Arm
    <3> QED
      BY <3>1, <3>2, Zenon, SMTT(30)
  <2>2. body' = <<>>
    BY <1>0, <1>3, <2>1 DEF HNext, Continuing
  <2>3. StopIsNext'
    BY <1>0, <1>1, <1>4, <2>1 DEF StopIsNext
  <2>4. recorder' = Record(EmptyRecorder, inst, FALSE)
    BY <1>5 DEF BeginDVRDiscovery
  <2>5. /\ ~recorder'.overflowed /\ Len(recorder'.uops) = 1
        /\ recorder'.uops[1].pc = inst.pc
    BY <2>4, BoundsAssumption DEF Record, EmptyRecorder
  <2>6. ProgramIsLoop'
    <3> DEFINE program == Program(recorder')
               loop == Loop(ctl'.triggerPC, body')
               R == PCs \cup {NoPC}
    <3>1. recorder' \in Recorder /\ ctl'.triggerPC \in R
      BY <1>0, <2>1 DEF WindowInv, TypeOK, DVRTypeOK
    <3>2. body' \in Seq(PCs) /\ Len(body') = 0
      BY <2>2
    <3>3. /\ program \in Seq(R) /\ Len(program) = Len(recorder'.uops)
          /\ \A i \in 1 .. Len(recorder'.uops) : program[i] = recorder'.uops[i].pc
          /\ loop \in Seq(R) /\ Len(loop) = Len(body') + 1
          /\ loop[1] = ctl'.triggerPC
      BY <3>1, <3>2, ProgramTypes, ZenonT(30)
    <3> HIDE DEF program, loop
    <3>4. Len(program) = 1 /\ Len(loop) = 1 /\ \A i \in 1 .. 1 : program[i] = loop[i]
      BY <2>1, <2>5, <3>2, <3>3
    <3>5. program = loop
      BY <3>3, <3>4, SeqEqual
    <3> QED
      BY <2>5, <3>5, Zenon, SMTT(30) DEF ProgramIsLoop, program, loop
  <2> QED
    BY <2>2, <2>3, <2>5, <2>6 DEF ProgramInv
<1>6. CASE ctl' = seen /\ UNCHANGED recorder
  <2>1. CASE ~IsDiscovering(ctl)
    <3>1. ~IsDiscovering(ctl')
      BY <1>6, <2>1 DEF ControllerObserveDispatch
    <3>2. body' = <<>>
      BY <3>1 DEF HNext, Continuing
    <3> QED
      BY <1>6, <3>1, <3>2 DEF ProgramInv, StopIsNext
  <2>2. CASE IsDiscovering(ctl)
    <3>1. /\ IsDiscovering(ctl') /\ ctl'.triggerSequence = ctl.triggerSequence
          /\ ctl'.triggerPC = ctl.triggerPC
          /\ ctl'.stopSequence = IF ctl.stopSequence = 0 /\ inst.pc = ctl.triggerPC
                                 THEN seq ELSE ctl.stopSequence
      BY <1>0, <1>3, <1>6, <2>2 DEF ControllerObserveDispatch, Controller, IsDiscovering
    <3>2. body' = body
      BY <1>2, <2>2, <3>1, Zenon, SMTT(30) DEF HNext, Continuing
    <3>3. StopIsNext'
      BY <1>0, <1>1, <1>3, <2>2, <3>1 DEF ProgramInv, StopIsNext, Controller
    <3>4. StopAhead' => StopAhead
      BY <1>1, <3>1, Zenon, SMTT(30) DEF StopAhead
    <3>5. ProgramIsLoop => ProgramIsLoop'
      BY <1>6, <3>1, <3>2, Zenon, SMTT(30) DEF ProgramIsLoop
    <3> QED
      BY <1>6, <2>2, <3>2, <3>3, <3>4, <3>5 DEF ProgramInv
  <2> QED
    BY <2>1, <2>2, Zenon, SMTT(30)
<1> QED
  <2>1. ObserveDVRDispatch(inst, seq)
    BY Zenon, SMTT(30) DEF Dispatch
  <2> HIDE DEF inst, seq
  <2> QED
    BY <1>5, <1>6, <2>1, Zenon DEF ObserveDVRDispatch

\* Committing an instruction of the body records it; committing one that is
\* not in it can only happen before the trigger or once the stop is gone.
LEMMA CommitKeepsProgram ==
    ASSUME ProgramInv, WindowInv', HNext, Commit
    PROVE  ProgramInv'
<1> DEFINE seq == insts[1].seq
           inst == insts[1].inst
<1>0. /\ TypeOK /\ ctl \in Controller /\ recorder \in Recorder /\ insts \in Seq(InFlight)
      /\ ctl' \in Controller /\ recorder' \in Recorder
      /\ DOMAIN insts = 1 .. Len(insts) /\ Len(insts) \in Nat /\ 1 \in DOMAIN insts
      /\ \A j \in DOMAIN insts : insts[j].seq \in Nat \ {0} /\ insts[j].inst \in DVRInst
  <2>1. insts \in Seq(InFlight) /\ insts # <<>>
    BY DEF ProgramInv, WindowInv, TypeOK, PipelineTypeOK, Commit
  <2>2. TypeOK /\ TypeOK' /\ PipelineTypeOK
    BY DEF ProgramInv, WindowInv, TypeOK
  <2>3. /\ ctl \in Controller /\ recorder \in Recorder
        /\ ctl' \in Controller /\ recorder' \in Recorder
    BY <2>2 DEF TypeOK, DVRTypeOK
  <2>4. DOMAIN insts = 1 .. Len(insts) /\ Len(insts) \in Nat /\ 1 \in DOMAIN insts
    BY <2>1
  <2> QED
    BY <2>1, <2>2, <2>3, <2>4, EntryTypes
<1>1. /\ DOMAIN insts' = 1 .. (Len(insts) - 1)
      /\ \A k \in DOMAIN insts' : insts'[k] = insts[k + 1] /\ k + 1 \in DOMAIN insts
  BY <1>0, HeadTailProperties DEF Commit
<1>2. \A k \in DOMAIN insts' : seq < insts'[k].seq
  <2> TAKE k \in DOMAIN insts'
  <2>1. 1 < k + 1 /\ k + 1 \in DOMAIN insts /\ insts'[k] = insts[k + 1]
    BY <1>0, <1>1
  <2> QED
    BY <1>0, <2>1 DEF ProgramInv, WindowInv, InFlightOrdered
<1>3. Committing /\ Live(1) /\ InstDone(inst, seq)
  BY DEF Commit, Committing
<1>4. CASE CommitEvent(ctl, seq) \in {"Completed", "TimedOut"}
  <2>1. ~IsDiscovering(ctl') /\ ~recorder'.overflowed
    BY <1>3, <1>4 DEF InstDone, EndGeneration, EmptyRecorder, ControllerObserveCommit,
       Finished, IsDiscovering
  <2>2. body' = <<>>
    BY <2>1 DEF HNext, Continuing
  <2> QED
    BY <2>1, <2>2 DEF ProgramInv, StopIsNext
<1>5. CASE CommitEvent(ctl, seq) = "None"
  <2>1. ctl' = ctl
    BY <1>3, <1>5 DEF InstDone, ControllerObserveCommit
  <2>2. ~IsDiscovering(ctl) \/ seq <= ctl.triggerSequence
    BY <1>5, Zenon, SMTT(30) DEF CommitEvent
  <2>3. UNCHANGED recorder
    BY <1>0, <1>3, <1>5, <2>2 DEF InstDone, InDiscoveryBody, Controller
  <2>4. IsDiscovering(ctl) => body' = body
    BY <1>0, <2>1, <2>2 DEF HNext, Continuing, Controller
  <2>5. ~IsDiscovering(ctl) => body' = <<>>
    BY DEF HNext, Continuing
  <2>6. StopIsNext'
    BY <1>1, <2>1 DEF ProgramInv, StopIsNext
  <2>7. StopAhead' => StopAhead
    BY <1>1, <2>1 DEF StopAhead
  <2>8. ProgramIsLoop /\ body' = body => ProgramIsLoop'
    BY <2>1, <2>3 DEF ProgramIsLoop
  <2>9. body' \in Seq(PCs)
    <3>1. CASE body' = body
      BY <3>1 DEF ProgramInv
    <3>2. CASE body' = <<>>
      BY <3>2
    <3> QED
      BY <2>4, <2>5, <3>1, <3>2
  <2>10. IsDiscovering(ctl') /\ StopAhead' => ProgramIsLoop'
    BY <2>1, <2>4, <2>7, <2>8 DEF ProgramInv
  <2> QED
    BY <2>3, <2>6, <2>9, <2>10 DEF ProgramInv
<1>6. CASE CommitEvent(ctl, seq) = "Counted"
  <2>1. /\ IsDiscovering(ctl) /\ seq > ctl.triggerSequence
        /\ ctl' = [ctl EXCEPT !.instructions = @ + 1]
    BY <1>0, <1>3, <1>6 DEF InstDone, ControllerObserveCommit, CommitEvent, Controller
  <2>2. /\ IsDiscovering(ctl') /\ ctl'.triggerSequence = ctl.triggerSequence
        /\ ctl'.triggerPC = ctl.triggerPC /\ ctl'.stopSequence = ctl.stopSequence
    BY <1>0, <2>1 DEF Controller, IsDiscovering
  <2>3. StopIsNext'
    BY <1>1, <2>1, <2>2 DEF ProgramInv, StopIsNext
  <2>4. IF InDiscoveryBody(ctl, seq) THEN CommitBody(inst, seq) ELSE UNCHANGED recorder
    BY <1>3, <1>6 DEF InstDone
  <2>5. body' = IF inst.pc # ctl.triggerPC THEN Append(body, inst.pc) ELSE body
    BY <1>3, <2>1, <2>2 DEF HNext, Continuing
  <2> DEFINE tainted == seq \in marks.tainted
  <2>6. inst \in DVRInst /\ inst.pc \in PCs /\ tainted \in BOOLEAN
    BY <1>0 DEF DVRInst
  <2>7. body' \in Seq(PCs)
    BY <2>5, <2>6, AppendProperties, Zenon, SMTT(30) DEF ProgramInv
  <2>8. recorder' \in {recorder, Record(recorder, inst, tainted)}
    BY <2>4 DEF CommitBody
  <2>9. recorder'.overflowed => Len(recorder'.uops) >= MaxUops
    <3>1. CASE recorder' = recorder
      BY <3>1 DEF ProgramInv
    <3>2. CASE recorder' = Record(recorder, inst, tainted)
      <4>1. CASE Len(recorder.uops) >= MaxUops
        BY <1>0, <3>2, <4>1 DEF Record, Recorder
      <4>2. CASE ~(Len(recorder.uops) >= MaxUops)
        <5>1. recorder'.overflowed = recorder.overflowed
          <6> HIDE DEF tainted, inst
          <6> QED BY <1>0, <2>6, <3>2, <4>2, RecordAppends, ZenonT(30)
        <5> QED
          BY <4>2, <5>1 DEF ProgramInv
      <4> QED
        BY <4>1, <4>2
    <3> QED
      BY <2>8, <3>1, <3>2
  <2>10. ASSUME StopAhead' PROVE ProgramIsLoop'
    <3>1. ctl.stopSequence = 0 \/ seq < ctl.stopSequence
      BY <1>2, <2>2, <2>10 DEF StopAhead
    <3>2. InDiscoveryBody(ctl, seq)
      BY <2>1, <3>1 DEF InDiscoveryBody
    <3>3. seq \in marks.recorded
      BY <1>0, <1>3, <2>1, <3>2, Zenon, SMTT(30) DEF ProgramInv, WindowInv, BodyIsRecorded, Live
    <3>4. inst.pc # ctl.triggerPC
      BY <1>0, <1>3, <2>1, <3>1 DEF ProgramInv, StopIsNext, Live, Controller
    <3>5. StopAhead
      BY <1>1, <2>2, <2>10, Zenon, SMTT(30) DEF StopAhead
    <3>6. recorder' = Record(recorder, inst, tainted) /\ body' = Append(body, inst.pc)
      BY <2>4, <2>5, <3>2, <3>3, <3>4, Zenon, SMTT(30) DEF CommitBody
    <3> HIDE DEF tainted, inst
    <3> QED
      BY <1>0, <2>1, <2>2, <2>6, <3>5, <3>6, ProgramGrows, Zenon, SMTT(30) DEF ProgramInv
  <2> QED
    BY <2>3, <2>7, <2>9, <2>10 DEF ProgramInv
<1> QED
  BY <1>4, <1>5, <1>6, Zenon, SMTT(30) DEF CommitEvent

\* Every step keeps the program invariant.
LEMMA NextKeepsProgram == ProgramInv /\ [HNext]_hvars => ProgramInv'
<1> SUFFICES ASSUME ProgramInv, [HNext]_hvars PROVE ProgramInv'
  BY SMTT(30)
<1>1. CASE UNCHANGED hvars
  BY <1>1, ZenonT(30) DEF hvars, vars, pipeline, dvr, ProgramInv, WindowInv, TypeOK, PipelineTypeOK,
     DVRTypeOK, InFlightOrdered, ObservedIsOld, BodyIsRecorded, StopIsNext, StopAhead,
     ProgramIsLoop
<1>2. CASE HNext
  <2>0. /\ WindowInv' /\ TypeOK /\ PipelineTypeOK /\ insts \in Seq(InFlight)
        /\ DOMAIN insts = 1 .. Len(insts) /\ Len(insts) \in Nat
        /\ \A k \in DOMAIN insts : insts[k] \in InFlight
    BY <1>2, NextKeepsWindow, EntryTypes
       DEF HNext, ProgramInv, WindowInv, TypeOK, PipelineTypeOK
  <2>1. insts # <<>> => Len(Tail(insts)) = Len(insts) - 1
    BY <2>0, HeadTailProperties, Zenon
  <2>2. Len(insts') \in Nat /\ Len(insts') >= Len(insts) => ~Committing
    BY <2>0, <2>1 DEF Committing
  <2>3. ASSUME NEW inst \in Insts, Fetch(inst) PROVE ProgramInv'
    <3> DEFINE fetched == [seq |-> nextSeq, inst |-> inst, place |-> "front",
                           dispatched |-> FALSE, squashed |-> FALSE]
               n == Len(insts) + 1
    <3>1. insts' = Append(insts, fetched) /\ UNCHANGED dvr
      BY <2>3 DEF Fetch
    <3>2. /\ DOMAIN insts' = 1 .. n /\ Len(insts') = n
          /\ \A j \in DOMAIN insts : insts'[j] = insts[j]
          /\ insts'[n].seq = nextSeq /\ ~insts'[n].dispatched
      BY <2>0, <3>1, AppendProperties
    <3>3. ~Committing
      BY <2>0, <2>2, <3>2
    <3>4. \A k \in DOMAIN insts' :
             \/ insts'[k].seq = nextSeq /\ ~insts'[k].dispatched
             \/ k \in DOMAIN insts /\ insts'[k] = insts[k]
      BY <2>0, <3>2
    <3> QED
      BY <1>2, <2>0, <3>1, <3>3, <3>4, QuietKeepsProgram, ZenonT(30) DEF dvr
  <2>4. ASSUME NEW k \in DOMAIN insts, GetInst(k) PROVE ProgramInv'
    <3>1. PICK place : insts' = [insts EXCEPT ![k] = [insts[k] EXCEPT !.place = place]]
      BY <2>4, Zenon DEF GetInst
    <3>2. /\ DOMAIN insts' = DOMAIN insts /\ Len(insts') = Len(insts)
          /\ \A j \in DOMAIN insts : /\ insts'[j].seq = insts[j].seq
                                     /\ insts'[j].inst = insts[j].inst
                                     /\ insts'[j].dispatched = insts[j].dispatched
      BY <2>0, <3>1 DEF InFlight
    <3>3. ~Committing
      BY <2>0, <2>2, <3>2
    <3> QED
      BY <1>2, <2>0, <2>4, <3>2, <3>3, QuietKeepsProgram DEF GetInst, dvr
  <2>5. CASE \/ \E k \in DOMAIN insts, pc \in PCs : ExecuteLoad(k, pc)
             \/ Trap
    <3>1. insts' = insts /\ UNCHANGED <<ctl, recorder>>
      BY <2>5 DEF ExecuteLoad, Trap, pipeline, dvr
    <3>2. ~Committing
      BY <2>0, <2>2, <3>1
    <3> QED
      BY <1>2, <2>0, <3>1, <3>2, QuietKeepsProgram, Zenon, SMTT(30)
  <2>6. CASE RetireSquashed
    <3>1. ~Committing
      BY <2>6 DEF RetireSquashed, Committing, Live
    <3>2. \A k \in DOMAIN insts' : k + 1 \in DOMAIN insts /\ insts'[k] = insts[k + 1]
      BY <2>0, <2>6, HeadTailProperties DEF RetireSquashed
    <3> QED
      BY <1>2, <2>0, <2>6, <3>1, <3>2, QuietKeepsProgram, Zenon, SMTT(30) DEF RetireSquashed, dvr
  <2>7. ASSUME NEW seq, RemoveInsts(ROBSquash(seq), FirstNotInROB) PROVE ProgramInv'
    BY <1>2, <2>0, <2>7, FirstNotInROBRange, HeadInROB, ROBSquashProperties,
       RemoveKeepsProgram
  <2>8. ASSUME NEW k \in DOMAIN insts, DecodeSquash(k) PROVE ProgramInv'
    <3>1. k + 1 \in 1 .. (Len(insts) + 1) /\ k + 1 > 1
      BY <2>0, <2>8 DEF DecodeSquash
    <3> QED
      BY <1>2, <2>0, <2>8, <3>1, RemoveKeepsProgram, Zenon, SMTT(30) DEF DecodeSquash
  <2>9. CASE (\E k \in DOMAIN insts : Squash(k)) \/ SquashFromTrap
    BY <2>7, <2>9 DEF Squash, SquashFromTrap
  <2>10. CASE \E k \in DOMAIN insts : Dispatch(k)
    BY <1>2, <2>0, <2>10, DispatchKeepsProgram
  <2>11. CASE Commit
    BY <1>2, <2>0, <2>11, CommitKeepsProgram
  <2> QED
    BY <1>2, <2>3, <2>4, <2>5, <2>6, <2>8, <2>9, <2>10, <2>11, Zenon, SMTT(30) DEF HNext, Next
<1> QED
  BY <1>1, <1>2

\* The helper is handed exactly the trigger and what committed up to its next
\* instance, for every window, capacity, squash and trap.
THEOREM CompletedProgramIsLoop == HSpec => CompletedProgram
<1>1. HInit => ProgramInv
  <2> SUFFICES ASSUME HInit PROVE ProgramInv
    OBVIOUS
  <2>1. Init /\ body = <<>> /\ ~IsDiscovering(ctl) /\ ~recorder.overflowed
    BY DEF HInit, Init, Finished, IsDiscovering, EmptyRecorder
  <2>2. body \in Seq(PCs)
    BY <2>1
  <2> QED
    BY <2>1, <2>2, InitWindow DEF ProgramInv, StopIsNext
<1>2. ProgramInv /\ [HNext]_hvars => [Completing => ProgramIsLoop]_hvars
  <2> SUFFICES ASSUME ProgramInv, Completing PROVE ProgramIsLoop
    OBVIOUS
  <2>1. insts # <<>> /\ insts \in Seq(InFlight)
    BY DEF Completing, Committing, ProgramInv, WindowInv, TypeOK, PipelineTypeOK
  <2>2. 1 \in DOMAIN insts
    BY <2>1
  <2>3. IsDiscovering(ctl) /\ insts[1].seq = ctl.stopSequence
    BY DEF Completing, CommitEvent
  <2> QED
    BY <2>2, <2>3 DEF ProgramInv, StopAhead
<1> QED
  BY <1>1, <1>2, NextKeepsProgram, PTL DEF HSpec, CompletedProgram
================================================================================
