------------------------------ MODULE StrideProofs -----------------------------
(***************************************************************************)
(* For every number of slots and every set of load PCs: the types of the    *)
(* reference prediction table, that confidence is only held in a stride,    *)
(* and that the table with slots, counters and replacement implements the   *)
(* table per PC.                                                           *)
(***************************************************************************)
EXTENDS StrideDetector, StrideTable, SequenceTheorems, WellFoundedInduction, TLAPS

--------------------------------------------------------------------------------
(* Least and greatest elements, and prefixes.                               *)

\* A non-empty set of numbers has a least element, which Min chooses.
THEOREM MinProperties ==
    ASSUME NEW S \in SUBSET Nat, S # {}
    PROVE  Min(S) \in S /\ \A y \in S : Min(S) <= y
<1> DEFINE R == OpToRel(<, Nat)
<1>1. IsWellFoundedOn(R, Nat)
  BY NatLessThanWellFounded, Zenon
<1>2. PICK x \in S : \A y \in S : ~(<<y, x>> \in R)
  <2> HIDE DEF R
  <2> QED BY <1>1, WFMin, Zenon
<1>3. \A y \in S : x <= y
  <2> TAKE y \in S
  <2>1. x \in Nat /\ y \in Nat
    OBVIOUS
  <2>2. ~(y < x)
    <3> SUFFICES ASSUME y < x PROVE FALSE
      OBVIOUS
    <3>1. <<y, x>> \in {z \in Nat \X Nat : z[1] < z[2]}
      BY <2>1
    <3> QED
      BY <1>2, <3>1 DEF OpToRel
  <2> QED
    BY <2>1, <2>2
<1> QED
  BY <1>3, Zenon DEF Min

\* A non-empty set of numbers up to n has a greatest element, which is the
\* one Max chooses.
THEOREM MaxProperties ==
    ASSUME NEW n \in Nat, NEW S \in SUBSET (0 .. n), S # {}
    PROVE  Max(S) \in S /\ \A y \in S : y <= Max(S)
<1> DEFINE T == {n - x : x \in S}
<1>1. T \in SUBSET Nat
  OBVIOUS
<1>2. T # {}
  BY Zenon
<1>3. Min(T) \in T /\ \A e \in T : Min(T) <= e
  <2> HIDE DEF T
  <2> QED
    BY <1>1, <1>2, MinProperties, Zenon
<1>4. PICK d \in T : \A e \in T : d <= e
  BY <1>3, Zenon
<1>5. PICK x \in S : d = n - x
  OBVIOUS
<1>6. \A y \in S : y <= x
  <2> TAKE y \in S
  <2>1. n - x <= n - y
    BY <1>4, <1>5
  <2> HIDE DEF T
  <2>2. S \subseteq Nat /\ x \in S /\ y \in S
    OBVIOUS
  <2> QED
    BY <2>1, <2>2
<1> QED
  BY <1>6 DEF Max

\* A prefix of a sequence.
LEMMA PrefixProperties ==
    ASSUME NEW R, NEW q \in Seq(R), NEW n \in 0 .. Len(q)
    PROVE  /\ SubSeq(q, 1, n) \in Seq(R)
           /\ Len(SubSeq(q, 1, n)) = n /\ DOMAIN SubSeq(q, 1, n) = 1 .. n
           /\ \A k \in 1 .. n : SubSeq(q, 1, n)[k] = q[k]
<1>1. \A k \in 1 .. n : q[k] \in R
  BY ElementOfSeq
<1> QED
  BY <1>1, SubSeqProperties

--------------------------------------------------------------------------------
(* The operators of the table.                                              *)

\* The slots an order lists, and that it lists none twice.
Listed(q) == {q[k] : k \in DOMAIN q}
Once(q) == \A j, k \in DOMAIN q : q[j] = q[k] => j = k

\* An order without repetitions stays one, and gains at most the slot moved.
LEMMA MovedLastProperties ==
    ASSUME NEW S, NEW q \in Seq(S), NEW i \in S, Once(q)
    PROVE  /\ MovedLast(q, i) \in Seq(S)
           /\ Listed(MovedLast(q, i)) = Listed(q) \cup {i}
           /\ Once(MovedLast(q, i))
<1> DEFINE t == MovedLast(q, i)
<1> HIDE DEF t
<1> SUFFICES /\ t \in Seq(S)
             /\ {t[k] : k \in DOMAIN t} = {q[k] : k \in DOMAIN q} \cup {i}
             /\ \A j, k \in DOMAIN t : t[j] = t[k] => j = k
  BY Zenon DEF t, Listed, Once
<1>0. \A j, k \in DOMAIN q : q[j] = q[k] => j = k
  BY Zenon DEF Once
<1> DEFINE n == Len(q)
<1>1. n \in Nat /\ DOMAIN q = 1 .. n /\ \A k \in 1 .. n : q[k] \in S
  BY LenProperties, ElementOfSeq
<1>2. CASE ~\E k \in DOMAIN q : q[k] = i
  <2>1. t = Append(q, i)
    BY <1>2, Zenon DEF MovedLast, t
  <2>2. /\ t \in Seq(S) /\ DOMAIN t = 1 .. (n + 1) /\ t[n + 1] = i
        /\ \A k \in 1 .. n : t[k] = q[k]
    BY <2>1, AppendProperties
  <2> HIDE DEF n
  <2>3. {t[k] : k \in DOMAIN t} = {q[k] : k \in DOMAIN q} \cup {i}
    BY <1>1, <2>2
  <2>4. \A j, k \in DOMAIN t : t[j] = t[k] => j = k
    BY <1>0, <1>1, <1>2, <2>2
  <2> QED
    BY <2>2, <2>3, <2>4, Zenon
<1>3. CASE \E k \in DOMAIN q : q[k] = i
  <2> DEFINE m == CHOOSE k \in DOMAIN q : q[k] = i
             u == SubSeq(q, 1, m - 1)
             v == SubSeq(q, m + 1, n)
  <2>1. m \in 1 .. n /\ q[m] = i
    BY <1>1, <1>3, Zenon
  <2>2. t = Append(u \o v, i)
    BY <1>3, Zenon DEF MovedLast, t
  <2> HIDE DEF m, n
  <2>3. /\ u \in Seq(S) /\ Len(u) = m - 1
        /\ \A k \in 1 .. (m - 1) : u[k] = q[k]
    BY <1>1, <2>1, SubSeqProperties DEF n
  <2>4. /\ v \in Seq(S) /\ Len(v) = n - m
        /\ \A k \in 1 .. (n - m) : v[k] = q[m + k]
    <3>1. \A k \in (m + 1) .. n : q[k] \in S
      BY <1>1, <2>1
    <3>2. v \in Seq(S) /\ Len(v) = IF m + 1 <= n THEN n - (m + 1) + 1 ELSE 0
      BY <3>1, <1>1, <2>1, SubSeqProperties DEF n
    <3>3. \A k \in 1 .. (n - (m + 1) + 1) : v[k] = q[m + 1 + k - 1]
      BY <3>1, <1>1, <2>1, SubSeqProperties DEF n
    <3> HIDE DEF v
    <3> QED
      BY <3>2, <3>3, <1>1, <2>1
  <2> HIDE DEF u, v
  <2>5. /\ u \o v \in Seq(S) /\ Len(u \o v) = n - 1
        /\ \A k \in 1 .. (n - 1) : (u \o v)[k] = IF k < m THEN q[k] ELSE q[k + 1]
    <3>1. u \o v \in Seq(S) /\ Len(u \o v) = Len(u) + Len(v)
      BY <2>3, <2>4, ConcatProperties, Zenon
    <3>2. \A k \in 1 .. (Len(u) + Len(v)) :
             (u \o v)[k] = IF k <= Len(u) THEN u[k] ELSE v[k - Len(u)]
      BY <2>3, <2>4, ConcatProperties
    <3> DEFINE w == u \o v
    <3> HIDE DEF w
    <3>3. \A k \in 1 .. (n - 1) : w[k] = IF k < m THEN q[k] ELSE q[k + 1]
      <4> TAKE k \in 1 .. (n - 1)
      <4>1. w[k] = IF k <= m - 1 THEN u[k] ELSE v[k - (m - 1)]
        BY <3>2, <2>1, <2>3, <2>4, <1>1 DEF w
      <4>2. CASE k < m
        BY <4>1, <4>2, <2>1, <2>3, <1>1
      <4>3. CASE ~(k < m)
        <5>1. v[k - (m - 1)] = q[m + (k - (m - 1))]
          BY <4>3, <2>1, <2>4, <1>1
        <5>2. m + (k - (m - 1)) = k + 1
          BY <2>1, <1>1
        <5> QED
          BY <5>1, <5>2, <4>1, <4>3, <2>1, <1>1
      <4> QED
        BY <4>2, <4>3
    <3> QED
      BY <3>1, <3>3, <2>1, <2>3, <2>4, <1>1 DEF w
  <2>6. /\ t \in Seq(S) /\ DOMAIN t = 1 .. n /\ t[n] = i
        /\ \A k \in 1 .. (n - 1) : t[k] = IF k < m THEN q[k] ELSE q[k + 1]
    <3> DEFINE w == u \o v
    <3> HIDE DEF w
    <3>1. w \in Seq(S) /\ Len(w) = n - 1 /\ t = Append(w, i)
      BY <2>2, <2>5 DEF w
    <3>2. /\ t \in Seq(S) /\ DOMAIN t = 1 .. n /\ t[n] = i
          /\ \A k \in 1 .. (n - 1) : t[k] = w[k]
      BY <3>1, <1>1, AppendProperties
    <3> QED
      BY <3>2, <2>5 DEF w
  <2>7. {t[k] : k \in DOMAIN t} = {q[k] : k \in DOMAIN q} \cup {i}
    <3>1. ASSUME NEW k \in 1 .. n
          PROVE  t[k] \in {q[l] : l \in 1 .. n} \cup {i}
      BY <2>1, <2>6, <1>1
    <3>2. ASSUME NEW k \in 1 .. n
          PROVE  q[k] \in {t[l] : l \in 1 .. n}
      <4>1. CASE k = m
        BY <4>1, <2>1, <2>6, <1>1
      <4>2. CASE k < m
        BY <4>2, <2>1, <2>6, <1>1
      <4>3. CASE m < k
        <5>1. k - 1 \in 1 .. (n - 1) /\ ~(k - 1 < m) /\ k - 1 + 1 = k
          BY <4>3, <2>1, <1>1
        <5> QED
          BY <5>1, <2>6, <1>1
      <4> QED
        BY <4>1, <4>2, <4>3, <2>1, <1>1
    <3>3. i \in {t[l] : l \in 1 .. n}
      BY <2>1, <2>6, <1>1
    <3>4. {t[k] : k \in 1 .. n} = {q[k] : k \in 1 .. n} \cup {i}
      BY <3>1, <3>2, <3>3, Zenon, SMTT(30)
    <3> QED
      BY <3>4, <1>1, <2>6, Zenon
  <2>8. \A j, k \in DOMAIN t : t[j] = t[k] => j = k
    <3> DEFINE p(k) == IF k < m THEN k ELSE k + 1
    <3>1. \A k \in 1 .. (n - 1) : p(k) \in 1 .. n /\ t[k] = q[p(k)] /\ p(k) # m
      BY <2>1, <2>6, <1>1
    <3>2. \A k \in 1 .. (n - 1) : t[k] # i
      BY <1>0, <3>1, <2>1, <1>1
    <3>3. ASSUME NEW j \in 1 .. (n - 1), NEW k \in 1 .. (n - 1), t[j] = t[k]
          PROVE  j = k
      <4>1. p(j) = p(k)
        BY <1>0, <3>1, <3>3, <1>1
      <4> QED
        BY <4>1, <2>1, <1>1
    <3> HIDE DEF p
    <3> QED
      BY <3>2, <3>3, <2>6, <2>1, <1>1
  <2> QED
    BY <2>6, <2>7, <2>8, Zenon
<1> QED
  BY <1>2, <1>3, Zenon

\* The greater and the smaller of two numbers.
LEMMA OfTwo ==
    ASSUME NEW a \in Int, NEW b \in Int
    PROVE  /\ Min({a, b}) = IF a <= b THEN a ELSE b
           /\ Max({a, b}) = IF a >= b THEN a ELSE b
<1>1. \E x \in {a, b} : \A y \in {a, b} : x <= y
  OBVIOUS
<1>2. \E x \in {a, b} : \A y \in {a, b} : x >= y
  OBVIOUS
<1>3. Min({a, b}) \in {a, b} /\ \A y \in {a, b} : Min({a, b}) <= y
  BY <1>1 DEF Min
<1>4. Max({a, b}) \in {a, b} /\ \A y \in {a, b} : Max({a, b}) >= y
  BY <1>2 DEF Max
<1> QED
  BY <1>3, <1>4

\* What an entry may say of itself: a confidence above zero is in a stride,
\* and only a trained entry has a notification armed.
Sound(entry) ==
    /\ entry.confidence > 0 => entry.strided
    /\ entry.candidatePending => Trained(entry)

\* observe() of a PC the table holds: the entry stays sound, keeps its PC,
\* and arms its notification exactly when it becomes trained.
LEMMA HitProperties ==
    ASSUME NEW e \in Entry, Sound(e), NEW stride \in {"same", "other", "zero"},
           stride = "same" => e.strided,
           NEW n, n = Rearm(e, Trains(e, stride))
    PROVE  /\ n \in Entry /\ n.pc = e.pc /\ Sound(n)
           /\ Trained(e) /\ Trained(n) => (n.candidatePending <=> e.candidatePending)
           /\ ~Trained(e) /\ Trained(n) => n.candidatePending
<1> DEFINE up   == Min({e.confidence + 1, MaxConfidence})
           down == Max({e.confidence - 1, 0})
<1>1. e.confidence \in 0 .. 3 /\ e.strided \in BOOLEAN /\ e.candidatePending \in BOOLEAN
  BY DEF Entry, MaxConfidence
<1>2. /\ up = IF e.confidence + 1 <= 3 THEN e.confidence + 1 ELSE 3
      /\ down = IF e.confidence - 1 >= 0 THEN e.confidence - 1 ELSE 0
  <2>1. e.confidence + 1 \in Int /\ e.confidence - 1 \in Int /\ 3 \in Int /\ 0 \in Int
    BY <1>1
  <2> QED
    BY <2>1, OfTwo, Zenon DEF MaxConfidence
<1> HIDE DEF up, down
<1> DEFINE m == Trains(e, stride)
<1>3. /\ m \in Entry /\ m.pc = e.pc /\ m.candidatePending = e.candidatePending
      /\ m.confidence > 0 => m.strided
  <2>1. CASE stride = "same"
    <3>1. m = [e EXCEPT !.confidence = up]
      BY <2>1 DEF Trains, up
    <3> HIDE DEF m
    <3> QED
      BY <3>1, <2>1, <1>1, <1>2 DEF Entry, MaxConfidence
  <2>2. CASE stride # "same"
    <3> DEFINE s == IF down = 0 THEN stride = "other" ELSE e.strided
               half == [e EXCEPT !.confidence = down]
    <3>1. m = [half EXCEPT !.strided = s]
      <4>1. m = [e EXCEPT !.confidence = down,
                          !.strided = IF down = 0 THEN stride = "other" ELSE @]
        BY <2>2 DEF Trains, down
      <4> QED
        BY <4>1
    <3>2. s \in BOOLEAN
      BY <1>1, Zenon
    <3>3. down > 0 => s
      BY <1>1, <1>2 DEF Sound
    <3>4. half \in Entry /\ half.confidence = down /\ half.pc = e.pc
            /\ half.candidatePending = e.candidatePending
      BY <1>1, <1>2 DEF Entry, MaxConfidence
    <3> HIDE DEF half, s, m
    <3> QED
      BY <3>1, <3>2, <3>3, <3>4, <1>1, <1>2 DEF Entry
  <2> QED
    BY <2>1, <2>2
<1> HIDE DEF m
<1> DEFINE armed == IF m.confidence < 2 THEN FALSE
                    ELSE m.candidatePending \/ e.confidence < 2
<1>4. n = [m EXCEPT !.candidatePending = armed]
  BY DEF Rearm, CandidateConfidence, m
<1>5. armed \in BOOLEAN
  BY <1>3, <1>1, Zenon
<1> HIDE DEF armed
<1>6. /\ n \in Entry /\ n.pc = e.pc /\ n.confidence = m.confidence
      /\ n.strided = m.strided /\ n.candidatePending = armed
  BY <1>3, <1>4, <1>5 DEF Entry
<1>7. Trained(n) <=> n.confidence >= 2
  BY <1>3, <1>6 DEF Trained, Entry, CandidateConfidence, MaxConfidence
<1>8. Trained(e) <=> e.confidence >= 2
  BY <1>1 DEF Trained, Sound, CandidateConfidence
<1> QED
  BY <1>1, <1>3, <1>6, <1>7, <1>8 DEF Sound, Trained, armed, Entry, MaxConfidence

--------------------------------------------------------------------------------
(* The inductive invariant.                                                 *)

\* No two slots hold the same PC, and a slot without one holds nothing.
SlotsDiffer ==
    /\ \A i, j \in Slots : entries[i].pc = entries[j].pc /\ entries[i].pc # NoPC => i = j
    /\ \A i \in Slots : entries[i].pc = NoPC => entries[i] = Invalid

\* A slot whose bit is set holds a PC, and the last write to the slot is the
\* last write for that PC: slots are reused and PCs come back elsewhere, so
\* older writes may name the one without the other.
LastWriteAgrees ==
    \A i \in bits :
        /\ entries[i].pc # NoPC
        /\ \A k \in DOMAIN writes :
              writes[k].entry = i \/ writes[k].pc = entries[i].pc
              => \E l \in DOMAIN writes :
                    l >= k /\ writes[l].entry = i /\ writes[l].pc = entries[i].pc

\* The PC a notification names is still in the table.
ReplyIsHeld ==
    \A pc \in PCs : reply = Candidate(pc) => SlotsOf(pc) # {}

StrideInv ==
    /\ TypeOK
    /\ ConfidenceHasStride
    /\ SlotsDiffer
    /\ LastWriteAgrees
    /\ ReplyIsHeld

--------------------------------------------------------------------------------
(* The table per PC that a table of slots stands for.                       *)

\* The slots that are trained, and those with a notification pending.
TrainedIn(f) == {j \in Slots : Trained(f[j])}
PendingIn(f) == {j \in Slots : f[j].candidatePending}

\* The PCs some slots hold.
Names(f, I) == {f[i].pc : i \in I}

\* The writes, by PC.
Log(w) == [k \in DOMAIN w |-> [sequence |-> w[k].sequence, pc |-> w[k].pc]]

\* A table per PC, from its fields.
PerPC(a, b, c, w) == [trained |-> a, pending |-> b, seen |-> c, writes |-> w]

LEMMA TableForm ==
    Table = PerPC(Names(entries, TrainedIn(entries)), Names(entries, PendingIn(entries)),
                  Names(entries, bits), Log(writes))
BY Zenon DEF Table, Names, TrainedIn, PendingIn, Log, PerPC

LEMMA TableFormNext ==
    Table' = PerPC(Names(entries', TrainedIn(entries')), Names(entries', PendingIn(entries')),
                   Names(entries', bits'), Log(writes'))
BY Zenon DEF Table, Names, TrainedIn, PendingIn, Log, PerPC

\* A table with one field replaced.
LEMMA TableUpdates ==
    ASSUME NEW a, NEW b, NEW c, NEW w, NEW x, NEW t,
           t = [trained |-> a, pending |-> b, seen |-> c, writes |-> w]
    PROVE  /\ t.trained = a /\ t.pending = b /\ t.seen = c /\ t.writes = w
           /\ [t EXCEPT !.trained = x] = [trained |-> x, pending |-> b, seen |-> c, writes |-> w]
           /\ [t EXCEPT !.pending = x] = [trained |-> a, pending |-> x, seen |-> c, writes |-> w]
           /\ [t EXCEPT !.seen = x] = [trained |-> a, pending |-> b, seen |-> x, writes |-> w]
           /\ [t EXCEPT !.writes = x] = [trained |-> a, pending |-> b, seen |-> c, writes |-> x]
OBVIOUS

\* What the methods of the table per PC return, field by field.
LEMMA TrainForm ==
    ASSUME NEW a, NEW b, NEW c, NEW w, NEW pc
    PROVE  Abstract!Train(PerPC(a, b, c, w), pc) = PerPC(a \cup {pc}, b \cup {pc}, c, w)
<1> DEFINE t == PerPC(a, b, c, w)
<1>0. t = [trained |-> a, pending |-> b, seen |-> c, writes |-> w]
  BY DEF PerPC
<1> HIDE DEF t
<1> DEFINE h == [t EXCEPT !.trained = a \cup {pc}]
<1>1. Abstract!Train(t, pc) = [h EXCEPT !.pending = b \cup {pc}]
  BY <1>0, TableUpdates, Zenon DEF Abstract!Train
<1>2. h = [trained |-> a \cup {pc}, pending |-> b, seen |-> c, writes |-> w]
  BY <1>0
<1> HIDE DEF h
<1> QED
  BY <1>1, <1>2, TableUpdates, Zenon DEF PerPC, t

LEMMA UntrainForm ==
    ASSUME NEW a, NEW b, NEW c, NEW w, NEW pc
    PROVE  Abstract!Untrain(PerPC(a, b, c, w), pc) = PerPC(a \ {pc}, b \ {pc}, c, w)
<1> DEFINE t == PerPC(a, b, c, w)
<1>0. t = [trained |-> a, pending |-> b, seen |-> c, writes |-> w]
  BY DEF PerPC
<1> HIDE DEF t
<1> DEFINE h == [t EXCEPT !.trained = a \ {pc}]
<1>1. Abstract!Untrain(t, pc) = [h EXCEPT !.pending = b \ {pc}]
  BY <1>0, TableUpdates, Zenon DEF Abstract!Untrain
<1>2. h = [trained |-> a \ {pc}, pending |-> b, seen |-> c, writes |-> w]
  BY <1>0
<1> HIDE DEF h
<1> QED
  BY <1>1, <1>2, TableUpdates, Zenon DEF PerPC, t

LEMMA EvictForm ==
    ASSUME NEW a, NEW b, NEW c, NEW w, NEW pc
    PROVE  Abstract!Evict(PerPC(a, b, c, w), pc) = PerPC(a \ {pc}, b \ {pc}, c \ {pc}, w)
<1> DEFINE h == Abstract!Untrain(PerPC(a, b, c, w), pc)
<1>1. Abstract!Evict(PerPC(a, b, c, w), pc) = [h EXCEPT !.seen = h.seen \ {pc}]
  BY Zenon DEF Abstract!Evict
<1> HIDE DEF h
<1>2. h = [trained |-> a \ {pc}, pending |-> b \ {pc}, seen |-> c, writes |-> w]
  <2>1. h = PerPC(a \ {pc}, b \ {pc}, c, w)
    BY UntrainForm DEF h
  <2> QED
    BY <2>1, Zenon DEF PerPC
<1> QED
  BY <1>1, <1>2, TableUpdates, Zenon DEF PerPC

LEMMA BeginForm ==
    ASSUME NEW a, NEW b, NEW c, NEW w, NEW pc
    PROVE  Abstract!BeginDiscovery(PerPC(a, b, c, w), pc) = PerPC(a, b, {pc}, <<>>)
<1> DEFINE t == PerPC(a, b, c, w)
<1>0. t = [trained |-> a, pending |-> b, seen |-> c, writes |-> w]
  BY DEF PerPC
<1> HIDE DEF t
<1> DEFINE h == [t EXCEPT !.seen = {pc}]
<1>1. Abstract!BeginDiscovery(t, pc) = [h EXCEPT !.writes = <<>>]
  BY <1>0, TableUpdates, Zenon DEF Abstract!BeginDiscovery
<1>2. h = [trained |-> a, pending |-> b, seen |-> {pc}, writes |-> w]
  BY <1>0
<1> HIDE DEF h
<1> QED
  BY <1>1, <1>2, TableUpdates, Zenon DEF PerPC, t

\* The table per PC with one more PC seen and the write that undoes it.
Marked(a, b, c, w, pc, seq) ==
    PerPC(a, b, c \cup {pc}, Append(w, [sequence |-> seq, pc |-> pc]))

LEMMA SeenForm ==
    ASSUME NEW a, NEW b, NEW c, NEW w, NEW pc, NEW window, NEW seq,
           pc \in a, pc \notin c, window
    PROVE  Abstract!TableObserveDispatch(PerPC(a, b, c, w), pc, window, seq)
           = Marked(a, b, c, w, pc, seq)
<1> DEFINE t == PerPC(a, b, c, w)
           longer == Append(w, [sequence |-> seq, pc |-> pc])
<1>0. t = [trained |-> a, pending |-> b, seen |-> c, writes |-> w]
  BY DEF PerPC
<1> HIDE DEF t
<1> DEFINE h == [t EXCEPT !.seen = c \cup {pc}]
<1>1. Abstract!TableObserveDispatch(t, pc, window, seq) = [h EXCEPT !.writes = longer]
  <2>1. pc \in t.trained /\ pc \notin t.seen /\ t.seen = c /\ t.writes = w
    BY <1>0
  <2> QED
    BY <2>1, Zenon DEF Abstract!TableObserveDispatch
<1> HIDE DEF longer
<1>2. h = [trained |-> a, pending |-> b, seen |-> c \cup {pc}, writes |-> w]
  BY <1>0
<1> HIDE DEF h
<1> QED
  BY <1>1, <1>2, TableUpdates, Zenon DEF Marked, PerPC, t, longer

LEMMA TakenForm ==
    ASSUME NEW a, NEW b, NEW c, NEW w, NEW pc, NEW window, NEW seq, pc \in a, ~window
    PROVE  Abstract!TableObserveDispatch(PerPC(a, b, c, w), pc, window, seq)
           = PerPC(a, b \ {pc}, c, w)
<1> DEFINE t == PerPC(a, b, c, w)
<1>0. t = [trained |-> a, pending |-> b, seen |-> c, writes |-> w]
  BY DEF PerPC
<1> HIDE DEF t
<1>1. Abstract!TableObserveDispatch(t, pc, window, seq) = [t EXCEPT !.pending = b \ {pc}]
  <2>1. pc \in t.trained /\ t.pending = b
    BY <1>0
  <2> QED
    BY <2>1, Zenon DEF Abstract!TableObserveDispatch
<1> QED
  BY <1>0, <1>1, TableUpdates, Zenon DEF PerPC, t

\* The table per PC with all but the first m writes undone.
Undone(a, b, c, w, m) ==
    PerPC(a, b, c \ {w[k].pc : k \in (m + 1) .. Len(w)}, SubSeq(w, 1, m))

\* The writes a squash may keep.
Early(w, seq) == {0} \cup {k \in DOMAIN w : w[k].sequence < seq}

LEMMA SquashForm ==
    ASSUME NEW a, NEW b, NEW c, NEW w, NEW seq, NEW m, m = Max(Early(w, seq))
    PROVE  Abstract!SquashDiscovery(PerPC(a, b, c, w), seq) = Undone(a, b, c, w, m)
<1> DEFINE t == PerPC(a, b, c, w)
           fewer == c \ {w[k].pc : k \in (m + 1) .. Len(w)}
           shorter == SubSeq(w, 1, m)
<1>0. t = [trained |-> a, pending |-> b, seen |-> c, writes |-> w]
  BY DEF PerPC
<1> HIDE DEF t
<1>1. t.seen = c /\ t.writes = w
  BY <1>0
<1>2. Abstract!WritesKept(t, seq) = m
  <2>1. Abstract!WritesKept(t, seq) = Abstract!Max(Early(w, seq))
    BY <1>1, Zenon DEF Abstract!WritesKept, Early
  <2> QED
    BY <2>1, Zenon DEF Abstract!Max, Max
<1> DEFINE h == [t EXCEPT !.seen = fewer]
<1>3. Abstract!SquashDiscovery(t, seq) = [h EXCEPT !.writes = shorter]
  BY <1>1, <1>2, Zenon DEF Abstract!SquashDiscovery
<1> HIDE DEF fewer, shorter
<1>4. h = [trained |-> a, pending |-> b, seen |-> fewer, writes |-> w]
  BY <1>0
<1> HIDE DEF h
<1> QED
  BY <1>3, <1>4, TableUpdates, Zenon DEF Undone, PerPC, t, fewer, shorter

LEMMA EndForm ==
    ASSUME NEW a, NEW b, NEW c, NEW w
    PROVE  Abstract!EndDiscovery(PerPC(a, b, c, w)) = PerPC(a, a, {}, <<>>)
<1> DEFINE t == PerPC(a, b, c, w)
<1>0. t = [trained |-> a, pending |-> b, seen |-> c, writes |-> w]
  BY DEF PerPC
<1> HIDE DEF t
<1> DEFINE empty == <<>>
           h == [t EXCEPT !.seen = {}]
           g == [h EXCEPT !.writes = empty]
<1>1. Abstract!EndDiscovery(t) = [g EXCEPT !.pending = a]
  BY <1>0, TableUpdates, Zenon DEF Abstract!EndDiscovery
<1> HIDE DEF empty
<1>2. h = [trained |-> a, pending |-> b, seen |-> {}, writes |-> w]
  BY <1>0
<1> HIDE DEF h
<1>3. g = [trained |-> a, pending |-> b, seen |-> {}, writes |-> empty]
  BY <1>2
<1> HIDE DEF g
<1> QED
  BY <1>1, <1>3, TableUpdates, Zenon DEF PerPC, t, empty

\* The writes, and the writes by PC, keep their order.
Write == [sequence : Nat, entry : Slots, pc : PCs]

LEMMA LogProperties ==
    ASSUME NEW w \in Seq(Write)
    PROVE  /\ Log(w) \in Seq(DiscoverySeenWrite) /\ Len(Log(w)) = Len(w)
           /\ Len(w) \in Nat /\ DOMAIN w = 1 .. Len(w) /\ DOMAIN Log(w) = 1 .. Len(w)
           /\ \A k \in 1 .. Len(w) : Log(w)[k] = [sequence |-> w[k].sequence, pc |-> w[k].pc]
<1> DEFINE n == Len(w)
           d == Log(w)
<1>1. n \in Nat /\ DOMAIN w = 1 .. n /\ \A k \in 1 .. n : w[k] \in Write
  <2> HIDE DEF Write
  <2> QED
    BY LenProperties, ElementOfSeq
<1>2. \A k \in 1 .. n : [sequence |-> w[k].sequence, pc |-> w[k].pc] \in DiscoverySeenWrite
  BY <1>1 DEF Write, DiscoverySeenWrite
<1>3. /\ d \in [1 .. n -> DiscoverySeenWrite]
      /\ \A k \in 1 .. n : d[k] = [sequence |-> w[k].sequence, pc |-> w[k].pc]
  <2> HIDE DEF n
  <2> QED
    BY <1>1, <1>2 DEF Log
<1> HIDE DEF d, n
<1>4. d \in Seq(DiscoverySeenWrite) /\ Len(d) = n
  BY <1>1, <1>3, IsASeq
<1> QED
  BY <1>1, <1>3, <1>4 DEF d, n

LEMMA LogAppends ==
    ASSUME NEW w \in Seq(Write), NEW e \in Write
    PROVE  Log(Append(w, e)) = Append(Log(w), [sequence |-> e.sequence, pc |-> e.pc])
<1> DEFINE n == Len(w)
           r == [sequence |-> e.sequence, pc |-> e.pc]
           w2 == Append(w, e)
           x == Log(w2)
           y == Append(Log(w), r)
<1>1. r \in DiscoverySeenWrite
  BY DEF Write, DiscoverySeenWrite
<1>2. /\ w2 \in Seq(Write) /\ Len(w2) = n + 1 /\ w2[n + 1] = e
      /\ n \in Nat /\ \A k \in 1 .. n : w2[k] = w[k]
  <2> HIDE DEF Write
  <2> QED
    BY AppendProperties, LenProperties
<1>3. /\ x \in Seq(DiscoverySeenWrite) /\ Len(x) = n + 1
      /\ \A k \in 1 .. (n + 1) : x[k] = [sequence |-> w2[k].sequence, pc |-> w2[k].pc]
  <2> HIDE DEF w2, n
  <2> QED
    BY <1>2, LogProperties
<1>4. /\ y \in Seq(DiscoverySeenWrite) /\ Len(y) = n + 1 /\ y[n + 1] = r
      /\ \A k \in 1 .. n : y[k] = [sequence |-> w[k].sequence, pc |-> w[k].pc]
  <2> HIDE DEF r
  <2>1. /\ Log(w) \in Seq(DiscoverySeenWrite) /\ Len(Log(w)) = n
        /\ \A k \in 1 .. n : Log(w)[k] = [sequence |-> w[k].sequence, pc |-> w[k].pc]
    BY LogProperties
  <2>2. /\ y \in Seq(DiscoverySeenWrite) /\ Len(y) = n + 1 /\ y[n + 1] = r
        /\ \A k \in 1 .. n : y[k] = Log(w)[k]
    BY <1>1, <1>2, <2>1, AppendProperties
  <2> QED
    BY <2>1, <2>2
<1> HIDE DEF w2, x, y, n
<1>5. \A k \in 1 .. (n + 1) : x[k] = y[k]
  BY <1>2, <1>3, <1>4
<1>6. x = y
  BY <1>2, <1>3, <1>4, <1>5, SeqEqual
<1> QED
  BY <1>6 DEF x, y, w2

LEMMA LogPrefix ==
    ASSUME NEW w \in Seq(Write), NEW m \in 0 .. Len(w)
    PROVE  Log(SubSeq(w, 1, m)) = SubSeq(Log(w), 1, m)
<1> DEFINE w2 == SubSeq(w, 1, m)
           x == Log(w2)
           y == SubSeq(Log(w), 1, m)
<1>1. w2 \in Seq(Write) /\ Len(w2) = m /\ \A k \in 1 .. m : w2[k] = w[k]
  <2> HIDE DEF Write
  <2> QED
    BY PrefixProperties
<1>2. /\ Log(w) \in Seq(DiscoverySeenWrite) /\ Len(Log(w)) = Len(w) /\ Len(w) \in Nat
      /\ \A k \in 1 .. Len(w) : Log(w)[k] = [sequence |-> w[k].sequence, pc |-> w[k].pc]
  BY LogProperties
<1>3. /\ x \in Seq(DiscoverySeenWrite) /\ Len(x) = m
      /\ \A k \in 1 .. m : x[k] = [sequence |-> w2[k].sequence, pc |-> w2[k].pc]
  <2> HIDE DEF w2
  <2> QED
    BY <1>1, LogProperties
<1>4. y \in Seq(DiscoverySeenWrite) /\ Len(y) = m /\ \A k \in 1 .. m : y[k] = Log(w)[k]
  BY <1>2, PrefixProperties
<1> HIDE DEF w2, x, y
<1>5. \A k \in 1 .. m : x[k] = y[k]
  BY <1>1, <1>2, <1>3, <1>4
<1>6. x = y
  BY <1>3, <1>4, <1>5, SeqEqual
<1> QED
  BY <1>6 DEF x, y, w2

LEMMA LogEmpty == Log(<<>>) = <<>>
BY DEF Log

\* Two tables hold the same PCs in some slots, and a slot shares its PC with
\* none of them.
SameNames(f, g, I) == \A i \in I : g[i].pc = f[i].pc
Alone(f, I, v) == \A i \in I : f[i].pc = f[v].pc => i = v

--------------------------------------------------------------------------------
(* Every step keeps the invariant and is a step of the table per PC.        *)

\* The slots the invariant lets an operation talk about: a trained, a pending
\* or a seen one holds a PC, and no other slot holds the same.
LEMMA SlotFacts ==
    ASSUME StrideInv
    PROVE  /\ \A i \in Slots : entries[i] \in Entry /\ Sound(entries[i])
           /\ \A i \in TrainedIn(entries) \cup PendingIn(entries) \cup bits :
                 i \in Slots /\ entries[i].pc # NoPC
           /\ \A i \in TrainedIn(entries) \cup PendingIn(entries) \cup bits, j \in Slots :
                 entries[i].pc = entries[j].pc => i = j
           /\ TrainedIn(entries) \in SUBSET Slots /\ PendingIn(entries) \in SUBSET Slots
           /\ bits \in SUBSET Slots
<1>1. \A i \in Slots : entries[i] \in Entry /\ Sound(entries[i])
  BY DEF StrideInv, TypeOK, ConfidenceHasStride, Sound
<1>2. ~Trained(Invalid) /\ ~Invalid.candidatePending
  BY DEF Trained, Invalid, CandidateConfidence
<1>3. \A i \in TrainedIn(entries) \cup PendingIn(entries) \cup bits :
         i \in Slots /\ entries[i].pc # NoPC
  BY <1>2 DEF StrideInv, TypeOK, SlotsDiffer, LastWriteAgrees, TrainedIn, PendingIn
<1>4. \A i \in TrainedIn(entries) \cup PendingIn(entries) \cup bits, j \in Slots :
         entries[i].pc = entries[j].pc => i = j
  BY <1>3, Zenon DEF StrideInv, SlotsDiffer
<1> QED
  BY <1>1, <1>3, <1>4 DEF StrideInv, TypeOK, TrainedIn, PendingIn

\* The slot a missing PC takes is a slot of the table.
LEMMA VictimIsSlot ==
    ASSUME StrideInv
    PROVE  Victim \in Slots
<1>1. CASE SlotsOf(NoPC) # {}
  <2>1. SlotsOf(NoPC) \in SUBSET Nat /\ SlotsOf(NoPC) \in SUBSET Slots
    BY NumEntriesAssumption DEF SlotsOf, Slots
  <2>2. Min(SlotsOf(NoPC)) \in SlotsOf(NoPC)
    BY <1>1, <2>1, MinProperties, Zenon
  <2> QED
    BY <1>1, <2>1, <2>2 DEF Victim
<1>2. CASE SlotsOf(NoPC) = {}
  <2>1. 1 \in Slots
    BY NumEntriesAssumption DEF Slots
  <2>2. 1 \in {lru[k] : k \in DOMAIN lru}
    BY <1>2, <2>1 DEF StrideInv, TypeOK
  <2>3. lru \in Seq(Slots) /\ lru # <<>>
    BY <2>2 DEF StrideInv, TypeOK
  <2>4. Head(lru) \in Slots
    BY <2>3, HeadTailProperties
  <2> QED
    BY <1>2, <2>4 DEF Victim
<1> QED
  BY <1>1, <1>2

\* Observing a slot leaves an order that lists the valid slots and this one.
LEMMA TouchProperties ==
    ASSUME StrideInv, NEW v \in Slots
    PROVE  /\ MovedLast(lru, v) \in Seq(Slots) /\ Once(MovedLast(lru, v))
           /\ Listed(MovedLast(lru, v)) = (Slots \ SlotsOf(NoPC)) \cup {v}
<1>1. lru \in Seq(Slots) /\ Once(lru)
  BY DEF StrideInv, TypeOK, Once
<1>2. /\ MovedLast(lru, v) \in Seq(Slots)
      /\ Listed(MovedLast(lru, v)) = Listed(lru) \cup {v}
      /\ Once(MovedLast(lru, v))
  BY <1>1, MovedLastProperties, Zenon
<1>3. Listed(lru) = Slots \ SlotsOf(NoPC)
  BY DEF StrideInv, TypeOK, Listed
<1> QED
  BY <1>2, <1>3

\* observe() of a PC the table does not hold.
LEMMA MissKeeps ==
    ASSUME StrideInv, NEW pc \in PCs, ObserveMiss(pc)
    PROVE  StrideInv' /\ Abstract!Observe(pc)
<1> DEFINE v == Victim
           new == [Invalid EXCEPT !.pc = pc]
<1>1. /\ \A i \in Slots : entries[i].pc # pc
      /\ bits' = bits \ {v} /\ entries' = [entries EXCEPT ![v] = new]
      /\ lru' = MovedLast(lru, v) /\ reply' = None
      /\ writes' = writes /\ nextSeq' = nextSeq
  BY DEF ObserveMiss, SlotsOf, Touch
<1>2. v \in Slots
  BY VictimIsSlot
<1>3. new \in Entry /\ new.pc = pc /\ ~new.strided /\ new.confidence = 0
      /\ ~new.candidatePending
  <2>1. Invalid = [pc |-> NoPC, strided |-> FALSE, confidence |-> 0,
                   candidatePending |-> FALSE]
    BY DEF Invalid
  <2>2. Invalid \in Entry
    BY <2>1 DEF Entry, MaxConfidence
  <2> QED
    BY <2>1, <2>2, Zenon DEF Entry
<1> HIDE DEF v, new
<1>4. new \in Entry /\ new.pc = pc /\ Sound(new) /\ ~Trained(new) /\ ~new.candidatePending
      /\ pc # NoPC
  BY <1>3, NoPCAssumption DEF Sound, Trained, CandidateConfidence
<1>5. /\ entries' \in [Slots -> Entry]
      /\ \A i \in Slots : entries'[i] = IF i = v THEN new ELSE entries[i]
  BY <1>1, <1>2, <1>4 DEF StrideInv, TypeOK
<1>6. TypeOK'
  <2>1. /\ lru' \in Seq(Slots) /\ Once(lru')
        /\ Listed(lru') = (Slots \ SlotsOf(NoPC)) \cup {v}
    BY <1>1, <1>2, TouchProperties
  <2>2. SlotsOf(NoPC)' = SlotsOf(NoPC) \ {v}
    BY <1>4, <1>5 DEF SlotsOf
  <2>3. Listed(lru') = Slots \ SlotsOf(NoPC)'
    BY <1>2, <2>1, <2>2 DEF SlotsOf
  <2> QED
    BY <1>1, <1>5, <2>1, <2>3 DEF StrideInv, TypeOK, Listed, Once
<1>7. ConfidenceHasStride'
  BY <1>4, <1>5 DEF StrideInv, ConfidenceHasStride, Sound
<1>8. SlotsDiffer'
  BY <1>1, <1>4, <1>5, Zenon DEF StrideInv, SlotsDiffer
<1>9. LastWriteAgrees'
  BY <1>1, <1>5, SlotFacts DEF StrideInv, LastWriteAgrees
<1>10. ReplyIsHeld'
  BY <1>1 DEF ReplyIsHeld, None, Candidate
<1>11. Abstract!Observe(pc)
  <2> DEFINE old == entries[v].pc
  <2>1. /\ TrainedIn(entries') = TrainedIn(entries) \ {v}
        /\ PendingIn(entries') = PendingIn(entries) \ {v}
    BY <1>4, <1>5 DEF TrainedIn, PendingIn
  <2>2. \A i \in Slots \ {v} : entries'[i].pc = entries[i].pc
    BY <1>5
  <2>3. /\ Names(entries', TrainedIn(entries')) = Names(entries, TrainedIn(entries)) \ {old}
        /\ Names(entries', PendingIn(entries')) = Names(entries, PendingIn(entries)) \ {old}
        /\ Names(entries', bits') = Names(entries, bits) \ {old}
    <3>1. ASSUME NEW I \in SUBSET Slots,
                 I \subseteq TrainedIn(entries) \cup PendingIn(entries) \cup bits
          PROVE  Names(entries', I \ {v}) = Names(entries, I) \ {old}
      <4>1. Alone(entries, I, v)
        <5>1. \A i \in I, j \in Slots : entries[i].pc = entries[j].pc => i = j
          BY <3>1, SlotFacts
        <5> QED
          BY <1>2, <5>1 DEF Alone
      <4>2. SameNames(entries, entries', I \ {v})
        BY <2>2 DEF SameNames
      <4> QED
        BY <4>1, <4>2 DEF Names, SameNames, Alone
    <3> QED
      BY <1>1, <2>1, <3>1, SlotFacts, Zenon
  <2>4. Table' = PerPC(Names(entries, TrainedIn(entries)) \ {old},
                       Names(entries, PendingIn(entries)) \ {old},
                       Names(entries, bits) \ {old}, Log(writes))
    BY <1>1, <2>3, Zenon DEF Table, Names, TrainedIn, PendingIn, Log, PerPC
  <2>5. CASE old = NoPC
    <3>1. /\ NoPC \notin Names(entries, TrainedIn(entries))
          /\ NoPC \notin Names(entries, PendingIn(entries))
          /\ NoPC \notin Names(entries, bits)
      BY SlotFacts DEF Names
    <3>2. Table' = Table
      <4>1. /\ Names(entries, TrainedIn(entries)) \ {old} = Names(entries, TrainedIn(entries))
            /\ Names(entries, PendingIn(entries)) \ {old} = Names(entries, PendingIn(entries))
            /\ Names(entries, bits) \ {old} = Names(entries, bits)
        BY <2>5, <3>1
      <4> QED
        BY <2>4, <4>1, TableForm, Zenon
    <3> QED
      BY <1>1, <3>2 DEF Abstract!Observe, Abstract!None, None
  <2>6. CASE old # NoPC
    <3>1. old \in PCs \ {pc}
      BY <1>1, <1>2, <2>6, SlotFacts DEF Entry
    <3>2. Table' = Abstract!Evict(Table, old)
      <4> DEFINE a == Names(entries, TrainedIn(entries))
                 b == Names(entries, PendingIn(entries))
                 c == Names(entries, bits)
                 w == Log(writes)
      <4>1. Table' = PerPC(a \ {old}, b \ {old}, c \ {old}, w) /\ Table = PerPC(a, b, c, w)
        BY <2>4, TableForm
      <4> HIDE DEF a, b, c, w, old
      <4>2. Abstract!Evict(PerPC(a, b, c, w), old) = PerPC(a \ {old}, b \ {old}, c \ {old}, w)
        BY EvictForm
      <4> QED
        BY <4>1, <4>2, Zenon
    <3> QED
      BY <1>1, <3>1, <3>2, Zenon DEF Abstract!Observe, Abstract!None, None
  <2> QED
    BY <2>5, <2>6
<1> QED
  BY <1>6, <1>7, <1>8, <1>9, <1>10, <1>11 DEF StrideInv

\* observe() of a PC the table holds.
LEMMA HitKeeps ==
    ASSUME StrideInv, NEW pc \in PCs, NEW stride \in {"same", "other", "zero"},
           ObserveHit(pc, stride)
    PROVE  StrideInv' /\ Abstract!Observe(pc)
<1>1. PICK v \in SlotsOf(pc) :
         /\ stride = "same" => entries[v].strided
         /\ entries' = [entries EXCEPT ![v] = Rearm(@, Trains(@, stride))]
         /\ lru' = MovedLast(lru, v)
  BY Zenon DEF ObserveHit, Touch
<1>2. bits' = bits /\ writes' = writes /\ nextSeq' = nextSeq /\ reply' = None
  BY DEF ObserveHit
<1>3. v \in Slots /\ entries[v].pc = pc /\ pc # NoPC
  BY NoPCAssumption DEF SlotsOf
<1> DEFINE old == entries[v]
           new == Rearm(old, Trains(old, stride))
<1>4. old \in Entry /\ Sound(old)
  BY <1>3, SlotFacts
<1>5. /\ new \in Entry /\ new.pc = pc /\ Sound(new)
      /\ Trained(old) /\ Trained(new) => (new.candidatePending <=> old.candidatePending)
      /\ ~Trained(old) /\ Trained(new) => new.candidatePending
  BY <1>1, <1>3, <1>4, HitProperties, ZenonT(30)
<1>6. /\ entries' \in [Slots -> Entry]
      /\ \A i \in Slots : entries'[i] = IF i = v THEN new ELSE entries[i]
  <2>1. entries' = [entries EXCEPT ![v] = new]
    BY <1>1
  <2> HIDE DEF new
  <2> QED
    BY <1>3, <1>5, <2>1 DEF StrideInv, TypeOK
<1> HIDE DEF new
<1>7. \A i \in Slots : entries'[i].pc = entries[i].pc
  BY <1>3, <1>5, <1>6
<1>8. TypeOK'
  <2>1. /\ lru' \in Seq(Slots) /\ Once(lru')
        /\ Listed(lru') = (Slots \ SlotsOf(NoPC)) \cup {v}
    BY <1>1, <1>3, TouchProperties
  <2>2. SlotsOf(NoPC)' = SlotsOf(NoPC)
    BY <1>7 DEF SlotsOf
  <2>3. Listed(lru') = Slots \ SlotsOf(NoPC)'
    BY <1>3, <2>1, <2>2 DEF SlotsOf
  <2> QED
    BY <1>2, <1>6, <2>1, <2>3 DEF StrideInv, TypeOK, Listed, Once
<1>9. ConfidenceHasStride'
  BY <1>5, <1>6 DEF StrideInv, ConfidenceHasStride, Sound
<1>10. SlotsDiffer'
  BY <1>3, <1>6, <1>7, Zenon, SMTT(30) DEF StrideInv, SlotsDiffer
<1>11. LastWriteAgrees'
  BY <1>2, <1>7, SlotFacts DEF StrideInv, LastWriteAgrees
<1>12. ReplyIsHeld'
  BY <1>2 DEF ReplyIsHeld, None, Candidate
<1>13. Abstract!Observe(pc)
  <2> DEFINE a == Names(entries, TrainedIn(entries))
             b == Names(entries, PendingIn(entries))
             c == Names(entries, bits)
             w == Log(writes)
             a2 == Names(entries', TrainedIn(entries'))
             b2 == Names(entries', PendingIn(entries'))
  <2>1. Table = PerPC(a, b, c, w)
    BY TableForm
  <2>2. Names(entries', bits') = c
    BY <1>2, <1>7, SlotFacts DEF Names
  <2>3. Table' = PerPC(a2, b2, c, w)
    BY <1>2, <2>2, Zenon DEF Table, Names, TrainedIn, PendingIn, Log, PerPC
  <2>4. /\ TrainedIn(entries') = IF Trained(new) THEN TrainedIn(entries) \cup {v}
                                 ELSE TrainedIn(entries) \ {v}
        /\ PendingIn(entries') = IF new.candidatePending THEN PendingIn(entries) \cup {v}
                                 ELSE PendingIn(entries) \ {v}
    BY <1>3, <1>6 DEF TrainedIn, PendingIn
  <2>5. /\ Alone(entries, TrainedIn(entries), v) /\ Alone(entries, PendingIn(entries), v)
        /\ TrainedIn(entries) \in SUBSET Slots /\ PendingIn(entries) \in SUBSET Slots
    BY <1>3, SlotFacts DEF Alone
  <2>6. /\ a2 = IF Trained(new) THEN a \cup {pc} ELSE a \ {pc}
        /\ b2 = IF new.candidatePending THEN b \cup {pc} ELSE b \ {pc}
    <3>1. ASSUME NEW I \in SUBSET Slots, Alone(entries, I, v)
          PROVE  /\ Names(entries', I \cup {v}) = Names(entries, I) \cup {pc}
                 /\ Names(entries', I \ {v}) = Names(entries, I) \ {pc}
      BY <1>3, <1>7, <3>1 DEF Names, Alone
    <3> QED
      BY <2>4, <2>5, <3>1, Zenon
  <2>7. (pc \in a <=> Trained(old)) /\ (pc \in b <=> old.candidatePending)
    BY <1>3, SlotFacts DEF Names, TrainedIn, PendingIn
  <2> HIDE DEF a, b, c, w, a2, b2
  <2>8. CASE Trained(new) /\ ~Trained(old)
    <3>1. a2 = a \cup {pc} /\ b2 = b \cup {pc}
      BY <1>5, <2>6, <2>8
    <3>2. Table' = Abstract!Train(Table, pc)
      BY <2>1, <2>3, <3>1, TrainForm
    <3>3. pc \notin Table.trained
      BY <2>1, <2>7, <2>8 DEF PerPC
    <3> QED
      BY <1>2, <3>2, <3>3 DEF Abstract!Observe, Abstract!None, None
  <2>9. CASE ~Trained(new) /\ Trained(old)
    <3>1. a2 = a \ {pc} /\ b2 = b \ {pc}
      BY <1>5, <2>6, <2>9 DEF Sound
    <3>2. Table' = Abstract!Untrain(Table, pc)
      BY <2>1, <2>3, <3>1, UntrainForm
    <3>3. pc \in Table.trained
      BY <2>1, <2>7, <2>9 DEF PerPC
    <3> QED
      BY <1>2, <3>2, <3>3 DEF Abstract!Observe, Abstract!None, None
  <2>10. CASE Trained(new) <=> Trained(old)
    <3>1. a2 = a /\ b2 = b
      BY <1>4, <1>5, <2>6, <2>7, <2>10 DEF Sound
    <3>2. Table' = Table
      BY <2>1, <2>3, <3>1
    <3> QED
      BY <1>2, <3>2 DEF Abstract!Observe, Abstract!None, None
  <2> QED
    BY <2>8, <2>9, <2>10
<1> QED
  BY <1>8, <1>9, <1>10, <1>11, <1>12, <1>13 DEF StrideInv

\* observeDispatch(): a slot's bit, once set, is reported with the PC the slot
\* holds; a notification is taken once.
LEMMA DispatchKeeps ==
    ASSUME StrideInv, NEW pc \in PCs, NEW window \in BOOLEAN,
           ObserveDispatch(pc, window)
    PROVE  StrideInv' /\ Abstract!ObserveDispatch(pc, window)
<1> DEFINE a == Names(entries, TrainedIn(entries))
           b == Names(entries, PendingIn(entries))
           c == Names(entries, bits)
           w == Log(writes)
<1>1. Table = PerPC(a, b, c, w)
  BY TableForm
<1>2. /\ nextSeq' = nextSeq + 1 /\ lru' = lru /\ nextSeq \in Nat
      /\ writes \in Seq([sequence : Nat, entry : Slots, pc : PCs])
  BY DEF ObserveDispatch, StrideInv, TypeOK
<1>3. CASE ~\E i \in SlotsOf(pc) : Trained(entries[i])
  <2>1. reply' = None /\ entries' = entries /\ bits' = bits /\ writes' = writes
    BY <1>3, Zenon, SMTT(30) DEF ObserveDispatch
  <2>2. StrideInv'
    BY <1>2, <2>1 DEF StrideInv, TypeOK, ConfidenceHasStride, SlotsDiffer,
         LastWriteAgrees, ReplyIsHeld, SlotsOf, None, Candidate
  <2>3. Table' = Table
    BY <2>1, Zenon DEF Table
  <2>4. pc \notin a
    BY <1>3 DEF Names, TrainedIn, SlotsOf
  <2>5. pc \notin Table.trained
    BY <1>1, <2>4 DEF PerPC
  <2> QED
    BY <1>2, <2>1, <2>2, <2>3, <2>5
       DEF Abstract!ObserveDispatch, Abstract!TableObserveDispatch,
           Abstract!ReportsCandidate, Abstract!None, None
<1>4. CASE \E i \in SlotsOf(pc) : Trained(entries[i])
  <2>1. PICK v \in SlotsOf(pc) :
           IF window THEN DispatchInWindow(v) ELSE DispatchOutside(v)
    BY <1>4 DEF ObserveDispatch
  <2>2. v \in Slots /\ entries[v].pc = pc /\ pc # NoPC
    BY NoPCAssumption DEF SlotsOf
  <2>3. Trained(entries[v])
    BY <1>4, <2>2 DEF StrideInv, SlotsDiffer, SlotsOf
  <2>4. Candidate(pc) = Abstract!Candidate(pc) /\ None = Abstract!None
    BY DEF Candidate, None, Abstract!Candidate, Abstract!None
  <2>5. /\ pc \in a /\ (pc \in b <=> entries[v].candidatePending) /\ (pc \in c <=> v \in bits)
    BY <2>2, <2>3, SlotFacts DEF Names, TrainedIn, PendingIn
  <2>6. /\ Table.trained = a /\ Table.pending = b /\ Table.seen = c /\ Table.writes = w
    BY <1>1 DEF PerPC
  <2>7. CASE window /\ v \in bits
    <3>1. reply' = Candidate(pc) /\ entries' = entries /\ bits' = bits /\ writes' = writes
      BY <2>1, <2>2, <2>7 DEF DispatchInWindow
    <3>2. \A p \in PCs : Candidate(pc) = Candidate(p) => p = pc
      BY DEF Candidate
    <3>3. SlotsOf(pc) # {}
      BY <2>2
    <3>4. ReplyIsHeld'
      BY <3>1, <3>2, <3>3 DEF ReplyIsHeld, SlotsOf
    <3>5. StrideInv'
      BY <1>2, <3>1, <3>4 DEF StrideInv, TypeOK, ConfidenceHasStride, SlotsDiffer,
           LastWriteAgrees, SlotsOf
    <3>6. Table' = Table
      BY <3>1, Zenon DEF Table
    <3> QED
      BY <1>2, <2>4, <2>5, <2>6, <2>7, <3>1, <3>5, <3>6, Zenon, SMTT(30)
         DEF Abstract!ObserveDispatch, Abstract!TableObserveDispatch,
             Abstract!ReportsCandidate
  <2>8. CASE window /\ v \notin bits
    <3> DEFINE write == [sequence |-> nextSeq, entry |-> v, pc |-> pc]
    <3>1. /\ reply' = None /\ entries' = entries /\ bits' = bits \cup {v}
          /\ writes' = Append(writes, write)
      BY <2>1, <2>2, <2>8 DEF DispatchInWindow
    <3>2. write \in [sequence : Nat, entry : Slots, pc : PCs]
      BY <1>2, <2>2
    <3> DEFINE n == Len(writes)
    <3>3. /\ n \in Nat /\ DOMAIN writes = 1 .. n
          /\ writes' \in Seq([sequence : Nat, entry : Slots, pc : PCs])
          /\ DOMAIN writes' = 1 .. (n + 1) /\ writes'[n + 1] = write
          /\ \A k \in 1 .. n : writes'[k] = writes[k]
      <4> DEFINE R == [sequence : Nat, entry : Slots, pc : PCs]
      <4> HIDE DEF R, write
      <4> QED
        BY <1>2, <3>1, <3>2, AppendProperties, LenProperties DEF R
    <3> HIDE DEF n
    <3>4. write.entry = v /\ write.pc = pc /\ write.sequence = nextSeq
      OBVIOUS
    <3> HIDE DEF write
    <3>5. LastWriteAgrees'
      <4> SUFFICES ASSUME NEW i \in bits'
                   PROVE  /\ entries'[i].pc # NoPC
                          /\ \A k \in DOMAIN writes' :
                                writes'[k].entry = i \/ writes'[k].pc = entries'[i].pc
                                => \E l \in DOMAIN writes' :
                                      /\ l >= k /\ writes'[l].entry = i
                                      /\ writes'[l].pc = entries'[i].pc
        BY Zenon DEF LastWriteAgrees
      <4>1. CASE i = v
        BY <2>2, <3>1, <3>3, <3>4, <4>1
      <4>2. CASE i # v
        <5>1. i \in bits /\ i \in Slots /\ entries[i].pc # NoPC
          BY <3>1, <4>2, SlotFacts
        <5>2. entries[i].pc # pc
          BY <2>2, <4>2, <5>1, SlotFacts
        <5>3. ASSUME NEW k \in DOMAIN writes',
                     writes'[k].entry = i \/ writes'[k].pc = entries[i].pc
              PROVE  \E l \in DOMAIN writes' :
                        l >= k /\ writes'[l].entry = i /\ writes'[l].pc = entries[i].pc
          <6>1. k # n + 1
            BY <3>3, <3>4, <4>2, <5>2, <5>3
          <6>2. k \in DOMAIN writes /\ writes'[k] = writes[k]
            BY <3>3, <6>1
          <6>3. PICK l \in DOMAIN writes :
                   l >= k /\ writes[l].entry = i /\ writes[l].pc = entries[i].pc
            BY <5>1, <5>3, <6>2 DEF StrideInv, LastWriteAgrees
          <6> QED
            BY <3>3, <6>3
        <5> QED
          BY <3>1, <5>1, <5>3
      <4> QED
        BY <4>1, <4>2
    <3>6. StrideInv'
      BY <1>2, <2>2, <3>1, <3>3, <3>5 DEF StrideInv, TypeOK, ConfidenceHasStride,
           SlotsDiffer, ReplyIsHeld, SlotsOf, None, Candidate
    <3>7. Names(entries', bits') = c \cup {pc}
      BY <2>2, <3>1 DEF Names
    <3>8. Log(writes') = Append(w, [sequence |-> nextSeq, pc |-> pc])
      <4>1. writes \in Seq(Write) /\ write \in Write
        BY <1>2, <3>2 DEF Write
      <4> QED
        BY <3>1, <3>4, <4>1, LogAppends
    <3>9. Table' = Marked(a, b, c, w, pc, nextSeq)
      BY <3>1, <3>7, <3>8, TableFormNext DEF Marked
    <3>10. Table' = Abstract!TableObserveDispatch(Table, pc, window, nextSeq)
      <4>1. pc \in a /\ pc \notin c /\ window
        BY <2>5, <2>8
      <4> HIDE DEF a, b, c, w
      <4>2. Abstract!TableObserveDispatch(PerPC(a, b, c, w), pc, window, nextSeq)
            = Marked(a, b, c, w, pc, nextSeq)
        BY <4>1, SeenForm, ZenonT(30)
      <4> QED
        BY <1>1, <3>9, <4>2, Zenon
    <3> QED
      BY <1>2, <2>4, <2>5, <2>6, <2>8, <3>1, <3>6, <3>10, Zenon, SMTT(30)
         DEF Abstract!ObserveDispatch, Abstract!ReportsCandidate
  <2>9. CASE ~window
    <3> DEFINE new == [entries[v] EXCEPT !.candidatePending = FALSE]
    <3>1. /\ reply' = IF entries[v].candidatePending THEN Candidate(pc) ELSE None
          /\ entries' = [entries EXCEPT ![v] = new] /\ bits' = bits /\ writes' = writes
      BY <2>1, <2>2, <2>9 DEF DispatchOutside
    <3>2. /\ new \in Entry /\ new.pc = pc /\ ~new.candidatePending
          /\ (Trained(new) <=> Trained(entries[v])) /\ Sound(new)
      <4> DEFINE old == entries[v]
      <4>1. old \in Entry /\ Sound(old) /\ old.pc = pc
        BY <2>2, SlotFacts
      <4> HIDE DEF old
      <4>2. /\ [old EXCEPT !.candidatePending = FALSE] \in Entry
            /\ [old EXCEPT !.candidatePending = FALSE].pc = old.pc
            /\ ~[old EXCEPT !.candidatePending = FALSE].candidatePending
            /\ [old EXCEPT !.candidatePending = FALSE].strided = old.strided
            /\ [old EXCEPT !.candidatePending = FALSE].confidence = old.confidence
        BY <4>1, Zenon DEF Entry
      <4> QED
        BY <4>1, <4>2 DEF old, Sound, Trained
    <3> HIDE DEF new
    <3>3. /\ entries' \in [Slots -> Entry]
          /\ \A i \in Slots : entries'[i] = IF i = v THEN new ELSE entries[i]
      BY <2>2, <3>1, <3>2 DEF StrideInv, TypeOK
    <3>4. \A i \in Slots : entries'[i].pc = entries[i].pc
      BY <2>2, <3>2, <3>3
    <3>5. \A p \in PCs \cup {NoPC} : SlotsOf(p)' = SlotsOf(p)
      BY <3>4 DEF SlotsOf
    <3>6. TypeOK'
      BY <1>2, <3>1, <3>3, <3>5 DEF StrideInv, TypeOK
    <3>7. ConfidenceHasStride'
      BY <3>2, <3>3 DEF StrideInv, ConfidenceHasStride, Sound
    <3>8. SlotsDiffer'
      BY <2>2, <3>3, <3>4, Zenon, SMTT(30) DEF StrideInv, SlotsDiffer
    <3>9. LastWriteAgrees'
      BY <3>1, <3>4, SlotFacts DEF StrideInv, LastWriteAgrees
    <3>10. ReplyIsHeld'
      <4>1. \A p \in PCs : reply' = Candidate(p) => p = pc
        BY <3>1 DEF Candidate, None
      <4> QED
        BY <2>1, <3>5, <4>1 DEF ReplyIsHeld
    <3>11. TrainedIn(entries') = TrainedIn(entries) /\ PendingIn(entries') = PendingIn(entries) \ {v}
      BY <2>2, <3>2, <3>3 DEF TrainedIn, PendingIn
    <3>12. /\ Names(entries', TrainedIn(entries')) = a
           /\ Names(entries', PendingIn(entries')) = b \ {pc}
           /\ Names(entries', bits') = c
      <4>1. \A i \in PendingIn(entries) : entries[i].pc = pc <=> i = v
        BY <2>2, SlotFacts
      <4>2. Names(entries', PendingIn(entries')) = b \ {pc}
        BY <3>4, <3>11, <4>1, SlotFacts DEF Names
      <4>3. Names(entries', TrainedIn(entries')) = a
        BY <3>4, <3>11, SlotFacts DEF Names
      <4>4. Names(entries', bits') = c
        BY <3>1, <3>4, SlotFacts DEF Names
      <4> QED
        BY <4>2, <4>3, <4>4
    <3>13. Table' = PerPC(a, b \ {pc}, c, w)
      BY <3>1, <3>12, TableFormNext
    <3>14. Table' = Abstract!TableObserveDispatch(Table, pc, window, nextSeq)
      <4>1. pc \in a /\ ~window
        BY <2>5, <2>9
      <4> HIDE DEF a, b, c, w
      <4>2. Abstract!TableObserveDispatch(PerPC(a, b, c, w), pc, window, nextSeq)
            = PerPC(a, b \ {pc}, c, w)
        BY <4>1, TakenForm
      <4> QED
        BY <1>1, <3>13, <4>1, <4>2, Zenon
    <3>15. reply' = IF Abstract!ReportsCandidate(Table, pc, window) THEN Abstract!Candidate(pc)
                                                                   ELSE Abstract!None
      BY <2>4, <2>5, <2>6, <2>9, <3>1, Zenon, SMTT(30) DEF Abstract!ReportsCandidate
    <3> QED
      BY <1>2, <3>6, <3>7, <3>8, <3>9, <3>10, <3>14, <3>15
         DEF StrideInv, Abstract!ObserveDispatch
  <2> QED
    BY <2>7, <2>8, <2>9
<1> QED
  BY <1>3, <1>4

\* beginDiscovery(): only the trigger, which the table still holds, is seen.
LEMMA BeginKeeps ==
    ASSUME StrideInv, NEW pc \in PCs, Begin(pc)
    PROVE  StrideInv' /\ Abstract!Begin(pc)
<1> DEFINE a == Names(entries, TrainedIn(entries))
           b == Names(entries, PendingIn(entries))
           c == Names(entries, bits)
           w == Log(writes)
<1>1. /\ reply = Candidate(pc) /\ reply' = None /\ bits' = SlotsOf(pc) /\ writes' = <<>>
      /\ entries' = entries /\ lru' = lru /\ nextSeq' = nextSeq
  BY DEF Begin
<1>2. SlotsOf(pc) # {} /\ SlotsOf(pc) \in SUBSET Slots /\ pc # NoPC
      /\ \A i \in SlotsOf(pc) : entries[i].pc = pc
  BY <1>1, NoPCAssumption DEF StrideInv, ReplyIsHeld, SlotsOf
<1>3. TypeOK'
  BY <1>1, <1>2 DEF StrideInv, TypeOK, SlotsOf
<1>4. LastWriteAgrees'
  BY <1>1, <1>2 DEF LastWriteAgrees
<1>5. StrideInv'
  BY <1>1, <1>3, <1>4 DEF StrideInv, ConfidenceHasStride, SlotsDiffer, ReplyIsHeld, None,
       Candidate
<1>6. Names(entries', bits') = {pc}
  BY <1>1, <1>2 DEF Names
<1>7. Log(writes') = <<>>
  BY <1>1, LogEmpty
<1>8. Table = PerPC(a, b, c, w) /\ Table' = PerPC(a, b, {pc}, <<>>)
  BY <1>1, <1>6, <1>7, TableForm, TableFormNext
<1>9. Table' = Abstract!BeginDiscovery(Table, pc)
  <2> HIDE DEF a, b, c, w
  <2>1. Abstract!BeginDiscovery(PerPC(a, b, c, w), pc) = PerPC(a, b, {pc}, <<>>)
    BY BeginForm
  <2> QED
    BY <1>8, <2>1, Zenon
<1> QED
  BY <1>1, <1>5, <1>9 DEF Abstract!Begin, Abstract!None, Abstract!Candidate, None, Candidate

\* squashDiscovery(): the bits that are cleared by slot are those of the PCs
\* whose writes are undone.
LEMMA SquashKeeps ==
    ASSUME StrideInv, NEW seq \in Nat, Squash(seq)
    PROVE  StrideInv' /\ Abstract!Squash(seq)
<1> DEFINE a == Names(entries, TrainedIn(entries))
           b == Names(entries, PendingIn(entries))
           c == Names(entries, bits)
           w == Log(writes)
           n == Len(writes)
           m == Max(Early(writes, seq))
<1>1. /\ bits' = bits \ {writes[k].entry : k \in (m + 1) .. n} /\ writes' = SubSeq(writes, 1, m)
      /\ entries' = entries /\ lru' = lru /\ nextSeq' = nextSeq /\ reply' = None
  BY DEF Squash, Early
<1>2. writes \in Seq(Write)
  BY DEF StrideInv, TypeOK, Write
<1>3. /\ n \in Nat /\ DOMAIN writes = 1 .. n
      /\ w \in Seq(DiscoverySeenWrite) /\ Len(w) = n /\ DOMAIN w = 1 .. n
      /\ \A k \in 1 .. n : w[k] = [sequence |-> writes[k].sequence, pc |-> writes[k].pc]
  BY <1>2, LogProperties
<1>4. m \in 0 .. n
  <2>1. Early(writes, seq) \in SUBSET (0 .. n) /\ Early(writes, seq) # {}
    BY <1>3 DEF Early
  <2> QED
    BY <1>3, <2>1, MaxProperties, Zenon
<1>5. m = Max(Early(w, seq))
  <2>1. Early(w, seq) = Early(writes, seq)
    BY <1>3 DEF Early
  <2> QED
    BY <2>1, Zenon
<1> HIDE DEF m
<1>6. /\ writes' \in Seq(Write) /\ DOMAIN writes' = 1 .. m
      /\ \A k \in 1 .. m : writes'[k] = writes[k]
  <2> HIDE DEF Write
  <2> QED
    BY <1>1, <1>2, <1>4, PrefixProperties, Zenon, SMTT(30)
<1> HIDE DEF n
<1>7. ASSUME NEW i \in bits, NEW k \in DOMAIN writes,
             writes[k].entry = i \/ writes[k].pc = entries[i].pc
      PROVE  \E l \in DOMAIN writes :
                l >= k /\ writes[l].entry = i /\ writes[l].pc = entries[i].pc
  BY <1>7 DEF StrideInv, LastWriteAgrees
<1>8. LastWriteAgrees'
  <2> SUFFICES ASSUME NEW i \in bits'
               PROVE  /\ entries'[i].pc # NoPC
                      /\ \A k \in DOMAIN writes' :
                            writes'[k].entry = i \/ writes'[k].pc = entries'[i].pc
                            => \E l \in DOMAIN writes' :
                                  /\ l >= k /\ writes'[l].entry = i
                                  /\ writes'[l].pc = entries'[i].pc
    BY Zenon DEF LastWriteAgrees
  <2>1. i \in bits /\ entries[i].pc # NoPC
    BY <1>1, SlotFacts, Zenon, SMTT(30)
  <2>2. \A l \in DOMAIN writes : writes[l].entry = i => l \in 1 .. m
    BY <1>1, <1>3, <1>4
  <2>3. ASSUME NEW k \in DOMAIN writes',
               writes'[k].entry = i \/ writes'[k].pc = entries[i].pc
        PROVE  \E l \in DOMAIN writes' :
                  l >= k /\ writes'[l].entry = i /\ writes'[l].pc = entries[i].pc
    <3>1. k \in DOMAIN writes /\ writes'[k] = writes[k]
      BY <1>3, <1>4, <1>6
    <3>2. PICK l \in DOMAIN writes :
             l >= k /\ writes[l].entry = i /\ writes[l].pc = entries[i].pc
      BY <1>7, <2>1, <2>3, <3>1
    <3> QED
      BY <1>6, <2>2, <3>2, Zenon, SMTT(30)
  <2> QED
    BY <1>1, <2>1, <2>3, Zenon
<1>9. StrideInv'
  <2>1. TypeOK'
    BY <1>1, <1>6 DEF StrideInv, TypeOK, Write, SlotsOf
  <2> QED
    BY <1>1, <1>8, <2>1, Zenon, SMTT(30) DEF StrideInv, ConfidenceHasStride, SlotsDiffer, ReplyIsHeld,
         None, Candidate
<1>10. Names(entries', bits') = c \ {w[k].pc : k \in (m + 1) .. Len(w)}
  <2>1. \A k \in (m + 1) .. n : k \in DOMAIN writes /\ w[k].pc = writes[k].pc
    BY <1>3, <1>4
  <2>2. \A i \in bits : (\E k \in (m + 1) .. n : writes[k].entry = i)
                        <=> (\E k \in (m + 1) .. n : w[k].pc = entries[i].pc)
    <3> TAKE i \in bits
    <3>1. ASSUME NEW k \in (m + 1) .. n,
                 writes[k].entry = i \/ writes[k].pc = entries[i].pc
          PROVE  \E l \in (m + 1) .. n : writes[l].entry = i /\ writes[l].pc = entries[i].pc
      <4>1. PICK l \in DOMAIN writes :
               l >= k /\ writes[l].entry = i /\ writes[l].pc = entries[i].pc
        BY <1>7, <2>1, <3>1
      <4> QED
        BY <1>3, <1>4, <4>1
    <3> QED
      BY <2>1, <3>1, Zenon, SMTT(30)
  <2>3. Names(entries', bits') = c \ {w[k].pc : k \in (m + 1) .. n}
    <3>1. entries' = entries /\ bits' = bits \ {writes[k].entry : k \in (m + 1) .. n}
      BY <1>1
    <3> QED
      BY <2>2, <3>1 DEF Names
  <2> QED
    BY <1>3, <2>3
<1>11. Log(writes') = SubSeq(w, 1, m)
  BY <1>1, <1>2, <1>4, LogPrefix DEF n
<1>12. Table = PerPC(a, b, c, w) /\ Table' = Undone(a, b, c, w, m)
  BY <1>1, <1>10, <1>11, TableForm, TableFormNext, Zenon DEF Undone
<1>13. Table' = Abstract!SquashDiscovery(Table, seq)
  <2> HIDE DEF a, b, c, w
  <2>1. Abstract!SquashDiscovery(PerPC(a, b, c, w), seq) = Undone(a, b, c, w, m)
    BY <1>5, SquashForm
  <2> QED
    BY <1>12, <2>1, Zenon
<1> QED
  BY <1>1, <1>9, <1>13 DEF Abstract!Squash, Abstract!None, None

\* endDiscovery(): no PC is seen and every trained PC is pending again.
LEMMA EndKeeps ==
    ASSUME StrideInv, End
    PROVE  StrideInv' /\ Abstract!End
<1> DEFINE a == Names(entries, TrainedIn(entries))
           b == Names(entries, PendingIn(entries))
           c == Names(entries, bits)
           w == Log(writes)
           Armed(e) == [e EXCEPT !.candidatePending = Trained(e)]
<1>1. /\ bits' = {} /\ writes' = <<>> /\ lru' = lru /\ nextSeq' = nextSeq /\ reply' = None
      /\ entries' = [i \in Slots |-> Armed(entries[i])]
  BY DEF End
<1>2. ASSUME NEW e \in Entry, Sound(e)
      PROVE  /\ Armed(e) \in Entry /\ Sound(Armed(e)) /\ Armed(e).pc = e.pc
             /\ (Trained(Armed(e)) <=> Trained(e))
             /\ (Armed(e).candidatePending <=> Trained(e))
             /\ e = Invalid => Armed(e) = Invalid
  <2> DEFINE t == Trained(e)
  <2>1. t \in BOOLEAN
    BY DEF Trained, Entry
  <2>2. (t <=> (e.strided /\ e.confidence >= 2)) /\ (e.confidence > 0 => e.strided)
    BY <1>2 DEF Trained, Sound, CandidateConfidence
  <2>3. e = Invalid => t = FALSE /\ e.candidatePending = FALSE
    BY <2>1 DEF Trained, Invalid, CandidateConfidence
  <2> HIDE DEF t
  <2>4. Armed(e) = [e EXCEPT !.candidatePending = t]
    BY DEF t
  <2> HIDE DEF Armed
  <2>5. /\ Armed(e) \in Entry /\ Armed(e).pc = e.pc /\ Armed(e).strided = e.strided
        /\ Armed(e).confidence = e.confidence /\ Armed(e).candidatePending = t
    BY <2>1, <2>4 DEF Entry
  <2>6. Sound(Armed(e)) /\ (Trained(Armed(e)) <=> t)
    BY <2>2, <2>5 DEF Sound, Trained, CandidateConfidence
  <2>7. e = Invalid => Armed(e) = Invalid
    BY <2>3, <2>4, Zenon DEF Entry
  <2> QED
    BY <2>1, <2>5, <2>6, <2>7 DEF t
<1> HIDE DEF Armed
<1>3. \A i \in Slots : /\ entries'[i] \in Entry /\ Sound(entries'[i])
                       /\ entries'[i].pc = entries[i].pc
                       /\ (Trained(entries'[i]) <=> Trained(entries[i]))
                       /\ (entries'[i].candidatePending <=> Trained(entries[i]))
                       /\ entries[i] = Invalid => entries'[i] = Invalid
  BY <1>1, <1>2, SlotFacts, Zenon, SMTT(30)
<1>4. entries' \in [Slots -> Entry]
  BY <1>1, <1>2, SlotFacts, Zenon, SMTT(30)
<1>5. SlotsOf(NoPC)' = SlotsOf(NoPC)
  BY <1>3, Zenon, SMTT(30) DEF SlotsOf
<1>6. TypeOK'
  BY <1>1, <1>4, <1>5 DEF StrideInv, TypeOK
<1>7. ConfidenceHasStride' /\ SlotsDiffer'
  BY <1>3, Zenon, SMTT(30) DEF StrideInv, ConfidenceHasStride, SlotsDiffer, Sound
<1>8. LastWriteAgrees' /\ ReplyIsHeld'
  BY <1>1 DEF LastWriteAgrees, ReplyIsHeld, None, Candidate
<1>9. TrainedIn(entries') = TrainedIn(entries) /\ PendingIn(entries') = TrainedIn(entries)
  BY <1>3 DEF TrainedIn, PendingIn
<1>10. /\ Names(entries', TrainedIn(entries')) = a /\ Names(entries', PendingIn(entries')) = a
       /\ Names(entries', bits') = {} /\ Log(writes') = <<>>
  <2>1. Names(entries', TrainedIn(entries)) = a
    BY <1>3, SlotFacts DEF Names
  <2>2. Names(entries', bits') = {}
    BY <1>1 DEF Names
  <2> QED
    BY <1>1, <1>9, <2>1, <2>2, LogEmpty, Zenon, SMTT(30)
<1>11. Table = PerPC(a, b, c, w) /\ Table' = PerPC(a, a, {}, <<>>)
  BY <1>10, TableForm, TableFormNext
<1>12. Table' = Abstract!EndDiscovery(Table)
  <2> HIDE DEF a, b, c, w
  <2>1. Abstract!EndDiscovery(PerPC(a, b, c, w)) = PerPC(a, a, {}, <<>>)
    BY EndForm
  <2> QED
    BY <1>11, <2>1, Zenon
<1> QED
  BY <1>1, <1>6, <1>7, <1>8, <1>12 DEF StrideInv, Abstract!End, Abstract!None, None

--------------------------------------------------------------------------------
(* The theorems.                                                            *)

LEMMA InitHolds ==
    ASSUME Init
    PROVE  StrideInv /\ Abstract!Init
<1>1. /\ lru = <<>> /\ bits = {} /\ writes = <<>> /\ reply = None /\ nextSeq = 1
      /\ entries = [i \in Slots |-> Invalid]
  BY DEF Init
<1>2. /\ Invalid \in Entry /\ Invalid.pc = NoPC /\ Sound(Invalid)
      /\ ~Trained(Invalid) /\ ~Invalid.candidatePending
  BY DEF Invalid, Entry, MaxConfidence, Sound, Trained, CandidateConfidence
<1>3. entries \in [Slots -> Entry] /\ \A i \in Slots : entries[i] = Invalid
  BY <1>1, <1>2
<1>4. SlotsOf(NoPC) = Slots
  BY <1>2, <1>3 DEF SlotsOf
<1>5. TypeOK
  <2>1. /\ lru \in Seq(Slots) /\ DOMAIN lru = {}
        /\ writes \in Seq([sequence : Nat, entry : Slots, pc : PCs])
    BY <1>1
  <2>2. {lru[k] : k \in DOMAIN lru} = Slots \ SlotsOf(NoPC)
    BY <1>4, <2>1
  <2> QED
    BY <1>1, <1>3, <2>1, <2>2 DEF TypeOK
<1>6. ConfidenceHasStride /\ SlotsDiffer
  BY <1>2, <1>3 DEF ConfidenceHasStride, SlotsDiffer, Sound
<1>7. LastWriteAgrees /\ ReplyIsHeld
  BY <1>1 DEF LastWriteAgrees, ReplyIsHeld, None, Candidate
<1>8. Table = Abstract!EmptyTable
  <2>1. TrainedIn(entries) = {} /\ PendingIn(entries) = {}
    BY <1>2, <1>3, Zenon, SMTT(30) DEF TrainedIn, PendingIn
  <2>2. /\ Names(entries, TrainedIn(entries)) = {} /\ Names(entries, PendingIn(entries)) = {}
        /\ Names(entries, bits) = {} /\ Log(writes) = <<>>
    BY <1>1, <2>1, LogEmpty DEF Names
  <2>3. Table = PerPC({}, {}, {}, <<>>)
    BY <2>2, TableForm, Zenon
  <2> QED
    BY <2>3, Zenon DEF PerPC, Abstract!EmptyTable
<1> QED
  BY <1>1, <1>5, <1>6, <1>7, <1>8 DEF StrideInv, Abstract!Init, Abstract!None, None

LEMMA NextHolds ==
    ASSUME StrideInv, [Next]_vars
    PROVE  StrideInv' /\ [Abstract!Next]_(Abstract!tvars)
<1>1. CASE UNCHANGED vars
  <2>1. StrideInv'
    BY <1>1 DEF vars, StrideInv, TypeOK, ConfidenceHasStride, SlotsDiffer, LastWriteAgrees,
         ReplyIsHeld, SlotsOf
  <2>2. Table' = Table
    BY <1>1, Zenon DEF vars, Table
  <2> QED
    BY <1>1, <2>1, <2>2, Zenon, SMTT(30) DEF vars, Abstract!tvars
<1>2. ASSUME NEW pc \in PCs, ObserveMiss(pc)
      PROVE  StrideInv' /\ Abstract!Next
  BY <1>2, MissKeeps DEF Abstract!Next
<1>3. ASSUME NEW pc \in PCs, NEW stride \in {"same", "other", "zero"}, ObserveHit(pc, stride)
      PROVE  StrideInv' /\ Abstract!Next
  BY <1>3, HitKeeps DEF Abstract!Next
<1>4. ASSUME NEW pc \in PCs, NEW window \in BOOLEAN, ObserveDispatch(pc, window)
      PROVE  StrideInv' /\ Abstract!Next
  BY <1>4, DispatchKeeps, Zenon DEF Abstract!Next
<1>5. ASSUME NEW pc \in PCs, Begin(pc)
      PROVE  StrideInv' /\ Abstract!Next
  BY <1>5, BeginKeeps DEF Abstract!Next
<1>6. ASSUME NEW seq \in 1 .. (nextSeq - 1), Squash(seq)
      PROVE  StrideInv' /\ Abstract!Next
  <2>1. seq \in Nat /\ seq \in 1 .. nextSeq
    BY DEF StrideInv, TypeOK
  <2> QED
    BY <1>6, <2>1, SquashKeeps, Zenon DEF Abstract!Next
<1>7. CASE End
  BY <1>7, EndKeeps DEF Abstract!Next
<1> QED
  BY <1>1, <1>2, <1>3, <1>4, <1>5, <1>6, <1>7, Zenon DEF Next

\* The invariant holds of the table at any time.
THEOREM InvariantHolds == Spec => []StrideInv
<1>1. Init => StrideInv
  BY InitHolds
<1>2. StrideInv /\ [Next]_vars => StrideInv'
  BY NextHolds
<1> QED
  BY <1>1, <1>2, PTL DEF Spec

\* The types of the table, and an order of replacement that lists each valid
\* slot once, so that a missing PC always finds a slot to take.
THEOREM StrideTypeCorrect == Spec => []TypeOK
<1>1. StrideInv => TypeOK
  BY DEF StrideInv
<1> QED
  BY <1>1, InvariantHolds, PTL

\* observe() never leaves confidence without a stride or a notification armed
\* for an entry observeDispatch() would skip.
THEOREM ConfidenceAlwaysHasStride == Spec => []ConfidenceHasStride
<1>1. StrideInv => ConfidenceHasStride
  BY DEF StrideInv
<1> QED
  BY <1>1, InvariantHolds, PTL

\* For every number of slots and every set of PCs, the table with slots,
\* counters and replacement implements the table per PC: eviction of a seen
\* slot, and undoing bits by slot number, do not show through.
THEOREM TableIsImplemented == Spec => ImplementsTable
<1>1. Init => Abstract!Init
  BY InitHolds
<1>2. StrideInv /\ [Next]_vars => [Abstract!Next]_(Abstract!tvars)
  BY NextHolds
<1> QED
  BY <1>1, <1>2, InvariantHolds, PTL DEF Spec, ImplementsTable, Abstract!Spec

================================================================================
