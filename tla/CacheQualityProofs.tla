-------------------------- MODULE CacheQualityProofs --------------------------
(*****************************************************************************)
(* For any lines, any associativity and any number of requests: what the     *)
(* tracker says of the prefetches is what happened in the cache.             *)
(*****************************************************************************)
EXTENDS CacheQuality, FiniteSetTheorems, TLAPS

Partial(V) == UNION {[D -> V] : D \in SUBSET Lines}

Counts == [issued : Nat, demandAccesses : Nat, fills : Nat,
           redundantFills : Nat, usefulTimely : Nat, usefulLate : Nat,
           unusedEvictions : Nat, pollutionMisses : Nat]

\* The tracker.  No argument needs the order of the shadow cache.
Sound(t) ==
    /\ t = [outstanding |-> t.outstanding, prefetched |-> t.prefetched,
            lateReported |-> t.lateReported,
            pollutionVictims |-> t.pollutionVictims, shadow |-> t.shadow,
            counts |-> t.counts]
    /\ t.outstanding \in [Lines -> Nat]
    /\ t.prefetched \in Partial(BOOLEAN)
    /\ IsFiniteSet(DOMAIN t.prefetched)
    /\ t.lateReported \subseteq Lines
    /\ t.pollutionVictims \subseteq Lines
    /\ t.counts \in Counts

\* The fills whose fate the tracker itself knows.
Settled(t) == t.counts.usefulTimely + t.counts.unusedEvictions
                  + t.counts.redundantFills + Cardinality(Unused(t))

Blocks == [dvr : BOOLEAN, readable : BOOLEAN, writable : BOOLEAN]
Misses == [origin : Origins, owned : BOOLEAN, write : BOOLEAN]
Histories == [lateFills : Nat, upgraded : Nat,
              displaced : [Lines -> Origins \cup {"none"}], joined : SUBSET Lines]

Typed ==
    /\ block \in Partial(Blocks)
    /\ mshr \in Partial(Misses)
    /\ Sound(q)
    /\ history \in Histories

\* The cache: a line that cannot be read waits for a response, a resident line
\* is missed by demand only, and demands join misses only.
MissesAgree ==
    /\ \A l \in DOMAIN block : ~block[l].readable => l \in DOMAIN mshr
    /\ \A l \in DOMAIN block \cap DOMAIN mshr : mshr[l].origin = "Demand"
    /\ history.joined \subseteq DOMAIN mshr

\* The requests of a miss of DVR are outstanding, and a line that is neither
\* resident nor missing is not reported late.
LateAgrees ==
    /\ \A l \in DOMAIN mshr : mshr[l].origin = "DVR" => q.outstanding[l] > 0
    /\ q.lateReported \subseteq DOMAIN block \cup DOMAIN mshr
    /\ LateMatchesDemand

Inv == /\ Typed /\ TracksResident /\ Accounted /\ MissesAgree /\ LateAgrees
       /\ PollutionByDVR

--------------------------------------------------------------------------------
\* A partial function with one more entry.
LEMMA WithIs ==
    ASSUME NEW V, NEW f \in Partial(V), NEW x \in Lines, NEW v \in V
    PROVE  /\ With(f, x, v) \in Partial(V)
           /\ DOMAIN With(f, x, v) = DOMAIN f \cup {x}
           /\ With(f, x, v)[x] = v
           /\ \A y \in DOMAIN f \ {x} : With(f, x, v)[y] = f[y]
<1>1. PICK D \in SUBSET Lines : f \in [D -> V]
  BY DEF Partial
<1>2. With(f, x, v) \in [D \cup {x} -> V]
  BY <1>1 DEF With
<1>3. D \cup {x} \in SUBSET Lines
  OBVIOUS
<1>4. With(f, x, v) \in Partial(V)
  BY <1>2, <1>3, Zenon DEF Partial
<1> QED BY <1>1, <1>4 DEF With

\* The same for the records of the tracker.
LEMMA MarkedIs ==
    ASSUME NEW f \in Partial(BOOLEAN), NEW l \in Lines, NEW used \in BOOLEAN
    PROVE  /\ With(f, l, used) \in Partial(BOOLEAN)
           /\ DOMAIN With(f, l, used) = DOMAIN f \cup {l}
           /\ With(f, l, used)[l] = used
           /\ \A y \in DOMAIN f \ {l} : With(f, l, used)[y] = f[y]
<1>1. PICK D \in SUBSET Lines : f \in [D -> BOOLEAN]
  BY DEF Partial
<1>2. With(f, l, used) \in [D \cup {l} -> BOOLEAN]
  BY <1>1 DEF With
<1>3. D \cup {l} \in SUBSET Lines
  OBVIOUS
<1>4. With(f, l, used) \in Partial(BOOLEAN)
  BY <1>2, <1>3, Zenon DEF Partial
<1> QED BY <1>1, <1>4 DEF With

\* A partial function without some entries.
LEMMA WithoutIs ==
    ASSUME NEW V, NEW f \in Partial(V), NEW R \in SUBSET Lines
    PROVE  /\ Without(f, R) \in Partial(V)
           /\ DOMAIN Without(f, R) = DOMAIN f \ R
           /\ \A y \in DOMAIN f \ R : Without(f, R)[y] = f[y]
<1>1. PICK D \in SUBSET Lines : f \in [D -> V]
  BY DEF Partial
<1>2. Without(f, R) \in [D \ R -> V]
  BY <1>1 DEF Without
<1>3. D \ R \in SUBSET Lines
  OBVIOUS
<1>4. Without(f, R) \in Partial(V)
  BY <1>2, <1>3, Zenon DEF Partial
<1> QED BY <1>1, <1>4 DEF Without

\* The same for the records of the tracker.
LEMMA ForgottenIs ==
    ASSUME NEW f \in Partial(BOOLEAN), NEW R \in SUBSET Lines
    PROVE  /\ Without(f, R) \in Partial(BOOLEAN)
           /\ DOMAIN Without(f, R) = DOMAIN f \ R
           /\ \A y \in DOMAIN f \ R : Without(f, R)[y] = f[y]
<1>1. PICK D \in SUBSET Lines : f \in [D -> BOOLEAN]
  BY DEF Partial
<1>2. Without(f, R) \in [D \ R -> BOOLEAN]
  BY <1>1 DEF Without
<1>3. D \ R \in SUBSET Lines
  OBVIOUS
<1>4. Without(f, R) \in Partial(BOOLEAN)
  BY <1>2, <1>3, Zenon DEF Partial
<1> QED BY <1>1, <1>4 DEF Without

\* A partial function with another entry in place of one.
Changed(f, x, v) == [f EXCEPT ![x] = v]

LEMMA ChangedIs ==
    ASSUME NEW V, NEW f \in Partial(V), NEW x \in DOMAIN f, NEW v \in V
    PROVE  /\ Changed(f, x, v) \in Partial(V)
           /\ DOMAIN Changed(f, x, v) = DOMAIN f
           /\ Changed(f, x, v)[x] = v
           /\ \A y \in DOMAIN f \ {x} : Changed(f, x, v)[y] = f[y]
<1>1. PICK D \in SUBSET Lines : f \in [D -> V]
  BY DEF Partial
<1>2. Changed(f, x, v) \in [D -> V]
  BY <1>1 DEF Changed
<1>3. Changed(f, x, v) \in Partial(V)
  BY <1>2, Zenon DEF Partial
<1> QED BY <1>1, <1>3 DEF Changed

\* A partial function.
LEMMA PartialIs ==
    ASSUME NEW V, NEW f \in Partial(V)
    PROVE  DOMAIN f \subseteq Lines /\ \A x \in DOMAIN f : f[x] \in V
BY DEF Partial

--------------------------------------------------------------------------------
\* The lines that DVR installed and nothing used, as the records change.
LEMMA UnusedFinite ==
    ASSUME NEW t, Sound(t)
    PROVE  /\ IsFiniteSet(Unused(t)) /\ Cardinality(Unused(t)) \in Nat
           /\ Unused(t) \subseteq DOMAIN t.prefetched
<1>1. Unused(t) \subseteq DOMAIN t.prefetched
  BY DEF Unused
<1>2. IsFiniteSet(DOMAIN t.prefetched)
  BY DEF Sound
<1> QED BY <1>1, <1>2, FS_Subset, FS_CardinalityType

\* One line less.
LEMMA CountLess ==
    ASSUME NEW t, Sound(t), NEW r, NEW l, Unused(r) = Unused(t) \ {l}
    PROVE  Cardinality(Unused(r)) + If(l \in Unused(t)) = Cardinality(Unused(t))
<1>1. IsFiniteSet(Unused(t)) /\ Cardinality(Unused(t)) \in Nat
  BY UnusedFinite
<1>2. CASE l \in Unused(t)
  <2>1. Cardinality(Unused(r)) = Cardinality(Unused(t)) - 1
    BY <1>1, <1>2, FS_RemoveElement, Zenon
  <2> QED BY <1>1, <1>2, <2>1 DEF If
<1>3. CASE l \notin Unused(t)
  <2>1. Unused(r) = Unused(t)
    BY <1>3
  <2> QED BY <1>1, <1>3, <2>1 DEF If
<1> QED BY <1>2, <1>3

\* One line more.
LEMMA CountMore ==
    ASSUME NEW t, Sound(t), NEW r, NEW l, l \notin Unused(t),
           Unused(r) = Unused(t) \cup {l}
    PROVE  Cardinality(Unused(r)) = Cardinality(Unused(t)) + 1
<1>1. IsFiniteSet(Unused(t)) /\ Cardinality(Unused(t)) \in Nat
  BY UnusedFinite
<1> QED BY <1>1, FS_AddElement

--------------------------------------------------------------------------------
\* What the counts that no argument is about may do.
Same(t, r) ==
    /\ r.counts.fills = t.counts.fills
    /\ Settled(r) = Settled(t)

\* A request is issued.
LEMMA IssuedIs ==
    ASSUME NEW t, Sound(t), NEW l \in Lines, NEW r, r = Issued(t, l)
    PROVE  /\ Sound(r) /\ Same(t, r)
           /\ \A m \in Lines : r.outstanding[m] = t.outstanding[m]
                                               + If(m = l)
           /\ DOMAIN r.prefetched = DOMAIN t.prefetched
           /\ r.lateReported = t.lateReported
           /\ r.pollutionVictims = t.pollutionVictims
<1>1. r = [outstanding |-> [t.outstanding EXCEPT ![l] = t.outstanding[l] + 1],
           prefetched |-> t.prefetched, lateReported |-> t.lateReported,
           pollutionVictims |-> t.pollutionVictims, shadow |-> t.shadow,
           counts |-> [t.counts EXCEPT !.issued = t.counts.issued + 1]]
  BY Zenon DEF Sound, Issued
<1>2. /\ r.counts \in Counts /\ r.counts.fills = t.counts.fills
      /\ r.counts.usefulTimely = t.counts.usefulTimely
      /\ r.counts.unusedEvictions = t.counts.unusedEvictions
      /\ r.counts.redundantFills = t.counts.redundantFills
  BY <1>1 DEF Sound, Counts
<1>3. Sound(r)
  BY <1>1, <1>2 DEF Sound
<1>4. Unused(r) = Unused(t)
  BY <1>1 DEF Unused
<1>5. ASSUME NEW m \in Lines
      PROVE  r.outstanding[m] = t.outstanding[m] + If(m = l)
  BY <1>1 DEF Sound, If
<1> QED BY <1>1, <1>2, <1>3, <1>4, <1>5 DEF Same, Settled

\* The requests of a line are completed.
LEMMA CompletedIs ==
    ASSUME NEW t, Sound(t), NEW l \in Lines, NEW r, r = CompletedLine(t, l)
    PROVE  /\ Sound(r) /\ Same(t, r)
           /\ \A m \in Lines : r.outstanding[m] =
                  IF m = l THEN 0 ELSE t.outstanding[m]
           /\ DOMAIN r.prefetched = DOMAIN t.prefetched
           /\ r.lateReported = t.lateReported
           /\ r.pollutionVictims = t.pollutionVictims
<1>1. r = [outstanding |-> [t.outstanding EXCEPT ![l] = 0],
           prefetched |-> t.prefetched, lateReported |-> t.lateReported,
           pollutionVictims |-> t.pollutionVictims, shadow |-> t.shadow,
           counts |-> t.counts]
  BY DEF Sound, CompletedLine
<1>2. Sound(r)
  BY <1>1 DEF Sound
<1>3. Unused(r) = Unused(t)
  BY <1>1 DEF Unused
<1>4. ASSUME NEW m \in Lines
      PROVE  r.outstanding[m] = IF m = l THEN 0 ELSE t.outstanding[m]
  BY <1>1 DEF Sound
<1> QED BY <1>1, <1>2, <1>3, <1>4 DEF Same, Settled

\* A demand looks a line up: a first hit moves a fill from unused to timely.
LEMMA LookupIs ==
    ASSUME NEW t, Sound(t), NEW l \in Lines, NEW hit \in BOOLEAN,
           NEW r, r = DemandLookup(t, l, hit)
    PROVE  /\ Sound(r) /\ Same(t, r)
           /\ r.outstanding = t.outstanding
           /\ DOMAIN r.prefetched = DOMAIN t.prefetched
           /\ \A m : m \in r.lateReported <=>
                  \/ m \in t.lateReported
                  \/ m = l /\ ~hit /\ t.outstanding[l] > 0
           /\ r.pollutionVictims = t.pollutionVictims \ {l}
<1> DEFINE timely == hit /\ l \in Unused(t)
           late == ~hit /\ t.outstanding[l] > 0 /\ l \notin t.lateReported
           polluted == /\ ~hit /\ l \in Held(t.shadow)
                       /\ l \in t.pollutionVictims
           after == IF timely THEN With(t.prefetched, l, TRUE) ELSE t.prefetched
           a == t.counts.demandAccesses + 1
           b == t.counts.usefulTimely + If(timely)
           c == t.counts.usefulLate + If(late)
           d == t.counts.pollutionMisses + If(polluted)
           counts == [t.counts EXCEPT !.demandAccesses = a, !.usefulTimely = b,
                                      !.usefulLate = c, !.pollutionMisses = d]
           shadow == ShadowAccess(t.shadow, l)
<1>1. r = [outstanding |-> t.outstanding, prefetched |-> after,
           lateReported |-> IF late THEN t.lateReported \cup {l}
                                    ELSE t.lateReported,
           pollutionVictims |-> t.pollutionVictims \ {l},
           shadow |-> shadow, counts |-> counts]
  BY ZenonT(30) DEF Sound, Counts, DemandLookup
<1>2. If(timely) \in 0 .. 1 /\ If(late) \in 0 .. 1 /\ If(polluted) \in 0 .. 1
  BY DEF If
<1>3. /\ counts \in Counts /\ counts.fills = t.counts.fills
      /\ counts.usefulTimely = t.counts.usefulTimely + If(timely)
      /\ counts.unusedEvictions = t.counts.unusedEvictions
      /\ counts.redundantFills = t.counts.redundantFills
  <2>1. t.counts \in Counts
    BY DEF Sound
  <2>2. a \in Nat /\ b \in Nat /\ c \in Nat /\ d \in Nat
    <3> HIDE DEF timely, late, polluted
    <3> QED BY <1>2, <2>1 DEF Counts
  <2>3. /\ counts \in Counts /\ counts.fills = t.counts.fills
        /\ counts.usefulTimely = b
        /\ counts.unusedEvictions = t.counts.unusedEvictions
        /\ counts.redundantFills = t.counts.redundantFills
    <3> HIDE DEF a, b, c, d
    <3> QED BY <2>1, <2>2, Zenon DEF Counts
  <2> QED BY <2>3
<1>4. /\ after \in Partial(BOOLEAN) /\ DOMAIN after = DOMAIN t.prefetched
      /\ timely => /\ after[l]
                   /\ \A m \in DOMAIN after \ {l} : after[m] = t.prefetched[m]
      /\ ~timely => after = t.prefetched
  <2>1. t.prefetched \in Partial(BOOLEAN)
    BY DEF Sound
  <2>2. CASE timely
    <3>1. after = With(t.prefetched, l, TRUE) /\ l \in DOMAIN t.prefetched
      BY <2>2 DEF Unused
    <3>2. /\ With(t.prefetched, l, TRUE) \in Partial(BOOLEAN)
          /\ DOMAIN With(t.prefetched, l, TRUE) = DOMAIN t.prefetched \cup {l}
          /\ With(t.prefetched, l, TRUE)[l] = TRUE
          /\ \A y \in DOMAIN t.prefetched \ {l} :
                 With(t.prefetched, l, TRUE)[y] = t.prefetched[y]
      BY <2>1, MarkedIs, Zenon
    <3> HIDE DEF timely, after
    <3> QED BY <2>2, <3>1, <3>2, Zenon
  <2>3. CASE ~timely
    BY <2>1, <2>3, Zenon
  <2> QED BY <2>2, <2>3, Zenon
<1> HIDE DEF after, counts, shadow
<1>5. Sound(r)
  BY <1>1, <1>3, <1>4 DEF Sound
<1>6. Unused(r) = IF timely THEN Unused(t) \ {l} ELSE Unused(t)
  BY <1>1, <1>4 DEF Unused
<1>7. Cardinality(Unused(r)) + If(timely) = Cardinality(Unused(t))
  <2>1. CASE timely
    BY <1>6, <2>1, CountLess, Zenon
  <2>2. CASE ~timely
    BY <1>6, <2>2, UnusedFinite DEF If
  <2> QED BY <2>1, <2>2
<1>8. Same(t, r)
  <2> HIDE DEF timely
  <2>1. Cardinality(Unused(t)) \in Nat /\ Cardinality(Unused(r)) \in Nat
    BY <1>5, UnusedFinite
  <2>2. r.counts = counts /\ t.counts \in Counts
    BY <1>1 DEF Sound
  <2> QED BY <1>2, <1>3, <1>7, <2>1, <2>2 DEF Same, Settled, Counts
<1> QED BY <1>1, <1>4, <1>5, <1>8

\* A line leaves the cache: an unused fill becomes an unused eviction.
LEMMA RemoveIs ==
    ASSUME NEW t, Sound(t), NEW l \in Lines, NEW origin \in Origins,
           origin = "DVR" \/ l \notin DOMAIN t.prefetched,
           NEW r, r = CacheRemove(t, l, origin)
    PROVE  /\ Sound(r) /\ Same(t, r)
           /\ r.outstanding = t.outstanding
           /\ DOMAIN r.prefetched = DOMAIN t.prefetched \ {l}
           /\ Unused(r) = Unused(t) \ {l}
           /\ r.lateReported = t.lateReported \ {l}
           /\ r.pollutionVictims = t.pollutionVictims \ {l}
<1> DEFINE lost == origin = "DVR" /\ l \in Unused(t)
           after == IF origin = "DVR" THEN Without(t.prefetched, {l})
                                      ELSE t.prefetched
           n == t.counts.unusedEvictions + If(lost)
           counts == [t.counts EXCEPT !.unusedEvictions = n]
<1>1. r = [outstanding |-> t.outstanding, prefetched |-> after,
           lateReported |-> t.lateReported \ {l},
           pollutionVictims |-> t.pollutionVictims \ {l},
           shadow |-> t.shadow, counts |-> counts]
  BY Zenon DEF Sound, Counts, CacheRemove
<1>2. t.counts \in Counts /\ t.prefetched \in Partial(BOOLEAN)
  BY DEF Sound
<1>3. n \in Nat
  BY <1>2 DEF If, Counts
<1>4. /\ counts \in Counts /\ counts.fills = t.counts.fills
      /\ counts.usefulTimely = t.counts.usefulTimely
      /\ counts.unusedEvictions = n
      /\ counts.redundantFills = t.counts.redundantFills
  <2> HIDE DEF n
  <2> QED BY <1>2, <1>3 DEF Counts
<1>5. /\ after \in Partial(BOOLEAN)
      /\ DOMAIN after = DOMAIN t.prefetched \ {l}
      /\ \A m \in DOMAIN after : after[m] = t.prefetched[m]
  <2>1. CASE origin = "DVR"
    <3>1. after = Without(t.prefetched, {l})
      BY <2>1
    <3>2. {l} \in SUBSET Lines
      OBVIOUS
    <3>3. /\ Without(t.prefetched, {l}) \in Partial(BOOLEAN)
          /\ DOMAIN Without(t.prefetched, {l}) = DOMAIN t.prefetched \ {l}
          /\ \A m \in DOMAIN t.prefetched \ {l} :
                 Without(t.prefetched, {l})[m] = t.prefetched[m]
      BY <1>2, <3>2, ForgottenIs, Zenon
    <3> HIDE DEF after
    <3> QED BY <3>1, <3>3
  <2>2. CASE l \notin DOMAIN t.prefetched /\ origin # "DVR"
    BY <1>2, <2>2
  <2> QED BY <2>1, <2>2
<1> HIDE DEF after, counts
<1>6. Sound(r)
  <2>1. IsFiniteSet(DOMAIN after)
    BY <1>5, FS_Subset DEF Sound
  <2> QED BY <1>1, <1>4, <1>5, <2>1 DEF Sound
<1>7. Unused(r) = Unused(t) \ {l}
  BY <1>1, <1>5 DEF Unused
<1>8. lost <=> l \in Unused(t)
  BY DEF Unused
<1>9. Cardinality(Unused(r)) + If(lost) = Cardinality(Unused(t))
  BY <1>7, <1>8, CountLess DEF If
<1>10. Same(t, r)
  <2>1. If(lost) \in Nat
    BY DEF If
  <2> HIDE DEF lost
  <2>2. Cardinality(Unused(t)) \in Nat /\ Cardinality(Unused(r)) \in Nat
    BY <1>6, UnusedFinite
  <2>3. r.counts = counts
    BY <1>1
  <2> QED BY <1>2, <1>4, <1>9, <2>1, <2>2, <2>3 DEF Same, Settled, Counts
<1> QED BY <1>1, <1>5, <1>6, <1>7, <1>10

LinesOf(victims) == {v.line : v \in victims}

\* The victim that a fill reports again was removed before: its record is gone.
\* It becomes a victim of pollution by a fill of DVR only.
LEMMA DisplacedIs ==
    ASSUME NEW t, Sound(t), NEW origin \in Origins, NEW victims,
           LinesOf(victims) \subseteq Lines,
           LinesOf(victims) \cap DOMAIN t.prefetched = {},
           NEW r, r = Displaced(t, victims, origin)
    PROVE  /\ Sound(r) /\ Same(t, r)
           /\ r.outstanding = t.outstanding
           /\ DOMAIN r.prefetched = DOMAIN t.prefetched
           /\ Unused(r) = Unused(t)
           /\ r.lateReported = t.lateReported
           /\ r.pollutionVictims \subseteq
                  t.pollutionVictims \cup LinesOf(victims)
           /\ origin = "Demand" =>
                  r.pollutionVictims \subseteq
                      t.pollutionVictims \ LinesOf(victims)
<1> DEFINE lines == LinesOf(victims)
           polluted == {v.line : v \in {w \in victims :
                           /\ origin = "DVR" /\ w.origin = "Demand"
                           /\ w.line \in Held(t.shadow)}}
           after == Without(t.prefetched, lines)
           n == t.counts.unusedEvictions + Cardinality(lines \cap Unused(t))
           counts == [t.counts EXCEPT !.unusedEvictions = n]
<1>1. r = [outstanding |-> t.outstanding, prefetched |-> after,
           lateReported |-> t.lateReported,
           pollutionVictims |-> (t.pollutionVictims \ lines) \cup polluted,
           shadow |-> t.shadow, counts |-> counts]
  BY Zenon DEF Sound, Counts, Displaced, LinesOf
<1>2. t.counts \in Counts /\ t.prefetched \in Partial(BOOLEAN)
  BY DEF Sound
<1>3. n = t.counts.unusedEvictions
  <2>1. lines \cap Unused(t) = {}
    BY DEF Unused
  <2>2. Cardinality(lines \cap Unused(t)) = 0
    BY <2>1, FS_EmptySet
  <2> QED BY <1>2, <2>2 DEF Counts
<1>4. /\ counts \in Counts /\ counts.fills = t.counts.fills
      /\ counts.usefulTimely = t.counts.usefulTimely
      /\ counts.unusedEvictions = t.counts.unusedEvictions
      /\ counts.redundantFills = t.counts.redundantFills
  <2> HIDE DEF n
  <2> QED BY <1>2, <1>3 DEF Counts
<1>5. /\ after \in Partial(BOOLEAN)
      /\ DOMAIN after = DOMAIN t.prefetched
      /\ \A m \in DOMAIN after : after[m] = t.prefetched[m]
  <2>1. /\ after \in Partial(BOOLEAN)
        /\ DOMAIN after = DOMAIN t.prefetched \ lines
        /\ \A m \in DOMAIN t.prefetched \ lines : after[m] = t.prefetched[m]
    <3>1. lines \in SUBSET Lines
      OBVIOUS
    <3> QED BY <1>2, <3>1, ForgottenIs, Zenon
  <2> HIDE DEF after
  <2> QED BY <2>1
<1>6. polluted \subseteq lines /\ (origin = "Demand" => polluted = {})
  BY DEF LinesOf
<1> HIDE DEF after, counts, polluted, lines
<1>7. Sound(r)
  BY <1>1, <1>4, <1>5, <1>6 DEF Sound, lines
<1>8. Unused(r) = Unused(t)
  BY <1>1, <1>5 DEF Unused
<1>9. Same(t, r)
  BY <1>1, <1>4, <1>8 DEF Same, Settled
<1> QED BY <1>1, <1>5, <1>6, <1>7, <1>8, <1>9 DEF lines

\* A fill by DVR: used on arrival if it is late, unused otherwise.
LEMMA DVRInstalledIs ==
    ASSUME NEW t, Sound(t), NEW l \in Lines, NEW r, r = Installed(t, l, "DVR")
    PROVE  /\ Sound(r)
           /\ r.outstanding = t.outstanding
           /\ DOMAIN r.prefetched = DOMAIN t.prefetched \cup {l}
           /\ r.lateReported = t.lateReported \ {l}
           /\ r.pollutionVictims = t.pollutionVictims
           /\ r.counts.fills = t.counts.fills + 1
           /\ Settled(r) + If(l \in t.lateReported /\ l \notin DOMAIN t.prefetched)
                  = Settled(t) + 1
<1> DEFINE again == l \in DOMAIN t.prefetched
           used == l \in t.lateReported
           after == IF again THEN t.prefetched ELSE With(t.prefetched, l, used)
           f == t.counts.fills + 1
           n == t.counts.redundantFills + If(again)
           counts == [t.counts EXCEPT !.fills = f, !.redundantFills = n]
<1>1. r = [outstanding |-> t.outstanding, prefetched |-> after,
           lateReported |-> t.lateReported \ {l},
           pollutionVictims |-> t.pollutionVictims,
           shadow |-> t.shadow, counts |-> counts]
  BY Zenon DEF Sound, Counts, Installed
<1>2. t.counts \in Counts /\ t.prefetched \in Partial(BOOLEAN)
  BY DEF Sound
<1>3. f \in Nat /\ n \in Nat
  BY <1>2 DEF If, Counts
<1>4. /\ counts \in Counts /\ counts.fills = f
      /\ counts.usefulTimely = t.counts.usefulTimely
      /\ counts.unusedEvictions = t.counts.unusedEvictions
      /\ counts.redundantFills = n
  <2> HIDE DEF f, n
  <2> QED BY <1>2, <1>3, Zenon DEF Counts
<1>5. /\ after \in Partial(BOOLEAN)
      /\ DOMAIN after = DOMAIN t.prefetched \cup {l}
      /\ ~again => after[l] = used
      /\ again => after[l] = t.prefetched[l]
      /\ \A m \in DOMAIN t.prefetched \ {l} : after[m] = t.prefetched[m]
  <2>1. CASE again
    BY <1>2, <2>1
  <2>2. CASE ~again
    <3>1. after = With(t.prefetched, l, used) /\ used \in BOOLEAN
      BY <2>2
    <3>2. /\ With(t.prefetched, l, used) \in Partial(BOOLEAN)
          /\ DOMAIN With(t.prefetched, l, used) = DOMAIN t.prefetched \cup {l}
          /\ With(t.prefetched, l, used)[l] = used
          /\ \A y \in DOMAIN t.prefetched \ {l} :
                 With(t.prefetched, l, used)[y] = t.prefetched[y]
      <4> HIDE DEF used
      <4> QED BY <1>2, <3>1, MarkedIs
    <3> HIDE DEF after, used
    <3> QED BY <2>2, <3>1, <3>2
  <2> QED BY <2>1, <2>2
<1> HIDE DEF after, counts
<1>6. Sound(r)
  <2>1. IsFiniteSet(DOMAIN after)
    BY <1>5, FS_AddElement DEF Sound
  <2> QED BY <1>1, <1>4, <1>5, <2>1 DEF Sound
<1>7. Unused(r) = IF again \/ used THEN Unused(t) ELSE Unused(t) \cup {l}
  <2>1. r.prefetched = after
    BY <1>1
  <2>2. CASE again
    BY <1>5, <2>1, <2>2 DEF Unused
  <2>3. CASE ~again /\ used
    <3>1. after[l]
      BY <1>5, <2>3, Zenon
    <3> QED BY <1>5, <2>1, <2>3, <3>1 DEF Unused
  <2>4. CASE ~again /\ ~used
    <3>1. ~after[l]
      BY <1>5, <2>4, Zenon
    <3> QED BY <1>5, <2>1, <2>4, <3>1 DEF Unused
  <2> QED BY <2>2, <2>3, <2>4
<1>8. l \in Unused(t) => again
  BY DEF Unused
<1>9. Cardinality(Unused(t)) \in Nat
  BY UnusedFinite
<1>10. /\ r.counts = counts
       /\ Settled(r) = t.counts.usefulTimely + t.counts.unusedEvictions + n
                           + Cardinality(Unused(r))
  BY <1>1, <1>4 DEF Settled
<1>11. Settled(r) + If(used /\ ~again) = Settled(t) + 1
  <2>1. CASE again
    <3>1. Unused(r) = Unused(t)
      BY <1>7, <2>1
    <3>2. n = t.counts.redundantFills + 1 /\ If(used /\ ~again) = 0
      BY <2>1 DEF If
    <3> HIDE DEF used, again, n
    <3> QED BY <1>2, <1>9, <1>10, <3>1, <3>2 DEF Settled, Counts
  <2>2. CASE ~again /\ used
    <3>1. Unused(r) = Unused(t)
      BY <1>7, <2>2
    <3>2. n = t.counts.redundantFills /\ If(used /\ ~again) = 1
      BY <1>2, <2>2 DEF If, Counts
    <3> HIDE DEF used, again, n
    <3> QED BY <1>2, <1>9, <1>10, <3>1, <3>2 DEF Settled, Counts
  <2>3. CASE ~again /\ ~used
    <3>1. Unused(r) = Unused(t) \cup {l} /\ l \notin Unused(t)
      BY <1>7, <1>8, <2>3
    <3>2. Cardinality(Unused(r)) = Cardinality(Unused(t)) + 1
      BY <3>1, CountMore
    <3>3. n = t.counts.redundantFills /\ If(used /\ ~again) = 0
      BY <1>2, <2>3 DEF If, Counts
    <3> HIDE DEF used, again, n
    <3> QED BY <1>2, <1>9, <1>10, <3>2, <3>3 DEF Settled, Counts
  <2> QED BY <2>1, <2>2, <2>3
<1> QED BY <1>1, <1>4, <1>5, <1>6, <1>11

\* A fill by demand: the record of a prefetch is overwritten.
LEMMA DemandInstalledIs ==
    ASSUME NEW t, Sound(t), NEW l \in Lines, NEW r, r = Installed(t, l, "Demand")
    PROVE  /\ Sound(r)
           /\ r.outstanding = t.outstanding
           /\ DOMAIN r.prefetched = DOMAIN t.prefetched \ {l}
           /\ r.lateReported = t.lateReported
           /\ r.pollutionVictims = t.pollutionVictims \ {l}
           /\ r.counts.fills = t.counts.fills
           /\ Settled(r) + If(l \in Unused(t)) = Settled(t)
<1> DEFINE after == Without(t.prefetched, {l})
<1>1. r = [outstanding |-> t.outstanding, prefetched |-> after,
           lateReported |-> t.lateReported,
           pollutionVictims |-> t.pollutionVictims \ {l},
           shadow |-> t.shadow, counts |-> t.counts]
  BY Zenon DEF Sound, Installed
<1>2. t.counts \in Counts /\ t.prefetched \in Partial(BOOLEAN)
  BY DEF Sound
<1>3. /\ after \in Partial(BOOLEAN)
      /\ DOMAIN after = DOMAIN t.prefetched \ {l}
      /\ \A m \in DOMAIN t.prefetched \ {l} : after[m] = t.prefetched[m]
  <2>1. {l} \in SUBSET Lines
    OBVIOUS
  <2> QED BY <1>2, <2>1, ForgottenIs, Zenon
<1> HIDE DEF after
<1>4. Sound(r)
  <2>1. IsFiniteSet(DOMAIN after)
    BY <1>3, FS_Subset DEF Sound
  <2> QED BY <1>1, <1>3, <2>1 DEF Sound
<1>5. Unused(r) = Unused(t) \ {l}
  BY <1>1, <1>3 DEF Unused
<1>6. Cardinality(Unused(r)) + If(l \in Unused(t)) = Cardinality(Unused(t))
  BY <1>5, CountLess
<1>7. Settled(r) + If(l \in Unused(t)) = Settled(t)
  <2>1. Cardinality(Unused(t)) \in Nat /\ Cardinality(Unused(r)) \in Nat
    BY <1>4, UnusedFinite
  <2>2. If(l \in Unused(t)) \in Nat
    BY DEF If
  <2>3. r.counts = t.counts
    BY <1>1
  <2> QED BY <1>2, <1>6, <2>1, <2>2, <2>3 DEF Settled, Counts
<1> QED BY <1>1, <1>3, <1>4, <1>7

\* The probe's handler of a fill by DVR.
LEMMA DVRFillIs ==
    ASSUME NEW t, Sound(t), NEW l \in Lines, NEW victims,
           LinesOf(victims) \subseteq Lines,
           LinesOf(victims) \cap DOMAIN t.prefetched = {},
           NEW r, r = HandleFill(t, l, "DVR", victims)
    PROVE  /\ Sound(r)
           /\ \A m \in Lines : r.outstanding[m] =
                  IF m = l THEN 0 ELSE t.outstanding[m]
           /\ DOMAIN r.prefetched = DOMAIN t.prefetched \cup {l}
           /\ r.lateReported = t.lateReported \ {l}
           /\ r.pollutionVictims \subseteq t.pollutionVictims \cup LinesOf(victims)
           /\ r.counts.fills = t.counts.fills + 1
           /\ Settled(r) + If(l \in t.lateReported /\ l \notin DOMAIN t.prefetched)
                  = Settled(t) + 1
<1> DEFINE s == Displaced(t, victims, "DVR")
           u == Installed(s, l, "DVR")
<1>1. r = CompletedLine(u, l)
  BY DEF HandleFill, CacheFill
<1>2. /\ Sound(s) /\ Same(t, s) /\ s.outstanding = t.outstanding
      /\ DOMAIN s.prefetched = DOMAIN t.prefetched
      /\ s.lateReported = t.lateReported
      /\ s.pollutionVictims \subseteq t.pollutionVictims \cup LinesOf(victims)
  <2>1. "DVR" \in Origins
    BY DEF Origins
  <2> QED BY <2>1, DisplacedIs
<1> HIDE DEF s
<1>3. /\ Sound(u) /\ u.outstanding = s.outstanding
      /\ DOMAIN u.prefetched = DOMAIN s.prefetched \cup {l}
      /\ u.lateReported = s.lateReported \ {l}
      /\ u.pollutionVictims = s.pollutionVictims
      /\ u.counts.fills = s.counts.fills + 1
      /\ Settled(u) + If(l \in s.lateReported /\ l \notin DOMAIN s.prefetched)
             = Settled(s) + 1
  BY <1>2, DVRInstalledIs
<1> HIDE DEF u
<1>4. /\ Sound(r) /\ Same(u, r)
      /\ \A m \in Lines : r.outstanding[m] =
             IF m = l THEN 0 ELSE u.outstanding[m]
      /\ DOMAIN r.prefetched = DOMAIN u.prefetched
      /\ r.lateReported = u.lateReported
      /\ r.pollutionVictims = u.pollutionVictims
  BY <1>1, <1>3, CompletedIs
<1> QED BY <1>2, <1>3, <1>4 DEF Same

\* And of a fill by demand.
LEMMA DemandFillIs ==
    ASSUME NEW t, Sound(t), NEW l \in Lines, NEW victims,
           LinesOf(victims) \subseteq Lines,
           LinesOf(victims) \cap DOMAIN t.prefetched = {},
           NEW r, r = HandleFill(t, l, "Demand", victims)
    PROVE  /\ Sound(r)
           /\ r.outstanding = t.outstanding
           /\ DOMAIN r.prefetched = DOMAIN t.prefetched \ {l}
           /\ r.lateReported = t.lateReported
           /\ r.pollutionVictims \subseteq t.pollutionVictims \ LinesOf(victims)
           /\ r.counts.fills = t.counts.fills
           /\ Settled(r) + If(l \in Unused(t)) = Settled(t)
<1> DEFINE s == Displaced(t, victims, "Demand")
<1>1. r = Installed(s, l, "Demand")
  BY DEF HandleFill, CacheFill
<1>2. /\ Sound(s) /\ Same(t, s) /\ s.outstanding = t.outstanding
      /\ DOMAIN s.prefetched = DOMAIN t.prefetched
      /\ Unused(s) = Unused(t)
      /\ s.lateReported = t.lateReported
      /\ s.pollutionVictims \subseteq t.pollutionVictims \ LinesOf(victims)
  <2>1. "Demand" \in Origins
    BY DEF Origins
  <2> QED BY <2>1, DisplacedIs
<1> HIDE DEF s
<1> QED BY <1>1, <1>2, DemandInstalledIs DEF Same

--------------------------------------------------------------------------------
\* Before the first request there is nothing to account for.
LEMMA InitInv == Init => Inv
<1> SUFFICES ASSUME Init PROVE Inv OBVIOUS
<1>1. /\ block = <<>> /\ mshr = <<>> /\ DOMAIN block = {} /\ DOMAIN mshr = {}
      /\ q = NewTracker /\ history = NoHistory
  BY DEF Init
<1>2. \A V : <<>> \in Partial(V)
  <2>1. \A V : <<>> \in [{} -> V]
    OBVIOUS
  <2>2. {} \in SUBSET Lines
    OBVIOUS
  <2> QED BY <2>1, <2>2, Zenon DEF Partial
<1>3. /\ DOMAIN q.prefetched = {} /\ Unused(q) = {} /\ q.lateReported = {}
      /\ q.pollutionVictims = {} /\ q.counts = NoCounts
  BY <1>1 DEF NewTracker, Unused
<1>4. IsFiniteSet({}) /\ Cardinality({}) = 0
  BY FS_EmptySet
<1>5. Sound(q)
  <2>1. q.prefetched = <<>>
    BY <1>1 DEF NewTracker
  <2>2. q.prefetched \in Partial(BOOLEAN)
    BY <1>2, <2>1
  <2>3. q.counts \in Counts
    BY <1>3 DEF NoCounts, Counts
  <2> QED BY <1>1, <1>3, <1>4, <2>2, <2>3 DEF Sound, NewTracker
<1>6. Typed
  BY <1>1, <1>2, <1>5 DEF Typed, NoHistory, Histories
<1>7. Accounted
  BY <1>1, <1>3, <1>4 DEF Accounted, NoHistory, NoCounts
<1> QED BY <1>1, <1>3, <1>6, <1>7 DEF Inv, TracksResident, MissesAgree,
           LateAgrees, LateMatchesDemand, PollutionByDVR, NoHistory

--------------------------------------------------------------------------------
\* The account in terms of what the tracker knows.
LEMMA Reckoned ==
    ASSUME NEW t, Sound(t), NEW a \in Nat, NEW b \in Nat
    PROVE  /\ Settled(t) \in Nat /\ t.counts.fills \in Nat
           /\ t.counts.fills = t.counts.usefulTimely + a
                     + t.counts.unusedEvictions + b + t.counts.redundantFills
                     + Cardinality(Unused(t))
                <=> t.counts.fills = Settled(t) + a + b
<1>1. t.counts \in Counts
  BY DEF Sound
<1>2. Cardinality(Unused(t)) \in Nat
  BY UnusedFinite
<1> QED BY <1>1, <1>2 DEF Settled, Counts

\* The misses after a response.
LEMMA ServicedIs ==
    ASSUME Typed, NEW l \in DOMAIN mshr, NEW shared \in BOOLEAN, NEW s,
           s = Serviced(l, shared)
    PROVE  /\ s \in Partial(Misses)
           /\ DOMAIN mshr \ {l} \subseteq DOMAIN s
           /\ DOMAIN s \subseteq DOMAIN mshr
           /\ \A m \in DOMAIN mshr \ {l} : s[m] = mshr[m]
           /\ l \in DOMAIN s <=> Again(l, shared)
           /\ l \in DOMAIN s => s[l].origin = "Demand"
<1> DEFINE sent == [origin |-> "Demand", owned |-> TRUE, write |-> FALSE]
<1>1. mshr \in Partial(Misses)
  BY DEF Typed
<1>2. l \in Lines
  BY <1>1, PartialIs
<1>3. sent \in Misses /\ sent.origin = "Demand"
  BY DEF Misses, Origins
<1> HIDE DEF sent
<1>4. CASE Again(l, shared)
  <2>1. s = Changed(mshr, l, sent)
    BY <1>4 DEF Serviced, sent, Changed
  <2>2. sent \in Misses
    BY <1>3
  <2>3. /\ Changed(mshr, l, sent) \in Partial(Misses)
        /\ DOMAIN Changed(mshr, l, sent) = DOMAIN mshr
        /\ Changed(mshr, l, sent)[l] = sent
        /\ \A m \in DOMAIN mshr \ {l} : Changed(mshr, l, sent)[m] = mshr[m]
    BY <1>1, <2>2, ChangedIs
  <2> QED BY <1>3, <1>4, <2>1, <2>3
<1>5. CASE ~Again(l, shared)
  <2>1. s = Without(mshr, {l})
    BY <1>5 DEF Serviced
  <2>2. {l} \in SUBSET Lines
    BY <1>2
  <2>3. /\ Without(mshr, {l}) \in Partial(Misses)
        /\ DOMAIN Without(mshr, {l}) = DOMAIN mshr \ {l}
        /\ \A m \in DOMAIN mshr \ {l} : Without(mshr, {l})[m] = mshr[m]
    BY <1>1, <2>2, WithoutIs, Zenon
  <2> QED BY <1>5, <2>1, <2>3
<1> QED BY <1>4, <1>5

\* t is the tracker after the victims of a fill were removed.
Removed(victims, t) ==
    /\ LinesOf(victims) \subseteq DOMAIN block
    /\ LinesOf(victims) \cap DOMAIN mshr = {}
    /\ Sound(t) /\ Same(q, t) /\ t.outstanding = q.outstanding
    /\ DOMAIN t.prefetched = DOMAIN q.prefetched \ LinesOf(victims)
    /\ Unused(t) = Unused(q) \ LinesOf(victims)
    /\ t.lateReported = q.lateReported \ LinesOf(victims)
    /\ t.pollutionVictims = q.pollutionVictims \ LinesOf(victims)

\* The line is installed in their place.
Fills(l, shared, victims, t) ==
    /\ q' = HandleFill(t, l, mshr[l].origin, victims)
    /\ block' \in Partial(Blocks)
    /\ DOMAIN block' = (DOMAIN block \ LinesOf(victims)) \cup {l}
    /\ block'[l] = Filled(l, shared)
    /\ \A m \in DOMAIN block' \ {l} : block'[m] = block[m]
    /\ history' \in Histories
    /\ history'.lateFills = HistoryOfFill(l).lateFills
    /\ history'.upgraded = HistoryOfFill(l).upgraded
    /\ history'.joined = history.joined \ {l}
    /\ \A m \in Lines : history'.displaced[m] =
           IF m \in LinesOf(victims) THEN mshr[l].origin
                                     ELSE history.displaced[m]

\* A fill keeps the invariant, whatever was removed for it.
LEMMA FillKeeps ==
    ASSUME Inv, NEW l \in DOMAIN mshr, NEW shared \in BOOLEAN, NEW victims,
           NEW t, mshr' = Serviced(l, shared), Removed(victims, t),
           Fills(l, shared, victims, t)
    PROVE  Inv'
<1> DEFINE W == LinesOf(victims)
<1> USE DEF Inv, Removed, Fills
<1>1. /\ mshr \in Partial(Misses) /\ DOMAIN mshr \subseteq Lines
      /\ l \in Lines /\ mshr[l] \in Misses /\ mshr[l].origin \in Origins
      /\ block \in Partial(Blocks) /\ DOMAIN block \subseteq Lines
  <2>1. mshr \in Partial(Misses) /\ block \in Partial(Blocks)
    BY DEF Typed
  <2>2. /\ DOMAIN mshr \subseteq Lines /\ DOMAIN block \subseteq Lines
        /\ mshr[l] \in Misses
    BY <2>1, PartialIs, Zenon
  <2> QED BY <2>1, <2>2 DEF Misses
<1>2. /\ mshr' \in Partial(Misses)
      /\ DOMAIN mshr \ {l} \subseteq DOMAIN mshr'
      /\ DOMAIN mshr' \subseteq DOMAIN mshr
      /\ \A m \in DOMAIN mshr \ {l} : mshr'[m] = mshr[m]
      /\ l \in DOMAIN mshr' <=> Again(l, shared)
      /\ l \in DOMAIN mshr' => mshr'[l].origin = "Demand"
  BY ServicedIs
<1>3. /\ block'[l].dvr <=> mshr[l].origin = "DVR"
      /\ block'[l].readable <=> ~Again(l, shared)
  <2> DEFINE dvr == mshr[l].origin = "DVR"
             readable == ~Again(l, shared)
             writable == ~shared
  <2>1. block'[l] = [dvr |-> dvr, readable |-> readable, writable |-> writable]
    BY DEF Filled
  <2> HIDE DEF dvr, readable, writable
  <2>2. block'[l].dvr = dvr /\ block'[l].readable = readable
    BY <2>1
  <2> QED BY <2>2, Zenon DEF dvr, readable
<1>4. /\ history.lateFills \in Nat /\ history.upgraded \in Nat
      /\ history'.lateFills = history.lateFills +
             If(/\ mshr[l].origin = "DVR" /\ l \in q.lateReported
                /\ l \notin DOMAIN q.prefetched)
      /\ history'.upgraded = history.upgraded +
             If(mshr[l].origin = "Demand" /\ l \in Unused(q))
  BY DEF HistoryOfFill, Typed, Histories
<1>5. l \notin W
  OBVIOUS
<1>6. W \subseteq Lines /\ W \cap DOMAIN t.prefetched = {}
  BY <1>1, Zenon, SMTT(30)
<1>7. MissesAgree'
  BY <1>1, <1>2, <1>3 DEF MissesAgree
<1>8. q.counts.fills = Settled(q) + history.lateFills + history.upgraded
  BY <1>4, Reckoned DEF Accounted, Typed
<1>9. ASSUME Sound(q'), q'.counts.fills = Settled(q') + history'.lateFills
                                             + history'.upgraded
      PROVE  Typed' /\ Accounted'
  <2>1. history'.lateFills \in Nat /\ history'.upgraded \in Nat
    BY Zenon, SMTT(30) DEF Histories
  <2>2. Accounted'
    BY <1>9, <2>1, Reckoned, Zenon, SMTT(30) DEF Accounted
  <2> QED BY <1>2, <1>9, <2>2 DEF Typed
<1>10. /\ history.lateFills \in Nat /\ history.upgraded \in Nat
       /\ Settled(q) \in Nat /\ q.counts.fills \in Nat
  BY <1>4, Reckoned, Zenon, SMTT(30) DEF Typed
<1>11. CASE mshr[l].origin = "DVR"
  <2>1. /\ Sound(q')
        /\ \A m \in Lines : q'.outstanding[m] =
               IF m = l THEN 0 ELSE t.outstanding[m]
        /\ DOMAIN q'.prefetched = DOMAIN t.prefetched \cup {l}
        /\ q'.lateReported = t.lateReported \ {l}
        /\ q'.pollutionVictims \subseteq t.pollutionVictims \cup W
        /\ q'.counts.fills = t.counts.fills + 1
        /\ Settled(q') + If(l \in t.lateReported /\ l \notin DOMAIN t.prefetched)
               = Settled(t) + 1
    <3>1. q' = HandleFill(t, l, "DVR", victims)
      BY <1>11, Zenon, SMTT(30)
    <3> QED BY <1>1, <1>6, <3>1, DVRFillIs
  <2>2. Typed' /\ Accounted'
    <3> DEFINE late == If(l \in t.lateReported /\ l \notin DOMAIN t.prefetched)
    <3>1. late \in 0 .. 1
      BY DEF If
    <3>2. /\ history'.lateFills = history.lateFills + late
          /\ history'.upgraded = history.upgraded
      BY <1>4, <1>5, <1>11 DEF If
    <3>3. Settled(q') + late = Settled(q) + 1 /\ q'.counts.fills = q.counts.fills + 1
      BY <2>1, Zenon, SMTT(30) DEF Same
    <3>4. Settled(q') \in Nat
      BY <2>1, Reckoned, Zenon, SMTT(30)
    <3> HIDE DEF late
    <3>5. q.counts.fills + 1 =
              Settled(q') + (history.lateFills + late) + history.upgraded
      BY <1>8, <1>10, <3>1, <3>3, <3>4
    <3>6. q'.counts.fills = Settled(q') + history'.lateFills + history'.upgraded
      BY <3>2, <3>3, <3>5, Zenon, SMTT(30)
    <3> QED BY <1>9, <2>1, <3>6, Zenon, SMTT(30)
  <2>3. TracksResident'
    BY <1>3, <1>5, <1>11, <2>1, Zenon, SMTT(30) DEF TracksResident
  <2>4. LateAgrees'
    BY <1>1, <1>2, <1>5, <2>1 DEF LateAgrees, LateMatchesDemand
  <2>5. PollutionByDVR'
    <3> SUFFICES ASSUME NEW m \in q'.pollutionVictims \ DOMAIN block'
                 PROVE  history'.displaced[m] = "DVR"
      BY Zenon, SMTT(30) DEF PollutionByDVR
    <3>1. m \in Lines
      BY <2>1, Zenon, SMTT(30) DEF Sound
    <3>2. CASE m \in W
      BY <1>11, <2>1, <3>1, <3>2, Zenon, SMTT(30)
    <3>3. CASE m \notin W
      <4>1. m \in q.pollutionVictims \ DOMAIN block
        BY <2>1, <3>3, Zenon, SMTT(30)
      <4> QED BY <3>1, <3>3, <4>1, Zenon, SMTT(30) DEF PollutionByDVR
    <3> QED BY <3>2, <3>3, Zenon, SMTT(30)
  <2> QED BY <1>7, <2>2, <2>3, <2>4, <2>5, Zenon, SMTT(30)
<1>12. CASE mshr[l].origin = "Demand"
  <2>1. /\ Sound(q') /\ q'.outstanding = t.outstanding
        /\ DOMAIN q'.prefetched = DOMAIN t.prefetched \ {l}
        /\ q'.lateReported = t.lateReported
        /\ q'.pollutionVictims \subseteq t.pollutionVictims \ W
        /\ q'.counts.fills = t.counts.fills
        /\ Settled(q') + If(l \in Unused(t)) = Settled(t)
    <3>1. q' = HandleFill(t, l, "Demand", victims)
      BY <1>12, Zenon, SMTT(30)
    <3> QED BY <1>1, <1>6, <3>1, DemandFillIs
  <2>2. Typed' /\ Accounted'
    <3> DEFINE lost == If(l \in Unused(t))
    <3>1. lost \in 0 .. 1
      BY SMTT(30) DEF If
    <3>2. /\ history'.lateFills = history.lateFills
          /\ history'.upgraded = history.upgraded + lost
      BY <1>4, <1>5, <1>12 DEF If
    <3>3. Settled(q') + lost = Settled(q) /\ q'.counts.fills = q.counts.fills
      BY <2>1, Zenon, SMTT(30) DEF Same
    <3>4. Settled(q') \in Nat
      BY <2>1, Reckoned, Zenon, SMTT(30)
    <3> HIDE DEF lost
    <3>5. q'.counts.fills = Settled(q') + history'.lateFills + history'.upgraded
      BY <1>8, <1>10, <3>1, <3>2, <3>3, <3>4, SMTT(30)
    <3> QED BY <1>9, <2>1, <3>5, Zenon, SMTT(30)
  <2>3. TracksResident'
    BY <1>3, <1>5, <1>12, <2>1, Zenon, SMTT(30) DEF TracksResident
  <2>4. LateAgrees'
    BY <1>1, <1>2, <1>5, <2>1 DEF LateAgrees, LateMatchesDemand
  <2>5. PollutionByDVR'
    <3> SUFFICES ASSUME NEW m \in q'.pollutionVictims \ DOMAIN block'
                 PROVE  history'.displaced[m] = "DVR"
      BY DEF PollutionByDVR
    <3>1. m \in Lines
      BY <2>1, Zenon, SMTT(30) DEF Sound
    <3>2. CASE m \in W
      BY <1>12, <2>1, <3>1, <3>2, Zenon, SMTT(30)
    <3>3. CASE m \notin W
      <4>1. m \in q.pollutionVictims \ DOMAIN block
        BY <2>1, <3>3
      <4> QED BY <3>1, <3>3, <4>1 DEF PollutionByDVR
    <3> QED BY <3>2, <3>3
  <2> QED BY <1>7, <2>2, <2>3, <2>4, <2>5
<1> QED BY <1>1, <1>11, <1>12 DEF Origins

\* The block and the history of a fill.
LEMMA FilledIs ==
    ASSUME Typed, NEW l \in DOMAIN mshr, NEW shared \in BOOLEAN
    PROVE  /\ Filled(l, shared) \in Blocks
           /\ HistoryOfFill(l) \in Histories
           /\ HistoryOfFill(l).displaced = history.displaced
           /\ HistoryOfFill(l).joined = history.joined \ {l}
<1>1. Filled(l, shared) \in Blocks
  <2> DEFINE dvr == mshr[l].origin = "DVR"
             readable == ~Again(l, shared)
             writable == ~shared
  <2>1. Filled(l, shared) = [dvr |-> dvr, readable |-> readable,
                             writable |-> writable]
    BY DEF Filled
  <2>2. dvr \in BOOLEAN /\ readable \in BOOLEAN /\ writable \in BOOLEAN
    BY DEF Again
  <2> HIDE DEF dvr, readable, writable
  <2> QED BY <2>1, <2>2 DEF Blocks
<1>2. /\ HistoryOfFill(l) \in Histories
      /\ HistoryOfFill(l).displaced = history.displaced
      /\ HistoryOfFill(l).joined = history.joined \ {l}
  <2> DEFINE a == If(/\ mshr[l].origin = "DVR" /\ l \in q.lateReported
                     /\ l \notin DOMAIN q.prefetched)
             b == If(mshr[l].origin = "Demand" /\ l \in Unused(q))
  <2>1. a \in Nat /\ b \in Nat
    BY DEF If
  <2>2. HistoryOfFill(l) =
            [history EXCEPT !.lateFills = history.lateFills + a,
                            !.upgraded = history.upgraded + b,
                            !.joined = history.joined \ {l}]
    BY DEF HistoryOfFill
  <2> HIDE DEF a, b
  <2>3. history \in Histories
    BY DEF Typed, Histories
  <2> DEFINE c == history.lateFills + a
             d == history.upgraded + b
             j == history.joined \ {l}
  <2>4. c \in Nat /\ d \in Nat /\ j \in SUBSET Lines
    BY <2>1, <2>3 DEF Histories
  <2>5. HistoryOfFill(l) = [history EXCEPT !.lateFills = c, !.upgraded = d,
                                           !.joined = j]
    BY <2>2
  <2> HIDE DEF c, d, j
  <2>6. /\ HistoryOfFill(l) \in Histories
        /\ HistoryOfFill(l).displaced = history.displaced
        /\ HistoryOfFill(l).joined = j
    BY <2>3, <2>4, <2>5, Zenon DEF Histories
  <2> QED BY <2>6 DEF j
<1> QED BY <1>1, <1>2

\* A fill that displaces nothing.
LEMMA FillStep ==
    ASSUME Inv, NEW l \in DOMAIN mshr, NEW shared \in BOOLEAN,
           mshr' = Serviced(l, shared),
           Upgrade(l, shared) \/ Allocate(l, shared)
    PROVE  Inv'
<1>1. Typed
  BY DEF Inv
<1>2. /\ q' = HandleFill(q, l, mshr[l].origin, NoVictim)
      /\ history' = HistoryOfFill(l)
  BY DEF Upgrade, Allocate
<1>3. /\ mshr \in Partial(Misses) /\ block \in Partial(Blocks) /\ Sound(q)
      /\ history \in Histories
  BY <1>1 DEF Typed, Histories
<1>4. l \in Lines
  BY <1>3, PartialIs
<1>5. Filled(l, shared) \in Blocks
  BY <1>1, FilledIs
<1>6. /\ block' \in Partial(Blocks) /\ DOMAIN block' = DOMAIN block \cup {l}
      /\ block'[l] = Filled(l, shared)
      /\ \A m \in DOMAIN block' \ {l} : block'[m] = block[m]
  <2>1. CASE Upgrade(l, shared)
    <3>1. l \in DOMAIN block /\ block' = Changed(block, l, Filled(l, shared))
      BY <2>1 DEF Upgrade, Changed
    <3>2. /\ Changed(block, l, Filled(l, shared)) \in Partial(Blocks)
          /\ DOMAIN Changed(block, l, Filled(l, shared)) = DOMAIN block
          /\ Changed(block, l, Filled(l, shared))[l] = Filled(l, shared)
          /\ \A m \in DOMAIN block \ {l} :
                 Changed(block, l, Filled(l, shared))[m] = block[m]
      BY <1>3, <1>5, <3>1, ChangedIs
    <3> QED BY <3>1, <3>2
  <2>2. CASE Allocate(l, shared)
    <3>1. block' = With(block, l, Filled(l, shared))
      BY <2>2 DEF Allocate
    <3>2. /\ With(block, l, Filled(l, shared)) \in Partial(Blocks)
          /\ DOMAIN With(block, l, Filled(l, shared)) = DOMAIN block \cup {l}
          /\ With(block, l, Filled(l, shared))[l] = Filled(l, shared)
          /\ \A m \in DOMAIN block \ {l} :
                 With(block, l, Filled(l, shared))[m] = block[m]
      BY <1>3, <1>4, <1>5, WithIs
    <3> QED BY <3>1, <3>2
  <2> QED BY <2>1, <2>2
<1>7. LinesOf(NoVictim) = {}
  BY Zenon, SMTT(30) DEF LinesOf, NoVictim
<1>8. /\ history' \in Histories /\ history'.joined = history.joined \ {l}
      /\ history'.displaced = history.displaced
  BY <1>1, <1>2, FilledIs, Zenon, SMTT(30)
<1>9. Removed(NoVictim, q)
  BY <1>3, <1>7, Zenon, SMTT(30) DEF Removed, Same
<1>10. Fills(l, shared, NoVictim, q)
  BY <1>2, <1>6, <1>7, <1>8 DEF Fills
<1> QED BY <1>9, <1>10, FillKeeps

\* A resident line has a record exactly if it has the DVR flag.
LEMMA OriginIs ==
    ASSUME Inv, NEW l \in DOMAIN block
    PROVE  /\ l \in Lines /\ OriginOf(l) \in Origins
           /\ OriginOf(l) = "DVR" \/ l \notin DOMAIN q.prefetched
<1>1. block \in Partial(Blocks)
  BY DEF Inv, Typed
<1>2. l \in Lines
  BY <1>1, PartialIs, SMTT(30)
<1> QED BY <1>2 DEF Inv, TracksResident, OriginOf, Origins

\* A fill that replaces a line: it is removed first, and reported again.
LEMMA ReplaceStep ==
    ASSUME Inv, NEW l \in DOMAIN mshr, NEW shared \in BOOLEAN,
           mshr' = Serviced(l, shared),
           NEW victim \in DOMAIN block, Replace(l, victim, shared)
    PROVE  Inv'
<1> DEFINE t == CacheRemove(q, victim, OriginOf(victim))
           victims == {[line |-> victim, origin |-> OriginOf(victim)]}
<1>1. Typed
  BY DEF Inv
<1>2. /\ l \notin DOMAIN block /\ victim \notin DOMAIN mshr
      /\ q' = HandleFill(t, l, mshr[l].origin, victims)
      /\ block' = With(Without(block, {victim}), l, Filled(l, shared))
      /\ history' = [HistoryOfFill(l) EXCEPT !.displaced[victim] = mshr[l].origin]
  BY DEF Replace
<1>3. /\ mshr \in Partial(Misses) /\ block \in Partial(Blocks) /\ Sound(q)
      /\ history \in Histories
  BY <1>1 DEF Typed
<1>4. l \in Lines /\ mshr[l] \in Misses
  BY <1>3, PartialIs
<1>5. LinesOf(victims) = {victim}
  BY DEF LinesOf
<1> HIDE DEF victims
<1>6. /\ victim \in Lines /\ OriginOf(victim) \in Origins
      /\ OriginOf(victim) = "DVR" \/ victim \notin DOMAIN q.prefetched
  BY OriginIs
<1>7. /\ Sound(t) /\ Same(q, t) /\ t.outstanding = q.outstanding
      /\ DOMAIN t.prefetched = DOMAIN q.prefetched \ {victim}
      /\ Unused(t) = Unused(q) \ {victim}
      /\ t.lateReported = q.lateReported \ {victim}
      /\ t.pollutionVictims = q.pollutionVictims \ {victim}
  BY <1>3, <1>6, RemoveIs
<1> HIDE DEF t
<1>8. /\ block' \in Partial(Blocks)
      /\ DOMAIN block' = (DOMAIN block \ {victim}) \cup {l}
      /\ block'[l] = Filled(l, shared)
      /\ \A m \in DOMAIN block' \ {l} : block'[m] = block[m]
  <2> DEFINE rest == Without(block, {victim})
  <2>1. {victim} \in SUBSET Lines
    BY <1>6
  <2>2. /\ rest \in Partial(Blocks) /\ DOMAIN rest = DOMAIN block \ {victim}
        /\ \A m \in DOMAIN block \ {victim} : rest[m] = block[m]
    BY <1>3, <2>1, WithoutIs, Zenon
  <2> HIDE DEF rest
  <2>3. Filled(l, shared) \in Blocks
    BY <1>1, FilledIs
  <2>4. /\ With(rest, l, Filled(l, shared)) \in Partial(Blocks)
        /\ DOMAIN With(rest, l, Filled(l, shared)) = DOMAIN rest \cup {l}
        /\ With(rest, l, Filled(l, shared))[l] = Filled(l, shared)
        /\ \A m \in DOMAIN rest \ {l} :
               With(rest, l, Filled(l, shared))[m] = rest[m]
    BY <1>4, <2>2, <2>3, WithIs
  <2> QED BY <1>2, <2>2, <2>4, Zenon, SMTT(30) DEF rest
<1>9. /\ history' \in Histories /\ history'.joined = history.joined \ {l}
      /\ history'.lateFills = HistoryOfFill(l).lateFills
      /\ history'.upgraded = HistoryOfFill(l).upgraded
      /\ \A m \in Lines : history'.displaced[m] =
             IF m = victim THEN mshr[l].origin ELSE history.displaced[m]
  <2>1. /\ HistoryOfFill(l) \in Histories
        /\ HistoryOfFill(l).displaced = history.displaced
        /\ HistoryOfFill(l).joined = history.joined \ {l}
    BY <1>1, FilledIs
  <2>2. mshr[l].origin \in Origins
    BY <1>4 DEF Misses
  <2> QED BY <1>2, <1>6, <2>1, <2>2 DEF Histories
<1>10. Removed(victims, t)
  BY <1>2, <1>5, <1>7 DEF Removed
<1>11. Fills(l, shared, victims, t)
  BY <1>2, <1>5, <1>8, <1>9 DEF Fills
<1> QED BY <1>10, <1>11, FillKeeps

--------------------------------------------------------------------------------
\* Without a fill the account stays balanced.
LEMMA StillAccounted ==
    ASSUME Inv, Sound(q'), Same(q, q'), history' \in Histories,
           history'.lateFills = history.lateFills,
           history'.upgraded = history.upgraded
    PROVE  Accounted'
<1>1. /\ Sound(q) /\ history.lateFills \in Nat /\ history.upgraded \in Nat
  BY DEF Inv, Typed, Histories
<1>2. q.counts.fills = Settled(q) + history.lateFills + history.upgraded
  BY <1>1, Reckoned DEF Inv, Accounted
<1>3. q'.counts.fills = Settled(q') + history'.lateFills + history'.upgraded
  BY <1>2 DEF Same
<1>4. history'.lateFills \in Nat /\ history'.upgraded \in Nat
  BY <1>1
<1> QED BY <1>3, <1>4, Reckoned DEF Accounted

\* A line passes through the temporary block and is gone.
LEMMA PassStep ==
    ASSUME Inv, NEW l \in DOMAIN mshr, NEW shared \in BOOLEAN,
           mshr' = Serviced(l, shared),
           NEW victim \in DOMAIN block, PassThrough(l, victim)
    PROVE  Inv'
<1>1. Typed /\ TracksResident /\ MissesAgree /\ LateAgrees /\ PollutionByDVR
  BY DEF Inv
<1>2. /\ l \notin DOMAIN block /\ q' = CacheRemove(q, l, "Demand")
      /\ history' = [history EXCEPT !.displaced[l] = "none",
                                    !.joined = history.joined \ {l}]
      /\ block' = block
  BY DEF PassThrough
<1>3. mshr \in Partial(Misses) /\ Sound(q) /\ history \in Histories
  BY <1>1 DEF Typed
<1>4. l \in Lines /\ DOMAIN mshr \subseteq Lines
  BY <1>3, PartialIs
<1>5. l \notin DOMAIN q.prefetched /\ "Demand" \in Origins
  BY <1>1, <1>2 DEF TracksResident, Origins
<1>6. /\ Sound(q') /\ Same(q, q') /\ q'.outstanding = q.outstanding
      /\ DOMAIN q'.prefetched = DOMAIN q.prefetched \ {l}
      /\ q'.lateReported = q.lateReported \ {l}
      /\ q'.pollutionVictims = q.pollutionVictims \ {l}
  BY <1>2, <1>3, <1>4, <1>5, RemoveIs
<1>7. /\ mshr' \in Partial(Misses)
      /\ DOMAIN mshr \ {l} \subseteq DOMAIN mshr'
      /\ DOMAIN mshr' \subseteq DOMAIN mshr
      /\ \A m \in DOMAIN mshr \ {l} : mshr'[m] = mshr[m]
      /\ l \in DOMAIN mshr' => mshr'[l].origin = "Demand"
  BY <1>1, ServicedIs
<1>8. /\ history' \in Histories
      /\ history'.lateFills = history.lateFills
      /\ history'.upgraded = history.upgraded
      /\ history'.joined = history.joined \ {l}
      /\ \A m \in Lines \ {l} : history'.displaced[m] = history.displaced[m]
  BY <1>2, <1>3, <1>4, Zenon DEF Histories
<1>9. Accounted'
  BY <1>6, <1>8, StillAccounted
<1>10. Typed'
  BY <1>1, <1>2, <1>6, <1>7, <1>8 DEF Typed
<1>11. TracksResident'
  BY <1>1, <1>2, <1>5, <1>6 DEF TracksResident
<1>12. MissesAgree'
  BY <1>1, <1>2, <1>7, <1>8 DEF MissesAgree
<1>13. LateAgrees'
  BY <1>1, <1>2, <1>4, <1>6, <1>7, <1>8 DEF LateAgrees, LateMatchesDemand
<1>14. PollutionByDVR'
  BY <1>1, <1>2, <1>3, <1>6, <1>8 DEF PollutionByDVR, Sound
<1> QED BY <1>9, <1>10, <1>11, <1>12, <1>13, <1>14 DEF Inv

\* A miss is started.
LEMMA MissIs ==
    ASSUME NEW f \in Partial(Misses), NEW l \in Lines, NEW miss \in Misses
    PROVE  /\ With(f, l, miss) \in Partial(Misses)
           /\ DOMAIN With(f, l, miss) = DOMAIN f \cup {l}
           /\ With(f, l, miss)[l] = miss
           /\ \A m \in DOMAIN f \ {l} : With(f, l, miss)[m] = f[m]
<1>1. PICK D \in SUBSET Lines : f \in [D -> Misses]
  BY DEF Partial
<1>2. With(f, l, miss) \in [D \cup {l} -> Misses]
  BY <1>1 DEF With
<1>3. D \cup {l} \in SUBSET Lines
  OBVIOUS
<1>4. With(f, l, miss) \in Partial(Misses)
  BY <1>2, <1>3, Zenon DEF Partial
<1> QED BY <1>1, <1>4 DEF With

\* A snoop removes a line.
LEMMA InvalidateStep ==
    ASSUME Inv, NEW l \in DOMAIN block, Invalidate(l)
    PROVE  Inv'
<1>1. Typed /\ TracksResident /\ MissesAgree /\ LateAgrees /\ PollutionByDVR
  BY DEF Inv
<1>2. /\ q' = CacheRemove(q, l, OriginOf(l)) /\ block' = Without(block, {l})
      /\ history' = [history EXCEPT !.displaced[l] = "none"] /\ mshr' = mshr
  BY DEF Invalidate
<1>3. block \in Partial(Blocks) /\ Sound(q) /\ history \in Histories
  BY <1>1 DEF Typed
<1>4. /\ l \in Lines /\ OriginOf(l) \in Origins
      /\ OriginOf(l) = "DVR" \/ l \notin DOMAIN q.prefetched
  BY OriginIs
<1>5. /\ Sound(q') /\ Same(q, q') /\ q'.outstanding = q.outstanding
      /\ DOMAIN q'.prefetched = DOMAIN q.prefetched \ {l}
      /\ q'.lateReported = q.lateReported \ {l}
      /\ q'.pollutionVictims = q.pollutionVictims \ {l}
  BY <1>2, <1>3, <1>4, RemoveIs
<1>6. /\ block' \in Partial(Blocks) /\ DOMAIN block' = DOMAIN block \ {l}
      /\ \A m \in DOMAIN block \ {l} : block'[m] = block[m]
  <2>1. {l} \in SUBSET Lines
    BY <1>4
  <2>2. /\ Without(block, {l}) \in Partial(Blocks)
        /\ DOMAIN Without(block, {l}) = DOMAIN block \ {l}
        /\ \A m \in DOMAIN block \ {l} : Without(block, {l})[m] = block[m]
    BY <1>3, <2>1, WithoutIs, Zenon
  <2> QED BY <1>2, <2>2
<1>7. /\ history' \in Histories
      /\ history'.lateFills = history.lateFills
      /\ history'.upgraded = history.upgraded
      /\ history'.joined = history.joined
      /\ \A m \in Lines \ {l} : history'.displaced[m] = history.displaced[m]
  BY <1>2, <1>3, <1>4 DEF Histories
<1>8. Accounted'
  BY <1>5, <1>7, StillAccounted
<1>9. Typed'
  BY <1>1, <1>2, <1>5, <1>6, <1>7 DEF Typed
<1>10. TracksResident'
  BY <1>1, <1>5, <1>6 DEF TracksResident
<1>11. MissesAgree'
  BY <1>1, <1>2, <1>6, <1>7, Zenon DEF MissesAgree
<1>12. LateAgrees'
  <2>1. \A m \in DOMAIN mshr : mshr[m].origin = "DVR" => m # l
    BY <1>1 DEF MissesAgree
  <2> QED BY <1>1, <1>2, <1>5, <1>6, <1>7, <2>1
             DEF LateAgrees, LateMatchesDemand
<1>13. PollutionByDVR'
  BY <1>1, <1>3, <1>5, <1>6, <1>7 DEF PollutionByDVR, Sound
<1> QED BY <1>8, <1>9, <1>10, <1>11, <1>12, <1>13 DEF Inv

\* A request of DVR hits, joins a miss or starts one.  A new miss is of a line
\* that nothing is known of.
LEMMA DVRStep ==
    ASSUME Inv, NEW l \in Lines, DVRRequest(l)
    PROVE  Inv'
<1>1. Typed /\ TracksResident /\ MissesAgree /\ LateAgrees /\ PollutionByDVR
  BY DEF Inv
<1>2. mshr \in Partial(Misses) /\ Sound(q) /\ history \in Histories
  BY <1>1 DEF Typed
<1>3. block' = block /\ history' = history
  BY DEF DVRRequest
<1> DEFINE t == Issued(q, l)
<1>4. /\ Sound(t) /\ Same(q, t)
      /\ \A m \in Lines : t.outstanding[m] = q.outstanding[m] + If(m = l)
      /\ DOMAIN t.prefetched = DOMAIN q.prefetched
      /\ t.lateReported = q.lateReported
      /\ t.pollutionVictims = q.pollutionVictims
  BY <1>2, IssuedIs
<1> HIDE DEF t
<1>5. \A m \in Lines : q.outstanding[m] \in Nat
  BY <1>2 DEF Sound
<1>6. DOMAIN mshr \subseteq Lines
  BY <1>2, PartialIs
<1>7. CASE Satisfied(l, FALSE)
  <2>1. q' = CompletedLine(t, l) /\ mshr' = mshr
    BY <1>7 DEF DVRRequest, t
  <2>2. /\ Sound(q') /\ Same(t, q')
        /\ \A m \in Lines : q'.outstanding[m] =
               IF m = l THEN 0 ELSE t.outstanding[m]
        /\ DOMAIN q'.prefetched = DOMAIN t.prefetched
        /\ q'.lateReported = t.lateReported
        /\ q'.pollutionVictims = t.pollutionVictims
    BY <1>4, <2>1, CompletedIs
  <2>3. Accounted'
    BY <1>2, <1>3, <1>4, <2>2, StillAccounted, Zenon, SMTT(30) DEF Same
  <2>4. Typed'
    BY <1>1, <1>3, <2>1, <2>2, Zenon, SMTT(30) DEF Typed
  <2>5. TracksResident' /\ MissesAgree'
    BY <1>1, <1>3, <1>4, <2>1, <2>2, Zenon, SMTT(30) DEF TracksResident, MissesAgree
  <2>6. LateAgrees'
    <3>1. l \in DOMAIN block
      BY <1>7 DEF Satisfied
    <3>2. \A m \in DOMAIN mshr : mshr[m].origin = "DVR" =>
              q'.outstanding[m] > 0
      <4> TAKE m \in DOMAIN mshr
      <4> HAVE mshr[m].origin = "DVR"
      <4>1. m # l /\ m \in Lines
        BY <1>1, <1>6, <3>1, Zenon, SMTT(30) DEF MissesAgree
      <4>2. q'.outstanding[m] = q.outstanding[m] + 0
        BY <1>4, <2>2, <4>1 DEF If
      <4> QED BY <1>1, <1>5, <4>1, <4>2 DEF LateAgrees
    <3> QED BY <1>1, <1>3, <1>4, <2>1, <2>2, <3>2
               DEF LateAgrees, LateMatchesDemand
  <2>7. PollutionByDVR'
    BY <1>1, <1>3, <1>4, <2>2 DEF PollutionByDVR
  <2> QED BY <2>3, <2>4, <2>5, <2>6, <2>7, Zenon, SMTT(30) DEF Inv
<1>8. CASE ~Satisfied(l, FALSE)
  <2> DEFINE miss == [origin |-> "DVR", owned |-> FALSE, write |-> FALSE]
  <2>1. /\ q' = t
        /\ mshr' = IF l \in DOMAIN mshr THEN mshr ELSE With(mshr, l, miss)
    BY <1>8 DEF DVRRequest, t
  <2>2. miss \in Misses
    BY DEF Misses, Origins
  <2>2a. miss.origin = "DVR"
    OBVIOUS
  <2> HIDE DEF miss
  <2>3. /\ mshr' \in Partial(Misses) /\ DOMAIN mshr' = DOMAIN mshr \cup {l}
        /\ \A m \in DOMAIN mshr : mshr'[m] = mshr[m]
        /\ l \notin DOMAIN mshr => mshr'[l].origin = "DVR"
    <3>1. CASE l \in DOMAIN mshr
      BY <1>2, <2>1, <3>1, Zenon, SMTT(30)
    <3>2. CASE l \notin DOMAIN mshr
      <4>1. /\ With(mshr, l, miss) \in Partial(Misses)
            /\ DOMAIN With(mshr, l, miss) = DOMAIN mshr \cup {l}
            /\ With(mshr, l, miss)[l] = miss
            /\ \A m \in DOMAIN mshr \ {l} : With(mshr, l, miss)[m] = mshr[m]
        BY <1>2, <2>2, MissIs
      <4> QED BY <2>1, <2>2a, <3>2, <4>1
    <3> QED BY <3>1, <3>2
  <2>4. l \notin DOMAIN mshr =>
            l \notin DOMAIN block /\ l \notin q.lateReported
                /\ l \notin history.joined
    BY <1>1, <1>8, Zenon, SMTT(30) DEF Satisfied, MissesAgree, LateAgrees
  <2>5. Accounted'
    BY <1>2, <1>3, <1>4, <2>1, StillAccounted, Zenon, SMTT(30)
  <2>6. Typed'
    BY <1>1, <1>3, <1>4, <2>1, <2>3, Zenon, SMTT(30) DEF Typed
  <2>7. TracksResident' /\ PollutionByDVR'
    BY <1>1, <1>3, <1>4, <2>1 DEF TracksResident, PollutionByDVR
  <2>8. MissesAgree'
    BY <1>1, <1>3, <2>3, <2>4, Zenon, SMTT(30) DEF MissesAgree
  <2>9. LateAgrees'
    <3>1. ASSUME NEW m \in DOMAIN mshr', mshr'[m].origin = "DVR"
          PROVE  q'.outstanding[m] > 0
      <4>1. m \in Lines
        BY <1>6, <2>3
      <4>2. CASE m = l
        <5>1. If(m = l) = 1
          BY <4>2, Zenon, SMTT(30) DEF If
        <5>2. q'.outstanding[m] = q.outstanding[m] + 1
          BY <1>4, <2>1, <4>1, <5>1, Zenon, SMTT(30)
        <5> QED BY <1>5, <4>1, <5>2
      <4>3. CASE m # l
        <5>1. q.outstanding[m] > 0
          BY <1>1, <2>3, <3>1, <4>3 DEF LateAgrees
        <5>2. q'.outstanding[m] = q.outstanding[m] + 0
          BY <1>4, <2>1, <4>1, <4>3 DEF If
        <5> QED BY <1>5, <4>1, <5>1, <5>2
      <4> QED BY <4>2, <4>3
    <3> QED BY <1>1, <1>3, <1>4, <2>1, <2>3, <2>4, <3>1
               DEF LateAgrees, LateMatchesDemand
  <2> QED BY <2>5, <2>6, <2>7, <2>8, <2>9, Zenon, SMTT(30) DEF Inv
<1> QED BY <1>7, <1>8, Zenon

\* A demand that joins a miss does not change its origin.
LEMMA JoinedIs ==
    ASSUME Typed, NEW l \in DOMAIN mshr, NEW write \in BOOLEAN,
           NEW sent \in BOOLEAN, NEW s, s = Joined(l, write, sent)
    PROVE  /\ s \in Partial(Misses) /\ DOMAIN s = DOMAIN mshr
           /\ \A m \in DOMAIN mshr : s[m].origin = mshr[m].origin
<1>1. mshr \in Partial(Misses)
  BY DEF Typed
<1>2. mshr[l] \in Misses
  BY <1>1, PartialIs
<1>3. ASSUME NEW miss \in Misses, miss.origin = mshr[l].origin,
             s = Changed(mshr, l, miss)
      PROVE  /\ s \in Partial(Misses) /\ DOMAIN s = DOMAIN mshr
             /\ \A m \in DOMAIN mshr : s[m].origin = mshr[m].origin
  <2>1. /\ Changed(mshr, l, miss) \in Partial(Misses)
        /\ DOMAIN Changed(mshr, l, miss) = DOMAIN mshr
        /\ Changed(mshr, l, miss)[l] = miss
        /\ \A m \in DOMAIN mshr \ {l} : Changed(mshr, l, miss)[m] = mshr[m]
    BY <1>1, <1>3, ChangedIs
  <2> QED BY <1>3, <2>1
<1>4. CASE s = mshr
  BY <1>1, <1>4
<1>5. CASE s = [mshr EXCEPT ![l].write = TRUE]
  <2>1. s = Changed(mshr, l, [mshr[l] EXCEPT !.write = TRUE])
    BY <1>5 DEF Changed
  <2>2. /\ [mshr[l] EXCEPT !.write = TRUE] \in Misses
        /\ [mshr[l] EXCEPT !.write = TRUE].origin = mshr[l].origin
    BY <1>2, Zenon DEF Misses
  <2> QED BY <1>3, <2>1, <2>2, Zenon
<1>6. CASE s = [mshr EXCEPT ![l].owned = TRUE]
  <2>1. s = Changed(mshr, l, [mshr[l] EXCEPT !.owned = TRUE])
    BY <1>6 DEF Changed
  <2>2. /\ [mshr[l] EXCEPT !.owned = TRUE] \in Misses
        /\ [mshr[l] EXCEPT !.owned = TRUE].origin = mshr[l].origin
    BY <1>2, Zenon DEF Misses
  <2> QED BY <1>3, <2>1, <2>2, Zenon
<1> QED BY <1>4, <1>5, <1>6 DEF Joined

\* A demand: the cache's side of a miss.
LEMMA DemandMiss ==
    ASSUME Inv, NEW l \in Lines, NEW write \in BOOLEAN, NEW sent \in BOOLEAN,
           DemandRequest(l, write, sent), ~Satisfied(l, write)
    PROVE  /\ mshr' \in Partial(Misses) /\ DOMAIN mshr' = DOMAIN mshr \cup {l}
           /\ \A m \in DOMAIN mshr : mshr'[m].origin = mshr[m].origin
           /\ l \notin DOMAIN mshr => mshr'[l].origin = "Demand"
           /\ block' \in Partial(Blocks) /\ DOMAIN block' = DOMAIN block
           /\ \A m \in DOMAIN block : block'[m].dvr = block[m].dvr
           /\ \A m \in DOMAIN block \ {l} : block'[m] = block[m]
<1>1. Typed /\ mshr \in Partial(Misses) /\ block \in Partial(Blocks)
  BY DEF Inv, Typed
<1>2. CASE l \in DOMAIN mshr
  <2>1. mshr' = Joined(l, write, sent) /\ block' = block
    BY <1>2 DEF DemandRequest
  <2>2. /\ mshr' \in Partial(Misses) /\ DOMAIN mshr' = DOMAIN mshr
        /\ \A m \in DOMAIN mshr : mshr'[m].origin = mshr[m].origin
    BY <1>1, <1>2, <2>1, JoinedIs
  <2> QED BY <1>1, <1>2, <2>1, <2>2
<1>3. CASE l \notin DOMAIN mshr
  <2> DEFINE miss == [origin |-> "Demand", owned |-> write, write |-> FALSE]
             old == [block[l] EXCEPT !.readable = FALSE]
  <2>1. /\ mshr' = With(mshr, l, miss)
        /\ block' = IF l \in DOMAIN block THEN Changed(block, l, old) ELSE block
    BY <1>3 DEF DemandRequest, Changed
  <2>2. miss \in Misses
    BY DEF Misses, Origins
  <2>2a. miss.origin = "Demand"
    OBVIOUS
  <2>3. l \in DOMAIN block => old \in Blocks /\ old.dvr = block[l].dvr
    <3> SUFFICES ASSUME l \in DOMAIN block
                 PROVE  old \in Blocks /\ old.dvr = block[l].dvr
      OBVIOUS
    <3>1. block[l] \in Blocks
      BY <1>1, PartialIs
    <3> QED BY <3>1, Zenon DEF Blocks
  <2> HIDE DEF miss, old
  <2>4. /\ With(mshr, l, miss) \in Partial(Misses)
        /\ DOMAIN With(mshr, l, miss) = DOMAIN mshr \cup {l}
        /\ With(mshr, l, miss)[l] = miss
        /\ \A m \in DOMAIN mshr \ {l} : With(mshr, l, miss)[m] = mshr[m]
    BY <1>1, <2>2, MissIs, ZenonT(30)
  <2>5. CASE l \in DOMAIN block
    <3>1. /\ Changed(block, l, old) \in Partial(Blocks)
          /\ DOMAIN Changed(block, l, old) = DOMAIN block
          /\ Changed(block, l, old)[l] = old
          /\ \A m \in DOMAIN block \ {l} : Changed(block, l, old)[m] = block[m]
      BY <1>1, <2>3, <2>5, ChangedIs, SMTT(30)
    <3> QED BY <1>3, <2>1, <2>2a, <2>3, <2>4, <2>5, <3>1
  <2>6. CASE l \notin DOMAIN block
    BY <1>1, <1>3, <2>1, <2>2a, <2>4, <2>6
  <2> QED BY <2>5, <2>6
<1> QED BY <1>2, <1>3

\* A demand request: a miss on a line that DVR asked for is reported late, and
\* the line is no longer a victim.
LEMMA DemandStep ==
    ASSUME Inv, NEW l \in Lines, NEW write \in BOOLEAN, NEW sent \in BOOLEAN,
           DemandRequest(l, write, sent)
    PROVE  Inv'
<1> DEFINE hit == Satisfied(l, write)
<1>1. Typed /\ TracksResident /\ MissesAgree /\ LateAgrees /\ PollutionByDVR
  BY DEF Inv
<1>2. /\ mshr \in Partial(Misses) /\ block \in Partial(Blocks)
      /\ Sound(q) /\ history \in Histories
  BY <1>1 DEF Typed
<1>3. hit \in BOOLEAN
  <2>1. l \in DOMAIN block => block[l] \in Blocks
    BY <1>2, PartialIs
  <2> QED BY <2>1 DEF Satisfied, Blocks
<1>4. q' = DemandLookup(q, l, hit)
  BY DEF DemandRequest
<1>5. /\ ~hit => history' = [history EXCEPT !.joined = history.joined \cup {l}]
      /\ hit => mshr' = mshr /\ block' = block /\ history' = history
  BY DEF DemandRequest
<1>6. ~hit =>
          /\ mshr' \in Partial(Misses) /\ DOMAIN mshr' = DOMAIN mshr \cup {l}
          /\ \A m \in DOMAIN mshr : mshr'[m].origin = mshr[m].origin
          /\ l \notin DOMAIN mshr => mshr'[l].origin = "Demand"
          /\ block' \in Partial(Blocks) /\ DOMAIN block' = DOMAIN block
          /\ \A m \in DOMAIN block : block'[m].dvr = block[m].dvr
          /\ \A m \in DOMAIN block \ {l} : block'[m] = block[m]
  <2> HAVE ~hit
  <2>1. ~Satisfied(l, write)
    BY Zenon, SMTT(30)
  <2> HIDE DEF hit
  <2> QED BY <2>1, DemandMiss, Zenon
<1> HIDE DEF hit
<1>7. /\ Sound(q') /\ Same(q, q') /\ q'.outstanding = q.outstanding
      /\ DOMAIN q'.prefetched = DOMAIN q.prefetched
      /\ \A m : m \in q'.lateReported <=>
             m \in q.lateReported \/ (m = l /\ ~hit /\ q.outstanding[l] > 0)
      /\ q'.pollutionVictims = q.pollutionVictims \ {l}
  BY <1>2, <1>3, <1>4, LookupIs
<1>8. DOMAIN block' = DOMAIN block /\ \A m \in DOMAIN block :
                                         block'[m].dvr = block[m].dvr
  BY <1>3, <1>5, <1>6
<1>9. /\ history' \in Histories
      /\ history'.lateFills = history.lateFills
      /\ history'.upgraded = history.upgraded
      /\ history'.displaced = history.displaced
      /\ history'.joined = IF hit THEN history.joined
                                  ELSE history.joined \cup {l}
  BY <1>2, <1>3, <1>5 DEF Histories
<1>10. Accounted'
  BY <1>7, <1>9, StillAccounted
<1>11. Typed'
  BY <1>1, <1>3, <1>5, <1>6, <1>7, <1>9, Zenon, SMTT(30) DEF Typed
<1>12. TracksResident' /\ PollutionByDVR'
  BY <1>1, <1>7, <1>8, <1>9 DEF TracksResident, PollutionByDVR
<1>13. MissesAgree'
  <2>1. CASE hit
    BY <1>1, <1>5, <2>1 DEF MissesAgree
  <2>2. CASE ~hit
    BY <1>1, <1>6, <1>9, <2>2 DEF MissesAgree
  <2> QED BY <1>3, <2>1, <2>2
<1>14. LateAgrees'
  <2>1. CASE hit
    BY <1>1, <1>5, <1>7, <2>1 DEF LateAgrees, LateMatchesDemand
  <2>2. CASE ~hit
    <3>1. \A m \in DOMAIN mshr' : mshr'[m].origin = "DVR" =>
              m \in DOMAIN mshr /\ mshr[m].origin = "DVR"
      BY <1>6, <2>2, Zenon, SMTT(30)
    <3>2. \A m \in DOMAIN mshr' : mshr'[m].origin = "DVR" =>
              q'.outstanding[m] > 0
      BY <1>1, <1>7, <3>1 DEF LateAgrees
    <3>3. \A m \in DOMAIN mshr' : mshr'[m].origin = "DVR" =>
              (m \in q'.lateReported <=> m \in history'.joined)
      <4> TAKE m \in DOMAIN mshr'
      <4> HAVE mshr'[m].origin = "DVR"
      <4>1. m \in q.lateReported <=> m \in history.joined
        BY <1>1, <3>1 DEF LateAgrees, LateMatchesDemand
      <4>2. q.outstanding[m] > 0
        BY <1>1, <3>1, Zenon, SMTT(30) DEF LateAgrees
      <4> QED BY <1>7, <1>9, <2>2, <4>1, <4>2
    <3>4. q'.lateReported \subseteq DOMAIN block' \cup DOMAIN mshr'
      BY <1>1, <1>6, <1>7, <2>2, Zenon, SMTT(30) DEF LateAgrees
    <3> QED BY <3>2, <3>3, <3>4 DEF LateAgrees, LateMatchesDemand
  <2> QED BY <1>3, <2>1, <2>2
<1> QED BY <1>10, <1>11, <1>12, <1>13, <1>14 DEF Inv

--------------------------------------------------------------------------------
\* Every event of the cache keeps the invariant.
LEMMA NextInv == Inv /\ [Next]_vars => Inv'
<1> SUFFICES ASSUME Inv, [Next]_vars PROVE Inv'
  OBVIOUS
<1>1. ASSUME NEW l \in Lines, DVRRequest(l) PROVE Inv'
  BY <1>1, DVRStep
<1>2. ASSUME NEW l \in Lines, NEW write \in BOOLEAN, NEW sent \in BOOLEAN,
             DemandRequest(l, write, sent)
      PROVE  Inv'
  BY <1>2, DemandStep
<1>3. ASSUME NEW l \in DOMAIN mshr, NEW shared \in BOOLEAN, Respond(l, shared)
      PROVE  Inv'
  <2>1. mshr' = Serviced(l, shared)
    BY <1>3 DEF Respond
  <2>2. CASE Upgrade(l, shared) \/ Allocate(l, shared)
    BY <2>1, <2>2, FillStep
  <2>3. ASSUME NEW victim \in DOMAIN block, Replace(l, victim, shared)
        PROVE  Inv'
    BY <2>1, <2>3, ReplaceStep
  <2>4. ASSUME NEW victim \in DOMAIN block, PassThrough(l, victim)
        PROVE  Inv'
    BY <2>1, <2>4, PassStep
  <2> QED BY <1>3, <2>2, <2>3, <2>4 DEF Respond
<1>4. ASSUME NEW l \in DOMAIN block, Invalidate(l) PROVE Inv'
  BY <1>4, InvalidateStep, Zenon, SMTT(30)
<1>5. CASE UNCHANGED vars
  <2>1. block' = block /\ mshr' = mshr /\ q' = q /\ history' = history
    BY <1>5 DEF vars
  <2> QED BY <2>1 DEF Inv, Typed, TracksResident, Accounted, MissesAgree,
             LateAgrees, LateMatchesDemand, PollutionByDVR
<1> QED BY <1>1, <1>2, <1>3, <1>4, <1>5 DEF Next

\* The inductive invariant.
LEMMA AlwaysInv == Spec => []Inv
BY InitInv, NextInv, PTL DEF Spec

--------------------------------------------------------------------------------
\* The tracker's records are the lines that the cache holds with the DVR flag,
\* after any sequence of fills, evictions, upgrades and snoops.
THEOREM AlwaysTracksResident == Spec => []TracksResident
<1>1. Inv => TracksResident
  BY DEF Inv
<1> QED BY <1>1, AlwaysInv, PTL

\* Every fill by DVR has exactly one fate in the statistics.
THEOREM AlwaysAccounted == Spec => []Accounted
<1>1. Inv => Accounted
  BY DEF Inv
<1> QED BY <1>1, AlwaysInv, PTL

\* A prefetch is late exactly if a demand asked for the line while it was in
\* flight, in whatever order requests and responses come.
THEOREM LateAlwaysMatches == Spec => []LateMatchesDemand
<1>1. Inv => LateMatchesDemand
  BY DEF Inv, LateAgrees
<1> QED BY <1>1, AlwaysInv, PTL

\* Only lines that a fill by DVR displaced count as polluted.
THEOREM PollutionAlwaysByDVR == Spec => []PollutionByDVR
<1>1. Inv => PollutionByDVR
  BY DEF Inv
<1> QED BY <1>1, AlwaysInv, PTL
================================================================================
