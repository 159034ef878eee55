---------------------------- MODULE QualityTracker ----------------------------
(*****************************************************************************)
(* DVRQualityTracker: judges the prefetches of DVR from the events of one    *)
(* cache.  Requests are told apart by their line only, because the probe     *)
(* completes them by line.  Times and bytes are left out.                    *)
(*****************************************************************************)
EXTENDS Naturals, Sequences, FiniteSets

CONSTANTS Lines,  \* cache lines, all of one set
          Ways    \* associativity of the cache and of the shadow

ASSUME GeometryAssumption == Ways \in Nat \ {0}

Origins == {"Demand", "DVR"}
NoVictim == {}

NoCounts == [issued |-> 0, demandAccesses |-> 0, fills |-> 0,
             redundantFills |-> 0, usefulTimely |-> 0, usefulLate |-> 0,
             unusedEvictions |-> 0, pollutionMisses |-> 0]

\* prefetched says of each line that DVR installed whether it was used; shadow
\* is the demand-only cache, the line used last first.
NewTracker == [outstanding |-> [l \in Lines |-> 0], prefetched |-> <<>>,
               lateReported |-> {}, pollutionVictims |-> {}, shadow |-> <<>>,
               counts |-> NoCounts]

If(condition) == IF condition THEN 1 ELSE 0
Without(f, S) == [x \in DOMAIN f \ S |-> f[x]]
With(f, x, v) == [y \in DOMAIN f \cup {x} |-> IF y = x THEN v ELSE f[y]]

Unused(q) == {l \in DOMAIN q.prefetched : ~q.prefetched[l]}

--------------------------------------------------------------------------------
Issued(q, l) == [q EXCEPT !.outstanding[l] = @ + 1, !.counts.issued = @ + 1]

CompletedLine(q, l) == [q EXCEPT !.outstanding[l] = 0]

Held(shadow) == {shadow[i] : i \in DOMAIN shadow}

\* ShadowCache::access.
ShadowAccess(shadow, l) ==
    LET order == <<l>> \o SelectSeq(shadow, LAMBDA m : m # l)
    IN  SubSeq(order, 1, IF Len(order) > Ways THEN Ways ELSE Len(order))

DemandLookup(q, l, hit) ==
    LET shadowHit == l \in Held(q.shadow)
        timely == hit /\ l \in Unused(q)
        late == ~hit /\ q.outstanding[l] > 0 /\ l \notin q.lateReported
        polluted == ~hit /\ shadowHit /\ l \in q.pollutionVictims
    IN  [q EXCEPT !.shadow = ShadowAccess(@, l),
                  !.prefetched = IF timely THEN With(@, l, TRUE) ELSE @,
                  !.lateReported = IF late THEN @ \cup {l} ELSE @,
                  !.pollutionVictims = @ \ {l},
                  !.counts.demandAccesses = @ + 1,
                  !.counts.usefulTimely = @ + If(timely),
                  !.counts.usefulLate = @ + If(late),
                  !.counts.pollutionMisses = @ + If(polluted)]

\* The victim that a fill reports, a set of at most one [line, origin].
Displaced(q, victims, origin) ==
    LET lines == {v.line : v \in victims}
        polluted == {v.line : v \in {w \in victims : /\ origin = "DVR"
                                                     /\ w.origin = "Demand"
                                                     /\ w.line \in Held(q.shadow)}}
    IN  [q EXCEPT !.prefetched = Without(@, lines),
                  !.pollutionVictims = (@ \ lines) \cup polluted,
                  !.counts.unusedEvictions = @ + Cardinality(lines \cap Unused(q))]

\* Faulty: a late report is not matched by its fill.
Installed_LateKept(q, l, origin) ==
    IF origin = "DVR"
    THEN [q EXCEPT !.prefetched = IF l \in DOMAIN @ THEN @ ELSE With(@, l, FALSE),
                   !.counts.fills = @ + 1,
                   !.counts.redundantFills = @ + If(l \in DOMAIN q.prefetched)]
    ELSE [q EXCEPT !.prefetched = Without(@, {l}), !.pollutionVictims = @ \ {l}]
\* Faulty: a demand fill leaves the record of the prefetch.
Installed_Stale(q, l, origin) ==
    IF origin = "DVR"
    THEN [q EXCEPT !.prefetched = IF l \in DOMAIN @ THEN @
                                  ELSE With(@, l, l \in q.lateReported),
                   !.lateReported = @ \ {l},
                   !.counts.fills = @ + 1,
                   !.counts.redundantFills = @ + If(l \in DOMAIN q.prefetched)]
    ELSE [q EXCEPT !.pollutionVictims = @ \ {l}]
Installed(q, l, origin) ==
    IF origin = "DVR"
    THEN [q EXCEPT !.prefetched = IF l \in DOMAIN @ THEN @
                                  ELSE With(@, l, l \in q.lateReported),
                   !.lateReported = @ \ {l},
                   !.counts.fills = @ + 1,
                   !.counts.redundantFills = @ + If(l \in DOMAIN q.prefetched)]
    ELSE [q EXCEPT !.prefetched = Without(@, {l}), !.pollutionVictims = @ \ {l}]

CacheFill(q, l, origin, victims) ==
    Installed(Displaced(q, victims, origin), l, origin)

\* Faulty: the line stays reported late.
CacheRemove_LateKept(q, l, origin) ==
    [q EXCEPT !.pollutionVictims = @ \ {l},
              !.prefetched = IF origin = "DVR" THEN Without(@, {l}) ELSE @,
              !.counts.unusedEvictions = @ + If(origin = "DVR" /\ l \in Unused(q))]
\* Faulty: the line stays a victim of pollution.
CacheRemove_VictimKept(q, l, origin) ==
    [q EXCEPT !.lateReported = @ \ {l},
              !.prefetched = IF origin = "DVR" THEN Without(@, {l}) ELSE @,
              !.counts.unusedEvictions = @ + If(origin = "DVR" /\ l \in Unused(q))]
CacheRemove(q, l, origin) ==
    [q EXCEPT !.pollutionVictims = @ \ {l}, !.lateReported = @ \ {l},
              !.prefetched = IF origin = "DVR" THEN Without(@, {l}) ELSE @,
              !.counts.unusedEvictions = @ + If(origin = "DVR" /\ l \in Unused(q))]

\* DVRQualityProbe: a fill by DVR also completes the requests of its line.
HandleFill(q, l, origin, victims) ==
    LET filled == CacheFill(q, l, origin, victims)
    IN  IF origin = "DVR" THEN CompletedLine(filled, l) ELSE filled
================================================================================
