----------------------------- MODULE CacheQuality -----------------------------
(*****************************************************************************)
(* The events of the measured cache and the tracker that listens to them.    *)
(* One set of the cache: requests hit, start a miss (an MSHR) or join one;   *)
(* a response installs the line and evicts another, or passes through the    *)
(* temporary block; snoops invalidate lines.  A miss is of the origin of the *)
(* request that started it, whoever joins it later.                          *)
(*****************************************************************************)
EXTENDS QualityTracker

CONSTANTS MaxIssued,  \* DVR requests
          MaxDemands  \* demand requests

ASSUME BoundsAssumption == MaxIssued \in Nat /\ MaxDemands \in Nat

VARIABLES block,   \* the resident lines
          mshr,    \* the lines that miss
          q,       \* the tracker
          history  \* what the tracker's counts are compared with

vars == <<block, mshr, q, history>>

\* A block has the DVR flag and may be readable and writable.  A miss has the
\* origin of the request sent; owned: it asks for a writable line; write: a
\* write waits for the next response.  A DVR request that joins only waits.

NoHistory == [lateFills |-> 0, upgraded |-> 0,
              displaced |-> [l \in Lines |-> "none"],
              joined |-> {}]

OriginOf(l) == IF block[l].dvr THEN "DVR" ELSE "Demand"

Init ==
    /\ block = <<>>
    /\ mshr = <<>>
    /\ q = NewTracker
    /\ history = NoHistory

--------------------------------------------------------------------------------
Satisfied(l, write) ==
    l \in DOMAIN block /\ IF write THEN block[l].writable ELSE block[l].readable

\* A request of DVR, which only reads.
DVRRequest(l) ==
    /\ q.counts.issued < MaxIssued
    /\ UNCHANGED <<block, history>>
    /\ IF Satisfied(l, FALSE)
       THEN q' = CompletedLine(Issued(q, l), l) /\ UNCHANGED mshr
       ELSE /\ q' = Issued(q, l)
            /\ mshr' = IF l \in DOMAIN mshr THEN mshr
                       ELSE With(mshr, l, [origin |-> "DVR", owned |-> FALSE,
                                           write |-> FALSE])

\* A demand joins a miss.  A write that comes before the request is sent makes
\* it ask for a writable line, a later one is deferred.
Joined(l, write, sent) ==
    IF ~write \/ mshr[l].owned \/ mshr[l].write THEN mshr
    ELSE IF sent THEN [mshr EXCEPT ![l].write = TRUE]
    ELSE [mshr EXCEPT ![l].owned = TRUE]

DemandRequest(l, write, sent) ==
    /\ q.counts.demandAccesses < MaxDemands
    /\ q' = DemandLookup(q, l, Satisfied(l, write))
    /\ IF Satisfied(l, write)
       THEN UNCHANGED <<block, mshr, history>>
       ELSE /\ IF l \in DOMAIN mshr
               THEN /\ mshr' = Joined(l, write, sent)
                    /\ UNCHANGED block
               ELSE /\ mshr' = With(mshr, l, [origin |-> "Demand", owned |-> write,
                                              write |-> FALSE])
                    /\ block' = IF l \in DOMAIN block
                                THEN [block EXCEPT ![l].readable = FALSE]
                                ELSE block
            /\ history' = [history EXCEPT !.joined = @ \cup {l}]

--------------------------------------------------------------------------------
\* The miss after its response: deferred targets are sent again when the line
\* is not writable.
Again(l, shared) == shared /\ mshr[l].write

Serviced(l, shared) ==
    IF Again(l, shared)
    THEN [mshr EXCEPT ![l] = [origin |-> "Demand", owned |-> TRUE,
                              write |-> FALSE]]
    ELSE Without(mshr, {l})

Filled(l, shared) ==
    [dvr |-> mshr[l].origin = "DVR", readable |-> ~Again(l, shared),
     writable |-> ~shared]

HistoryOfFill(l) ==
    [history EXCEPT
        !.lateFills = @ + If(/\ mshr[l].origin = "DVR" /\ l \in q.lateReported
                             /\ l \notin DOMAIN q.prefetched),
        !.upgraded = @ + If(mshr[l].origin = "Demand" /\ l \in Unused(q)),
        !.joined = @ \ {l}]

\* The response for a resident line: an upgrade.
Upgrade(l, shared) ==
    /\ l \in DOMAIN block
    /\ q' = HandleFill(q, l, mshr[l].origin, NoVictim)
    /\ block' = [block EXCEPT ![l] = Filled(l, shared)]
    /\ history' = HistoryOfFill(l)

Allocate(l, shared) ==
    /\ l \notin DOMAIN block
    /\ Cardinality(DOMAIN block) < Ways
    /\ q' = HandleFill(q, l, mshr[l].origin, NoVictim)
    /\ block' = With(block, l, Filled(l, shared))
    /\ history' = HistoryOfFill(l)

\* The victim is removed first, and reported again with the fill.
Replace(l, victim, shared) ==
    /\ l \notin DOMAIN block
    /\ Cardinality(DOMAIN block) = Ways
    /\ victim \notin DOMAIN mshr
    /\ q' = HandleFill(CacheRemove(q, victim, OriginOf(victim)), l, mshr[l].origin,
                       {[line |-> victim, origin |-> OriginOf(victim)]})
    /\ block' = With(Without(block, {victim}), l, Filled(l, shared))
    /\ history' = [HistoryOfFill(l) EXCEPT !.displaced[victim] = mshr[l].origin]

\* The victim waits for an upgrade: the line passes through the temporary
\* block, which is then evicted.
PassThrough(l, victim) ==
    /\ l \notin DOMAIN block
    /\ Cardinality(DOMAIN block) = Ways
    /\ victim \in DOMAIN mshr
    /\ q' = CacheRemove(q, l, "Demand")
    /\ history' = [history EXCEPT !.displaced[l] = "none", !.joined = @ \ {l}]
    /\ UNCHANGED block

Respond(l, shared) ==
    /\ shared => ~mshr[l].owned
    /\ mshr' = Serviced(l, shared)
    /\ \/ Upgrade(l, shared)
       \/ Allocate(l, shared)
       \/ \E victim \in DOMAIN block : Replace(l, victim, shared)
       \/ \E victim \in DOMAIN block : PassThrough(l, victim)

\* A snoop.
Invalidate(l) ==
    /\ q' = CacheRemove(q, l, OriginOf(l))
    /\ block' = Without(block, {l})
    /\ history' = [history EXCEPT !.displaced[l] = "none"]
    /\ UNCHANGED mshr

Next ==
    \/ \E l \in Lines : DVRRequest(l)
    \/ \E l \in Lines, write, sent \in BOOLEAN : DemandRequest(l, write, sent)
    \/ \E l \in DOMAIN mshr, shared \in BOOLEAN : Respond(l, shared)
    \/ \E l \in DOMAIN block : Invalidate(l)

Spec == Init /\ [][Next]_vars

--------------------------------------------------------------------------------
\* The tracker knows the lines that DVR installed: those that the cache holds
\* with the DVR flag, whatever removed, replaced or upgraded the others.
TracksResident == DOMAIN q.prefetched = {l \in DOMAIN block : block[l].dvr}

\* Every fill by DVR is accounted for once: as a timely use, as late, as an
\* unused eviction, as overwritten by an upgrade, or it is resident and unused.
Accounted ==
    q.counts.fills =
        q.counts.usefulTimely + history.lateFills + q.counts.unusedEvictions
            + history.upgraded + q.counts.redundantFills + Cardinality(Unused(q))

\* A line that DVR installs counts as used on arrival exactly if a demand asked
\* for it while the request was in flight.
LateMatchesDemand ==
    \A l \in DOMAIN mshr : mshr[l].origin = "DVR" =>
        (l \in q.lateReported <=> l \in history.joined)

\* A miss is attributed to pollution only if the line last left the cache for
\* a fill by DVR.
PollutionByDVR ==
    \A l \in q.pollutionVictims \ DOMAIN block : history.displaced[l] = "DVR"
================================================================================
