---------------------------- MODULE LanePredicates ----------------------------
(*****************************************************************************)
(* Value predicates: which dependent load a lane will reach is guessed from  *)
(* the value its source load returns.  Commit trains, for each dependent     *)
(* load of a trigger, the bits of the trigger's value that never changed; a  *)
(* launch freezes the bits that tell the loads apart; the values that come   *)
(* back select a load, a path, for each lane.  A value, a mask and a pattern *)
(* are sets of bits.  One generation of lanes is followed at a time; several *)
(* at once are in PrefetchQueue.                                             *)
(*****************************************************************************)
EXTENDS Naturals, FiniteSets, Sequences

CONSTANTS Bits,         \* of a register value
          Loads,        \* the dependent loads of one trigger
          Lanes,        \* that a launch admits
          MaxRelations, \* DVRPrefetchSenderState::MaxRelations
          MaxSamples    \* bound: samples trained

ASSUME PredicateAssumption ==
    /\ {"unobserved", "unmatched"} \cap Loads = {}
    /\ MaxRelations \in Nat /\ MaxSamples \in Nat

VARIABLES
    relation, \* dvrAddressRelations of the trigger
    order,    \* dvrTriggerRelations of the trigger
    samples,  \* samples trained so far
    tracker,  \* the masks and patterns of the generation
    terminal, \* its lanes that were retired
    outcome,  \* where the tracker put each lane
    counted,  \* divergenceCounted
    reported,
    seen,     \* history: the values each relation was trained with
    known,    \* history: seen, when the generation was launched
    value     \* history: the value observed for each lane

vars == <<relation, order, samples, tracker, terminal, outcome, counted,
          reported, seen, known, value>>
training == <<relation, order, samples, seen>>
generation == <<tracker, terminal, outcome, counted, reported, known,
                value>>

Values == SUBSET Bits
Unequal(a, b) == (a \ b) \cup (b \ a)

--------------------------------------------------------------------------------
\* A relation starts with every bit stable.
NoRelation ==
    [sampled |-> FALSE, trained |-> FALSE, previous |-> {}, stable |-> Bits,
     pattern |-> {}]

\* Faulty: the stable bits are final once the relation is trained.
Sampled_Final(old, source, fits) ==
    LET stable == IF old.sampled /\ ~old.trained
                  THEN old.stable \ Unequal(old.previous, source)
                  ELSE old.stable
    IN  [sampled |-> TRUE, trained |-> old.trained \/ fits, previous |-> source,
         stable |-> stable,
         pattern |-> IF old.sampled THEN old.pattern \cap stable ELSE source]
\* trainDVRAddressRelation: a sample is compared with the one before it.
Sampled(old, source, fits) ==
    LET stable == IF old.sampled THEN old.stable \ Unequal(old.previous, source)
                                 ELSE old.stable
    IN  [sampled |-> TRUE, trained |-> old.trained \/ fits, previous |-> source,
         stable |-> stable,
         pattern |-> IF old.sampled THEN old.pattern \cap stable ELSE source]

\* The dependent load commits.  Only a value that differs from the last one
\* can give the scale that makes the relation trained.
Train(load, source, fits) ==
    /\ samples < MaxSamples
    /\ fits => relation[load].sampled /\ source # relation[load].previous
    /\ samples' = samples + 1
    /\ relation' = [relation EXCEPT ![load] = Sampled(@, source, fits)]
    /\ order' = IF relation[load].sampled THEN order ELSE Append(order, load)
    /\ seen' = [seen EXCEPT ![load] = @ \cup {source}]
    /\ UNCHANGED generation

--------------------------------------------------------------------------------
\* The relations a launch takes: the first trained ones.
Taken ==
    LET trained == {i \in DOMAIN order : relation[order[i]].trained}
    IN  {order[i] : i \in {j \in trained :
                             Cardinality(trained \cap 1 .. j) <= MaxRelations}}

\* The bits that are stable on a path and on another, with different values.
Discriminating(paths, lhs) ==
    UNION {relation[lhs].stable \cap relation[rhs].stable
               \cap Unequal(relation[lhs].pattern, relation[rhs].pattern) :
           rhs \in paths \ {lhs}}

\* DVRLanePredicateTracker::begin.
Begun(paths) ==
    [mask |-> [path \in paths |-> Discriminating(paths, path)],
     pattern |-> [path \in paths |->
                     relation[path].pattern \cap Discriminating(paths, path)]]

Paths == DOMAIN tracker.mask

\* A launch with several relations starts a generation.
Launch ==
    /\ reported
    /\ Cardinality(Taken) > 1
    /\ tracker' = Begun(Taken)
    /\ known' = seen
    /\ terminal' = {}
    /\ outcome' = [lane \in Lanes |-> "unobserved"]
    /\ value' = [lane \in Lanes |-> {}]
    /\ counted' = FALSE
    /\ reported' = FALSE
    /\ UNCHANGED training

--------------------------------------------------------------------------------
\* Faulty: only the bits that are set in the pattern are compared.
Matching_SetBits(source) ==
    {path \in Paths :
        /\ Cardinality(Paths) > 1 => tracker.mask[path] # {}
        /\ tracker.pattern[path] \subseteq source}
\* A path without discriminating bits cannot be identified.
Matching(source) ==
    {path \in Paths :
        /\ Cardinality(Paths) > 1 => tracker.mask[path] # {}
        /\ source \cap tracker.mask[path] = tracker.pattern[path]}

\* Faulty: the last match is selected, however many there are.
Observation_Last(source) ==
    IF Matching(source) # {} THEN CHOOSE path \in Matching(source) : TRUE
    ELSE "unmatched"
\* DVRLanePredicateTracker::observe: exactly one match selects.
Observation(source) ==
    IF \E path \in Paths : Matching(source) = {path}
    THEN CHOOSE path \in Paths : Matching(source) = {path}
    ELSE "unmatched"

Divergent(placed) ==
    \E a, b \in Lanes : placed[a] \in Loads /\ placed[b] \in Loads \ {placed[a]}

\* retireDVRPredicateLane, without a value and with one; the last lane reports
\* the generation.
Retired(lane) ==
    /\ ~reported /\ lane \notin terminal
    /\ terminal' = terminal \cup {lane}
    /\ reported' = (terminal' = Lanes)
    /\ UNCHANGED <<training, tracker, known>>

Drop(lane) ==
    /\ Retired(lane)
    /\ UNCHANGED <<outcome, value, counted>>

\* Faulty: the divergence is looked for before the lane is placed.
Respond_Early(lane, source) ==
    /\ Retired(lane)
    /\ outcome' = [outcome EXCEPT ![lane] = Observation(source)]
    /\ value' = [value EXCEPT ![lane] = source]
    /\ counted' = (counted \/ Divergent(outcome))
Respond(lane, source) ==
    /\ Retired(lane)
    /\ outcome' = [outcome EXCEPT ![lane] = Observation(source)]
    /\ value' = [value EXCEPT ![lane] = source]
    /\ counted' = (counted \/ Divergent(outcome'))

--------------------------------------------------------------------------------
Init ==
    /\ relation = [load \in Loads |-> NoRelation]
    /\ order = <<>>
    /\ samples = 0
    /\ tracker = [mask |-> <<>>, pattern |-> <<>>]
    /\ terminal = {}
    /\ outcome = [lane \in Lanes |-> "unobserved"]
    /\ counted = FALSE
    /\ reported = TRUE
    /\ seen = [load \in Loads |-> {}]
    /\ known = [load \in Loads |-> {}]
    /\ value = [lane \in Lanes |-> {}]

Next ==
    \/ \E load \in Loads, source \in Values, fits \in BOOLEAN :
           Train(load, source, fits)
    \/ Launch
    \/ \E lane \in Lanes : \/ Drop(lane)
                           \/ \E source \in Values : Respond(lane, source)

Spec == Init /\ [][Next]_vars

--------------------------------------------------------------------------------
\* The types.
TypeOK ==
    /\ relation \in [Loads -> [sampled : BOOLEAN, trained : BOOLEAN,
                               previous : Values, stable : Values,
                               pattern : Values]]
    /\ order \in Seq(Loads)
    /\ \A i, j \in DOMAIN order : order[i] = order[j] => i = j
    /\ samples \in 0 .. MaxSamples
    /\ Paths \subseteq Loads /\ Cardinality(Paths) <= MaxRelations
    /\ tracker \in [mask : [Paths -> Values], pattern : [Paths -> Values]]
    /\ terminal \subseteq Lanes
    /\ outcome \in [Lanes -> Paths \cup {"unobserved", "unmatched"}]
    /\ counted \in BOOLEAN /\ reported \in BOOLEAN
    /\ seen \in [Loads -> SUBSET Values] /\ known \in [Loads -> SUBSET Values]
    /\ value \in [Lanes -> Values]

\* The bits on which all values of a set agree.
Agreed(values) ==
    {bit \in Bits : \/ \A v \in values : bit \in v
                    \/ \A v \in values : bit \notin v}

\* Comparing each sample with the one before it finds exactly the bits that all
\* samples agree on, and the pattern has their value on them.
StableExact ==
    \A load \in Loads : seen[load] # {} =>
        /\ relation[load].stable = Agreed(seen[load])
        /\ \A v \in seen[load] :
               v \cap relation[load].stable = relation[load].pattern
                                                  \cap relation[load].stable

\* A bit that was always set on one path and never on the other.
Separates(bit, p, q) ==
    \/ (\A v \in known[p] : bit \in v) /\ (\A v \in known[q] : bit \notin v)
    \/ (\A v \in known[p] : bit \notin v) /\ (\A v \in known[q] : bit \in v)

ToldApart(p, q) == \E bit \in Bits : Separates(bit, p, q)

\* A lane that returns a value its path was trained with before the launch is
\* put on that path, if some bit told that path from each of the others,
\* whatever was trained since.
TrainedIsSelected ==
    \A lane \in Lanes, p \in Paths :
        /\ outcome[lane] # "unobserved"
        /\ value[lane] \in known[p]
        /\ \A q \in Paths \ {p} : ToldApart(p, q)
        => outcome[lane] = p

\* A lane is not put on a path when its value was seen on another one that can
\* be told from some path.
NotMisled ==
    \A lane \in Lanes, p \in Paths :
        /\ outcome[lane] \in Paths \ {p}
        /\ \E q \in Paths \ {p} : ToldApart(p, q)
        => value[lane] \notin known[p]

\* A divergence is counted once two lanes are on different paths, in whatever
\* order they return, and not before.
DivergenceCounted == counted <=> Divergent(outcome)
================================================================================
