------------------------- MODULE LanePredicatesProofs -------------------------
(*****************************************************************************)
(* For any width, any dependent loads and any number of lanes and samples:   *)
(* the stable bits are exact, and the frozen predicates select soundly.      *)
(*****************************************************************************)
EXTENDS LanePredicates, FiniteSetTheorems, WellFoundedInduction, TLAPS

Relations == [sampled : BOOLEAN, trained : BOOLEAN, previous : Values,
              stable : Values, pattern : Values]

\* The part of the types that the arguments need.
Typed ==
    /\ relation \in [Loads -> Relations]
    /\ order \in Seq(Loads)
    /\ Paths \subseteq Loads
    /\ tracker \in [mask : [Paths -> Values], pattern : [Paths -> Values]]
    /\ outcome \in [Lanes -> Paths \cup {"unobserved", "unmatched"}]
    /\ seen \in [Loads -> SUBSET Values]
    /\ known \in [Loads -> SUBSET Values]
    /\ value \in [Lanes -> Values]

\* One relation against the values it was trained with.
Exact(rel, values) ==
    /\ rel.sampled <=> values # {}
    /\ rel.trained => rel.sampled
    /\ rel.sampled => rel.previous \in values
    /\ rel.stable = Agreed(values)
    /\ rel.pattern \subseteq rel.stable
    /\ \A v \in values : v \cap rel.stable = rel.pattern

RelationsExact == \A load \in Loads : Exact(relation[load], seen[load])

\* The frozen predicates against the values known at the launch.
TrackerExact ==
    /\ Paths = {} \/ Cardinality(Paths) > 1
    /\ \A p \in Paths :
           /\ known[p] # {}
           /\ tracker.mask[p] = {bit \in Bits : \E q \in Paths \ {p} :
                                                    Separates(bit, p, q)}
           /\ \A v \in known[p] : v \cap tracker.mask[p] = tracker.pattern[p]

\* Every lane was placed by the predicates of this generation.
Placed ==
    \A lane \in Lanes :
        /\ outcome[lane] \in Paths => Matching(value[lane]) = {outcome[lane]}
        /\ outcome[lane] = "unmatched" =>
               \A p \in Paths : Matching(value[lane]) # {p}

Inv == Typed /\ RelationsExact /\ TrackerExact /\ Placed

--------------------------------------------------------------------------------
\* A new sample removes from the agreed bits those in which it differs from any
\* one of the old samples: trainDVRAddressRelation may take the previous one.
LEMMA AgreedStep ==
    ASSUME NEW S \in SUBSET Values, NEW previous \in S, NEW source \in Values
    PROVE  Agreed(S \cup {source}) = Agreed(S) \ Unequal(previous, source)
BY DEF Agreed, Values, Unequal

\* One step of trainDVRAddressRelation keeps a relation exact.
LEMMA SampledExact ==
    ASSUME NEW rel \in Relations, NEW S \in SUBSET Values, Exact(rel, S),
           NEW source \in Values, NEW fits \in BOOLEAN,
           fits => rel.sampled
    PROVE  /\ Sampled(rel, source, fits) \in Relations
           /\ Exact(Sampled(rel, source, fits), S \cup {source})
<1> DEFINE new == Sampled(rel, source, fits)
<1>1. CASE rel.sampled
  <2>1. /\ new.sampled = TRUE /\ new.previous = source
        /\ new.trained \in BOOLEAN
        /\ new.stable = rel.stable \ Unequal(rel.previous, source)
        /\ new.pattern = rel.pattern \cap new.stable
        /\ new = [sampled |-> new.sampled, trained |-> new.trained,
                  previous |-> new.previous, stable |-> new.stable,
                  pattern |-> new.pattern]
    BY <1>1 DEF Sampled, Relations
  <2>2. new.stable = Agreed(S \cup {source})
    BY <1>1, <2>1, AgreedStep DEF Exact
  <2>3. new \in Relations
    BY <2>1, Zenon DEF Relations, Values
  <2>4. \A v \in S \cup {source} : v \cap new.stable = new.pattern
    <3>1. ASSUME NEW v \in S PROVE v \cap new.stable = new.pattern
      BY <2>1, <3>1 DEF Exact
    <3>2. source \cap new.stable = rel.previous \cap new.stable
      BY <2>1 DEF Unequal
    <3> QED BY <3>1, <3>2, <1>1 DEF Exact
  <2> QED BY <2>1, <2>2, <2>3, <2>4 DEF Exact
<1>2. CASE ~rel.sampled
  <2>1. S = {} BY <1>2 DEF Exact
  <2>2. rel.stable = Bits BY <2>1 DEF Exact, Agreed
  <2>3. new = [sampled |-> TRUE, trained |-> rel.trained \/ fits,
               previous |-> source, stable |-> Bits, pattern |-> source]
    BY <1>2, <2>2 DEF Sampled
  <2>4. Agreed(S \cup {source}) = Bits
    BY <2>1 DEF Agreed
  <2> QED BY <2>1, <2>3, <2>4 DEF Exact, Relations, Values
<1> QED BY <1>1, <1>2

\* A value that a path was trained with matches that path.
LEMMA OwnMatches ==
    ASSUME Typed, TrackerExact, NEW p \in Paths, NEW v \in known[p],
           NEW q \in Paths \ {p}, ToldApart(p, q)
    PROVE  p \in Matching(v)
BY DEF Matching, TrackerExact, ToldApart

\* It matches no path that a bit tells from its own.
LEMMA OthersDoNot ==
    ASSUME Typed, TrackerExact, NEW p \in Paths, NEW v \in known[p],
           NEW q \in Paths \ {p}, ToldApart(p, q)
    PROVE  q \notin Matching(v)
<1>1. PICK bit \in Bits : Separates(bit, p, q)
  BY DEF ToldApart
<1>2. PICK w \in known[q] : TRUE
  BY DEF TrackerExact
<1>3. (bit \in v) # (bit \in w)
  BY <1>1, <1>2 DEF Separates
<1>4. bit \in tracker.mask[q]
  BY <1>1 DEF TrackerExact, Separates
<1>5. w \cap tracker.mask[q] = tracker.pattern[q]
  BY <1>2 DEF TrackerExact
<1>6. v \cap tracker.mask[q] # tracker.pattern[q]
  BY <1>3, <1>4, <1>5
<1> QED BY <1>6 DEF Matching

\* Observation selects the only match, if there is one.
LEMMA ObservationIs ==
    ASSUME NEW v, Paths \subseteq Loads
    PROVE  /\ Observation(v) \in Paths \cup {"unmatched"}
           /\ Observation(v) \in Paths => Matching(v) = {Observation(v)}
           /\ Observation(v) = "unmatched" =>
                  \A p \in Paths : Matching(v) # {p}
BY PredicateAssumption DEF Observation

--------------------------------------------------------------------------------
\* The invariant holds before any training.
LEMMA InitInv == Init => Inv
<1> SUFFICES ASSUME Init PROVE Inv OBVIOUS
<1>1. Paths = {}
  BY DEF Init, Paths
<1>2. Typed
  <2>1. <<>> \in [{} -> Values]
    OBVIOUS
  <2> QED BY <1>1, <2>1 DEF Init, Typed, Relations, NoRelation, Values
<1>3. RelationsExact
  BY DEF Init, RelationsExact, Exact, NoRelation, Agreed
<1> QED BY <1>1, <1>2, <1>3 DEF Inv, TrackerExact, Placed, Init

\* What depends on the predicates only.
LEMMA KeptMatching ==
    ASSUME UNCHANGED tracker
    PROVE  Paths' = Paths /\ \A v : Matching(v)' = Matching(v)
<1>1. Paths' = Paths BY DEF Paths
<1>2. ASSUME NEW v PROVE Matching(v)' = Matching(v)
  BY <1>1 DEF Matching
<1> QED BY <1>1, <1>2

\* Frozen predicates stay exact for the values known at their launch.
LEMMA KeptTracker ==
    ASSUME TrackerExact, UNCHANGED <<tracker, known>>
    PROVE  TrackerExact'
<1>1. Paths' = Paths BY DEF Paths
<1> QED BY <1>1 DEF TrackerExact, Separates

\* Training touches the relations only; the predicates of a generation are
\* copies.
LEMMA TrainStep ==
    ASSUME Inv, NEW load \in Loads, NEW source \in Values, NEW fits \in BOOLEAN,
           Train(load, source, fits)
    PROVE  Inv'
<1> USE DEF Inv
<1>1. /\ relation[load] \in Relations /\ seen[load] \in SUBSET Values
      /\ Exact(relation[load], seen[load])
  BY DEF Typed, RelationsExact
<1>2. /\ Sampled(relation[load], source, fits) \in Relations
      /\ Exact(Sampled(relation[load], source, fits), seen[load] \cup {source})
  BY <1>1, SampledExact DEF Train
<1>3. /\ relation' = [relation EXCEPT ![load] =
                         Sampled(relation[load], source, fits)]
      /\ seen' = [seen EXCEPT ![load] = seen[load] \cup {source}]
  BY DEF Train
<1>4. UNCHANGED <<tracker, outcome, known, value>>
  BY DEF Train, generation
<1>5. Typed'
  <2>1. order' \in Seq(Loads)
    BY DEF Typed, Train
  <2> QED BY <1>1, <1>2, <1>3, <1>4, <2>1 DEF Typed, Paths
<1>6. RelationsExact'
  BY <1>2, <1>3 DEF Typed, RelationsExact
<1>7. TrackerExact'
  BY <1>4, KeptTracker
<1>8. Placed'
  BY <1>4, KeptMatching DEF Placed
<1> QED BY <1>5, <1>6, <1>7, <1>8

\* The discriminating bits of exact relations are those that separate the
\* values of two paths.
LEMMA DiscriminatingIs ==
    ASSUME Typed, RelationsExact, NEW paths \in SUBSET Loads,
           \A path \in paths : relation[path].trained, NEW p \in paths
    PROVE  Discriminating(paths, p) =
               {bit \in Bits : \E q \in paths \ {p} :
                   \/ /\ \A v \in seen[p] : bit \in v
                      /\ \A v \in seen[q] : bit \notin v
                   \/ /\ \A v \in seen[p] : bit \notin v
                      /\ \A v \in seen[q] : bit \in v}
<1> DEFINE Split(q) == relation[p].stable \cap relation[q].stable
                          \cap Unequal(relation[p].pattern, relation[q].pattern)
           Apart(bit, q) == \/ /\ \A v \in seen[p] : bit \in v
                               /\ \A v \in seen[q] : bit \notin v
                            \/ /\ \A v \in seen[p] : bit \notin v
                               /\ \A v \in seen[q] : bit \in v
<1>1. ASSUME NEW q \in paths PROVE
          /\ seen[q] # {}
          /\ relation[q].stable = Agreed(seen[q])
          /\ \A v \in seen[q] : v \cap relation[q].stable = relation[q].pattern
  BY <1>1 DEF RelationsExact, Exact
<1>2. ASSUME NEW q \in paths, NEW bit \in Bits
      PROVE  bit \in Split(q) <=> Apart(bit, q)
  <2>1. PICK v \in seen[p] : TRUE BY <1>1
  <2>2. PICK w \in seen[q] : TRUE BY <1>1
  <2>3. v \cap relation[p].stable = relation[p].pattern BY <1>1, <2>1
  <2>4. w \cap relation[q].stable = relation[q].pattern BY <1>1, <2>2
  <2>5. bit \in relation[p].stable <=> \/ \A u \in seen[p] : bit \in u
                                      \/ \A u \in seen[p] : bit \notin u
    BY <1>1 DEF Agreed
  <2>6. bit \in relation[q].stable <=> \/ \A u \in seen[q] : bit \in u
                                      \/ \A u \in seen[q] : bit \notin u
    BY <1>1 DEF Agreed
  <2> HIDE DEF Apart
  <2>7. ASSUME bit \in Split(q) PROVE Apart(bit, q)
    BY <2>1, <2>2, <2>3, <2>4, <2>5, <2>6, <2>7 DEF Apart, Unequal
  <2>8. ASSUME Apart(bit, q) PROVE bit \in Split(q)
    BY <2>1, <2>2, <2>3, <2>4, <2>5, <2>6, <2>8 DEF Apart, Unequal
  <2> QED BY <2>7, <2>8
<1>3. \A q \in paths : Split(q) \subseteq Bits
  BY <1>1 DEF Agreed
<1>4. Discriminating(paths, p) = UNION {Split(q) : q \in paths \ {p}}
  BY DEF Discriminating
<1> HIDE DEF Split, Apart
<1>5. Discriminating(paths, p) = {bit \in Bits : \E q \in paths \ {p} :
                                                  Apart(bit, q)}
  BY <1>2, <1>3, <1>4
<1> QED BY <1>5 DEF Apart

\* A launch takes trained relations only.
LEMMA TakenTrained ==
    ASSUME order \in Seq(Loads)
    PROVE  Taken \subseteq Loads /\ \A load \in Taken : relation[load].trained
<1> SUFFICES ASSUME NEW load \in Taken
             PROVE  load \in Loads /\ relation[load].trained
  OBVIOUS
<1>1. PICK i \in DOMAIN order : relation[order[i]].trained /\ load = order[i]
  BY Zenon DEF Taken
<1> QED BY <1>1

\* A launch freezes predicates that are exact for the values seen so far.
LEMMA LaunchStep ==
    ASSUME Inv, Launch
    PROVE  Inv'
<1> USE DEF Inv
<1>1. /\ tracker' = Begun(Taken) /\ known' = seen
      /\ UNCHANGED <<relation, order, seen>>
      /\ outcome' = [lane \in Lanes |-> "unobserved"]
      /\ value' = [lane \in Lanes |-> {}]
      /\ Cardinality(Taken) > 1
  BY DEF Launch, training
<1>2. Taken \in SUBSET Loads /\ \A load \in Taken : relation[load].trained
  BY TakenTrained DEF Typed
<1>3. /\ tracker'.mask = [path \in Taken |-> Discriminating(Taken, path)]
      /\ tracker'.pattern = [path \in Taken |->
             relation[path].pattern \cap Discriminating(Taken, path)]
      /\ tracker' = [mask |-> tracker'.mask, pattern |-> tracker'.pattern]
  BY <1>1 DEF Begun
<1>4. Paths' = Taken
  BY <1>3 DEF Paths
<1>5. \A p \in Taken :
          Discriminating(Taken, p) =
               {bit \in Bits : \E q \in Taken \ {p} :
                   \/ /\ \A v \in seen[p] : bit \in v
                      /\ \A v \in seen[q] : bit \notin v
                   \/ /\ \A v \in seen[p] : bit \notin v
                      /\ \A v \in seen[q] : bit \in v}
  BY <1>2, DiscriminatingIs
<1>6. Typed'
  <2>1. \A p \in Taken : Discriminating(Taken, p) \in Values
    BY <1>5 DEF Values
  <2>2. \A p \in Taken : relation[p].pattern \cap Discriminating(Taken, p)
                              \in Values
    BY <2>1 DEF Values
  <2>3. tracker' \in [mask : [Taken -> Values], pattern : [Taken -> Values]]
    BY <1>3, <2>1, <2>2
  <2>4. {} \in Values BY DEF Values
  <2> QED BY <1>1, <1>2, <1>4, <2>3, <2>4 DEF Typed
<1>7. RelationsExact'
  BY <1>1 DEF RelationsExact
<1>8. TrackerExact'
  <2>1. ASSUME NEW p \in Taken
        PROVE  /\ known'[p] # {}
               /\ tracker'.mask[p] = {bit \in Bits : \E q \in Taken \ {p} :
                                                         Separates(bit, p, q)'}
               /\ \A v \in known'[p] : v \cap tracker'.mask[p]
                                            = tracker'.pattern[p]
    <3>1. /\ seen[p] # {}
          /\ relation[p].stable = Agreed(seen[p])
          /\ \A v \in seen[p] : v \cap relation[p].stable
                                     = relation[p].pattern
      BY <1>2, <2>1 DEF RelationsExact, Exact
    <3>2. Discriminating(Taken, p) \subseteq relation[p].stable
      BY DEF Discriminating
    <3>3. \A v \in seen[p] : v \cap Discriminating(Taken, p) =
                             relation[p].pattern \cap Discriminating(Taken, p)
      BY <3>1, <3>2
    <3>4. tracker'.mask[p] = {bit \in Bits : \E q \in Taken \ {p} :
                                                Separates(bit, p, q)'}
      BY <1>1, <1>3, <1>5 DEF Separates
    <3> QED BY <1>1, <1>3, <3>1, <3>3, <3>4
  <2> QED BY <1>1, <1>4, <2>1 DEF TrackerExact
<1>9. Placed'
  BY <1>1, <1>2, <1>4, PredicateAssumption DEF Placed
<1> QED BY <1>6, <1>7, <1>8, <1>9

\* A response places its lane by the predicates of the generation.
LEMMA RespondStep ==
    ASSUME Inv, NEW lane \in Lanes, NEW source \in Values,
           Respond(lane, source)
    PROVE  Inv'
<1> USE DEF Inv
<1>1. /\ UNCHANGED <<relation, order, seen, tracker, known>>
      /\ outcome' = [outcome EXCEPT ![lane] = Observation(source)]
      /\ value' = [value EXCEPT ![lane] = source]
  BY DEF Respond, Retired, training
<1>2. Paths' = Paths /\ \A v : Matching(v)' = Matching(v)
  BY <1>1, KeptMatching
<1>3. /\ Observation(source) \in Paths \cup {"unmatched"}
      /\ Observation(source) \in Paths =>
             Matching(source) = {Observation(source)}
      /\ Observation(source) = "unmatched" =>
             \A p \in Paths : Matching(source) # {p}
  BY ObservationIs DEF Typed
<1>4. Typed'
  BY <1>1, <1>2, <1>3 DEF Typed
<1>5. RelationsExact'
  BY <1>1 DEF RelationsExact
<1>6. TrackerExact'
  BY <1>1, KeptTracker
<1>7. Placed'
  <2> SUFFICES ASSUME NEW l \in Lanes
               PROVE  (/\ outcome[l] \in Paths =>
                              Matching(value[l]) = {outcome[l]}
                       /\ outcome[l] = "unmatched" =>
                              \A p \in Paths : Matching(value[l]) # {p})'
    BY DEF Placed
  <2>1. CASE l = lane
    <3>1. outcome'[l] = Observation(source) /\ value'[l] = source
      BY <1>1, <2>1 DEF Typed
    <3>2. Matching(value[l])' = Matching(source)
      BY <1>1, <1>2, <3>1 DEF Matching
    <3> QED BY <1>2, <1>3, <3>1, <3>2
  <2>2. CASE l # lane
    <3>1. outcome'[l] = outcome[l] /\ value'[l] = value[l]
      BY <1>1, <2>2 DEF Typed
    <3>2. Matching(value[l])' = Matching(value[l])
      BY <1>1, <1>2, <3>1 DEF Matching
    <3> QED BY <1>2, <3>1, <3>2 DEF Placed
  <2> QED BY <2>1, <2>2
<1> QED BY <1>4, <1>5, <1>6, <1>7

\* Every action keeps the invariant.
LEMMA NextInv == Inv /\ [Next]_vars => Inv'
<1> SUFFICES ASSUME Inv, [Next]_vars PROVE Inv' OBVIOUS
<1>1. ASSUME NEW load \in Loads, NEW source \in Values, NEW fits \in BOOLEAN,
             Train(load, source, fits)
      PROVE  Inv'
  BY <1>1, TrainStep
<1>2. CASE Launch
  BY <1>2, LaunchStep
<1>3. ASSUME NEW lane \in Lanes, NEW source \in Values, Respond(lane, source)
      PROVE  Inv'
  BY <1>3, RespondStep
<1>4. ASSUME UNCHANGED <<relation, order, seen, tracker, outcome, known, value>>
      PROVE  Inv'
  <2>1. Typed' BY <1>4 DEF Inv, Typed, Paths
  <2>2. RelationsExact' BY <1>4 DEF Inv, RelationsExact
  <2>3. TrackerExact' BY <1>4, KeptTracker DEF Inv
  <2>4. Placed' BY <1>4, KeptMatching DEF Inv, Placed
  <2> QED BY <2>1, <2>2, <2>3, <2>4 DEF Inv
<1>5. ASSUME NEW lane \in Lanes, Drop(lane) PROVE Inv'
  BY <1>4, <1>5 DEF Drop, Retired, training
<1>6. CASE UNCHANGED vars
  BY <1>4, <1>6 DEF vars
<1> QED BY <1>1, <1>2, <1>3, <1>5, <1>6 DEF Next

\* The inductive invariant.
LEMMA AlwaysInv == Spec => []Inv
BY InitInv, NextInv, PTL DEF Spec

--------------------------------------------------------------------------------
\* The stable bits are those that all samples agree on, for any number of
\* samples: comparing neighbours is enough.
THEOREM StableAlwaysExact == Spec => []StableExact
<1>1. Inv => StableExact
  BY DEF Inv, Typed, RelationsExact, Exact, StableExact, Relations
<1> QED BY <1>1, AlwaysInv, PTL

\* A lane with a known value of a path that is told from all others goes there,
\* for any number of paths and any width.
THEOREM TrainedAlwaysSelected == Spec => []TrainedIsSelected
<1>1. Inv => TrainedIsSelected
  <2> SUFFICES ASSUME Inv, NEW lane \in Lanes, NEW p \in Paths,
                      outcome[lane] # "unobserved", value[lane] \in known[p],
                      \A q \in Paths \ {p} : ToldApart(p, q)
               PROVE  outcome[lane] = p
    BY DEF TrainedIsSelected
  <2> USE DEF Inv
  <2>1. PICK q \in Paths : q # p
    <3>1. Cardinality({p}) = 1 BY FS_Singleton, SMTT(30)
    <3>2. Cardinality(Paths) > 1 BY DEF TrackerExact
    <3>3. Paths # {p} BY <3>1, <3>2
    <3> QED BY <3>3
  <2>2. p \in Matching(value[lane])
    BY <2>1, OwnMatches
  <2>3. \A r \in Paths \ {p} : r \notin Matching(value[lane])
    BY OthersDoNot
  <2>4. Matching(value[lane]) = {p}
    BY <2>2, <2>3 DEF Matching
  <2> QED BY <2>4, Zenon DEF Placed, Typed
<1> QED BY <1>1, AlwaysInv, PTL

\* No lane is put on a path against a value known from another one that has a
\* discriminating bit.
THEOREM NeverMisled == Spec => []NotMisled
<1>1. Inv => NotMisled
  <2> SUFFICES ASSUME Inv, NEW lane \in Lanes, NEW p \in Paths,
                      outcome[lane] \in Paths \ {p}, value[lane] \in known[p],
                      NEW q \in Paths \ {p}, ToldApart(p, q)
               PROVE  FALSE
    BY DEF NotMisled
  <2>1. p \in Matching(value[lane])
    BY OwnMatches DEF Inv
  <2> QED BY <2>1 DEF Inv, Placed
<1> QED BY <1>1, AlwaysInv, PTL

--------------------------------------------------------------------------------
\* A lane is observed when it is retired, and only then: its outcome is final.
Observed ==
    /\ terminal \subseteq Lanes
    /\ \A lane \in Lanes \ terminal : outcome[lane] = "unobserved"
    /\ counted \in BOOLEAN /\ reported \in BOOLEAN

CountInv == Observed /\ DivergenceCounted

\* Placing one more lane keeps the divergence of those placed before.
LEMMA DivergenceKept ==
    ASSUME Typed, Observed, NEW lane \in Lanes \ terminal, NEW where,
           Divergent(outcome)
    PROVE  Divergent([outcome EXCEPT ![lane] = where])
<1>1. PICK a \in Lanes, b \in Lanes :
          outcome[a] \in Loads /\ outcome[b] \in Loads \ {outcome[a]}
  BY DEF Divergent
<1>2. a # lane /\ b # lane
  BY <1>1, PredicateAssumption DEF Observed
<1>3. /\ [outcome EXCEPT ![lane] = where][a] = outcome[a]
      /\ [outcome EXCEPT ![lane] = where][b] = outcome[b]
  BY <1>2 DEF Typed
<1> QED BY <1>1, <1>3 DEF Divergent

\* The divergence is counted by the lane that makes it.
LEMMA NextCount == Inv /\ CountInv /\ [Next]_vars => CountInv'
<1> SUFFICES ASSUME Typed, Observed, DivergenceCounted, [Next]_vars
             PROVE  CountInv'
  BY DEF Inv, CountInv
<1>1. ASSUME UNCHANGED <<terminal, outcome, counted, reported>> PROVE CountInv'
  BY <1>1 DEF CountInv, Observed, DivergenceCounted, Divergent
<1>2. ASSUME NEW load \in Loads, NEW source \in Values, NEW fits \in BOOLEAN,
             Train(load, source, fits)
      PROVE  CountInv'
  BY <1>1, <1>2 DEF Train, generation
<1>3. CASE Launch
  <2>1. /\ terminal' = {} /\ outcome' = [lane \in Lanes |-> "unobserved"]
        /\ counted' = FALSE /\ reported' = FALSE
    BY <1>3 DEF Launch
  <2>2. ~Divergent(outcome')
    BY <2>1, PredicateAssumption DEF Divergent
  <2> QED BY <2>1, <2>2, Zenon DEF CountInv, Observed, DivergenceCounted
<1>4. ASSUME NEW lane \in Lanes, Drop(lane) PROVE CountInv'
  <2>1. /\ terminal' = terminal \cup {lane} /\ reported' \in BOOLEAN
        /\ UNCHANGED <<outcome, counted>>
    BY <1>4 DEF Drop, Retired
  <2> QED BY <2>1 DEF CountInv, Observed, DivergenceCounted, Divergent
<1>5. ASSUME NEW lane \in Lanes, NEW source \in Values, Respond(lane, source)
      PROVE  CountInv'
  <2>1. /\ terminal' = terminal \cup {lane} /\ reported' \in BOOLEAN
        /\ lane \notin terminal
        /\ outcome' = [outcome EXCEPT ![lane] = Observation(source)]
    BY <1>5 DEF Respond, Retired
  <2>2. counted' = (counted \/ Divergent(outcome'))
    BY <1>5, Zenon DEF Respond
  <2>3. Divergent(outcome) => Divergent(outcome')
    BY <2>1, DivergenceKept, Zenon
  <2>4. counted' \in BOOLEAN /\ (counted' <=> Divergent(outcome'))
    <3>1. Divergent(outcome') \in BOOLEAN
      BY DEF Divergent
    <3> HIDE DEF Divergent
    <3> QED BY <2>2, <2>3, <3>1 DEF Observed, DivergenceCounted
  <2>5. \A other \in Lanes \ terminal' : outcome'[other] = "unobserved"
    BY <2>1 DEF Observed, Typed
  <2> QED BY <2>1, <2>4, <2>5 DEF CountInv, Observed, DivergenceCounted
<1>6. CASE UNCHANGED vars
  BY <1>1, <1>6 DEF vars
<1> QED BY <1>2, <1>3, <1>4, <1>5, <1>6 DEF Next

\* retireDVRPredicateLane counts the divergence of a generation exactly if two
\* of its lanes went to different loads, for any number of lanes.
THEOREM DivergenceAlwaysCounted == Spec => [](Observed /\ DivergenceCounted)
<1>1. Init => CountInv
  <2> SUFFICES ASSUME Init PROVE CountInv OBVIOUS
  <2>1. ~Divergent(outcome)
    BY PredicateAssumption DEF Init, Divergent
  <2> QED BY <2>1, Zenon DEF Init, CountInv, Observed, DivergenceCounted
<1>2. Spec => []CountInv
  BY <1>1, AlwaysInv, NextCount, PTL DEF Spec
<1> QED BY <1>2, PTL DEF CountInv

--------------------------------------------------------------------------------
\* A non-empty set of numbers up to n has a greatest element.
LEMMA GreatestExists ==
    ASSUME NEW n \in Nat, NEW S \in SUBSET (1 .. n), S # {}
    PROVE  \E x \in S : \A y \in S : y <= x
<1> DEFINE R == OpToRel(<, Nat)
           T == {n - x : x \in S}
<1>1. IsWellFoundedOn(R, Nat)
  BY NatLessThanWellFounded, Zenon
<1>2. T \subseteq Nat /\ T # {}
  <2>1. ASSUME NEW x \in S PROVE n - x \in Nat
    BY <2>1
  <2>2. PICK x \in S : TRUE
    BY Zenon
  <2>3. n - x \in T
    OBVIOUS
  <2> QED BY <2>1, <2>3, Zenon
<1>3. PICK d \in T : \A e \in T : ~(<<e, d>> \in R)
  <2> HIDE DEF R, T
  <2> QED BY <1>1, <1>2, WFMin, Zenon
<1>4. PICK x \in S : d = n - x
  OBVIOUS
<1>5. ASSUME NEW y \in S PROVE y <= x
  <2>1. <<n - y, d>> \notin R
    BY <1>3, Zenon
  <2>2. n - y \in Nat /\ d \in Nat
    BY <1>2, Zenon
  <2>3. ~(n - y < d)
    <3> SUFFICES ASSUME n - y < d PROVE FALSE
      OBVIOUS
    <3>1. <<n - y, d>> \in {z \in Nat \X Nat : z[1] < z[2]}
      BY <2>2
    <3> QED BY <2>1, <3>1 DEF OpToRel
  <2> QED BY <1>4, <2>3
<1> QED BY <1>5

\* A launch takes at most MaxRelations of them.
LEMMA TakenBounded ==
    ASSUME order \in Seq(Loads)
    PROVE  Cardinality(Taken) <= MaxRelations
<1> DEFINE trained == {i \in DOMAIN order : relation[order[i]].trained}
           first == {j \in trained :
                        Cardinality(trained \cap 1 .. j) <= MaxRelations}
<1>1. Taken = {order[i] : i \in first}
  BY DEF Taken
<1>2. Len(order) \in Nat /\ first \subseteq 1 .. Len(order)
  OBVIOUS
<1>3. IsFiniteSet(first) /\ Cardinality(first) <= MaxRelations
  <2>1. CASE first = {}
    <3>1. IsFiniteSet(first) /\ Cardinality(first) = 0
      <4> HIDE DEF first
      <4> QED BY <2>1, FS_EmptySet
    <3> HIDE DEF first
    <3> QED BY <3>1, PredicateAssumption
  <2>2. CASE first # {}
    <3>1. PICK x \in first : \A y \in first : y <= x
      <4> HIDE DEF first
      <4> QED BY <1>2, <2>2, GreatestExists, Zenon
    <3>2. x \in 1 .. Len(order)
      BY <1>2
    <3>3. first \subseteq trained \cap 1 .. x
      BY <1>2, <3>1
    <3>4. IsFiniteSet(trained \cap 1 .. x)
      BY <3>2, FS_Interval, FS_Subset, 1 .. x \in SUBSET Int
    <3>5. /\ IsFiniteSet(first)
          /\ Cardinality(first) <= Cardinality(trained \cap 1 .. x)
      <4> HIDE DEF first, trained
      <4> QED BY <3>3, <3>4, FS_Subset
    <3>6. Cardinality(trained \cap 1 .. x) <= MaxRelations
      BY <3>1
    <3>7. /\ Cardinality(first) \in Nat
          /\ Cardinality(trained \cap 1 .. x) \in Nat
      <4> HIDE DEF first, trained
      <4> QED BY <3>4, <3>5, FS_CardinalityType
    <3> HIDE DEF first, trained
    <3> QED BY <3>5, <3>6, <3>7, PredicateAssumption
  <2> QED BY <2>1, <2>2
<1>4. [i \in first |-> order[i]] \in Surjection(first, Taken)
  BY <1>1, Zenon DEF Surjection
<1>5. /\ IsFiniteSet(Taken)
      /\ Cardinality(Taken) <= Cardinality(first)
  <2> HIDE DEF first
  <2> QED BY <1>3, <1>4, FS_Surjection
<1>6. Cardinality(Taken) \in Nat /\ Cardinality(first) \in Nat
  <2> HIDE DEF first
  <2> QED BY <1>3, <1>5, FS_CardinalityType
<1> HIDE DEF first
<1> QED BY <1>3, <1>5, <1>6, PredicateAssumption

\* A load is listed once, by its first sample, and the predicates of a
\* generation fit the array that holds them.
Listed ==
    /\ samples \in 0 .. MaxSamples
    /\ \A i \in DOMAIN order : relation[order[i]].sampled
    /\ \A i, j \in DOMAIN order : order[i] = order[j] => i = j
    /\ Cardinality(Paths) <= MaxRelations

\* Sampling lists a load that was not sampled before.
LEMMA NextListed == Inv /\ Listed /\ [Next]_vars => Listed'
<1> SUFFICES ASSUME Typed, Listed, [Next]_vars PROVE Listed'
  BY DEF Inv
<1>1. ASSUME UNCHANGED <<relation, order, samples, tracker>> PROVE Listed'
  BY <1>1 DEF Listed, Paths
<1>2. ASSUME NEW load \in Loads, NEW source \in Values, NEW fits \in BOOLEAN,
             Train(load, source, fits)
      PROVE  Listed'
  <2>1. /\ samples < MaxSamples /\ samples' = samples + 1
        /\ relation' = [relation EXCEPT ![load] =
                           Sampled(relation[load], source, fits)]
        /\ order' = IF relation[load].sampled THEN order
                    ELSE Append(order, load)
    BY <1>2 DEF Train
  <2>2. Paths' = Paths
    BY <1>2 DEF Train, generation, Paths
  <2>3. /\ relation'[load].sampled
        /\ \A other \in Loads \ {load} : relation'[other] = relation[other]
    BY <2>1 DEF Typed, Sampled
  <2>4. order \in Seq(Loads)
    BY DEF Typed
  <2>5. CASE relation[load].sampled
    BY <2>1, <2>2, <2>3, <2>4, <2>5, PredicateAssumption DEF Listed
  <2>6. CASE ~relation[load].sampled
    <3>1. \A i \in DOMAIN order : order[i] # load
      BY <2>6 DEF Listed
    <3>2. /\ DOMAIN order' = DOMAIN order \cup {Len(order) + 1}
          /\ \A i \in DOMAIN order : order'[i] = order[i]
          /\ order'[Len(order) + 1] = load
      BY <2>1, <2>4, <2>6
    <3>3. samples' \in 0 .. MaxSamples
      BY <2>1, PredicateAssumption DEF Listed
    <3> QED BY <2>2, <2>3, <2>4, <3>1, <3>2, <3>3 DEF Listed
  <2> QED BY <2>5, <2>6
<1>3. CASE Launch
  <2>1. tracker' = Begun(Taken) /\ UNCHANGED <<relation, order, samples>>
    BY <1>3 DEF Launch, training
  <2>2. Paths' = Taken
    BY <2>1 DEF Paths, Begun
  <2>3. Cardinality(Paths') <= MaxRelations
    BY <2>2, TakenBounded DEF Typed
  <2> QED BY <2>1, <2>3 DEF Listed
<1>4. ASSUME NEW lane \in Lanes, Drop(lane) PROVE Listed'
  BY <1>1, <1>4 DEF Drop, Retired, training
<1>5. ASSUME NEW lane \in Lanes, NEW source \in Values, Respond(lane, source)
      PROVE  Listed'
  BY <1>1, <1>5 DEF Respond, Retired, training
<1>6. CASE UNCHANGED vars
  BY <1>1, <1>6 DEF vars
<1> QED BY <1>2, <1>3, <1>4, <1>5, <1>6 DEF Next

\* The types: a trigger lists each of its loads once, and a launch never takes
\* more relations than DVRPrefetchSenderState has room for.
THEOREM PredicatesTypeCorrect == Spec => []TypeOK
<1>1. Init => Listed
  <2> SUFFICES ASSUME Init PROVE Listed OBVIOUS
  <2>1. Paths = {} /\ Cardinality(Paths) = 0
    BY FS_EmptySet DEF Init, Paths
  <2> QED BY <2>1, PredicateAssumption DEF Init, Listed
<1>2. Spec => []Listed
  BY <1>1, AlwaysInv, NextListed, PTL DEF Spec
<1>3. Inv /\ Observed /\ Listed => TypeOK
  BY DEF Inv, Typed, Relations, Observed, Listed, TypeOK
<1> QED BY <1>2, <1>3, AlwaysInv, DivergenceAlwaysCounted, PTL
================================================================================
