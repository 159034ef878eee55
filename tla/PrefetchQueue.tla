------------------------------ MODULE PrefetchQueue ----------------------------
(***************************************************************************)
(* The prefetch queue and the helper loads: launches, the service of the    *)
(* head, the responses, the sets that deduplicate requests, and the         *)
(* predicate generations whose lanes the source requests carry.  A source   *)
(* is known by its byte address, a dependent by its cache line.             *)
(*                                                                          *)
(* What a replay lane computes is left open: a lane with a source value     *)
(* produces one address, any one, or ends.  When the program continues past *)
(* the final load (ContinuePastFLR), the lane is parked until the value of  *)
(* that address returns.  Whether the helper may issue is HelperThread's    *)
(* matter: here a service happens at any moment.                            *)
(***************************************************************************)
EXTENDS Naturals, Sequences, FiniteSets, SequencesExt, FiniteSetsExt

CONSTANTS
    Bases,              \* addresses the trigger load is at when it launches
    Targets,            \* addresses replay lanes and the oracle compute
    Unmapped,           \* addresses whose translation faults
    Demands,            \* lines the main thread's dependent loads read
    LineBytes,          \* cacheLineSize()
    AccessBytes,        \* width of a request
    MaxLanes,           \* dvrMaxLanes
    MaxQueued,          \* DvrMaxQueuedPrefetches
    LoadQueueCapacity,  \* DvrHelperLoadQueueCapacity
    Generations,        \* bound: predicate generations alive at once
    MaxReplaying,       \* bound: replay lanes that wait to issue
    MaxParked           \* bound: replay lanes that wait for a value

ASSUME PrefetchQueueAssumption ==
    /\ Bases \cup Targets \cup Unmapped \cup Demands \subseteq Nat
    /\ {LineBytes, AccessBytes, MaxLanes, MaxQueued, LoadQueueCapacity}
           \subseteq Nat \ {0}
    /\ 0 \notin Generations
    /\ {MaxReplaying, MaxParked} \subseteq Nat

VARIABLES
    queue,                  \* dvrPrefetchQueue
    queuedAddresses,        \* dvrQueuedPrefetchAddresses
    queuedLines,            \* dvrQueuedDependentLines
    flight,                 \* dvrHelperLoadEntries: requests sent to memory
    outstandingAddresses,   \* dvrOutstandingPrefetchAddresses
    outstandingLines,       \* dvrDependentOutstandingLines
    completedLines,         \* dvrDependentCompletedLines
    generation,             \* the predicate generations
    replaying,              \* replay lanes that have yet to compute an address
    parked,                 \* replay lanes that wait for a value
    mode                    \* the flavour of the run; never changes

vars == <<queue, queuedAddresses, queuedLines, flight, outstandingAddresses,
          outstandingLines, completedLines, generation, replaying, parked,
          mode>>

\* Without values the requests of a program only fill the cache; the oracle
\* competes with the helper in a run of its own.
Modes == {"fills", "values", "oracle"}
ContinuePastFLR == mode = "values"
OraclePrefetch == mode = "oracle"

LineOf(addr) == addr \div LineBytes
CrossesLine(addr) == (addr % LineBytes) + AccessBytes > LineBytes

Addresses == {base + lane : base \in Bases, lane \in 1 .. MaxLanes} \cup Targets
Lines == {LineOf(addr) : addr \in Addresses}
Slots == 1 .. LoadQueueCapacity

Kinds == {"source", "dependent", "oracle"}
NoGeneration == 0
Request == [addr : Addresses, kind : Kinds,
            gen : Generations \cup {NoGeneration}, lane : 0 .. MaxLanes - 1]
NoRequest == [kind |-> "none"]

IsSource(request) == request.kind = "source"
IsDependent(request) == request.kind = "dependent"
Loads == {slot \in Slots : flight[slot] # NoRequest}
Available == MaxQueued - Len(queue)

Dependent(addr) == [addr |-> addr, kind |-> "dependent",
                    gen |-> NoGeneration, lane |-> 0]

Init ==
    /\ queue = <<>>
    /\ queuedAddresses = {}
    /\ queuedLines = {}
    /\ flight = [slot \in Slots |-> NoRequest]
    /\ outstandingAddresses = {}
    /\ outstandingLines = [line \in Lines |-> 0]
    /\ completedLines = {}
    /\ generation = [gen \in Generations |->
                        [expected |-> 0, terminal |-> {}, faulted |-> FALSE,
                         reported |-> TRUE]]
    /\ replaying = 0
    /\ parked = 0
    /\ mode \in Modes

(***************************************************************************)
(* Predicate generations: a lane is terminal once, with or without a value; *)
(* the last one reports the generation.                                     *)
(***************************************************************************)
\* Faulty: one terminal lane too many is waited for.
RetireLanes_OneMore(predicate, lanes) ==
    LET terminal == predicate.terminal \cup lanes
    IN  IF predicate.reported THEN predicate
        ELSE [predicate EXCEPT
                 !.terminal = terminal,
                 !.reported = Cardinality(terminal) > predicate.expected]

RetireLanes(predicate, lanes) ==
    LET terminal == predicate.terminal \cup lanes
    IN  IF predicate.reported THEN predicate
        ELSE [predicate EXCEPT
                 !.terminal = terminal,
                 !.reported = Cardinality(terminal) >= predicate.expected]

\* The source of a request ends its lane.
RetireSource(request) ==
    generation' = IF request.gen = NoGeneration THEN generation
                  ELSE [generation EXCEPT ![request.gen] =
                            RetireLanes(@, {request.lane})]

Referenced(gen) ==
    \/ \E i \in DOMAIN queue : queue[i].gen = gen
    \/ \E slot \in Loads : flight[slot].gen = gen

(***************************************************************************)
(* Launches, in commit.                                                     *)
(***************************************************************************)
Known(addr) == addr \in queuedAddresses \cup outstandingAddresses

SourceRequests(base, lanes, gen) ==
    [lane \in 1 .. lanes |-> [addr |-> base + lane, kind |-> "source",
                              gen |-> gen, lane |-> lane - 1]]

\* Requests are taken in order; one whose address is known is skipped.
Enqueue(requests) ==
    LET Add(new, request) ==
            IF \/ Known(request.addr)
               \/ \E i \in DOMAIN new : new[i].addr = request.addr
            THEN new
            ELSE Append(new, request)
        new == FoldLeft(Add, <<>>, requests)
    IN  /\ queue' = queue \o new
        /\ queuedAddresses' = queuedAddresses \cup
                                  {new[i].addr : i \in DOMAIN new}

\* The lanes are clipped to the queue; a lane whose address is known ends
\* without a value.  gen is NoGeneration for a launch with one relation.
LaunchStride(base, gen) ==
    LET lanes    == Min({MaxLanes, Available})
        requests == SourceRequests(base, lanes, gen)
        known    == {lane \in 0 .. lanes - 1 : Known(base + lane + 1)}
        begun    == [expected |-> lanes, terminal |-> {}, faulted |-> FALSE,
                     reported |-> FALSE]
    IN  /\ lanes # 0
        /\ gen # NoGeneration => ~Referenced(gen)
        /\ Enqueue(requests)
        /\ generation' = IF gen = NoGeneration THEN generation
                         ELSE [generation EXCEPT ![gen] =
                                   RetireLanes(begun, known)]
        /\ UNCHANGED <<queuedLines, flight, outstandingAddresses,
                       outstandingLines, completedLines, replaying, parked, mode>>

\* A flattened batch of nested invocations, here of one lane each, is queued
\* whole or not at all, and belongs to no generation.
LaunchNested(bases) ==
    /\ Len(bases) <= Available
    /\ Enqueue([i \in DOMAIN bases |->
                   [addr |-> bases[i] + 1, kind |-> "source",
                    gen |-> NoGeneration, lane |-> i - 1]])
    /\ UNCHANGED <<queuedLines, flight, outstandingAddresses, outstandingLines,
                   completedLines, generation, replaying, parked, mode>>

OracleOnCommittedLoad(addr) ==
    /\ OraclePrefetch
    /\ Available # 0
    /\ ~Known(addr)
    /\ Enqueue(<<[addr |-> addr, kind |-> "oracle", gen |-> NoGeneration,
                  lane |-> 0]>>)
    /\ UNCHANGED <<queuedLines, flight, outstandingAddresses, outstandingLines,
                   completedLines, generation, replaying, parked, mode>>

(***************************************************************************)
(* Replay lanes.  Dependents go to the head of the queue.                   *)
(***************************************************************************)
\* Faulty: a line in flight is not looked at.
LineWanted_QueuedOnly(line) == line \notin queuedLines \cup completedLines

LineWanted(line) ==
    /\ line \notin queuedLines \cup completedLines
    /\ outstandingLines[line] = 0

\* Faulty: the queue is not looked at.
Admitted_Unbounded(addr) == ContinuePastFLR \/ LineWanted(LineOf(addr))

Admitted(addr) ==
    /\ ContinuePastFLR \/ LineWanted(LineOf(addr))
    /\ Available # 0

ReplayTarget(addr) ==
    /\ replaying # 0
    /\ parked < MaxParked
    /\ replaying' = replaying - 1
    /\ parked' = IF ContinuePastFLR THEN parked + 1 ELSE parked
    /\ IF Admitted(addr)
       THEN /\ queue' = <<Dependent(addr)>> \o queue
            /\ queuedAddresses' = queuedAddresses \cup {addr}
            /\ queuedLines' = queuedLines \cup {LineOf(addr)}
       ELSE UNCHANGED <<queue, queuedAddresses, queuedLines>>
    /\ UNCHANGED <<flight, outstandingAddresses, outstandingLines,
                   completedLines, generation, mode>>

ReplayEnds ==
    /\ replaying # 0
    /\ replaying' = replaying - 1
    /\ UNCHANGED <<queue, queuedAddresses, queuedLines, flight,
                   outstandingAddresses, outstandingLines, completedLines,
                   generation, parked, mode>>

(***************************************************************************)
(* Service of the head of the queue.  Every service takes the head and its  *)
(* keys out; a refusal by the port puts them back.                          *)
(***************************************************************************)
\* Faulty: the line of a dependent stays.
HeadTaken_LineKept ==
    /\ queue # <<>>
    /\ Cardinality(Loads) < LoadQueueCapacity
    /\ queue' = Tail(queue)
    /\ queuedAddresses' = queuedAddresses \ {Head(queue).addr}
    /\ UNCHANGED queuedLines

HeadTaken ==
    /\ queue # <<>>
    /\ Cardinality(Loads) < LoadQueueCapacity
    /\ queue' = Tail(queue)
    /\ queuedAddresses' = queuedAddresses \ {Head(queue).addr}
    /\ queuedLines' = IF IsSource(Head(queue)) THEN queuedLines
                      ELSE queuedLines \ {LineOf(Head(queue).addr)}

Masked(request) ==
    /\ IsSource(request)
    /\ request.gen # NoGeneration
    /\ generation[request.gen].faulted

\* Faulty: the lane of a masked source is forgotten.
ServiceDropped_NotRetired ==
    /\ HeadTaken
    /\ Masked(Head(queue)) \/ CrossesLine(Head(queue).addr)
    /\ UNCHANGED <<flight, outstandingAddresses, outstandingLines,
                   completedLines, generation, replaying, parked, mode>>

\* The generation has met an unmapped page, or the access crosses a line.
ServiceDropped ==
    /\ HeadTaken
    /\ Masked(Head(queue)) \/ CrossesLine(Head(queue).addr)
    /\ IF IsSource(Head(queue)) THEN RetireSource(Head(queue))
       ELSE UNCHANGED generation
    /\ UNCHANGED <<flight, outstandingAddresses, outstandingLines,
                   completedLines, replaying, parked, mode>>

Probed(request) == ~Masked(request) /\ ~CrossesLine(request.addr)
Sendable(request) == Probed(request) /\ request.addr \notin Unmapped

\* The translation faults: the source lanes still queued will be masked.
ServiceFault ==
    LET request == Head(queue)
    IN  /\ HeadTaken
        /\ Probed(request) /\ request.addr \in Unmapped
        /\ generation' =
               IF request.gen = NoGeneration THEN generation
               ELSE [generation EXCEPT ![request.gen] =
                         RetireLanes([@ EXCEPT !.faulted = TRUE],
                                     {request.lane})]
        /\ UNCHANGED <<flight, outstandingAddresses, outstandingLines,
                       completedLines, replaying, parked, mode>>

\* The data port refuses: the request is queued again, but the line an
\* oracle request erased is not.
ServiceRefused ==
    /\ queue # <<>>
    /\ Cardinality(Loads) < LoadQueueCapacity
    /\ Sendable(Head(queue))
    /\ queuedAddresses' = queuedAddresses \cup {Head(queue).addr}
    /\ LET line == LineOf(Head(queue).addr)
       IN  queuedLines' = CASE Head(queue).kind = "source"    -> queuedLines
                            [] Head(queue).kind = "dependent" -> queuedLines \cup {line}
                            [] Head(queue).kind = "oracle"    -> queuedLines \ {line}
    /\ UNCHANGED <<queue, flight, outstandingAddresses, outstandingLines,
                   completedLines, generation, replaying, parked, mode>>

ServiceIssued ==
    LET request == Head(queue)
        slot    == Min(Slots \ Loads)
    IN  /\ HeadTaken
        /\ Sendable(request)
        /\ flight' = [flight EXCEPT ![slot] = request]
        /\ outstandingAddresses' = outstandingAddresses \cup {request.addr}
        /\ outstandingLines' =
               IF IsDependent(request)
               THEN [outstandingLines EXCEPT ![LineOf(request.addr)] = @ + 1]
               ELSE outstandingLines
        /\ UNCHANGED <<completedLines, generation, replaying, parked, mode>>

(***************************************************************************)
(* Responses, in any order, and the demand loads of the main thread.        *)
(***************************************************************************)
\* Completion takes a request out of the helper loads and of the sets.
Landed(slot) ==
    LET request == flight[slot]
        line    == LineOf(request.addr)
        last    == IsDependent(request) /\ outstandingLines[line] = 1
    IN  /\ slot \in Loads
        /\ flight' = [flight EXCEPT ![slot] = NoRequest]
        /\ outstandingAddresses' = outstandingAddresses \ {request.addr}
        /\ outstandingLines' =
               IF IsDependent(request)
               THEN [outstandingLines EXCEPT ![line] = @ - 1]
               ELSE outstandingLines
        /\ completedLines' = IF last THEN completedLines \cup {line}
                             ELSE completedLines
        /\ UNCHANGED <<queue, queuedAddresses, queuedLines>>

\* A source value starts a lane when its program has more than the trigger.
SourceResponse(slot, data, replays) ==
    /\ Landed(slot)
    /\ IsSource(flight[slot])
    /\ RetireSource(flight[slot])
    /\ data /\ replays => replaying < MaxReplaying
    /\ replaying' = IF data /\ replays THEN replaying + 1 ELSE replaying
    /\ UNCHANGED <<parked, mode>>

\* The value of a dependent resumes the lane parked for it.
OtherResponse(slot, data) ==
    LET resumes == ContinuePastFLR /\ IsDependent(flight[slot]) /\ data
    IN  /\ Landed(slot)
        /\ ~IsSource(flight[slot])
        /\ resumes => replaying < MaxReplaying
        /\ replaying' = IF resumes THEN replaying + 1 ELSE replaying
        /\ parked' = IF resumes THEN parked - 1 ELSE parked
        /\ UNCHANGED <<generation, mode>>

\* A demand from a dependent load forgets that its line was completed.
ObserveDVRLoad(line) ==
    /\ line \in completedLines
    /\ completedLines' = completedLines \ {line}
    /\ UNCHANGED <<queue, queuedAddresses, queuedLines, flight,
                   outstandingAddresses, outstandingLines, generation,
                   replaying, parked, mode>>

Launch ==
    \/ \E base \in Bases, gen \in Generations \cup {NoGeneration} :
          LaunchStride(base, gen)
    \/ \E bases \in [1 .. MaxLanes -> Bases] : LaunchNested(bases)
    \/ \E addr \in Targets : OracleOnCommittedLoad(addr)
Replay == (\E addr \in Targets : ReplayTarget(addr)) \/ ReplayEnds
Service == ServiceDropped \/ ServiceFault \/ ServiceIssued
RespondTo(slot) ==
    \E data \in BOOLEAN :
        \/ \E replays \in BOOLEAN : SourceResponse(slot, data, replays)
        \/ OtherResponse(slot, data)

Next ==
    \/ Launch
    \/ Replay
    \/ Service
    \/ ServiceRefused
    \/ \E slot \in Slots : RespondTo(slot)
    \/ \E line \in Demands : ObserveDVRLoad(line)

Spec == Init /\ [][Next]_vars

(***************************************************************************)
(* Fairness: the head is eventually taken, dropped or sent, because the     *)
(* port and the load queue of the main thread do not refuse for ever; every *)
(* request sent is answered.  Nothing is assumed of launches and replay.    *)
(***************************************************************************)
FairSpec ==
    /\ Spec
    /\ SF_vars(Service)
    /\ \A slot \in Slots : WF_vars(RespondTo(slot))

--------------------------------------------------------------------------------
Count(P(_)) == Cardinality({i \in DOMAIN queue : P(queue[i])}) +
               Cardinality({slot \in Loads : P(flight[slot])})

\* Every variable has its type; the queue and the loads keep their bounds.
TypeOK ==
    /\ queue \in Seq(Request) /\ Len(queue) <= MaxQueued
    /\ queuedAddresses \subseteq Addresses
    /\ queuedLines \subseteq Lines
    /\ flight \in [Slots -> Request \cup {NoRequest}]
    /\ outstandingAddresses \subseteq Addresses
    /\ outstandingLines \in [Lines -> 0 .. LoadQueueCapacity]
    /\ completedLines \subseteq Lines
    /\ generation \in [Generations ->
                          [expected : 0 .. MaxLanes,
                           terminal : SUBSET (0 .. MaxLanes - 1),
                           faulted : BOOLEAN, reported : BOOLEAN]]
    /\ replaying \in 0 .. MaxReplaying
    /\ parked \in 0 .. MaxParked
    /\ mode \in Modes

\* A key is in a set only while a request that put it there is queued or in
\* flight: no address or line is refused on behalf of a request that is gone,
\* whichever way it went (issued, dropped, faulted, answered).
NoStaleKeys ==
    /\ \A addr \in queuedAddresses :
          \E i \in DOMAIN queue : queue[i].addr = addr
    /\ \A line \in queuedLines :
          \E i \in DOMAIN queue : IsDependent(queue[i])
                                  /\ LineOf(queue[i].addr) = line
    /\ \A addr \in outstandingAddresses :
          \E slot \in Loads : flight[slot].addr = addr
    /\ \A line \in Lines :
          outstandingLines[line] =
              Cardinality({slot \in Loads : IsDependent(flight[slot])
                                   /\ LineOf(flight[slot].addr) = line})

\* Dependents that only fill the cache are asked for once per line: no line
\* has two of them between the queue and the memory, and none is sent for a
\* line that is already filled and has not been demanded since.
DependentLineOnce ==
    ~ContinuePastFLR =>
        \A line \in Lines :
            LET Of(request) == IsDependent(request)
                               /\ LineOf(request.addr) = line
            IN  Count(Of) + (IF line \in completedLines THEN 1 ELSE 0) <= 1

\* A lane of a generation that has not been reported still has its source
\* request, queued or in flight: no path loses a lane without retiring it.
LaneHasRequest ==
    \A gen \in Generations :
        \A lane \in 0 .. generation[gen].expected - 1 :
            LET Of(request) == /\ IsSource(request)
                               /\ request.gen = gen
                               /\ request.lane = lane
            IN  ~generation[gen].reported =>
                    Count(Of) = IF lane \in generation[gen].terminal THEN 0
                                ELSE 1

\* Every generation is eventually reported, although dependents overtake its
\* sources and any of them may be dropped, masked, faulted or refused.  With
\* values a lane of this module, which has no program to end, may overtake
\* the sources for ever: ReplayLanes has the programs that end it.
GenerationReported ==
    \A gen \in Generations :
        ~ContinuePastFLR /\ ~generation[gen].reported
            ~> generation[gen].reported
================================================================================
