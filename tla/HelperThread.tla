------------------------------ MODULE HelperThread -----------------------------
(***************************************************************************)
(* The helper thread (DVRHelperThread) in the vector chunk model: its five  *)
(* states, its fetch, decode, issue and outstanding counters, the fetch     *)
(* buffer, and the replay lanes that walk one captured program.  The        *)
(* program is a straight line of NumUops uops; uop 0 is the striding load,  *)
(* which the memory requests stand for, and the last one is the dependent   *)
(* load that ends a lane.  The prefetch queue appears as two counts, since  *)
(* dependents are always in front of sources; PrefetchQueue has its detail. *)
(***************************************************************************)
EXTENDS Naturals, Sequences, FiniteSets, SequencesExt, FiniteSetsExt

CONSTANTS
    NumUops,                \* uops of the captured program
    LanesPerLaunch,         \* source lanes of one launch
    ElementsPerChunk,       \* lanes of a vector chunk
    HelperMaxUops,          \* dvrHelperMaxUops
    FrontEndBufferCapacity,
    HelperIssueWidth,       \* DvrHelperIssueWidth
    IssueWidth,             \* dvrIssueWidth
    LSUWidth,               \* dvrLSUWidth
    FrontEndWidth,          \* dvrFetchWidth and dvrDecodeWidth
    MaxQueued,              \* DvrMaxQueuedPrefetches
    LoadQueueCapacity,      \* DvrHelperLoadQueueCapacity
    MaxLaunches             \* bound: launches in a behaviour

ASSUME HelperThreadAssumption ==
    /\ NumUops \in Nat /\ NumUops >= 2
    /\ {LanesPerLaunch, ElementsPerChunk, HelperMaxUops,
        FrontEndBufferCapacity, HelperIssueWidth, IssueWidth, LSUWidth,
        FrontEndWidth, MaxQueued, LoadQueueCapacity} \subseteq Nat \ {0}
    /\ MaxLaunches \in Nat

VARIABLES
    helper,     \* the state and the counters of the thread
    frontend,   \* the fetch buffer and its cursor
    decoded,    \* decodedUopCache
    fetching,   \* PCs with an instruction fetch in flight
    laneAt,     \* for every uop, the replay lanes waiting to issue it
    queue,      \* sources and dependents in the prefetch queue
    flight,     \* sources and dependents sent to memory
    fresh,      \* a dependent's address is computed in this cycle
    cycle,      \* the part of the tick that runs, and the slots used in it
    launches    \* launches so far

vars == <<helper, frontend, decoded, fetching, laneAt, queue, flight, fresh,
          cycle, launches>>

PCs == 0 .. NumUops - 1
LanePCs == 1 .. NumUops - 1

LaneCount == MapThenSumSet(LAMBDA pc : laneAt[pc], LanePCs)
NoLanes == [pc \in LanePCs |-> 0]
ComputePending == LaneCount # 0
InFlight == flight.source + flight.dependent
Queued == queue.source + queue.dependent

Least(i, j) == IF i <= j THEN i ELSE j

(***************************************************************************)
(* Operations of the thread.                                                *)
(***************************************************************************)
EmptyFrontend == [buffer |-> <<>>, cursor |-> 0, replay |-> FALSE]

IdleHelper ==
    [state |-> "Idle", maxUops |-> 0, issuedUops |-> 0, outstanding |-> 0,
     fetchRemaining |-> 0, decodeRemaining |-> 0, readyUops |-> 0]

Begun(uops, units) ==
    [state |-> "Fetch", maxUops |-> HelperMaxUops, issuedUops |-> 0,
     outstanding |-> 0, fetchRemaining |-> Least(uops * units, HelperMaxUops),
     decodeRemaining |-> 0, readyUops |-> 0]

Extended(h, uops, units) ==
    LET generation == Least(uops * units, h.maxUops)
    IN  [h EXCEPT !.fetchRemaining = @ + generation,
                  !.maxUops = @ + generation,
                  !.state = IF @ \in {"Draining", "Decode"} THEN "Fetch"
                                                            ELSE @]

\* Faulty: begin() even while the thread is active.
StartHelper_AlwaysBegin(h, uops, units, replay) ==
    /\ helper' = Begun(uops, units)
    /\ frontend' = [EmptyFrontend EXCEPT !.replay = replay]

\* begin() forgets the lanes, the buffer and the decoded instructions.
StartHelper(h, uops, units, replay) ==
    IF h.state # "Idle"
    THEN /\ helper' = Extended(h, uops, units)
         /\ UNCHANGED frontend
    ELSE /\ helper' = Begun(uops, units)
         /\ frontend' = [EmptyFrontend EXCEPT !.replay = replay]

FrontendState(h) ==
    CASE /\ h.fetchRemaining = 0
         /\ h.decodeRemaining = 0
         /\ h.readyUops = 0
         /\ h.outstanding = 0     -> "Idle"
      [] h.readyUops # 0          -> "Running"
      [] OTHER -> IF h.fetchRemaining # 0 THEN "Fetch" ELSE "Decode"

FetchedNow(h, width) ==
    LET used == Len(frontend.buffer)
    IN  Least(Least(width, h.fetchRemaining),
              IF used < FrontEndBufferCapacity
              THEN FrontEndBufferCapacity - used ELSE 0)

AdvancedFrontend(h, width) ==
    IF h.state \in {"Idle", "Draining"} THEN h
    ELSE LET fetched == FetchedNow(h, width)
             ready   == Least(width, h.decodeRemaining + fetched)
             moved   == [h EXCEPT
                 !.fetchRemaining = @ - fetched,
                 !.decodeRemaining = @ + fetched - ready,
                 !.readyUops = @ + ready]
         IN  [moved EXCEPT !.state = FrontendState(moved)]

CanIssue(h) ==
    /\ h.state = "Running"
    /\ h.readyUops # 0
    /\ h.issuedUops < h.maxUops

\* Faulty: no issue credit for the request.
WokenForMemoryRequest_NoCredit(h) ==
    [h EXCEPT !.state = IF @ \in {"Idle", "Draining"} THEN "Running" ELSE @]

WokenForMemoryRequest(h) ==
    [h EXCEPT !.state = IF @ \in {"Idle", "Draining"} THEN "Running" ELSE @,
              !.readyUops = IF @ = 0 THEN 1 ELSE @,
              !.maxUops = IF h.issuedUops >= @ THEN h.issuedUops + 1 ELSE @]

Spent(h) ==
    /\ h.issuedUops >= h.maxUops
    /\ h.readyUops = 0
    /\ h.fetchRemaining = 0
    /\ h.decodeRemaining = 0

IssuedMemory(h) ==
    LET moved == [h EXCEPT !.issuedUops = @ + 1, !.readyUops = @ - 1,
                           !.outstanding = @ + 1]
    IN  IF Spent(moved) THEN [moved EXCEPT !.state = "Draining"] ELSE moved

Completed(h) ==
    LET left == IF h.outstanding = 0 THEN 0 ELSE h.outstanding - 1
    IN  [h EXCEPT !.outstanding = left,
                  !.state = IF @ = "Draining" /\ left = 0 THEN "Idle" ELSE @]

\* enqueueReplayLane and refillComputeReady: one credit if there is none.
Credited(h) ==
    IF h.readyUops # 0 THEN h
    ELSE [h EXCEPT !.readyUops = 1, !.state = "Running"]

\* Faulty: only the front end hands out ready uops.
RefilledCompute_Never(h) == h

RefilledCompute(h) ==
    IF ComputePending /\ h.fetchRemaining = 0 /\ h.decodeRemaining = 0
    THEN Credited(h) ELSE h

\* The lanes of the chunk are still in replayLanes, so issueReplayChunk never
\* gets to Draining.
IssuedReplayChunk(h) ==
    [h EXCEPT !.issuedUops = @ + 1, !.readyUops = @ - 1]

(***************************************************************************)
(* The fetch buffer.                                                        *)
(***************************************************************************)
PendingAt(buffer, pc) ==
    {i \in DOMAIN buffer : buffer[i].pc = pc /\ ~buffer[i].ready}
ReadyAt(buffer, pc) ==
    {i \in DOMAIN buffer : buffer[i].pc = pc /\ buffer[i].ready}

FrontendDecoded(buffer, pc) ==
    IF PendingAt(buffer, pc) = {} THEN buffer
    ELSE [buffer EXCEPT ![Min(PendingAt(buffer, pc))].ready = TRUE]

RetireFrontend(buffer, pc) ==
    IF ReadyAt(buffer, pc) = {} THEN buffer
    ELSE RemoveAt(buffer, Min(ReadyAt(buffer, pc)))

\* One pass of the fetch loop: the entry is decoded at once when its
\* instruction is cached, and waits for the instruction port otherwise.
FetchOne(front, i) ==
    [front EXCEPT
        !.buffer = LET grown == Append(@, [pc |-> front.cursor,
                                           ready |-> FALSE])
                   IN  IF front.cursor \in decoded
                       THEN FrontendDecoded(grown, front.cursor) ELSE grown,
        !.cursor = (@ + 1) % NumUops]

FetchedUops(front, n) ==
    IF front.replay THEN FoldLeftDomain(FetchOne, front, [i \in 1 .. n |-> i])
    ELSE front

(***************************************************************************)
(* One tick: the main pipeline takes its slots, then the helper's front     *)
(* end, its compute, the queue, commit with its launches, the queue again.  *)
(***************************************************************************)
Init ==
    /\ helper = IdleHelper
    /\ frontend = EmptyFrontend
    /\ decoded = {}
    /\ fetching = {}
    /\ laneAt = NoLanes
    /\ queue = [source |-> 0, dependent |-> 0]
    /\ flight = [source |-> 0, dependent |-> 0]
    /\ fresh = FALSE
    /\ cycle = [phase |-> "between", main |-> 0, mainLSU |-> 0, issues |-> 0,
                compute |-> 0]
    /\ launches = 0

Frontend(main, mainLSU) ==
    LET width == FrontEndWidth - Least(FrontEndWidth, main)
        front == FetchedUops(frontend,
                     IF helper.state \in {"Idle", "Draining"} THEN 0
                     ELSE FetchedNow(helper, width))
    IN  /\ cycle.phase = "between"
        /\ cycle' = [phase |-> "compute", main |-> main, mainLSU |-> mainLSU,
                     issues |-> 0, compute |-> 0]
        /\ fresh' = FALSE
        /\ helper' = AdvancedFrontend(helper, width)
        /\ frontend' = front
        /\ fetching' = fetching \cup
               {front.buffer[i].pc : i \in {j \in DOMAIN front.buffer :
                    j > Len(frontend.buffer) /\ ~front.buffer[j].ready}}
        /\ UNCHANGED <<decoded, laneAt, queue, flight, launches>>

\* No slot is left: the credit is not refilled either.
ComputeBlocked ==
    /\ cycle.phase = "compute"
    /\ cycle.main >= IssueWidth
    /\ cycle' = [cycle EXCEPT !.phase = "service"]
    /\ UNCHANGED <<helper, frontend, decoded, fetching, laneAt, queue, flight,
                   fresh, launches>>

\* No lane, no credit, or every lane waits for an operand or a VIR entry.
ComputeStalled ==
    /\ cycle.phase = "compute"
    /\ cycle.main < IssueWidth
    /\ helper' = RefilledCompute(helper)
    /\ cycle' = [cycle EXCEPT !.phase = "service"]
    /\ UNCHANGED <<frontend, decoded, fetching, laneAt, queue, flight, fresh,
                   launches>>

ReplayGroup(pc) ==
    /\ cycle.phase = "compute"
    /\ cycle.main < IssueWidth
    /\ laneAt[pc] # 0
    /\ RefilledCompute(helper).readyUops # 0

\* The group's instruction is not in the decode cache yet.
ReplayFetch(pc) ==
    /\ ReplayGroup(pc)
    /\ pc \notin decoded
    /\ fetching' = fetching \cup {pc}
    /\ helper' = RefilledCompute(helper)
    /\ cycle' = [cycle EXCEPT !.phase = "service"]
    /\ UNCHANGED <<frontend, decoded, laneAt, queue, flight, fresh, launches>>

\* The functional unit is refused after the fetch buffer gave up the entry.
ReplayRefused(pc) ==
    /\ ReplayGroup(pc)
    /\ pc \in decoded
    /\ frontend' = [frontend EXCEPT !.buffer = RetireFrontend(@, pc)]
    /\ helper' = RefilledCompute(helper)
    /\ cycle' = [cycle EXCEPT !.phase = "service"]
    /\ UNCHANGED <<decoded, fetching, laneAt, queue, flight, fresh, launches>>

\* A chunk of lanes issues the uop; at the last one the lanes end and
\* `targets` of them queue the line they computed.
ReplayIssue(pc, targets) ==
    LET group == Least(laneAt[pc], ElementsPerChunk)
        final == pc = NumUops - 1
    IN  /\ ReplayGroup(pc)
        /\ pc \in decoded
        /\ targets <= IF final THEN Least(group, MaxQueued - Queued) ELSE 0
        /\ frontend' = [frontend EXCEPT !.buffer = RetireFrontend(@, pc)]
        /\ laneAt' = IF final
                     THEN [laneAt EXCEPT ![pc] = @ - group]
                     ELSE [laneAt EXCEPT ![pc] = @ - group,
                                         ![pc + 1] = @ + group]
        /\ helper' = IssuedReplayChunk(RefilledCompute(helper))
        /\ queue' = [queue EXCEPT !.dependent = @ + targets]
        /\ fresh' = (fresh \/ targets # 0)
        /\ cycle' = [cycle EXCEPT !.phase = "service", !.compute = @ + 1]
        /\ UNCHANGED <<decoded, fetching, flight, launches>>

InService == cycle.phase \in {"service", "late"}
AfterService == IF cycle.phase = "service" THEN "commit" ELSE "between"
HeadReady == ~(fresh /\ queue.dependent # 0)
Serviced == /\ Queued # 0
            /\ cycle.issues < HelperIssueWidth
SlotFree ==
    /\ cycle.main + cycle.issues + cycle.compute < IssueWidth
    /\ cycle.mainLSU + cycle.issues < LSUWidth
    /\ InFlight < LoadQueueCapacity

ServiceNothing ==
    /\ InService
    /\ ~(Serviced /\ HeadReady)
    /\ cycle' = [cycle EXCEPT !.phase = AfterService]
    /\ UNCHANGED <<helper, frontend, decoded, fetching, laneAt, queue, flight,
                   fresh, launches>>

\* A slot is missing, the load queue has no free entry, or the port refuses
\* the packet, which then stays at the head.
ServiceRefused ==
    /\ InService
    /\ Serviced /\ HeadReady
    /\ helper' = WokenForMemoryRequest(helper)
    /\ cycle' = [cycle EXCEPT !.phase = AfterService]
    /\ UNCHANGED <<frontend, decoded, fetching, laneAt, queue, flight, fresh,
                   launches>>

TakeHead(q) == IF q.dependent # 0 THEN [q EXCEPT !.dependent = @ - 1]
                                  ELSE [q EXCEPT !.source = @ - 1]
Sent(f) == IF queue.dependent # 0 THEN [f EXCEPT !.dependent = @ + 1]
                                  ELSE [f EXCEPT !.source = @ + 1]

\* The head crosses a line, or its translation faults.
ServiceDropped ==
    /\ InService
    /\ Serviced /\ HeadReady /\ SlotFree
    /\ CanIssue(WokenForMemoryRequest(helper))
    /\ helper' = WokenForMemoryRequest(helper)
    /\ queue' = TakeHead(queue)
    /\ cycle' = [cycle EXCEPT !.phase = AfterService]
    /\ UNCHANGED <<frontend, decoded, fetching, laneAt, flight, fresh,
                   launches>>

ServiceIssued ==
    /\ InService
    /\ Serviced /\ HeadReady /\ SlotFree
    /\ CanIssue(WokenForMemoryRequest(helper))
    /\ helper' = IssuedMemory(WokenForMemoryRequest(helper))
    /\ queue' = TakeHead(queue)
    /\ flight' = Sent(flight)
    /\ cycle' = [cycle EXCEPT !.issues = @ + 1]
    /\ UNCHANGED <<frontend, decoded, fetching, laneAt, fresh, launches>>

NoLaunch ==
    /\ cycle.phase = "commit"
    /\ cycle' = [cycle EXCEPT !.phase = "late"]
    /\ UNCHANGED <<helper, frontend, decoded, fetching, laneAt, queue, flight,
                   fresh, launches>>

\* begin() drops every replay lane and every decoded instruction.
Forget(begun) ==
    /\ laneAt' = IF begun THEN NoLanes ELSE laneAt
    /\ decoded' = IF begun THEN {} ELSE decoded

Units(lanes) == (lanes + ElementsPerChunk - 1) \div ElementsPerChunk

\* The sources of a launch that are not already queued or in flight follow
\* the queued ones.
Launch(new) ==
    LET lanes == Least(LanesPerLaunch, MaxQueued - Queued)
    IN  /\ cycle.phase = "commit"
        /\ launches < MaxLaunches
        /\ lanes # 0
        /\ new <= lanes
        /\ StartHelper(helper, NumUops, Units(lanes), TRUE)
        /\ Forget(helper.state = "Idle")
        /\ queue' = [queue EXCEPT !.source = @ + new]
        /\ launches' = launches + 1
        /\ cycle' = [cycle EXCEPT !.phase = "late"]
        /\ UNCHANGED <<fetching, flight, fresh>>

(***************************************************************************)
(* Responses arrive between ticks.                                          *)
(***************************************************************************)
SourceResponse ==
    /\ cycle.phase = "between"
    /\ flight.source # 0
    /\ flight' = [flight EXCEPT !.source = @ - 1]
    /\ laneAt' = [laneAt EXCEPT ![1] = @ + 1]
    /\ helper' = Completed(Credited(helper))
    /\ UNCHANGED <<frontend, decoded, fetching, queue, fresh, cycle, launches>>

\* A response that wakes no lane.  An idle helper with queued requests
\* restarts on a program of one memory uop.
PlainResponse(kind) ==
    LET done    == Completed(helper)
        restart == done.state = "Idle" /\ Queued # 0
    IN  /\ cycle.phase = "between"
        /\ flight[kind] # 0
        /\ flight' = [flight EXCEPT ![kind] = @ - 1]
        /\ IF restart THEN StartHelper(done, 1, 1, FALSE)
           ELSE helper' = done /\ UNCHANGED frontend
        /\ Forget(restart)
        /\ UNCHANGED <<fetching, queue, fresh, cycle, launches>>

FetchResponse(pc) ==
    /\ cycle.phase = "between"
    /\ pc \in fetching
    /\ fetching' = fetching \ {pc}
    /\ decoded' = decoded \cup {pc}
    /\ frontend' = [frontend EXCEPT !.buffer = FrontendDecoded(@, pc)]
    /\ UNCHANGED <<helper, laneAt, queue, flight, fresh, cycle, launches>>

Compute ==
    \/ ComputeBlocked
    \/ ComputeStalled
    \/ \E pc \in LanePCs : \/ ReplayFetch(pc)
                           \/ ReplayRefused(pc)
                           \/ \E targets \in 0 .. LanesPerLaunch :
                                  ReplayIssue(pc, targets)
Service == ServiceNothing \/ ServiceRefused \/ ServiceDropped \/ ServiceIssued
Commit == NoLaunch \/ \E new \in 0 .. LanesPerLaunch : Launch(new)

Tick ==
    \/ \E main \in 0 .. IssueWidth, mainLSU \in 0 .. LSUWidth :
           mainLSU <= main /\ Frontend(main, mainLSU)
    \/ Compute
    \/ Service
    \/ Commit

Responses ==
    \/ SourceResponse
    \/ \E kind \in {"source", "dependent"} : PlainResponse(kind)
    \/ \E pc \in PCs : FetchResponse(pc)

Next == Tick \/ Responses

Spec == Init /\ [][Next]_vars

\* The tick event is rescheduled and memory answers.  The main pipeline
\* leaves all its slots again and again (it waits for the misses the helper
\* runs ahead of); a functional unit, a load-queue entry and the port are
\* free again and again.
Fairness ==
    /\ WF_vars(Tick)
    /\ SF_vars(Frontend(0, 0))
    /\ SF_vars(\E pc \in LanePCs, targets \in 0 .. LanesPerLaunch :
                   ReplayFetch(pc) \/ ReplayIssue(pc, targets))
    /\ SF_vars(ServiceIssued)
    /\ SF_vars(Responses)

FairSpec == Spec /\ Fairness

--------------------------------------------------------------------------------
\* The helper's count of outstanding loads is the number of loads in memory:
\* no restart of the thread (begin() zeroes the count) happens under a load
\* in flight.
OutstandingIsInFlight == helper.outstanding = InFlight

\* Every queued request is sent or dropped: the credits of wakeForMemoryRequest
\* keep the queue moving after the fetched uops and the issue budget are
\* used up.
RequestsDrain == Queued # 0 ~> Queued = 0

\* Every replay lane ends.  A lane needs a ready uop for each of its issues;
\* the uops come from the front end and, when it has fetched everything, from
\* refillComputeReady.
LanesDrain == LaneCount # 0 ~> LaneCount = 0
================================================================================
