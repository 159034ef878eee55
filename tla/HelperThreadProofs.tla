--------------------------- MODULE HelperThreadProofs --------------------------
(***************************************************************************)
(* For every size of the thread, its buffers and its queues: the helper     *)
(* never restarts under a load in flight, so the count begin() zeroes is    *)
(* the number of loads in memory throughout.                                *)
(***************************************************************************)
EXTENDS HelperThread, TLAPS

\* What the argument needs of the helper's record.
Fields == {"state", "maxUops", "issuedUops", "outstanding", "fetchRemaining",
           "decodeRemaining", "readyUops"}
Formed(h) ==
    /\ h = [field \in Fields |-> h[field]]
    /\ h.outstanding \in Nat

\* The inductive invariant: an idle helper has nothing outstanding, which is
\* what lets begin() start from zero.
IInv ==
    /\ Formed(helper)
    /\ flight \in [source : Nat, dependent : Nat]
    /\ helper.state = "Idle" => helper.outstanding = 0
    /\ OutstandingIsInFlight

\* Operations of the thread that neither send nor complete a load.
Keeps(h, g) ==
    /\ Formed(g)
    /\ g.outstanding = h.outstanding
    /\ g.state = "Idle" => h.state = "Idle" \/ h.outstanding = 0

\* wakeForMemoryRequest leaves the loads alone.
LEMMA WokenKeeps ==
    ASSUME NEW h, Formed(h)
    PROVE  Keeps(h, WokenForMemoryRequest(h))
BY DEF Formed, Fields, Keeps, WokenForMemoryRequest

\* So do the credits of enqueueReplayLane and refillComputeReady.
LEMMA CreditedKeeps ==
    ASSUME NEW h, Formed(h)
    PROVE  Keeps(h, Credited(h)) /\ Keeps(h, RefilledCompute(h))
<1>1. Keeps(h, h)
  BY DEF Keeps
<1>2. Keeps(h, Credited(h))
  BY <1>1 DEF Formed, Fields, Keeps, Credited
<1>3. QED
  BY <1>1, <1>2 DEF RefilledCompute

\* The front end goes to Idle only when nothing is outstanding.
LEMMA FrontendKeeps ==
    ASSUME NEW h, Formed(h), NEW width
    PROVE  Keeps(h, AdvancedFrontend(h, width))
<1> DEFINE fetched == FetchedNow(h, width)
           ready == Least(width, h.decodeRemaining + fetched)
           f == h.fetchRemaining - fetched
           d == h.decodeRemaining + fetched - ready
           r == h.readyUops + ready
           moved == [h EXCEPT !.fetchRemaining = f, !.decodeRemaining = d,
                              !.readyUops = r]
<1>1. CASE h.state \in {"Idle", "Draining"}
  BY <1>1 DEF AdvancedFrontend, Keeps
<1>2. CASE h.state \notin {"Idle", "Draining"}
  <2>1. AdvancedFrontend(h, width) = [moved EXCEPT !.state = FrontendState(moved)]
    BY <1>2 DEF AdvancedFrontend
  <2> HIDE DEF f, d, r, fetched, ready
  <2>2. Formed(moved) /\ moved.outstanding = h.outstanding
    BY DEF Formed, Fields
  <2> HIDE DEF moved
  <2>3. FrontendState(moved) = "Idle" => moved.outstanding = 0
    BY DEF FrontendState
  <2>4. QED
    BY <2>1, <2>2, <2>3 DEF Formed, Fields, Keeps
<1>3. QED
  BY <1>1, <1>2

\* An operation that keeps the loads keeps the invariant.
LEMMA KeepsInvariant ==
    ASSUME IInv, Keeps(helper, helper'), flight' = flight
    PROVE  IInv'
BY DEF IInv, Keeps, OutstandingIsInFlight, InFlight

\* The issue of a replay chunk leaves the loads alone.
LEMMA ReplayKeeps ==
    ASSUME NEW h, Formed(h)
    PROVE  Keeps(h, IssuedReplayChunk(RefilledCompute(h)))
<1> DEFINE g == RefilledCompute(h)
<1>1. Keeps(h, g)
  BY CreditedKeeps
<1> HIDE DEF g
<1>2. Keeps(h, IssuedReplayChunk(g))
  BY <1>1 DEF Formed, Fields, Keeps, IssuedReplayChunk
<1>3. QED
  BY <1>2 DEF g

\* begin() and extend() leave the loads of a helper alone that is idle only
\* with nothing outstanding.
LEMMA StartKeeps ==
    ASSUME NEW h, Formed(h), h.state = "Idle" => h.outstanding = 0,
           NEW uops, NEW units, NEW replay,
           StartHelper(h, uops, units, replay)
    PROVE  Keeps(h, helper')
<1>1. CASE h.state = "Idle"
  BY <1>1 DEF StartHelper, Begun, Formed, Fields, Keeps
<1>2. CASE h.state # "Idle"
  <2> DEFINE generation == Least(uops * units, h.maxUops)
             f == h.fetchRemaining + generation
             m == h.maxUops + generation
             state == IF h.state \in {"Draining", "Decode"} THEN "Fetch" ELSE h.state
  <2>1. helper' = [h EXCEPT !.fetchRemaining = f, !.maxUops = m, !.state = state]
    BY <1>2 DEF StartHelper, Extended
  <2>2. state # "Idle"
    BY <1>2
  <2> HIDE DEF f, m, state, generation
  <2>3. QED
    BY <2>1, <2>2 DEF Formed, Fields, Keeps
<1>3. QED
  BY <1>1, <1>2

\* Sending a load counts it.
LEMMA IssuedCounts ==
    ASSUME NEW h, Formed(h), CanIssue(h)
    PROVE  /\ Formed(IssuedMemory(h))
           /\ IssuedMemory(h).outstanding = h.outstanding + 1
           /\ IssuedMemory(h).state # "Idle"
<1> DEFINE i == h.issuedUops + 1
           r == h.readyUops - 1
           o == h.outstanding + 1
           moved == [h EXCEPT !.issuedUops = i, !.readyUops = r,
                              !.outstanding = o]
<1>1. IssuedMemory(h) = IF Spent(moved) THEN [moved EXCEPT !.state = "Draining"]
                        ELSE moved
  BY DEF IssuedMemory
<1>2. h.state = "Running"
  BY DEF CanIssue
<1>3. o \in Nat
  BY DEF Formed
<1> HIDE DEF i, r, o
<1>4. Formed(moved) /\ moved.outstanding = o /\ moved.state = "Running"
  BY <1>2, <1>3 DEF Formed, Fields
<1> HIDE DEF moved
<1>5. QED
  BY <1>1, <1>4 DEF Formed, Fields, o

\* A response discounts one, and makes the helper idle only with the last.
LEMMA CompletedCounts ==
    ASSUME NEW h, Formed(h), h.outstanding # 0
    PROVE  /\ Formed(Completed(h))
           /\ Completed(h).outstanding = h.outstanding - 1
           /\ Completed(h).state = "Idle" =>
                 h.state = "Idle" \/ Completed(h).outstanding = 0
<1> DEFINE left == h.outstanding - 1
           state == IF h.state = "Draining" /\ left = 0 THEN "Idle" ELSE h.state
<1>1. left \in Nat
  BY DEF Formed
<1>2. Completed(h) = [h EXCEPT !.outstanding = left, !.state = state]
  BY DEF Completed
<1>3. state = "Idle" => h.state = "Idle" \/ left = 0
  OBVIOUS
<1> HIDE DEF left, state
<1>4. Formed(Completed(h)) /\ Completed(h).outstanding = left
      /\ Completed(h).state = state
  BY <1>1, <1>2 DEF Formed, Fields
<1>5. QED
  BY <1>3, <1>4 DEF left

\* One load more, or one less, on both sides.
LEMMA SentInvariant ==
    ASSUME IInv
    PROVE  /\ Sent(flight) \in [source : Nat, dependent : Nat]
           /\ Sent(flight).source + Sent(flight).dependent = InFlight + 1
BY DEF IInv, Sent, InFlight

\* A response finds a helper that is not idle.
LEMMA DoneInvariant ==
    ASSUME IInv, NEW kind \in {"source", "dependent"}, flight[kind] # 0,
           flight' = [flight EXCEPT ![kind] = @ - 1]
    PROVE  /\ flight' \in [source : Nat, dependent : Nat]
           /\ InFlight' = InFlight - 1
           /\ helper.outstanding # 0
           /\ helper.state # "Idle"
BY DEF IInv, InFlight, OutstandingIsInFlight

(***************************************************************************)
(* The steps.                                                               *)
(***************************************************************************)
\* Every step of the tick and every response keeps the invariant.
LEMMA NextInvariant == IInv /\ [Next]_vars => IInv'
<1> SUFFICES ASSUME IInv, [Next]_vars PROVE IInv'
  OBVIOUS
<1>1. Formed(helper) /\ (helper.state = "Idle" => helper.outstanding = 0)
      /\ Keeps(helper, helper)
  BY DEF IInv, Keeps
<1>2. ASSUME NEW main, NEW mainLSU, Frontend(main, mainLSU) PROVE IInv'
  BY <1>1, <1>2, FrontendKeeps, KeepsInvariant DEF Frontend
<1>3. CASE Compute
  <2>1. CASE ComputeBlocked
    BY <1>1, <2>1, KeepsInvariant DEF ComputeBlocked
  <2>2. CASE ComputeStalled
    BY <1>1, <2>2, CreditedKeeps, KeepsInvariant DEF ComputeStalled
  <2>3. ASSUME NEW pc \in LanePCs, ReplayFetch(pc) PROVE IInv'
    BY <1>1, <2>3, CreditedKeeps, KeepsInvariant DEF ReplayFetch
  <2>4. ASSUME NEW pc \in LanePCs, ReplayRefused(pc) PROVE IInv'
    BY <1>1, <2>4, CreditedKeeps, KeepsInvariant DEF ReplayRefused
  <2>5. ASSUME NEW pc \in LanePCs, NEW targets \in 0 .. LanesPerLaunch,
               ReplayIssue(pc, targets)
        PROVE  IInv'
    BY <1>1, <2>5, ReplayKeeps, KeepsInvariant DEF ReplayIssue
  <2>6. QED
    BY <1>3, <2>1, <2>2, <2>3, <2>4, <2>5 DEF Compute
<1>4. CASE Service
  <2> DEFINE woken == WokenForMemoryRequest(helper)
  <2>1. Keeps(helper, woken)
    BY <1>1, WokenKeeps
  <2>2. CASE ServiceNothing
    BY <1>1, <2>2, KeepsInvariant DEF ServiceNothing
  <2>3. CASE ServiceRefused \/ ServiceDropped
    BY <2>1, <2>3, KeepsInvariant DEF ServiceRefused, ServiceDropped
  <2>4. CASE ServiceIssued
    <3>1. helper' = IssuedMemory(woken) /\ CanIssue(woken) /\ flight' = Sent(flight)
      BY <2>4 DEF ServiceIssued
    <3> HIDE DEF woken
    <3>2. Formed(helper') /\ helper'.outstanding = helper.outstanding + 1
          /\ helper'.state # "Idle"
      BY <2>1, <3>1, IssuedCounts DEF Keeps
    <3>3. QED
      BY <3>1, <3>2, SentInvariant DEF IInv, OutstandingIsInFlight, InFlight
  <2>5. QED
    BY <1>4, <2>2, <2>3, <2>4 DEF Service
<1>5. CASE Commit
  <2>1. CASE NoLaunch
    BY <1>1, <2>1, KeepsInvariant DEF NoLaunch
  <2>2. ASSUME NEW new \in 0 .. LanesPerLaunch, Launch(new) PROVE IInv'
    BY <1>1, <2>2, StartKeeps, KeepsInvariant DEF Launch
  <2>3. QED
    BY <1>5, <2>1, <2>2 DEF Commit
<1>6. ASSUME NEW h, Keeps(helper, h), NEW kind \in {"source", "dependent"},
             flight[kind] # 0, flight' = [flight EXCEPT ![kind] = @ - 1],
             Keeps(Completed(h), helper')
      PROVE  IInv'
  <2>1. /\ flight' \in [source : Nat, dependent : Nat]
        /\ InFlight' = InFlight - 1
        /\ helper.outstanding # 0 /\ helper.state # "Idle"
    BY <1>6, DoneInvariant
  <2>2. Formed(h) /\ h.outstanding = helper.outstanding /\ h.state # "Idle"
    BY <1>6, <2>1 DEF Keeps
  <2>3. /\ Completed(h).outstanding = h.outstanding - 1
        /\ Completed(h).state = "Idle" => Completed(h).outstanding = 0
    BY <2>1, <2>2, CompletedCounts
  <2>4. Formed(helper') /\ helper'.outstanding = helper.outstanding - 1
        /\ (helper'.state = "Idle" => helper'.outstanding = 0)
    BY <1>6, <2>2, <2>3 DEF Keeps
  <2>5. QED
    BY <2>1, <2>4 DEF IInv, OutstandingIsInFlight
<1>7. CASE SourceResponse
  <2> DEFINE h == Credited(helper)
  <2>1. helper' = Completed(h) /\ flight["source"] # 0
        /\ flight' = [flight EXCEPT !["source"] = @ - 1]
    BY <1>7 DEF SourceResponse
  <2>2. Keeps(helper, h)
    BY <1>1, CreditedKeeps
  <2> HIDE DEF h
  <2>3. Keeps(Completed(h), helper')
    <3>1. h.outstanding # 0 /\ Formed(h)
      BY <2>1, <2>2, DoneInvariant DEF Keeps
    <3>2. QED
      BY <2>1, <3>1, CompletedCounts DEF Keeps
  <2>4. QED
    BY <1>6, <2>1, <2>2, <2>3
<1>8. ASSUME NEW kind \in {"source", "dependent"}, PlainResponse(kind)
      PROVE  IInv'
  <2> DEFINE done == Completed(helper)
  <2>1. /\ flight[kind] # 0
        /\ flight' = [flight EXCEPT ![kind] = @ - 1]
        /\ StartHelper(done, 1, 1, FALSE) \/ helper' = done
    BY <1>8 DEF PlainResponse
  <2>2. helper.outstanding # 0 /\ helper.state # "Idle"
    BY <2>1, DoneInvariant
  <2>3. Formed(done) /\ (done.state = "Idle" => done.outstanding = 0)
    BY <1>1, <2>2, CompletedCounts
  <2> HIDE DEF done
  <2>4. Keeps(done, helper')
    BY <2>1, <2>3, StartKeeps DEF Keeps
  <2>5. QED
    BY <1>1, <1>6, <2>1, <2>4 DEF done
<1>9. ASSUME NEW pc \in PCs, FetchResponse(pc) PROVE IInv'
  BY <1>1, <1>9, KeepsInvariant DEF FetchResponse
<1>10. CASE UNCHANGED vars
  BY <1>1, <1>10, KeepsInvariant DEF vars
<1>11. QED
  BY <1>2, <1>3, <1>4, <1>5, <1>7, <1>8, <1>9, <1>10 DEF Next, Tick, Responses

\* The helper's count of outstanding loads is the number of loads in memory:
\* neither a launch nor the restart by a response resets the thread under a
\* load in flight.
THEOREM OutstandingCounted == Spec => []OutstandingIsInFlight
<1>1. Init => IInv
  BY DEF Init, IInv, IdleHelper, Formed, Fields, OutstandingIsInFlight, InFlight
<1>2. IInv => OutstandingIsInFlight
  BY DEF IInv
<1>3. QED
  BY <1>1, <1>2, NextInvariant, PTL DEF Spec
================================================================================
