------------------------------ MODULE LoopBound ------------------------------
(*****************************************************************************)
(* DVRLoopBoundDetector: from the body of a Discovery it finds the backward  *)
(* branch that closes the loop, and from two snapshots of the registers the  *)
(* number of iterations that remain, which is the number of lanes a launch   *)
(* gets.  The detector watches a loop that commits; the snapshot at the      *)
(* start is taken when the trigger is dispatched, from the registers of the  *)
(* instructions that have committed by then.  After the inference the loop   *)
(* goes on to its end, which tells how many iterations there really were.    *)
(*****************************************************************************)
EXTENDS Integers, Sequences, SequencesExt

CONSTANTS Width,     \* bits of a register (64)
          Programs,  \* loops, each a sequence of instructions
          MaxLanes,  \* dvrMaxLanes, and the 128 of the fallback
          MaxAhead   \* instructions between commit and dispatch (ROB)

ASSUME LoopAssumption ==
    /\ Width \in Nat \ {0}
    /\ MaxLanes \in Nat \ {0}
    /\ MaxAhead \in Nat

VARIABLES program,   \* the loop
          pc, regs,  \* its committed state
          recent,    \* the registers after the last MaxAhead commits
          phase,     \* "idle", "body" or "inferred"
          start,     \* dvrDiscoveryStartRegs
          lbd,       \* the detector
          inference, \* what infer returned
          fresh,     \* history: start is what the trigger itself found
          left       \* history: iterations after the inference

vars == <<program, pc, regs, recent, phase, start, lbd, inference, fresh,
          left>>

Values == 0 .. 2^Width - 1
Registers == 1 .. 3
Snapshots == [Registers -> Values]
AsSigned(v) == IF v >= 2^(Width - 1) THEN v - 2^Width ELSE v
Magnitude(delta) == IF delta < 0 THEN -delta ELSE delta
Lesser(a, b) == IF a <= b THEN a ELSE b

Branches == {"beq", "bne", "blt", "bge", "bltu", "bgeu"}
Compares == {"slt", "sltu"}
Trigger == CHOOSE p \in DOMAIN program : program[p].op = "load"
Exited == pc \notin DOMAIN program

--------------------------------------------------------------------------------
(* The detector.                                                             *)

\* reset() and begin().
NoBound == [flr |-> 0, branch |-> 0, sources |-> <<>>, compared |-> 0,
            values |-> <<>>, comparison |-> "Unknown", seen |-> FALSE,
            earlyExit |-> FALSE]

UpdateFinalLoad(p) == [NoBound EXCEPT !.flr = p]

\* The integer sources of an instruction: a read of x0 is not an operand.
IntegerSources(inst) == SelectSeq(inst.sources, LAMBDA r : r # 0)

\* The loop compare register: SLT or SLTU after the final load.
Compared(d, inst) ==
    IF ~d.seen /\ d.flr # 0 /\ Len(IntegerSources(inst)) = 2 /\ inst.dst # 0
    THEN [d EXCEPT !.sources = IntegerSources(inst), !.compared = inst.dst,
                   !.comparison = IF inst.op = "slt" THEN "SignedLess"
                                                     ELSE "UnsignedLess",
                   !.values = <<>>]
    ELSE d

ConsumesCompare(d, inst) ==
    /\ inst.op \in {"beq", "bne"}
    /\ d.compared # 0
    /\ IntegerSources(inst) \in {<<d.compared, 0>>, <<0, d.compared>>}

\* RISC-V compares and branches in one instruction: a virtual compare.
VirtualCompare(d, inst) ==
    /\ ~d.seen
    /\ Len(IntegerSources(inst)) = 2
    /\ inst.op # "beq"

VirtualComparison == [bne  |-> "NotEqual",
                      blt  |-> "SignedLess",   bge  |-> "SignedGreaterEqual",
                      bltu |-> "UnsignedLess", bgeu |-> "UnsignedGreaterEqual"]

Inverted(comparison) ==
    CASE comparison = "SignedLess"   -> "SignedGreaterEqual"
      [] comparison = "UnsignedLess" -> "UnsignedGreaterEqual"
      [] OTHER -> comparison

Encloses(d, p, inst) == d.flr # 0 /\ inst.target <= Trigger /\ p >= d.flr

\* The backward branch closes the loop: record it with the values it compares.
Closed(d, p, inst, snapshot) ==
    [d EXCEPT !.branch = p, !.seen = TRUE,
              !.values = <<snapshot[d.sources[1]], snapshot[d.sources[2]]>>,
              !.comparison = IF inst.op = "beq" THEN Inverted(@) ELSE @]

Backward(d, p, inst, snapshot) ==
    LET virtual == VirtualCompare(d, inst)
        compare == IF virtual
                   THEN [d EXCEPT !.comparison = VirtualComparison[inst.op],
                                  !.sources = IntegerSources(inst),
                                  !.compared = 0]
                   ELSE d
    IN  IF ~d.seen /\ Encloses(d, p, inst) /\ (ConsumesCompare(d, inst) \/ virtual)
        THEN Closed(compare, p, inst, snapshot)
        ELSE compare

Forward(d, inst) ==
    IF d.seen /\ inst.target > d.branch THEN [d EXCEPT !.earlyExit = TRUE] ELSE d

\* observe(), for the instruction that commits at p.
Observe(d, p, inst, snapshot) ==
    CASE inst.op \in Compares -> Compared(d, inst)
      [] inst.op \in Branches /\ inst.target > p -> Forward(d, inst)
      [] inst.op \in Branches /\ inst.target <= p -> Backward(d, p, inst, snapshot)
      [] OTHER -> d

--------------------------------------------------------------------------------
(* The inference.                                                            *)

\* signedDelta: the difference of two unsigned values, saturated.
SignedDelta(to, from) ==
    LET limit == 2^(Width - 1) - 1
    IN  IF to >= from THEN Lesser(to - from, limit)
        ELSE IF from - to > limit THEN -limit - 1 ELSE to - from

\* The source that did not change is the bound, the other one the induction
\* variable.
Induction(was, now, values) ==
    LET induction(bound, current, from) ==
            {[bound |-> bound, current |-> current,
              increment |-> SignedDelta(current, from)]}
    IN  IF was[1] = now[1] /\ was[2] # now[2]
        THEN induction(now[1], now[2], was[2])
        ELSE IF was[2] = now[2] /\ was[1] # now[1]
        THEN induction(now[2], now[1], was[1])
        ELSE IF values # <<>> /\ was[1] = values[1] /\ was[2] # values[2]
        THEN induction(values[1], values[2], was[2])
        ELSE IF values # <<>> /\ was[2] = values[2] /\ was[1] # values[1]
        THEN induction(values[2], values[1], was[1])
        ELSE {}

\* How far the variable is from the value that ends the loop, 0 when the
\* relation cannot be proven.
Distance(comparison, i) ==
    LET up == i.increment > 0
        down == i.increment < 0
        signed == AsSigned(i.bound) - AsSigned(i.current)
        unsigned == i.bound - i.current
        step == Magnitude(i.increment)
    IN  CASE comparison = "SignedLess" /\ up /\ signed > 0 -> signed
          [] comparison = "UnsignedLess" /\ up /\ unsigned > 0 -> unsigned
          [] comparison = "SignedGreaterEqual" /\ down /\ signed <= 0 -> 1 - signed
          [] comparison = "UnsignedGreaterEqual" /\ down /\ unsigned <= 0 ->
                 1 - unsigned
          [] comparison = "NotEqual" /\ up /\ unsigned > 0 /\ unsigned % step = 0 ->
                 unsigned
          [] comparison = "NotEqual" /\ down /\ unsigned < 0 /\ unsigned % step = 0 ->
                 -unsigned
          [] OTHER -> 0

\* Faulty: rounded down, to one at least.
Remaining_Floor(distance, step) ==
    IF distance < step THEN 1 ELSE distance \div step
\* Faulty: one more than rounded up.
Remaining_OneMore(distance, step) == (distance + step) \div step
Remaining(distance, step) == (distance + step - 1) \div step

Fallback == [matched |-> FALSE, remaining |-> 0, lanes |-> MaxLanes]

Matched(distance, step) ==
    [matched |-> TRUE, remaining |-> Remaining(distance, step),
     lanes |-> Lesser(Remaining(distance, step), MaxLanes)]

Infer(d, was, now) ==
    LET at(snapshot) == <<snapshot[d.sources[1]], snapshot[d.sources[2]]>>
        accepted == {i \in Induction(at(was), at(now), d.values) :
                         Distance(d.comparison, i) # 0}
    IN  IF d.seen /\ ~d.earlyExit /\ accepted # {}
        THEN LET i == CHOOSE i \in accepted : TRUE
             IN  Matched(Distance(d.comparison, i), Magnitude(i.increment))
        ELSE Fallback

--------------------------------------------------------------------------------
(* The loop.                                                                 *)

Holds(op, a, b) ==
    CASE op = "beq"  -> a = b
      [] op = "bne"  -> a # b
      [] op = "blt"  -> AsSigned(a) < AsSigned(b)
      [] op = "bge"  -> AsSigned(a) >= AsSigned(b)
      [] op = "bltu" -> a < b
      [] op = "bgeu" -> a >= b

Source(inst, k) == IF inst.sources[k] = 0 THEN 0 ELSE regs[inst.sources[k]]

NextPC(inst) ==
    IF inst.op \in Branches /\ Holds(inst.op, Source(inst, 1), Source(inst, 2))
    THEN inst.target ELSE pc + 1

Result(inst) ==
    CASE inst.op = "addi" -> {(Source(inst, 1) + inst.imm) % 2^Width}
      [] inst.op = "slt"  -> {IF Holds("blt", Source(inst, 1), Source(inst, 2))
                              THEN 1 ELSE 0}
      [] inst.op = "sltu" -> {IF Holds("bltu", Source(inst, 1), Source(inst, 2))
                              THEN 1 ELSE 0}
      [] OTHER -> {}

Written(inst) == [r \in Registers |->
    IF r = inst.dst /\ Result(inst) # {} THEN CHOOSE v \in Result(inst) : TRUE
                                        ELSE regs[r]]

\* The induction variable leaves the range the loop compares in.  Such a loop
\* is not followed any further.
Wraps(inst) ==
    LET signed == \E p \in DOMAIN program : program[p].op \in {"slt", "blt", "bge"}
    IN  /\ inst.op = "addi"
        /\ IF signed
           THEN AsSigned(Source(inst, 1)) + inst.imm
                    \notin -(2^(Width - 1)) .. 2^(Width - 1) - 1
           ELSE Source(inst, 1) + inst.imm \notin Values

Init ==
    /\ program \in Programs
    /\ pc = 1
    /\ regs \in {r \in Snapshots : r[3] = 0}
    /\ recent = <<>>
    /\ phase = "idle"
    /\ start = regs
    /\ lbd = NoBound
    /\ inference = Fallback
    /\ fresh = TRUE
    /\ left = 0

Runs(inst) ==
    /\ ~Wraps(inst)
    /\ regs' = Written(inst)
    /\ pc' = NextPC(inst)
    /\ recent' = IF phase # "idle" THEN <<>>
                 ELSE LET last == Append(recent, regs)
                      IN  IF Len(last) > MaxAhead THEN Tail(last) ELSE last
    /\ UNCHANGED program

\* An instruction outside the body commits.
CommitOutside(inst) ==
    /\ phase = "idle"
    /\ Runs(inst)
    /\ UNCHANGED <<phase, start, lbd, inference, fresh, left>>

\* The trigger of a Discovery commits.  When it was dispatched, the registers
\* were those of an instruction that had committed by then.
CommitTrigger(inst) ==
    /\ phase = "idle" /\ pc = Trigger
    /\ Runs(inst)
    /\ start' \in {regs} \cup Range(recent)
    /\ fresh' = (start' = regs)
    /\ phase' = "body"
    /\ lbd' = NoBound
    /\ UNCHANGED <<inference, left>>

\* An instruction of the body commits.
CommitBody(inst) ==
    /\ phase = "body" /\ pc # Trigger
    /\ Runs(inst)
    /\ lbd' = Observe(IF inst.op = "flr" THEN UpdateFinalLoad(pc) ELSE lbd,
                      pc, inst, regs')
    /\ UNCHANGED <<phase, start, inference, fresh, left>>

\* The next instance of the trigger commits: the Discovery is complete.
Complete(inst) ==
    /\ phase = "body" /\ pc = Trigger
    /\ Runs(inst)
    /\ inference' = Infer(lbd, start, regs')
    /\ phase' = "inferred"
    /\ UNCHANGED <<start, lbd, fresh, left>>

\* The loop goes on.
CommitAfter(inst) ==
    /\ phase = "inferred"
    /\ Runs(inst)
    /\ left' = IF pc = Trigger THEN left + 1 ELSE left
    /\ UNCHANGED <<phase, start, lbd, inference, fresh>>

Next ==
    /\ ~Exited
    /\ LET inst == program[pc]
       IN  \/ CommitOutside(inst)
           \/ CommitTrigger(inst)
           \/ CommitBody(inst)
           \/ Complete(inst)
           \/ CommitAfter(inst)

Spec == Init /\ [][Next]_vars

--------------------------------------------------------------------------------
\* A matched bound sends at least one lane, at most as many as are allowed, and
\* none past the end of the loop, apart from the one that stands for the current
\* iteration where the induction variable is advanced after the trigger.
NeverPastEnd ==
    Exited /\ inference.matched =>
        inference.lanes \in 1 .. Lesser(left + 1, MaxLanes)

\* A launch has a lane for every iteration that remains, up to the limit, if
\* no commit came between the snapshot at dispatch and the trigger's commit.
\* An older snapshot spans several iterations, and the lanes then fall short.
CoversLoop ==
    Exited /\ phase = "inferred" /\ fresh =>
        inference.lanes >= Lesser(left, MaxLanes)
================================================================================
