--------------------------- MODULE DiscoveryHistory ----------------------------
(***************************************************************************)
(* Discovery with a history variable about the running generation: the PCs  *)
(* committed since the trigger, up to the next instance of its PC.          *)
(***************************************************************************)
EXTENDS Discovery

VARIABLE body

hvars == <<vars, body>>

Committing == insts # <<>> /\ InROB(1) /\ Live(1) /\ insts' = Tail(insts)

\* The generation goes on in this step.
Continuing == /\ IsDiscovering(ctl) /\ IsDiscovering(ctl')
              /\ ctl'.triggerSequence = ctl.triggerSequence

HInit == Init /\ body = <<>>

HNext ==
    /\ Next
    /\ body' = IF ~Continuing THEN <<>>
               ELSE IF /\ Committing
                       /\ insts[1].seq > ctl.triggerSequence
                       /\ insts[1].inst.pc # ctl.triggerPC
                    THEN Append(body, insts[1].inst.pc)
                    ELSE body

HSpec == HInit /\ [][HNext]_hvars

Completing ==
    Committing /\ CommitEvent(ctl, insts[1].seq) = "Completed"

Program(rec) == [i \in DOMAIN rec.uops |-> rec.uops[i].pc]

Loop(pc, committed) == <<pc>> \o committed

\* The recorded program is the loop, or the start of it when it overflowed.
ProgramIsLoop ==
    LET program == Program(recorder)
        loop    == Loop(ctl.triggerPC, body)
    IN  IF recorder.overflowed
        THEN Len(program) < Len(loop) /\ \A i \in DOMAIN program : program[i] = loop[i]
        ELSE program = loop

\* instDone(): the program handed to the helper when a generation completes
\* is the trigger followed by exactly the instructions committed up to its
\* next instance, in commit order (a prefix of them when it overflowed),
\* although they were selected speculatively at dispatch.
CompletedProgram == [][Completing => ProgramIsLoop]_hvars

\* The instructions that leave the machine without committing.
Seqs(list) == {list[k].seq : k \in DOMAIN list}
Removed == (Seqs(insts) \ Seqs(insts')) \ (IF Committing THEN {insts[1].seq} ELSE {})

\* README_DVR_REPRO.md: "an O3 squash rolls back a Discovery trigger that has
\* not committed": no generation goes on when its trigger has left the machine
\* squashed.
SquashedTriggerIsRolledBack ==
    [][ctl.triggerSequence \in Removed => ~Continuing]_hvars
================================================================================
