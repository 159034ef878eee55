-------------------------------- MODULE LaneWalk -------------------------------
(***************************************************************************)
(* What the replay of a program promises to a lane, whatever group it is    *)
(* issued with: it walks the program from its first uop, at a branch the    *)
(* way its own operands say, and may be given up anywhere.                  *)
(***************************************************************************)
EXTENDS Naturals, Sequences

CONSTANT Lanes          \* replay lanes

VARIABLES
    uops,               \* the program, in recorded order
    taken,              \* for every lane, the branches its operands take
    at                  \* per lane: PC, or 0 before it enters, or Ended

Ended == Len(uops) + 1
PCs == DOMAIN uops

\* Where a lane goes from a uop.
Follows(lane, pc) ==
    CASE uops[pc].kind = "branch" -> IF pc \in taken[lane] THEN uops[pc].target
                                     ELSE pc + 1
      [] uops[pc].kind = "jump"   -> uops[pc].target
      [] OTHER                    -> pc + 1

\* uops without an effect are passed over.
Passed(pc, next) == /\ next >= pc
                    /\ \A skipped \in pc .. next - 1 : uops[skipped].kind = "nop"

\* A lane enters, ends, or takes a step, and from a branch perhaps another.
Moves(lane) ==
    \/ at[lane] = 0 /\ at'[lane] = 1
    \/ at[lane] \in PCs /\ at'[lane] = Ended
    \/ /\ at[lane] \in PCs
       /\ \E pc \in PCs :
             LET next == Follows(lane, pc)
             IN  /\ Passed(at[lane], pc)
                 /\ \/ at'[lane] = pc
                    \/ at'[lane] = next /\ next \in PCs
                    \/ /\ uops[pc].kind = "branch" /\ next \in PCs
                       /\ at'[lane] = Follows(lane, next)

Init == at = [lane \in Lanes |-> 0]

Next ==
    /\ \A lane \in Lanes : at'[lane] = at[lane] \/ Moves(lane)
    /\ UNCHANGED <<uops, taken>>

Spec == Init /\ [][Next]_<<uops, taken, at>>
================================================================================
