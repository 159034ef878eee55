----------------------------- MODULE MCReplayLanes -----------------------------
(***************************************************************************)
(* Programs with the shapes of control flow that matter to a group: a       *)
(* diamond, a branch around a load with the loop going on past it, branches *)
(* under branches, a loop, and a stretch without an effect.                 *)
(***************************************************************************)
EXTENDS ReplayLanes

Compute == [kind |-> "compute", target |-> 0, join |-> 0]
Nop == [kind |-> "nop", target |-> 0, join |-> 0]
Load == [kind |-> "load", target |-> 0, join |-> 0]
Jump(to) == [kind |-> "jump", target |-> to, join |-> 0]
Branch(to, join) == [kind |-> "branch", target |-> to, join |-> join]

ToFinalLoad(uops, lanes) == [uops |-> uops, past |-> FALSE, control |-> 0,
                             lanes |-> lanes]
PastFinalLoad(uops, control, lanes) == [uops |-> uops, past |-> TRUE,
                                        control |-> control, lanes |-> lanes]

Diamond == ToFinalLoad(<<Nop, Branch(4, 5), Jump(5), Compute, Load>>, 3)
Guarded == PastFinalLoad(<<Load, Branch(4, 4), Load, Branch(1, 0)>>, 4, 2)
Nested == ToFinalLoad(<<Branch(4, 4), Branch(4, 4), Compute, Load>>, 3)
Loop == ToFinalLoad(<<Compute, Branch(1, 0), Nop, Load>>, 2)
Chain == PastFinalLoad(<<Load, Compute, Load, Branch(1, 0)>>, 4, 2)

MCPrograms == {Diamond, Guarded, Nested, Loop, Chain}
================================================================================
