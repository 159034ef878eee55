------------------------------ MODULE VectorTaint ------------------------------
(***************************************************************************)
(* DVRVectorTaintTracker (VTT): the taint register, the final-load register *)
(* (FLR) and the history that undoes speculative observations.  The tracker *)
(* is a record and every method is an operator from a tracker to a tracker, *)
(* so that a handler that calls several methods is their composition.       *)
(* NoPC is the cleared FLR.                                                 *)
(***************************************************************************)
EXTENDS DVRTypes, Naturals, Sequences, FiniteSetsExt

SpeculativeState ==
    [sequence : Nat, taint : SUBSET Regs, finalLoadPC : PCs \cup {NoPC}]

VTT == [taint : SUBSET Regs, finalLoadPC : PCs \cup {NoPC},
        history : Seq(SpeculativeState)]

VTTReset == [taint |-> {}, finalLoadPC |-> NoPC, history |-> <<>>]

VTTBegin(inst) == [VTTReset EXCEPT !.taint = inst.dests]

SourceTainted(vtt, inst) == inst.srcs \cap vtt.taint # {}

DependentLoad(vtt, inst) == inst.load /\ SourceTainted(vtt, inst)

\* What one instruction makes of the taint and of the FLR.
TaintAfter(taint, inst) ==
    IF inst.srcs \cap taint # {} THEN taint \cup inst.dests
                                 ELSE taint \ inst.dests

FLRAfter(taint, flr, inst) ==
    IF inst.load /\ inst.srcs \cap taint # {} THEN inst.pc ELSE flr

VTTObserve(vtt, inst) ==
    [vtt EXCEPT !.taint = TaintAfter(vtt.taint, inst),
                !.finalLoadPC = FLRAfter(vtt.taint, vtt.finalLoadPC, inst)]

VTTObserveSpeculative(vtt, inst, seq) ==
    VTTObserve([vtt EXCEPT !.history =
                   Append(@, [sequence |-> seq, taint |-> vtt.taint,
                              finalLoadPC |-> vtt.finalLoadPC])], inst)

VTTKept_Inclusive(vtt, seq) ==
    Max({0} \cup {k \in DOMAIN vtt.history : vtt.history[k].sequence <= seq})

\* The entries the undo loop keeps: it pops from the back while the last
\* sequence number is at least the squashed one.
VTTKept(vtt, seq) ==
    Max({0} \cup {k \in DOMAIN vtt.history : vtt.history[k].sequence < seq})

VTTSquash(vtt, seq) ==
    LET kept == VTTKept(vtt, seq)
    IN  IF kept = Len(vtt.history)
        THEN vtt
        ELSE [taint |-> vtt.history[kept + 1].taint,
              finalLoadPC |-> vtt.history[kept + 1].finalLoadPC,
              history |-> SubSeq(vtt.history, 1, kept)]
================================================================================
