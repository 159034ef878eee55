----------------------------- MODULE MCLoopBound -----------------------------
(* Loops for the loop-bound detector: register 1 is the induction variable,  *)
(* register 2 the bound and register 3 the result of a compare.              *)
EXTENDS LoopBound

Plain(op) == [op |-> op, dst |-> 0, sources |-> <<>>, imm |-> 0, target |-> 0]
Load == Plain("load")
FLR == Plain("flr")
Add(step) == [Plain("addi") EXCEPT !.dst = 1, !.sources = <<1, 0>>, !.imm = step]
Compare(op, a, b) == [Plain(op) EXCEPT !.dst = 3, !.sources = <<a, b>>]
Branch(op, a, b, target) ==
    [Plain(op) EXCEPT !.sources = <<a, b>>, !.target = target]

Steps == {-2, -1, 1, 2}
Closing == {"bne", "blt", "bge", "bltu", "bgeu"}
Operands == {<<1, 2>>, <<2, 1>>}

\* The variable is advanced before or after the trigger.
After == {<<Load, FLR, Add(s), Branch(op, o[1], o[2], 1)>> :
              s \in Steps, op \in Closing, o \in Operands}
Before == {<<Add(s), Load, FLR, Branch(op, o[1], o[2], 1)>> :
               s \in Steps, op \in Closing, o \in Operands}

\* A backward branch after the final load that does not go back to the trigger.
Inner == {<<Load, FLR, Add(1), Branch("blt", 1, 3, 3), Branch("bne", 1, 2, 1)>>}

\* The loop is left in the next iteration, before the trigger.
Early == {<<Branch("bge", 1, 2, 6), Load, FLR, Add(s), Branch("bne", 1, 2, 1)>> :
              s \in {1, 2}}

\* A compare whose result is tested against x0.
Pairs == {<<Load, FLR, Add(s), Compare(c, 1, 2), Branch(b, 3, 0, 1)>> :
              s \in {-1, 1}, c \in Compares, b \in {"beq", "bne"}}

MCPrograms == After \cup Before \cup Inner \cup Early \cup Pairs
================================================================================
