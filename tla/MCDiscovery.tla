------------------------------ MODULE MCDiscovery ------------------------------
(***************************************************************************)
(* A loop of three instructions: a load A that may stride, a load B fed by  *)
(* it that may stride too, and an instruction C that overwrites the         *)
(* register between them.                                                   *)
(***************************************************************************)
EXTENDS DiscoveryHistory

CONSTANTS A, B, C, r1

MCInsts == {[pc |-> A, load |-> TRUE, srcs |-> {}, dests |-> {r1}],
            [pc |-> B, load |-> TRUE, srcs |-> {r1}, dests |-> {}],
            [pc |-> C, load |-> FALSE, srcs |-> {}, dests |-> {r1}]}

MCPCs == {A, B, C}

MCAllowed == {A, B}

MCRegs == {r1}
================================================================================
