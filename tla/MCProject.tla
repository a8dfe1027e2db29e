------------------------------ MODULE MCProject -----------------------------
(***************************************************************************)
(* Project with two timestamps and few commands: a recording, two          *)
(* trainings and a performance.                                            *)
(***************************************************************************)
EXTENDS Project, TLC

CONSTANTS r1, t1, t2, p1, s1, s2

MCParts == [w \in Writers |-> IF w = t1 THEN 2 ELSE 1]
MCSymmetry == Permutations(Stamps)
=============================================================================
