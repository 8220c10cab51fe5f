------------------------------- MODULE MCChain -------------------------------
(* Instances of Chain for TLC: two links of one priority, and one above them. *)
EXTENDS Chain

CONSTANTS l1, l2, l3

MCLinks == {l1, l2, l3}
MCPrio  == [l \in Links |-> IF l = l3 THEN 2 ELSE 1]
=============================================================================
