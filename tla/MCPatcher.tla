------------------------------ MODULE MCPatcher ------------------------------
(* An instance of Patcher for TLC: one code patch, and swaps of two and of one  *)
(* word that overlap, or lie in each other's gaps.  A word of .data has the      *)
(* number of the patch's address.                                               *)
EXTENDS Patcher, TLC

CONSTANTS w1, w2, h1, d0, v1, v2, g1

MCDescs == {[addr |-> 1, expected |-> w1, shape |-> "jump", code |-> h1,
             exclusive |-> FALSE, external |-> FALSE]}
MCWords == {w1, w2, h1}
MCForms == [w \in MCWords |-> {}]
MCText  == 11 :> w1

Config(delta, found, dataFound) ==
  [delta |-> delta, text |-> found, data |-> dataFound, backend |-> "direct", allow |-> FALSE]

MCConfigs == {Config(0, FALSE, TRUE), Config(10, FALSE, FALSE), Config(10, TRUE, TRUE)}
MCDelta   == 0 :> 0 @@ 10 :> 1

Swap(start, stride, count, offset, value) ==
  [start |-> start, stride |-> stride, count |-> count, offset |-> offset, value |-> value]

\* Slots 2 and 4 of the span 1..4, and slot 2 alone.  With the delta of 1, the
\* first no longer fits what is mapped.
Pair  == Swap(1, 2, 2, 1, v1)
Inner == Swap(2, 1, 1, 0, v2)

MCSwapDescs == {Pair, Inner}
MCLoaded    == [a \in 1..4 |-> d0]
MCGameWords == {g1}
MCDataWords == {d0, v1, v2, g1}
=============================================================================
