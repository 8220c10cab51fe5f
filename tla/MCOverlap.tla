------------------------------ MODULE MCOverlap ------------------------------
(* Overlap over every sequence of up to MaxExtents extents of a small space:  *)
(* two segments, Places words each, one or two words long.                    *)
EXTENDS Overlap, Sequences

CONSTANTS Places, MaxExtents, Cap

\* The table of collisions has a row for each extent there may be.
ASSUME BoundsAssumption ==
  Places \in Nat /\ MaxExtents \in Nat /\ Cap \in Nat /\ MaxExtents <= Cap

VARIABLE extents   \* what a caller hands to Find, in its order

Extents ==
  {[segment |-> g, start |-> s, end |-> s + n, applied |-> a] :
     g \in 0..1, s \in 1..Places, n \in 1..2, a \in BOOLEAN}

Init == extents = <<>>

\* What is applied never clashes: a clash is refused before it is applied.
Emit(x) ==
  /\ Len(extents) < MaxExtents
  /\ \A i \in DOMAIN extents : ~(x.applied /\ extents[i].applied /\ Clash(x, extents[i]))
  /\ extents' = Append(extents, x)

Next == \E x \in Extents : Emit(x)

Spec == Init /\ [][Next]_extents

\* Of any two extents that overlap, each one that is not applied is refused --
\* adjacent in the sorted order or not (wupatch_overlap.h:25) -- and nobody is
\* refused without overlapping somebody.
RefusesExactlyTheClashing ==
  Refused(extents, Cap) =
    {i \in DOMAIN extents :
       ~extents[i].applied /\ \E j \in DOMAIN extents \ {i} : Clash(extents[i], extents[j])}
=============================================================================
