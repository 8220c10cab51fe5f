------------------------------- MODULE Overlap -------------------------------
(* Which declared extents clash (wupatch_overlap.cpp), and whom a clash        *)
(* refuses (the end of findCollisions in wupatch_registry.cpp).                *)
(*                                                                             *)
(* An extent is [segment, start, end, applied], end exclusive.  e is a function *)
(* from the caller's indices, in the order the caller emitted them, to extents. *)
(* The C++ sorts and sweeps; here the sweep's state at i is a set of the        *)
(* extents sorted before i.                                                     *)
EXTENDS Integers, FiniteSets

\* What overlaps, whatever the order.
Clash(a, b) == a.segment = b.segment /\ a.start < b.end /\ b.start < a.end

\* before(): the sort key.  On a tie, the applied extent counts as there first.
SortsBefore(a, b) ==
  \/ a.segment < b.segment
  \/ a.segment = b.segment /\ a.start < b.start
  \/ a.segment = b.segment /\ a.start = b.start /\ a.applied /\ ~b.applied

\* Where insertion sort puts j and i: it is stable, so equals keep their order.
Earlier(e, j, i) ==
  \/ SortsBefore(e[j], e[i])
  \/ ~SortsBefore(e[i], e[j]) /\ j < i

\* The extents of i's segment that the sweep has passed when it comes to i.
Passed(e, i) == {j \in DOMAIN e : Earlier(e, j, i) /\ e[j].segment = e[i].segment}

\* Mutant: an extent is only held against the one sorted just before it.
Nearest(e, i) == CHOOSE j \in Passed(e, i) : \A k \in Passed(e, i) \ {j} : Earlier(e, k, j)

\* The one of them that reaches furthest; the first to reach that far.
Reach(e, i) ==
  CHOOSE j \in Passed(e, i) :
    \A k \in Passed(e, i) \ {j} :
      \/ e[k].end < e[j].end
      \/ e[k].end = e[j].end /\ Earlier(e, j, k)

Collides(e, i) == Passed(e, i) # {} /\ e[i].start < e[Reach(e, i)].end

\* Find reports the first `cap' collisions in sorted order, each with its reach.
Found(e, cap) ==
  LET colliding == {i \in DOMAIN e : Collides(e, i)}
  IN  {i \in colliding : Cardinality({j \in colliding : Earlier(e, j, i)}) < cap}

\* markCollided, for both ends of every reported collision: an extent that is
\* already applied keeps its place.
Refused(e, cap) ==
  LET found == Found(e, cap)
  IN  {i \in found \cup {Reach(e, j) : j \in found} : ~e[i].applied}
=============================================================================
