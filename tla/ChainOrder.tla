----------------------------- MODULE ChainOrder -----------------------------
(* What a hook chain promises, with no memory words and no list in it: a      *)
(* caller that enters the site runs a sequence of links, and an edit of the   *)
(* chain changes that sequence in one step.  wupatch_chain.h:28 "Insert after *)
(* every link with priority >= the new one's" is all it says of the order.    *)
EXTENDS Integers, SequencesExt

CONSTANTS Links,  \* the chain's links (rows of the registry)
          Prio    \* Prio[l] is the priority a link declares

VARIABLE path     \* the links a caller runs, first one first

Init == path = <<>>

On(l) == \E i \in DOMAIN path : path[i] = l

\* Chain::Attach: right behind the last link whose priority is at least the new one's.
Attach(l) ==
  /\ ~On(l)
  /\ \E i \in 0..Len(path) :
       /\ \A k \in 1..i : Prio[path[k]] >= Prio[l]
       /\ \A k \in (i + 1)..Len(path) : Prio[path[k]] < Prio[l]
       /\ path' = InsertAt(path, i + 1, l)

\* Chain::Detach.
Detach(l) == \E i \in DOMAIN path : path[i] = l /\ path' = RemoveAt(path, i)

\* Chain::Clear, and the end of the process.
Clear == path' = <<>>

Next == Clear \/ \E l \in Links : Attach(l) \/ Detach(l)

Spec == Init /\ [][Next]_path
=============================================================================
