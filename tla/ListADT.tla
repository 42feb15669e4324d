------------------------------ MODULE ListADT ------------------------------
(***************************************************************************)
(* What the operations of dfk_list_t promise (list.h): a list is a         *)
(* sequence of hooks.  List shows that the pointers implement it.          *)
(***************************************************************************)
EXTENDS Naturals, Sequences, SequencesExt

CONSTANT Lists

VARIABLE seq    \* the content of every list, front to back

ADTInit == seq = [l \in Lists |-> <<>>]

PushBack(l, h) == seq' = [seq EXCEPT ![l] = Append(@, h)]

PushFront(l, h) == seq' = [seq EXCEPT ![l] = <<h>> \o @]

\* "Insert a new element before the element at the specified position".
InsertBefore(l, h, g) ==
  \E i \in DOMAIN seq[l] : seq[l][i] = g /\ seq' = [seq EXCEPT ![l] = InsertAt(@, i, h)]

\* The same against the direction of iteration.
InsertAfter(l, h, g) ==
  \E i \in DOMAIN seq[l] : seq[l][i] = g /\ seq' = [seq EXCEPT ![l] = InsertAt(@, i + 1, h)]

\* "Erase element pointed by `it' from the list".
Delete(l, h) ==
  \E i \in DOMAIN seq[l] : seq[l][i] = h /\ seq' = [seq EXCEPT ![l] = RemoveAt(@, i)]

\* "Erase all elements for the list".
Discard(l) == seq' = [seq EXCEPT ![l] = <<>>]

PopFront(l) == seq' = [seq EXCEPT ![l] = Tail(@)]

PopBack(l) == seq' = [seq EXCEPT ![l] = Front(@)]

\* "Existing content of the destination list is discarded, source list becomes
\* empty."
MoveAll(src, dst) == seq' = [seq EXCEPT ![src] = <<>>, ![dst] = seq[src]]

Exchange(lhs, rhs) == seq' = [seq EXCEPT ![lhs] = seq[rhs], ![rhs] = seq[lhs]]
=============================================================================
