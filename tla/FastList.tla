------------------------------ MODULE FastList ------------------------------
(***************************************************************************)
(* The contents an IKFFastList has after each call of                      *)
(* base/kf_fast_list.cxx that its users make, as a sequence.  A node of    *)
(* the doubly linked ring is its position, and 0 stands for the null node  *)
(* that Begin, Next and a search return when there is none.                *)
(***************************************************************************)
EXTENDS Naturals, Sequences

Begin(l) == IF l = << >> THEN 0 ELSE 1

\* Prev of the null node is the last node, and the first node is its own Prev.
Prev(l, n) == IF n = 0 THEN Len(l) ELSE IF n = 1 THEN 1 ELSE n - 1

PushFront(l, x) == <<x>> \o l
PushBack(l, x)  == Append(l, x)

\* After node n, or at the back for the null node.
InsertBack(l, n, x) ==
    IF n = 0 THEN PushBack(l, x)
    ELSE SubSeq(l, 1, n) \o <<x>> \o SubSeq(l, n + 1, Len(l))

Remove(l, n) == SubSeq(l, 1, n - 1) \o SubSeq(l, n + 1, Len(l))

Clear(l) == << >>
=============================================================================
