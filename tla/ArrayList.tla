------------------------------ MODULE ArrayList ------------------------------
(***************************************************************************)
(* The contents an IKFArrayList has after each call of                     *)
(* base/kf_array_list.cxx, as a sequence: element `index' of the list is   *)
(* l[index + 1].  The queue of a ThreadWorker and the thread list of a     *)
(* GroupWorker are such lists.                                             *)
(***************************************************************************)
EXTENDS Naturals, Sequences

AddElement(l, x) == Append(l, x)

(***************************************************************************)
(* An index strictly inside the list puts x AFTER the element at that      *)
(* index, index 0 puts it before, and index = count appends.               *)
(***************************************************************************)
InsertElementAt(l, index, x) ==
    IF index = Len(l) THEN AddElement(l, x)
    ELSE IF index = 0 THEN <<x>> \o l
    ELSE SubSeq(l, 1, index + 1) \o <<x>> \o SubSeq(l, index + 2, Len(l))

RemoveElement(l, index) ==
    SubSeq(l, 1, index) \o SubSeq(l, index + 2, Len(l))

RemoveAllElements(l) == << >>
=============================================================================
