------------------------------- MODULE AttrStore -------------------------------
(***************************************************************************)
(* The list of one Attributes object of base/kf_attr.cxx, and what each    *)
(* call does to it.  An item has a name and a value; a value has its       *)
(* KF_ATTRIBUTE_TYPE and its contents, of which "" is the empty string.    *)
(* The list is read and written under the lock of the object,              *)
(* which module Attributes models.                                         *)
(***************************************************************************)
EXTENDS Naturals, SequencesExt

EmptyString == ""
Invalid == [type |-> "INVALID", data |-> EmptyString]
IsEmptyString(v) == v.type = "STRING" /\ v.data = EmptyString

\* The position of the item of that name (there is one at most: NamesUnique), or 0;
\* the empty name is never found.
SearchStore(l, name) ==
    IF name # EmptyString /\ \E n \in DOMAIN l : l[n].name = name
    THEN CHOOSE n \in DOMAIN l : l[n].name = name
    ELSE 0

\* What setting a value leaves in the item: the old value is cleared first, and the
\* empty string is not stored.
Stored(item) == IF IsEmptyString(item.value) THEN [item EXCEPT !.value = Invalid] ELSE item

\* Mutant of SetItem: the item is created without looking for it.
SetItemAlwaysNew(l, item) ==
    Append(l, Stored(item))

\* SetUINT32 and the other setters, SetObject included, once they have the lock.  An
\* item is created or found before its value is set; setting the empty string fails,
\* and the item is left without a value.  (No blob is empty: SetBlob refuses it at once.)
SetItem(l, item) ==
    LET n == SearchStore(l, item.name)
    IN IF n = 0 THEN Append(l, Stored(item)) ELSE ReplaceAt(l, n, Stored(item))

DeleteItem(l, name) ==
    LET n == SearchStore(l, name) IN IF n = 0 THEN l ELSE RemoveAt(l, n)

DeleteAllItems(l) == << >>

\* GetUINT32 and the other getters, for a caller who asks for a type.  GetObject, which
\* nothing in the class calls, looks an item up the same way.
GetItem(l, name, type) ==
    LET n == SearchStore(l, name) IN
    IF n # 0 /\ l[n].value.type = type THEN l[n].value ELSE Invalid

GetItemType(l, name) ==
    LET n == SearchStore(l, name) IN IF n = 0 THEN "INVALID" ELSE l[n].value.type

\* Mutant of SaveToBuffer: object items are written like the others.
SaveToBufferAll(l) == l

\* Items that hold an object are skipped (written[n] is what the first n items leave in
\* the buffer); an item without a value makes the whole call fail (Saveable).
SaveToBuffer(l) ==
    LET written[n \in 0..Len(l)] ==
            IF n = 0 THEN << >>
            ELSE IF l[n].value.type = "OBJECT" THEN written[n-1]
            ELSE Append(written[n-1], l[n])
    IN written[Len(l)]

Saveable(l) == \A n \in DOMAIN l : l[n].value.type # "INVALID"

\* A type LoadFromBuffer does not know: it ends at such an item with an error.
UnknownType(value) == value.type \in {"OBJECT", "INVALID"}

\* What LoadFromBuffer makes of the list l, if nobody else changes the list meanwhile: the
\* items are set one after the other, up to one of unknown type; it goes on after a
\* setter that fails.
LoadFromBuffer(l, buffer) ==
    LET loaded[n \in 0..Len(buffer)] ==
            IF n = 0 THEN l
            ELSE IF \E m \in 1..n : UnknownType(buffer[m].value) THEN loaded[n-1]
            ELSE SetItem(loaded[n-1], buffer[n])
    IN loaded[Len(buffer)]
=============================================================================
