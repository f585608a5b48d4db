------------------------------ MODULE MCAttributes ------------------------------
EXTENDS AttributesProofs

CONSTANTS t1, t2, s1, s2

Selves == [s \in {s1, s2} |-> IF s = s1 THEN "s1" ELSE "s2"]
ItemOf(name, type, data) == [name |-> name, value |-> [type |-> type, data |-> data]]
SixItems == {ItemOf("k", "UINT32", "x"), ItemOf("k", "STRING", ""),
             ItemOf("k", "OBJECT", "s1"), ItemOf("k", "OBJECT", "s2"),
             ItemOf("m", "UINT32", "x"), ItemOf("", "UINT32", "x")}
OneBuffer == {<<ItemOf("k", "STRING", ""), ItemOf("m", "UINT32", "x"), ItemOf("k", "OBJECT", "s1")>>}
=============================================================================
