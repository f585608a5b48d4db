----------------------------- MODULE MemoryBuffer -----------------------------
(***************************************************************************)
(* The memory buffers of base/kf_buffer.cxx: `max' bytes of room, of which *)
(* the current length, Len(data), are in use.  A creation that fails for   *)
(* its arguments gives NoBuffer; running out of memory is not modelled.    *)
(***************************************************************************)
EXTENDS Naturals, SequencesExt

CONSTANT NoBuffer   \* the null pointer

\* KFCreateMemoryBuffer and KFCreateMemoryBufferFast, with the bytes that the caller
\* then copies into the buffer and the length it sets.
KFCreateMemoryBuffer(max, data) ==
    IF max = 0 THEN NoBuffer ELSE [max |-> max, data |-> data]

Buffer == [max : Nat, data : Seq(Nat)]

\* The contents of a list of buffers, one after the other: bytes[n] are those of the
\* first n.
Contents(list) ==
    LET bytes[n \in 0..Len(list)] ==
            IF n = 0 THEN << >> ELSE bytes[n-1] \o list[n].data
    IN bytes[Len(list)]

\* KFMergeMemoryBufferUseListObject: a single buffer is not copied; no bytes, no buffer.
KFMergeMemoryBufferUseListObject(list) ==
    IF Len(list) = 1 THEN list[1]
    ELSE IF Contents(list) = << >> THEN NoBuffer
    ELSE KFCreateMemoryBuffer(Len(Contents(list)) + 16, Contents(list))
===============================================================================
