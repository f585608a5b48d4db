------------------------------ MODULE MCAsyncCore ------------------------------
(* Small instances of AsyncCore for TLC. *)
EXTENDS AsyncCoreProofs, TLC

CONSTANTS l1, l2, l3, i1, i2, q1, q2, q3, q4

ThreeLockers == {l1, l2, l3}
OneLocker == {l1}
NoLocker == {}
OneInitializer == {i1}
TwoInitializers == {i1, i2}
FourQueues == {q1, q2, q3, q4}
TwoQueues == {q1, q2}
QueueSymmetry == Permutations(Queue)
=============================================================================
