----------------------------- MODULE MCGroupWorker -----------------------------
(* Small instances of GroupWorker for TLC. *)
EXTENDS GroupWorkerProofs

CONSTANTS w1, w2, w3, w4, a, b, c, d

FourWorkers == {w1, w2, w3, w4}
FourItems == {a, b, c, d}
AnyRequest == {Infinite, -2, 1}
Fifo == {"Level0"}
AnyFault == {"StartFails"}
=============================================================================
