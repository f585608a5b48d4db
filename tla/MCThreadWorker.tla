---------------------------- MODULE MCThreadWorker ----------------------------
(* Small instances of ThreadWorker for TLC. *)
EXTENDS ThreadWorkerProofs

CONSTANTS t1, t2, t3, a, b, c, d

TwoThreads == {t1, t2}
ThreeThreads == {t1, t2, t3}
TwoItems == {a, b}
ThreeItems == {a, b, c}
FourItems == {a, b, c, d}
AllLevels == {"Level0", "Level1", "Level2"}
UsedLevels == {"Level0", "Level2"}
Fifo == {"Level0"}
AllFaults == FaultKinds
NoFaults == {}
StartFailsOnly == {"StartFails"}
=============================================================================
