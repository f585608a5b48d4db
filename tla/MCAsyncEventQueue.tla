--------------------------- MODULE MCAsyncEventQueue ---------------------------
EXTENDS AsyncEventQueueProofs

CONSTANTS c1, c2, a, b, c

OneConsumer == {c1}
TwoConsumers == {c1, c2}
OneEvent == {a}
ThreeEvents == {a, b, c}
=============================================================================
