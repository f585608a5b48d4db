--------------------------- MODULE MCTimedEventQueue ---------------------------
EXTENDS TimedEventQueueProofs

CONSTANTS a, b

TwoEvents == {a, b}
Delays == {1, 2}
=============================================================================
