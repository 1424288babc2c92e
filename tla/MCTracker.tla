------------------------------ MODULE MCTracker ------------------------------
EXTENDS Tracker

CONSTANTS a, b, d, k1

\* Three devices under one key, each with one connection more than there can
\* be faults, so that no registration loop stops for want of connections.
KeyOfAll == [s \in Servers |-> k1]
NineConns == 1..9
ThreeEach == [c \in 1..9 |-> IF c <= 3 THEN a ELSE IF c <= 6 THEN b ELSE d]
TwoConns == 1..2
BothOfOne == [c \in 1..2 |-> a]
=============================================================================
