---------------------------- MODULE MCXdnaCache ----------------------------
EXTENDS XdnaCache, TLC

CONSTANTS w1, w2, p1, p2, k1, k2

OneProcessEach == [w \in {w1, w2} |-> IF w = w1 THEN p1 ELSE p2]
=============================================================================
