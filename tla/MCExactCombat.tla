----------------------------- MODULE MCExactCombat -----------------------------
\* A player and an enemy; the medic joins with the first exchange.
EXTENDS ExactCombat

CONSTANTS p, m, e

Ours == {p, m}
Theirs == {e}
Latecomers == {m}
Bowmen == {p, m}
ThrowersOfDarts == {e}
Timing(c, r, k, v) ==
    [start |-> c, commit |-> c, release |-> r, contact |-> k, recovery |-> v]
MeleeTimings == {Timing(1,1,2,2)}
ShotTimings == {Timing(0, 2, 3, 3)}
=============================================================================
