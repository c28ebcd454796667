----------------------------- MODULE MCDefender -----------------------------
\* Instances of the defender for TLC.
EXTENDS Defender

CONSTANTS valid, invalid, a, b, c

OneScore == [e \in HostEvents |-> 1]
TwoScores == [e \in HostEvents |-> IF e = valid THEN 1 ELSE 2]
NoList == {{}}
BlocksB == {{b}, {b, c}}
SparesA == {{a}, {a, c}}

Symmetry == Permutations(IPs) \cup Permutations(Conns)
=============================================================================
