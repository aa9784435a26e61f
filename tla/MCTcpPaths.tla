----------------------------- MODULE MCTcpPaths -----------------------------
EXTENDS TcpPathsProps
CONSTANTS k1, x1, x2

\* Both bits of the only key: a Bloom guard without a false positive.
MCSlots == [k \in {k1} |-> {1, 2}]

\* Each behaviour picks one of these: a received stream with a FIN, a sent byte, both ways,
\* a key used again with a fault anywhere, and one whose late events
\* meet windows that were closed and reclaimed.
Life(rx, tx, fin) == [rx |-> rx, tx |-> tx, fin |-> fin]
Plan(lives, polling, faultLimit, backlog, reach) ==
    [lives |-> lives, polls |-> polling, faults |-> faultLimit, backlog |-> backlog, reach |-> reach]
Download == Plan(<<Life(2, 0, TRUE)>>, 2, 1, 1, 1)
Upload == Plan(<<Life(0, 1, FALSE)>>, 2, 1, 1, 1)
Duplex == Plan(<<Life(1, 1, FALSE)>>, 2, 0, 1, 1)
Reuse == Plan(<<Life(1, 0, FALSE), Life(0, 0, FALSE)>>, 2, 1, 1, 1)
Overtake == Plan(<<Life(1, 0, FALSE), Life(1, 0, FALSE)>>, 3, 0, 1, 2)
MCPlans == {Download, Upload, Duplex, Reuse, Overtake}

\* A byte, and the key used again before the proof session has caught up.
Overlap == Plan(<<Life(0, 1, FALSE), Life(0, 0, FALSE)>>, 2, 0, 6, 1)
MCReuse == {Overlap}
MCSymmetry == Permutations({x1, x2})
=============================================================================
