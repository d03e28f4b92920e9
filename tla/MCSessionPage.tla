--------------------------- MODULE MCSessionPage ----------------------------
EXTENDS SessionPage

\* The sizes that the timeline's test loads.
TestedSizes == {2560, 1572864, 1310720}

\* And those where a label rounds or changes its unit, each with its neighbours.
MCSizes ==
    TestedSizes \cup UNION {
        {b - 1, b, b + 1}: b \in {512 * k: k \in 1..8} \cup {MiB - 512, MiB}
                                \cup {(MiB * k) \div 20: k \in 20..60}}
=============================================================================
