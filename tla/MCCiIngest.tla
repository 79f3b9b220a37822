---------------------------- MODULE MCCiIngest -----------------------------
EXTENDS CiIngest, TLC

CONSTANTS c1, c2, c3, r1, s1, m1, m2, x

TwoContainers   == {c1, c2}
ThreeContainers == {c1, c2, c3}
OneRun   == {r1}
OneScan  == {s1}
TwoCommits == {m1, m2}
OnePath  == {x}
\* Three cold starts at once; then two warm containers, whose requests are
\* split so that each graph stays small and every kind meets the start.
Crews == {
    [crew |-> ThreeContainers, warm |-> FALSE, kinds |-> {"health"}],
    [crew |-> TwoContainers,   warm |-> TRUE,  kinds |-> {"report", "start", "sources"}],
    [crew |-> TwoContainers,   warm |-> TRUE,  kinds |-> {"report", "checks", "start", "complete"}],
    [crew |-> TwoContainers,   warm |-> TRUE,  kinds |-> {"report", "start", "findings"}]}
============================================================================
