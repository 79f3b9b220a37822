-------------------------- MODULE MCPipelineStatus --------------------------
EXTENDS ObservedStatus, TLC

CONSTANTS w1, w2, atlas

TwoWorkers == {w1, w2}
OneOwner   == {atlas}
Symmetry   == Permutations(TwoWorkers)

\* Two containers and a redrive, without telemetry, which keeps containers
\* apart; one container and all of its telemetry.
Deployments ==
    {[crew |-> TwoWorkers, redrives |-> 1, signals |-> {}]}
    \cup {[crew |-> {w}, redrives |-> 0, signals |-> s] :
             w \in TwoWorkers, s \in {{"metrics"}, {"traces", "metrics", "logs"}}}
=============================================================================
