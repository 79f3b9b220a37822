--------------------------- MODULE MCKomodoProxy ---------------------------
EXTENDS KomodoProxy, TLC

CONSTANTS p1, p2, k1, k2

TwoProcs   == {p1, p2}
TwoProxies == {k1, k2}
FourInvocations == TwoProcs \cup TwoProxies
Pairs == {TwoProcs, TwoProxies} \cup {{p, k} : p \in TwoProcs, k \in TwoProxies}

TypicalRequests == {<<"create", "environment", "deploy">>,
                    <<"servers", "variables", "environment", "deploy">>}
Symmetry == Permutations(TwoProcs) \cup Permutations(TwoProxies)
=============================================================================
