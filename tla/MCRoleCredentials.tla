------------------------- MODULE MCRoleCredentials -------------------------
EXTENDS RoleCredentials, TLC

CONSTANTS p1, p2, p3

TwoProcs   == {p1, p2}
ThreeProcs == {p1, p2, p3}
Symmetry   == Permutations(ThreeProcs)
PairSymmetry == Permutations(TwoProcs)
BothVersions == {"lambda", "library"}
OnlyLambda   == {"lambda"}
==============================================================================
