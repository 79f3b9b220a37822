---------------------------- MODULE MCDashboards ----------------------------
EXTENDS Dashboards, TLC

CONSTANTS r1, r2, d1, d2, f1, f2, t1, t2, u1, u2, u3, v, A, B

TwoRotators == {r1, r2}
TwoDeployers == {d1, d2}
FourInvocations == TwoRotators \cup TwoDeployers
Pairs == {TwoRotators, TwoDeployers} \cup {{r, d} : r \in TwoRotators, d \in TwoDeployers}
TwoFolders  == {f1, f2}
TwoTitles   == {t1, t2}
TwoProjects == {A, B}
FourUids    == {u1, u2, u3, v}

Found(ts, f) == [tags |-> ts, folder |-> f, by |-> Earlier]

\* A's, and one that A and B have both tagged.
AtFirst == [u \in FourUids |-> CASE u = u2 -> {Found({A}, f1)}
                                 [] u = u3 -> {Found({A, B}, f1)}
                                 [] OTHER  -> {}]

Request(p, f, t, w, ts, pr) ==
    [project |-> p, folder |-> f, title |-> t, wanted |-> w, tags |-> [u \in FourUids |-> ts],
     invalid |-> FALSE, prune |-> pr]

\* A in its folder, with one dashboard, pruning the others; A with two, in
\* another folder; B in A's folder; and B in its way: with A's tag, with a
\* dashboard of A's, and with another title; and one that does not validate.
TypicalRequests ==
    {Request(A, f1, t1, {u1}, {}, TRUE), Request(A, f2, t1, {u1, u2}, {}, FALSE),
     Request(B, f1, t1, {v}, {}, TRUE), Request(B, f1, t1, {v}, {A}, FALSE),
     Request(B, f1, t1, {u2}, {}, FALSE), Request(B, f2, t2, {v}, {}, FALSE),
     [Request(A, f1, t1, {u1, u2}, {}, TRUE) EXCEPT !.invalid = TRUE]}

Symmetry == Permutations(TwoRotators) \cup Permutations(TwoDeployers)
=============================================================================
