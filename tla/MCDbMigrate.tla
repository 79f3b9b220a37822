---------------------------- MODULE MCDbMigrate ----------------------------
EXTENDS DbMigrate, TLC

CONSTANTS p1, p2, a, b

TwoProcs    == {p1, p2}
FirstProc   == {p1}
OneContent  == {a}
TwoContents == {a, b}
AllFiles    == Files
FirstFile   == {1}
MigrateOps  == {"migrate", "rollback", "noop"}
RestoreOps  == {"migrate", "seed", "drop", "restore"}
ProgressOps == {"migrate", "rollback", "drop"}
Symmetry    == Permutations(TwoProcs) \cup Permutations(TwoContents)
============================================================================
