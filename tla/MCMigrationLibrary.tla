------------------------- MODULE MCMigrationLibrary -------------------------
EXTENDS MigrationLibrary

CONSTANTS a, b, x, y

TwoClients  == {a, b}
TwoContents == {x, y}
SecondFile  == {2}
BothFiles   == {1, 2}
TwoStores   == {<<x, Absent>>, <<x, y>>}

Applied(c) == [sum |-> c, noop |-> FALSE]
Vouched(c) == [sum |-> c, noop |-> TRUE]
\* Nothing; the first file, as it is or as it was; both; the second alone.
SomeHistories == {<<NoRow, NoRow>>, <<Applied(x), NoRow>>, <<Applied(y), NoRow>>,
                  <<Vouched(x), Applied(y)>>, <<NoRow, Applied(y)>>}

\* Concurrent callers without the lock, concurrent callers with it, and one
\* caller by itself.
Callers == {
    [crew |-> {a, b}, guarded |-> FALSE, ops |-> {"migrate", "noop"}],
    [crew |-> {a, b}, guarded |-> TRUE,  ops |-> {"migrate", "noop", "rollback"}],
    [crew |-> {a},    guarded |-> FALSE, ops |-> {"migrate", "noop", "rollback", "seed"}]}
=============================================================================
