----------------------------- MODULE MCOgServer -----------------------------
EXTENDS OgServer

CONSTANTS c1, c2, recipe, plain

TwoContainers == {c1, c2}
TwoPaths      == {recipe, plain}
OneRouted     == {recipe}
DatabaseMode  == {"db"}
AllModes      == {"manifest", "db", "static"}
=============================================================================
