--------------------------- MODULE MCKnowledgeSync ---------------------------
EXTENDS KnowledgeSync, TLC

CONSTANTS a, b, i1, i2, i3

MCContents == {{}, {a}, {b}}
MCContents2 == {{}, {a}}
NoSeeds == {<<>>}
MCSeeds == NoSeeds \union {<<[id |-> i, text |-> {a}]>> : i \in Items}
Symmetry == Permutations(Items)
=============================================================================
