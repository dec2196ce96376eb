----------------------------- MODULE MCRegistry -----------------------------
EXTENDS Registry, TLC
Alike == Permutations(Slots) \cup Permutations(Notes)
=============================================================================
