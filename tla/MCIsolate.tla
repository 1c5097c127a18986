----------------------------- MODULE MCIsolate -----------------------------
EXTENDS Isolate, TLC

MCSeedRows == <<"plan", "mapping">>

Symmetry == Permutations(Requests)
=============================================================================
