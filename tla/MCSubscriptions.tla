-------------------------- MODULE MCSubscriptions --------------------------
EXTENDS Subscriptions, TLC

RequestSymmetry == Permutations(Requests)
=============================================================================
