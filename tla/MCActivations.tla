--------------------------- MODULE MCActivations ---------------------------
(* a1 and a2 are two blobs of one machine, b is another machine's, legacy  *)
(* is an opaque blob without an identity.                                  *)
EXTENDS Activations, TLC

CONSTANTS a1, a2, b, legacy

MCMachineOf ==
    [f \in {a1, a2, b, legacy} |->
        CASE f \in {a1, a2} -> "A" [] f = b -> "B" [] OTHER -> None]

RequestSymmetry == Permutations(Requests)
=============================================================================
