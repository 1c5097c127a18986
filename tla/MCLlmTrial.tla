----------------------------- MODULE MCLlmTrial -----------------------------
(* Requests are alike, and so are machines.                                *)
EXTENDS LlmTrial, TLC

RequestAndMachineSymmetry == Permutations(Requests) \union Permutations(Machines)
=============================================================================
