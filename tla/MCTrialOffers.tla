--------------------------- MODULE MCTrialOffers ---------------------------
(* a is the blob of a new machine, b that of one that had a trial with an  *)
(* earlier version.                                                        *)
EXTENDS TrialOffers, TLC

CONSTANTS a, b

MCMachineOf == [blob \in Blobs |-> IF blob = a THEN "A" ELSE "B"]

MCOldGrants == {legacy(b)}
=============================================================================
