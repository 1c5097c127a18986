------------------------- MODULE MCTelemetrySession -------------------------
(* One session: its installation, its start and three reports of its       *)
(* durations, the second of which finds the companion hidden.              *)
EXTENDS TelemetrySession, TLC

CONSTANTS seen, start, first, second, third

EventTypes ==
    (seen :> "install") @@ (start :> "start") @@ [e \in {first, second, third} |-> "duration"]

EventDurations ==
    (first :> [process |-> 1, visible |-> 1]) @@ (second :> [process |-> 2, visible |-> 1])
    @@ (third :> [process |-> 3, visible |-> 2]) @@ [e \in {seen, start} |-> Zero]

RequestSymmetry == Permutations(Requests)
=============================================================================
