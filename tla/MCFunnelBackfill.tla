-------------------------- MODULE MCFunnelBackfill --------------------------
(* One install on day 1, used again two days later.                        *)
EXTENDS FunnelBackfill

At(day, second) == day * 86400 + second
Event(kind, sent, recv) == [inst |-> "i1", kind |-> kind, sent |-> sent, recv |-> recv]

MCEvents ==
    { Event("install_seen", At(1, 100), At(1, 100)),
      Event("onboarding", At(1, 200), At(1, 210)),
      Event("import_ok", At(1, 900), At(1, 905)),
      Event("dance", At(3, 500), At(3, 500)) }
=============================================================================
