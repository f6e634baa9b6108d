------------------------- MODULE MCPreferenceClients -------------------------
(* The settings or the notifications client and its readiness client: a    *)
(* restart with a competing client, a change or a timeout, and one start   *)
(* with failures, a competing client, and a timeout or a lost signal.      *)
EXTENDS PreferenceClients

MCListeners == {"readiness", "client"}
MCObservers == {"readiness"}

Limit(starts, failures, others, timeouts, lost, operations) ==
    [start |-> starts, failure |-> failures, other |-> others, timeout |-> timeouts,
     lost |-> lost, operation |-> operations]

MCLimits == {Limit(2, 0, 0, 0, 0, 1), Limit(1, 1, 0, 1, 0, 1), Limit(1, 0, 1, 0, 1, 1)}

\* A client that nobody uses, and one lost signal.
MCAwayLimits == {Limit(1, 0, 2, 0, 1, 0)}
=============================================================================
