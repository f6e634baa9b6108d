----------------------------- MODULE MCToastClient -----------------------------
(* The toast client and its readiness client on one connection: a restart *)
(* with a timeout or a change, two changes with a timeout and a failing    *)
(* transaction or a competing client, and one with a lost signal.          *)
EXTENDS ToastNotificationsClient

MCListeners == {"readiness", "client"}

Limit(starts, failures, others, timeouts, lost, operations) ==
    [start |-> starts, failure |-> failures, other |-> others, timeout |-> timeouts,
     lost |-> lost, operation |-> operations]

MCLimits == {Limit(2, 0, 0, 1, 0, 0), Limit(2, 0, 0, 0, 0, 1),
             Limit(1, 1, 0, 1, 0, 2), Limit(1, 0, 1, 1, 0, 2), Limit(1, 1, 1, 0, 1, 1)}
=============================================================================
