-------------------------- MODULE MCSnapshotClients --------------------------
(* Each client that keeps a copy, alone on its connection: with starts, a  *)
(* failure and changes, with faults of the bus, and with a read that the   *)
(* program asks for around a restart or a timeout.                         *)
EXTENDS SnapshotClients

MCListeners == {"client"}

Limit(starts, failures, others, timeouts, lost, operations) ==
    [start |-> starts, failure |-> failures, other |-> others, timeout |-> timeouts,
     lost |-> lost, operation |-> operations]

Restarts == Limit(2, 1, 1, 0, 0, 0)
Faults == Limit(1, 0, 2, 1, 1, 0)
AskedAndRestarted == Limit(2, 0, 1, 0, 0, 1)
AskedAndLate == Limit(1, 0, 1, 1, 0, 1)

MCLimits == {Restarts, Faults, AskedAndRestarted, AskedAndLate}
MCKindsWith(limits) == {"profiles", "hardware", "display"}

MCColdLimits == {Restarts}
MCColdKindsWith(limits) == {"profiles"}
=============================================================================
