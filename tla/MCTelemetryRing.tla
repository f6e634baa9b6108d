--------------------------- MODULE MCTelemetryRing ---------------------------
(* Calls that differ from one sample to the next in every field.           *)
EXTENDS TelemetryRing
CONSTANTS r1

MCReaders == {r1}
MCCalls == [s \in Sequences |-> [state |-> 1 + ((s - 1) % 3), time |-> s, value |-> MaxWord - s]]
=============================================================================
