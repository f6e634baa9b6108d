-------------------------- MODULE MCHardwareSession --------------------------
(* A machine with one GPU, one display on it and one CPU package.          *)
EXTENDS HardwareSession
CONSTANTS gpu, display, cpu, platform

MCGpus == {gpu}
MCDisplays == {display}
MCCpuPackages == {cpu}
MCOwner == [d \in MCDisplays |-> gpu]
=============================================================================
