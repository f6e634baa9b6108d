SPECIFICATION Spec
\* The last process of a run ends; there is no next start within the bound.
CHECK_DEADLOCK FALSE
CONSTANTS
    gpu = gpu
    display = display
    cpu = cpu
    platform = platform
    Gpus <- MCGpus
    Displays <- MCDisplays
    CpuPackages <- MCCpuPackages
    Owner <- MCOwner
    Platform = platform
    MaxSequence = 30
    MaxGeneration = 6
    MaxHotplugs = 2
    MaxEnumerationFailures = 1
    MaxMonitorFailures = 2
    MaxStarts = 1
INVARIANT ReadsClosedWhileUnobserved
