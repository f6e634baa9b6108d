--------------------------- MODULE HardwareSession ---------------------------
(***************************************************************************)
(* How the session service comes to serve the machine's hardware: the      *)
(* startup sequence of SessionService, the worker thread that enumerates   *)
(* devices, the inventory provider and its generations, the DRM udev       *)
(* monitor with its debounce and retry timers, and the reads of Hardware1  *)
(* and Display1.  Everything runs on the event loop except the worker,     *)
(* whose result comes back as a queued call.                               *)
(***************************************************************************)
EXTENDS SessionEvents, FiniteSets

CONSTANTS
    Gpus, Displays, CpuPackages,  \* subject identities the enumerations can yield
    Owner,                        \* the GPU a display hangs on
    Platform,                     \* the reserved subject PLATFORM/platform
    MaxGeneration,                \* stands for the largest std::uint64_t
    MaxHotplugs, MaxEnumerationFailures, MaxMonitorFailures, MaxStarts  \* bounds of a run

Subjects == Gpus \cup Displays \cup CpuPackages

ASSUME SubjectsAssumption ==
    /\ Owner \in [Displays -> Gpus]
    /\ CpuPackages # {}
    /\ Platform \notin Subjects
    /\ Gpus \cap Displays = {} /\ CpuPackages \cap (Gpus \cup Displays) = {}
    /\ IsFiniteSet(Subjects)
ASSUME GenerationAssumption == MaxGeneration \in Nat \ {0}
ASSUME BoundsAssumption ==
    {MaxHotplugs, MaxEnumerationFailures, MaxMonitorFailures, MaxStarts} \subseteq Nat

VARIABLES
    persistedGeneration,  \* service_metadata.service_generation, on disk
    generation,           \* SessionDatabase::generation_
    snapshot,             \* hardware1Snapshot_
    initComplete,         \* hardwareInitializationComplete_
    refreshPending,       \* hardwareRefreshPending_
    refreshAvailable,     \* hardwareRefreshAvailable_
    observerAvailable,    \* hardwareObserverAvailable_
    recoveryPending,      \* hardwareObserverRecoveryPending_
    disconnected,         \* disconnectedHardwareSubjects_
    worker,               \* hardwareInventoryThread_ and how far it has come
    provider,             \* LinuxHardware1InventoryProvider: current_ and counters
    monitor,              \* DrmUdevMonitor: socket, queued hint, timers
    hardware,             \* the devices that are really there
    budget,               \* what a bounded run still lets the environment do
    named,                \* subjects the events of the last step named (history)
    everServed            \* subjects this incarnation ever published (history)

storeVars == <<persistedGeneration, generation>>
readinessVars == <<initComplete, refreshPending, refreshAvailable,
                   observerAvailable, recoveryPending>>
historyVars == <<named, everServed>>
vars == <<serviceVars, storeVars, snapshot, readinessVars, disconnected, worker,
          provider, monitor, hardware, budget, historyVars>>

NoSnapshot == [success |-> FALSE, devices |-> {}, inventory |-> 0, capability |-> 0]
Snapshot == [success : BOOLEAN, devices : SUBSET Subjects,
             inventory : 0..MaxGeneration, capability : 0..MaxGeneration]

IdleWorker == [phase |-> "idle", gpus |-> {}, result |-> NoSnapshot]
NewProvider == [current |-> NoSnapshot, inventory |-> 0, capability |-> 0]
DownMonitor == [up |-> FALSE, hint |-> FALSE, debounce |-> FALSE, retry |-> FALSE]

TypeOK ==
    /\ ServiceTypeOK
    /\ persistedGeneration \in 0..MaxStarts
    /\ generation \in 0..MaxStarts
    /\ snapshot \in Snapshot
    /\ initComplete \in BOOLEAN
    /\ refreshPending \in BOOLEAN
    /\ refreshAvailable \in BOOLEAN
    /\ observerAvailable \in BOOLEAN
    /\ recoveryPending \in BOOLEAN
    /\ disconnected \subseteq Subjects
    /\ worker \in [phase : {"idle", "gpus", "displays", "posted"},
                   gpus : SUBSET Gpus, result : Snapshot]
    /\ provider \in [current : Snapshot, inventory : 0..MaxGeneration,
                     capability : 0..MaxGeneration]
    /\ monitor \in [up : BOOLEAN, hint : BOOLEAN, debounce : BOOLEAN, retry : BOOLEAN]
    /\ hardware \subseteq Gpus \cup Displays
    /\ named \subseteq Subjects \cup {Platform}
    /\ everServed \subseteq Subjects

\* The environment spends what the bounds of the run allow.
Spend(kind) == budget[kind] > 0 /\ budget' = [budget EXCEPT ![kind] = @ - 1]

Init ==
    /\ state = "STOPPED" /\ eventSequence = 0 /\ quitting = FALSE
    /\ persistedGeneration = 0
    /\ generation = 0
    /\ snapshot = NoSnapshot
    /\ initComplete = FALSE /\ refreshPending = FALSE /\ refreshAvailable = TRUE
    /\ observerAvailable = TRUE /\ recoveryPending = FALSE
    /\ disconnected = {}
    /\ worker = IdleWorker
    /\ provider = NewProvider
    /\ monitor = DownMonitor
    /\ named = {} /\ everServed = {}
    /\ hardware \in {{}, Gpus \cup Displays}
    /\ budget = [hotplug |-> MaxHotplugs, enumeration |-> MaxEnumerationFailures,
                 monitor |-> MaxMonitorFailures, start |-> MaxStarts]
-----------------------------------------------------------------------------
(* Reads.                                                                  *)

\* hardwareReply answers OK.
ReadsOk ==
    /\ state \notin {"STOPPED", "STARTING", "RECOVERING", "FAILED"}
    /\ snapshot.success /\ refreshAvailable /\ observerAvailable

\* getHardwareDeviceInfo (and, for a display, getDisplayState): the answer
\* about one subject.
AnswerFor(s) ==
    CASE ~ReadsOk -> "UNAVAILABLE"
      [] s \in snapshot.devices -> "OK"
      [] s \in disconnected -> "DEVICE_DISCONNECTED"
      [] OTHER -> "NOT_FOUND"

\* Everything the reads hand out besides the service identity and the cursor.
Served ==
    IF ReadsOk THEN [devices |-> snapshot.devices, inventory |-> snapshot.inventory,
                     capability |-> snapshot.capability, gone |-> disconnected]
               ELSE NoSnapshot
-----------------------------------------------------------------------------
(* Parts of handlers.                                                      *)

StartRefresh == worker' = [IdleWorker EXCEPT !.phase = "gpus"]

\* Mutant: a request that finds the worker busy is dropped.
RequestRefreshUnlessBusy ==
    IF state \in {"STARTING", "RECOVERING"} \/ worker.phase # "idle"
    THEN UNCHANGED <<refreshPending, worker>>
    ELSE StartRefresh /\ UNCHANGED refreshPending

\* requestHardwareInventoryRefresh.  A service that FAILED refreshes too.
RequestRefresh ==
    IF state \in {"STARTING", "RECOVERING"} \/ worker.phase # "idle"
    THEN refreshPending' = TRUE /\ UNCHANGED worker
    ELSE StartRefresh /\ UNCHANGED refreshPending

NoEvent == UNCHANGED serviceVars /\ named' = {}

\* Mutant: clients are not told that the reads closed.
PlatformEventForgotten == NoEvent

PlatformEvent ==
    /\ eventSequence' = NextSequence(1)
    /\ named' = {Platform}
    /\ UNCHANGED <<state, quitting>>

Exhausted == FailEventSequenceExhausted /\ named' = {}

\* setHardwareObserverUnavailable.
SetObserverUnavailable ==
    LET announces == state = "READY" /\ snapshot.success
    IN  IF ~observerAvailable
        THEN NoEvent /\ UNCHANGED <<observerAvailable, recoveryPending>>
        ELSE IF announces /\ ~HasRoomFor(1)
        THEN Exhausted /\ UNCHANGED <<observerAvailable, recoveryPending>>
        ELSE /\ observerAvailable' = FALSE
             /\ recoveryPending' = FALSE
             /\ IF announces THEN PlatformEvent ELSE NoEvent
-----------------------------------------------------------------------------
(* Process lifecycle (main.cpp, prepareDatabaseRecovery, initializeAsync). *)

\* The bus name is taken and the monitor started before the event loop runs.
Start ==
    /\ StartProcess
    /\ \/ /\ Spend("start")
          /\ monitor' = [DownMonitor EXCEPT !.up = TRUE]
          /\ observerAvailable' = TRUE
       \/ /\ budget["start"] > 0 /\ budget["monitor"] > 0
          /\ budget' = [budget EXCEPT !["start"] = @ - 1, !["monitor"] = @ - 1]
          /\ monitor' = [DownMonitor EXCEPT !.retry = TRUE]
          /\ observerAvailable' = FALSE
    /\ UNCHANGED <<storeVars, snapshot, initComplete, refreshPending, refreshAvailable,
                   recoveryPending, disconnected, worker, provider, hardware, historyVars>>

\* A failed recovery has either not reached the generation or failed to
\* commit it: then generation_ holds a number the file does not.
InitializeAsync ==
    /\ state = "STARTING"
    /\ \/ /\ state' = "RECOVERING"
          /\ eventSequence' = NextSequence(1)
          /\ persistedGeneration' = persistedGeneration + 1
          /\ generation' = persistedGeneration + 1
          /\ StartRefresh
       \/ /\ state' = "FAILED"
          /\ eventSequence' = NextSequence(2)
          /\ generation' \in {0, persistedGeneration + 1}
          /\ UNCHANGED <<persistedGeneration, worker>>
    /\ named' = {}
    /\ UNCHANGED <<quitting, snapshot, readinessVars, disconnected, provider, monitor,
                   hardware, budget, everServed>>

\* The process is killed, or leaves the event loop after quit.
Crash ==
    /\ Running
    /\ StopProcess
    /\ generation' = 0
    /\ snapshot' = NoSnapshot
    /\ initComplete' = FALSE /\ refreshPending' = FALSE /\ refreshAvailable' = TRUE
    /\ observerAvailable' = TRUE /\ recoveryPending' = FALSE
    /\ disconnected' = {}
    /\ worker' = IdleWorker
    /\ provider' = NewProvider
    /\ monitor' = DownMonitor
    /\ named' = {} /\ everServed' = {}
    /\ UNCHANGED <<persistedGeneration, hardware, budget>>

Exit == quitting /\ Crash
-----------------------------------------------------------------------------
(* The worker thread (LinuxHardware1InventoryProvider).                    *)

WorkerReadsGpus ==
    /\ worker.phase = "gpus"
    /\ worker' = [worker EXCEPT !.phase = "displays", !.gpus = hardware \cap Gpus]
    /\ named' = {}
    /\ UNCHANGED <<serviceVars, storeVars, snapshot, readinessVars, disconnected,
                   provider, monitor, hardware, budget, everServed>>

\* LinuxHardware1InventoryProvider::publish: what it returns and keeps when
\* the enumerations yielded `devices` (success) or failed.
\* Mutant: displays are not compared.
SameGpus(left, right) == left.devices \cap Gpus = right.devices \cap Gpus

GenerationExhausted(counter) == counter = MaxGeneration
SameInventory(left, right) == left.devices = right.devices
SameGraph(left, right) == left.success = right.success /\ left.devices = right.devices

ProviderPublishes(success, devices) ==
    LET next == IF success THEN [NoSnapshot EXCEPT !.success = TRUE, !.devices = devices]
                           ELSE NoSnapshot
        first == success /\ ~provider.current.success
        inventoryMoves == first \/ ~SameInventory(provider.current, next)
        graphMoves == first \/ ~SameGraph(provider.current, next)
        exhausted == \/ inventoryMoves /\ GenerationExhausted(provider.inventory)
                     \/ graphMoves /\ GenerationExhausted(provider.capability)
        inventory == IF inventoryMoves THEN provider.inventory + 1 ELSE provider.inventory
        capability == IF graphMoves THEN provider.capability + 1 ELSE provider.capability
        kept == [next EXCEPT !.inventory = inventory, !.capability = capability]
    IN  IF exhausted
        THEN [result |-> NoSnapshot, provider |-> [provider EXCEPT !.current = NoSnapshot]]
        ELSE [result |-> IF success THEN kept ELSE NoSnapshot,
              provider |-> [current |-> IF success THEN kept ELSE NoSnapshot,
                            inventory |-> inventory, capability |-> capability]]

\* composeEvidence rejects a display whose GPU the earlier read did not see.
\* Mutant: it does not.
AnyDisplays(displays) == TRUE

Coherent(displays) == \A d \in displays : Owner[d] \in worker.gpus

WorkerPosts ==
    /\ worker.phase = "displays"
    /\ LET displays == hardware \cap Displays
           devices == worker.gpus \cup displays \cup CpuPackages
       IN \E failed \in BOOLEAN :
            /\ IF failed THEN Spend("enumeration") ELSE UNCHANGED budget
            /\ LET outcome == ProviderPublishes(~failed /\ Coherent(displays), devices)
               IN  /\ worker' = [worker EXCEPT !.phase = "posted", !.result = outcome.result]
                   /\ provider' = outcome.provider
    /\ named' = {}
    /\ UNCHANGED <<serviceVars, storeVars, snapshot, readinessVars, disconnected,
                   monitor, hardware, everServed>>
-----------------------------------------------------------------------------
(* publishHardwareInitialization: the worker is joined and its result      *)
(* taken; a request that came meanwhile starts the next refresh at the end.*)

\* Mutant: the request stays, and nothing starts it.
JoinWorkerOnly == worker' = IdleWorker /\ UNCHANGED refreshPending

JoinWorker ==
    IF refreshPending THEN StartRefresh /\ refreshPending' = FALSE
                      ELSE worker' = IdleWorker /\ UNCHANGED refreshPending

\* An early return after exhaustion leaves a request where it is.
AbandonRefresh == worker' = IdleWorker /\ UNCHANGED refreshPending

\* Mutant: only a successful worker reports back.
DeliversInventories(success) == worker.phase = "posted" /\ worker.result.success /\ success

Delivers(success) == worker.phase = "posted" /\ worker.result.success = success

\* No inventory has been published yet: the service cannot become READY.
InitialInventoryFails ==
    /\ Delivers(FALSE)
    /\ ~initComplete
    /\ snapshot' = worker.result
    /\ refreshAvailable' = FALSE
    /\ SetState("FAILED")
    /\ named' = {}
    /\ JoinWorker
    /\ UNCHANGED <<storeVars, initComplete, observerAvailable, recoveryPending, disconnected,
                   provider, monitor, hardware, budget, everServed>>

\* The last good inventory is kept, but no longer served.
RefreshFails ==
    /\ Delivers(FALSE)
    /\ initComplete
    /\ IF refreshAvailable /\ ~HasRoomFor(1)
       THEN Exhausted /\ AbandonRefresh /\ UNCHANGED refreshAvailable
       ELSE /\ refreshAvailable' = FALSE
            /\ IF refreshAvailable THEN PlatformEvent ELSE NoEvent
            /\ JoinWorker
    /\ UNCHANGED <<storeVars, snapshot, initComplete, observerAvailable, recoveryPending,
                   disconnected, provider, monitor, hardware, budget, everServed>>

\* Readers lost sight of everything, or compare generations.
\* Mutant: reads closed for lack of observation are reopened without a word.
ChangedIgnoringObserver(before, after) ==
    ~snapshot.success \/ ~refreshAvailable \/ before # after

Changed(before, after) ==
    ~snapshot.success \/ ~refreshAvailable \/ recoveryPending \/ before # after

InventorySubjects(next) ==
    IF Changed(snapshot.inventory, next.inventory)
    THEN LET devices == snapshot.devices \cup next.devices
         IN  IF devices = {} THEN {Platform} ELSE devices
    ELSE {}

\* Every graph has capabilities of the platform.
CapabilitySubjects(next) ==
    IF Changed(snapshot.capability, next.capability)
    THEN snapshot.devices \cup next.devices \cup {Platform}
    ELSE {}

\* Events a publication emits: one per subject and family, and readiness.
EventsOf(next) ==
    Cardinality(InventorySubjects(next)) + Cardinality(CapabilitySubjects(next))
        + IF state = "READY" THEN 0 ELSE 1

\* Mutant: a device that comes back stays among the disconnected ones.
TombstonesAfterReturn(next) == disconnected \cup (snapshot.devices \ next.devices)

TombstonesAfter(next) == (disconnected \cup snapshot.devices) \ next.devices

InventoryUnannounceable ==
    /\ Delivers(TRUE)
    /\ ~HasRoomFor(EventsOf(worker.result))
    /\ Exhausted
    /\ AbandonRefresh
    /\ UNCHANGED <<storeVars, snapshot, initComplete, refreshAvailable, observerAvailable,
                   recoveryPending, disconnected, provider, monitor, hardware, budget, everServed>>

InventoryPublished ==
    LET next == worker.result
        reopens == recoveryPending /\ ~refreshPending
    IN
    /\ Delivers(TRUE)
    /\ HasRoomFor(EventsOf(next))
    /\ disconnected' = TombstonesAfter(next)
    /\ snapshot' = next
    /\ refreshAvailable' = TRUE
    /\ observerAvailable' = (observerAvailable \/ reopens)
    /\ recoveryPending' = (recoveryPending /\ ~reopens)
    /\ state' = "READY"
    /\ initComplete' = TRUE
    /\ eventSequence' = NextSequence(EventsOf(next))
    /\ named' = InventorySubjects(next) \cup CapabilitySubjects(next)
    /\ everServed' = everServed \cup next.devices
    /\ JoinWorker
    /\ UNCHANGED <<quitting, storeVars, provider, monitor, hardware, budget>>
-----------------------------------------------------------------------------
(* The machine and the DRM udev monitor.                                   *)

\* Devices come, go or report a change (a display goes with its GPU); the
\* kernel tells a subscribed monitor.
Hotplug ==
    /\ Spend("hotplug")
    /\ hardware' \in {present \in SUBSET (Gpus \cup Displays) :
                        \A d \in present \cap Displays : Owner[d] \in present}
    /\ monitor' = [monitor EXCEPT !.hint = @ \/ monitor.up]
    /\ named' = {}
    /\ UNCHANGED <<serviceVars, storeVars, snapshot, readinessVars, disconnected, worker,
                   provider, everServed>>

\* drainEvents: whatever is queued (re)starts the debounce timer.
DrainEvents ==
    /\ monitor.up /\ monitor.hint
    /\ monitor' = [monitor EXCEPT !.hint = FALSE, !.debounce = TRUE]
    /\ named' = {}
    /\ UNCHANGED <<serviceVars, storeVars, snapshot, readinessVars, disconnected, worker,
                   provider, hardware, budget, everServed>>

\* drainEvents when the receive fails: the subscription and what was queued
\* on it are gone, a retry is scheduled and the reads are closed.
MonitorFails ==
    /\ monitor.up
    /\ Spend("monitor")
    /\ monitor' = [up |-> FALSE, hint |-> FALSE, debounce |-> TRUE, retry |-> TRUE]
    /\ SetObserverUnavailable
    /\ UNCHANGED <<storeVars, snapshot, initComplete, refreshPending, refreshAvailable,
                   disconnected, worker, provider, hardware, everServed>>

\* The debounce timer emits inventoryDirty.
DebounceFires ==
    /\ monitor.debounce
    /\ monitor' = [monitor EXCEPT !.debounce = FALSE]
    /\ RequestRefresh
    /\ NoEvent
    /\ UNCHANGED <<storeVars, snapshot, initComplete, refreshAvailable, observerAvailable,
                   recoveryPending, disconnected, provider, hardware, budget, everServed>>

RetrySucceeds ==
    /\ monitor.retry
    /\ monitor' = [monitor EXCEPT !.up = TRUE, !.retry = FALSE]
    /\ recoveryPending' = TRUE
    /\ RequestRefresh
    /\ NoEvent
    /\ UNCHANGED <<storeVars, snapshot, initComplete, refreshAvailable, observerAvailable,
                   disconnected, provider, hardware, budget, everServed>>

\* It fails and schedules itself again.
RetryFails ==
    /\ monitor.retry
    /\ Spend("monitor")
    /\ SetObserverUnavailable
    /\ UNCHANGED <<storeVars, snapshot, initComplete, refreshPending, refreshAvailable,
                   disconnected, worker, provider, monitor, hardware, everServed>>
-----------------------------------------------------------------------------
\* The steps the event loop, the worker and the timers owe once enabled.
SystemStep ==
    \/ InitializeAsync
    \/ WorkerReadsGpus \/ WorkerPosts
    \/ InitialInventoryFails \/ RefreshFails
    \/ InventoryUnannounceable \/ InventoryPublished
    \/ DrainEvents \/ DebounceFires \/ RetrySucceeds \/ RetryFails

EnvironmentStep == Start \/ Crash \/ Hotplug \/ MonitorFails

Next == SystemStep \/ EnvironmentStep

Spec == Init /\ [][Next]_vars

\* Queued calls, expired timers and threads all get their turn.
Fairness ==
    /\ WF_vars(Exit)
    /\ WF_vars(InitializeAsync)
    /\ WF_vars(WorkerReadsGpus) /\ WF_vars(WorkerPosts)
    /\ WF_vars(InitialInventoryFails) /\ WF_vars(RefreshFails)
    /\ WF_vars(InventoryUnannounceable) /\ WF_vars(InventoryPublished)
    /\ WF_vars(DrainEvents) /\ WF_vars(DebounceFires)
    /\ WF_vars(RetrySucceeds \/ RetryFails)

FairSpec == Spec /\ Fairness
-----------------------------------------------------------------------------
(* Properties.                                                             *)

\* disconnectedHardwareSubjects_ is exactly what this incarnation published
\* once and does not list now, through failures, recoveries and returns of
\* the same subject: DEVICE_DISCONNECTED and NOT_FOUND are never confused.
TombstonesExact ==
    snapshot.success => disconnected = everServed \ snapshot.devices

\* A snapshot that was published came from an enumeration: it lists a CPU
\* package, carries generations a client can tell from "none", and no
\* display without its GPU (composeEvidence, publish).
SnapshotsAreCoherent ==
    snapshot.success =>
        /\ CpuPackages \subseteq snapshot.devices
        /\ snapshot.inventory > 0 /\ snapshot.capability > 0
        /\ \A d \in snapshot.devices \cap Displays : Owner[d] \in snapshot.devices

\* A refresh asked for while another one runs is never forgotten by a
\* service that is READY: the running worker's end starts it.
PendingRefreshIsUnderway ==
    refreshPending /\ state = "READY" => worker.phase # "idle"

\* Reads closed for lack of observation reopen by themselves: once the
\* monitor is back and inventories succeed, the refresh that will reopen
\* them is on its way.
ClosedReadsReopen ==
    state = "READY" /\ monitor.up /\ refreshAvailable /\ ~observerAvailable
        => recoveryPending /\ worker.phase # "idle"

\* No refresh that is due is forgotten, whatever failed or was asked for
\* while another one was under way.
RefreshInvariant == TypeOK /\ PendingRefreshIsUnderway /\ ClosedReadsReopen

\* The event cursor identifies what reads answer: as long as the process
\* lives and is not giving up, the answers change only together with it.
CursorIdentifiesSnapshot ==
    [][Running' /\ ~quitting' /\ Served' # Served => eventSequence' > eventSequence]_vars

\* When the answer about a subject changes between two open states, an
\* event of that step names the subject; when the reads close, the platform.
ChangedSubjectsAreNamed ==
    [][/\ ReadsOk /\ ReadsOk' =>
            \A s \in Subjects : AnswerFor(s)' # AnswerFor(s) => s \in named'
       /\ ReadsOk /\ ~ReadsOk' /\ Running' /\ ~quitting' => Platform \in named']_vars

\* When the reads open again, everything known before or now is named, so
\* a client that dropped its copy asks again (the forced reconciliation of
\* publishHardwareInitialization).
ReopeningNamesEverything ==
    [][~ReadsOk /\ ReadsOk' =>
            snapshot.devices \cup snapshot'.devices \cup {Platform} \subseteq named']_vars

\* Clients that re-read what the events name miss no change of an answer.
ChangesAreNamed == ChangedSubjectsAreNamed /\ ReopeningNamesEverything

\* Within one incarnation a generation stands for one inventory and never
\* goes back, whatever failed in between.
GenerationsIdentifyContent ==
    [][Running' /\ snapshot.success /\ snapshot'.success =>
            /\ snapshot'.inventory >= snapshot.inventory
            /\ snapshot'.capability >= snapshot.capability
            /\ snapshot'.inventory = snapshot.inventory
                => snapshot'.devices = snapshot.devices]_vars

\* When the machine stops changing, what the reads answer becomes what is
\* there, or they stay closed: a hotplug that arrives during an enumeration,
\* during recovery or while nobody observes is not lost.
EventuallyFresh ==
    <>[](ReadsOk => snapshot.devices = hardware \cup CpuPackages)

\* A process that is not killed leaves STARTING and RECOVERING.
InitializationEnds ==
    state \in {"STARTING", "RECOVERING"} ~> state \in {"READY", "FAILED", "STOPPED"}

\* serviceGeneration().
ServiceGeneration == IF generation = 0 THEN 1 ELSE generation

\* The comment of serviceGeneration: READY is published only on the
\* generation the database recovery persisted.
ReadyOnPersistedGeneration ==
    state = "READY" => ServiceGeneration = persistedGeneration

\* The tickets: Hardware1 reads are closed while observation is unavailable.
ReadsClosedWhileUnobserved == ReadsOk => monitor.up
=============================================================================
