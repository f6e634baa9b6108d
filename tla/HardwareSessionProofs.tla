------------------------ MODULE HardwareSessionProofs ------------------------
(***************************************************************************)
(* Proofs about the hardware path, for any devices and limits and any      *)
(* number of hotplugs, failed enumerations, monitor failures and restarts. *)
(***************************************************************************)
EXTENDS HardwareSession, FiniteSetTheorems, TLAPS

-----------------------------------------------------------------------------
(* The inductive invariant.                                                *)

WorkerType == [phase : {"idle", "gpus", "displays", "posted"},
               gpus : SUBSET Gpus, result : Snapshot]
ProviderType == [current : Snapshot, inventory : 0..MaxGeneration,
                 capability : 0..MaxGeneration]
MonitorType == [up : BOOLEAN, hint : BOOLEAN, debounce : BOOLEAN, retry : BOOLEAN]
BudgetType == [{"hotplug", "enumeration", "monitor", "start"} -> Nat]

\* What a successful enumeration has: generations a client can tell from
\* none, a CPU package, and the GPU of every display.
Enumerated(graph) ==
    /\ CpuPackages \subseteq graph.devices
    /\ graph.inventory > 0 /\ graph.capability > 0
    /\ \A d \in graph.devices \cap Displays : Owner[d] \in graph.devices

\* Each start is paid for, and uses one generation of the file.
StartsLeft ==
    /\ budget \in BudgetType
    /\ persistedGeneration + budget["start"] <= MaxStarts
    /\ state = "STARTING" => persistedGeneration < MaxStarts
    /\ state = "STARTING" => persistedGeneration + budget["start"] < MaxStarts

\* Nothing is known and nothing forgotten before the first inventory, which
\* a service has only once it was READY.
KnowledgeBegins ==
    /\ initComplete = snapshot.success
    /\ ~snapshot.success => snapshot = NoSnapshot /\ disconnected = {} /\ everServed = {}
    /\ snapshot.success => state \in {"READY", "FAILED"} /\ snapshot.devices \subseteq everServed

\* The provider's counters are those of its last good inventory, which is
\* what a worker that is through has posted.
ProviderCounts ==
    /\ provider.current.success =>
        /\ provider.current.inventory = provider.inventory
        /\ provider.current.capability = provider.capability
        /\ Enumerated(provider.current)
    /\ ~provider.current.success => provider.current = NoSnapshot
    /\ worker.phase = "posted" => worker.result = provider.current

\* What was published and what the provider has now agree as long as their
\* generations do; the capability generation moves at least as often.
GenerationsTell ==
    snapshot.success =>
        /\ Enumerated(snapshot)
        /\ snapshot.inventory <= provider.inventory
        /\ snapshot.capability <= provider.capability
        /\ provider.current.success /\ snapshot.inventory = provider.inventory
            => snapshot.devices = provider.current.devices
        /\ snapshot.capability = provider.capability
            => snapshot.inventory = provider.inventory

\* A monitor that is up has no retry to come, and reads that are closed for
\* lack of observation have a recovery to come.
ObserverReturns ==
    monitor.up => ~monitor.retry /\ (observerAvailable \/ recoveryPending)

\* A service that FAILED with an inventory at hand ran out of numbers: it
\* cannot publish again, or what it publishes next must be announced in full,
\* or it stays closed.
FailedForNumbers ==
    state = "FAILED" /\ snapshot.success =>
        \/ ~HasRoomFor(1)
        \/ ~refreshAvailable \/ ~observerAvailable \/ recoveryPending
        \/ snapshot.capability # provider.capability

IInv ==
    /\ TypeOK /\ StartsLeft /\ KnowledgeBegins /\ TombstonesExact
    /\ ProviderCounts /\ GenerationsTell
    /\ PendingRefreshIsUnderway /\ ClosedReadsReopen /\ ObserverReturns
    /\ FailedForNumbers
-----------------------------------------------------------------------------
(* Parts of handlers.                                                      *)

LEMMA NothingIsTyped ==
    /\ NoSnapshot \in Snapshot /\ ~NoSnapshot.success
    /\ IdleWorker \in WorkerType /\ IdleWorker.phase = "idle"
    /\ NewProvider \in ProviderType /\ NewProvider.current = NoSnapshot
  BY GenerationAssumption DEF NoSnapshot, Snapshot, IdleWorker, WorkerType, NewProvider, ProviderType

LEMMA ContentFields ==
    ASSUME NEW graph \in Snapshot, NEW b \in BOOLEAN, NEW D \in SUBSET Subjects
    PROVE  [graph EXCEPT !.success = b, !.devices = D]
             = [success |-> b, devices |-> D, inventory |-> graph.inventory, capability |-> graph.capability]
  <1>1. PICK one : one = [graph EXCEPT !.success = b]
    OBVIOUS
  <1>2. one \in Snapshot /\ one.success = b /\ one.inventory = graph.inventory
        /\ one.capability = graph.capability
    BY <1>1 DEF Snapshot
  <1>3. [one EXCEPT !.devices = D]
          = [success |-> b, devices |-> D, inventory |-> graph.inventory, capability |-> graph.capability]
    BY <1>2 DEF Snapshot
  <1> QED
    BY <1>1, <1>3, Zenon

LEMMA GenerationFields ==
    ASSUME NEW graph \in Snapshot, NEW i \in Nat, NEW c \in Nat
    PROVE  [graph EXCEPT !.inventory = i, !.capability = c]
             = [success |-> graph.success, devices |-> graph.devices, inventory |-> i, capability |-> c]
  <1>1. PICK one : one = [graph EXCEPT !.inventory = i]
    OBVIOUS
  <1>2. one = [success |-> graph.success, devices |-> graph.devices,
               inventory |-> i, capability |-> graph.capability]
    BY <1>1 DEF Snapshot
  <1>3. [one EXCEPT !.capability = c]
          = [success |-> graph.success, devices |-> graph.devices, inventory |-> i, capability |-> c]
    BY <1>2
  <1> QED
    BY <1>1, <1>3, Zenon

LEMMA NextSequenceGrows ==
    ASSUME ServiceTypeOK, NEW n \in Nat
    PROVE  /\ NextSequence(n) \in 0..MaxSequence
           /\ NextSequence(n) >= eventSequence
           /\ n > 0 /\ HasRoomFor(n) => NextSequence(n) > eventSequence
  BY MaxSequenceAssumption DEF ServiceTypeOK, NextSequence, HasRoomFor

LEMMA StartRefreshWorks ==
    ASSUME StartRefresh
    PROVE  worker' \in WorkerType /\ worker'.phase = "gpus"
  <1>1. worker' = [phase |-> "gpus", gpus |-> {}, result |-> NoSnapshot]
    BY Zenon DEF StartRefresh, IdleWorker
  <1> QED
    BY <1>1, NothingIsTyped DEF WorkerType

LEMMA RequestKept ==
    ASSUME TypeOK, RequestRefresh
    PROVE  /\ worker' \in WorkerType /\ refreshPending' \in BOOLEAN
           /\ worker'.phase = "posted" => worker' = worker
           /\ state \notin {"STARTING", "RECOVERING"} => worker'.phase # "idle"
           /\ worker.phase # "idle" => worker'.phase # "idle"
           /\ refreshPending' => refreshPending \/ state \in {"STARTING", "RECOVERING"}
                                    \/ worker'.phase # "idle"
  <1>1. worker \in WorkerType /\ refreshPending \in BOOLEAN
    BY DEF TypeOK, WorkerType
  <1> QED
    BY <1>1, StartRefreshWorks DEF RequestRefresh

LEMMA WorkerJoined ==
    ASSUME TypeOK, JoinWorker \/ AbandonRefresh
    PROVE  /\ worker' \in WorkerType /\ refreshPending' \in BOOLEAN
           /\ worker'.phase # "posted"
           /\ JoinWorker => ~refreshPending' /\ (refreshPending => worker'.phase # "idle")
  <1>1. refreshPending \in BOOLEAN
    BY DEF TypeOK
  <1>2. CASE JoinWorker /\ refreshPending
    BY <1>2, StartRefreshWorks DEF JoinWorker
  <1>3. CASE worker' = IdleWorker /\ UNCHANGED refreshPending /\ (JoinWorker => ~refreshPending)
    BY <1>1, <1>3, NothingIsTyped
  <1> QED
    BY <1>1, <1>2, <1>3 DEF JoinWorker, AbandonRefresh

\* The reads close, with an event if they were open, or the service gives up.
LEMMA ObserverLost ==
    ASSUME TypeOK, SetObserverUnavailable
    PROVE  /\ ServiceTypeOK' /\ named' \subseteq {Platform}
           /\ observerAvailable' \in BOOLEAN /\ recoveryPending' \in BOOLEAN
           /\ eventSequence' >= eventSequence
           /\ observerAvailable' => observerAvailable
           /\ \/ UNCHANGED state
              \/ state' = "FAILED" /\ state = "READY" /\ quitting' /\ ~HasRoomFor(1)
                    /\ UNCHANGED eventSequence
           /\ ~observerAvailable => recoveryPending' = recoveryPending
           /\ recoveryPending' => recoveryPending
           /\ recoveryPending /\ ~recoveryPending' => ~observerAvailable'
           /\ ~quitting' /\ ReadsOk => Platform \in named' /\ eventSequence' > eventSequence
  <1>1. ServiceTypeOK /\ observerAvailable \in BOOLEAN /\ recoveryPending \in BOOLEAN
    BY DEF TypeOK
  <1>2. CASE ~observerAvailable
    BY <1>1, <1>2 DEF SetObserverUnavailable, NoEvent, serviceVars, ServiceTypeOK, ReadsOk
  <1>3. CASE observerAvailable /\ state = "READY" /\ snapshot.success /\ ~HasRoomFor(1)
    BY <1>1, <1>3 DEF SetObserverUnavailable, Exhausted, FailEventSequenceExhausted,
                      ServiceTypeOK, States
  <1>4. CASE observerAvailable /\ state = "READY" /\ snapshot.success /\ HasRoomFor(1)
    <2>1. /\ PlatformEvent
          /\ observerAvailable' = FALSE /\ recoveryPending' = FALSE
      BY <1>4 DEF SetObserverUnavailable
    <2>2. eventSequence' \in 0..MaxSequence /\ eventSequence' > eventSequence
      BY <1>1, <1>4, <2>1, NextSequenceGrows, 1 \in Nat DEF PlatformEvent
    <2>3. ServiceTypeOK' /\ named' = {Platform} /\ state' = state /\ eventSequence' >= eventSequence
      BY <1>1, <2>1, <2>2 DEF PlatformEvent, ServiceTypeOK, States
    <2> QED
      BY <1>4, <2>1, <2>2, <2>3, Zenon
  <1>5. CASE observerAvailable /\ ~(state = "READY" /\ snapshot.success)
    <2>1. NoEvent /\ observerAvailable' = FALSE /\ recoveryPending' = FALSE
      BY <1>5 DEF SetObserverUnavailable
    <2>2. ~ReadsOk
      BY <1>1, <1>5 DEF ReadsOk, ServiceTypeOK, States
    <2>3. /\ ServiceTypeOK' /\ named' = {} /\ state' = state
          /\ eventSequence' >= eventSequence
      BY <1>1, <2>1 DEF NoEvent, serviceVars, ServiceTypeOK
    <2> QED
      BY <1>5, <2>1, <2>2, <2>3, Zenon
  <1> QED
    BY <1>1, <1>2, <1>3, <1>4, <1>5

\* The number of events of a publication: none only if a READY service has
\* nothing new to tell; everything known is named if a capability is new.
LEMMA EventsAreCounted ==
    ASSUME TypeOK, NEW next \in Snapshot
    PROVE  /\ EventsOf(next) \in Nat
           /\ InventorySubjects(next) \cup CapabilitySubjects(next) \subseteq Subjects \cup {Platform}
           /\ state # "READY" => EventsOf(next) > 0
           /\ Changed(snapshot.capability, next.capability) \/ Changed(snapshot.inventory, next.inventory)
                => EventsOf(next) > 0
           /\ EventsOf(next) = 0 \/ state # "READY"
                \/ Changed(snapshot.capability, next.capability)
                \/ Changed(snapshot.inventory, next.inventory)
  <1> DEFINE I == InventorySubjects(next)  C == CapabilitySubjects(next)
  <1>1. snapshot.devices \subseteq Subjects /\ next.devices \subseteq Subjects
    BY DEF TypeOK, Snapshot
  <1>2. I \subseteq Subjects \cup {Platform} /\ C \subseteq Subjects \cup {Platform}
    BY <1>1 DEF InventorySubjects, CapabilitySubjects
  <1>3. IsFiniteSet(Subjects \cup {Platform})
    BY SubjectsAssumption, FS_AddElement
  <1>4. IsFiniteSet(I) /\ IsFiniteSet(C)
    BY <1>2, <1>3, FS_Subset
  <1>5. Cardinality(I) \in Nat /\ Cardinality(C) \in Nat
        /\ (Cardinality(I) = 0 <=> I = {}) /\ (Cardinality(C) = 0 <=> C = {})
    BY <1>4, FS_CardinalityType, FS_EmptySet
  <1>6. (I = {} <=> ~Changed(snapshot.inventory, next.inventory))
        /\ (C = {} <=> ~Changed(snapshot.capability, next.capability))
    BY DEF InventorySubjects, CapabilitySubjects
  <1>7. EventsOf(next) = Cardinality(I) + Cardinality(C) + (IF state = "READY" THEN 0 ELSE 1)
    BY DEF EventsOf
  <1> HIDE DEF I, C
  <1>8. /\ EventsOf(next) \in Nat
        /\ state # "READY" => EventsOf(next) > 0
        /\ C # {} \/ I # {} => EventsOf(next) > 0
        /\ EventsOf(next) = 0 \/ state # "READY" \/ C # {} \/ I # {}
    BY <1>5, <1>7
  <1> QED
    BY <1>2, <1>6, <1>8 DEF I, C

\* The enumerations of a worker: the displays that were read hang on GPUs
\* that were read.
LEMMA CoherentIsEnumerated ==
    ASSUME TypeOK, Coherent(hardware \cap Displays),
           NEW graph, graph.devices = worker.gpus \cup (hardware \cap Displays) \cup CpuPackages,
           graph.inventory > 0, graph.capability > 0
    PROVE  Enumerated(graph)
  <1>1. worker.gpus \cap Displays = {} /\ CpuPackages \cap Displays = {}
    BY SubjectsAssumption DEF TypeOK
  <1>2. \A d \in graph.devices \cap Displays : d \in hardware \cap Displays
    BY <1>1
  <1> QED
    BY <1>2 DEF Coherent, Enumerated

\* What the provider keeps is what it returns; its generations only grow,
\* and an inventory generation that stays stands for the same devices.
LEMMA ProviderKept ==
    ASSUME TypeOK, ProviderCounts, NEW success \in BOOLEAN, NEW devices \in SUBSET Subjects
    PROVE  LET outcome == ProviderPublishes(success, devices)
               after == outcome.provider
           IN  /\ after \in ProviderType
               /\ outcome.result = after.current
               /\ after.inventory >= provider.inventory /\ after.capability >= provider.capability
               /\ \/ after.current = NoSnapshot
                  \/ /\ success
                     /\ after.current.success /\ after.current.devices = devices
                     /\ after.current.inventory = after.inventory /\ after.inventory > 0
                     /\ after.current.capability = after.capability /\ after.capability > 0
               /\ after.current.success /\ after.inventory = provider.inventory
                    => provider.current.success /\ devices = provider.current.devices
               /\ after.capability = provider.capability => after.inventory = provider.inventory
  <1> DEFINE outcome == ProviderPublishes(success, devices)
             after == outcome.provider
             next == IF success THEN [NoSnapshot EXCEPT !.success = TRUE, !.devices = devices]
                                ELSE NoSnapshot
             first == success /\ ~provider.current.success
             inventoryMoves == first \/ ~SameInventory(provider.current, next)
             graphMoves == first \/ ~SameGraph(provider.current, next)
             exhausted == \/ inventoryMoves /\ GenerationExhausted(provider.inventory)
                          \/ graphMoves /\ GenerationExhausted(provider.capability)
             inventory == IF inventoryMoves THEN provider.inventory + 1 ELSE provider.inventory
             capability == IF graphMoves THEN provider.capability + 1 ELSE provider.capability
             kept == [next EXCEPT !.inventory = inventory, !.capability = capability]
  <1>1. provider \in ProviderType
    BY DEF TypeOK, ProviderType
  <1>2. /\ success => next = [success |-> TRUE, devices |-> devices, inventory |-> 0, capability |-> 0]
        /\ ~success => next = NoSnapshot
    <2>1. [NoSnapshot EXCEPT !.success = TRUE, !.devices = devices]
            = [success |-> TRUE, devices |-> devices, inventory |-> NoSnapshot.inventory,
               capability |-> NoSnapshot.capability]
      BY NothingIsTyped, ContentFields, Zenon
    <2>2. NoSnapshot.inventory = 0 /\ NoSnapshot.capability = 0
      BY DEF NoSnapshot
    <2> QED
      BY <2>1, <2>2, Zenon
  <1>3. ~success => next.devices = {} /\ ~next.success
    BY <1>2 DEF NoSnapshot
  <1>4. success => next.devices = devices /\ next.success
    BY <1>2
  <1>5. outcome = IF exhausted
                  THEN [result |-> NoSnapshot, provider |-> [provider EXCEPT !.current = NoSnapshot]]
                  ELSE [result |-> IF success THEN kept ELSE NoSnapshot,
                        provider |-> [current |-> IF success THEN kept ELSE NoSnapshot,
                                      inventory |-> inventory, capability |-> capability]]
    BY Zenon DEF ProviderPublishes
  <1>6. provider.inventory \in 0..MaxGeneration /\ provider.capability \in 0..MaxGeneration
        /\ provider.current \in Snapshot
    BY <1>1 DEF ProviderType
  <1>7. inventoryMoves => graphMoves
    BY DEF SameInventory, SameGraph
  <1>8. success => kept = [success |-> TRUE, devices |-> devices,
                           inventory |-> inventory, capability |-> capability]
    <2> SUFFICES ASSUME success PROVE kept = [success |-> TRUE, devices |-> devices,
                                              inventory |-> inventory, capability |-> capability]
      OBVIOUS
    <2> HIDE DEF next
    <2>1. next \in Snapshot /\ next.success = TRUE /\ next.devices = devices
      <3>1. next = [success |-> TRUE, devices |-> devices, inventory |-> 0, capability |-> 0]
        BY <1>2, Zenon
      <3>2. 0 \in 0..MaxGeneration
        BY GenerationAssumption
      <3> QED
        BY <3>1, <3>2 DEF Snapshot
    <2>2. inventory \in Nat /\ capability \in Nat
      BY <1>6
    <2> HIDE DEF inventory, capability
    <2>3. kept = [success |-> next.success, devices |-> next.devices,
                  inventory |-> inventory, capability |-> capability]
      BY <2>1, <2>2, GenerationFields, Zenon
    <2> HIDE DEF kept
    <2> QED
      BY <2>1, <2>3
  <1>9. CASE exhausted
    <2>1. after = [provider EXCEPT !.current = NoSnapshot] /\ outcome.result = NoSnapshot
      BY <1>5, <1>9
    <2>2. after.current = NoSnapshot /\ after.inventory = provider.inventory
          /\ after.capability = provider.capability /\ after \in ProviderType
      BY <1>1, <2>1, NothingIsTyped DEF ProviderType
    <2> QED
      BY <1>6, <2>1, <2>2, NothingIsTyped
  <1>10. CASE ~exhausted
    <2>1. /\ inventory \in 0..MaxGeneration /\ capability \in 0..MaxGeneration
          /\ inventory >= provider.inventory /\ capability >= provider.capability
          /\ inventoryMoves => inventory > provider.inventory
          /\ graphMoves => capability > provider.capability
          /\ ~inventoryMoves => inventory = provider.inventory
      BY <1>6, <1>10, GenerationAssumption DEF GenerationExhausted
    <2>2. capability = provider.capability => inventory = provider.inventory
      BY <1>7, <2>1, <1>6
    <2>3. after.inventory = inventory /\ after.capability = capability
          /\ outcome.result = after.current
          /\ after = [current |-> IF success THEN kept ELSE NoSnapshot,
                      inventory |-> inventory, capability |-> capability]
      BY <1>5, <1>10
    <2>4. CASE ~success
      <3>1. after.current = NoSnapshot /\ after \in ProviderType
        BY <2>1, <2>3, <2>4, NothingIsTyped DEF ProviderType
      <3> QED
        BY <2>1, <2>2, <2>3, <3>1, NothingIsTyped
    <2>5. CASE success
      <3>1. after.current = kept
        BY <2>3, <2>5
      <3>2. kept \in Snapshot /\ kept.success /\ kept.devices = devices
            /\ kept.inventory = inventory /\ kept.capability = capability
        BY <1>8, <2>1, <2>5 DEF Snapshot
      <3>3. after \in ProviderType
        BY <2>1, <2>3, <2>5, <3>1, <3>2 DEF ProviderType
      <3>4. inventory > 0 /\ capability > 0
        <4>1. CASE first
          BY <1>6, <1>7, <2>1, <4>1
        <4>2. CASE ~first
          BY <1>6, <2>1, <2>5, <4>2 DEF ProviderCounts, Enumerated
        <4> QED
          BY <4>1, <4>2
      <3>5. inventory = provider.inventory => provider.current.success /\ devices = provider.current.devices
        BY <1>4, <1>6, <2>1, <2>5 DEF SameInventory
      <3> QED
        BY <2>1, <2>2, <2>3, <2>5, <3>1, <3>2, <3>3, <3>4, <3>5
    <2> QED
      BY <2>4, <2>5
  <1> QED
    BY <1>9, <1>10

LEMMA SpendKept ==
    ASSUME NEW kind \in {"hotplug", "enumeration", "monitor", "start"},
           budget \in BudgetType, Spend(kind)
    PROVE  /\ budget' \in BudgetType
           /\ kind = "start" => budget'["start"] = budget["start"] - 1 /\ budget["start"] > 0
           /\ kind # "start" => budget'["start"] = budget["start"]
  BY DEF BudgetType, Spend

LEMMA PostedKept ==
    ASSUME TypeOK, ProviderCounts, budget \in BudgetType, WorkerPosts
    PROVE  /\ worker' \in WorkerType /\ worker'.phase = "posted"
           /\ provider' \in ProviderType /\ worker'.result = provider'.current
           /\ budget' \in BudgetType /\ budget'["start"] = budget["start"]
           /\ provider'.inventory >= provider.inventory /\ provider'.capability >= provider.capability
           /\ \/ provider'.current = NoSnapshot
              \/ /\ provider'.current.success
                 /\ Enumerated(provider'.current)
                 /\ provider'.current.inventory = provider'.inventory
                 /\ provider'.current.capability = provider'.capability
           /\ provider'.current.success /\ provider'.inventory = provider.inventory
                => provider.current.success /\ provider'.current.devices = provider.current.devices
           /\ provider'.capability = provider.capability => provider'.inventory = provider.inventory
  <1> DEFINE displays == hardware \cap Displays
             devices == worker.gpus \cup displays \cup CpuPackages
  <1>1. PICK failed \in BOOLEAN :
          /\ IF failed THEN Spend("enumeration") ELSE UNCHANGED budget
          /\ worker' = [worker EXCEPT !.phase = "posted",
                          !.result = ProviderPublishes(~failed /\ Coherent(displays), devices).result]
          /\ provider' = ProviderPublishes(~failed /\ Coherent(displays), devices).provider
    BY Zenon DEF WorkerPosts
  <1>2. PICK success \in BOOLEAN : success = (~failed /\ Coherent(displays))
    OBVIOUS
  <1>3. PICK all \in SUBSET Subjects : all = devices
    BY DEF TypeOK, Subjects
  <1>4. PICK outcome : outcome = ProviderPublishes(success, all)
    OBVIOUS
  <1>5. provider' = outcome.provider
    BY <1>1, <1>2, <1>3, <1>4, Zenon
  <1>6. /\ provider' \in ProviderType
        /\ outcome.result = provider'.current
        /\ provider'.inventory >= provider.inventory /\ provider'.capability >= provider.capability
        /\ \/ provider'.current = NoSnapshot
           \/ /\ success
              /\ provider'.current.success /\ provider'.current.devices = all
              /\ provider'.current.inventory = provider'.inventory /\ provider'.inventory > 0
              /\ provider'.current.capability = provider'.capability /\ provider'.capability > 0
        /\ provider'.current.success /\ provider'.inventory = provider.inventory
             => provider.current.success /\ all = provider.current.devices
        /\ provider'.capability = provider.capability => provider'.inventory = provider.inventory
    BY <1>4, <1>5, ProviderKept, Zenon
  <1>7. provider'.current = NoSnapshot \/ Enumerated(provider'.current)
    <2>1. PICK graph : graph = provider'.current
      OBVIOUS
    <2> QED
      BY <1>2, <1>3, <1>6, <2>1, CoherentIsEnumerated
  <1>8. worker' \in WorkerType /\ worker'.phase = "posted" /\ worker'.result = provider'.current
    <2>1. worker' = [worker EXCEPT !.phase = "posted", !.result = outcome.result]
      BY <1>1, <1>2, <1>3, <1>4, Zenon
    <2>2. outcome.result \in Snapshot
      BY <1>6 DEF ProviderType
    <2>3. worker \in WorkerType
      BY DEF TypeOK, WorkerType
    <2>4. PICK through : through = [worker EXCEPT !.phase = "posted"]
      OBVIOUS
    <2>5. through \in WorkerType /\ through.phase = "posted"
      BY <2>3, <2>4 DEF WorkerType
    <2>6. worker' = [through EXCEPT !.result = outcome.result]
      BY <2>1, <2>4, Zenon
    <2> QED
      BY <1>6, <2>2, <2>5, <2>6 DEF WorkerType
  <1>9. budget' \in BudgetType /\ budget'["start"] = budget["start"]
    BY <1>1, SpendKept
  <1> QED
    BY <1>3, <1>6, <1>7, <1>8, <1>9, NothingIsTyped
-----------------------------------------------------------------------------
(* Types.                                                                  *)

LEMMA InitTyped == Init => TypeOK /\ StartsLeft
  <1> SUFFICES ASSUME Init PROVE TypeOK /\ StartsLeft
    OBVIOUS
  <1>1. ServiceTypeOK
    <2>1. state = "STOPPED" /\ eventSequence = 0 /\ quitting = FALSE
      BY Zenon DEF Init
    <2>2. state \in States /\ eventSequence \in 0..MaxSequence
      BY <2>1, MaxSequenceAssumption DEF States
    <2>3. quitting \in BOOLEAN
      BY <2>1, Zenon
    <2> QED
      BY <2>1, <2>2, <2>3, Zenon DEF ServiceTypeOK
  <1>2. /\ persistedGeneration \in 0..MaxStarts /\ generation \in 0..MaxStarts
        /\ snapshot \in Snapshot /\ disconnected \subseteq Subjects
        /\ worker \in WorkerType /\ provider \in ProviderType
        /\ named \subseteq Subjects \cup {Platform} /\ everServed \subseteq Subjects
        /\ hardware \subseteq Gpus \cup Displays
    BY BoundsAssumption, NothingIsTyped DEF Init
  <1>3. monitor \in [up : BOOLEAN, hint : BOOLEAN, debounce : BOOLEAN, retry : BOOLEAN]
    BY DEF Init, DownMonitor
  <1>4. initComplete \in BOOLEAN /\ refreshPending \in BOOLEAN /\ refreshAvailable \in BOOLEAN
        /\ observerAvailable \in BOOLEAN /\ recoveryPending \in BOOLEAN
    BY DEF Init
  <1>5. TypeOK
    BY <1>1, <1>2, <1>3, <1>4 DEF TypeOK, WorkerType, ProviderType
  <1>6. budget \in BudgetType /\ budget["start"] = MaxStarts
    BY BoundsAssumption DEF Init, BudgetType
  <1>7. StartsLeft
    BY <1>6, BoundsAssumption DEF Init, StartsLeft
  <1> QED
    BY <1>5, <1>7

LEMMA StartTyped == TypeOK /\ StartsLeft /\ Start => TypeOK' /\ StartsLeft'
  <1> SUFFICES ASSUME TypeOK, StartsLeft, Start PROVE TypeOK' /\ StartsLeft'
    OBVIOUS
  <1>1. ServiceTypeOK' /\ state' = "STARTING"
    <2>1. state' = "STARTING" /\ eventSequence' = 0 /\ quitting' = FALSE
      BY Zenon DEF Start, StartProcess
    <2>2. state' \in States /\ eventSequence' \in 0..MaxSequence
      BY <2>1, MaxSequenceAssumption DEF States
    <2>3. quitting' \in BOOLEAN
      BY <2>1, Zenon
    <2> QED
      BY <2>1, <2>2, <2>3, Zenon DEF ServiceTypeOK
  <1>2. /\ budget \in BudgetType /\ budget' \in BudgetType
        /\ budget["start"] > 0 /\ budget'["start"] = budget["start"] - 1
    <2>1. CASE Spend("start")
      BY <2>1, SpendKept DEF StartsLeft
    <2>2. CASE /\ budget["start"] > 0
               /\ budget' = [budget EXCEPT !["start"] = @ - 1, !["monitor"] = @ - 1]
               /\ budget["monitor"] > 0
      <3>1. PICK b : b = [budget EXCEPT !["start"] = @ - 1]
        OBVIOUS
      <3>2. b \in BudgetType /\ b["start"] = budget["start"] - 1 /\ b["monitor"] = budget["monitor"]
        BY <2>2, <3>1 DEF StartsLeft, BudgetType
      <3>3. budget' = [b EXCEPT !["monitor"] = @ - 1]
        BY <2>2, <3>1, Zenon
      <3> QED
        BY <2>2, <3>2, <3>3 DEF StartsLeft, BudgetType
    <2> QED
      BY <2>1, <2>2 DEF Start
  <1>3. monitor' \in MonitorType /\ observerAvailable' \in BOOLEAN
    BY DEF Start, DownMonitor, MonitorType
  <1>4. TypeOK'
    <2>1. UNCHANGED <<storeVars, snapshot, initComplete, refreshPending, refreshAvailable,
                      recoveryPending, disconnected, worker, provider, hardware, historyVars>>
      BY DEF Start
    <2> QED
      BY <1>1, <1>3, <2>1 DEF TypeOK, storeVars, historyVars, MonitorType
  <1>5. persistedGeneration' = persistedGeneration /\ persistedGeneration \in Nat
    BY BoundsAssumption DEF TypeOK, Start, storeVars
  <1>6. budget["start"] \in Nat
    BY <1>2 DEF BudgetType
  <1>7. StartsLeft'
    BY <1>2, <1>5, <1>6, BoundsAssumption DEF StartsLeft
  <1> QED
    BY <1>4, <1>7

LEMMA InitializeTyped == TypeOK /\ StartsLeft /\ InitializeAsync => TypeOK' /\ StartsLeft'
  <1> SUFFICES ASSUME TypeOK, StartsLeft, InitializeAsync PROVE TypeOK' /\ StartsLeft'
    OBVIOUS
  <1>1. ServiceTypeOK
    BY DEF TypeOK
  <1>2. ServiceTypeOK' /\ state' \in {"RECOVERING", "FAILED"}
    BY <1>1, NextSequenceGrows, 1 \in Nat, 2 \in Nat DEF InitializeAsync, ServiceTypeOK, States
  <1>3. /\ persistedGeneration \in Nat /\ MaxStarts \in Nat
        /\ persistedGeneration < MaxStarts /\ budget["start"] \in Nat
        /\ persistedGeneration + budget["start"] < MaxStarts
    BY BoundsAssumption DEF TypeOK, StartsLeft, InitializeAsync, BudgetType
  <1>4. /\ persistedGeneration' \in {persistedGeneration, persistedGeneration + 1}
        /\ generation' \in {0, persistedGeneration + 1}
    BY DEF InitializeAsync
  <1>5. worker' \in WorkerType
    BY StartRefreshWorks DEF InitializeAsync, TypeOK, WorkerType
  <1>6. persistedGeneration' \in 0..MaxStarts /\ generation' \in 0..MaxStarts
    BY <1>3, <1>4
  <1>7. TypeOK'
    <2>1. /\ UNCHANGED <<snapshot, readinessVars, disconnected, provider, monitor, hardware, everServed>>
          /\ named' = {}
      BY DEF InitializeAsync
    <2>2. refreshPending' = refreshPending
      BY <2>1 DEF readinessVars
    <2> QED
      BY <1>2, <1>5, <1>6, <2>1 DEF TypeOK, readinessVars, WorkerType
  <1>8. StartsLeft'
    <2>1. budget' = budget
      BY DEF InitializeAsync
    <2> QED
      BY <1>2, <1>3, <1>4, <2>1 DEF StartsLeft
  <1> QED
    BY <1>7, <1>8

LEMMA StartsKept ==
    ASSUME StartsLeft, UNCHANGED persistedGeneration, state' = state \/ state' # "STARTING",
           budget' \in BudgetType, budget'["start"] = budget["start"]
    PROVE  StartsLeft'
  BY DEF StartsLeft

LEMMA CrashTyped == TypeOK /\ StartsLeft /\ Crash => TypeOK' /\ StartsLeft'
  <1> SUFFICES ASSUME TypeOK, StartsLeft, Crash PROVE TypeOK' /\ StartsLeft'
    OBVIOUS
  <1>1. state' = "STOPPED" /\ eventSequence' = 0 /\ quitting' = FALSE
    BY Zenon DEF Crash, StopProcess
  <1>2. ServiceTypeOK'
    <2>1. state' \in States /\ eventSequence' \in 0..MaxSequence
      BY <1>1, MaxSequenceAssumption DEF States
    <2>2. quitting' \in BOOLEAN
      BY <1>1, Zenon
    <2> QED
      BY <2>1, <2>2, Zenon DEF ServiceTypeOK
  <1>3. /\ generation' \in 0..MaxStarts /\ snapshot' \in Snapshot
        /\ worker' \in WorkerType /\ provider' \in ProviderType
        /\ disconnected' = {} /\ named' = {} /\ everServed' = {}
        /\ UNCHANGED <<persistedGeneration, hardware, budget>>
    BY NothingIsTyped, BoundsAssumption DEF Crash
  <1>4. initComplete' \in BOOLEAN /\ refreshPending' \in BOOLEAN /\ refreshAvailable' \in BOOLEAN
        /\ observerAvailable' \in BOOLEAN /\ recoveryPending' \in BOOLEAN
    BY Zenon DEF Crash
  <1>5. monitor' \in MonitorType
    BY DEF Crash, DownMonitor, MonitorType
  <1>6. TypeOK'
    BY <1>2, <1>3, <1>4, <1>5 DEF TypeOK, WorkerType, ProviderType, MonitorType
  <1> QED
    BY <1>1, <1>3, <1>6, StartsKept DEF StartsLeft

LEMMA WorkerTyped ==
    TypeOK /\ StartsLeft /\ ProviderCounts /\ (WorkerReadsGpus \/ WorkerPosts)
        => TypeOK' /\ StartsLeft'
  <1> SUFFICES ASSUME TypeOK, StartsLeft, ProviderCounts, WorkerReadsGpus \/ WorkerPosts
               PROVE  TypeOK' /\ StartsLeft'
    OBVIOUS
  <1>1. /\ UNCHANGED <<serviceVars, storeVars, snapshot, readinessVars, disconnected,
                       monitor, hardware, everServed>>
        /\ named' = {}
    BY DEF WorkerReadsGpus, WorkerPosts
  <1>2. budget \in BudgetType
    BY DEF StartsLeft
  <1>3. /\ worker' \in WorkerType /\ provider' \in ProviderType
        /\ budget' \in BudgetType /\ budget'["start"] = budget["start"]
    <2>1. CASE WorkerPosts
      BY <1>2, <2>1, PostedKept
    <2>2. CASE WorkerReadsGpus
      <3>1. worker \in WorkerType /\ provider' = provider /\ budget' = budget
        BY <2>2 DEF WorkerReadsGpus, TypeOK, WorkerType
      <3>2. PICK through : through = [worker EXCEPT !.phase = "displays"]
        OBVIOUS
      <3>3. through \in WorkerType
        BY <3>1, <3>2 DEF WorkerType
      <3>4. worker' = [through EXCEPT !.gpus = hardware \cap Gpus]
        BY <2>2, <3>2, Zenon DEF WorkerReadsGpus
      <3> QED
        BY <1>2, <3>1, <3>3, <3>4 DEF TypeOK, WorkerType, ProviderType
    <2> QED
      BY <2>1, <2>2
  <1>4. TypeOK'
    BY <1>1, <1>3 DEF TypeOK, ServiceTypeOK, serviceVars, storeVars, readinessVars,
                      WorkerType, ProviderType
  <1>5. UNCHANGED <<persistedGeneration, state>>
    BY <1>1 DEF serviceVars, storeVars
  <1> QED
    BY <1>3, <1>4, <1>5, StartsKept

LEMMA ReadinessLost ==
    ASSUME TypeOK, SetState("FAILED") \/ Exhausted \/ PlatformEvent \/ NoEvent
    PROVE  /\ ServiceTypeOK' /\ eventSequence' >= eventSequence
           /\ state' = state \/ state' = "FAILED"
  <1>1. ServiceTypeOK
    BY DEF TypeOK
  <1>2. CASE SetState("FAILED")
    <2>1. CASE HasRoomFor(1)
      <3>1. state' = "FAILED" /\ eventSequence' = NextSequence(1) /\ UNCHANGED quitting
        BY <1>2, <2>1 DEF SetState
      <3> QED
        BY <1>1, <3>1, NextSequenceGrows, 1 \in Nat DEF ServiceTypeOK, States
    <2>2. CASE ~HasRoomFor(1)
      <3>1. state' = "FAILED" /\ quitting' = TRUE /\ UNCHANGED eventSequence
        BY <1>2, <2>2 DEF SetState, FailEventSequenceExhausted
      <3> QED
        BY <1>1, <3>1 DEF ServiceTypeOK, States
    <2> QED
      BY <2>1, <2>2
  <1>3. CASE Exhausted
    BY <1>1, <1>3 DEF Exhausted, FailEventSequenceExhausted, ServiceTypeOK, States
  <1>4. CASE PlatformEvent
    BY <1>1, <1>4, NextSequenceGrows, 1 \in Nat DEF PlatformEvent, ServiceTypeOK
  <1>5. CASE NoEvent
    BY <1>1, <1>5 DEF NoEvent, serviceVars, ServiceTypeOK
  <1> QED
    BY <1>2, <1>3, <1>4, <1>5

LEMMA FailureTyped ==
    TypeOK /\ StartsLeft /\ (InitialInventoryFails \/ RefreshFails \/ InventoryUnannounceable)
        => TypeOK' /\ StartsLeft'
  <1> SUFFICES ASSUME TypeOK, StartsLeft,
                      InitialInventoryFails \/ RefreshFails \/ InventoryUnannounceable
               PROVE  TypeOK' /\ StartsLeft'
    OBVIOUS
  <1>1. /\ UNCHANGED <<storeVars, initComplete, observerAvailable, recoveryPending,
                       disconnected, provider, monitor, hardware, budget, everServed>>
        /\ snapshot' \in {snapshot, worker.result}
    BY DEF InitialInventoryFails, RefreshFails, InventoryUnannounceable
  <1>2. JoinWorker \/ AbandonRefresh
    BY DEF InitialInventoryFails, RefreshFails, InventoryUnannounceable
  <1>3. refreshAvailable' \in BOOLEAN
    <2>1. refreshAvailable' = FALSE \/ UNCHANGED refreshAvailable
      BY Zenon DEF InitialInventoryFails, RefreshFails, InventoryUnannounceable
    <2> QED
      BY <2>1, Zenon DEF TypeOK
  <1>4. SetState("FAILED") \/ Exhausted \/ PlatformEvent \/ NoEvent
    BY DEF InitialInventoryFails, RefreshFails, InventoryUnannounceable
  <1>5. ServiceTypeOK' /\ (state' = state \/ state' = "FAILED")
    BY <1>4, ReadinessLost
  <1>6. named' \subseteq Subjects \cup {Platform}
    BY DEF InitialInventoryFails, RefreshFails, InventoryUnannounceable,
           Exhausted, PlatformEvent, NoEvent
  <1>7. worker' \in WorkerType /\ refreshPending' \in BOOLEAN
    BY <1>2, WorkerJoined
  <1>8. snapshot' \in Snapshot
    BY <1>1 DEF TypeOK, WorkerType
  <1>9. TypeOK'
    BY <1>1, <1>3, <1>5, <1>6, <1>7, <1>8 DEF TypeOK, storeVars, WorkerType
  <1>10. UNCHANGED <<persistedGeneration, budget>>
    BY <1>1 DEF storeVars
  <1> QED
    BY <1>5, <1>9, <1>10, StartsKept DEF StartsLeft

LEMMA PublishedTyped == TypeOK /\ StartsLeft /\ InventoryPublished => TypeOK' /\ StartsLeft'
  <1> SUFFICES ASSUME TypeOK, StartsLeft, InventoryPublished PROVE TypeOK' /\ StartsLeft'
    OBVIOUS
  <1>1. PICK next \in Snapshot : next = worker.result
    BY DEF TypeOK, WorkerType
  <1>2. /\ state' = "READY" /\ UNCHANGED quitting
        /\ eventSequence' = NextSequence(EventsOf(next))
        /\ snapshot' = next /\ JoinWorker
        /\ UNCHANGED <<storeVars, provider, monitor, hardware, budget>>
    BY <1>1 DEF InventoryPublished
  <1>3. ServiceTypeOK'
    BY <1>2, EventsAreCounted, NextSequenceGrows DEF TypeOK, ServiceTypeOK, States
  <1>4. next.devices \subseteq Subjects
    BY DEF Snapshot
  <1>5. disconnected' \subseteq Subjects /\ everServed' \subseteq Subjects
    BY <1>1, <1>4 DEF TypeOK, Snapshot, InventoryPublished, TombstonesAfter
  <1>6. named' \subseteq Subjects \cup {Platform}
    BY <1>1, EventsAreCounted DEF InventoryPublished
  <1>7. initComplete' = TRUE /\ refreshAvailable' = TRUE
    BY Zenon DEF InventoryPublished
  <1>8. observerAvailable' \in BOOLEAN /\ recoveryPending' \in BOOLEAN
    BY Zenon DEF InventoryPublished
  <1>9. worker' \in WorkerType /\ refreshPending' \in BOOLEAN
    BY <1>2, WorkerJoined
  <1>10. TypeOK'
    BY <1>2, <1>3, <1>5, <1>6, <1>7, <1>8, <1>9 DEF TypeOK, storeVars, WorkerType
  <1> QED
    BY <1>2, <1>10, StartsKept DEF StartsLeft, storeVars

LEMMA MonitorTyped ==
    TypeOK /\ StartsLeft
      /\ (Hotplug \/ DrainEvents \/ MonitorFails \/ DebounceFires \/ RetrySucceeds \/ RetryFails)
        => TypeOK' /\ StartsLeft'
  <1> SUFFICES ASSUME TypeOK, StartsLeft,
                      Hotplug \/ DrainEvents \/ MonitorFails \/ DebounceFires
                          \/ RetrySucceeds \/ RetryFails
               PROVE  TypeOK' /\ StartsLeft'
    OBVIOUS
  <1>1. UNCHANGED <<storeVars, snapshot, initComplete, refreshAvailable, disconnected,
                    provider, everServed>>
    BY DEF Hotplug, DrainEvents, MonitorFails, DebounceFires, RetrySucceeds, RetryFails, readinessVars
  <1>2. hardware' \subseteq Gpus \cup Displays
    BY DEF TypeOK, Hotplug, DrainEvents, MonitorFails, DebounceFires, RetrySucceeds, RetryFails
  <1>3. monitor' \in MonitorType
    <2>1. monitor \in MonitorType
      BY DEF TypeOK, MonitorType
    <2>2. CASE DrainEvents
      <3>1. PICK m : m = [monitor EXCEPT !.hint = FALSE]
        OBVIOUS
      <3>2. m \in MonitorType
        BY <2>1, <3>1 DEF MonitorType
      <3>3. monitor' = [m EXCEPT !.debounce = TRUE]
        BY <2>2, <3>1, Zenon DEF DrainEvents
      <3> QED
        BY <3>2, <3>3 DEF MonitorType
    <2>3. CASE RetrySucceeds
      <3>1. PICK m : m = [monitor EXCEPT !.up = TRUE]
        OBVIOUS
      <3>2. m \in MonitorType
        BY <2>1, <3>1 DEF MonitorType
      <3>3. monitor' = [m EXCEPT !.retry = FALSE]
        BY <2>3, <3>1, Zenon DEF RetrySucceeds
      <3> QED
        BY <3>2, <3>3 DEF MonitorType
    <2>4. CASE Hotplug
      BY <2>1, <2>4 DEF Hotplug, MonitorType
    <2>5. CASE DebounceFires
      BY <2>1, <2>5 DEF DebounceFires, MonitorType
    <2>6. CASE MonitorFails \/ RetryFails
      <3>1. \/ UNCHANGED monitor
            \/ monitor' = [up |-> FALSE, hint |-> FALSE, debounce |-> TRUE, retry |-> TRUE]
        BY <2>6, Zenon DEF MonitorFails, RetryFails
      <3>2. [up |-> FALSE, hint |-> FALSE, debounce |-> TRUE, retry |-> TRUE] \in MonitorType
        BY DEF MonitorType
      <3> QED
        BY <2>1, <3>1, <3>2
    <2> QED
      BY <2>2, <2>3, <2>4, <2>5, <2>6
  <1>4. budget' \in BudgetType /\ budget'["start"] = budget["start"]
    BY SpendKept DEF StartsLeft, Hotplug, DrainEvents, MonitorFails, DebounceFires, RetrySucceeds, RetryFails
  <1>5. /\ worker' \in WorkerType /\ refreshPending' \in BOOLEAN
        /\ observerAvailable' \in BOOLEAN /\ recoveryPending' \in BOOLEAN
        /\ ServiceTypeOK' /\ named' \subseteq Subjects \cup {Platform}
        /\ state' = state \/ state' = "FAILED"
    <2>1. CASE MonitorFails \/ RetryFails
      <3>1. SetObserverUnavailable /\ UNCHANGED <<worker, refreshPending>>
        BY <2>1 DEF MonitorFails, RetryFails
      <3> QED
        BY <3>1, ObserverLost DEF TypeOK, WorkerType
    <2>2. CASE DebounceFires
      <3>1. RequestRefresh /\ NoEvent /\ UNCHANGED <<observerAvailable, recoveryPending>>
        BY <2>2 DEF DebounceFires
      <3> QED
        BY <3>1, RequestKept, ReadinessLost DEF TypeOK, NoEvent, serviceVars
    <2>3. CASE RetrySucceeds
      <3>1. RequestRefresh /\ NoEvent /\ UNCHANGED observerAvailable
        BY <2>3 DEF RetrySucceeds
      <3>2. recoveryPending' \in BOOLEAN
        BY <2>3, Zenon DEF RetrySucceeds
      <3> QED
        BY <3>1, <3>2, RequestKept, ReadinessLost DEF TypeOK, NoEvent, serviceVars
    <2>4. CASE Hotplug \/ DrainEvents
      <3>1. UNCHANGED <<serviceVars, readinessVars, worker>> /\ named' = {}
        BY <2>4 DEF Hotplug, DrainEvents
      <3> QED
        BY <3>1 DEF TypeOK, ServiceTypeOK, serviceVars, readinessVars, WorkerType
    <2> QED
      BY <2>1, <2>2, <2>3, <2>4
  <1>6. TypeOK'
    BY <1>1, <1>2, <1>3, <1>5 DEF TypeOK, storeVars, WorkerType, MonitorType
  <1> QED
    BY <1>1, <1>4, <1>5, <1>6, StartsKept DEF storeVars

LEMMA TypeKept == TypeOK /\ StartsLeft /\ ProviderCounts /\ [Next]_vars => TypeOK' /\ StartsLeft'
  <1> SUFFICES ASSUME TypeOK, StartsLeft, ProviderCounts, [Next]_vars PROVE TypeOK' /\ StartsLeft'
    OBVIOUS
  <1>1. CASE UNCHANGED vars
    BY <1>1 DEF TypeOK, StartsLeft, ServiceTypeOK, vars, serviceVars, storeVars, readinessVars,
                historyVars
  <1> QED
    BY <1>1, StartTyped, InitializeTyped, CrashTyped, WorkerTyped, FailureTyped, PublishedTyped,
       MonitorTyped DEF Next, SystemStep, EnvironmentStep
-----------------------------------------------------------------------------
(* The worker and the provider.                                            *)

LEMMA MonitorSteps ==
    ASSUME TypeOK, Hotplug \/ DrainEvents \/ MonitorFails \/ DebounceFires \/ RetrySucceeds \/ RetryFails
    PROVE  /\ UNCHANGED <<snapshot, initComplete, refreshAvailable, disconnected, provider, everServed>>
           /\ worker'.phase = "posted" => worker' = worker
           /\ eventSequence' >= eventSequence
           /\ state' = state \/ state' = "FAILED"
  <1>1. UNCHANGED <<snapshot, initComplete, refreshAvailable, disconnected, provider, everServed>>
    BY DEF Hotplug, DrainEvents, MonitorFails, DebounceFires, RetrySucceeds, RetryFails, readinessVars
  <1>2. CASE MonitorFails \/ RetryFails
    <2>1. SetObserverUnavailable /\ UNCHANGED worker
      BY <1>2 DEF MonitorFails, RetryFails
    <2> QED
      BY <1>1, <2>1, ObserverLost
  <1>3. CASE DebounceFires \/ RetrySucceeds
    <2>1. RequestRefresh /\ NoEvent
      BY <1>3 DEF DebounceFires, RetrySucceeds
    <2> QED
      BY <1>1, <2>1, RequestKept, ReadinessLost
  <1>4. CASE Hotplug \/ DrainEvents
    <2>1. UNCHANGED <<serviceVars, worker>>
      BY <1>4 DEF Hotplug, DrainEvents
    <2> QED
      BY <1>1, <2>1 DEF serviceVars, TypeOK, ServiceTypeOK
  <1> QED
    BY <1>2, <1>3, <1>4

\* Only the worker itself posts, and only then does the provider move.
LEMMA PostedStays ==
    ASSUME TypeOK, [Next]_vars, ~WorkerPosts, ~Crash
    PROVE  provider' = provider /\ (worker'.phase = "posted" => worker' = worker)
  <1>1. CASE Start
    BY <1>1 DEF Start
  <1>2. CASE InitializeAsync
    BY <1>2, StartRefreshWorks DEF InitializeAsync
  <1>3. CASE WorkerReadsGpus
    <2>1. provider' = provider
      BY <1>3 DEF WorkerReadsGpus
    <2>2. PICK through : through = [worker EXCEPT !.phase = "displays"]
      OBVIOUS
    <2>3. through.phase = "displays" /\ through \in WorkerType
      BY <2>2 DEF TypeOK, WorkerType
    <2>4. worker' = [through EXCEPT !.gpus = hardware \cap Gpus]
      BY <1>3, <2>2, Zenon DEF WorkerReadsGpus
    <2> QED
      BY <2>1, <2>3, <2>4 DEF WorkerType
  <1>4. CASE InitialInventoryFails \/ RefreshFails \/ InventoryUnannounceable \/ InventoryPublished
    <2>1. provider' = provider /\ (JoinWorker \/ AbandonRefresh)
      BY <1>4 DEF InitialInventoryFails, RefreshFails, InventoryUnannounceable, InventoryPublished
    <2> QED
      BY <2>1, WorkerJoined
  <1>5. CASE UNCHANGED vars
    BY <1>5 DEF vars
  <1> QED
    BY <1>1, <1>2, <1>3, <1>4, <1>5, MonitorSteps DEF Next, SystemStep, EnvironmentStep

LEMMA ProviderCountsKept == TypeOK /\ StartsLeft /\ ProviderCounts /\ [Next]_vars => ProviderCounts'
  <1> SUFFICES ASSUME TypeOK, StartsLeft, ProviderCounts, [Next]_vars PROVE ProviderCounts'
    OBVIOUS
  <1>1. CASE WorkerPosts
    BY <1>1, PostedKept, NothingIsTyped DEF StartsLeft, ProviderCounts
  <1>2. CASE Crash
    BY <1>2, NothingIsTyped DEF Crash, ProviderCounts
  <1>3. CASE ~WorkerPosts /\ ~Crash
    BY <1>3, PostedStays DEF ProviderCounts, Enumerated
  <1> QED
    BY <1>1, <1>2, <1>3
-----------------------------------------------------------------------------
(* What was published.                                                     *)

\* A worker's result reaches the snapshot in one of two ways.
LEMMA SnapshotMoves ==
    ASSUME TypeOK, [Next]_vars
    PROVE  \/ UNCHANGED <<snapshot, initComplete, disconnected, everServed>>
           \/ Crash \/ InitialInventoryFails \/ InventoryPublished
  <1>1. CASE Start \/ InitializeAsync \/ WorkerReadsGpus \/ WorkerPosts
             \/ RefreshFails \/ InventoryUnannounceable
    BY <1>1 DEF Start, InitializeAsync, WorkerReadsGpus, WorkerPosts, RefreshFails,
                InventoryUnannounceable, historyVars, readinessVars
  <1>2. CASE UNCHANGED vars
    BY <1>2 DEF vars, readinessVars, historyVars
  <1> QED
    BY <1>1, <1>2, MonitorSteps DEF Next, SystemStep, EnvironmentStep

\* A service that has an inventory leaves READY only for FAILED.
LEMMA StaysReadyOrFailed ==
    ASSUME TypeOK, [Next]_vars, ~Crash, state \in {"READY", "FAILED"}
    PROVE  state' \in {"READY", "FAILED"} /\ eventSequence' >= eventSequence
  <1>1. ServiceTypeOK
    BY DEF TypeOK
  <1>2. CASE Start \/ InitializeAsync
    <2>1. state \in {"STOPPED", "STARTING"}
      BY <1>2, Zenon DEF Start, StartProcess, Running, InitializeAsync
    <2> QED
      BY <2>1
  <1>3. CASE WorkerReadsGpus \/ WorkerPosts \/ UNCHANGED vars
    <2>1. UNCHANGED serviceVars
      BY <1>3, Zenon DEF WorkerReadsGpus, WorkerPosts, vars
    <2> QED
      BY <1>1, <2>1 DEF serviceVars, ServiceTypeOK
  <1>4. CASE InitialInventoryFails \/ RefreshFails \/ InventoryUnannounceable
    <2>1. SetState("FAILED") \/ Exhausted \/ PlatformEvent \/ NoEvent
      BY <1>4 DEF InitialInventoryFails, RefreshFails, InventoryUnannounceable
    <2> QED
      BY <2>1, ReadinessLost
  <1>5. CASE InventoryPublished
    <2>1. worker.result \in Snapshot
      BY DEF TypeOK
    <2> QED
      BY <1>1, <1>5, <2>1, EventsAreCounted, NextSequenceGrows DEF InventoryPublished
  <1> QED
    BY <1>2, <1>3, <1>4, <1>5, MonitorSteps DEF Next, SystemStep, EnvironmentStep

LEMMA KnowledgeKept ==
    TypeOK /\ KnowledgeBegins /\ TombstonesExact /\ ProviderCounts /\ [Next]_vars
        => KnowledgeBegins' /\ TombstonesExact'
  <1> SUFFICES ASSUME TypeOK, KnowledgeBegins, TombstonesExact, ProviderCounts, [Next]_vars
               PROVE  KnowledgeBegins' /\ TombstonesExact'
    OBVIOUS
  <1>1. CASE Crash
    <2>1. initComplete' = FALSE /\ snapshot' = NoSnapshot /\ disconnected' = {} /\ everServed' = {}
      BY <1>1, Zenon DEF Crash
    <2> QED
      BY <2>1 DEF NoSnapshot, KnowledgeBegins, TombstonesExact
  <1>2. CASE InitialInventoryFails
    <2>1. /\ ~initComplete /\ snapshot' = worker.result /\ ~worker.result.success
          /\ worker.phase = "posted"
          /\ UNCHANGED <<initComplete, disconnected, everServed>>
      BY <1>2, Zenon DEF InitialInventoryFails, Delivers
    <2>2. snapshot' = NoSnapshot
      BY <2>1 DEF ProviderCounts
    <2> QED
      BY <2>1, <2>2 DEF KnowledgeBegins, TombstonesExact, NoSnapshot, TypeOK
  <1>3. CASE InventoryPublished
    <2>1. PICK next \in Snapshot : next = worker.result
      BY DEF TypeOK
    <2>2. /\ state' = "READY" /\ initComplete' = TRUE /\ snapshot' = next
          /\ disconnected' = TombstonesAfter(next) /\ everServed' = everServed \cup next.devices
          /\ next.success = TRUE
      BY <1>3, <2>1, Zenon DEF InventoryPublished, Delivers
    <2>3. KnowledgeBegins'
      BY <2>2 DEF KnowledgeBegins
    <2>4. disconnected' = everServed' \ next.devices
      <3>1. CASE snapshot.success
        BY <2>2, <3>1 DEF TombstonesExact, TombstonesAfter, KnowledgeBegins
      <3>2. CASE ~snapshot.success
        BY <2>2, <3>2 DEF TombstonesAfter, KnowledgeBegins, NoSnapshot
      <3> QED
        BY <3>1, <3>2
    <2> QED
      BY <2>2, <2>3, <2>4 DEF TombstonesExact
  <1>4. CASE UNCHANGED <<snapshot, initComplete, disconnected, everServed>> /\ ~Crash
    <2>1. snapshot.success => state' \in {"READY", "FAILED"}
      BY <1>4, StaysReadyOrFailed DEF KnowledgeBegins
    <2> QED
      BY <1>4, <2>1 DEF KnowledgeBegins, TombstonesExact
  <1> QED
    BY <1>1, <1>2, <1>3, <1>4, SnapshotMoves

LEMMA GenerationsKept ==
    TypeOK /\ StartsLeft /\ ProviderCounts /\ GenerationsTell /\ KnowledgeBegins /\ [Next]_vars
        => GenerationsTell'
  <1> SUFFICES ASSUME TypeOK, StartsLeft, ProviderCounts, GenerationsTell, KnowledgeBegins, [Next]_vars
               PROVE  GenerationsTell'
    OBVIOUS
  <1>1. CASE Crash
    <2>1. snapshot' = NoSnapshot
      BY <1>1, Zenon DEF Crash
    <2> QED
      BY <2>1, NothingIsTyped DEF GenerationsTell
  <1>2. CASE InitialInventoryFails
    <2>1. snapshot' = worker.result /\ ~worker.result.success
      BY <1>2, Zenon DEF InitialInventoryFails, Delivers
    <2> QED
      BY <2>1 DEF GenerationsTell
  <1>3. CASE InventoryPublished
    <2>1. /\ snapshot' = worker.result /\ worker.result.success /\ worker.phase = "posted"
          /\ provider' = provider
      BY <1>3, Zenon DEF InventoryPublished, Delivers
    <2>2. snapshot' = provider.current /\ provider.current.success
      BY <2>1 DEF ProviderCounts
    <2>3. provider.inventory \in Nat /\ provider.capability \in Nat
      BY DEF TypeOK
    <2> QED
      BY <2>1, <2>2, <2>3 DEF GenerationsTell, ProviderCounts, Enumerated
  <1>4. CASE snapshot' = snapshot /\ WorkerPosts
    <2> SUFFICES ASSUME snapshot.success PROVE GenerationsTell'
      BY <1>4 DEF GenerationsTell
    <2>1. /\ provider.inventory \in Nat /\ provider.capability \in Nat
          /\ snapshot.inventory \in Nat /\ snapshot.capability \in Nat
          /\ provider'.inventory \in Nat /\ provider'.capability \in Nat
      BY <1>4, PostedKept DEF TypeOK, Snapshot, ProviderType, StartsLeft
    <2>2. /\ snapshot.inventory <= provider.inventory /\ snapshot.capability <= provider.capability
          /\ Enumerated(snapshot)
          /\ provider.current.success /\ snapshot.inventory = provider.inventory
               => snapshot.devices = provider.current.devices
          /\ snapshot.capability = provider.capability => snapshot.inventory = provider.inventory
      BY DEF GenerationsTell
    <2>3. /\ provider'.inventory >= provider.inventory /\ provider'.capability >= provider.capability
          /\ provider'.current.success /\ provider'.inventory = provider.inventory
                => provider.current.success /\ provider'.current.devices = provider.current.devices
          /\ provider'.capability = provider.capability => provider'.inventory = provider.inventory
      BY <1>4, PostedKept DEF StartsLeft
    <2>4. snapshot.inventory <= provider'.inventory /\ snapshot.capability <= provider'.capability
      BY <2>1, <2>2, <2>3
    <2>5. provider'.current.success /\ snapshot.inventory = provider'.inventory
               => snapshot.devices = provider'.current.devices
      BY <2>1, <2>2, <2>3
    <2>6. snapshot.capability = provider'.capability => snapshot.inventory = provider'.inventory
      BY <2>1, <2>2, <2>3
    <2> QED
      BY <1>4, <2>2, <2>4, <2>5, <2>6 DEF GenerationsTell, Enumerated
  <1>5. CASE snapshot' = snapshot /\ ~WorkerPosts /\ ~Crash
    BY <1>5, PostedStays DEF GenerationsTell, Enumerated
  <1> QED
    BY <1>1, <1>2, <1>3, <1>4, <1>5, SnapshotMoves
-----------------------------------------------------------------------------
(* Refreshes and the observer.                                             *)

RefreshKept == PendingRefreshIsUnderway /\ ClosedReadsReopen /\ ObserverReturns

LEMMA PublishedRefreshes ==
    ASSUME TypeOK, RefreshKept, InventoryPublished
    PROVE  RefreshKept'
  <1>1. /\ JoinWorker /\ monitor' = monitor
        /\ observerAvailable' = (observerAvailable \/ (recoveryPending /\ ~refreshPending))
        /\ recoveryPending' = (recoveryPending /\ ~(recoveryPending /\ ~refreshPending))
    BY Zenon DEF InventoryPublished
  <1>2. ~refreshPending' /\ (refreshPending => worker'.phase # "idle")
    BY <1>1, WorkerJoined
  <1>3. observerAvailable \in BOOLEAN /\ recoveryPending \in BOOLEAN /\ refreshPending \in BOOLEAN
    BY DEF TypeOK
  <1>4. ObserverReturns'
    BY <1>1, <1>3, Zenon DEF RefreshKept, ObserverReturns
  <1>5. ClosedReadsReopen'
    BY <1>1, <1>2, <1>3, <1>4, Zenon DEF RefreshKept, ObserverReturns, ClosedReadsReopen
  <1> QED
    BY <1>2, <1>4, <1>5 DEF RefreshKept, PendingRefreshIsUnderway

LEMMA MonitorRefreshes ==
    ASSUME TypeOK, RefreshKept,
           Hotplug \/ DrainEvents \/ MonitorFails \/ DebounceFires \/ RetrySucceeds \/ RetryFails
    PROVE  RefreshKept'
  <1>1. monitor \in MonitorType
    BY DEF TypeOK, MonitorType
  <1>2. CASE Hotplug \/ DrainEvents
    <2>1. UNCHANGED <<serviceVars, readinessVars, worker>>
      BY <1>2 DEF Hotplug, DrainEvents
    <2>2. monitor'.up = monitor.up /\ monitor'.retry = monitor.retry
      <3>1. CASE Hotplug
        BY <1>1, <3>1 DEF Hotplug, MonitorType
      <3>2. CASE DrainEvents
        <4>1. PICK m : m = [monitor EXCEPT !.hint = FALSE]
          OBVIOUS
        <4>2. m \in MonitorType /\ m.up = monitor.up /\ m.retry = monitor.retry
          BY <1>1, <4>1 DEF MonitorType
        <4>3. monitor' = [m EXCEPT !.debounce = TRUE]
          BY <3>2, <4>1, Zenon DEF DrainEvents
        <4> QED
          BY <4>2, <4>3 DEF MonitorType
      <3> QED
        BY <1>2, <3>1, <3>2
    <2> QED
      BY <2>1, <2>2 DEF RefreshKept, PendingRefreshIsUnderway, ClosedReadsReopen, ObserverReturns,
                        serviceVars, readinessVars
  <1>3. CASE MonitorFails \/ RetryFails
    <2>1. SetObserverUnavailable /\ UNCHANGED <<worker, refreshPending, refreshAvailable>>
      BY <1>3 DEF MonitorFails, RetryFails
    <2>2. ~monitor'.up
      <3>1. CASE MonitorFails
        <4>1. monitor' = [up |-> FALSE, hint |-> FALSE, debounce |-> TRUE, retry |-> TRUE]
          BY <3>1, Zenon DEF MonitorFails
        <4> QED
          BY <4>1
      <3>2. CASE RetryFails
        BY <3>2 DEF RetryFails, RefreshKept, ObserverReturns
      <3> QED
        BY <1>3, <3>1, <3>2
    <2>3. state' = state \/ state' = "FAILED"
      BY <2>1, ObserverLost
    <2> QED
      BY <2>1, <2>2, <2>3 DEF RefreshKept, PendingRefreshIsUnderway, ClosedReadsReopen, ObserverReturns
  <1>4. CASE DebounceFires \/ RetrySucceeds
    <2>1. RequestRefresh /\ UNCHANGED <<state, refreshAvailable, observerAvailable>>
      BY <1>4 DEF DebounceFires, RetrySucceeds, NoEvent, serviceVars
    <2>2. /\ state = "READY" => worker'.phase # "idle"
      BY <2>1, RequestKept
    <2>3. ObserverReturns'
      <3>1. CASE DebounceFires
        <4>1. monitor'.up = monitor.up /\ monitor'.retry = monitor.retry /\ recoveryPending' = recoveryPending
          BY <1>1, <3>1 DEF DebounceFires, MonitorType
        <4> QED
          BY <2>1, <4>1 DEF RefreshKept, ObserverReturns
      <3>2. CASE RetrySucceeds
        <4>1. PICK m : m = [monitor EXCEPT !.up = TRUE]
          OBVIOUS
        <4>2. m \in MonitorType
          BY <1>1, <4>1 DEF MonitorType
        <4>3. monitor' = [m EXCEPT !.retry = FALSE]
          BY <3>2, <4>1, Zenon DEF RetrySucceeds
        <4>4. ~monitor'.retry
          BY <4>2, <4>3 DEF MonitorType
        <4>5. recoveryPending' = TRUE
          BY <3>2, Zenon DEF RetrySucceeds
        <4> QED
          BY <4>4, <4>5 DEF ObserverReturns
      <3> QED
        BY <1>4, <3>1, <3>2
    <2> QED
      BY <2>1, <2>2, <2>3 DEF RefreshKept, PendingRefreshIsUnderway, ClosedReadsReopen, ObserverReturns
  <1> QED
    BY <1>2, <1>3, <1>4

LEMMA RefreshesKept == TypeOK /\ RefreshKept /\ [Next]_vars => RefreshKept'
  <1> SUFFICES ASSUME TypeOK, RefreshKept, [Next]_vars PROVE RefreshKept'
    OBVIOUS
  <1>1. CASE Start
    <2>1. state' = "STARTING"
      BY <1>1, Zenon DEF Start, StartProcess
    <2>2. \/ monitor' = [DownMonitor EXCEPT !.up = TRUE] /\ observerAvailable' = TRUE
          \/ monitor' = [DownMonitor EXCEPT !.retry = TRUE]
      BY <1>1, Zenon DEF Start
    <2>3. monitor'.up => ~monitor'.retry /\ observerAvailable'
      BY <2>2 DEF DownMonitor
    <2> QED
      BY <2>1, <2>3 DEF RefreshKept, PendingRefreshIsUnderway, ClosedReadsReopen, ObserverReturns
  <1>2. CASE InitializeAsync
    <2>1. state' \in {"RECOVERING", "FAILED"} /\ UNCHANGED <<readinessVars, monitor>>
      BY <1>2 DEF InitializeAsync
    <2> QED
      BY <2>1 DEF RefreshKept, PendingRefreshIsUnderway, ClosedReadsReopen, ObserverReturns, readinessVars
  <1>3. CASE Crash
    <2>1. state' = "STOPPED" /\ monitor' = DownMonitor
      BY <1>3, Zenon DEF Crash, StopProcess
    <2> QED
      BY <2>1 DEF RefreshKept, PendingRefreshIsUnderway, ClosedReadsReopen, ObserverReturns, DownMonitor
  <1>4. CASE WorkerReadsGpus \/ WorkerPosts
    <2>1. UNCHANGED <<serviceVars, readinessVars, monitor>>
      BY <1>4 DEF WorkerReadsGpus, WorkerPosts
    <2>2. worker'.phase # "idle"
      <3>1. worker \in WorkerType
        BY DEF TypeOK, WorkerType
      <3>2. \E b \in WorkerType : b.phase # "idle" /\
               ((\E g : worker' = [b EXCEPT !.gpus = g]) \/ (\E r : worker' = [b EXCEPT !.result = r]))
        <4>1. PICK a : a = [worker EXCEPT !.phase = "displays"]
          OBVIOUS
        <4>2. PICK b : b = [worker EXCEPT !.phase = "posted"]
          OBVIOUS
        <4>3. /\ a \in WorkerType /\ a.phase # "idle"
              /\ b \in WorkerType /\ b.phase # "idle"
          BY <3>1, <4>1, <4>2 DEF WorkerType
        <4>4. (\E g : worker' = [a EXCEPT !.gpus = g]) \/ (\E r : worker' = [b EXCEPT !.result = r])
          BY <1>4, <4>1, <4>2, Zenon DEF WorkerReadsGpus, WorkerPosts
        <4> QED
          BY <4>3, <4>4, Zenon
      <3> QED
        BY <3>2 DEF WorkerType
    <2> QED
      BY <2>1, <2>2 DEF RefreshKept, PendingRefreshIsUnderway, ClosedReadsReopen, ObserverReturns,
                        readinessVars, serviceVars
  <1>5. CASE InitialInventoryFails \/ InventoryUnannounceable
    <2>1. state' = "FAILED" /\ UNCHANGED <<observerAvailable, recoveryPending, monitor>>
      BY <1>5, Zenon DEF InitialInventoryFails, InventoryUnannounceable, SetState, Exhausted,
                  FailEventSequenceExhausted
    <2> QED
      BY <2>1 DEF RefreshKept, PendingRefreshIsUnderway, ClosedReadsReopen, ObserverReturns
  <1>6. CASE RefreshFails
    <2>1. UNCHANGED <<observerAvailable, recoveryPending, monitor>>
      BY <1>6 DEF RefreshFails
    <2>2. state' = "FAILED" \/ (refreshAvailable' = FALSE /\ JoinWorker)
      BY <1>6, Zenon DEF RefreshFails, Exhausted, FailEventSequenceExhausted
    <2> QED
      BY <2>1, <2>2, WorkerJoined
      DEF RefreshKept, PendingRefreshIsUnderway, ClosedReadsReopen, ObserverReturns
  <1>7. CASE UNCHANGED vars
    BY <1>7 DEF RefreshKept, PendingRefreshIsUnderway, ClosedReadsReopen, ObserverReturns,
                vars, readinessVars, serviceVars
  <1> QED
    BY <1>1, <1>2, <1>3, <1>4, <1>5, <1>6, <1>7, PublishedRefreshes, MonitorRefreshes
    DEF Next, SystemStep, EnvironmentStep
-----------------------------------------------------------------------------
(* A service that FAILED for lack of numbers.                              *)

LEMMA RoomOnlyShrinks ==
    ASSUME ServiceTypeOK, ServiceTypeOK', eventSequence' >= eventSequence
    PROVE  HasRoomFor(1)' => HasRoomFor(1)
  <1>1. eventSequence \in Nat /\ eventSequence' \in Nat /\ MaxSequence \in Nat
    BY MaxSequenceAssumption DEF ServiceTypeOK
  <1>2. \A a, b, m \in Nat : b >= a /\ b + 1 <= m => a + 1 <= m
    OBVIOUS
  <1>3. eventSequence' + 1 <= MaxSequence => eventSequence + 1 <= MaxSequence
    BY <1>1, <1>2, Zenon
  <1> QED
    BY <1>3 DEF HasRoomFor

LEMMA UnannounceableIsNew ==
    ASSUME TypeOK, ProviderCounts, GenerationsTell, snapshot.success, state = "READY",
           InventoryUnannounceable
    PROVE  ~refreshAvailable \/ recoveryPending \/ snapshot.capability # provider.capability
  <1>1. PICK next \in Snapshot : next = worker.result
    BY DEF TypeOK
  <1>2. next.success /\ next = provider.current /\ ~HasRoomFor(EventsOf(next))
    BY <1>1 DEF InventoryUnannounceable, Delivers, ProviderCounts
  <1>3. EventsOf(next) # 0
    BY <1>2, MaxSequenceAssumption DEF HasRoomFor, TypeOK, ServiceTypeOK
  <1>4. Changed(snapshot.capability, next.capability) \/ Changed(snapshot.inventory, next.inventory)
    BY <1>3, EventsAreCounted
  <1> QED
    BY <1>2, <1>4 DEF Changed, ProviderCounts, GenerationsTell

LEMMA FailedKept == IInv /\ TypeOK' /\ [Next]_vars => FailedForNumbers'
  <1> SUFFICES ASSUME IInv, TypeOK', [Next]_vars, state' = "FAILED", snapshot'.success
               PROVE  FailedForNumbers'
    BY DEF FailedForNumbers
  <1>1. /\ ServiceTypeOK /\ ServiceTypeOK' /\ TypeOK
        /\ ProviderCounts /\ GenerationsTell /\ KnowledgeBegins /\ StartsLeft
    BY DEF IInv, TypeOK
  <1>2. CASE Crash \/ Start \/ InventoryPublished
    BY <1>2, Zenon DEF Crash, Start, StopProcess, StartProcess, InventoryPublished
  <1>3. CASE InitialInventoryFails
    BY <1>3, Zenon DEF InitialInventoryFails, Delivers
  <1>4. CASE InitializeAsync
    <2>1. state = "STARTING" /\ snapshot' = snapshot
      BY <1>4 DEF InitializeAsync
    <2> QED
      BY <1>1, <2>1 DEF KnowledgeBegins
  <1>5. CASE WorkerPosts
    <2>1. UNCHANGED <<serviceVars, snapshot, readinessVars>>
      BY <1>5 DEF WorkerPosts
    <2>2. /\ provider'.capability >= provider.capability
          /\ provider.capability \in Nat /\ provider'.capability \in Nat /\ snapshot.capability \in Nat
      BY <1>1, <1>5, PostedKept DEF StartsLeft, TypeOK, ProviderType, Snapshot
    <2>3. snapshot.capability # provider.capability => snapshot.capability # provider'.capability
      BY <1>1, <2>1, <2>2 DEF GenerationsTell
    <2> QED
      BY <2>1, <2>3 DEF IInv, FailedForNumbers, HasRoomFor, serviceVars, readinessVars
  <1>6. CASE WorkerReadsGpus \/ UNCHANGED vars
    <2>1. UNCHANGED <<serviceVars, snapshot, readinessVars, provider>>
      BY <1>6 DEF WorkerReadsGpus, vars
    <2> QED
      BY <2>1 DEF IInv, FailedForNumbers, HasRoomFor, serviceVars, readinessVars
  <1>7. CASE RefreshFails
    <2>1. CASE ~HasRoomFor(1) /\ Exhausted
      BY <1>1, <2>1, RoomOnlyShrinks DEF Exhausted, FailEventSequenceExhausted, FailedForNumbers,
                                         ServiceTypeOK
    <2>2. CASE refreshAvailable' = FALSE
      BY <2>2 DEF FailedForNumbers
    <2> QED
      BY <1>7, <2>1, <2>2, Zenon DEF RefreshFails
  <1>8. CASE InventoryUnannounceable
    <2>1. UNCHANGED <<snapshot, refreshAvailable, observerAvailable, recoveryPending, provider,
                      eventSequence>>
      BY <1>8 DEF InventoryUnannounceable, Exhausted, FailEventSequenceExhausted
    <2>2. CASE state = "READY"
      BY <1>1, <1>8, <2>1, <2>2, UnannounceableIsNew DEF FailedForNumbers
    <2>3. CASE state = "FAILED"
      BY <2>1, <2>3 DEF IInv, FailedForNumbers, HasRoomFor
    <2> QED
      BY <1>1, <2>1, <2>2, <2>3 DEF KnowledgeBegins
  <1>9. CASE MonitorFails \/ RetryFails
    <2>1. SetObserverUnavailable /\ UNCHANGED <<snapshot, refreshAvailable, provider>>
      BY <1>9 DEF MonitorFails, RetryFails
    <2>2. /\ eventSequence' >= eventSequence
          /\ observerAvailable' => observerAvailable
          /\ recoveryPending /\ ~recoveryPending' => ~observerAvailable'
          /\ state' = state \/ ~HasRoomFor(1)
      BY <1>1, <2>1, ObserverLost
    <2>3. CASE ~HasRoomFor(1)
      BY <1>1, <2>2, <2>3, RoomOnlyShrinks DEF FailedForNumbers
    <2>4. CASE state' = state /\ HasRoomFor(1)
      BY <2>1, <2>2, <2>4 DEF IInv, FailedForNumbers
    <2> QED
      BY <2>2, <2>3, <2>4
  <1>10. CASE Hotplug \/ DrainEvents \/ DebounceFires \/ RetrySucceeds
    <2>1. /\ UNCHANGED <<serviceVars, snapshot, refreshAvailable, observerAvailable, provider>>
          /\ recoveryPending => recoveryPending'
      <3>1. CASE Hotplug \/ DrainEvents
        <4>1. UNCHANGED <<serviceVars, snapshot, readinessVars, provider>>
          BY <3>1, Zenon DEF Hotplug, DrainEvents
        <4> QED
          BY <4>1 DEF readinessVars
      <3>2. CASE DebounceFires \/ RetrySucceeds
        <4>1. recoveryPending => recoveryPending'
          BY <3>2, Zenon DEF DebounceFires, RetrySucceeds
        <4>2. UNCHANGED <<serviceVars, snapshot, refreshAvailable, observerAvailable, provider>>
          BY <3>2, Zenon DEF DebounceFires, RetrySucceeds, NoEvent
        <4> QED
          BY <4>1, <4>2, Zenon
      <3> QED
        BY <1>10, <3>1, <3>2
    <2> QED
      BY <2>1 DEF IInv, FailedForNumbers, HasRoomFor, serviceVars
  <1> QED
    BY <1>2, <1>3, <1>4, <1>5, <1>6, <1>7, <1>8, <1>9, <1>10 DEF Next, SystemStep, EnvironmentStep
-----------------------------------------------------------------------------
(* The invariant.                                                          *)

LEMMA InitInv == Init => IInv
  <1> SUFFICES ASSUME Init PROVE IInv
    OBVIOUS
  <1>1. /\ snapshot = NoSnapshot /\ initComplete = FALSE /\ refreshPending = FALSE
        /\ observerAvailable = TRUE /\ disconnected = {} /\ everServed = {}
        /\ worker = IdleWorker /\ provider = NewProvider /\ state = "STOPPED"
    BY Zenon DEF Init
  <1>2. KnowledgeBegins /\ TombstonesExact /\ GenerationsTell /\ FailedForNumbers
    <2>1. ~snapshot.success /\ initComplete = snapshot.success
      BY <1>1 DEF NoSnapshot
    <2> QED
      BY <1>1, <2>1 DEF KnowledgeBegins, TombstonesExact, GenerationsTell, FailedForNumbers
  <1>3. ProviderCounts
    BY <1>1, NothingIsTyped DEF ProviderCounts
  <1>4. PendingRefreshIsUnderway /\ ClosedReadsReopen
    BY <1>1 DEF PendingRefreshIsUnderway, ClosedReadsReopen
  <1>5. ObserverReturns
    <2>1. monitor = DownMonitor
      BY Zenon DEF Init
    <2> QED
      BY <2>1 DEF DownMonitor, ObserverReturns
  <1> QED
    BY <1>2, <1>3, <1>4, <1>5, InitTyped DEF IInv

LEMMA InvKept == IInv /\ [Next]_vars => IInv'
  <1> SUFFICES ASSUME IInv, [Next]_vars PROVE IInv'
    OBVIOUS
  <1>1. TypeOK' /\ StartsLeft'
    BY TypeKept DEF IInv
  <1>2. ProviderCounts' /\ GenerationsTell'
    BY ProviderCountsKept, GenerationsKept DEF IInv
  <1>3. KnowledgeBegins' /\ TombstonesExact'
    BY KnowledgeKept DEF IInv
  <1>4. RefreshKept'
    BY RefreshesKept DEF IInv, RefreshKept
  <1>5. FailedForNumbers'
    BY <1>1, FailedKept
  <1> QED
    BY <1>1, <1>2, <1>3, <1>4, <1>5 DEF IInv, RefreshKept

LEMMA InvHolds == Spec => []IInv
  BY InitInv, InvKept, PTL DEF Spec

\* With any devices, limits and failures: the types, and no refresh that is
\* due is forgotten, neither one asked for while another runs nor the one
\* that reopens the reads (requestHardwareInventoryRefresh,
\* publishHardwareInitialization).
THEOREM NoRefreshIsForgotten == Spec => []RefreshInvariant
  BY InvHolds, PTL DEF IInv, RefreshInvariant

\* The disconnected subjects are exactly those this incarnation published
\* and does not list (disconnectedHardwareSubjects_).
THEOREM TombstonesAreExact == Spec => []TombstonesExact
  BY InvHolds, PTL DEF IInv

\* What reads hand out lists a CPU package, has generations, and the GPU of
\* each display, however the machine changed between the two enumerations
\* (composeEvidence).
THEOREM EverySnapshotIsCoherent == Spec => []SnapshotsAreCoherent
  <1>1. IInv => SnapshotsAreCoherent
    BY DEF IInv, GenerationsTell, Enumerated, SnapshotsAreCoherent
  <1> QED
    BY <1>1, InvHolds, PTL
-----------------------------------------------------------------------------
(* Generations.                                                            *)

\* The result a publication takes is what the provider has.
LEMMA PublishedIsCurrent ==
    ASSUME IInv, Delivers(TRUE)
    PROVE  worker.result = provider.current /\ provider.current.success
  BY DEF IInv, ProviderCounts, Delivers

\* Within an incarnation a generation stands for one inventory and never
\* goes back, whatever failed in between (LinuxHardware1InventoryProvider).
THEOREM GenerationsStandForContent == Spec => GenerationsIdentifyContent
  <1> DEFINE Step == Running' /\ snapshot.success /\ snapshot'.success =>
                       /\ snapshot'.inventory >= snapshot.inventory
                       /\ snapshot'.capability >= snapshot.capability
                       /\ snapshot'.inventory = snapshot.inventory
                            => snapshot'.devices = snapshot.devices
  <1>1. IInv /\ [Next]_vars => Step
    <2> SUFFICES ASSUME IInv, [Next]_vars, Running', snapshot.success, snapshot'.success
                 PROVE  /\ snapshot'.inventory >= snapshot.inventory
                        /\ snapshot'.capability >= snapshot.capability
                        /\ snapshot'.inventory = snapshot.inventory
                             => snapshot'.devices = snapshot.devices
      OBVIOUS
    <2>1. TypeOK /\ snapshot.inventory \in Nat /\ snapshot.capability \in Nat
      BY DEF IInv, TypeOK, Snapshot
    <2>2. CASE snapshot' = snapshot
      BY <2>1, <2>2
    <2>3. CASE Crash
      BY <2>3, Zenon DEF Crash, StopProcess, Running
    <2>4. CASE InitialInventoryFails
      BY <2>4, Zenon DEF InitialInventoryFails, Delivers
    <2>5. CASE InventoryPublished
      <3>1. snapshot' = provider.current /\ provider.current.success
        BY <2>5, PublishedIsCurrent, Zenon DEF InventoryPublished
      <3> QED
        BY <3>1 DEF IInv, GenerationsTell, ProviderCounts
    <2> QED
      BY <2>1, <2>2, <2>3, <2>4, <2>5, SnapshotMoves
  <1> QED
    BY <1>1, InvHolds, PTL DEF Spec, GenerationsIdentifyContent
-----------------------------------------------------------------------------
(* What readers see change.                                                *)

\* No step but a publication opens the reads or changes what they answer,
\* and one that closes them says so.
LEMMA ReadsCloseAloud ==
    ASSUME IInv, [Next]_vars, ~InventoryPublished
    PROVE  /\ ReadsOk' => ReadsOk /\ UNCHANGED <<snapshot, disconnected>>
           /\ ReadsOk /\ ~ReadsOk' /\ Running' /\ ~quitting'
                => Platform \in named' /\ eventSequence' > eventSequence
  <1>1. TypeOK /\ ServiceTypeOK /\ KnowledgeBegins
    BY DEF IInv, TypeOK
  <1>2. CASE Start \/ InitializeAsync \/ Crash
    <2>1. CASE Crash
      BY <2>1, Zenon DEF Crash, StopProcess, ReadsOk, Running
    <2>2. CASE Start \/ InitializeAsync
      <3>1. state \in {"STOPPED", "STARTING"} /\ state' \in {"STARTING", "RECOVERING", "FAILED"}
        BY <2>2, Zenon DEF Start, StartProcess, Running, InitializeAsync
      <3> QED
        BY <3>1 DEF ReadsOk
    <2> QED
      BY <1>2, <2>1, <2>2
  <1>3. CASE WorkerReadsGpus \/ WorkerPosts \/ UNCHANGED vars
    <2>1. UNCHANGED <<serviceVars, snapshot, readinessVars, disconnected>>
      BY <1>3, Zenon DEF WorkerReadsGpus, WorkerPosts, vars
    <2> QED
      BY <2>1 DEF ReadsOk, serviceVars, readinessVars
  <1>4. CASE InitialInventoryFails
    <2>1. ~initComplete /\ snapshot' = worker.result /\ ~worker.result.success
      BY <1>4, Zenon DEF InitialInventoryFails, Delivers
    <2> QED
      BY <1>1, <2>1 DEF KnowledgeBegins, ReadsOk
  <1>5. CASE InventoryUnannounceable
    <2>1. state' = "FAILED" /\ quitting'
      BY <1>5, Zenon DEF InventoryUnannounceable, Exhausted, FailEventSequenceExhausted
    <2> QED
      BY <2>1 DEF ReadsOk
  <1>6. CASE RefreshFails
    <2>1. CASE Exhausted
      <3>1. state' = "FAILED" /\ quitting'
        BY <2>1, Zenon DEF Exhausted, FailEventSequenceExhausted
      <3> QED
        BY <3>1 DEF ReadsOk
    <2>2. CASE refreshAvailable /\ HasRoomFor(1) /\ refreshAvailable' = FALSE /\ PlatformEvent
      <3>1. Platform \in named' /\ eventSequence' > eventSequence
        BY <1>1, <2>2, NextSequenceGrows, 1 \in Nat DEF PlatformEvent
      <3> QED
        BY <2>2, <3>1 DEF ReadsOk
    <2>3. CASE ~refreshAvailable /\ refreshAvailable' = FALSE
      BY <2>3 DEF ReadsOk
    <2> QED
      BY <1>6, <2>1, <2>2, <2>3, Zenon DEF RefreshFails
  <1>7. CASE MonitorFails \/ RetryFails
    <2>1. SetObserverUnavailable /\ UNCHANGED <<snapshot, refreshAvailable, disconnected>>
      BY <1>7 DEF MonitorFails, RetryFails
    <2>2. /\ observerAvailable' => observerAvailable
          /\ state' = state \/ state' = "FAILED"
          /\ ~quitting' /\ ReadsOk => Platform \in named' /\ eventSequence' > eventSequence
      BY <1>1, <2>1, ObserverLost
    <2>3. ReadsOk' => ReadsOk
      BY <2>1, <2>2 DEF ReadsOk
    <2> QED
      BY <2>1, <2>2, <2>3
  <1>8. CASE Hotplug \/ DrainEvents \/ DebounceFires \/ RetrySucceeds
    <2>1. UNCHANGED <<state, snapshot, refreshAvailable, observerAvailable, disconnected>>
      <3>1. CASE Hotplug \/ DrainEvents
        <4>1. UNCHANGED <<serviceVars, snapshot, readinessVars, disconnected>>
          BY <3>1, Zenon DEF Hotplug, DrainEvents
        <4> QED
          BY <4>1 DEF serviceVars, readinessVars
      <3>2. CASE DebounceFires \/ RetrySucceeds
        BY <3>2 DEF DebounceFires, RetrySucceeds, NoEvent, serviceVars
      <3> QED
        BY <1>8, <3>1, <3>2
    <2> QED
      BY <2>1 DEF ReadsOk
  <1> QED
    BY <1>2, <1>3, <1>4, <1>5, <1>6, <1>7, <1>8 DEF Next, SystemStep, EnvironmentStep

\* A publication that has no new capability generation to tell shows
\* readers what they saw.
LEMMA QuietPublication ==
    ASSUME IInv, InventoryPublished, ~Changed(snapshot.capability, worker.result.capability)
    PROVE  UNCHANGED <<snapshot, disconnected>> /\ ReadsOk' = ReadsOk
  <1>1. TypeOK /\ ServiceTypeOK /\ MaxSequence \in Nat
    BY MaxSequenceAssumption DEF IInv, TypeOK
  <1>2. PICK next \in Snapshot : next = worker.result
    BY <1>1 DEF TypeOK
  <1>3. next = provider.current /\ next.success
    BY <1>2, PublishedIsCurrent DEF InventoryPublished
  <1>4. /\ snapshot.success /\ refreshAvailable /\ ~recoveryPending
        /\ snapshot.capability = next.capability
    BY <1>2 DEF Changed
  <1>5. snapshot.inventory = next.inventory /\ snapshot.devices = next.devices
    BY <1>3, <1>4 DEF IInv, ProviderCounts, GenerationsTell
  <1>6. snapshot' = snapshot
    <2>1. snapshot' = next /\ snapshot \in Snapshot
      BY <1>1, <1>2, Zenon DEF InventoryPublished, TypeOK
    <2>2. snapshot = next
      BY <1>3, <1>4, <1>5, <2>1 DEF Snapshot
    <2> QED
      BY <2>1, <2>2
  <1>7. disconnected' = disconnected
    <2>1. disconnected' = (disconnected \cup snapshot.devices) \ next.devices
      BY <1>2, Zenon DEF InventoryPublished, TombstonesAfter
    <2>2. disconnected = everServed \ snapshot.devices
      BY <1>4 DEF IInv, TombstonesExact
    <2> QED
      BY <1>5, <2>1, <2>2
  <1>8. /\ state' = "READY" /\ refreshAvailable' = TRUE /\ observerAvailable' = observerAvailable
    <2>1. observerAvailable' = (observerAvailable \/ (recoveryPending /\ ~refreshPending))
      BY Zenon DEF InventoryPublished
    <2>2. observerAvailable' = observerAvailable
      BY <1>1, <1>4, <2>1, Zenon DEF TypeOK
    <2> QED
      BY <2>2, Zenon DEF InventoryPublished
  <1>9. observerAvailable => state = "READY"
    <2> SUFFICES ASSUME observerAvailable, state # "READY" PROVE FALSE
      OBVIOUS
    <2>1. state = "FAILED"
      BY <1>4 DEF IInv, KnowledgeBegins
    <2>2. ~HasRoomFor(1)
      BY <1>3, <1>4, <2>1 DEF IInv, FailedForNumbers, ProviderCounts
    <2>3. EventsOf(next) \in Nat /\ EventsOf(next) > 0
      BY <1>1, <2>1, EventsAreCounted
    <2>4. HasRoomFor(EventsOf(next))
      BY <1>2 DEF InventoryPublished
    <2>5. PICK n \in Nat : n = EventsOf(next)
      BY <2>3
    <2>6. n > 0 /\ eventSequence + n <= MaxSequence /\ ~(eventSequence + 1 <= MaxSequence)
      BY <2>2, <2>3, <2>4, <2>5 DEF HasRoomFor
    <2>7. eventSequence \in Nat
      BY <1>1 DEF ServiceTypeOK
    <2>8. \A a, b, m \in Nat : b > 0 /\ a + b <= m => a + 1 <= m
      OBVIOUS
    <2> QED
      BY <1>1, <2>6, <2>7, <2>8, Zenon
  <1>10. ReadsOk' <=> observerAvailable
    BY <1>4, <1>6, <1>8 DEF ReadsOk
  <1>11. ReadsOk <=> observerAvailable
    BY <1>4, <1>9 DEF ReadsOk
  <1> QED
    BY <1>6, <1>7, <1>10, <1>11 DEF ReadsOk

\* Any other publication names all that was and is known, and the platform.
LEMMA LoudPublication ==
    ASSUME IInv, InventoryPublished, Changed(snapshot.capability, worker.result.capability)
    PROVE  /\ snapshot.devices \cup snapshot'.devices \cup {Platform} \subseteq named'
           /\ eventSequence' > eventSequence
           /\ disconnected' = (disconnected \cup snapshot.devices) \ snapshot'.devices
  <1>1. TypeOK /\ ServiceTypeOK
    BY DEF IInv, TypeOK
  <1>2. PICK next \in Snapshot : next = worker.result
    BY <1>1 DEF TypeOK
  <1>3. /\ snapshot' = next
        /\ named' = InventorySubjects(next) \cup CapabilitySubjects(next)
        /\ disconnected' = TombstonesAfter(next)
        /\ eventSequence' = NextSequence(EventsOf(next))
        /\ HasRoomFor(EventsOf(next))
    BY <1>2, Zenon DEF InventoryPublished
  <1>4. CapabilitySubjects(next) = snapshot.devices \cup next.devices \cup {Platform}
    BY <1>2 DEF CapabilitySubjects
  <1>5. EventsOf(next) \in Nat /\ EventsOf(next) > 0
    BY <1>1, <1>2, EventsAreCounted
  <1>6. eventSequence' > eventSequence
    BY <1>1, <1>3, <1>5, NextSequenceGrows
  <1> QED
    BY <1>3, <1>4, <1>6 DEF TombstonesAfter

\* The event cursor identifies what reads answer as long as the process
\* lives and is not giving up: a client that has seen all events up to the
\* cursor of its copy has the current answer (hardwareReply,
\* publishHardwareInitialization).
THEOREM CursorIdentifiesAnswers == Spec => CursorIdentifiesSnapshot
  <1>1. ASSUME IInv, [Next]_vars, Running', ~quitting', Served' # Served
        PROVE  eventSequence' > eventSequence
    <2>1. CASE InventoryPublished /\ Changed(snapshot.capability, worker.result.capability)
      BY <1>1, <2>1, LoudPublication
    <2>2. CASE InventoryPublished /\ ~Changed(snapshot.capability, worker.result.capability)
      <3>1. UNCHANGED <<snapshot, disconnected>> /\ ReadsOk' = ReadsOk
        BY <1>1, <2>2, QuietPublication
      <3> QED
        BY <1>1, <3>1, Zenon DEF Served
    <2>3. CASE ~InventoryPublished /\ ReadsOk'
      <3>1. ReadsOk /\ UNCHANGED <<snapshot, disconnected>>
        BY <1>1, <2>3, ReadsCloseAloud
      <3> QED
        BY <1>1, <2>3, <3>1, Zenon DEF Served
    <2>4. CASE ~InventoryPublished /\ ~ReadsOk'
      <3>1. ReadsOk
        BY <1>1, <2>4 DEF Served, NoSnapshot
      <3> QED
        BY <1>1, <2>4, <3>1, ReadsCloseAloud
    <2> QED
      BY <2>1, <2>2, <2>3, <2>4
  <1>2. IInv /\ [Next]_vars =>
          [Running' /\ ~quitting' /\ Served' # Served => eventSequence' > eventSequence]_vars
    BY <1>1
  <1> QED
    BY <1>2, InvHolds, PTL DEF Spec, CursorIdentifiesSnapshot

\* Whenever the answer about a subject changes between open states, the
\* events name it; when the reads close they name the platform, and when
\* they open again everything: readers that ask again about what the events
\* name miss nothing.
THEOREM ReadersHearOfChanges == Spec => ChangesAreNamed
  <1> DEFINE Tells == /\ ReadsOk /\ ReadsOk' =>
                           \A s \in Subjects : AnswerFor(s)' # AnswerFor(s) => s \in named'
                      /\ ReadsOk /\ ~ReadsOk' /\ Running' /\ ~quitting' => Platform \in named'
             Reopens == ~ReadsOk /\ ReadsOk' =>
                           snapshot.devices \cup snapshot'.devices \cup {Platform} \subseteq named'
  <1>1. ASSUME IInv, [Next]_vars PROVE Tells /\ Reopens
    <2>1. CASE InventoryPublished /\ Changed(snapshot.capability, worker.result.capability)
      <3>1. /\ snapshot.devices \cup snapshot'.devices \cup {Platform} \subseteq named'
            /\ disconnected' = (disconnected \cup snapshot.devices) \ snapshot'.devices
        BY <1>1, <2>1, LoudPublication
      <3>2. ASSUME ReadsOk, ReadsOk', NEW s \in Subjects, s \notin named'
            PROVE  AnswerFor(s)' = AnswerFor(s)
        <4>1. s \notin snapshot.devices /\ s \notin snapshot'.devices
          BY <3>1, <3>2
        <4>2. s \in disconnected' <=> s \in disconnected
          BY <3>1, <4>1
        <4>3. AnswerFor(s) = IF s \in disconnected THEN "DEVICE_DISCONNECTED" ELSE "NOT_FOUND"
          BY <3>2, <4>1 DEF AnswerFor
        <4>4. AnswerFor(s)' = IF s \in disconnected' THEN "DEVICE_DISCONNECTED" ELSE "NOT_FOUND"
          BY <3>2, <4>1 DEF AnswerFor
        <4> QED
          BY <4>2, <4>3, <4>4
      <3> QED
        BY <3>1, <3>2
    <2>2. CASE InventoryPublished /\ ~Changed(snapshot.capability, worker.result.capability)
      <3>1. UNCHANGED <<snapshot, disconnected>> /\ ReadsOk' = ReadsOk
        BY <1>1, <2>2, QuietPublication
      <3>2. \A s \in Subjects : AnswerFor(s)' = AnswerFor(s)
        BY <3>1 DEF AnswerFor
      <3> QED
        BY <3>1, <3>2
    <2>3. CASE ~InventoryPublished
      <3>1. /\ ReadsOk' => ReadsOk /\ UNCHANGED <<snapshot, disconnected>>
            /\ ReadsOk /\ ~ReadsOk' /\ Running' /\ ~quitting' => Platform \in named'
        BY <1>1, <2>3, ReadsCloseAloud
      <3>2. ReadsOk' => \A s \in Subjects : AnswerFor(s)' = AnswerFor(s)
        BY <3>1 DEF AnswerFor
      <3> QED
        BY <3>1, <3>2
    <2> QED
      BY <2>1, <2>2, <2>3
  <1>2. Spec => ChangedSubjectsAreNamed
    BY <1>1, InvHolds, PTL DEF Spec, ChangedSubjectsAreNamed
  <1>3. Spec => ReopeningNamesEverything
    BY <1>1, InvHolds, PTL DEF Spec, ReopeningNamesEverything
  <1> QED
    BY <1>2, <1>3, PTL DEF ChangesAreNamed
=============================================================================
