# Formal model of the Adrenalin Linux session service

The repository is a desktop control panel for AMD GPUs on Linux. Its own
logic is not in the QML front end but in `adrenalin-sessiond`, the per-user
D-Bus service (`sessiond/`), in the contracts and clients that talk to it
(`interfaces/`) and in the shared-memory telemetry ring. This directory models
that logic in TLA+, model-checks it with TLC and proves part of it with TLAPS.
Paths in this file are relative to the root of the repository.

## 1. The system

### Components, their state and operations

| Component | State it keeps | Operations that change it | Model |
|---|---|---|---|
| Settings1 and Notifications1 mutations (`session_service.cpp`, `session_database.cpp`) | SQLite: two preferences with revisions, notification list and its revision, two operation tables, schema version | `setProductTelemetryConsent`, `setToastNotifications`, `markRead`, database initialization and migration | `SessionPreferences` |
| Service lifecycle and event numbering (`session_service.cpp`, `main.cpp`) | `state_`, `eventSequence_`, service generation (also on disk), quit request | start, `setState`, `nextEventSequence`, `failEventSequenceExhausted`, exit | `SessionEvents`, used by the three modules of the daemon |
| Hardware publication (`session_service.cpp`, `linux_hardware1_inventory_provider.cpp`, `drm_udev_monitor.cpp`) | published snapshot, tombstones, availability flags, worker thread, provider generations, udev socket and timers | enumeration on the worker, publication on the event loop, refresh requests, loss and recovery of the monitor | `HardwareSession` |
| Telemetry1 ring (`telemetry1_ring.cpp`, `telemetry1_abi_v1.h`) | two slots of five atomic fields under a sequence guard, in shared memory | attach, publish, read | `TelemetryRing` |
| Profiles1 storage (`session_service.cpp`, `session_database.cpp`) | SQLite: profiles and their settings with revisions, operation table | `updateProfile` | `SessionProfiles` |
| Readiness client (`service_readiness_client.cpp`) | copy of the service identity and state, last event, one request in flight, owner epoch | owner change, event, `GetAll` answer, `refresh` | `ServiceReadinessClient` over `SessionBus` |
| Toast client (`toast_notifications_client.cpp`) | copy of the preference, one request in flight, one undecided change with its operation ID | owner change, two kinds of events, answers to reads and writes, `setEnabled` | `ToastNotificationsClient` over `PreferenceService` |
| Settings and Notifications1 clients (`settings1_client.cpp`, `notifications1_client.cpp`) | as the toast client, and a retry timer; the notification list as of a revision | the same; `setProductTelemetryConsent`, `markRead`, `refresh`, the timer | `SettingsClient`, `NotificationsClient`, composed in `PreferenceClients` |
| Profiles1, Hardware1 and Display1 clients (`profiles1_client.cpp`, `hardware1_client.cpp`, `display1_client.cpp`) | a snapshot with the cursor it was read under, event identity, one request (or chain of requests) in flight, owner epoch | owner change, events, answers, `refresh` | `ProfilesClient`, `HardwareClient`, `DisplayClient`, composed in `SnapshotClients` |
| Hotkeys1 client | bindings; the daemon exports no Hotkeys1 | – | not modelled, see section 7 |
| Telemetry1 event cursor | last accepted event | gap and duplicate rule | not modelled, see section 7 |
| Contracts, validation, mocks, enumeration sources, QML, tools, build | none that outlives a call, or presentation | – | not modelled, see section 7 |

### How they interact

* Every mutation of the service runs on its event loop: it opens one SQLite
  transaction, commits, draws event numbers, emits the signals and answers. A
  process can be killed between the commit and the signals or the answer.
* Every published event carries the identity (instance UUID, service
  generation) and one shared event sequence. Reads carry the same cursor, so a
  client can tell whether its copy contains an event.
* Enumeration of devices runs on a worker thread and comes back as a queued
  call; the udev monitor asks for refreshes while one may be running.
* Clients keep a copy, advance it by events that follow without a gap, and drop
  and re-read it otherwise. The toast, settings and notifications clients own a
  readiness client, which listens to the same signals on the same connection;
  which of the two handles a signal first is not fixed. The profile, hardware
  and display clients have none and watch the owner of the bus name themselves.
* The bus activates the service for a call that finds no owner, reports owner
  changes and drops signals for slow readers. A client gives up on a call while
  the call itself is still on its way.
* The telemetry producer and its readers share memory and nothing else.

### What is hard about it, and what correct means

| Behaviour | Correct when |
|---|---|
| kill between commit, events and answer; retry against the next incarnation | an operation ID takes effect once and has one result, tables agree with each other, revisions never go back |
| the event sequence reaches its end | no number is used twice, nothing is committed that cannot be announced, the process ends |
| hotplug during enumeration, during recovery or while nobody observes | the answer finally given is what is plugged in, or reads are closed |
| the monitor fails and comes back around a refresh | closed reads reopen, and only with an inventory that all clients are told to re-read |
| GPUs and displays are read one after the other | an inventory that mixes two moments is rejected, and a stale one is followed by a fresh one |
| lost signals, late answers, provisional generation, restart during a request | a copy under a current cursor is current; a client never waits for an answer that cannot come |
| timeout of a change that is applied all the same | the retry is recognised, the user is told the truth, nothing takes effect later |
| a profile patched by two callers who read the same revision, with retries and kills | every revision is the work of one operation, no patch is lost, a repeated call hears its first verdict |
| several replies make one copy (graph, displays, the state of each), with publications in between | a copy is of one content, or it is not shown |
| readiness dropped and restored, reads that fail, a timer that fires late | the client comes back by itself and never reads twice at a time |
| torn reads of a slot, producer death inside a publication | a reader accepts whole samples only, the last one stays readable |

`PROJECT.json` lists these as hazards, each at its line, with the properties
that cover it.

## 2. Modules

* **`SessionEvents`** – the lifecycle and event numbering shared by the three
  service modules: `SetState`, `NextSequence`, `FailEventSequenceExhausted`,
  start and stop of the process.
* **`SessionPreferences`** – mutations with their tables. One action per
  outcome of a mutation that changes something (applied, replayed, refused for
  lack of event numbers), each the whole handler: transaction, events, answer,
  with the kill after the commit as an alternative. Callers are unrestricted:
  any operation ID with any arguments at any time. Refusals that change nothing
  (`CONFLICT`, `STALE_REVISION`, `IO_ERROR`, ...) are stuttering steps.
  `emitted`, `acked` and `migrated` are history variables.
* **`IdempotentRegister`** – the abstract specification: a versioned value that
  each operation ID changes at most once. It knows no crash, transaction or
  event. `SessionPreferences` implements it twice, by the refinement mappings
  `ConsentRegister` (every write counts) and `ToastRegister` (only changes
  count, `CountsEveryWrite <- FALSE`).
* **`SessionProfiles`** – `updateProfile` with the profile and operation tables.
  Unlike the other mutations it also records refusals (`NOT_FOUND`,
  `STALE_REVISION`) and successes without a change, and answers a repetition
  with them, so these are actions of their own. The code settles on a refusal
  before it writes the record and answers it also when the record cannot be
  written (`RefusesUnrecorded`, at most `MaxUnrecorded` times; `unrecorded`
  counts them). Only calls that neither record nor refuse stutter. Settings are
  partial functions, patches are merged into them.
* **`HardwareSession`** – startup, worker, provider, monitor, publication and
  reads. The worker is a program counter (`idle`, `gpus`, `displays`,
  `posted`); the two enumerations are two steps between which the machine may
  change. `InventoryPublished` is all of `publishHardwareInitialization`: the
  comparison with the previous snapshot, tombstones, readiness, the events in
  order and the start of a pending refresh. `Served` and `AnswerFor` are what
  reads hand out.
* **`TelemetryRing`** – each atomic load and each store is one step, since all
  of them are sequentially consistent in the code; the producer may die before
  any of them and another attach.
* **`SessionBus`** – the bus and the service as a client process sees them:
  owner changes, ordered calls and messages, activation and its failure,
  timeouts, dropped signals, kill. The service side is what `SessionPreferences`
  and `HardwareSession` have in detail. A signal stands in `inbox` until each
  object of the process that listens has handled it (`to`), so the objects see
  it in any order, with calls of the user in between.
* **`ServiceReadinessClient`** – one operator per handler, which maps the
  members of the object to their next value and the calls it makes, in the order
  of the code's early returns; an action applies the handler to the next
  message. The clients below are written the same way.
* **`PreferenceService`** – what the three preference clients have in common:
  the service side of reads and writes, announcements, the owned readiness
  client, and the properties all three share. The stored preference is
  `IdempotentRegister`, which `SessionPreferences` is shown (and proved) to
  implement; a client is thus checked against the abstraction and the service
  is checked against it on its own. For the notifications client the value is
  the number of unread entries. `resolved` is a history variable: what the user
  was told.
* **`ToastNotificationsClient`**, **`SettingsClient`**, **`NotificationsClient`** –
  the handlers of each client. They look alike and differ where it matters: the
  toast client keeps a change with its operation ID until the service has
  decided it, drops its copy with every attempt and makes the next one after a
  read has succeeded, without a timer; the settings client retries reads and
  writes by a timer; the notifications client copies a list under a revision and
  compares identities with the readiness client. `PreferenceClients` runs the latter two.
* **`ProfilesClient`**, **`HardwareClient`**, **`DisplayClient`** – the handlers
  of the clients that copy a snapshot; `SnapshotClients` has the service they
  read from, whose contents are numbered, and runs one of them. The program may
  call `refresh()` at any time (`UserRefreshes`), also while the client has a
  copy or reads already. A display client's copy takes one call for the displays
  and one for the state of each.
* **`MC*`** – model values, listeners and combinations of limits for TLC.
* **`*Proofs`** – see section 5.

Correspondence of every definition to source lines is in `PROJECT.json`
(`map`). Definitions whose comment starts with "Mutant" are deliberate errors,
used to see that a property notices them; no specification uses them.

## 3. What the runs show

| Run | Question | Bounds |
|---|---|---|
| `preferences` | do tables, notifications, answers and events agree under retries, ID reuse, kills, migration and exhaustion; does each preference implement the register? | two operation IDs (symmetric), revisions to 4, events to 6, one batch of two hardware events |
| `profiles` | are profiles what the accepted patches made them, has every operation one verdict on record, do the events name the revisions one by one? | three operation IDs and two subjects (both symmetric), two keys, three patches (one of them empty), one refusal without a record, revisions to 2, events to 4 |
| `hardware` | tombstones, coherence, pending refreshes, reopening, cursor, named subjects, generations; does the served inventory become the real one, does startup end? | one GPU, one display, one CPU package, two hotplugs, one failed enumeration, two monitor failures, 18 events, generation 3 |
| `telemetry_ring` | torn, lost or wrapped samples | one reader, words of 0..9, a producer that dies anywhere |
| `toast_client` | is a change applied once and reported truthfully, is a request never waited for in vain, does the client settle? | five combinations of limits, below |
| `preference_clients` | the same for the settings and the notifications client and their retry timers; is the copy of readiness right and does it converge? | three combinations of limits |
| `snapshot_clients` | is a profile, device or display copy under the cursor of the last event what a read would answer; does exactly one chain of reads go on; does the copy converge? | four combinations of limits, each for all three clients |
| `ready_generation`, `unobserved_reads`, `notifications_away`, `cold_profiles`, `profile_refusals` | five statements of the documents that the code does not keep (section 6) | enough for the shortest counterexample |

The client runs bound what may happen by combinations of limits, of which a
behaviour has one. Bounding everything at once by the largest number of each
would be much larger and would mostly combine faults that do not meet.

| Run | starts | failures | other clients, other events | timeouts | lost signals | changes of the user, reads asked for |
|---|---|---|---|---|---|---|
| `toast_client` | 2 | 0 | 0 | 1 | 0 | 0 |
| | 2 | 0 | 0 | 0 | 0 | 1 |
| | 1 | 1 | 0 | 1 | 0 | 2 |
| | 1 | 0 | 1 | 1 | 0 | 2 |
| | 1 | 1 | 1 | 0 | 1 | 1 |
| `preference_clients` | 2 | 0 | 0 | 0 | 0 | 1 |
| | 1 | 1 | 0 | 1 | 0 | 1 |
| | 1 | 0 | 1 | 0 | 1 | 1 |
| `snapshot_clients`, the first also `cold_profiles` | 2 | 1 | 1 | 0 | 0 | 0 |
| | 1 | 0 | 2 | 1 | 1 | 0 |
| | 2 | 0 | 1 | 0 | 0 | 1 |
| | 1 | 0 | 1 | 1 | 0 | 1 |
| `notifications_away` | 1 | 0 | 2 | 0 | 1 | 0 |

Why the bounds suffice for the interesting cases. In `preferences` two operation
IDs give retry, conflict and a competitor on each method, and a third would only
repeat the second; with 4 revisions and 6 event numbers both limits are met in the
same runs in which normal updates happen. In `profiles` an ID is used up by a
refusal too, so a third is needed to refuse, create and change one profile; two
keys tell a merge from a replacement, and one refusal without a record is enough
for its repetition to meet any later state. One GPU with one display is enough
for a mixed inventory (a display whose GPU has gone), for tombstones that come
and go, and two hotplugs are a removal and a return at any point of an
enumeration. `MaxGeneration = 3` reaches the last generation. The ring's slots
are reused from the third sample on and the guard moves by two per
publication, so words of 0..9 include reuse, both parities of a guard left
behind by a dead producer, and the end of the sequence. Readers of the ring do
not influence each other, so one stands for all; the proofs do away with these
bounds altogether. Two incarnations of the service are one restart, at any point
of any request; one loss and one timeout each can hit any signal and any call.
The service is found READY or not running at first. Contents of a display
snapshot have no display, one or two, so that a copy takes one call to three and
publications fall between them. One read asked for by the program meets a client
with a copy, without one, or in the middle of a read, and there a restart or a
timeout.

Every property of a passing run has a mutant in `PROJECT.json`: a plausible
mistake at one mapped definition that makes the property fail in the same
configuration. Where a property is a conjunction of named parts
(`PreferenceLedgers`, `RefreshInvariant`, `RequestInvariant`, ...), the parts
carry the comments that say what each is about.

`CHECK_DEADLOCK FALSE` is set where a run may come to rest: the last process of
a bounded run ends, an exhausted producer is refused for ever, or everything is
delivered and the client idles.

## 4. Fairness

* `HardwareSession`: weak fairness of queued calls (`InitializeAsync`, the
  publications), of the worker thread, of the udev notification, the debounce
  timer, the retry timer and of the exit that `QCoreApplication::quit` asked
  for. Enumeration and subscription may fail as often as
  the run's bound allows; `RetrySucceeds \/ RetryFails` is fair as a whole, so
  success is never assumed while failures are left. Hotplugs, monitor failures,
  kills and starts are not fair.
* Clients: weak fairness of the service's turn (the bus delivers, a running
  service answers, activation ends in a start or a failure), of the handlers of
  each object of the client process, and of the retry timer
  (`TimerFires`), which is armed whenever it is scheduled. Starts, kills,
  recovery, other clients and the user are not fair.
* Each liveness property names the faults it does not cover.
  `EventuallyReflectsService` holds without lost signals and timeouts: a read
  of the readiness client that times out is not repeated before the next event.
  `EventuallySettled` of the settings and notifications client, which have the
  timer, holds with timeouts (settings) or failures (notifications), provided
  that the service stays READY and the readiness client shows it.
  `EventuallyCurrent` leaves lost signals, timeouts and failures out, because
  the snapshot clients have no retry, and of a display client also the reads
  asked for by the program (section 6). A profile client that read before the
  first inventory of a first start may stay with the empty profile of finding 3;
  no other is excused. The same exclusions are stated as
  antecedents, so the runs still contain the faults for the invariants.

## 5. Proofs

TLAPS checks these for every value of the constants under the named
assumptions of the modules.

**`SessionPreferencesProofs`.** The inductive invariant is

    IInv == TypeOK /\ EventsAreNumberedInOrder /\ SilentUntilAnnounced

`TypeOK` alone is not inductive in the event counter and the history of
events: that a further event fits needs `Len(emitted) = eventSequence`, and the
first event of a process needs `SilentUntilAnnounced`, that nothing was emitted
before RECOVERING is announced. `PublishNumbers` is the lemma about publishing
several events in a row. From `IInv` follow `PreferencesTypeCorrect` and
`EventNumbersNeverRepeat`.

`ConsentImplementsRegister` and `ToastImplementsRegister` are the step
simulations: an applied mutation maps to `Write`, with the answer or, if the
process is killed, without it; a replay maps to `Repeat`; everything else
leaves the register alone (one lemma per family of steps). No inductive
invariant is needed, because the guards of the code's transaction already are
the guards of the register.

The second half of the module rests on that `IInv` and
adds what the tables must record for the ledgers to be kept. `TypeOK` and the
ledgers alone are not inductive:

* a file that is not migrated has no notification history, and `migrated` never
  exceeds the consent revision (`HistoryStartsEmpty`);
* an existential such as "some row produced revision r" does not survive the next
  step unless the row is named as the only one, so `ToastRevisionsMade` and
  `MarkedOnce` say which row it is;
* the notification revision is a count: one for the migration, one per
  notification and one per read item (`NotificationsCounted`); a replay must not
  count again, which needs `MarkReadOpsUnique`;
* an answer a client got is the row of its operation (`AnswersOnFile`), which is
  what makes a repetition after a crash answer alike.

Each step is a kill or quiet step (tables untouched), a recovery, or one of the
three applied mutations, with one lemma per kind. `TablesTellTheirHistory`,
`PreferencesAnswerOnce` and `TablesOnlyGrow` follow. `EventsNameRevisions` is a
separate induction over the events of a process: `Tracks` counts the
announcements of one family, and `PublishWithoutIt` and `PublishOneMore` say what
a batch of events does to that count.

What the refinement means for the service is stated in the same module. The
abstract register is proved by itself, for any operation IDs and values:
`RegisterInv` (typing of the log, results bounded by the revision, the newest
result has the stored value, and the two properties themselves) yields
`RegisterAnswersOnce` and `RegisterHasOneWriter`. `ConsentAnswersOnce` and
`ToastAnswersOnce` say the same of the register that each preference of the
service implements; they follow from the ledgers (`RegistersFollow`), whose rows
are the rows of the register.

**`TelemetryRingProofs`.** `IInv` has one part per actor: `WriterInv` fixes
both guards by the next sequence number and the phase of the producer, and the
fields already stored; `SlotInv` says that a slot under an even guard holds one
whole sample, `ReaderInv` says that a candidate copied under an
unchanged guard agrees with the sample that guard stands for, `AcceptedInv`
covers what was accepted. The heart is that a guard value identifies one
sequence number (`SlotAndGuardIdentify`), so an unchanged guard means an
unchanged slot. Five theorems follow: typing (no wrap), `ReadersNeverTear`,
`NewestSampleSurvives`, `OnlyExhaustionStopsPublish`, `SamplesInOrder`, for any
number of readers, any odd largest word from 3 on and any calls.

**`SessionProfilesProofs`.** Every step leaves the tables alone (`QuietStep`),
refuses without a record (`RefusingStep`), records a verdict (`SettlingStep`), or
applies a patch together with its record
(`ApplyingStep`); `StepKinds` shows it once, and the rest of the proof speaks of
these four only. The inductive invariant is

    IInv == TypeOK /\ OneVerdictPerOperation /\ FewUnrecorded /\ NumbersAreUsed
                   /\ VerdictsAreOfThePast /\ ChangesSucceed

where `FewUnrecorded` says that finitely many verdicts were heard and not
recorded (so that a failed record can add one at most), `NumbersAreUsed` ties the events to their counter, `VerdictsAreOfThePast`
says that a verdict names no revision that does not exist yet, and
`ChangesSucceed` that only an `OK` changed a profile. `ProfileLedger` (the
settings of a subject are its patches applied in order) is proved one subject at
a time on top of it. Theorems: `ProfilesTypeCorrect`, `VerdictsAreUnique`,
`ProfileHistoryIsPermanent`, `ProfilesAreTheirChanges`,
`EventsNameEveryRevision`.

**`HardwareSessionProofs`.** The inductive invariant has nine parts beside
typing. Those that carry the argument:

* `ProviderCounts`: a result that was posted and not yet published is what the
  provider has, because no second worker starts before it is published;
* `GenerationsTell`: as long as the published generation is the provider's, so
  is the content; so a generation stands for one set of devices;
* `TombstonesExact` with `KnowledgeBegins`: nothing is known before the first
  inventory, so the first one leaves no tombstone;
* `PendingRefreshIsUnderway`, `ClosedReadsReopen` and `ObserverReturns`: each
  pending flag has a worker, a timer or a retry that will look at it;
* `FailedForNumbers`: a service that failed with an inventory did so for want of
  numbers, and numbers do not come back, so it cannot publish again quietly
  (`RoomOnlyShrinks`, `UnannounceableIsNew`).

The action properties then need one classification: a step that changes what a
read answers is a quiet publication of the same content, a publication that
announces its change, or only closes the reads and says so. Theorems:
`NoRefreshIsForgotten`, `TombstonesAreExact`, `EverySnapshotIsCoherent`,
`GenerationsStandForContent`, `CursorIdentifiesAnswers`, `ReadersHearOfChanges`.
The assumptions are that the kinds of subjects are finite and disjoint and that
the bounds are natural numbers.

**`PreferenceServiceProofs`** is what the proofs about the clients of
preferences share; it holds lemmas only. The assumptions are those of the
modules: the limits are natural numbers and bounded (`LimitsAssumption`,
`StartsAssumption`), there is an ID for every operation
(`OperationsAssumption`), and the connection has two objects, of which the
readiness client follows all events (`ObjectsAssumption`; the settings and the
notifications client follow none, `ObserversAssumption`). So everything below
holds for any number of restarts, failures, timeouts, lost signals, changes of
the user and of other clients. `CommonInv` has three layers:

* *The queues.* `Underway` relates calls and messages on their way to one object
  and what that object remembers: the call it waits for is the last of its calls,
  an answer to one is there only when no call of it is left, there is at most one,
  and, while the object is busy, exactly one of the two (`OneIsDue` turns this into
  the count of `OneRequestUnderway`). There is one lemma for each thing the bus,
  the service and a client can do to the queues. That the bus keeps the order
  of calls and of answers is what carries it.
* *The service and its log.* `Outcomes`: the pending operation is one the client
  issued, a row the log has for it carries its arguments, and nothing is told of
  an operation before it is decided; so a retry is answered by the row and never
  by `CONFLICT`. An answer on its way tells the truth about the pending operation
  (`TellsTruth`), for which no attempt may be left behind it.
* *What messages say.* A signature is one of an incarnation that has started, with
  a number it has given out (`Signs`), and a revision stands for one value
  (`Reading`). For the readiness client, `Recent` names one number: that of the
  last change of readiness. Messages and copies that are not older show the state
  as it is, and no event of another subject has that number. `Covered`: the
  answer it waits for covers every event it has heard, or it will ask again.

None of these parts is inductive without the others. `ServiceIsSafe` reduces
all steps of the service, the bus and other clients to five kinds (`Step`: it
answers, publishes, turns over, writes, or a signal is lost), so that a client
has to argue about five and not fifteen. A handler is shown to turn a `Good`
world (state of the two objects, calls made so far, messages left) into a
`Good` world, one lemma per operator the handlers are built from.

**`ToastClientProofs`.** The inductive invariant is

    ToastInv == CommonInv /\ IsObject(client) /\ IsToast(client) /\ kind = "toast"
                  /\ \E T \in Nat : Current(T)

`T` is the number of the last change of the preference that the running service
has announced. `Current(T)` says that messages and copies which are not older
than `T` carry the stored revision, that no event of another subject has the
number `T`, and that a copy which is older belongs to a client whose last heard
number is below `T` too. The last part is why the cursor may follow the events of
other subjects: a step of one from a copy that is out of date reaches `T` only
with the announcement itself, and a gap drops the copy (`NextIsSound`). `T` is
existential because nothing in the program records it. Theorems:
`ToastHolds`, `ToastRequests` (`RequestInvariant`), `ToastCursor`
(`CursorIdentifiesToast`), `ToastDecisionsAreFinal` (`DecisionsAreFinal`).

**`PreferenceClientsProofs`** does the same for the settings and the
notifications client. Beside `CommonInv`, `PreferencesInv` has `MessagesTold` and
`CopyTold`: as long as no signal was lost, what a message or a copy says of the
running service is current, or a later message brings what follows, or the
client waits for an answer, which will replace its copy. Theorems:
`PreferenceRequests` (`RequestInvariant`), `PreferenceCopies` (`CopyIsStored`),
`PreferenceDecisions` (`DecisionsAreFinal`), `PreferenceReadiness`
(`ReadinessIsCurrent`, of the readiness client they own).

**`SnapshotClientsProofs`** is about the profile, device and display clients,
again for any number of restarts, failures, timeouts, lost signals and events of
others. The assumptions are the limits (`LimitsAssumption`, `StartsAssumption`),
that there are these three kinds of client (`KindsAssumption`), and that a client
is the only object on its connection and follows all events
(`ConnectionAssumption`). The program may ask for any number of reads. Two reductions keep the proof independent of the
many handlers and steps:

* `Handled` says what any handler of any of the three clients does: how the
  cursor, the copy, the owner and the request in flight may change with the
  message. Each handler is shown to do that, and nothing else is used of it.
* `EveryStep`: a step of the service or the bus lets the same incarnation go on
  (`Continues`: signals in the order of their numbers, an answer that is right at
  the moment, errors; if what is read changes, an event announces it,
  `Announces`), changes the incarnation (`Turns`) or loses a signal (`Loses`); a
  step of the client handles the first message (`Consumes`) or begins a read that
  the program asks for (`Asked`), which changes neither cursor nor copy.

`ReadInv` types what is on its way and relates it to what the client remembers.
It uses `Underway`, as the preference clients do, for a chain of calls: the
answer to one call of a display read makes the next, so that one is due as long
as the client waits. It yields `ClientsReadOnce` (`ReadInvariant`) and, since
each handler leaves a copy signed like the last event heard (`CopyAtCursor`),
`CopiesCoverEvents` (`CopyCoversEvents`).

`CopyIsCurrent` is not inductive: a copy is moved on by events without a read, so
it may be current now because of an answer that was given long before, and it
may be out of date now and reach the number of the last event later. `CopyInv`
says why that does not happen:

* `Signed`: every number in a message, a partial list, a copy or the cursor is one
  that the named incarnation has given out, and those of answers were given while
  it was READY.
* `Ordered`: between two changes of the owner numbers arrive in order, and none is
  below the cursor; `Bounded`: what the client remembers does not run ahead of it.
* `UpTo(T)`, for some `T`: the number of the last event that changed what is read.
  Answers, partial lists and copies numbered `T` or later hold the present content
  and are there only while reads are open. Copies and answers of the same
  incarnation that are older still have the signal that voids them ahead, before
  any number from `T` on (`Overtaken`); this is what a lost signal destroys, hence
  the exception in `CopyIsCurrent`. A profile client needs no such signal, because
  every signal with the number `T` names the profile (`SubjectHolds`), and a step
  over a missing number drops the copy. `T` is existential because nothing in the
  program records it.

From both follows `CopiesAreCurrent` (`CopyIsCurrent`).

Every invariant and every action property of the passing runs is thus proved.
Only model-checked are the five liveness properties (`InitializationEnds`,
`EventuallyFresh`, `EventuallyReflectsService`, `EventuallySettled`,
`EventuallyCurrent`): fairness and ENABLED are outside what the installed provers
do. That the bus and the service as the clients see them (`SessionBus`,
`PreferenceService`, the publications of `SnapshotClients`) are what
`SessionPreferences`, `SessionProfiles` and `HardwareSession` do is argued
definition by definition, except for the stored preference, where it is proved.

## 6. Findings

1. **READY without a recovered database** (`ready_generation`). A failed
   `database_->initialize` leaves the service FAILED, but a later udev hint
   still starts an inventory refresh, and its publication sets READY on a
   generation that was never persisted, against the comment at
   `sessiond/session_service.cpp:350`.
2. **Reads open with nobody observing** (`unobserved_reads`).
   `setHardwareObserverUnavailable` returns early while the monitor is already
   marked down and so keeps `hardwareObserverRecoveryPending_`: if the monitor
   is lost again before the recovering inventory is published, the publication
   reopens the reads.
3. **A profile client is ready with nothing** (`cold_profiles`). A service that
   is not READY answers a profile read with `BACKEND_UNAVAILABLE` and an empty
   envelope; the client accepts it as a snapshot, against "fails closed on
   malformed or unavailable replies". It also compares the empty identity with
   that of later events, so it reads again for each event it hears until the
   service is READY, and stays with the empty profile if it hears none.
4. **The notification list stays away** (`notifications_away`). After a gap the
   readiness client drops its copy and reads it again with the same identity.
   The notifications client drops its list with it and does not read it again,
   until the next change of a notification or a manual refresh.
5. **A refusal that is not on record** (`profile_refusals`). `updateProfile`
   settles on `NOT_FOUND` or `STALE_REVISION` before it writes the operation's
   row; if that fails the service answers the refusal all the same, instead of
   `IO_ERROR`, and a retry is decided anew, against "Retries replay unchanged
   results, including valid NOT_FOUND and STALE_REVISION outcomes after later
   state changes". `OneVerdictPerOperation` says what does hold: successes are
   always on record, and only a failed record makes a refusal otherwise.

Two more places where the code is not what the tickets
(`AMD_Adrenalin_Linux_RX6000plus_TICKETS_FINAL_AUDITED.md`) say, without a run of
their own:

* Exhaustion of the event sequence met by a toast change is answered
  `INTERNAL_ERROR` and does not end the daemon
  (`sessiond/session_service.cpp:1131`), as it does for the other mutations and
  as line 198 says of all ("the daemon exits so clients observe owner loss and
  reconcile"). In `SessionPreferences` it is a refusal that changes nothing.
* Line 300 says that the display client "advances over unrelated events". While
  one that has a copy reads again because the program called `refresh()`, an
  event of another family between the list and the state of a display only moves
  its cursor (`interfaces/display1_client.cpp:181-186`). The two replies then
  differ in their sequence, `finishState` (272-279) drops the read and the copy,
  and nothing reads again before the next event, change of owner or request. A
  client without a copy reads again, because the event counts for it. Nothing in
  the repository calls `refresh()` of a display client yet;
  `EventuallyCurrent` leaves such reads out for this reason.

Observed, without a document that says otherwise:

* A retry of an applied operation whose transaction fails is answered
  `IO_ERROR`, and the client drops the operation as failed; this is why
  `ReportsAreTrue` speaks of the answers that decide an operation only.
* A read that fails is not repeated by the readiness, toast and snapshot clients
  before the next event or owner change, nor by the settings client when the
  answer is `STORAGE_FAILURE`.
* `MarkRead` on a service that is not READY is answered without an identity, and
  the notifications client compares identities first, so its branch for
  `BACKEND_UNAVAILABLE` (`interfaces/notifications1_client.cpp:260`) is not
  reached by this service.
* Replies and signals share one ordered connection, so a reply covers every
  event heard before it. The `refreshPending_` fences of the clients decide
  something only after an error, a timeout or a signal heard before the call
  was made; they cost a second read otherwise.

## 7. Left out, and why

* Wording of results, logging, JSON, D-Bus marshalling: no property is about
  them. Reads are represented by what they can answer.
* `DEGRADED` is never entered. Schema 2 files are the result of an
  intermediate migration step; a model starts from no file or a schema 1 file.
* `validateDisplay` and `applyDisplay` change no state.
* The capability graph is a function of the device set; CPU packages do not
  change; GPUs are read before displays.
* The length of the monitor's backoff and of the clients' retry delay: only that
  they end.
* UUIDs are numbers of the starts, so they are fresh by construction.
* The ring's header is constant after creation; rejecting it does nothing.
* Clients: the connection to the bus is never lost, the API major is the
  expected one, events and answers are well-formed, and exhaustion of the event
  sequence appears as an end of the process.
* The Telemetry1 event cursor (`interfaces/telemetry1_event_cursor.cpp`) keeps a
  snapshot and a number; nothing in the repository but its test feeds it events
  yet, so there is no stream whose gaps and restarts it could be checked against.
* The Hotkeys1 client talks to an interface the daemon does not export; its only
  counterpart is a mock.
* Contract validation and the `*_mock.cpp` doubles check single values; the
  enumeration sources over libdrm, hwloc and sysfs turn external files into one
  list per call and keep nothing between calls, so their result is the input of
  `HardwareSession`; QML presents client state; the Python tools and the build
  have no state between runs.

## 8. Plan

Done: durable mutations, the hardware path, the ring, the readiness and toast
clients, profiles storage, the remaining clients of the services that the
daemon exports, and proofs of every safety property that the runs check.

Left, in the order of what it would add:

1. **Composition** of `SessionPreferences` with a client without the abstract
   register in between, if a small enough instance can be found.
2. **Event sources**: hotkeys, once the daemon exports them, and the telemetry
   cursor, once something feeds it.
