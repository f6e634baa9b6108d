------------------------- MODULE SessionPreferences -------------------------
(***************************************************************************)
(* The Settings1 and Notifications1 mutations of the session service with  *)
(* the SQLite tables behind them: the telemetry consent preference, the    *)
(* toast preference, the notification history and the operation tables     *)
(* that make a retried call idempotent.                                    *)
(*                                                                         *)
(* Callers are unrestricted: any operation ID may arrive with any value    *)
(* and any expected revision, any number of times and in any order, which  *)
(* covers every client that retries, duplicates or reuses an ID.  A        *)
(* refusal (BACKEND_UNAVAILABLE, INVALID_ARGUMENT, CONFLICT,               *)
(* STALE_REVISION, NOT_FOUND, IO_ERROR, and of the toast preference        *)
(* INTERNAL_ERROR) rolls its transaction back and changes nothing, so it   *)
(* is a stuttering step here.                                              *)
(***************************************************************************)
EXTENDS SessionEvents, FiniteSets

CONSTANTS
    OpIds,                \* operation IDs callers use
    MaxRevision,          \* stands for numeric_limits<qlonglong>::max()
    HardwareEventCounts   \* how many hardware events one publication emits

ASSUME RevisionAssumption == MaxRevision \in Nat /\ MaxRevision >= 2
ASSUME HardwareEventsAssumption == HardwareEventCounts \subseteq Nat

VARIABLES
    schema,               \* service_metadata.schema_version, 0 before the file exists
    consent,              \* preferences row product_telemetry_consent
    toast,                \* preferences row toast_notifications
    notifications,        \* notification_id's of table notifications
    readItems,            \* those with is_read = 1
    notificationRevision, \* notification_metadata row revision
    consentOps,           \* settings_operations, method SetProductTelemetryConsent
    toastOps,             \* settings_operations, method SetToastNotifications
    markReadOps,          \* notification_operations
    migrated,             \* consent revision of the schema 1 file, a history variable
    emitted,              \* events of this incarnation, a history variable
    acked                 \* every OK answer a caller ever received, a history variable

preferenceVars == <<schema, consent, toast, notifications, readItems,
                    notificationRevision, consentOps, toastOps, markReadOps, migrated>>
historyVars == <<emitted, acked>>
vars == <<serviceVars, preferenceVars, historyVars>>

Values == {0, 1}          \* enabled, as the database stores it
Unset == 2                \* toast_notifications before it is configured
Revisions == 0..MaxRevision

SettingsOperation == [op : OpIds, value : Values, expected : Revisions, result : Revisions]
MarkReadOperation == [op : OpIds, item : Revisions, expected : Revisions,
                      result : Revisions, changed : BOOLEAN]
Event == [sequence : 0..MaxSequence, family : {"service", "hardware", "consent",
          "notification", "toast"}, revision : Revisions]
Answer == [method : {"consent", "toast", "markRead"}, op : OpIds, value : Revisions,
           expected : Revisions, revision : Revisions]

TypeOK ==
    /\ ServiceTypeOK
    /\ schema \in {0, 1, 3}
    /\ consent \in [value : Values, revision : Revisions]
    /\ toast \in [value : Values \cup {Unset}, revision : Revisions]
    /\ notifications \subseteq Revisions
    /\ readItems \subseteq notifications
    /\ notificationRevision \in Revisions
    /\ consentOps \subseteq SettingsOperation
    /\ toastOps \subseteq SettingsOperation
    /\ markReadOps \subseteq MarkReadOperation
    /\ migrated \in Revisions
    /\ emitted \in Seq(Event)
    /\ acked \subseteq Answer
-----------------------------------------------------------------------------
(* The file the first incarnation finds: none, or one of schema 1, which   *)
(* kept consent and its operations but had no notification history.        *)

EmptyTables ==
    /\ toast = [value |-> Unset, revision |-> 0]
    /\ notifications = {}
    /\ readItems = {}
    /\ notificationRevision = 0
    /\ toastOps = {}
    /\ markReadOps = {}

FreshFile ==
    /\ schema = 0
    /\ consent = [value |-> 0, revision |-> 0]
    /\ consentOps = {}
    /\ migrated = 0

SchemaOneFile ==
    \E op \in OpIds, v \in Values :
        /\ schema = 1
        /\ consent = [value |-> v, revision |-> 1]
        /\ consentOps = {[op |-> op, value |-> v, expected |-> 0, result |-> 1]}
        /\ migrated = 1

Init ==
    /\ state = "STOPPED" /\ eventSequence = 0 /\ quitting = FALSE
    /\ EmptyTables
    /\ FreshFile \/ SchemaOneFile
    /\ emitted = <<>> /\ acked = {}
-----------------------------------------------------------------------------
(* Events.  Numbered(evs) is what the bus carries when a handler calls     *)
(* nextEventSequence and emits once for each element of evs.               *)

Numbered(evs) ==
    [i \in DOMAIN evs |-> [sequence |-> NextSequence(i), family |-> evs[i].family,
                           revision |-> evs[i].revision]]

Publish(evs) ==
    /\ eventSequence' = NextSequence(Len(evs))
    /\ emitted' = emitted \o Numbered(evs)

\* Mutant: the event carries the revision before the change.
NoteOfOldRevision(family, revision) ==
    [family |-> family, revision |-> IF revision = 0 THEN 0 ELSE revision - 1]

Note(family, revision) == [family |-> family, revision |-> revision]
Readiness == Note("service", 0)
HardwareNotes(n) == [i \in 1..n |-> Note("hardware", 0)]

Stop ==
    /\ StopProcess
    /\ emitted' = <<>>
    /\ UNCHANGED acked

\* What follows a commit: the events and the OK reply leave the process, or
\* it is killed before either does.  The committed rows are kept either way.
Finish(evs, answer) ==
    \/ /\ Publish(evs)
       /\ acked' = acked \cup {answer}
       /\ UNCHANGED <<state, quitting>>
    \/ Stop

RefuseExhausted ==
    /\ FailEventSequenceExhausted
    /\ UNCHANGED <<preferenceVars, emitted, acked>>
-----------------------------------------------------------------------------
(* Lifecycle.                                                              *)

Start ==
    /\ StartProcess
    /\ UNCHANGED <<preferenceVars, historyVars>>

\* The row of notification_metadata is inserted unless it is there.
\* Mutant: it is replaced.
ReplacedNotificationRevision == 1

MigratedNotificationRevision == IF schema = 3 THEN notificationRevision ELSE 1

\* initializeAsync up to the worker: RECOVERING is announced, then one
\* transaction creates and migrates the tables; when any statement of it
\* fails it is rolled back and FAILED is announced.
RecoverDatabase ==
    /\ state = "STARTING"
    /\ \/ /\ state' = "RECOVERING"
          /\ Publish(<<Readiness>>)
          /\ schema' = 3
          /\ notificationRevision' = MigratedNotificationRevision
       \/ /\ state' = "FAILED"
          /\ Publish(<<Readiness, Readiness>>)
          /\ UNCHANGED <<schema, notificationRevision>>
    /\ UNCHANGED <<quitting, consent, toast, notifications, readItems, consentOps,
                   toastOps, markReadOps, migrated, acked>>

\* publishHardwareInitialization as these tables see it (module
\* HardwareSession has the rest): a complete inventory makes the service
\* READY, out of FAILED too, and takes n numbers for hardware events; a
\* failed one takes a number and leaves a service that is not READY FAILED.
HardwarePublishes(n) ==
    /\ state \in {"RECOVERING", "READY", "FAILED"}
    /\ LET evs == IF state = "READY" THEN HardwareNotes(n)
                                     ELSE <<Readiness>> \o HardwareNotes(n)
       IN IF HasRoomFor(Len(evs))
          THEN /\ state' = "READY"
               /\ Publish(evs)
               /\ UNCHANGED quitting
          ELSE FailEventSequenceExhausted /\ UNCHANGED emitted
    /\ UNCHANGED <<preferenceVars, acked>>

HardwareFails ==
    /\ state \in {"RECOVERING", "READY", "FAILED"}
    /\ IF HasRoomFor(1)
       THEN /\ state' = IF state = "READY" THEN "READY" ELSE "FAILED"
            /\ Publish(IF state = "READY" THEN HardwareNotes(1) ELSE <<Readiness>>)
            /\ UNCHANGED quitting
       ELSE FailEventSequenceExhausted /\ UNCHANGED emitted
    /\ UNCHANGED <<preferenceVars, acked>>

\* The process is killed between two handlers, or ends after it quit.
Crash == Running /\ Stop /\ UNCHANGED preferenceVars
-----------------------------------------------------------------------------
(* Settings1.SetProductTelemetryConsent.                                   *)

\* The lookup in the operation table finds nothing.  Mutant: no lookup.
OperationNotLookedUp(ops, op) == TRUE

FreshOperation(ops, op) == \A row \in ops : row.op # op

\* Two numbers must be free before the operation table is even consulted.
ConsentExhausted ==
    /\ state = "READY"
    /\ eventSequence > MaxSequence - 2
    /\ RefuseExhausted

\* Mutant: one number is thought to be enough for two events.
ConsentAcceptsWithOneNumber(e) ==
    /\ state = "READY"
    /\ eventSequence <= MaxSequence - 1
    /\ schema = 3
    /\ e < MaxRevision

ConsentAccepts(e) ==
    /\ state = "READY"
    /\ eventSequence <= MaxSequence - 2
    /\ schema = 3
    /\ e < MaxRevision

ConsentAnswer(op, v, e, revision) ==
    [method |-> "consent", op |-> op, value |-> v, expected |-> e, revision |-> revision]

\* Mutant: a replay is answered with the revision of now.
ConsentReplayedWithCurrent(op, v, e) ==
    /\ ConsentAccepts(e)
    /\ \E row \in consentOps : row.op = op /\ row.value = v /\ row.expected = e
    /\ acked' = acked \cup {ConsentAnswer(op, v, e, consent.revision)}
    /\ UNCHANGED <<serviceVars, preferenceVars, emitted>>

ConsentReplayed(op, v, e) ==
    /\ ConsentAccepts(e)
    /\ \E row \in consentOps :
        /\ row.op = op /\ row.value = v /\ row.expected = e
        /\ acked' = acked \cup {ConsentAnswer(op, v, e, row.result)}
    /\ UNCHANGED <<serviceVars, preferenceVars, emitted>>

\* One transaction: the preference, the operation, the notification it
\* reports (named here by the revision it reports, fresh like its UUID) and
\* the notification revision.  Setting the value it already has counts too.
ConsentApplied(op, v, e) ==
    /\ ConsentAccepts(e)
    /\ FreshOperation(consentOps, op)
    /\ notificationRevision < MaxRevision
    /\ e = consent.revision
    /\ consent' = [value |-> v, revision |-> e + 1]
    /\ consentOps' = consentOps \cup
                        {[op |-> op, value |-> v, expected |-> e, result |-> e + 1]}
    /\ notifications' = notifications \cup {e + 1}
    /\ notificationRevision' = notificationRevision + 1
    /\ UNCHANGED <<schema, toast, readItems, toastOps, markReadOps, migrated>>
    /\ Finish(<<Note("consent", e + 1), Note("notification", notificationRevision + 1)>>,
              ConsentAnswer(op, v, e, e + 1))
-----------------------------------------------------------------------------
(* Settings1.SetToastNotifications.                                        *)

ToastAccepts(e) == state = "READY" /\ schema = 3 /\ e < MaxRevision

\* Mutant: every write changes it.
ToastAlwaysChanges(v) == TRUE

ToastChanges(v) == toast.value = Unset \/ toast.value # v

ToastAnswer(op, v, e, revision) ==
    [method |-> "toast", op |-> op, value |-> v, expected |-> e, revision |-> revision]

ToastReplayed(op, v, e) ==
    /\ ToastAccepts(e)
    /\ \E row \in toastOps :
        /\ row.op = op /\ row.value = v /\ row.expected = e
        /\ acked' = acked \cup {ToastAnswer(op, v, e, row.result)}
    /\ UNCHANGED <<serviceVars, preferenceVars, emitted>>

\* Exhaustion is only looked for once the call is known to change the value,
\* and the answer INTERNAL_ERROR is all that comes of it.
ToastApplied(op, v, e) ==
    LET result == IF ToastChanges(v) THEN e + 1 ELSE e
    IN
    /\ ToastAccepts(e)
    /\ FreshOperation(toastOps, op)
    /\ e = toast.revision
    /\ ToastChanges(v) => HasRoomFor(1) /\ e < MaxRevision - 1
    /\ toast' = [value |-> v, revision |-> result]
    /\ toastOps' = toastOps \cup
                      {[op |-> op, value |-> v, expected |-> e, result |-> result]}
    /\ UNCHANGED <<schema, consent, notifications, readItems, notificationRevision,
                   consentOps, markReadOps, migrated>>
    /\ Finish(IF ToastChanges(v) THEN <<Note("toast", result)>> ELSE <<>>,
              ToastAnswer(op, v, e, result))
-----------------------------------------------------------------------------
(* Notifications1.MarkRead.                                                *)

\* Mutant: the revision may leave its range.
MarkReadAcceptsAtLimit(e) == state = "READY" /\ schema = 3

MarkReadAccepts(e) == state = "READY" /\ schema = 3 /\ e < MaxRevision

MarkReadAnswer(op, item, e, revision) ==
    [method |-> "markRead", op |-> op, value |-> item, expected |-> e, revision |-> revision]

MarkReadReplayed(op, item, e) ==
    /\ MarkReadAccepts(e)
    /\ \E row \in markReadOps :
        /\ row.op = op /\ row.item = item /\ row.expected = e
        /\ acked' = acked \cup {MarkReadAnswer(op, item, e, row.result)}
    /\ UNCHANGED <<serviceVars, preferenceVars, emitted>>

MarkReadFresh(op, item, e) ==
    /\ MarkReadAccepts(e)
    /\ FreshOperation(markReadOps, op)
    /\ item \in notifications
    /\ e = notificationRevision

\* Mutant: one that is read already counts again.
MarkReadAlwaysChanges(item) == TRUE

MarkReadChanges(item) == item \notin readItems

MarkReadExhausted(op, item, e) ==
    /\ MarkReadFresh(op, item, e)
    /\ MarkReadChanges(item)
    /\ ~HasRoomFor(1)
    /\ RefuseExhausted

MarkReadApplied(op, item, e) ==
    LET changes == MarkReadChanges(item)
        result == IF changes THEN e + 1 ELSE e
    IN
    /\ MarkReadFresh(op, item, e)
    /\ changes => HasRoomFor(1)
    /\ readItems' = readItems \cup {item}
    /\ notificationRevision' = result
    /\ markReadOps' = markReadOps \cup {[op |-> op, item |-> item, expected |-> e,
                                         result |-> result, changed |-> changes]}
    /\ UNCHANGED <<schema, consent, toast, notifications, consentOps, toastOps, migrated>>
    /\ Finish(IF changes THEN <<Note("notification", result)>> ELSE <<>>,
              MarkReadAnswer(op, item, e, result))
-----------------------------------------------------------------------------
Call(op, e) ==
    \/ \E v \in Values :
        \/ ConsentReplayed(op, v, e) \/ ConsentApplied(op, v, e)
        \/ ToastReplayed(op, v, e) \/ ToastApplied(op, v, e)
    \/ \E item \in Revisions :
        \/ MarkReadReplayed(op, item, e)
        \/ MarkReadExhausted(op, item, e)
        \/ MarkReadApplied(op, item, e)

Next ==
    \/ Start \/ RecoverDatabase \/ HardwareFails \/ Crash
    \/ \E n \in HardwareEventCounts : HardwarePublishes(n)
    \/ ConsentExhausted
    \/ \E op \in OpIds, e \in Revisions : Call(op, e)

Spec == Init /\ [][Next]_vars
-----------------------------------------------------------------------------
(* Properties.                                                             *)

\* Consent (session_database.cpp, updateProductTelemetryConsent): every
\* revision was produced by exactly one recorded operation, whatever was
\* retried or killed in between, and the stored value is the one the
\* operation of the current revision asked for.
ConsentLedger ==
    /\ \A r \in 1..consent.revision : \E row \in consentOps : row.result = r
    /\ \A row \in consentOps :
        /\ row.result \in 1..consent.revision
        /\ row.expected = row.result - 1
        /\ row.result = consent.revision => row.value = consent.value
    /\ \A a, b \in consentOps : a.op = b.op \/ a.result = b.result => a = b

\* Toast (updateToastNotifications): a revision is produced by one operation
\* only, the later operations that share it asked for the value it already
\* had, and the preference is unset exactly while no operation is recorded.
ToastLedger ==
    /\ \A r \in 1..toast.revision :
        Cardinality({row \in toastOps : row.result = r /\ row.expected = r - 1}) = 1
    /\ \A row \in toastOps :
        /\ row.result \in 1..toast.revision
        /\ row.expected \in {row.result - 1, row.result}
        /\ row.result = toast.revision => row.value = toast.value
    /\ \A a, b \in toastOps :
        /\ a.op = b.op => a = b
        /\ a.result = b.result => a.value = b.value
    /\ (toast.value = Unset) <=> (toastOps = {})

\* Three tables agree: since the migration every consent update left one
\* notification, and the notification revision counts each insertion and
\* each notification marked read exactly once (it starts at 1).
NotificationLedger ==
    /\ notifications = (migrated + 1)..consent.revision
    /\ schema = 3 => notificationRevision = 1 + Cardinality(notifications)
                                             + Cardinality(readItems)
    /\ \A item \in readItems :
        Cardinality({row \in markReadOps : row.item = item /\ row.changed}) = 1
    /\ \A row \in markReadOps : row.item \in readItems

\* The tables of all mutations tell how their values and revisions came
\* about, each change once, after any retries and kills.
PreferenceLedgers == ConsentLedger /\ ToastLedger /\ NotificationLedger

\* A caller that repeats an operation ID until it hears OK, across any number
\* of crashes, hears one result only, and what it heard is on disk.
OneAnswerPerOperation ==
    /\ \A a, b \in acked : a.method = b.method /\ a.op = b.op => a = b
    /\ \A a \in acked :
        CASE a.method = "consent" -> \E row \in consentOps : row.op = a.op /\ row.result = a.revision
          [] a.method = "toast" -> \E row \in toastOps : row.op = a.op /\ row.result = a.revision
          [] OTHER -> \E row \in markReadOps : row.op = a.op /\ row.result = a.revision

\* No two events of an incarnation carry the same number and none is skipped,
\* up to and including the last number there is.
EventsAreNumberedInOrder ==
    /\ Len(emitted) = eventSequence
    /\ \A i \in DOMAIN emitted : emitted[i].sequence = i

Announced(events, family) == {i \in DOMAIN events : events[i].family = family}

Tracks(events, family, revision) ==
    /\ \A i, j \in Announced(events, family) :
        i < j => events[i].revision < events[j].revision
    /\ \A i \in Announced(events, family) :
        /\ events[i].revision <= revision
        /\ \A r \in events[i].revision..revision :
            \E j \in Announced(events, family) : events[j].revision = r

\* Every revision a running service reaches is announced, in order and once,
\* so a reply that carries event cursor c and revision r covers exactly the
\* events up to c (Settings1, Notifications1 read replies).
EventsTrackRevisions ==
    /\ Tracks(emitted, "consent", consent.revision)
    /\ Tracks(emitted, "toast", toast.revision)
    /\ Tracks(emitted, "notification", notificationRevision)

\* Nothing an operation table or a revision counter holds is ever taken back,
\* by a crash, a failed recovery or a later operation.
HistoryIsPermanent ==
    [][/\ consentOps \subseteq consentOps' /\ toastOps \subseteq toastOps'
       /\ markReadOps \subseteq markReadOps' /\ readItems \subseteq readItems'
       /\ consent'.revision >= consent.revision
       /\ notificationRevision' >= notificationRevision]_vars

-----------------------------------------------------------------------------
(* Both preferences implement the abstract register.                       *)

AnswersTo(method) ==
    {[op |-> a.op, revision |-> a.revision] : a \in {b \in acked : b.method = method}}

ConsentRegister == INSTANCE IdempotentRegister WITH
    value <- consent.value, revision <- consent.revision, log <- consentOps,
    answers <- AnswersTo("consent"), CountsEveryWrite <- TRUE

ToastRegister == INSTANCE IdempotentRegister WITH
    value <- toast.value, revision <- toast.revision, log <- toastOps,
    answers <- AnswersTo("toast"), CountsEveryWrite <- FALSE

\* Consent is a register in which every accepted write counts, across
\* crashes between commit and reply and across restarts.
ImplementsConsentRegister == ConsentRegister!Spec

\* The toast preference is a register in which only changes count.
ImplementsToastRegister == ToastRegister!Spec
=============================================================================
