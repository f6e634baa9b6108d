--------------------------- MODULE SessionProfiles ---------------------------
(***************************************************************************)
(* Profiles1.UpdateProfile of the session service with the SQLite tables   *)
(* behind it: a profile per subject, made by the first patch and changed   *)
(* by later ones, and the table of operations, which keeps the verdict on  *)
(* every operation, a refusal for a missing profile or a stale revision    *)
(* included if it can be written, and answers a repeated call with it.     *)
(*                                                                         *)
(* Callers are unrestricted, as in SessionPreferences; calls with invalid  *)
(* arguments, reuses of an operation ID with other arguments (CONFLICT),   *)
(* calls on a service that is not READY, and transactions that fail        *)
(* without a verdict (IO_ERROR) change nothing and are stuttering steps.   *)
(***************************************************************************)
EXTENDS SessionEvents, FiniteSets

CONSTANTS
    OpIds,                \* operation IDs callers use
    Subjects,             \* pairs of subject kind and subject ID
    Keys, Values,         \* what settings are made of
    Patches,              \* the settings callers ask for
    MaxRevision,          \* stands for numeric_limits<qlonglong>::max()
    MaxUnrecorded         \* bound: refusals whose record the storage fails to write

Settings == UNION {[keys -> Values] : keys \in SUBSET Keys}
NoSettings == [k \in {} |-> 0]

ASSUME PatchesAssumption == Patches \subseteq Settings
ASSUME RevisionAssumption == MaxRevision \in Nat \ {0}
ASSUME UnrecordedAssumption == MaxUnrecorded \in Nat

VARIABLES
    profiles,             \* tables profiles and profile_settings; revision 0 is no row
    operations,           \* table profile_operations
    emitted,              \* ProfileChanged events of this incarnation (history)
    heard,                \* verdicts callers have heard (history)
    unrecorded            \* refusals whose record was not written (history)

profileVars == <<profiles, operations>>
vars == <<serviceVars, profileVars, emitted, heard, unrecorded>>

Revisions == 0..MaxRevision
Profile == [revision : Revisions, settings : Settings]
Row == [op : OpIds, subject : Subjects, expected : Revisions, patch : Settings,
        code : {"OK", "NOT_FOUND", "STALE_REVISION"}, revision : Revisions, changed : BOOLEAN]
Event == [sequence : 0..MaxSequence, subject : Subjects, revision : Revisions]

TypeOK ==
    /\ ServiceTypeOK
    /\ profiles \in [Subjects -> Profile]
    /\ operations \subseteq Row
    /\ emitted \in Seq(Event)
    /\ heard \subseteq Row
    /\ unrecorded \in 0..MaxUnrecorded

Init ==
    /\ state = "STOPPED" /\ eventSequence = 0 /\ quitting = FALSE
    /\ profiles = [s \in Subjects |-> [revision |-> 0, settings |-> NoSettings]]
    /\ operations = {}
    /\ emitted = <<>> /\ heard = {} /\ unrecorded = 0
-----------------------------------------------------------------------------
(* The service around it.                                                  *)

Start ==
    /\ StartProcess
    /\ UNCHANGED <<profileVars, emitted, heard, unrecorded>>

\* Recovery and the first inventory, as far as they take event numbers.
BecomesReady ==
    /\ state \in {"STARTING", "FAILED"} /\ ~quitting
    /\ SetState("READY")
    /\ UNCHANGED <<profileVars, emitted, heard, unrecorded>>

\* Consent, notification, toast and hardware events.
OtherEvent ==
    /\ state = "READY"
    /\ HasRoomFor(1)
    /\ eventSequence' = NextSequence(1)
    /\ UNCHANGED <<state, quitting, profileVars, emitted, heard, unrecorded>>

Stop == StopProcess /\ emitted' = <<>>

\* The process is killed between two handlers, or ends after it quit.
Crash == Running /\ Stop /\ UNCHANGED <<profileVars, heard, unrecorded>>
-----------------------------------------------------------------------------
(* The verdict on a call.                                                  *)

\* The patch over the settings there are.
Merged(settings, patch) ==
    [k \in DOMAIN settings \cup DOMAIN patch |->
        IF k \in DOMAIN patch THEN patch[k] ELSE settings[k]]

Exists(s) == profiles[s].revision > 0

\* A first patch has something in it and expects no revision.
IsMissing(s, e, patch) == ~Exists(s) /\ (patch = NoSettings \/ e # 0)

IsStale(s, e) == e # profiles[s].revision

\* The profile has all the requested values already.
HasAll(s, patch) == Exists(s) /\ Merged(profiles[s].settings, patch) = profiles[s].settings

Verdict(op, s, e, patch, code, revision, changed) ==
    [op |-> op, subject |-> s, expected |-> e, patch |-> patch,
     code |-> code, revision |-> revision, changed |-> changed]

Hears(row) == heard' = heard \cup {row}

\* persistOperationResult.
Recorded(row) == operations' = operations \cup {row}
-----------------------------------------------------------------------------
(* Profiles1.UpdateProfile.                                                *)

\* The lookup finds nothing.  Mutant: it considers the subject as well.
FreshForSubject(op, s) == \A row \in operations : row.op = op => row.subject # s
Fresh(op, s) == \A row \in operations : row.op # op

\* Mutant: the largest revision may be expected too.
AcceptsAnyRevision(op, s, e) == state = "READY" /\ Fresh(op, s)
\* The expected revision is below the largest one, or the call is invalid.
Accepts(op, s, e) == state = "READY" /\ Fresh(op, s) /\ e < MaxRevision

\* A verdict without a change is recorded and answered; the process may be
\* killed between the two.
Settles(row) ==
    /\ Recorded(row)
    /\ \/ Hears(row) /\ UNCHANGED <<serviceVars, emitted>>
       \/ Stop /\ UNCHANGED heard
    /\ UNCHANGED <<profiles, unrecorded>>

\* The code has set stale or notFound before it writes the record; when that
\* fails, the transaction is rolled back and the caller refused all the same.
RefusesUnrecorded(row) ==
    /\ unrecorded < MaxUnrecorded
    /\ unrecorded' = unrecorded + 1
    /\ Hears(row)
    /\ UNCHANGED <<serviceVars, profileVars, emitted>>

Refuses(row) == Settles(row) \/ RefusesUnrecorded(row)

UpdateNotFound(op, s, e, patch) ==
    /\ Accepts(op, s, e)
    /\ IsMissing(s, e, patch)
    /\ Refuses(Verdict(op, s, e, patch, "NOT_FOUND", 0, FALSE))

UpdateStale(op, s, e, patch) ==
    /\ Accepts(op, s, e)
    /\ ~IsMissing(s, e, patch) /\ IsStale(s, e)
    /\ Refuses(Verdict(op, s, e, patch, "STALE_REVISION", profiles[s].revision, FALSE))

IsDue(op, s, e, patch) == Accepts(op, s, e) /\ ~IsMissing(s, e, patch) /\ ~IsStale(s, e)

UpdateUnchanged(op, s, e, patch) ==
    /\ IsDue(op, s, e, patch)
    /\ HasAll(s, patch)
    /\ Settles(Verdict(op, s, e, patch, "OK", e, FALSE))

\* Mutant: a setting that is new to the profile is not a new revision.
PatchedUncounted(s, patch) ==
    [profiles EXCEPT ![s] =
        [revision |-> IF DOMAIN patch \subseteq DOMAIN @.settings \/ ~Exists(s) THEN @.revision + 1
                                                                           ELSE @.revision,
         settings |-> Merged(@.settings, patch)]]
\* Mutant: the profile is replaced by the patch.
Replaced(s, patch) ==
    [profiles EXCEPT ![s] = [revision |-> @.revision + 1, settings |-> patch]]
Patched(s, patch) ==
    [profiles EXCEPT ![s] = [revision |-> @.revision + 1, settings |-> Merged(@.settings, patch)]]

\* Mutant: the event carries the revision the caller expected.
NotesOfExpected(row) ==
    Append(emitted, [sequence |-> NextSequence(1), subject |-> row.subject, revision |-> row.expected])
\* ProfileChanged, and EventPublished with the same number.
Notes(row) ==
    Append(emitted, [sequence |-> NextSequence(1), subject |-> row.subject, revision |-> row.revision])

UpdateApplied(op, s, e, patch) ==
    LET row == Verdict(op, s, e, patch, "OK", e + 1, TRUE)
    IN
    /\ IsDue(op, s, e, patch)
    /\ ~HasAll(s, patch)
    /\ HasRoomFor(1)
    /\ profiles' = Patched(s, patch)
    /\ Recorded(row)
    /\ \/ /\ eventSequence' = NextSequence(1)
          /\ emitted' = Notes(row)
          /\ Hears(row)
          /\ UNCHANGED <<state, quitting>>
       \/ Stop /\ UNCHANGED heard
    /\ UNCHANGED unrecorded

\* A change needs an event number: the transaction is rolled back.
UpdateExhausted(op, s, e, patch) ==
    /\ IsDue(op, s, e, patch)
    /\ ~HasAll(s, patch)
    /\ ~HasRoomFor(1)
    /\ FailEventSequenceExhausted
    /\ UNCHANGED <<profileVars, emitted, heard, unrecorded>>

\* A repeated call hears the recorded verdict, and nothing else happens.
UpdateReplayed(row) ==
    /\ state = "READY"
    /\ Hears(row)
    /\ UNCHANGED <<serviceVars, profileVars, emitted, unrecorded>>

UpdateProfile ==
    \/ \E op \in OpIds, s \in Subjects, e \in Revisions, patch \in Patches :
        \/ UpdateNotFound(op, s, e, patch)
        \/ UpdateStale(op, s, e, patch)
        \/ UpdateUnchanged(op, s, e, patch)
        \/ UpdateApplied(op, s, e, patch)
        \/ UpdateExhausted(op, s, e, patch)
    \/ \E row \in operations : UpdateReplayed(row)

Next == Start \/ BecomesReady \/ OtherEvent \/ Crash \/ UpdateProfile

Spec == Init /\ [][Next]_vars
-----------------------------------------------------------------------------
Changes(s) == {row \in operations : row.subject = s /\ row.changed}
Writers(s, k, revision) == {row \in Changes(s) : k \in DOMAIN row.patch /\ row.revision <= revision}

\* Setting k of subject s had value v at a revision: the last change that
\* names it by then gave it that value.
HadValue(s, k, v, revision) ==
    \E row \in Writers(s, k, revision) :
        /\ row.patch[k] = v
        /\ \A other \in Writers(s, k, revision) : other.revision <= row.revision

\* A profile is what its changes made it, in the order of their revisions:
\* each revision is the work of one operation, no patch is lost or applied
\* twice by a retry, a crash or a call with the revision of another caller,
\* and a call that was told nothing had to change asked for what there was.
ProfileLedger ==
    \A s \in Subjects :
        /\ \A r \in 1..profiles[s].revision :
            \E row \in Changes(s) : row.revision = r /\ row.expected = r - 1
        /\ \A a, b \in Changes(s) : a.revision = b.revision => a = b
        /\ \A row \in Changes(s) : row.revision \in 1..profiles[s].revision
        /\ \A k \in Keys :
            /\ k \in DOMAIN profiles[s].settings =>
                HadValue(s, k, profiles[s].settings[k], profiles[s].revision)
            /\ Writers(s, k, profiles[s].revision) # {} => k \in DOMAIN profiles[s].settings
        /\ \A row \in operations :
            row.subject = s /\ row.code = "OK" /\ ~row.changed =>
                \A k \in DOMAIN row.patch : HadValue(s, k, row.patch[k], row.revision)

\* One verdict per operation is on record, whatever its subject.  A success
\* that anybody hears is that verdict, across repetitions, crashes and
\* restarts; a refusal may not be, once for each record the storage failed
\* to write and never without such a failure.
OneVerdictPerOperation ==
    /\ \A a, b \in operations : a.op = b.op => a = b
    /\ \A row \in heard \ operations : row.code # "OK"
    /\ Cardinality(heard \ operations) <= unrecorded

\* Within one incarnation of the service the events of a subject name its
\* revisions one after the other, up to the one it has: none is left out,
\* repeated or announced for a call that changed nothing.
EventsTrackProfiles ==
    \A i \in DOMAIN emitted :
        LET later == {j \in DOMAIN emitted : j > i /\ emitted[j].subject = emitted[i].subject}
        IN  /\ emitted[i].revision + Cardinality(later) = profiles[emitted[i].subject].revision
            /\ \A j \in DOMAIN emitted : i < j => emitted[i].sequence < emitted[j].sequence

\* Verdicts stay as they were recorded, and a profile only ever changes with
\* its revision, by one, and together with the record of the operation.
HistoryIsPermanent ==
    [][ /\ operations \subseteq operations'
        /\ \A s \in Subjects :
            profiles'[s] # profiles[s] =>
                /\ profiles'[s].revision = profiles[s].revision + 1
                /\ \E row \in operations' \ operations :
                    row.subject = s /\ row.changed /\ row.revision = profiles'[s].revision ]_vars

SameCall(a, b) ==
    a.op = b.op /\ a.subject = b.subject /\ a.expected = b.expected /\ a.patch = b.patch

\* What the tickets claim of retries: they replay unchanged results, valid
\* NOT_FOUND and STALE_REVISION outcomes included, after later changes.
RetriesReplay == \A a, b \in heard : SameCall(a, b) => a = b
=============================================================================
