------------------------ MODULE SessionProfilesProofs ------------------------
(***************************************************************************)
(* Proofs about the profiles, for any operation IDs, subjects, settings,   *)
(* patches and limits, and any number of crashes.                          *)
(***************************************************************************)
EXTENDS SessionProfiles, SequenceTheorems, FiniteSetTheorems, TLAPS

-----------------------------------------------------------------------------
(* Patches.                                                                *)

\* A patch over settings: keys of both, values of the patch first.
LEMMA MergedProperties ==
    ASSUME NEW settings \in Settings, NEW patch \in Settings
    PROVE  /\ Merged(settings, patch) \in Settings
           /\ DOMAIN Merged(settings, patch) = DOMAIN settings \cup DOMAIN patch
           /\ \A k \in DOMAIN patch : Merged(settings, patch)[k] = patch[k]
           /\ \A k \in DOMAIN settings \ DOMAIN patch : Merged(settings, patch)[k] = settings[k]
  <1> DEFINE keys == DOMAIN settings \cup DOMAIN patch
  <1>1. PICK a \in SUBSET Keys : settings \in [a -> Values]
    BY DEF Settings
  <1>2. PICK b \in SUBSET Keys : patch \in [b -> Values]
    BY DEF Settings
  <1>3. Merged(settings, patch) \in [keys -> Values] /\ keys \in SUBSET Keys
    BY <1>1, <1>2 DEF Merged
  <1> QED
    BY <1>3 DEF Settings, Merged

LEMMA NoSettingsIsSettings == NoSettings \in Settings
  <1>1. NoSettings \in [{} -> Values]
    BY DEF NoSettings
  <1> QED
    BY <1>1 DEF Settings

LEMMA PatchIsSettings == ASSUME NEW patch \in Patches PROVE patch \in Settings
  BY PatchesAssumption
-----------------------------------------------------------------------------
(* Every step leaves the tables alone, refuses without a record, records a *)
(* verdict, or applies a patch together with its record.                   *)

QuietStep == UNCHANGED <<profileVars, unrecorded>> /\ heard' \subseteq heard \cup operations

\* The record of a refusal was not written, and the refusal is heard.
RefusingStep(row) ==
    /\ row \in Row /\ row.code # "OK"
    /\ UNCHANGED profileVars
    /\ heard' = heard \cup {row}
    /\ unrecorded < MaxUnrecorded /\ unrecorded' = unrecorded + 1

Records(row) ==
    /\ row \in Row
    /\ \A other \in operations : other.op # row.op
    /\ operations' = operations \cup {row}
    /\ heard' \subseteq heard \cup {row}
    /\ unrecorded' = unrecorded

\* A success without a change asked for what there was.
SettlingStep(row) ==
    /\ Records(row)
    /\ ~row.changed
    /\ profiles' = profiles
    /\ row.code = "OK" =>
        /\ row.revision = profiles[row.subject].revision
        /\ row.revision > 0
        /\ Merged(profiles[row.subject].settings, row.patch) = profiles[row.subject].settings

ApplyingStep(row) ==
    /\ Records(row)
    /\ row.changed /\ row.code = "OK"
    /\ row.expected = profiles[row.subject].revision
    /\ row.revision = row.expected + 1
    /\ row.revision \in Revisions
    /\ profiles' = Patched(row.subject, row.patch)

LEMMA SettlesIsSettling ==
    ASSUME TypeOK, NEW op \in OpIds, NEW s \in Subjects, NEW e \in Revisions, NEW patch \in Patches,
           UpdateNotFound(op, s, e, patch) \/ UpdateStale(op, s, e, patch)
               \/ UpdateUnchanged(op, s, e, patch)
    PROVE  \E row \in Row : SettlingStep(row) \/ RefusingStep(row)
  <1> DEFINE found(code, revision) == Verdict(op, s, e, patch, code, revision, FALSE)
  <1>1. patch \in Settings
    BY PatchIsSettings
  <1>2. profiles[s].revision \in Revisions /\ 0 \in Revisions
    BY RevisionAssumption DEF TypeOK, Profile, Revisions
  <1>3. \A code \in {"OK", "NOT_FOUND", "STALE_REVISION"}, revision \in Revisions :
            found(code, revision) \in Row
    BY <1>1 DEF Verdict, Row
  <1>4. ASSUME NEW row, Settles(row), row \in Row, Accepts(op, s, e), row.op = op
        PROVE  Records(row) /\ profiles' = profiles
    BY <1>4 DEF Settles, Recorded, Hears, Records, Accepts, Fresh
  <1>8. ASSUME NEW row, RefusesUnrecorded(row), row \in Row, row.code # "OK"
        PROVE  RefusingStep(row)
    BY <1>8 DEF RefusesUnrecorded, Hears, RefusingStep
  <1>5. CASE UpdateNotFound(op, s, e, patch)
    <2> DEFINE row == found("NOT_FOUND", 0)
    <2>1. Refuses(row) /\ row \in Row /\ Accepts(op, s, e)
      BY <1>2, <1>3, <1>5 DEF UpdateNotFound
    <2>2. ASSUME Settles(row) PROVE SettlingStep(row)
      BY <1>4, <2>1, <2>2 DEF SettlingStep, Verdict
    <2>3. ASSUME RefusesUnrecorded(row) PROVE RefusingStep(row)
      BY <1>8, <2>1, <2>3 DEF Verdict
    <2> QED
      BY <2>1, <2>2, <2>3 DEF Refuses
  <1>6. CASE UpdateStale(op, s, e, patch)
    <2> DEFINE row == found("STALE_REVISION", profiles[s].revision)
    <2>1. Refuses(row) /\ row \in Row /\ Accepts(op, s, e)
      BY <1>2, <1>3, <1>6 DEF UpdateStale
    <2>2. ASSUME Settles(row) PROVE SettlingStep(row)
      BY <1>4, <2>1, <2>2 DEF SettlingStep, Verdict
    <2>3. ASSUME RefusesUnrecorded(row) PROVE RefusingStep(row)
      BY <1>8, <2>1, <2>3 DEF Verdict
    <2> QED
      BY <2>1, <2>2, <2>3 DEF Refuses
  <1>7. CASE UpdateUnchanged(op, s, e, patch)
    <2> DEFINE row == found("OK", e)
    <2>1. Settles(row) /\ row \in Row /\ Accepts(op, s, e)
      BY <1>3, <1>7 DEF UpdateUnchanged, IsDue
    <2>2. e = profiles[s].revision /\ e > 0
          /\ Merged(profiles[s].settings, patch) = profiles[s].settings
      BY <1>7 DEF UpdateUnchanged, IsDue, IsStale, HasAll, Exists
    <2>3. SettlingStep(row)
      BY <1>4, <2>1, <2>2 DEF SettlingStep, Verdict
    <2> QED
      BY <2>1, <2>3
  <1> QED
    BY <1>5, <1>6, <1>7

LEMMA AppliedIsApplying ==
    ASSUME TypeOK, NEW op \in OpIds, NEW s \in Subjects, NEW e \in Revisions, NEW patch \in Patches,
           UpdateApplied(op, s, e, patch)
    PROVE  ApplyingStep(Verdict(op, s, e, patch, "OK", e + 1, TRUE))
  <1> DEFINE row == Verdict(op, s, e, patch, "OK", e + 1, TRUE)
  <1>1. patch \in Settings
    BY PatchIsSettings
  <1>2. e + 1 \in Revisions
    BY RevisionAssumption DEF UpdateApplied, IsDue, Accepts, Revisions
  <1>3. row \in Row
    BY <1>1, <1>2 DEF Verdict, Row
  <1>4. Records(row)
    BY <1>3 DEF UpdateApplied, IsDue, Accepts, Fresh, Recorded, Hears, Records, Verdict
  <1>5. e = profiles[s].revision /\ profiles' = Patched(s, patch)
    BY DEF UpdateApplied, IsDue, IsStale
  <1> QED
    BY <1>2, <1>4, <1>5 DEF ApplyingStep, Verdict

LEMMA StepKinds ==
    ASSUME TypeOK, [Next]_vars
    PROVE  QuietStep \/ \E row \in Row : RefusingStep(row) \/ SettlingStep(row) \/ ApplyingStep(row)
  <1>1. CASE Start \/ BecomesReady \/ OtherEvent \/ Crash \/ UNCHANGED vars
    BY <1>1 DEF Start, BecomesReady, OtherEvent, Crash, vars, QuietStep
  <1>2. CASE UpdateProfile
    <2>1. ASSUME NEW row \in operations, UpdateReplayed(row)
          PROVE  QuietStep
      BY <2>1 DEF UpdateReplayed, Hears, QuietStep
    <2>2. ASSUME NEW op \in OpIds, NEW s \in Subjects, NEW e \in Revisions, NEW patch \in Patches,
                 UpdateExhausted(op, s, e, patch)
          PROVE  QuietStep
      BY <2>2 DEF UpdateExhausted, QuietStep
    <2>3. ASSUME NEW op \in OpIds, NEW s \in Subjects, NEW e \in Revisions, NEW patch \in Patches,
                 UpdateApplied(op, s, e, patch)
          PROVE  \E row \in Row : ApplyingStep(row)
      BY <2>3, AppliedIsApplying DEF ApplyingStep, Records
    <2> QED
      BY <1>2, <2>1, <2>2, <2>3, SettlesIsSettling DEF UpdateProfile
  <1> QED
    BY <1>1, <1>2 DEF Next
-----------------------------------------------------------------------------
(* Typing.                                                                 *)

LEMMA ServiceTypeKept ==
    ASSUME TypeOK, [Next]_vars
    PROVE  ServiceTypeOK'
  <1>1. eventSequence \in 0..MaxSequence /\ quitting \in BOOLEAN /\ state \in States
    BY DEF TypeOK, ServiceTypeOK
  <1>2. NextSequence(1) \in 0..MaxSequence
    BY <1>1, MaxSequenceAssumption DEF NextSequence
  <1>3. /\ Stop \/ StartProcess \/ UNCHANGED serviceVars \/ FailEventSequenceExhausted => ServiceTypeOK'
        /\ eventSequence' = NextSequence(1) /\ UNCHANGED <<state, quitting>> => ServiceTypeOK'
        /\ SetState("READY") => ServiceTypeOK'
    <2>1. ASSUME Stop \/ StartProcess
          PROVE  ServiceTypeOK'
      <3>1. state' \in States /\ eventSequence' \in 0..MaxSequence
        BY <2>1, MaxSequenceAssumption DEF Stop, StopProcess, StartProcess, States
      <3>2. quitting' \in BOOLEAN
        BY <2>1 DEF Stop, StopProcess, StartProcess
      <3> QED
        BY <3>1, <3>2 DEF ServiceTypeOK
    <2>3. UNCHANGED serviceVars => ServiceTypeOK'
      BY <1>1 DEF serviceVars, ServiceTypeOK
    <2>4. FailEventSequenceExhausted => ServiceTypeOK'
      BY <1>1 DEF FailEventSequenceExhausted, ServiceTypeOK, States
    <2>5. eventSequence' = NextSequence(1) /\ UNCHANGED <<state, quitting>> => ServiceTypeOK'
      BY <1>1, <1>2 DEF ServiceTypeOK
    <2>6. SetState("READY") /\ HasRoomFor(1) => ServiceTypeOK'
      BY <1>1, <1>2 DEF SetState, ServiceTypeOK, States
    <2>7. SetState("READY") /\ ~HasRoomFor(1) => ServiceTypeOK'
      BY <2>4 DEF SetState
    <2> QED
      BY <2>1, <2>3, <2>4, <2>5, <2>6, <2>7
  <1>4. CASE Start \/ BecomesReady \/ OtherEvent \/ Crash \/ UNCHANGED vars
    BY <1>3, <1>4 DEF Start, BecomesReady, OtherEvent, Crash, vars, serviceVars
  <1>5. ASSUME NEW row \in operations, UpdateReplayed(row)
        PROVE  ServiceTypeOK'
    BY <1>3, <1>5 DEF UpdateReplayed
  <1>6. ASSUME NEW op, NEW s, NEW e, NEW patch,
               UpdateNotFound(op, s, e, patch) \/ UpdateStale(op, s, e, patch)
                   \/ UpdateUnchanged(op, s, e, patch)
        PROVE  ServiceTypeOK'
    BY <1>3, <1>6 DEF UpdateNotFound, UpdateStale, UpdateUnchanged, Refuses, Settles, RefusesUnrecorded
  <1>7. ASSUME NEW op, NEW s, NEW e, NEW patch,
               UpdateApplied(op, s, e, patch) \/ UpdateExhausted(op, s, e, patch)
        PROVE  ServiceTypeOK'
    BY <1>3, <1>7 DEF UpdateApplied, UpdateExhausted
  <1> QED
    BY <1>4, <1>5, <1>6, <1>7 DEF Next, UpdateProfile

\* Nothing was announced by a process that is not there, and no event has a
\* number that is still to be given out.
NumbersAreUsed ==
    /\ state = "STOPPED" => emitted = <<>>
    /\ \A i \in DOMAIN emitted : emitted[i].sequence <= eventSequence

\* What a step does to the events of the incarnation.
Announces(row) ==
    /\ ApplyingStep(row)
    /\ HasRoomFor(1)
    /\ eventSequence' = NextSequence(1)
    /\ emitted' = Notes(row)
    /\ state' = "READY"

Silent ==
    /\ emitted' = emitted
    /\ \/ eventSequence' >= eventSequence
       \/ state = "STOPPED"
    /\ state' = "STOPPED" => state = "STOPPED"

LEMMA EmittedKinds ==
    ASSUME TypeOK, [Next]_vars
    PROVE  \/ emitted' = <<>>
           \/ Silent /\ ~\E row \in Row : ApplyingStep(row)
           \/ \E row \in Row : Announces(row)
  <1>1. eventSequence \in Nat /\ NextSequence(1) >= eventSequence
    BY MaxSequenceAssumption DEF TypeOK, ServiceTypeOK, NextSequence
  <1>2. ASSUME NEW row \in Row, ApplyingStep(row)
        PROVE  operations' # operations
    BY <1>2 DEF ApplyingStep, Records
  <1>3. CASE Start \/ BecomesReady \/ OtherEvent \/ UNCHANGED vars
    BY <1>1, <1>2, <1>3
       DEF Start, StartProcess, Running, BecomesReady, SetState, FailEventSequenceExhausted, OtherEvent,
           vars, serviceVars, profileVars, Silent
  <1>4. CASE Crash
    BY <1>4 DEF Crash, Stop
  <1>5. ASSUME NEW row \in operations, UpdateReplayed(row)
        PROVE  Silent /\ operations' = operations
    BY <1>1, <1>5 DEF UpdateReplayed, serviceVars, profileVars, Silent
  <1>6. ASSUME NEW row, Refuses(row) \/ Settles(row), state = "READY"
        PROVE  emitted' = <<>> \/ (Silent /\ UNCHANGED profiles)
    BY <1>1, <1>6 DEF Refuses, Settles, RefusesUnrecorded, Stop, serviceVars, profileVars, Silent
  <1>7. ASSUME NEW row \in Row, ApplyingStep(row), TypeOK
        PROVE  profiles' # profiles
    <2>1. profiles[row.subject].revision \in Nat /\ profiles \in [Subjects -> Profile]
          /\ row.subject \in Subjects
      BY <1>7, RevisionAssumption DEF TypeOK, Profile, Revisions, Row
    <2>2. profiles'[row.subject].revision = profiles[row.subject].revision + 1
      BY <1>7, <2>1 DEF ApplyingStep, Patched
    <2> QED
      BY <2>1, <2>2
  <1>8. ASSUME NEW op \in OpIds, NEW s \in Subjects, NEW e \in Revisions, NEW patch \in Patches,
               UpdateNotFound(op, s, e, patch) \/ UpdateStale(op, s, e, patch)
                   \/ UpdateUnchanged(op, s, e, patch)
        PROVE  emitted' = <<>> \/ (Silent /\ UNCHANGED profiles)
    BY <1>6, <1>8 DEF UpdateNotFound, UpdateStale, UpdateUnchanged, IsDue, Accepts
  <1>9. ASSUME NEW op \in OpIds, NEW s \in Subjects, NEW e \in Revisions, NEW patch \in Patches,
               UpdateExhausted(op, s, e, patch)
        PROVE  Silent /\ operations' = operations
    BY <1>1, <1>9 DEF UpdateExhausted, FailEventSequenceExhausted, profileVars, Silent
  <1>10. ASSUME NEW op \in OpIds, NEW s \in Subjects, NEW e \in Revisions, NEW patch \in Patches,
                UpdateApplied(op, s, e, patch)
         PROVE  emitted' = <<>> \/ \E row \in Row : Announces(row)
    <2> DEFINE row == Verdict(op, s, e, patch, "OK", e + 1, TRUE)
    <2>1. ApplyingStep(row)
      BY <1>10, AppliedIsApplying
    <2>3. row \in Row
      BY <2>1 DEF ApplyingStep, Records
    <2>2. emitted' = <<>> \/ Announces(row)
      BY <1>10, <2>1 DEF UpdateApplied, IsDue, Accepts, Stop, Announces
    <2> QED
      BY <2>2, <2>3
  <1> QED
    BY <1>2, <1>3, <1>4, <1>5, <1>7, <1>8, <1>9, <1>10 DEF Next, UpdateProfile
-----------------------------------------------------------------------------
(* The invariant: the properties, typing, and two facts about the records  *)
(* and the events that the properties rest on.                             *)

\* Nobody hears of a revision that is still to come.
VerdictsAreOfThePast ==
    \A row \in operations : row.code = "OK" => row.revision <= profiles[row.subject].revision

\* Changes are successes.
ChangesSucceed == \A row \in operations : row.changed => row.code = "OK"

\* So that they can be counted.
FewUnrecorded == IsFiniteSet(heard \ operations)

IInv ==
    /\ TypeOK /\ OneVerdictPerOperation /\ FewUnrecorded /\ NumbersAreUsed
    /\ VerdictsAreOfThePast /\ ChangesSucceed

LEMMA InitInv == Init => IInv /\ ProfileLedger /\ EventsTrackProfiles
  <1> SUFFICES ASSUME Init PROVE IInv /\ ProfileLedger /\ EventsTrackProfiles
    OBVIOUS
  <1>1. ServiceTypeOK
    <2>1. state \in States /\ eventSequence \in 0..MaxSequence
      BY MaxSequenceAssumption DEF Init, States
    <2>2. quitting \in BOOLEAN
      BY DEF Init
    <2> QED
      BY <2>1, <2>2 DEF ServiceTypeOK
  <1>2. profiles \in [Subjects -> Profile]
    BY NoSettingsIsSettings, RevisionAssumption DEF Init, Profile, Revisions
  <1>3. emitted = <<>> /\ operations = {} /\ heard = {} /\ emitted \in Seq(Event) /\ DOMAIN emitted = {}
    BY EmptySeq DEF Init
  <1>8. unrecorded \in 0..MaxUnrecorded /\ unrecorded = 0
    BY UnrecordedAssumption DEF Init
  <1>9. heard \ operations = {} /\ IsFiniteSet({}) /\ Cardinality({}) = 0
    BY <1>3, FS_EmptySet
  <1>10. OneVerdictPerOperation /\ FewUnrecorded
    BY <1>3, <1>8, <1>9 DEF OneVerdictPerOperation, FewUnrecorded
  <1>4. IInv
    BY <1>1, <1>2, <1>3, <1>8, <1>10 DEF TypeOK, IInv, NumbersAreUsed,
       VerdictsAreOfThePast, ChangesSucceed
  <1>5. \A s \in Subjects : profiles[s].revision = 0 /\ profiles[s].settings = NoSettings
    BY DEF Init
  <1>6. DOMAIN NoSettings = {}
    BY DEF NoSettings
  <1>7. ProfileLedger
    BY <1>3, <1>5, <1>6 DEF ProfileLedger, Changes, Writers
  <1> QED
    BY <1>3, <1>4, <1>7 DEF EventsTrackProfiles

LEMMA PatchedType ==
    ASSUME TypeOK, NEW row, ApplyingStep(row)
    PROVE  /\ profiles' \in [Subjects -> Profile]
           /\ row.subject \in Subjects /\ row.patch \in Settings
           /\ profiles[row.subject] \in Profile
           /\ profiles'[row.subject].revision = row.revision
           /\ profiles'[row.subject].settings = Merged(profiles[row.subject].settings, row.patch)
           /\ \A s \in Subjects \ {row.subject} : profiles'[s] = profiles[s]
  <1> DEFINE old == profiles[row.subject]
  <1>1. row.subject \in Subjects /\ row.patch \in Settings
    BY DEF ApplyingStep, Records, Row
  <1>2. old \in Profile /\ old.settings \in Settings /\ profiles \in [Subjects -> Profile]
    BY <1>1 DEF TypeOK, Profile
  <1>3. Merged(old.settings, row.patch) \in Settings
    BY <1>1, <1>2, MergedProperties
  <1>4. profiles' = [profiles EXCEPT ![row.subject] =
            [revision |-> row.revision, settings |-> Merged(old.settings, row.patch)]]
    BY DEF ApplyingStep, Patched
  <1>5. [revision |-> row.revision, settings |-> Merged(old.settings, row.patch)] \in Profile
    BY <1>3 DEF Profile, ApplyingStep
  <1>6. /\ profiles' \in [Subjects -> Profile]
        /\ \A s \in Subjects \ {row.subject} : profiles'[s] = profiles[s]
        /\ profiles'[row.subject] =
             [revision |-> row.revision, settings |-> Merged(old.settings, row.patch)]
    BY <1>1, <1>2, <1>4, <1>5
  <1> QED
    BY <1>1, <1>2, <1>6

LEMMA TypeKept ==
    ASSUME TypeOK, [Next]_vars
    PROVE  TypeOK'
  <1>1. ServiceTypeOK'
    BY ServiceTypeKept
  <1>2. profiles' \in [Subjects -> Profile] /\ operations' \subseteq Row /\ heard' \subseteq Row
    <2>1. profiles \in [Subjects -> Profile] /\ operations \subseteq Row /\ heard \subseteq Row
      BY DEF TypeOK
    <2>2. CASE QuietStep
      BY <2>1, <2>2 DEF QuietStep, profileVars
    <2>3. ASSUME NEW row \in Row, SettlingStep(row)
          PROVE  profiles' \in [Subjects -> Profile] /\ operations' \subseteq Row /\ heard' \subseteq Row
      BY <2>1, <2>3 DEF SettlingStep, Records
    <2>4. ASSUME NEW row \in Row, ApplyingStep(row)
          PROVE  profiles' \in [Subjects -> Profile] /\ operations' \subseteq Row /\ heard' \subseteq Row
      <3>1. operations' \subseteq Row /\ heard' \subseteq Row
        BY <2>1, <2>4 DEF ApplyingStep, Records
      <3> QED
        BY <2>4, <3>1, PatchedType
    <2>5. ASSUME NEW row \in Row, RefusingStep(row)
          PROVE  profiles' \in [Subjects -> Profile] /\ operations' \subseteq Row /\ heard' \subseteq Row
      BY <2>1, <2>5 DEF RefusingStep, profileVars
    <2> QED
      BY <2>2, <2>3, <2>4, <2>5, StepKinds
  <1>3. emitted' \in Seq(Event)
    <2>1. ASSUME NEW row \in Row, Announces(row)
          PROVE  emitted' \in Seq(Event)
      <3>1. NextSequence(1) \in 0..MaxSequence
        BY MaxSequenceAssumption DEF NextSequence, TypeOK, ServiceTypeOK
      <3>2. [sequence |-> NextSequence(1), subject |-> row.subject, revision |-> row.revision] \in Event
        BY <3>1 DEF Event, Row
      <3> QED
        BY <2>1, <3>2, AppendProperties DEF Announces, Notes, TypeOK
    <2> QED
      BY <2>1, EmittedKinds, EmptySeq DEF Silent, TypeOK
  <1>4. unrecorded' \in 0..MaxUnrecorded
    <2>1. unrecorded \in 0..MaxUnrecorded
      BY DEF TypeOK
    <2>2. ASSUME NEW row, SettlingStep(row) \/ ApplyingStep(row)
          PROVE  unrecorded' = unrecorded
      BY <2>2 DEF SettlingStep, ApplyingStep, Records
    <2>3. ASSUME NEW row, RefusingStep(row)
          PROVE  unrecorded' \in 0..MaxUnrecorded
      BY <2>1, <2>3, UnrecordedAssumption DEF RefusingStep
    <2> QED
      BY <2>1, <2>2, <2>3, StepKinds DEF QuietStep
  <1> QED
    BY <1>1, <1>2, <1>3, <1>4 DEF TypeOK

LEMMA NumbersKept ==
    ASSUME TypeOK, NumbersAreUsed, [Next]_vars
    PROVE  NumbersAreUsed'
  <1>1. /\ eventSequence \in Nat /\ eventSequence' \in Nat /\ emitted \in Seq(Event)
        /\ \A i \in DOMAIN emitted : emitted[i].sequence \in Nat
    <2>1. eventSequence \in Nat /\ emitted \in Seq(Event)
      BY DEF TypeOK, ServiceTypeOK
    <2>2. eventSequence' \in Nat
      BY ServiceTypeKept DEF ServiceTypeOK
    <2>3. \A i \in DOMAIN emitted : emitted[i] \in Event
      BY <2>1, ElementOfSeq, LenProperties
    <2> QED
      BY <2>1, <2>2, <2>3 DEF Event
  <1>2. CASE emitted' = <<>>
    BY <1>2 DEF NumbersAreUsed
  <1>3. CASE Silent
    BY <1>1, <1>3, EmptySeq DEF Silent, NumbersAreUsed
  <1>4. ASSUME NEW row \in Row, Announces(row)
        PROVE  NumbersAreUsed'
    <2> DEFINE event == [sequence |-> NextSequence(1), subject |-> row.subject, revision |-> row.revision]
    <2>1. emitted' = Append(emitted, event) /\ state' # "STOPPED" /\ eventSequence' = eventSequence + 1
      BY <1>1, <1>4 DEF Announces, Notes, HasRoomFor, NextSequence
    <2>2. /\ DOMAIN emitted' = 1..(Len(emitted) + 1) /\ DOMAIN emitted = 1..Len(emitted)
          /\ Len(emitted) \in Nat /\ emitted'[Len(emitted) + 1] = event
          /\ \A i \in 1..Len(emitted) : emitted'[i] = emitted[i]
      BY <1>1, <2>1, LenProperties, AppendProperties
    <2>3. event.sequence = eventSequence'
      BY <1>4 DEF Announces
    <2> QED
      BY <1>1, <2>1, <2>2, <2>3 DEF NumbersAreUsed
  <1> QED
    BY <1>2, <1>3, <1>4, EmittedKinds

\* What is off the record stays what it was, or loses elements.
LEMMA FewerUnrecorded ==
    ASSUME IInv, (heard \ operations)' \subseteq heard \ operations, unrecorded' = unrecorded
    PROVE  /\ FewUnrecorded' /\ (Cardinality(heard \ operations) <= unrecorded)'
           /\ \A row \in (heard \ operations)' : row.code # "OK"
  <1> DEFINE off == heard \ operations
  <1>1. IsFiniteSet(off) /\ Cardinality(off) <= unrecorded /\ unrecorded \in Nat
    BY UnrecordedAssumption DEF IInv, TypeOK, OneVerdictPerOperation, FewUnrecorded
  <1>2. off' \subseteq off
    OBVIOUS
  <1>3. IsFiniteSet(off') /\ Cardinality(off') <= Cardinality(off)
    BY <1>1, <1>2, FS_Subset
  <1>4. Cardinality(off) \in Nat /\ Cardinality(off') \in Nat
    BY <1>1, <1>3, FS_CardinalityType
  <1>5. \A row \in off' : row.code # "OK"
    BY <1>2 DEF IInv, OneVerdictPerOperation
  <1> QED
    BY <1>1, <1>3, <1>4, <1>5 DEF FewUnrecorded

\* A refusal that is not recorded costs a failure of the storage.
LEMMA RefusalsKeep ==
    ASSUME IInv, NEW row, RefusingStep(row)
    PROVE  OneVerdictPerOperation' /\ FewUnrecorded'
  <1> DEFINE off == heard \ operations
  <1>1. /\ IsFiniteSet(off) /\ Cardinality(off) <= unrecorded /\ unrecorded \in Nat
        /\ operations' = operations /\ unrecorded' = unrecorded + 1
    BY UnrecordedAssumption
       DEF IInv, TypeOK, OneVerdictPerOperation, FewUnrecorded, RefusingStep, profileVars
  <1>2. off' \subseteq off \cup {row} /\ row.code # "OK"
    BY <1>1 DEF RefusingStep
  <1>3. /\ IsFiniteSet(off \cup {row})
        /\ Cardinality(off \cup {row}) = IF row \in off THEN Cardinality(off) ELSE Cardinality(off) + 1
    BY <1>1, FS_AddElement
  <1>4. IsFiniteSet(off') /\ Cardinality(off') <= Cardinality(off \cup {row})
    BY <1>2, <1>3, FS_Subset
  <1>5. Cardinality(off) \in Nat /\ Cardinality(off') \in Nat
    BY <1>1, <1>4, FS_CardinalityType
  <1>6. Cardinality(off') <= unrecorded'
    BY <1>1, <1>3, <1>4, <1>5
  <1>7. \A other \in off' : other.code # "OK"
    BY <1>2 DEF IInv, OneVerdictPerOperation
  <1>8. \A a, b \in operations' : a.op = b.op => a = b
    BY <1>1 DEF IInv, OneVerdictPerOperation
  <1> QED
    BY <1>4, <1>6, <1>7, <1>8 DEF OneVerdictPerOperation, FewUnrecorded

\* A recorded verdict is of an operation that had none.
LEMMA RecordsKeep ==
    ASSUME IInv, NEW row, Records(row)
    PROVE  OneVerdictPerOperation' /\ FewUnrecorded'
  <1>1. (heard \ operations)' \subseteq heard \ operations /\ unrecorded' = unrecorded
    BY DEF Records
  <1>2. \A a, b \in operations' : a.op = b.op => a = b
    BY DEF IInv, OneVerdictPerOperation, Records
  <1> QED
    BY <1>1, <1>2, FewerUnrecorded DEF OneVerdictPerOperation

LEMMA QuietKeeps ==
    ASSUME IInv, QuietStep
    PROVE  OneVerdictPerOperation' /\ FewUnrecorded'
  <1>1. (heard \ operations)' \subseteq heard \ operations /\ unrecorded' = unrecorded
    BY DEF QuietStep, profileVars
  <1>2. \A a, b \in operations' : a.op = b.op => a = b
    BY DEF IInv, OneVerdictPerOperation, QuietStep, profileVars
  <1> QED
    BY <1>1, <1>2, FewerUnrecorded DEF OneVerdictPerOperation

LEMMA VerdictsKept ==
    ASSUME IInv, [Next]_vars
    PROVE  OneVerdictPerOperation' /\ FewUnrecorded' /\ VerdictsAreOfThePast' /\ ChangesSucceed'
  <1>1. CASE QuietStep
    BY <1>1, QuietKeeps DEF QuietStep, profileVars, IInv, VerdictsAreOfThePast, ChangesSucceed
  <1>2. operations \subseteq Row /\ profiles \in [Subjects -> Profile]
        /\ \A s \in Subjects : profiles[s].revision \in Nat
    BY RevisionAssumption DEF IInv, TypeOK, Profile, Revisions
  <1>3. ASSUME NEW row \in Row, SettlingStep(row)
        PROVE  OneVerdictPerOperation' /\ FewUnrecorded' /\ VerdictsAreOfThePast' /\ ChangesSucceed'
    <2>1. row.subject \in Subjects /\ profiles' = profiles /\ operations' = operations \cup {row}
      BY <1>3 DEF SettlingStep, Records, Row
    <2>2. VerdictsAreOfThePast' /\ ChangesSucceed'
      BY <1>2, <1>3, <2>1 DEF SettlingStep, IInv, VerdictsAreOfThePast, ChangesSucceed
    <2> QED
      BY <1>3, <2>2, RecordsKeep DEF SettlingStep
  <1>4. ASSUME NEW row \in Row, ApplyingStep(row)
        PROVE  OneVerdictPerOperation' /\ FewUnrecorded' /\ VerdictsAreOfThePast' /\ ChangesSucceed'
    <2>1. /\ row.subject \in Subjects
          /\ profiles'[row.subject].revision = row.revision
          /\ row.revision = profiles[row.subject].revision + 1
          /\ \A s \in Subjects \ {row.subject} : profiles'[s] = profiles[s]
          /\ operations' = operations \cup {row}
      <3>1. /\ row.subject \in Subjects /\ profiles'[row.subject].revision = row.revision
            /\ \A s \in Subjects \ {row.subject} : profiles'[s] = profiles[s]
        BY <1>4, PatchedType DEF IInv
      <3> QED
        BY <1>4, <3>1 DEF ApplyingStep, Records
    <2>2. \A s \in Subjects : profiles'[s].revision >= profiles[s].revision /\ profiles'[s].revision \in Nat
      BY <1>2, <2>1
    <2>3. VerdictsAreOfThePast'
      <3> SUFFICES ASSUME NEW other \in operations', other.code = "OK"
                   PROVE  other.revision <= profiles'[other.subject].revision
        BY DEF VerdictsAreOfThePast
      <3>1. CASE other = row
        BY <1>2, <2>1, <2>2, <3>1
      <3>2. CASE other \in operations
        <4>1. other.revision \in Nat /\ other.subject \in Subjects
          BY <1>2, <3>2, RevisionAssumption DEF Row, Revisions
        <4>2. other.revision <= profiles[other.subject].revision
          BY <3>2 DEF IInv, VerdictsAreOfThePast
        <4> QED
          BY <1>2, <2>2, <4>1, <4>2
      <3> QED
        BY <2>1, <3>1, <3>2
    <2>4. ChangesSucceed'
      BY <1>4, <2>1 DEF ApplyingStep, IInv, ChangesSucceed
    <2> QED
      BY <1>4, <2>3, <2>4, RecordsKeep DEF ApplyingStep
  <1>5. ASSUME NEW row \in Row, RefusingStep(row)
        PROVE  OneVerdictPerOperation' /\ FewUnrecorded' /\ VerdictsAreOfThePast' /\ ChangesSucceed'
    BY <1>5, RefusalsKeep DEF RefusingStep, profileVars, IInv, VerdictsAreOfThePast, ChangesSucceed
  <1> QED
    BY <1>1, <1>3, <1>4, <1>5, StepKinds DEF IInv

LEMMA InvKept == IInv /\ [Next]_vars => IInv'
  BY TypeKept, NumbersKept, VerdictsKept DEF IInv

LEMMA InvHolds == Spec => []IInv
  BY InitInv, InvKept, PTL DEF Spec

-----------------------------------------------------------------------------
(* What follows.                                                           *)

\* For any operation IDs, subjects, settings and limits, crashes included,
\* the profile and operation tables, the event numbers and the histories
\* keep their types: no revision and no number leaves its range.
THEOREM ProfilesTypeCorrect == Spec => []TypeOK
  BY InvHolds, PTL DEF IInv

\* An operation ID has one verdict on record.  A success that anybody heard
\* is that verdict, whatever happened to the profile or the service in the
\* meantime, and as many refusals at most were heard that are not on record
\* as the storage failed to write (updateProfile, persistOperationResult).
THEOREM VerdictsAreUnique == Spec => []OneVerdictPerOperation
  BY InvHolds, PTL DEF IInv

LEMMA StepIsPermanent ==
    ASSUME IInv, [Next]_vars
    PROVE  /\ operations \subseteq operations'
           /\ \A s \in Subjects :
               profiles'[s] # profiles[s] =>
                 /\ profiles'[s].revision = profiles[s].revision + 1
                 /\ \E row \in operations' \ operations :
                     row.subject = s /\ row.changed /\ row.revision = profiles'[s].revision
  <1>1. CASE QuietStep \/ \E row \in Row : RefusingStep(row)
    BY <1>1 DEF QuietStep, RefusingStep, profileVars
  <1>2. ASSUME NEW row \in Row, SettlingStep(row)
        PROVE  operations \subseteq operations' /\ profiles' = profiles
    BY <1>2 DEF SettlingStep, Records
  <1>3. ASSUME NEW row \in Row, ApplyingStep(row), NEW s \in Subjects, profiles'[s] # profiles[s]
        PROVE  /\ profiles'[s].revision = profiles[s].revision + 1
               /\ row \in operations' \ operations /\ row.subject = s /\ row.changed
               /\ row.revision = profiles'[s].revision
    <2>1. /\ profiles'[row.subject].revision = row.revision
          /\ \A t \in Subjects \ {row.subject} : profiles'[t] = profiles[t]
      BY <1>3, PatchedType DEF IInv
    <2>2. s = row.subject
      BY <1>3, <2>1
    <2> QED
      BY <1>3, <2>1, <2>2 DEF ApplyingStep, Records
  <1>4. ASSUME NEW row \in Row, ApplyingStep(row)
        PROVE  operations \subseteq operations'
    BY <1>4 DEF ApplyingStep, Records
  <1> QED
    BY <1>1, <1>2, <1>3, <1>4, StepKinds DEF IInv

\* No verdict is ever taken back, and a profile changes only by one revision
\* at a time, in the transaction that records the operation.
THEOREM ProfileHistoryIsPermanent == Spec => HistoryIsPermanent
  BY InvHolds, StepIsPermanent, PTL DEF Spec, HistoryIsPermanent
-----------------------------------------------------------------------------
(* The ledger: profiles are what their changes made them.                  *)

LEMMA HadValueKept ==
    ASSUME NEW s, NEW k, NEW v, NEW revision, Writers(s, k, revision)' = Writers(s, k, revision),
           HadValue(s, k, v, revision)
    PROVE  HadValue(s, k, v, revision)'
  BY DEF HadValue

\* A record that is no change of the subject leaves its changes alone.
LEMMA ChangesKept ==
    ASSUME NEW row, operations' = operations \cup {row}, NEW s, row.subject # s \/ ~row.changed
    PROVE  /\ Changes(s)' = Changes(s)
           /\ \A k, revision : Writers(s, k, revision)' = Writers(s, k, revision)
           /\ \A k, v, revision : HadValue(s, k, v, revision) => HadValue(s, k, v, revision)'
  <1>1. Changes(s)' = Changes(s)
    BY DEF Changes
  <1>2. \A k, revision : Writers(s, k, revision)' = Writers(s, k, revision)
    BY <1>1 DEF Writers
  <1> QED
    BY <1>1, <1>2, HadValueKept

LEMMA ChangesGrow ==
    ASSUME NEW row, operations' = operations \cup {row}, row.changed
    PROVE  Changes(row.subject)' = Changes(row.subject) \cup {row}
  BY DEF Changes

\* The ledger of one subject.
Ledger(s) ==
    /\ \A r \in 1..profiles[s].revision :
        \E row \in Changes(s) : row.revision = r /\ row.expected = r - 1
    /\ \A a, b \in Changes(s) : a.revision = b.revision => a = b
    /\ \A row \in Changes(s) : row.revision \in 1..profiles[s].revision
    /\ \A k \in Keys :
        /\ k \in DOMAIN profiles[s].settings =>
            HadValue(s, k, profiles[s].settings[k], profiles[s].revision)
        /\ Writers(s, k, profiles[s].revision) # {} => k \in DOMAIN profiles[s].settings
    /\ \A row \in operations :
        row.subject = s /\ row.code = "OK" /\ ~row.changed =>
            \A k \in DOMAIN row.patch : HadValue(s, k, row.patch[k], row.revision)

LEMMA LedgersAreTheLedger == ProfileLedger <=> \A s \in Subjects : Ledger(s)
  BY DEF ProfileLedger, Ledger

LEMMA LedgerOfOthers ==
    ASSUME NEW row, operations' = operations \cup {row}, NEW s \in Subjects, row.subject # s,
           profiles'[s] = profiles[s], Ledger(s)
    PROVE  Ledger(s)'
  <1>1. /\ Changes(s)' = Changes(s)
        /\ \A k, revision : Writers(s, k, revision)' = Writers(s, k, revision)
        /\ \A k, v, revision : HadValue(s, k, v, revision) => HadValue(s, k, v, revision)'
    BY ChangesKept
  <1>2. \A other \in operations' : other.subject = s => other \in operations
    OBVIOUS
  <1> QED
    BY <1>1, <1>2 DEF Ledger

LEMMA LedgerSettling ==
    ASSUME IInv, NEW row \in Row, SettlingStep(row), NEW s \in Subjects, Ledger(s)
    PROVE  Ledger(s)'
  <1>1. operations' = operations \cup {row} /\ profiles' = profiles /\ ~row.changed
    BY DEF SettlingStep, Records
  <1>2. /\ Changes(s)' = Changes(s)
        /\ \A k, revision : Writers(s, k, revision)' = Writers(s, k, revision)
        /\ \A k, v, revision : HadValue(s, k, v, revision) => HadValue(s, k, v, revision)'
    BY <1>1, ChangesKept
  <1>3. ASSUME row.subject = s, row.code = "OK", NEW k \in DOMAIN row.patch
        PROVE  HadValue(s, k, row.patch[k], row.revision)
    <2> DEFINE settings == profiles[s].settings
    <2>1. settings \in Settings /\ row.patch \in Settings
      BY DEF IInv, TypeOK, Profile, Row
    <2>2. Merged(settings, row.patch) = settings /\ row.revision = profiles[s].revision
      BY <1>3 DEF SettlingStep
    <2>3. k \in DOMAIN settings /\ settings[k] = row.patch[k]
      <3>1. /\ DOMAIN Merged(settings, row.patch) = DOMAIN settings \cup DOMAIN row.patch
            /\ Merged(settings, row.patch)[k] = row.patch[k]
        BY <1>3, <2>1, MergedProperties
      <3> HIDE DEF settings
      <3> QED
        BY <1>3, <2>2, <3>1
    <2>4. DOMAIN settings \subseteq Keys
      BY <2>1 DEF Settings
    <2> QED
      BY <2>2, <2>3, <2>4 DEF Ledger
  <1>4. \A other \in operations' :
            other.subject = s /\ other.code = "OK" /\ ~other.changed =>
                \A k \in DOMAIN other.patch : HadValue(s, k, other.patch[k], other.revision)'
    BY <1>1, <1>2, <1>3 DEF Ledger
  <1> QED
    BY <1>1, <1>2, <1>4 DEF Ledger

LEMMA LedgerApplying ==
    ASSUME IInv, NEW row \in Row, ApplyingStep(row), Ledger(row.subject)
    PROVE  Ledger(row.subject)'
  <1> DEFINE s == row.subject
  <1>0. PICK old, revision, new :
            old = profiles[s] /\ revision = profiles[s].revision /\ new = profiles'[s].settings
    OBVIOUS
  <1>1. /\ row.subject \in Subjects /\ row.patch \in Settings
        /\ profiles'[s].revision = row.revision
        /\ profiles'[s].settings = Merged(old.settings, row.patch)
        /\ old \in Profile
    BY <1>0, PatchedType DEF IInv
  <1>2. /\ revision \in Nat /\ row.expected = revision /\ row.revision = revision + 1
        /\ operations' = operations \cup {row} /\ row.changed /\ old.settings \in Settings
    BY <1>0, <1>1, RevisionAssumption DEF Profile, Revisions, ApplyingStep, Records
  <1>3. Changes(s)' = Changes(s) \cup {row}
    BY <1>2, ChangesGrow
  <1>4. \A other \in Changes(s) : other.revision \in 1..revision
    BY <1>0 DEF Ledger
  <1>5. \A k, r : r \in Nat /\ r <= revision => Writers(s, k, r)' = Writers(s, k, r)
    BY <1>2, <1>3 DEF Writers
  <1>6. \A k : Writers(s, k, revision + 1)' =
            Writers(s, k, revision) \cup IF k \in DOMAIN row.patch THEN {row} ELSE {}
    BY <1>2, <1>3, <1>4 DEF Writers
  <1>7. \A r \in 1..(revision + 1) :
            \E other \in Changes(s)' : other.revision = r /\ other.expected = r - 1
    BY <1>0, <1>2, <1>3 DEF Ledger
  <1>8. \A a, b \in Changes(s)' : a.revision = b.revision => a = b
    BY <1>2, <1>3, <1>4 DEF Ledger
  <1>9. \A other \in Changes(s)' : other.revision \in 1..(revision + 1)
    BY <1>2, <1>3, <1>4
  <1>10. ASSUME NEW k \in Keys
         PROVE  /\ k \in DOMAIN new =>
                    HadValue(s, k, new[k], revision + 1)'
                /\ Writers(s, k, revision + 1)' # {} => k \in DOMAIN new
    <2>1. /\ DOMAIN new = DOMAIN old.settings \cup DOMAIN row.patch
          /\ k \in DOMAIN row.patch => new[k] = row.patch[k]
          /\ k \in DOMAIN old.settings \ DOMAIN row.patch =>
                new[k] = old.settings[k]
      <3>1. new = Merged(old.settings, row.patch) /\ old.settings \in Settings /\ row.patch \in Settings
        BY <1>0, <1>1, <1>2
      <3> QED
        BY <3>1, MergedProperties
    <2>2. CASE k \in DOMAIN row.patch
      <3>1. Writers(s, k, revision + 1)' = Writers(s, k, revision) \cup {row}
        BY <1>6, <2>2
      <3>2. \A other \in Writers(s, k, revision) : other.revision <= row.revision
        BY <1>2, <1>4 DEF Writers
      <3>3. HadValue(s, k, row.patch[k], revision + 1)'
        BY <1>2, <3>1, <3>2 DEF HadValue
      <3> QED
        BY <2>1, <2>2, <3>3
    <2>3. CASE k \notin DOMAIN row.patch
      <3>1. Writers(s, k, revision + 1)' = Writers(s, k, revision)
        BY <1>6, <2>3
      <3>2. k \in DOMAIN old.settings => HadValue(s, k, old.settings[k], revision)
        BY <1>0 DEF Ledger
      <3>3. k \in DOMAIN old.settings => HadValue(s, k, old.settings[k], revision + 1)'
        BY <3>1, <3>2 DEF HadValue
      <3> QED
        BY <1>0, <2>1, <2>3, <3>1, <3>3 DEF Ledger
    <2> QED
      BY <2>2, <2>3
  <1>11. ASSUME NEW other \in operations', other.subject = s, other.code = "OK", ~other.changed,
                NEW k \in DOMAIN other.patch
         PROVE  HadValue(s, k, other.patch[k], other.revision)'
    <2>1. other \in operations
      BY <1>2, <1>11
    <2>2. other.revision \in Nat /\ other.revision <= revision
      BY <1>0, <1>11, <2>1, RevisionAssumption
         DEF IInv, TypeOK, VerdictsAreOfThePast, Row, Revisions
    <2>3. HadValue(s, k, other.patch[k], other.revision)
      BY <1>11, <2>1 DEF Ledger
    <2>4. Writers(s, k, other.revision)' = Writers(s, k, other.revision)
      BY <1>5, <2>2
    <2> QED
      BY <2>3, <2>4, HadValueKept
  <1>12. /\ profiles'[s].revision = revision + 1
         /\ \A k \in Keys :
            /\ k \in DOMAIN profiles'[s].settings =>
                (HadValue(s, k, profiles[s].settings[k], profiles[s].revision))'
            /\ (Writers(s, k, profiles[s].revision))' # {} => k \in DOMAIN profiles'[s].settings
    BY <1>0, <1>1, <1>2, <1>10
  <1> QED
    BY <1>7, <1>8, <1>9, <1>11, <1>12 DEF Ledger

LEMMA LedgerKept ==
    ASSUME IInv, ProfileLedger, [Next]_vars
    PROVE  ProfileLedger'
  <1> SUFFICES ASSUME NEW s \in Subjects
               PROVE  Ledger(s)'
    BY LedgersAreTheLedger DEF ProfileLedger, Ledger
  <1>1. Ledger(s)
    BY LedgersAreTheLedger
  <1>2. CASE QuietStep \/ \E row \in Row : RefusingStep(row)
    <2>1. operations' = operations /\ profiles' = profiles
      BY <1>2 DEF QuietStep, RefusingStep, profileVars
    <2> QED
      BY <1>1, <2>1 DEF Ledger, Changes, Writers, HadValue
  <1>3. ASSUME NEW row \in Row, SettlingStep(row)
        PROVE  Ledger(s)'
    BY <1>1, <1>3, LedgerSettling
  <1>4. ASSUME NEW row \in Row, ApplyingStep(row)
        PROVE  Ledger(s)'
    <2>1. CASE row.subject = s
      BY <1>1, <1>4, <2>1, LedgerApplying
    <2>2. CASE row.subject # s
      <3>1. operations' = operations \cup {row}
        BY <1>4 DEF ApplyingStep, Records
      <3>2. profiles'[s] = profiles[s]
        BY <1>4, <2>2, PatchedType DEF IInv
      <3> QED
        BY <1>1, <2>2, <3>1, <3>2, LedgerOfOthers
    <2> QED
      BY <2>1, <2>2
  <1> QED
    BY <1>2, <1>3, <1>4, StepKinds DEF IInv

\* Whatever callers ask in whatever order, each revision of a profile is the
\* work of one operation, and each setting has the value of the last accepted
\* patch that named it: no patch is lost, and none applied twice.
THEOREM ProfilesAreTheirChanges == Spec => []ProfileLedger
  BY InitInv, InvKept, LedgerKept, PTL DEF Spec
-----------------------------------------------------------------------------
(* Events.                                                                 *)

Later(i) == {j \in DOMAIN emitted : j > i /\ emitted[j].subject = emitted[i].subject}

LEMMA LaterIsFinite ==
    ASSUME TypeOK, NEW i
    PROVE  IsFiniteSet(Later(i)) /\ Cardinality(Later(i)) \in Nat
  <1>1. DOMAIN emitted = 1..Len(emitted) /\ Len(emitted) \in Nat
    BY LenProperties DEF TypeOK
  <1>2. IsFiniteSet(1..Len(emitted)) /\ Later(i) \subseteq 1..Len(emitted)
    BY <1>1, FS_Interval DEF Later
  <1> QED
    BY <1>2, FS_Subset, FS_CardinalityType

\* Announcing a change of a subject adds one to the later events of each
\* earlier event of that subject.
LEMMA AnnouncementsAreCounted ==
    ASSUME IInv, EventsTrackProfiles, NEW row \in Row, Announces(row)
    PROVE  EventsTrackProfiles'
  <1> DEFINE last == Len(emitted) + 1
             event == [sequence |-> NextSequence(1), subject |-> row.subject,
                       revision |-> row.revision]
  <1>1. /\ TypeOK /\ emitted \in Seq(Event) /\ Len(emitted) \in Nat
        /\ eventSequence \in Nat /\ NextSequence(1) = eventSequence + 1
    BY LenProperties, MaxSequenceAssumption
       DEF IInv, TypeOK, ServiceTypeOK, Announces, HasRoomFor, NextSequence
  <1>2. PICK n, e : n = last /\ e = event
    OBVIOUS
  <1>3. /\ DOMAIN emitted = 1..(n - 1) /\ DOMAIN emitted' = 1..n /\ n \in Nat
        /\ emitted'[n] = e /\ \A i \in 1..(n - 1) : emitted'[i] = emitted[i]
        /\ \A i \in 1..(n - 1) : emitted[i] \in Event
    <2>1. emitted' = Append(emitted, e)
      BY <1>2 DEF Announces, Notes
    <2>2. DOMAIN emitted = 1..Len(emitted) /\ \A i \in 1..Len(emitted) : emitted[i] \in Event
      BY <1>1, LenProperties, ElementOfSeq
    <2>3. /\ DOMAIN emitted' = 1..(Len(emitted) + 1)
          /\ emitted'[Len(emitted) + 1] = e
          /\ \A i \in 1..Len(emitted) : emitted'[i] = emitted[i]
      BY <1>1, <2>1
    <2> QED
      BY <1>1, <1>2, <2>2, <2>3
  <1>4. /\ row.subject \in Subjects
        /\ profiles'[row.subject].revision = row.revision
        /\ row.revision = profiles[row.subject].revision + 1
        /\ \A s \in Subjects \ {row.subject} : profiles'[s] = profiles[s]
        /\ \A s \in Subjects : profiles[s].revision \in Nat
    <2>1. ApplyingStep(row)
      BY DEF Announces
    <2>2. row.revision = profiles[row.subject].revision + 1
      BY <2>1 DEF ApplyingStep
    <2>3. \A s \in Subjects : profiles[s].revision \in Nat
      BY <1>1, RevisionAssumption DEF TypeOK, Profile, Revisions
    <2> QED
      BY <1>1, <2>1, <2>2, <2>3, PatchedType
  <1>5. e.subject = row.subject /\ e.revision = row.revision /\ e.sequence = eventSequence + 1
    BY <1>1, <1>2
  <1>6. ASSUME NEW i \in 1..(n - 1)
        PROVE  emitted'[i].revision + Cardinality(Later(i)') = profiles'[emitted'[i].subject].revision
    <2>1. emitted[i].revision + Cardinality(Later(i)) = profiles[emitted[i].subject].revision
      BY <1>3 DEF EventsTrackProfiles, Later
    <2>2. emitted[i].subject \in Subjects /\ emitted[i].revision \in Nat
      BY <1>3, RevisionAssumption DEF Event, Revisions
    <2>3. IsFiniteSet(Later(i)) /\ Cardinality(Later(i)) \in Nat
      BY <1>1, LaterIsFinite
    <2>4. CASE emitted[i].subject = row.subject
      <3>1. Later(i)' = Later(i) \cup {n} /\ n \notin Later(i)
        BY <1>3, <1>5, <2>4 DEF Later
      <3>2. Cardinality(Later(i)') = Cardinality(Later(i)) + 1
        BY <2>3, <3>1, FS_AddElement
      <3>3. emitted'[i].revision = emitted[i].revision
        BY <1>3
      <3>4. profiles'[emitted'[i].subject].revision = profiles[emitted[i].subject].revision + 1
        BY <1>3, <1>4, <2>4
      <3> QED
        BY <1>4, <2>1, <2>2, <2>3, <3>2, <3>3, <3>4
    <2>5. CASE emitted[i].subject # row.subject
      <3>1. Later(i)' = Later(i)
        BY <1>3, <1>5, <2>5 DEF Later
      <3> QED
        BY <1>3, <1>4, <2>1, <2>2, <2>5, <3>1
    <2> QED
      BY <2>4, <2>5
  <1>7. emitted'[n].revision + Cardinality(Later(n)') = profiles'[emitted'[n].subject].revision
    <2>1. Later(n)' = {}
      BY <1>3 DEF Later
    <2> QED
      BY <1>3, <1>4, <1>5, <2>1, FS_EmptySet
  <1>8. \A i, j \in 1..n : i < j => emitted'[i].sequence < emitted'[j].sequence
    <2>1. \A i, j \in 1..(n - 1) : i < j => emitted[i].sequence < emitted[j].sequence
      BY <1>3 DEF EventsTrackProfiles
    <2>2. \A i \in 1..(n - 1) : emitted[i].sequence <= eventSequence /\ emitted[i].sequence \in Nat
      BY <1>3, MaxSequenceAssumption DEF IInv, NumbersAreUsed, Event
    <2> QED
      BY <1>1, <1>3, <1>5, <2>1, <2>2
  <1>9. \A i \in 1..n :
            emitted'[i].revision + Cardinality(Later(i)') = profiles'[emitted'[i].subject].revision
    BY <1>3, <1>6, <1>7
  <1> QED
    BY <1>3, <1>8, <1>9 DEF EventsTrackProfiles, Later

LEMMA EventsKept ==
    ASSUME IInv, EventsTrackProfiles, [Next]_vars
    PROVE  EventsTrackProfiles'
  <1>1. CASE emitted' = <<>>
    BY <1>1 DEF EventsTrackProfiles
  <1>2. CASE Silent /\ ~\E row \in Row : ApplyingStep(row)
    <2>1. profiles' = profiles
      BY <1>2, StepKinds DEF IInv, QuietStep, RefusingStep, profileVars, SettlingStep
    <2> QED
      BY <1>2, <2>1 DEF Silent, EventsTrackProfiles
  <1> QED
    BY <1>1, <1>2, AnnouncementsAreCounted, EmittedKinds DEF IInv

\* The events of an incarnation name the revisions of each profile one after
\* the other, up to the current one: a client that counts them sees a gap
\* exactly when it has missed a change.
THEOREM EventsNameEveryRevision == Spec => []EventsTrackProfiles
  BY InitInv, InvKept, EventsKept, PTL DEF Spec
=============================================================================
