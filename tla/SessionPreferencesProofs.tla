---------------------- MODULE SessionPreferencesProofs ----------------------
(***************************************************************************)
(* Proofs about the preferences, for any operation IDs, revision limit and *)
(* sequence limit, and any number of crashes.                              *)
(***************************************************************************)
EXTENDS SessionPreferences, SequenceTheorems, FiniteSetTheorems, TLAPS

-----------------------------------------------------------------------------
(* Typing and event numbers.  The invariant adds that nothing is numbered  *)
(* before the service first announces its state, so that the announcements *)
(* of a recovery always find room.                                         *)

Families == {"service", "hardware", "consent", "notification", "toast"}
Notes == [family : Families, revision : Revisions]

LEMMA NumberedIsSeq ==
    ASSUME NEW evs \in Seq(Notes), eventSequence \in 0..MaxSequence
    PROVE  Numbered(evs) \in Seq(Event) /\ Len(Numbered(evs)) = Len(evs)
           /\ \A i \in 1..Len(evs) : Numbered(evs)[i].sequence = NextSequence(i)
  <1>1. Len(evs) \in Nat /\ DOMAIN evs = 1..Len(evs) /\ \A i \in 1..Len(evs) : evs[i] \in Notes
    BY LenProperties, ElementOfSeq
  <1>2. \A i \in 1..Len(evs) : NextSequence(i) \in 0..MaxSequence
    BY <1>1, MaxSequenceAssumption DEF NextSequence
  <1>3. \A i \in 1..Len(evs) : [sequence |-> NextSequence(i), family |-> evs[i].family,
                           revision |-> evs[i].revision] \in Event
    BY <1>1, <1>2 DEF Event, Notes, Families
  <1>4. Numbered(evs) = [i \in 1..Len(evs) |-> [sequence |-> NextSequence(i), family |-> evs[i].family,
                           revision |-> evs[i].revision]]
    BY <1>1 DEF Numbered
  <1>5. Numbered(evs) \in [1..Len(evs) -> Event]
    BY <1>3, <1>4
  <1>6. Numbered(evs) \in Seq(Event) /\ Len(Numbered(evs)) = Len(evs)
    BY <1>1, <1>5
  <1> QED
    BY <1>4, <1>6

LEMMA HardwareNotesIsSeq ==
    ASSUME NEW n \in Nat
    PROVE  HardwareNotes(n) \in Seq(Notes) /\ Len(HardwareNotes(n)) = n
  <1>1. Note("hardware", 0) \in Notes
    BY RevisionAssumption DEF Note, Notes, Families, Revisions
  <1>2. HardwareNotes(n) \in [1..n -> Notes]
    BY <1>1 DEF HardwareNotes
  <1> QED
    BY <1>2

\* Publishing when there is room keeps the numbering.
LEMMA PublishNumbers ==
    ASSUME eventSequence \in 0..MaxSequence, emitted \in Seq(Event), EventsAreNumberedInOrder,
           NEW evs \in Seq(Notes), HasRoomFor(Len(evs)), Publish(evs)
    PROVE  /\ eventSequence' \in 0..MaxSequence /\ emitted' \in Seq(Event)
           /\ EventsAreNumberedInOrder'
  <1> DEFINE new == Numbered(evs)
  <1>1. /\ new \in Seq(Event) /\ Len(new) = Len(evs) /\ Len(evs) \in Nat
        /\ \A i \in 1..Len(evs) : new[i].sequence = NextSequence(i)
    BY NumberedIsSeq, LenProperties
  <1>2. \A i \in 0..Len(evs) : NextSequence(i) = eventSequence + i
    <2>1. Len(evs) \in Nat /\ eventSequence + Len(evs) <= MaxSequence
      BY <1>1 DEF HasRoomFor
    <2> QED
      BY <2>1, MaxSequenceAssumption DEF NextSequence
  <1>9. emitted' = emitted \o new /\ eventSequence' = NextSequence(Len(evs))
    BY Zenon DEF Publish
  <1>3. emitted' = emitted \o new /\ eventSequence' = eventSequence + Len(evs)
    BY <1>1, <1>2, <1>9
  <1>4. Len(emitted) = eventSequence /\ DOMAIN emitted = 1..eventSequence
    BY LenProperties DEF EventsAreNumberedInOrder
  <1> HIDE DEF new
  <1>5. /\ emitted' \in Seq(Event) /\ Len(emitted') = eventSequence + Len(evs)
        /\ \A i \in 1..(eventSequence + Len(evs)) :
              emitted'[i] = IF i <= eventSequence THEN emitted[i] ELSE new[i - eventSequence]
    BY <1>1, <1>3, <1>4, ConcatProperties
  <1>6. eventSequence' \in 0..MaxSequence
    BY <1>1, <1>3, MaxSequenceAssumption DEF HasRoomFor
  <1>7. ASSUME NEW i \in 1..(eventSequence + Len(evs))
        PROVE  emitted'[i].sequence = i
    <2>1. CASE i <= eventSequence
      BY <1>4, <1>5, <2>1 DEF EventsAreNumberedInOrder
    <2>2. CASE ~(i <= eventSequence)
      <3>1. i - eventSequence \in 1..Len(evs)
        BY <1>1, <2>2
      <3>2. emitted'[i].sequence = NextSequence(i - eventSequence)
        BY <1>1, <1>5, <2>2, <3>1
      <3> QED
        BY <1>1, <1>2, <3>1, <3>2
    <2> QED
      BY <2>1, <2>2
  <1>8. DOMAIN emitted' = 1..(eventSequence + Len(evs))
    BY <1>5, LenProperties
  <1> QED
    BY <1>3, <1>5, <1>6, <1>7, <1>8 DEF EventsAreNumberedInOrder

\* Before the first announcement no number has been used.
SilentUntilAnnounced == state \in {"STOPPED", "STARTING"} => eventSequence = 0

IInv == TypeOK /\ EventsAreNumberedInOrder /\ SilentUntilAnnounced

LEMMA PreferencesInit == Init => IInv
  <1> SUFFICES ASSUME Init PROVE IInv
    OBVIOUS
  <1>1. /\ 0 \in Revisions /\ 1 \in Revisions /\ 0 \in 0..MaxSequence /\ <<>> \in Seq(Event)
        /\ 0 \in Values /\ Values \subseteq Revisions
    BY RevisionAssumption, MaxSequenceAssumption DEF Revisions, Values
  <1>2. /\ schema \in {0, 1, 3} /\ consent \in [value : Values, revision : Revisions]
        /\ consentOps \subseteq SettingsOperation /\ migrated \in Revisions
    BY <1>1 DEF Init, FreshFile, SchemaOneFile, SettingsOperation
  <1>3. TypeOK
    BY <1>1, <1>2 DEF Init, EmptyTables, TypeOK, ServiceTypeOK, States
  <1> QED
    BY <1>3 DEF Init, IInv, EventsAreNumberedInOrder, SilentUntilAnnounced

\* The process ending satisfies every conjunct about its events.
LEMMA StopKeeps ==
    ASSUME Stop
    PROVE  /\ ServiceTypeOK' /\ emitted' \in Seq(Event) /\ acked' = acked
           /\ EventsAreNumberedInOrder' /\ SilentUntilAnnounced'
  <1>1. emitted' = <<>> /\ eventSequence' = 0 /\ state' = "STOPPED" /\ quitting' = FALSE
        /\ acked' = acked
    BY DEF Stop, StopProcess
  <1>2. emitted' \in Seq(Event) /\ Len(emitted') = 0
    BY <1>1, EmptySeq
  <1>3. EventsAreNumberedInOrder'
    BY <1>1, <1>2, LenProperties DEF EventsAreNumberedInOrder
  <1>4. ServiceTypeOK'
    <2>1. state' \in States /\ eventSequence' \in 0..MaxSequence
      BY <1>1, MaxSequenceAssumption DEF States
    <2>2. quitting' \in BOOLEAN
      BY <1>1
    <2> QED
      BY <2>1, <2>2 DEF ServiceTypeOK
  <1> QED
    BY <1>1, <1>2, <1>3, <1>4 DEF SilentUntilAnnounced

LEMMA FinishKeeps ==
    ASSUME IInv, NEW evs \in Seq(Notes), NEW answer \in Answer, HasRoomFor(Len(evs)),
           state = "READY", Finish(evs, answer)
    PROVE  /\ ServiceTypeOK' /\ emitted' \in Seq(Event) /\ acked' \subseteq Answer
           /\ EventsAreNumberedInOrder' /\ SilentUntilAnnounced'
  <1>1. CASE Stop
    BY <1>1, StopKeeps DEF IInv, TypeOK
  <1>2. CASE /\ Publish(evs) /\ acked' = acked \cup {answer}
             /\ UNCHANGED <<state, quitting>>
    <2>1. /\ eventSequence' \in 0..MaxSequence /\ emitted' \in Seq(Event)
          /\ EventsAreNumberedInOrder'
      BY <1>2, PublishNumbers DEF IInv, TypeOK, ServiceTypeOK
    <2> QED
      BY <1>2, <2>1 DEF IInv, TypeOK, ServiceTypeOK, SilentUntilAnnounced
  <1> QED
    BY <1>1, <1>2 DEF Finish

\* A refusal for lack of numbers leaves numbers and events alone.
LEMMA ExhaustedKeeps ==
    ASSUME IInv, FailEventSequenceExhausted, UNCHANGED emitted
    PROVE  ServiceTypeOK' /\ EventsAreNumberedInOrder' /\ SilentUntilAnnounced'
  BY DEF FailEventSequenceExhausted, IInv, TypeOK, ServiceTypeOK, States,
     EventsAreNumberedInOrder, SilentUntilAnnounced

LEMMA RefuseKeeps ==
    ASSUME IInv, RefuseExhausted
    PROVE  IInv'
  BY ExhaustedKeeps DEF RefuseExhausted, preferenceVars, IInv, TypeOK

LEMMA ReadinessIsNote == Readiness \in Notes
  BY RevisionAssumption DEF Readiness, Note, Notes, Families, Revisions

LEMMA LifecycleInv ==
    ASSUME IInv, Start \/ RecoverDatabase \/ Crash
    PROVE  IInv'
  <1>1. CASE Start
    BY <1>1, MaxSequenceAssumption DEF Start, StartProcess, Running, preferenceVars, historyVars, IInv, TypeOK,
       ServiceTypeOK, States, EventsAreNumberedInOrder, SilentUntilAnnounced
  <1>2. CASE Crash
    BY <1>2, StopKeeps DEF Crash, preferenceVars, IInv, TypeOK
  <1>3. CASE RecoverDatabase
    <2> DEFINE evs == IF state' = "RECOVERING" THEN <<Readiness>> ELSE <<Readiness, Readiness>>
    <2>1. evs \in Seq(Notes) /\ Len(evs) \in {1, 2}
      BY ReadinessIsNote
    <2>2. Publish(evs) /\ state' \in {"RECOVERING", "FAILED"}
      BY <1>3 DEF RecoverDatabase
    <2> HIDE DEF evs
    <2>3. HasRoomFor(Len(evs))
      <3>1. eventSequence = 0
        BY <1>3 DEF RecoverDatabase, IInv, SilentUntilAnnounced
      <3>2. HasRoomFor(1) /\ HasRoomFor(2)
        BY <3>1, MaxSequenceAssumption DEF HasRoomFor
      <3> QED
        BY <2>1, <3>2, Zenon
    <2>4. /\ eventSequence' \in 0..MaxSequence /\ emitted' \in Seq(Event)
          /\ EventsAreNumberedInOrder'
      BY <2>1, <2>2, <2>3, PublishNumbers DEF IInv, TypeOK, ServiceTypeOK
    <2>5. notificationRevision' \in Revisions /\ schema' \in {0, 1, 3}
      BY <1>3, RevisionAssumption DEF RecoverDatabase, MigratedNotificationRevision, IInv, TypeOK, Revisions
    <2> QED
      BY <1>3, <2>2, <2>4, <2>5 DEF RecoverDatabase, IInv, TypeOK, ServiceTypeOK, States,
         SilentUntilAnnounced
  <1> QED
    BY <1>1, <1>2, <1>3

LEMMA HardwareInv ==
    ASSUME IInv, HardwareFails \/ \E n \in HardwareEventCounts : HardwarePublishes(n)
    PROVE  IInv'
  <1>1. ASSUME NEW evs \in Seq(Notes), Publish(evs), HasRoomFor(Len(evs)),
               state' \in {"READY", "FAILED"}, UNCHANGED <<quitting, preferenceVars, acked>>
        PROVE  IInv'
    <2>1. /\ eventSequence' \in 0..MaxSequence /\ emitted' \in Seq(Event)
          /\ EventsAreNumberedInOrder'
      BY <1>1, PublishNumbers DEF IInv, TypeOK, ServiceTypeOK
    <2> QED
      BY <1>1, <2>1 DEF IInv, TypeOK, ServiceTypeOK, States, SilentUntilAnnounced, preferenceVars
  <1>2. ASSUME FailEventSequenceExhausted, UNCHANGED <<emitted, preferenceVars, acked>>
        PROVE  IInv'
    BY <1>2, ExhaustedKeeps DEF IInv, TypeOK, preferenceVars
  <1>3. CASE HardwareFails
    <2> DEFINE evs == IF state = "READY" THEN HardwareNotes(1) ELSE <<Readiness>>
    <2>1. evs \in Seq(Notes) /\ Len(evs) = 1
      <3>1. HardwareNotes(1) \in Seq(Notes) /\ Len(HardwareNotes(1)) = 1
        BY HardwareNotesIsSeq
      <3>2. <<Readiness>> \in Seq(Notes) /\ Len(<<Readiness>>) = 1
        BY ReadinessIsNote
      <3> QED
        BY <3>1, <3>2
    <2> HIDE DEF evs
    <2>2. CASE HasRoomFor(1)
      <3>1. /\ Publish(evs) /\ state' \in {"READY", "FAILED"}
            /\ UNCHANGED <<quitting, preferenceVars, acked>>
        BY <1>3, <2>2 DEF HardwareFails, evs
      <3> QED
        BY <1>1, <2>1, <2>2, <3>1
    <2>3. CASE ~HasRoomFor(1)
      BY <1>2, <1>3, <2>3 DEF HardwareFails
    <2> QED
      BY <2>2, <2>3
  <1>4. ASSUME NEW n \in HardwareEventCounts, HardwarePublishes(n)
        PROVE  IInv'
    <2> DEFINE evs == IF state = "READY" THEN HardwareNotes(n) ELSE <<Readiness>> \o HardwareNotes(n)
    <2>1. evs \in Seq(Notes)
      BY ReadinessIsNote, HardwareNotesIsSeq, HardwareEventsAssumption, ConcatProperties
    <2>2. CASE HasRoomFor(Len(evs))
      <3>1. /\ Publish(evs) /\ state' = "READY"
            /\ UNCHANGED <<quitting, preferenceVars, acked>>
        BY <1>4, <2>2 DEF HardwarePublishes
      <3> HIDE DEF evs
      <3> QED
        BY <1>1, <2>1, <2>2, <3>1
    <2>3. CASE ~HasRoomFor(Len(evs))
      BY <1>2, <1>4, <2>3 DEF HardwarePublishes
    <2> QED
      BY <2>2, <2>3
  <1> QED
    BY <1>3, <1>4

LEMMA ValuesAreRevisions == Values \subseteq Revisions
  BY RevisionAssumption DEF Values, Revisions

LEMMA ConsentAppliedInv ==
    ASSUME IInv, NEW op \in OpIds, NEW v \in Values, NEW e \in Revisions, ConsentApplied(op, v, e)
    PROVE  IInv'
  <1> DEFINE evs == <<Note("consent", e + 1), Note("notification", notificationRevision + 1)>>
             answer == ConsentAnswer(op, v, e, e + 1)
  <1>1. e + 1 \in Revisions /\ notificationRevision + 1 \in Revisions
    BY RevisionAssumption DEF ConsentApplied, ConsentAccepts, IInv, TypeOK, Revisions
  <1>2. evs \in Seq(Notes) /\ Len(evs) = 2
    BY <1>1 DEF Note, Notes, Families
  <1>3. answer \in Answer
    BY <1>1, ValuesAreRevisions DEF ConsentAnswer, Answer
  <1>4. Finish(evs, answer) /\ state = "READY" /\ eventSequence <= MaxSequence - 2
    BY DEF ConsentApplied, ConsentAccepts
  <1> HIDE DEF evs, answer
  <1>5. HasRoomFor(Len(evs))
    BY <1>2, <1>4, MaxSequenceAssumption DEF HasRoomFor, IInv, TypeOK, ServiceTypeOK
  <1>6. /\ ServiceTypeOK' /\ emitted' \in Seq(Event) /\ acked' \subseteq Answer
        /\ EventsAreNumberedInOrder' /\ SilentUntilAnnounced'
    BY <1>2, <1>3, <1>4, <1>5, FinishKeeps
  <1>7. /\ consent' \in [value : Values, revision : Revisions]
        /\ consentOps' \subseteq SettingsOperation
        /\ notifications' \subseteq Revisions /\ readItems' \subseteq notifications'
        /\ notificationRevision' \in Revisions
    BY <1>1 DEF ConsentApplied, IInv, TypeOK, SettingsOperation
  <1> QED
    BY <1>6, <1>7 DEF ConsentApplied, IInv, TypeOK

LEMMA ToastAppliedInv ==
    ASSUME IInv, NEW op \in OpIds, NEW v \in Values, NEW e \in Revisions, ToastApplied(op, v, e)
    PROVE  IInv'
  <1> DEFINE result == IF ToastChanges(v) THEN e + 1 ELSE e
             evs == IF ToastChanges(v) THEN <<Note("toast", result)>> ELSE <<>>
             answer == ToastAnswer(op, v, e, result)
  <1>1. result \in Revisions
    BY RevisionAssumption DEF ToastApplied, ToastAccepts, Revisions
  <1>2. /\ Finish(evs, answer) /\ state = "READY"
        /\ ToastChanges(v) => HasRoomFor(1)
        /\ toast' = [value |-> v, revision |-> result]
        /\ toastOps' = toastOps \cup
              {[op |-> op, value |-> v, expected |-> e, result |-> result]}
    BY DEF ToastApplied, ToastAccepts
  <1> HIDE DEF result
  <1>3. evs \in Seq(Notes) /\ Len(evs) = IF ToastChanges(v) THEN 1 ELSE 0
    <2>1. <<Note("toast", result)>> \in Seq(Notes) /\ Len(<<Note("toast", result)>>) = 1
      BY <1>1 DEF Note, Notes, Families
    <2> QED
      BY <2>1, EmptySeq
  <1>4. answer \in Answer
    BY <1>1, ValuesAreRevisions DEF ToastAnswer, Answer
  <1> HIDE DEF evs, answer
  <1>5. HasRoomFor(0)
    BY MaxSequenceAssumption DEF HasRoomFor, IInv, TypeOK, ServiceTypeOK
  <1>6. HasRoomFor(Len(evs))
    BY <1>2, <1>3, <1>5, Zenon
  <1>7. /\ ServiceTypeOK' /\ emitted' \in Seq(Event) /\ acked' \subseteq Answer
        /\ EventsAreNumberedInOrder' /\ SilentUntilAnnounced'
    BY <1>2, <1>3, <1>4, <1>6, FinishKeeps
  <1>8. /\ toast' \in [value : Values \cup {Unset}, revision : Revisions]
        /\ toastOps' \subseteq SettingsOperation
    BY <1>1, <1>2 DEF IInv, TypeOK, SettingsOperation
  <1> QED
    BY <1>7, <1>8 DEF ToastApplied, IInv, TypeOK

LEMMA MarkReadAppliedInv ==
    ASSUME IInv, NEW op \in OpIds, NEW item \in Revisions, NEW e \in Revisions,
           MarkReadApplied(op, item, e)
    PROVE  IInv'
  <1> DEFINE changes == MarkReadChanges(item)
             result == IF changes THEN e + 1 ELSE e
             evs == IF changes THEN <<Note("notification", result)>> ELSE <<>>
             answer == MarkReadAnswer(op, item, e, result)
  <1>1. result \in Revisions
    BY RevisionAssumption DEF MarkReadApplied, MarkReadFresh, MarkReadAccepts, Revisions
  <1>2. /\ Finish(evs, answer) /\ state = "READY"
        /\ changes => HasRoomFor(1)
        /\ item \in notifications /\ notifications' = notifications
        /\ readItems' = readItems \cup {item} /\ notificationRevision' = result
        /\ markReadOps' = markReadOps \cup {[op |-> op, item |-> item, expected |-> e,
                                             result |-> result, changed |-> changes]}
    BY DEF MarkReadApplied, MarkReadFresh, MarkReadAccepts
  <1> HIDE DEF result
  <1>3. evs \in Seq(Notes) /\ Len(evs) = IF changes THEN 1 ELSE 0
    <2>1. <<Note("notification", result)>> \in Seq(Notes) /\ Len(<<Note("notification", result)>>) = 1
      BY <1>1 DEF Note, Notes, Families
    <2> QED
      BY <2>1, EmptySeq
  <1>4. answer \in Answer
    BY <1>1 DEF MarkReadAnswer, Answer
  <1>9. changes \in BOOLEAN
    BY DEF MarkReadChanges
  <1> HIDE DEF evs, answer, changes
  <1>5. HasRoomFor(0)
    BY MaxSequenceAssumption DEF HasRoomFor, IInv, TypeOK, ServiceTypeOK
  <1>6. HasRoomFor(Len(evs))
    BY <1>2, <1>3, <1>5, Zenon
  <1>7. /\ ServiceTypeOK' /\ emitted' \in Seq(Event) /\ acked' \subseteq Answer
        /\ EventsAreNumberedInOrder' /\ SilentUntilAnnounced'
    BY <1>2, <1>3, <1>4, <1>6, FinishKeeps
  <1>8. /\ readItems' \subseteq notifications' /\ notificationRevision' \in Revisions
        /\ markReadOps' \subseteq MarkReadOperation
    BY <1>1, <1>2, <1>9 DEF IInv, TypeOK, MarkReadOperation
  <1> QED
    BY <1>7, <1>8 DEF MarkReadApplied, IInv, TypeOK

\* A replay only hands out a recorded result.
LEMMA ReplayInv ==
    ASSUME IInv, NEW answer \in Answer, acked' = acked \cup {answer},
           UNCHANGED <<serviceVars, preferenceVars, emitted>>
    PROVE  IInv'
  BY DEF IInv, TypeOK, ServiceTypeOK, serviceVars, preferenceVars, EventsAreNumberedInOrder,
         SilentUntilAnnounced

LEMMA CallInv ==
    ASSUME IInv, NEW op \in OpIds, NEW e \in Revisions, Call(op, e)
    PROVE  IInv'
  <1>1. ASSUME NEW v \in Values, ConsentReplayed(op, v, e) PROVE IInv'
    <2>1. PICK row \in consentOps : acked' = acked \cup {ConsentAnswer(op, v, e, row.result)}
      BY <1>1 DEF ConsentReplayed
    <2>2. row.result \in Revisions
      BY DEF IInv, TypeOK, SettingsOperation
    <2>3. ConsentAnswer(op, v, e, row.result) \in Answer
      BY <2>2, ValuesAreRevisions DEF ConsentAnswer, Answer
    <2> QED
      BY <1>1, <2>1, <2>3, ReplayInv DEF ConsentReplayed
  <1>2. ASSUME NEW v \in Values, ToastReplayed(op, v, e) PROVE IInv'
    <2>1. PICK row \in toastOps : acked' = acked \cup {ToastAnswer(op, v, e, row.result)}
      BY <1>2 DEF ToastReplayed
    <2>2. row.result \in Revisions
      BY DEF IInv, TypeOK, SettingsOperation
    <2>3. ToastAnswer(op, v, e, row.result) \in Answer
      BY <2>2, ValuesAreRevisions DEF ToastAnswer, Answer
    <2> QED
      BY <1>2, <2>1, <2>3, ReplayInv DEF ToastReplayed
  <1>3. ASSUME NEW item \in Revisions, MarkReadReplayed(op, item, e) PROVE IInv'
    <2>1. PICK row \in markReadOps : acked' = acked \cup {MarkReadAnswer(op, item, e, row.result)}
      BY <1>3 DEF MarkReadReplayed
    <2>2. row.result \in Revisions
      BY DEF IInv, TypeOK, MarkReadOperation
    <2>3. MarkReadAnswer(op, item, e, row.result) \in Answer
      BY <2>2 DEF MarkReadAnswer, Answer
    <2> QED
      BY <1>3, <2>1, <2>3, ReplayInv DEF MarkReadReplayed
  <1>4. ASSUME NEW item \in Revisions, MarkReadExhausted(op, item, e) PROVE IInv'
    BY <1>4, RefuseKeeps DEF MarkReadExhausted
  <1> QED
    BY <1>1, <1>2, <1>3, <1>4, ConsentAppliedInv, ToastAppliedInv, MarkReadAppliedInv DEF Call

LEMMA PreferencesNext == IInv /\ [Next]_vars => IInv'
  <1> SUFFICES ASSUME IInv, [Next]_vars PROVE IInv'
    OBVIOUS
  <1>1. CASE ConsentExhausted
    BY <1>1, RefuseKeeps DEF ConsentExhausted
  <1>2. CASE UNCHANGED vars
    BY <1>2 DEF vars, serviceVars, preferenceVars, historyVars, IInv, TypeOK, ServiceTypeOK,
                EventsAreNumberedInOrder, SilentUntilAnnounced
  <1> QED
    BY <1>1, <1>2, LifecycleInv, HardwareInv, CallInv DEF Next

\* Every table, counter and history keeps its type, for any limits.
THEOREM PreferencesTypeCorrect == Spec => []TypeOK
  <1>1. IInv => TypeOK
    BY DEF IInv
  <1> QED
    BY <1>1, PreferencesInit, PreferencesNext, PTL DEF Spec

\* No handler ever publishes a number twice or skips one, however close the
\* counter is to its end.
THEOREM EventNumbersNeverRepeat == Spec => []EventsAreNumberedInOrder
  <1>1. IInv => EventsAreNumberedInOrder
    BY DEF IInv
  <1> QED
    BY <1>1, PreferencesInit, PreferencesNext, PTL DEF Spec

-----------------------------------------------------------------------------
(* The detailed tables implement the abstract register.                    *)

\* Hearing an answer adds one pair to the answers of its own method.
LEMMA AnswersGrow ==
    ASSUME NEW method, NEW answer, acked' = acked \cup {answer}
    PROVE  AnswersTo(method)' =
                IF answer.method = method
                THEN AnswersTo(method) \cup {[op |-> answer.op, revision |-> answer.revision]}
                ELSE AnswersTo(method)
  BY DEF AnswersTo

LEMMA AnswersStay ==
    ASSUME NEW method, UNCHANGED acked
    PROVE  AnswersTo(method)' = AnswersTo(method)
  BY DEF AnswersTo

\* A commit is followed by the answer or by nothing.
LEMMA FinishAnswers ==
    ASSUME NEW evs, NEW answer, Finish(evs, answer)
    PROVE  acked' = acked \cup {answer} \/ UNCHANGED acked
  BY DEF Finish, Stop

LEMMA ConsentInitMaps == Init => ConsentRegister!Init
  <1> SUFFICES ASSUME Init PROVE ConsentRegister!Init
    OBVIOUS
  <1>1. AnswersTo("consent") = {}
    BY DEF Init, AnswersTo
  <1>2. CASE FreshFile
    BY <1>1, <1>2 DEF FreshFile, ConsentRegister!Init
  <1>3. CASE SchemaOneFile
    BY <1>1, <1>3 DEF SchemaOneFile, ConsentRegister!Init, ConsentRegister!Row
  <1> QED
    BY <1>2, <1>3 DEF Init

LEMMA ConsentAppliedMaps ==
    ASSUME NEW op \in OpIds, NEW v \in Values, NEW e \in Revisions, ConsentApplied(op, v, e)
    PROVE  ConsentRegister!Write(op, v)
  <1>1. /\ FreshOperation(consentOps, op)
        /\ consent.value' = v /\ consent.revision' = consent.revision + 1
        /\ consentOps' = consentOps \cup
              {[op |-> op, value |-> v, expected |-> consent.revision,
                result |-> consent.revision + 1]}
    BY DEF ConsentApplied
  <1>2. \/ acked' = acked \cup {ConsentAnswer(op, v, e, consent.revision + 1)}
        \/ UNCHANGED acked
    BY FinishAnswers DEF ConsentApplied
  <1>3. \/ AnswersTo("consent")' = AnswersTo("consent") \cup
              {[op |-> op, revision |-> consent.revision + 1]}
        \/ UNCHANGED AnswersTo("consent")
    BY <1>2, AnswersGrow, AnswersStay DEF ConsentAnswer
  <1> QED
    BY <1>1, <1>3 DEF FreshOperation, ConsentRegister!Write, ConsentRegister!Row, ConsentRegister!Hears

LEMMA ConsentReplayedMaps ==
    ASSUME NEW op \in OpIds, NEW v \in Values, NEW e \in Revisions, ConsentReplayed(op, v, e)
    PROVE  ConsentRegister!Repeat(op)
  <1>1. PICK row \in consentOps :
            row.op = op /\ acked' = acked \cup {ConsentAnswer(op, v, e, row.result)}
    BY DEF ConsentReplayed
  <1> DEFINE answer == ConsentAnswer(op, v, e, row.result)
  <1>a. answer.method = "consent" /\ answer.op = op /\ answer.revision = row.result
    BY DEF ConsentAnswer
  <1> HIDE DEF answer
  <1>2. AnswersTo("consent")' = AnswersTo("consent") \cup {[op |-> op, revision |-> row.result]}
    BY <1>1, <1>a, AnswersGrow DEF answer
  <1> QED
    BY <1>1, <1>2 DEF ConsentReplayed, preferenceVars, ConsentRegister!Repeat,
                      ConsentRegister!Hears

LEMMA ToastInitMaps == Init => ToastRegister!Init
  <1> SUFFICES ASSUME Init PROVE ToastRegister!Init
    OBVIOUS
  <1>1. AnswersTo("toast") = {}
    BY DEF Init, AnswersTo
  <1> QED
    BY <1>1 DEF Init, EmptyTables, ToastRegister!Init

\* A toast that is not configured yet differs from every value.
LEMMA ToastAppliedMaps ==
    ASSUME NEW op \in OpIds, NEW v \in Values, NEW e \in Revisions, ToastApplied(op, v, e)
    PROVE  ToastRegister!Write(op, v)
  <1> DEFINE result == IF ToastChanges(v) THEN e + 1 ELSE e
  <1>1. /\ FreshOperation(toastOps, op)
        /\ e = toast.revision
        /\ toast.value' = v /\ toast.revision' = result
        /\ toastOps' = toastOps \cup
              {[op |-> op, value |-> v, expected |-> e, result |-> result]}
    BY DEF ToastApplied
  <1>2. ToastChanges(v) <=> v # toast.value
    BY DEF ToastChanges, Values, Unset
  <1>3. acked' = acked \cup {ToastAnswer(op, v, e, result)} \/ UNCHANGED acked
    BY FinishAnswers DEF ToastApplied
  <1> DEFINE answer == ToastAnswer(op, v, e, result)
  <1>4. answer.method = "toast" /\ answer.op = op /\ answer.revision = result
    BY DEF ToastAnswer
  <1> HIDE DEF answer
  <1>5. \/ AnswersTo("toast")' = AnswersTo("toast") \cup {[op |-> op, revision |-> result]}
        \/ UNCHANGED AnswersTo("toast")
    BY <1>3, <1>4, AnswersGrow, AnswersStay DEF answer
  <1> QED
    BY <1>1, <1>2, <1>5 DEF FreshOperation, ToastRegister!Write, ToastRegister!Row, ToastRegister!Hears

LEMMA ToastReplayedMaps ==
    ASSUME NEW op \in OpIds, NEW v \in Values, NEW e \in Revisions, ToastReplayed(op, v, e)
    PROVE  ToastRegister!Repeat(op)
  <1>1. PICK row \in toastOps :
            row.op = op /\ acked' = acked \cup {ToastAnswer(op, v, e, row.result)}
    BY DEF ToastReplayed
  <1> DEFINE answer == ToastAnswer(op, v, e, row.result)
  <1>2. answer.method = "toast" /\ answer.op = op /\ answer.revision = row.result
    BY DEF ToastAnswer
  <1> HIDE DEF answer
  <1>3. AnswersTo("toast")' = AnswersTo("toast") \cup {[op |-> op, revision |-> row.result]}
    BY <1>1, <1>2, AnswersGrow DEF answer
  <1> QED
    BY <1>1, <1>3 DEF ToastReplayed, preferenceVars, ToastRegister!Repeat,
                      ToastRegister!Hears
-----------------------------------------------------------------------------
(* The steps that are none of a register's.                                *)

\* Steps of the lifecycle and of the hardware, and refusals, touch neither
\* preference and answer nobody.
QuietStep ==
    UNCHANGED <<consent, consentOps, toast, toastOps, acked>>

LEMMA ServiceStepsAreQuiet ==
    ASSUME \/ Start \/ RecoverDatabase \/ HardwareFails \/ Crash
           \/ \E n \in HardwareEventCounts : HardwarePublishes(n)
           \/ ConsentExhausted
           \/ UNCHANGED vars
    PROVE  QuietStep
  BY DEF Start, RecoverDatabase, HardwareFails, Crash, HardwarePublishes, ConsentExhausted,
         RefuseExhausted, Stop, preferenceVars, historyVars, vars, QuietStep

\* A step of MarkRead leaves both preferences and their answers alone.
LEMMA MarkReadIsElsewhere ==
    ASSUME NEW op \in OpIds, NEW item \in Revisions, NEW e \in Revisions,
           \/ MarkReadReplayed(op, item, e)
           \/ MarkReadExhausted(op, item, e)
           \/ MarkReadApplied(op, item, e)
    PROVE  /\ UNCHANGED <<consent, consentOps, toast, toastOps>>
           /\ UNCHANGED AnswersTo("consent") /\ UNCHANGED AnswersTo("toast")
  <1>1. UNCHANGED <<consent, consentOps, toast, toastOps>>
    BY DEF MarkReadReplayed, MarkReadExhausted, MarkReadApplied, RefuseExhausted, preferenceVars
  <1>2. (\E answer : answer.method = "markRead" /\ acked' = acked \cup {answer})
        \/ UNCHANGED acked
    <2>1. \A r : MarkReadAnswer(op, item, e, r).method = "markRead"
      BY DEF MarkReadAnswer
    <2>2. CASE MarkReadReplayed(op, item, e)
      BY <2>1, <2>2 DEF MarkReadReplayed
    <2>3. CASE MarkReadExhausted(op, item, e)
      BY <2>3 DEF MarkReadExhausted, RefuseExhausted
    <2>4. CASE MarkReadApplied(op, item, e)
      BY <2>1, <2>4, FinishAnswers DEF MarkReadApplied
    <2> QED
      BY <2>2, <2>3, <2>4
  <1>3. UNCHANGED AnswersTo("consent") /\ UNCHANGED AnswersTo("toast")
    BY <1>2, AnswersGrow, AnswersStay
  <1> QED
    BY <1>1, <1>3

\* A step of one preference leaves the other and its answers alone.
LEMMA ToastIsElsewhere ==
    ASSUME NEW op \in OpIds, NEW v \in Values, NEW e \in Revisions,
           ToastReplayed(op, v, e) \/ ToastApplied(op, v, e)
    PROVE  UNCHANGED <<consent, consentOps>> /\ UNCHANGED AnswersTo("consent")
  <1>1. UNCHANGED <<consent, consentOps>>
    BY DEF ToastReplayed, ToastApplied, preferenceVars
  <1>2. (\E answer : answer.method = "toast" /\ acked' = acked \cup {answer})
        \/ UNCHANGED acked
    <2>1. \A r : ToastAnswer(op, v, e, r).method = "toast"
      BY DEF ToastAnswer
    <2>2. CASE ToastReplayed(op, v, e)
      BY <2>1, <2>2 DEF ToastReplayed
    <2>3. CASE ToastApplied(op, v, e)
      BY <2>1, <2>3, FinishAnswers DEF ToastApplied
    <2> QED
      BY <2>2, <2>3
  <1> QED
    BY <1>1, <1>2, AnswersGrow, AnswersStay

LEMMA ConsentIsElsewhere ==
    ASSUME NEW op \in OpIds, NEW v \in Values, NEW e \in Revisions,
           ConsentReplayed(op, v, e) \/ ConsentApplied(op, v, e)
    PROVE  UNCHANGED <<toast, toastOps>> /\ UNCHANGED AnswersTo("toast")
  <1>1. UNCHANGED <<toast, toastOps>>
    BY DEF ConsentReplayed, ConsentApplied, preferenceVars
  <1>2. (\E answer : answer.method = "consent" /\ acked' = acked \cup {answer})
        \/ UNCHANGED acked
    <2>1. \A r : ConsentAnswer(op, v, e, r).method = "consent"
      BY DEF ConsentAnswer
    <2>2. CASE ConsentReplayed(op, v, e)
      BY <2>1, <2>2 DEF ConsentReplayed
    <2>3. CASE ConsentApplied(op, v, e)
      BY <2>1, <2>3, FinishAnswers DEF ConsentApplied
    <2> QED
      BY <2>2, <2>3
  <1> QED
    BY <1>1, <1>2, AnswersGrow, AnswersStay
-----------------------------------------------------------------------------
\* The consent tables, with their transactions, crashes and restarts, behave
\* like one register in which every accepted write counts.
THEOREM ConsentImplementsRegister == Spec => ImplementsConsentRegister
  <1> DEFINE Step == ConsentRegister!Next \/ UNCHANGED ConsentRegister!registerVars
  <1>1. [Next]_vars => Step
    <2> SUFFICES ASSUME [Next]_vars PROVE Step
      OBVIOUS
    <2>1. CASE QuietStep
      BY <2>1, AnswersStay DEF QuietStep, ConsentRegister!registerVars
    <2>2. ASSUME NEW op \in OpIds, NEW e \in Revisions, Call(op, e)
          PROVE  Step
      <3>1. ASSUME NEW v \in Values, ConsentReplayed(op, v, e) PROVE Step
        BY <3>1, ConsentReplayedMaps DEF ConsentRegister!Next
      <3>2. ASSUME NEW v \in Values, ConsentApplied(op, v, e) PROVE Step
        BY <3>2, ConsentAppliedMaps DEF ConsentRegister!Next
      <3>3. ASSUME NEW v \in Values,
                   ToastReplayed(op, v, e) \/ ToastApplied(op, v, e)
            PROVE  Step
        BY <3>3, ToastIsElsewhere DEF ConsentRegister!registerVars
      <3>4. ASSUME NEW item \in Revisions,
                   \/ MarkReadReplayed(op, item, e)
                   \/ MarkReadExhausted(op, item, e)
                   \/ MarkReadApplied(op, item, e)
            PROVE  Step
        BY <3>4, MarkReadIsElsewhere DEF ConsentRegister!registerVars
      <3> QED
        BY <2>2, <3>1, <3>2, <3>3, <3>4 DEF Call
    <2> QED
      BY <2>1, <2>2, ServiceStepsAreQuiet DEF Next
  <1> QED
    BY <1>1, ConsentInitMaps, PTL DEF Spec, ImplementsConsentRegister, ConsentRegister!Spec

\* The toast preference behaves like one in which only changes count.
THEOREM ToastImplementsRegister == Spec => ImplementsToastRegister
  <1> DEFINE Step == ToastRegister!Next \/ UNCHANGED ToastRegister!registerVars
  <1>1. [Next]_vars => Step
    <2> SUFFICES ASSUME [Next]_vars PROVE Step
      OBVIOUS
    <2>1. CASE QuietStep
      BY <2>1, AnswersStay DEF QuietStep, ToastRegister!registerVars
    <2>2. ASSUME NEW op \in OpIds, NEW e \in Revisions, Call(op, e)
          PROVE  Step
      <3>1. ASSUME NEW v \in Values, ToastReplayed(op, v, e) PROVE Step
        BY <3>1, ToastReplayedMaps DEF ToastRegister!Next
      <3>2. ASSUME NEW v \in Values, ToastApplied(op, v, e) PROVE Step
        BY <3>2, ToastAppliedMaps DEF ToastRegister!Next
      <3>3. ASSUME NEW v \in Values, ConsentReplayed(op, v, e) \/ ConsentApplied(op, v, e)
            PROVE  Step
        BY <3>3, ConsentIsElsewhere DEF ToastRegister!registerVars
      <3>4. ASSUME NEW item \in Revisions,
                   \/ MarkReadReplayed(op, item, e)
                   \/ MarkReadExhausted(op, item, e)
                   \/ MarkReadApplied(op, item, e)
            PROVE  Step
        BY <3>4, MarkReadIsElsewhere DEF ToastRegister!registerVars
      <3> QED
        BY <2>2, <3>1, <3>2, <3>3, <3>4 DEF Call
    <2> QED
      BY <2>1, <2>2, ServiceStepsAreQuiet DEF Next
  <1> QED
    BY <1>1, ToastInitMaps, PTL DEF Spec, ImplementsToastRegister, ToastRegister!Spec
-----------------------------------------------------------------------------
(* The abstract register by itself, for any operation IDs, any values, and *)
(* any number of writes.                                                   *)

CONSTANTS RegisterOps, RegisterValues, RegisterCounts
VARIABLES held, heldRevision, heldLog, heldAnswers

Register == INSTANCE IdempotentRegister WITH
    value <- held, revision <- heldRevision, log <- heldLog, answers <- heldAnswers,
    OpIds <- RegisterOps, Values <- RegisterValues, CountsEveryWrite <- RegisterCounts

RegisterRows == [op : RegisterOps, value : RegisterValues, expected : Nat, result : Nat]

\* A row either made its revision or found it made with the same value.
RowsOK ==
    \A row \in heldLog :
        /\ row.result <= heldRevision
        /\ row.expected = row.result \/ row.expected + 1 = row.result
        /\ row.result = heldRevision => row.value = held

Advancing(row) == row.expected < row.result

\* The properties, strengthened to be inductive.
RegisterInv ==
    /\ heldRevision \in Nat
    /\ heldLog \subseteq RegisterRows
    /\ heldAnswers \subseteq [op : RegisterOps, revision : Nat]
    /\ RowsOK
    /\ Register!OneResult
    /\ Register!OneWriterPerRevision

LEMMA RegisterInit == Register!Init => RegisterInv
  <1> SUFFICES ASSUME Register!Init PROVE RegisterInv
    OBVIOUS
  <1>1. CASE heldRevision = 0 /\ heldLog = {} /\ heldAnswers = {}
    BY <1>1 DEF RegisterInv, RowsOK, Register!OneResult, Register!OneWriterPerRevision
  <1>2. CASE /\ heldRevision = 1 /\ held \in RegisterValues /\ heldAnswers = {}
             /\ \E op \in RegisterOps : heldLog = {Register!Row(op, held, 0, 1)}
    <2>1. PICK op \in RegisterOps : heldLog = {Register!Row(op, held, 0, 1)}
      BY <1>2
    <2>2. /\ heldRevision \in Nat /\ heldLog \subseteq RegisterRows
          /\ 1..heldRevision = {1} /\ \A a \in heldLog : a = Register!Row(op, held, 0, 1)
      BY <1>2, <2>1 DEF Register!Row, RegisterRows
    <2> QED
      BY <1>2, <2>1, <2>2 DEF RegisterInv, RowsOK, Register!OneResult,
                              Register!OneWriterPerRevision, Register!Row
  <1> QED
    BY <1>1, <1>2 DEF Register!Init

LEMMA RegisterWrite ==
    ASSUME RegisterInv, NEW op \in RegisterOps, NEW v \in RegisterValues, Register!Write(op, v)
    PROVE  RegisterInv'
  <1> DEFINE result == IF RegisterCounts \/ v # held THEN heldRevision + 1 ELSE heldRevision
             new == Register!Row(op, v, heldRevision, result)
  <1>1. /\ heldRevision \in Nat /\ result \in Nat /\ result \in {heldRevision, heldRevision + 1}
        /\ result = heldRevision => v = held
    BY DEF RegisterInv
  <1>2. /\ new \in RegisterRows /\ new.op = op /\ new.value = v
        /\ new.expected = heldRevision /\ new.result = result
    BY <1>1 DEF Register!Row, RegisterRows
  <1>3. /\ heldLog' = heldLog \cup {new} /\ held' = v /\ heldRevision' = result
        /\ \A row \in heldLog : row.op # op
    BY DEF Register!Write
  <1> HIDE DEF result, new
  <1>4. \A row \in heldLog : row.result \in Nat /\ row.expected \in Nat /\ row.result <= heldRevision
    BY DEF RegisterInv, RegisterRows, RowsOK
  <1>5. heldRevision' \in Nat /\ heldLog' \subseteq RegisterRows
    BY <1>1, <1>2, <1>3 DEF RegisterInv
  <1>6. RowsOK'
    <2>1. ASSUME NEW row \in heldLog
          PROVE  /\ row.result <= result
                 /\ row.expected = row.result \/ row.expected + 1 = row.result
                 /\ row.result = result => row.value = v
      BY <1>1, <1>4, <2>1 DEF RegisterInv, RowsOK
    <2> QED
      BY <1>1, <1>2, <1>3, <2>1 DEF RowsOK
  <1>7. Register!OneResult' /\ heldAnswers' \subseteq [op : RegisterOps, revision : Nat]
    <2>1. CASE UNCHANGED heldAnswers
      BY <1>3, <2>1 DEF RegisterInv, Register!OneResult
    <2>2. CASE Register!Hears(op, result)
      <3>1. heldAnswers' = heldAnswers \cup {[op |-> op, revision |-> result]}
        BY <2>2 DEF Register!Hears
      <3>2. \A a \in heldAnswers : a.op # op
        BY <1>3 DEF RegisterInv, Register!OneResult
      <3> QED
        BY <1>1, <1>2, <1>3, <3>1, <3>2 DEF RegisterInv, Register!OneResult
    <2> QED
      BY <2>1, <2>2 DEF Register!Write, result
  <1>8. Register!OneWriterPerRevision'
    <2>1. \A r \in 1..result : \E row \in heldLog' : row.result = r /\ row.expected = r - 1
      <3> SUFFICES ASSUME NEW r \in 1..result
                   PROVE  \E row \in heldLog' : row.result = r /\ row.expected = r - 1
        OBVIOUS
      <3>1. CASE r \in 1..heldRevision
        BY <1>3, <3>1 DEF RegisterInv, Register!OneWriterPerRevision
      <3>2. CASE r \notin 1..heldRevision
        <4>1. r = result /\ result = heldRevision + 1
          BY <1>1, <3>2
        <4> QED
          BY <1>1, <1>2, <1>3, <4>1
      <3> QED
        BY <3>1, <3>2
    <2>2. ASSUME NEW row \in heldLog, row.result = result
          PROVE  row.value = v /\ ~(Advancing(row) /\ Advancing(new))
      <3>1. result = heldRevision /\ row.value = held /\ v = held
        BY <1>1, <1>4, <2>2 DEF RegisterInv, RowsOK
      <3> QED
        BY <1>1, <1>2, <3>1 DEF Advancing
    <2>3. ASSUME NEW a \in heldLog', NEW b \in heldLog', a.result = b.result
          PROVE  a.value = b.value /\ (Advancing(a) /\ Advancing(b) => a = b)
      <3>1. CASE a \in heldLog /\ b \in heldLog
        BY <2>3, <3>1 DEF RegisterInv, Register!OneWriterPerRevision, Advancing
      <3>2. CASE a = new \/ b = new
        BY <1>2, <1>3, <2>2, <2>3, <3>2
      <3> QED
        BY <1>3, <3>1, <3>2
    <2>4. \A a, b \in heldLog' : a.op = b.op => a = b
      BY <1>2, <1>3 DEF RegisterInv, Register!OneWriterPerRevision
    <2> QED
      BY <1>3, <2>1, <2>3, <2>4 DEF Register!OneWriterPerRevision, Advancing
  <1> QED
    BY <1>5, <1>6, <1>7, <1>8 DEF RegisterInv

LEMMA RegisterRepeat ==
    ASSUME RegisterInv, NEW op \in RegisterOps, Register!Repeat(op)
    PROVE  RegisterInv'
  <1>1. PICK row \in heldLog :
          row.op = op /\ heldAnswers' = heldAnswers \cup {[op |-> op, revision |-> row.result]}
    BY DEF Register!Repeat, Register!Hears
  <1>2. UNCHANGED <<held, heldRevision, heldLog>>
    BY DEF Register!Repeat
  <1>3. \A a \in heldAnswers : a.op = op => a.revision = row.result
    BY <1>1 DEF RegisterInv, Register!OneResult, Register!OneWriterPerRevision
  <1>4. Register!OneResult' /\ heldAnswers' \subseteq [op : RegisterOps, revision : Nat]
    <2>1. ASSUME NEW a \in heldAnswers', NEW b \in heldAnswers', a.op = b.op
          PROVE  a = b
      <3>1. ASSUME NEW c \in heldAnswers, c.op = op
            PROVE  c = [op |-> op, revision |-> row.result]
        <4>1. c \in [op : RegisterOps, revision : Nat] /\ c.revision = row.result
          BY <1>3, <3>1 DEF RegisterInv
        <4> QED
          BY <3>1, <4>1
      <3> QED
        BY <1>1, <2>1, <3>1 DEF RegisterInv, Register!OneResult
    <2>2. \A a \in heldAnswers' : \E s \in heldLog' : s.op = a.op /\ s.result = a.revision
      BY <1>1, <1>2 DEF RegisterInv, Register!OneResult
    <2>3. row.result \in Nat
      BY DEF RegisterInv, RegisterRows
    <2> QED
      BY <1>1, <2>1, <2>2, <2>3 DEF Register!OneResult, RegisterInv
  <1> QED
    BY <1>2, <1>4 DEF RegisterInv, RowsOK, Register!OneWriterPerRevision
LEMMA RegisterNext == RegisterInv /\ [Register!Next]_(Register!registerVars) => RegisterInv'
  <1> SUFFICES ASSUME RegisterInv, [Register!Next]_(Register!registerVars) PROVE RegisterInv'
    OBVIOUS
  <1>1. CASE Register!Next
    BY <1>1, RegisterWrite, RegisterRepeat DEF Register!Next
  <1>2. CASE UNCHANGED Register!registerVars
    BY <1>2 DEF Register!registerVars, RegisterInv, RowsOK, Register!OneResult,
                Register!OneWriterPerRevision
  <1> QED
    BY <1>1, <1>2

\* Nobody ever hears two results for one operation ID.
THEOREM RegisterAnswersOnce == Register!Spec => []Register!OneResult
  <1>1. RegisterInv => Register!OneResult
    BY DEF RegisterInv
  <1> QED
    BY <1>1, RegisterInit, RegisterNext, PTL DEF Register!Spec

\* Every revision is the work of exactly one operation.
THEOREM RegisterHasOneWriter == Register!Spec => []Register!OneWriterPerRevision
  <1>1. RegisterInv => Register!OneWriterPerRevision
    BY DEF RegisterInv
  <1> QED
    BY <1>1, RegisterInit, RegisterNext, PTL DEF Register!Spec
-----------------------------------------------------------------------------
(* What the preference tables record: that they only grow, that each       *)
(* change left one row, that an answer is on disk before it is given, and  *)
(* that the events name every revision.                                    *)

-----------------------------------------------------------------------------
(* The inductive invariant.                                                *)

\* A file that is not migrated yet has no notification history, and its
\* consent is the one the migration will find.
HistoryStartsEmpty ==
    /\ schema # 3 => /\ notificationRevision = 0 /\ notifications = {} /\ readItems = {}
                     /\ consent.revision = migrated
    /\ migrated <= consent.revision

\* NotificationLedger with the one row that marked an item named.
MarkedOnce ==
    /\ \A item \in readItems : \E row \in markReadOps :
        /\ row.item = item /\ row.changed
        /\ \A other \in markReadOps : other.item = item /\ other.changed => other = row
    /\ \A row \in markReadOps : row.item \in readItems

NotificationsCounted ==
    /\ notifications = (migrated + 1)..consent.revision
    /\ schema = 3 => notificationRevision = 1 + Cardinality(notifications)
                                             + Cardinality(readItems)

\* ToastLedger with the one row that produced a revision named.
ToastRevisionsMade ==
    /\ \A r \in 1..toast.revision : \E row \in toastOps :
        /\ row.result = r /\ row.expected = r - 1
        /\ \A other \in toastOps : other.result = r /\ other.expected = r - 1 => other = row
    /\ \A row \in toastOps :
        /\ row.result \in 1..toast.revision
        /\ row.expected \in {row.result - 1, row.result}
        /\ row.result = toast.revision => row.value = toast.value
    /\ \A a, b \in toastOps :
        /\ a.op = b.op => a = b
        /\ a.result = b.result => a.value = b.value
    /\ (toast.value = Unset) <=> (toastOps = {})

MarkReadOpsUnique == \A a, b \in markReadOps : a.op = b.op => a = b

\* Every answer is the row of its operation.
AnswersOnFile ==
    \A a \in acked :
        /\ a.method = "consent" => \E row \in consentOps :
                /\ row.op = a.op /\ row.value = a.value
                /\ row.expected = a.expected /\ row.result = a.revision
        /\ a.method = "toast" => \E row \in toastOps :
                /\ row.op = a.op /\ row.value = a.value
                /\ row.expected = a.expected /\ row.result = a.revision
        /\ a.method = "markRead" => \E row \in markReadOps :
                /\ row.op = a.op /\ row.item = a.value
                /\ row.expected = a.expected /\ row.result = a.revision

LedgerInv ==
    /\ IInv /\ HistoryStartsEmpty
    /\ ConsentLedger /\ ToastRevisionsMade
    /\ MarkedOnce /\ NotificationsCounted /\ MarkReadOpsUnique
    /\ AnswersOnFile

LEMMA LedgerInit == Init => LedgerInv
  <1> SUFFICES ASSUME Init PROVE LedgerInv
    OBVIOUS
  <1>1. IInv
    BY PreferencesInit
  <1>2. HistoryStartsEmpty /\ AnswersOnFile /\ MarkedOnce /\ MarkReadOpsUnique
    BY DEF Init, EmptyTables, FreshFile, SchemaOneFile, HistoryStartsEmpty, AnswersOnFile,
           MarkedOnce, MarkReadOpsUnique
  <1>3. ConsentLedger
    <2>1. CASE FreshFile
      BY <2>1 DEF FreshFile, ConsentLedger
    <2>2. CASE SchemaOneFile
      <3>1. PICK row : /\ consent.revision = 1 /\ consentOps = {row} /\ row.result = 1
                       /\ row.expected = 0 /\ row.value = consent.value
        <4>1. PICK op \in OpIds, v \in Values :
                /\ consent = [value |-> v, revision |-> 1]
                /\ consentOps = {[op |-> op, value |-> v, expected |-> 0, result |-> 1]}
          BY <2>2 DEF SchemaOneFile
        <4>2. PICK row : row = [op |-> op, value |-> v, expected |-> 0, result |-> 1]
          OBVIOUS
        <4>3. consent.revision = 1 /\ consent.value = v /\ consentOps = {row}
          BY <4>1, <4>2
        <4>4. row.result = 1 /\ row.expected = 0 /\ row.value = v
          BY <4>2
        <4> QED
          BY <4>3, <4>4
      <3> QED
        BY <3>1 DEF ConsentLedger
    <2> QED
      BY <2>1, <2>2 DEF Init
  <1>4. ToastRevisionsMade
    BY DEF Init, EmptyTables, ToastRevisionsMade
  <1>5. NotificationsCounted
    BY DEF Init, EmptyTables, FreshFile, SchemaOneFile, NotificationsCounted
  <1> QED
    BY <1>1, <1>2, <1>3, <1>4, <1>5 DEF LedgerInv

\* Steps that leave the tables alone, whatever happens to the process, can
\* disturb only the answers.
LEMMA LedgersStay ==
    ASSUME LedgerInv, IInv', AnswersOnFile', UNCHANGED preferenceVars
    PROVE  LedgerInv'
  <1>1. /\ UNCHANGED <<schema, consent, toast, notifications, readItems, notificationRevision>>
        /\ UNCHANGED <<consentOps, toastOps, markReadOps, migrated>>
    BY DEF preferenceVars
  <1>2. HistoryStartsEmpty' /\ ConsentLedger' /\ ToastRevisionsMade'
    BY <1>1 DEF LedgerInv, HistoryStartsEmpty, ConsentLedger, ToastRevisionsMade
  <1>3. MarkedOnce' /\ NotificationsCounted' /\ MarkReadOpsUnique'
    BY <1>1 DEF LedgerInv, MarkedOnce, NotificationsCounted, MarkReadOpsUnique
  <1> QED
    BY <1>2, <1>3 DEF LedgerInv

\* Answers stay on file while the tables grow and nobody is answered.
LEMMA AnswersKept ==
    ASSUME AnswersOnFile, UNCHANGED acked, consentOps \subseteq consentOps',
           toastOps \subseteq toastOps', markReadOps \subseteq markReadOps'
    PROVE  AnswersOnFile'
  BY DEF AnswersOnFile

\* The migration gives a file without a notification history the revision 1
\* and leaves any other file as it is.
LEMMA RecoverKeepsLedgers ==
    ASSUME LedgerInv, IInv', RecoverDatabase
    PROVE  LedgerInv'
  <1>1. /\ UNCHANGED <<consent, toast, notifications, readItems>>
        /\ UNCHANGED <<consentOps, toastOps, markReadOps, migrated, acked>>
        /\ \/ schema' = 3 /\ notificationRevision' = MigratedNotificationRevision
           \/ UNCHANGED <<schema, notificationRevision>>
    BY DEF RecoverDatabase
  <1>2. AnswersOnFile' /\ ConsentLedger' /\ ToastRevisionsMade' /\ MarkedOnce' /\ MarkReadOpsUnique'
    BY <1>1, AnswersKept DEF LedgerInv, ConsentLedger, ToastRevisionsMade, MarkedOnce, MarkReadOpsUnique
  <1>3. HistoryStartsEmpty'
    BY <1>1 DEF LedgerInv, HistoryStartsEmpty
  <1>4. NotificationsCounted'
    <2>1. notifications' = (migrated' + 1)..consent'.revision
      BY <1>1 DEF LedgerInv, NotificationsCounted
    <2>2. CASE schema = 3
      <3>1. notificationRevision' = notificationRevision
        BY <1>1, <2>2 DEF MigratedNotificationRevision
      <3> QED
        BY <1>1, <2>1, <2>2, <3>1 DEF LedgerInv, NotificationsCounted
    <2>3. CASE schema # 3
      <3>1. /\ Cardinality(notifications) = 0 /\ Cardinality(readItems) = 0
        BY <2>3, FS_EmptySet DEF LedgerInv, HistoryStartsEmpty
      <3>2. Cardinality(notifications') = 0 /\ Cardinality(readItems') = 0
        BY <1>1, <3>1
      <3>3. schema' = 3 => notificationRevision' = 1
        BY <1>1, <2>3 DEF MigratedNotificationRevision
      <3> QED
        BY <2>1, <3>2, <3>3 DEF NotificationsCounted
    <2> QED
      BY <2>2, <2>3
  <1> QED
    BY <1>2, <1>3, <1>4 DEF LedgerInv

\* The finite sets the notification revision counts.
LEMMA ItemsAreFinite ==
    ASSUME LedgerInv
    PROVE  /\ IsFiniteSet(notifications) /\ IsFiniteSet(readItems)
           /\ Cardinality(notifications) \in Nat /\ Cardinality(readItems) \in Nat
  <1>1. migrated + 1 \in Int /\ consent.revision \in Int
    BY RevisionAssumption DEF LedgerInv, IInv, TypeOK, Revisions
  <1>2. IsFiniteSet(notifications)
    BY <1>1, FS_Interval DEF LedgerInv, NotificationsCounted
  <1>3. IsFiniteSet(readItems)
    BY <1>2, FS_Subset DEF LedgerInv, IInv, TypeOK
  <1> QED
    BY <1>2, <1>3, FS_CardinalityType

\* A consent change adds one revision, one row and one notification.
LEMMA ConsentAppliedKeepsLedgers ==
    ASSUME LedgerInv, IInv', NEW op \in OpIds, NEW v \in Values, NEW e \in Revisions,
           ConsentApplied(op, v, e)
    PROVE  LedgerInv'
  <1> DEFINE row == [op |-> op, value |-> v, expected |-> e, result |-> e + 1]
  <1>1. /\ FreshOperation(consentOps, op) /\ e = consent.revision /\ e \in Nat
        /\ consent' = [value |-> v, revision |-> e + 1]
        /\ consentOps' = consentOps \cup {row} /\ row \in consentOps'
        /\ notifications' = notifications \cup {e + 1}
        /\ notificationRevision' = notificationRevision + 1
        /\ UNCHANGED <<schema, toast, readItems, toastOps, markReadOps, migrated>>
        /\ schema = 3
    BY RevisionAssumption DEF ConsentApplied, ConsentAccepts, Revisions
  <1>2. consent'.value = v /\ consent'.revision = e + 1
    BY <1>1
  <1>3. /\ row.op = op /\ row.value = v /\ row.expected = e /\ row.result = e + 1
        /\ \A r \in consentOps : r.op # op /\ r.result \in 1..e /\ r.expected = r.result - 1
    BY <1>1 DEF FreshOperation, LedgerInv, ConsentLedger
  <1> HIDE DEF row
  <1>4. ConsentLedger'
    <2>1. ASSUME NEW r \in 1..(e + 1) PROVE \E x \in consentOps' : x.result = r
      <3>1. CASE r = e + 1
        BY <1>1, <1>3, <3>1
      <3>2. CASE r # e + 1
        <4>1. r \in 1..e
          BY <1>1, <3>2
        <4> QED
          BY <1>1, <4>1 DEF LedgerInv, ConsentLedger
      <3> QED
        BY <3>1, <3>2
    <2>2. ASSUME NEW x \in consentOps'
          PROVE  /\ x.result \in 1..(e + 1) /\ x.expected = x.result - 1
                 /\ x.result = e + 1 => x.value = v
      BY <1>1, <1>3
    <2>3. ASSUME NEW a \in consentOps', NEW b \in consentOps', a.op = b.op \/ a.result = b.result
          PROVE  a = b
      BY <1>1, <1>3, <2>3 DEF LedgerInv, ConsentLedger
    <2> QED
      BY <1>2, <2>1, <2>2, <2>3 DEF ConsentLedger
  <1>5. AnswersOnFile'
    <2>1. CASE UNCHANGED acked
      BY <1>1, <2>1, AnswersKept DEF LedgerInv
    <2>2. CASE acked' = acked \cup {ConsentAnswer(op, v, e, e + 1)}
      <3>1. PICK answer : answer = ConsentAnswer(op, v, e, e + 1)
        OBVIOUS
      <3>2. /\ answer.method = "consent" /\ answer.op = op /\ answer.value = v
            /\ answer.expected = e /\ answer.revision = e + 1
        BY <3>1 DEF ConsentAnswer
      <3>3. ASSUME NEW a \in acked' PROVE a = answer \/ a \in acked
        BY <2>2, <3>1, <3>3
      <3> QED
        BY <1>1, <1>3, <3>2, <3>3 DEF LedgerInv, AnswersOnFile
    <2> QED
      BY <2>1, <2>2, FinishAnswers DEF ConsentApplied
  <1>6. HistoryStartsEmpty'
    BY <1>1, <1>2, RevisionAssumption DEF LedgerInv, HistoryStartsEmpty, IInv, TypeOK, Revisions
  <1>7. NotificationsCounted'
    <2>1. migrated \in Nat /\ migrated <= e /\ notificationRevision \in Nat
      BY <1>1, RevisionAssumption DEF LedgerInv, HistoryStartsEmpty, IInv, TypeOK, Revisions
    <2>2. notifications = (migrated + 1)..e
      BY <1>1 DEF LedgerInv, NotificationsCounted
    <2>3. e + 1 \notin notifications /\ notifications' = (migrated + 1)..(e + 1)
      BY <1>1, <2>1, <2>2
    <2>4. Cardinality(notifications') = Cardinality(notifications) + 1
      BY <1>1, <2>3, ItemsAreFinite, FS_AddElement
    <2>5. notificationRevision = 1 + Cardinality(notifications) + Cardinality(readItems)
      BY <1>1 DEF LedgerInv, NotificationsCounted
    <2>6. notificationRevision' = 1 + Cardinality(notifications') + Cardinality(readItems')
      BY <1>1, <2>4, <2>5, ItemsAreFinite
    <2> QED
      BY <1>2, <1>1, <2>3, <2>6 DEF NotificationsCounted
  <1>8. ToastRevisionsMade' /\ MarkedOnce' /\ MarkReadOpsUnique'
    BY <1>1 DEF LedgerInv, ToastRevisionsMade, MarkedOnce, MarkReadOpsUnique
  <1> QED
    BY <1>4, <1>5, <1>6, <1>7, <1>8 DEF LedgerInv

\* A toast write adds one row; it shares the last revision with the earlier
\* ones exactly when it asked for the value they left.
LEMMA ToastAppliedKeepsLedgers ==
    ASSUME LedgerInv, IInv', NEW op \in OpIds, NEW v \in Values, NEW e \in Revisions,
           ToastApplied(op, v, e)
    PROVE  LedgerInv'
  <1>1. PICK result : result = IF ToastChanges(v) THEN e + 1 ELSE e
    OBVIOUS
  <1>2. PICK row : row = [op |-> op, value |-> v, expected |-> e, result |-> result]
    OBVIOUS
  <1>3. /\ FreshOperation(toastOps, op) /\ e = toast.revision /\ e \in Nat
        /\ toast' = [value |-> v, revision |-> result]
        /\ toastOps' = toastOps \cup {row} /\ row \in toastOps'
        /\ UNCHANGED <<schema, consent, notifications, readItems, notificationRevision>>
        /\ UNCHANGED <<consentOps, markReadOps, migrated>>
    BY <1>1, <1>2, RevisionAssumption DEF ToastApplied, Revisions
  <1>4. toast'.value = v /\ toast'.revision = result /\ v # Unset
    BY <1>3 DEF Values, Unset
  <1>5. /\ row.op = op /\ row.value = v /\ row.expected = e /\ row.result = result
        /\ \A r \in toastOps : /\ r.op # op /\ r.result \in 1..e
                               /\ r.expected \in {r.result - 1, r.result}
                               /\ r.result = e => r.value = toast.value
    BY <1>2, <1>3 DEF FreshOperation, LedgerInv, ToastRevisionsMade
  <1>6. \/ result = e + 1
        \/ result = e /\ v = toast.value /\ toastOps # {}
    BY <1>1, <1>4 DEF ToastChanges, LedgerInv, ToastRevisionsMade
  <1>7. result \in 1..result /\ result \in Nat /\ e <= result
    <2>1. CASE toastOps # {}
      <3>1. PICK r \in toastOps : r.result \in 1..e
        BY <1>5, <2>1
      <3> QED
        BY <1>3, <1>6, <3>1
    <2> QED
      BY <1>3, <1>6, <2>1
  <1>8. ToastRevisionsMade'
    <2>1. ASSUME NEW r \in 1..result
          PROVE  \E x \in toastOps' :
                    /\ x.result = r /\ x.expected = r - 1
                    /\ \A y \in toastOps' : y.result = r /\ y.expected = r - 1 => y = x
      <3>1. CASE r = e + 1
        BY <1>3, <1>5, <1>6, <1>7, <3>1
      <3>2. CASE r # e + 1
        <4>1. r \in 1..e
          BY <1>3, <1>6, <3>2
        <4>2. PICK x \in toastOps :
                    /\ x.result = r /\ x.expected = r - 1
                    /\ \A y \in toastOps : y.result = r /\ y.expected = r - 1 => y = x
          BY <1>3, <4>1 DEF LedgerInv, ToastRevisionsMade
        <4>3. ~(row.result = r /\ row.expected = r - 1)
          BY <1>3, <1>5, <4>1
        <4> QED
          BY <1>3, <4>2, <4>3
      <3> QED
        BY <3>1, <3>2
    <2>2. ASSUME NEW x \in toastOps'
          PROVE  /\ x.result \in 1..result /\ x.expected \in {x.result - 1, x.result}
                 /\ x.result = result => x.value = v
      BY <1>3, <1>5, <1>6, <1>7
    <2>3. ASSUME NEW a \in toastOps', NEW b \in toastOps'
          PROVE  (a.op = b.op => a = b) /\ (a.result = b.result => a.value = b.value)
      BY <1>3, <1>5, <1>6 DEF LedgerInv, ToastRevisionsMade
    <2>4. toast'.value # Unset /\ toastOps' # {}
      BY <1>3, <1>4
    <2> QED
      BY <1>4, <2>1, <2>2, <2>3, <2>4 DEF ToastRevisionsMade
  <1>9. AnswersOnFile'
    <2>1. CASE UNCHANGED acked
      BY <1>3, <2>1, AnswersKept DEF LedgerInv
    <2>2. CASE acked' = acked \cup {ToastAnswer(op, v, e, result)}
      <3>1. PICK answer : answer = ToastAnswer(op, v, e, result)
        OBVIOUS
      <3>2. /\ answer.method = "toast" /\ answer.op = op /\ answer.value = v
            /\ answer.expected = e /\ answer.revision = result
        BY <3>1 DEF ToastAnswer
      <3>3. ASSUME NEW a \in acked' PROVE a = answer \/ a \in acked
        BY <2>2, <3>1, <3>3
      <3> QED
        BY <1>3, <1>5, <3>2, <3>3 DEF LedgerInv, AnswersOnFile
    <2> QED
      BY <1>1, <2>1, <2>2, FinishAnswers DEF ToastApplied
  <1>10. HistoryStartsEmpty' /\ ConsentLedger' /\ NotificationsCounted'
    BY <1>3 DEF LedgerInv, HistoryStartsEmpty, ConsentLedger, NotificationsCounted
  <1>11. MarkedOnce' /\ MarkReadOpsUnique'
    BY <1>3 DEF LedgerInv, MarkedOnce, MarkReadOpsUnique
  <1> QED
    BY <1>8, <1>9, <1>10, <1>11 DEF LedgerInv

\* Marking a notification adds one row; the revision counts the first one.
LEMMA MarkReadAppliedKeepsLedgers ==
    ASSUME LedgerInv, IInv', NEW op \in OpIds, NEW item \in Revisions, NEW e \in Revisions,
           MarkReadApplied(op, item, e)
    PROVE  LedgerInv'
  <1>1. PICK changes \in BOOLEAN : changes = MarkReadChanges(item)
    BY DEF MarkReadChanges
  <1>2. PICK result : result = IF changes THEN e + 1 ELSE e
    OBVIOUS
  <1>3. PICK row : row = [op |-> op, item |-> item, expected |-> e, result |-> result,
                          changed |-> changes]
    OBVIOUS
  <1>4. /\ FreshOperation(markReadOps, op) /\ e = notificationRevision /\ e \in Nat
        /\ item \in notifications /\ schema = 3
        /\ readItems' = readItems \cup {item} /\ notificationRevision' = result
        /\ markReadOps' = markReadOps \cup {row} /\ row \in markReadOps'
        /\ UNCHANGED <<schema, consent, toast, notifications, consentOps, toastOps, migrated>>
    BY <1>1, <1>2, <1>3, RevisionAssumption
       DEF MarkReadApplied, MarkReadFresh, MarkReadAccepts, Revisions
  <1>5. /\ row.op = op /\ row.item = item /\ row.expected = e /\ row.result = result
        /\ row.changed = changes
        /\ \A r \in markReadOps : r.op # op /\ r.item \in readItems
    BY <1>3, <1>4 DEF FreshOperation, LedgerInv, MarkedOnce
  <1>6. changes <=> item \notin readItems
    BY <1>1 DEF MarkReadChanges
  <1>7. MarkedOnce'
    <2>1. ASSUME NEW i \in readItems'
          PROVE  \E x \in markReadOps' :
                    /\ x.item = i /\ x.changed
                    /\ \A y \in markReadOps' : y.item = i /\ y.changed => y = x
      <3>1. CASE i \notin readItems
        BY <1>4, <1>5, <1>6, <3>1
      <3>2. CASE i \in readItems
        <4>1. PICK x \in markReadOps :
                    /\ x.item = i /\ x.changed
                    /\ \A y \in markReadOps : y.item = i /\ y.changed => y = x
          BY <3>2 DEF LedgerInv, MarkedOnce
        <4>2. ~(row.item = i /\ row.changed)
          BY <1>5, <1>6, <3>2
        <4> QED
          BY <1>4, <4>1, <4>2
      <3> QED
        BY <3>1, <3>2
    <2>2. \A x \in markReadOps' : x.item \in readItems'
      BY <1>4, <1>5
    <2> QED
      BY <2>1, <2>2 DEF MarkedOnce
  <1>8. MarkReadOpsUnique'
    BY <1>4, <1>5 DEF LedgerInv, MarkReadOpsUnique
  <1>9. NotificationsCounted'
    <2>1. e = 1 + Cardinality(notifications) + Cardinality(readItems)
      BY <1>4 DEF LedgerInv, NotificationsCounted
    <2>2. Cardinality(readItems') = IF changes THEN Cardinality(readItems) + 1
                                               ELSE Cardinality(readItems)
      BY <1>4, <1>6, ItemsAreFinite, FS_AddElement
    <2>3. notificationRevision' = 1 + Cardinality(notifications) + Cardinality(readItems')
      BY <1>2, <1>4, <2>1, <2>2, ItemsAreFinite
    <2> QED
      BY <1>4, <2>3 DEF LedgerInv, NotificationsCounted
  <1>10. AnswersOnFile'
    <2>1. CASE UNCHANGED acked
      BY <1>4, <2>1, AnswersKept DEF LedgerInv
    <2>2. CASE acked' = acked \cup {MarkReadAnswer(op, item, e, result)}
      <3>1. PICK answer : answer = MarkReadAnswer(op, item, e, result)
        OBVIOUS
      <3>2. /\ answer.method = "markRead" /\ answer.op = op /\ answer.value = item
            /\ answer.expected = e /\ answer.revision = result
        BY <3>1 DEF MarkReadAnswer
      <3>3. ASSUME NEW a \in acked' PROVE a = answer \/ a \in acked
        BY <2>2, <3>1, <3>3
      <3> QED
        BY <1>4, <1>5, <3>2, <3>3 DEF LedgerInv, AnswersOnFile
    <2> QED
      BY <1>1, <1>2, <2>1, <2>2, FinishAnswers DEF MarkReadApplied
  <1>11. HistoryStartsEmpty' /\ ConsentLedger' /\ ToastRevisionsMade'
    BY <1>4 DEF LedgerInv, HistoryStartsEmpty, ConsentLedger, ToastRevisionsMade
  <1> QED
    BY <1>7, <1>8, <1>9, <1>10, <1>11 DEF LedgerInv

\* A replay hands out what the row says.
LEMMA ReplaysAreOnFile ==
    ASSUME LedgerInv, NEW op \in OpIds, NEW e \in Revisions,
           \/ \E v \in Values : ConsentReplayed(op, v, e) \/ ToastReplayed(op, v, e)
           \/ \E item \in Revisions : MarkReadReplayed(op, item, e)
    PROVE  UNCHANGED preferenceVars /\ AnswersOnFile'
  <1>1. ASSUME NEW v \in Values, ConsentReplayed(op, v, e)
        PROVE  UNCHANGED preferenceVars /\ AnswersOnFile'
    <2>1. PICK row \in consentOps :
            /\ row.op = op /\ row.value = v /\ row.expected = e
            /\ acked' = acked \cup {ConsentAnswer(op, v, e, row.result)}
      BY <1>1 DEF ConsentReplayed
    <2>2. PICK answer : answer = ConsentAnswer(op, v, e, row.result)
      OBVIOUS
    <2>3. /\ answer.method = "consent" /\ answer.op = op /\ answer.value = v
          /\ answer.expected = e /\ answer.revision = row.result
      BY <2>2 DEF ConsentAnswer
    <2>4. UNCHANGED preferenceVars /\ UNCHANGED <<consentOps, toastOps, markReadOps>>
      BY <1>1 DEF ConsentReplayed, preferenceVars
    <2>5. \A a \in acked' : a = answer \/ a \in acked
      BY <2>1, <2>2
    <2> QED
      BY <2>1, <2>3, <2>4, <2>5 DEF LedgerInv, AnswersOnFile
  <1>2. ASSUME NEW v \in Values, ToastReplayed(op, v, e)
        PROVE  UNCHANGED preferenceVars /\ AnswersOnFile'
    <2>1. PICK row \in toastOps :
            /\ row.op = op /\ row.value = v /\ row.expected = e
            /\ acked' = acked \cup {ToastAnswer(op, v, e, row.result)}
      BY <1>2 DEF ToastReplayed
    <2>2. PICK answer : answer = ToastAnswer(op, v, e, row.result)
      OBVIOUS
    <2>3. /\ answer.method = "toast" /\ answer.op = op /\ answer.value = v
          /\ answer.expected = e /\ answer.revision = row.result
      BY <2>2 DEF ToastAnswer
    <2>4. UNCHANGED preferenceVars /\ UNCHANGED <<consentOps, toastOps, markReadOps>>
      BY <1>2 DEF ToastReplayed, preferenceVars
    <2>5. \A a \in acked' : a = answer \/ a \in acked
      BY <2>1, <2>2
    <2> QED
      BY <2>1, <2>3, <2>4, <2>5 DEF LedgerInv, AnswersOnFile
  <1>3. ASSUME NEW item \in Revisions, MarkReadReplayed(op, item, e)
        PROVE  UNCHANGED preferenceVars /\ AnswersOnFile'
    <2>1. PICK row \in markReadOps :
            /\ row.op = op /\ row.item = item /\ row.expected = e
            /\ acked' = acked \cup {MarkReadAnswer(op, item, e, row.result)}
      BY <1>3 DEF MarkReadReplayed
    <2>2. PICK answer : answer = MarkReadAnswer(op, item, e, row.result)
      OBVIOUS
    <2>3. /\ answer.method = "markRead" /\ answer.op = op /\ answer.value = item
          /\ answer.expected = e /\ answer.revision = row.result
      BY <2>2 DEF MarkReadAnswer
    <2>4. UNCHANGED preferenceVars /\ UNCHANGED <<consentOps, toastOps, markReadOps>>
      BY <1>3 DEF MarkReadReplayed, preferenceVars
    <2>5. \A a \in acked' : a = answer \/ a \in acked
      BY <2>1, <2>2
    <2> QED
      BY <2>1, <2>3, <2>4, <2>5 DEF LedgerInv, AnswersOnFile
  <1> QED
    BY <1>1, <1>2, <1>3

\* The steps of the service itself, and refusals, answer nobody and leave
\* the tables alone, but for the migration.
ServiceStep ==
    \/ Start \/ HardwareFails \/ Crash \/ ConsentExhausted
    \/ \E n \in HardwareEventCounts : HardwarePublishes(n)
    \/ \E op \in OpIds, e \in Revisions :
        \E item \in Revisions : MarkReadExhausted(op, item, e)

LEMMA ServiceStepsLeaveTables ==
    ASSUME ServiceStep \/ UNCHANGED vars
    PROVE  UNCHANGED preferenceVars /\ UNCHANGED acked
  BY DEF ServiceStep, Start, HardwareFails, Crash, HardwarePublishes, ConsentExhausted,
         MarkReadExhausted, RefuseExhausted, Stop, preferenceVars,
         historyVars, vars

\* Every step is one of these.
LEMMA StepKinds ==
    ASSUME [Next]_vars
    PROVE  \/ ServiceStep \/ UNCHANGED vars \/ RecoverDatabase
           \/ \E op \in OpIds, e \in Revisions :
                \/ \E v \in Values : \/ ConsentReplayed(op, v, e) \/ ToastReplayed(op, v, e)
                                     \/ ConsentApplied(op, v, e) \/ ToastApplied(op, v, e)
                \/ \E item \in Revisions : MarkReadReplayed(op, item, e)
                                           \/ MarkReadApplied(op, item, e)
  BY Zenon DEF Next, Call, ServiceStep

LEMMA LedgerNext == LedgerInv /\ [Next]_vars => LedgerInv'
  <1> SUFFICES ASSUME LedgerInv, [Next]_vars PROVE LedgerInv'
    OBVIOUS
  <1>1. IInv'
    BY PreferencesNext DEF LedgerInv
  <1>2. CASE ServiceStep \/ UNCHANGED vars
    <2>1. UNCHANGED preferenceVars /\ UNCHANGED acked
      BY <1>2, ServiceStepsLeaveTables
    <2>2. UNCHANGED <<consentOps, toastOps, markReadOps>>
      BY <2>1 DEF preferenceVars
    <2>3. AnswersOnFile'
      BY <2>1, <2>2, AnswersKept DEF LedgerInv
    <2> QED
      BY <1>1, <2>1, <2>3, LedgersStay
  <1>3. ASSUME NEW op \in OpIds, NEW e \in Revisions,
               \/ \E v \in Values : ConsentReplayed(op, v, e) \/ ToastReplayed(op, v, e)
               \/ \E item \in Revisions : MarkReadReplayed(op, item, e)
        PROVE  LedgerInv'
    BY <1>1, <1>3, ReplaysAreOnFile, LedgersStay
  <1> QED
    BY <1>1, <1>2, <1>3, StepKinds, RecoverKeepsLedgers, ConsentAppliedKeepsLedgers,
       ToastAppliedKeepsLedgers, MarkReadAppliedKeepsLedgers
-----------------------------------------------------------------------------
(* What the invariant says of the runs' properties.                        *)

LEMMA SingleRow ==
    ASSUME NEW S, NEW x \in S, \A y \in S : y = x
    PROVE  Cardinality(S) = 1
  <1>1. S = {x}
    OBVIOUS
  <1> QED
    BY <1>1, FS_Singleton

LEMMA LedgersFollow == LedgerInv => PreferenceLedgers
  <1> SUFFICES ASSUME LedgerInv PROVE PreferenceLedgers
    OBVIOUS
  <1>1. ToastLedger
    <2>1. ASSUME NEW r \in 1..toast.revision
          PROVE  Cardinality({row \in toastOps : row.result = r /\ row.expected = r - 1}) = 1
      <3>1. PICK row \in toastOps :
              /\ row.result = r /\ row.expected = r - 1
              /\ \A other \in toastOps : other.result = r /\ other.expected = r - 1 => other = row
        BY DEF LedgerInv, ToastRevisionsMade
      <3> QED
        BY <3>1, SingleRow
    <2> QED
      BY <2>1 DEF LedgerInv, ToastRevisionsMade, ToastLedger
  <1>2. NotificationLedger
    <2>1. ASSUME NEW item \in readItems
          PROVE  Cardinality({row \in markReadOps : row.item = item /\ row.changed}) = 1
      <3>1. PICK row \in markReadOps :
              /\ row.item = item /\ row.changed
              /\ \A other \in markReadOps : other.item = item /\ other.changed => other = row
        BY DEF LedgerInv, MarkedOnce
      <3> QED
        BY <3>1, SingleRow
    <2> QED
      BY <2>1 DEF LedgerInv, MarkedOnce, NotificationsCounted, NotificationLedger
  <1> QED
    BY <1>1, <1>2 DEF LedgerInv, PreferenceLedgers

LEMMA OneAnswerFollows == LedgerInv => OneAnswerPerOperation
  <1> SUFFICES ASSUME LedgerInv PROVE OneAnswerPerOperation
    OBVIOUS
  <1>1. \A a \in acked :
            /\ a = [method |-> a.method, op |-> a.op, value |-> a.value,
                    expected |-> a.expected, revision |-> a.revision]
            /\ a.method \in {"consent", "toast", "markRead"}
    BY DEF LedgerInv, IInv, TypeOK, Answer
  <1>2. ASSUME NEW a \in acked, NEW b \in acked, a.method = b.method, a.op = b.op
        PROVE  a = b
    <2>1. CASE a.method = "consent"
      <3>1. PICK p \in consentOps : p.op = a.op /\ p.value = a.value
                                    /\ p.expected = a.expected /\ p.result = a.revision
        BY <2>1 DEF LedgerInv, AnswersOnFile
      <3>2. PICK q \in consentOps : q.op = b.op /\ q.value = b.value
                                    /\ q.expected = b.expected /\ q.result = b.revision
        BY <1>2, <2>1 DEF LedgerInv, AnswersOnFile
      <3>3. p = q
        BY <1>2, <3>1, <3>2 DEF LedgerInv, ConsentLedger
      <3> QED
        BY <1>1, <1>2, <3>1, <3>2, <3>3
    <2>2. CASE a.method = "toast"
      <3>1. PICK p \in toastOps : p.op = a.op /\ p.value = a.value
                                  /\ p.expected = a.expected /\ p.result = a.revision
        BY <2>2 DEF LedgerInv, AnswersOnFile
      <3>2. PICK q \in toastOps : q.op = b.op /\ q.value = b.value
                                  /\ q.expected = b.expected /\ q.result = b.revision
        BY <1>2, <2>2 DEF LedgerInv, AnswersOnFile
      <3>3. p = q
        BY <1>2, <3>1, <3>2 DEF LedgerInv, ToastRevisionsMade
      <3> QED
        BY <1>1, <1>2, <3>1, <3>2, <3>3
    <2>3. CASE a.method = "markRead"
      <3>1. PICK p \in markReadOps : p.op = a.op /\ p.item = a.value
                                     /\ p.expected = a.expected /\ p.result = a.revision
        BY <2>3 DEF LedgerInv, AnswersOnFile
      <3>2. PICK q \in markReadOps : q.op = b.op /\ q.item = b.value
                                     /\ q.expected = b.expected /\ q.result = b.revision
        BY <1>2, <2>3 DEF LedgerInv, AnswersOnFile
      <3>3. p = q
        BY <1>2, <3>1, <3>2 DEF LedgerInv, MarkReadOpsUnique
      <3> QED
        BY <1>1, <1>2, <3>1, <3>2, <3>3
    <2> QED
      BY <1>1, <2>1, <2>2, <2>3
  <1>3. ASSUME NEW a \in acked
        PROVE  CASE a.method = "consent" -> \E row \in consentOps : row.op = a.op /\ row.result = a.revision
                 [] a.method = "toast" -> \E row \in toastOps : row.op = a.op /\ row.result = a.revision
                 [] OTHER -> \E row \in markReadOps : row.op = a.op /\ row.result = a.revision
    <2>1. CASE a.method = "consent"
      BY <2>1 DEF LedgerInv, AnswersOnFile
    <2>2. CASE a.method = "toast"
      BY <2>2 DEF LedgerInv, AnswersOnFile
    <2>3. CASE a.method = "markRead"
      BY <2>3 DEF LedgerInv, AnswersOnFile
    <2> QED
      BY <1>1, <2>1, <2>2, <2>3
  <1> QED
    BY <1>2, <1>3 DEF OneAnswerPerOperation

\* For every file a service of this code can have written, each revision has
\* the operations that made it and the three notification tables add up,
\* after any retries, crashes and migrations.
THEOREM TablesTellTheirHistory == Spec => []PreferenceLedgers
  BY LedgerInit, LedgerNext, LedgersFollow, PTL DEF Spec

\* However often an operation is repeated, and whatever process answers, the
\* caller hears one result, and the operation is on disk by then.
THEOREM PreferencesAnswerOnce == Spec => []OneAnswerPerOperation
  BY LedgerInit, LedgerNext, OneAnswerFollows, PTL DEF Spec

\* What the abstract register promises its callers the tables promise, too.
LEMMA RegistersFollow ==
    ASSUME LedgerInv
    PROVE  /\ ConsentRegister!OneResult /\ ConsentRegister!OneWriterPerRevision
           /\ ToastRegister!OneResult /\ ToastRegister!OneWriterPerRevision
  <1>1. OneAnswerPerOperation /\ ConsentLedger /\ ToastRevisionsMade
    BY OneAnswerFollows DEF LedgerInv
  <1>2. ASSUME NEW method, NEW a \in AnswersTo(method)
        PROVE  \E b \in acked : b.method = method /\ a = [op |-> b.op, revision |-> b.revision]
    BY DEF AnswersTo
  <1>3. \A method : \A a, b \in AnswersTo(method) : a.op = b.op => a = b
    BY <1>1, <1>2 DEF OneAnswerPerOperation
  <1>4. \A a \in AnswersTo("consent") :
            \E row \in consentOps : row.op = a.op /\ row.result = a.revision
    BY <1>1, <1>2 DEF OneAnswerPerOperation
  <1>5. \A a \in AnswersTo("toast") :
            \E row \in toastOps : row.op = a.op /\ row.result = a.revision
    BY <1>1, <1>2 DEF OneAnswerPerOperation
  <1>6. ConsentRegister!OneResult /\ ToastRegister!OneResult
    BY <1>3, <1>4, <1>5 DEF ConsentRegister!OneResult, ToastRegister!OneResult
  <1>7. ConsentRegister!OneWriterPerRevision
    BY <1>1 DEF ConsentLedger, ConsentRegister!OneWriterPerRevision
  <1>8. ToastRegister!OneWriterPerRevision
    <2>1. ASSUME NEW a \in toastOps, NEW b \in toastOps, a.result = b.result,
                 a.expected < a.result, b.expected < b.result
          PROVE  a = b
      <3>1. /\ a.result \in 1..toast.revision /\ a.expected \in {a.result - 1, a.result}
            /\ b.expected \in {a.result - 1, a.result}
        BY <1>1, <2>1 DEF ToastRevisionsMade
      <3>2. toast.revision \in Nat
        BY RevisionAssumption DEF LedgerInv, IInv, TypeOK, Revisions
      <3>3. a.expected = a.result - 1 /\ b.expected = a.result - 1
        BY <2>1, <3>1, <3>2
      <3> QED
        BY <1>1, <2>1, <3>1, <3>3 DEF ToastRevisionsMade
    <2> QED
      BY <1>1, <2>1 DEF ToastRevisionsMade, ToastRegister!OneWriterPerRevision
  <1> QED
    BY <1>6, <1>7, <1>8

\* A caller of SetProductTelemetryConsent that repeats an operation ID until
\* it hears OK hears one result, and every revision has one writer
\* (session_database.cpp, updateProductTelemetryConsent).
THEOREM ConsentAnswersOnce ==
    Spec => [](ConsentRegister!OneResult /\ ConsentRegister!OneWriterPerRevision)
  <1>1. LedgerInv => ConsentRegister!OneResult /\ ConsentRegister!OneWriterPerRevision
    BY RegistersFollow
  <1> QED
    BY <1>1, LedgerInit, LedgerNext, PTL DEF Spec

\* So does a caller of SetToastNotifications; operations that share a revision
\* with its writer asked for the value it has (updateToastNotifications).
THEOREM ToastAnswersOnce ==
    Spec => [](ToastRegister!OneResult /\ ToastRegister!OneWriterPerRevision)
  <1>1. LedgerInv => ToastRegister!OneResult /\ ToastRegister!OneWriterPerRevision
    BY RegistersFollow
  <1> QED
    BY <1>1, LedgerInit, LedgerNext, PTL DEF Spec

\* One step never takes a row, a mark or a revision back.
LEMMA HistoryKept ==
    ASSUME LedgerInv, [Next]_vars
    PROVE  /\ consentOps \subseteq consentOps' /\ toastOps \subseteq toastOps'
           /\ markReadOps \subseteq markReadOps' /\ readItems \subseteq readItems'
           /\ consent'.revision >= consent.revision
           /\ notificationRevision' >= notificationRevision
  <1> DEFINE Kept == /\ consentOps \subseteq consentOps' /\ toastOps \subseteq toastOps'
                     /\ markReadOps \subseteq markReadOps' /\ readItems \subseteq readItems'
                     /\ consent'.revision >= consent.revision
                     /\ notificationRevision' >= notificationRevision
  <1>1. consent.revision \in Nat /\ notificationRevision \in Nat
    BY RevisionAssumption DEF LedgerInv, IInv, TypeOK, Revisions
  <1>2. CASE UNCHANGED preferenceVars
    BY <1>1, <1>2 DEF preferenceVars
  <1>3. CASE RecoverDatabase
    BY <1>1, <1>3 DEF RecoverDatabase, MigratedNotificationRevision, LedgerInv, HistoryStartsEmpty
  <1>4. ASSUME NEW op \in OpIds, NEW e \in Revisions, NEW v \in Values, ConsentApplied(op, v, e)
        PROVE  Kept
    BY <1>1, <1>4 DEF ConsentApplied
  <1>5. ASSUME NEW op \in OpIds, NEW e \in Revisions, NEW v \in Values, ToastApplied(op, v, e)
        PROVE  Kept
    BY <1>1, <1>5 DEF ToastApplied
  <1>6. ASSUME NEW op \in OpIds, NEW e \in Revisions, NEW item \in Revisions,
               MarkReadApplied(op, item, e)
        PROVE  Kept
    BY <1>1, <1>6 DEF MarkReadApplied, MarkReadFresh
  <1> HIDE DEF Kept
  <1>7. Kept
    BY <1>2, <1>3, <1>4, <1>5, <1>6, StepKinds, ServiceStepsLeaveTables, ReplaysAreOnFile DEF Kept
  <1> QED
    BY <1>7 DEF Kept

\* No crash, failed recovery or later operation takes back what an operation
\* table holds or lowers a revision.
THEOREM TablesOnlyGrow == Spec => HistoryIsPermanent
  <1>1. LedgerInv /\ [Next]_vars =>
            [/\ consentOps \subseteq consentOps' /\ toastOps \subseteq toastOps'
             /\ markReadOps \subseteq markReadOps' /\ readItems \subseteq readItems'
             /\ consent'.revision >= consent.revision
             /\ notificationRevision' >= notificationRevision]_vars
    BY HistoryKept
  <1> QED
    BY <1>1, LedgerInit, LedgerNext, PTL DEF Spec, HistoryIsPermanent
-----------------------------------------------------------------------------
(* Events and revisions.                                                   *)

\* events and the same with further ones behind them.
Extends(longer, events, n, m) ==
    /\ n \in Nat /\ m \in Nat
    /\ DOMAIN events = 1..n /\ DOMAIN longer = 1..(n + m)
    /\ \A i \in 1..n : longer[i] = events[i] /\ events[i].revision \in Nat

\* Events of other families do not count.
LEMMA TracksWithoutIt ==
    ASSUME NEW events, NEW longer, NEW n, NEW m, Extends(longer, events, n, m),
           NEW family, NEW revision, Tracks(events, family, revision),
           \A i \in (n + 1)..(n + m) : longer[i].family # family
    PROVE  Tracks(longer, family, revision)
  <1>1. Announced(longer, family) = Announced(events, family)
    BY DEF Extends, Announced
  <1>2. \A i \in Announced(events, family) : longer[i] = events[i]
    BY DEF Extends, Announced
  <1> QED
    BY <1>1, <1>2 DEF Tracks

\* One event of the family, with the next revision, keeps it in step.
LEMMA TracksOneMore ==
    ASSUME NEW events, NEW longer, NEW n, NEW m, Extends(longer, events, n, m),
           NEW family, NEW revision \in Nat, Tracks(events, family, revision),
           NEW last \in (n + 1)..(n + m),
           longer[last].family = family, longer[last].revision = revision + 1,
           \A i \in (n + 1)..(n + m) : longer[i].family = family => i = last
    PROVE  Tracks(longer, family, revision + 1)
  <1>1. Announced(longer, family) = Announced(events, family) \cup {last}
    BY DEF Extends, Announced
  <1>2. /\ \A i \in Announced(events, family) :
            i \in 1..n /\ longer[i] = events[i] /\ events[i].revision \in Nat
        /\ n \in Nat /\ last \in Nat /\ last > n
    BY DEF Extends, Announced
  <1>3. ASSUME NEW i \in Announced(longer, family), NEW j \in Announced(longer, family), i < j
        PROVE  longer[i].revision < longer[j].revision
    <2>1. i \in Announced(events, family)
      BY <1>1, <1>2, <1>3
    <2>2. CASE j \in Announced(events, family)
      BY <1>2, <1>3, <2>1, <2>2 DEF Tracks
    <2>3. CASE j = last
      <3>1. events[i].revision <= revision
        BY <2>1 DEF Tracks
      <3> QED
        BY <1>2, <2>1, <2>3, <3>1
    <2> QED
      BY <1>1, <2>2, <2>3
  <1>4. ASSUME NEW i \in Announced(longer, family), NEW r \in longer[i].revision..(revision + 1)
        PROVE  \E j \in Announced(longer, family) : longer[j].revision = r
    <2>1. CASE r = revision + 1
      BY <1>1, <2>1
    <2>2. CASE r # revision + 1
      <3>1. i \in Announced(events, family)
        <4>1. CASE i = last
          BY <2>2, <4>1
        <4> QED
          BY <1>1, <4>1
      <3>2. r \in events[i].revision..revision
        BY <1>2, <2>2, <3>1
      <3>3. PICK j \in Announced(events, family) : events[j].revision = r
        BY <3>1, <3>2 DEF Tracks
      <3> QED
        BY <1>1, <1>2, <3>3
    <2> QED
      BY <2>1, <2>2
  <1>5. ASSUME NEW i \in Announced(longer, family)
        PROVE  longer[i].revision <= revision + 1
    <2>1. CASE i = last
      BY <2>1
    <2>2. CASE i \in Announced(events, family)
      <3>1. events[i].revision <= revision
        BY <2>2 DEF Tracks
      <3> QED
        BY <1>2, <2>2, <3>1
    <2> QED
      BY <1>1, <2>1, <2>2
  <1> QED
    BY <1>3, <1>4, <1>5 DEF Tracks

LEMMA NothingToTrack ==
    ASSUME NEW family, NEW revision PROVE Tracks(<<>>, family, revision)
  BY DEF Tracks, Announced

\* What Publish appends.
LEMMA PublishExtends ==
    ASSUME IInv, NEW evs \in Seq(Notes), Publish(evs)
    PROVE  /\ Extends(emitted', emitted, Len(emitted), Len(evs))
           /\ \A i \in (Len(emitted) + 1)..(Len(emitted) + Len(evs)) :
                /\ i - Len(emitted) \in 1..Len(evs)
                /\ emitted'[i].family = evs[i - Len(emitted)].family
                /\ emitted'[i].revision = evs[i - Len(emitted)].revision
  <1>1. /\ emitted \in Seq(Event) /\ Len(emitted) \in Nat /\ eventSequence \in 0..MaxSequence
        /\ Len(evs) \in Nat /\ DOMAIN evs = 1..Len(evs)
    BY LenProperties DEF IInv, TypeOK, ServiceTypeOK
  <1>2. PICK new : new = Numbered(evs)
    OBVIOUS
  <1>3. /\ new \in Seq(Event) /\ Len(new) = Len(evs)
        /\ \A k \in 1..Len(evs) : new[k].family = evs[k].family /\ new[k].revision = evs[k].revision
    BY <1>1, <1>2, NumberedIsSeq DEF Numbered
  <1>4. emitted' = emitted \o new
    BY <1>2 DEF Publish
  <1>5. /\ DOMAIN emitted = 1..Len(emitted) /\ DOMAIN emitted' = 1..(Len(emitted) + Len(evs))
        /\ \A i \in 1..Len(emitted) : emitted'[i] = emitted[i] /\ emitted[i] \in Event
        /\ \A i \in (Len(emitted) + 1)..(Len(emitted) + Len(evs)) :
                emitted'[i] = new[i - Len(emitted)]
    <2>1. /\ DOMAIN emitted' = 1..(Len(emitted) + Len(new))
          /\ \A i \in 1..(Len(emitted) + Len(new)) :
              emitted'[i] = IF i <= Len(emitted) THEN emitted[i] ELSE new[i - Len(emitted)]
      <3>1. /\ emitted' \in Seq(Event) /\ Len(emitted') = Len(emitted) + Len(new)
            /\ \A i \in 1..(Len(emitted) + Len(new)) :
                emitted'[i] = IF i <= Len(emitted) THEN emitted[i] ELSE new[i - Len(emitted)]
        BY <1>1, <1>3, <1>4, ConcatProperties
      <3>2. DOMAIN emitted' = 1..Len(emitted')
        BY <3>1, LenProperties
      <3> QED
        BY <3>1, <3>2
    <2>2. DOMAIN emitted = 1..Len(emitted) /\ \A i \in 1..Len(emitted) : emitted[i] \in Event
      BY <1>1, LenProperties, ElementOfSeq
    <2> QED
      BY <1>1, <1>3, <2>1, <2>2
  <1>6. \A event \in Event : event.revision \in Nat
    BY RevisionAssumption DEF Event, Revisions
  <1>7. Extends(emitted', emitted, Len(emitted), Len(evs))
    BY <1>1, <1>5, <1>6 DEF Extends
  <1>8. \A i \in (Len(emitted) + 1)..(Len(emitted) + Len(evs)) : i - Len(emitted) \in 1..Len(evs)
    BY <1>1
  <1> QED
    BY <1>3, <1>5, <1>7, <1>8

LEMMA PublishWithoutIt ==
    ASSUME IInv, NEW evs \in Seq(Notes), Publish(evs), NEW family, NEW revision,
           Tracks(emitted, family, revision),
           \A k \in 1..Len(evs) : evs[k].family # family
    PROVE  Tracks(emitted', family, revision)
  <1>1. PICK before, after, n, m :
            before = emitted /\ after = emitted' /\ n = Len(emitted) /\ m = Len(evs)
    OBVIOUS
  <1>2. /\ Extends(after, before, n, m)
        /\ \A i \in (n + 1)..(n + m) : after[i].family # family
    BY <1>1, PublishExtends
  <1>3. Tracks(after, family, revision)
    BY <1>1, <1>2, TracksWithoutIt
  <1> QED
    BY <1>1, <1>3

LEMMA PublishOneMore ==
    ASSUME IInv, NEW evs \in Seq(Notes), Publish(evs), NEW family, NEW revision \in Nat,
           Tracks(emitted, family, revision), NEW only \in 1..Len(evs),
           evs[only] = Note(family, revision + 1),
           \A k \in 1..Len(evs) : evs[k].family = family => k = only
    PROVE  Tracks(emitted', family, revision + 1)
  <1>1. PICK before, after, n, m :
            before = emitted /\ after = emitted' /\ n = Len(emitted) /\ m = Len(evs)
    OBVIOUS
  <1>2. /\ Extends(after, before, n, m) /\ n \in Nat /\ m \in Nat
        /\ \A i \in (n + 1)..(n + m) :
            /\ i - n \in 1..m
            /\ after[i].family = evs[i - n].family /\ after[i].revision = evs[i - n].revision
    BY <1>1, PublishExtends DEF Extends
  <1>3. PICK last \in (n + 1)..(n + m) : last - n = only
    <2>1. n + only \in (n + 1)..(n + m) /\ (n + only) - n = only
      BY <1>1, <1>2
    <2> QED
      BY <2>1
  <1>4. /\ after[last].family = family /\ after[last].revision = revision + 1
    BY <1>2, <1>3 DEF Note
  <1>5. \A i \in (n + 1)..(n + m) : after[i].family = family => i = last
    <2>1. \A i \in (n + 1)..(n + m) : after[i].family = family => i - n = last - n
      BY <1>1, <1>2, <1>3
    <2>2. n \in Nat /\ m \in Nat
      BY <1>2
    <2>3. \A i, j \in (n + 1)..(n + m) : i - n = j - n => i = j
      BY <2>2
    <2> QED
      BY <2>1, <2>3
  <1>6. Tracks(after, family, revision + 1)
    <2>1. Tracks(before, family, revision) /\ Extends(after, before, n, m)
      BY <1>1, <1>2
    <2> QED
      BY <1>4, <1>5, <2>1, TracksOneMore
  <1> QED
    BY <1>1, <1>6

\* When the process ends its events are history.
LEMMA StopTracks == ASSUME Stop PROVE EventsTrackRevisions'
  <1>1. emitted' = <<>>
    BY DEF Stop
  <1> QED
    BY <1>1, NothingToTrack DEF EventsTrackRevisions

Revised == <<consent, toast, notificationRevision>>

\* Publishing nothing but readiness and hardware keeps all three in step.
LEMMA OthersTrack ==
    ASSUME IInv, EventsTrackRevisions, UNCHANGED Revised, NEW evs \in Seq(Notes), Publish(evs),
           \A k \in 1..Len(evs) : evs[k].family \in {"service", "hardware"}
    PROVE  EventsTrackRevisions'
  <1>1. \A k \in 1..Len(evs) : /\ evs[k].family # "consent" /\ evs[k].family # "toast"
                               /\ evs[k].family # "notification"
    OBVIOUS
  <1>2. /\ Tracks(emitted', "consent", consent.revision)
        /\ Tracks(emitted', "toast", toast.revision)
        /\ Tracks(emitted', "notification", notificationRevision)
    BY <1>1, PublishWithoutIt DEF EventsTrackRevisions
  <1> QED
    BY <1>2 DEF EventsTrackRevisions, Revised

LEMMA SilentTracks ==
    ASSUME EventsTrackRevisions, UNCHANGED Revised, UNCHANGED emitted
    PROVE  EventsTrackRevisions'
  BY DEF EventsTrackRevisions, Revised

\* Recovery is the first to publish anything, so the migration cannot make
\* an earlier event wrong.
LEMMA RecoverTracks ==
    ASSUME IInv, RecoverDatabase
    PROVE  EventsTrackRevisions'
  <1>1. emitted = <<>>
    <2>1. eventSequence = 0
      BY DEF RecoverDatabase, IInv, SilentUntilAnnounced
    <2>2. emitted \in Seq(Event) /\ Len(emitted) = 0
      BY <2>1 DEF IInv, TypeOK, EventsAreNumberedInOrder
    <2> QED
      BY <2>2, EmptySeq, LenProperties
  <1>2. PICK evs \in Seq(Notes) :
            Publish(evs) /\ \A k \in 1..Len(evs) : evs[k].family = "service"
    <2>1. /\ <<Readiness>> \in Seq(Notes) /\ <<Readiness, Readiness>> \in Seq(Notes)
      BY ReadinessIsNote
    <2>2. Readiness.family = "service"
      BY DEF Readiness, Note
    <2>3. /\ \A k \in 1..Len(<<Readiness>>) : <<Readiness>>[k].family = "service"
          /\ \A k \in 1..Len(<<Readiness, Readiness>>) : <<Readiness, Readiness>>[k].family = "service"
      <3>1. /\ Len(<<Readiness>>) = 1 /\ <<Readiness>>[1] = Readiness
            /\ Len(<<Readiness, Readiness>>) = 2
            /\ <<Readiness, Readiness>>[1] = Readiness /\ <<Readiness, Readiness>>[2] = Readiness
        OBVIOUS
      <3> QED
        BY <2>2, <3>1
    <2>4. Publish(<<Readiness>>) \/ Publish(<<Readiness, Readiness>>)
      BY DEF RecoverDatabase
    <2> QED
      BY <2>1, <2>3, <2>4
  <1>3. ASSUME NEW family \in {"consent", "toast", "notification"}, NEW revision
        PROVE  Tracks(emitted', family, revision)
    <2>1. Tracks(emitted, family, revision)
      BY <1>1, NothingToTrack
    <2>2. \A k \in 1..Len(evs) : evs[k].family # family
      BY <1>2
    <2> QED
      BY <1>2, <2>1, <2>2, PublishWithoutIt
  <1> QED
    BY <1>3 DEF EventsTrackRevisions

LEMMA HardwareTracks ==
    ASSUME IInv, EventsTrackRevisions,
           HardwareFails \/ \E n \in HardwareEventCounts : HardwarePublishes(n)
    PROVE  EventsTrackRevisions'
  <1>1. Readiness.family = "service" /\ \A n \in Nat : \A k \in 1..n : HardwareNotes(n)[k].family = "hardware"
    BY DEF Readiness, HardwareNotes, Note
  <1>2. UNCHANGED Revised
    BY DEF HardwareFails, HardwarePublishes, preferenceVars, Revised
  <1>3. ASSUME NEW evs, evs = <<Readiness>> \/ \E n \in Nat : evs = HardwareNotes(n)
                                            \/ evs = <<Readiness>> \o HardwareNotes(n)
        PROVE  evs \in Seq(Notes) /\ \A k \in 1..Len(evs) : evs[k].family \in {"service", "hardware"}
    <2>1. CASE evs = <<Readiness>>
      BY <1>1, <2>1, ReadinessIsNote
    <2>2. ASSUME NEW n \in Nat, evs = HardwareNotes(n)
          PROVE  evs \in Seq(Notes) /\ \A k \in 1..Len(evs) : evs[k].family \in {"service", "hardware"}
      BY <1>1, <2>2, HardwareNotesIsSeq
    <2>3. ASSUME NEW n \in Nat, evs = <<Readiness>> \o HardwareNotes(n)
          PROVE  evs \in Seq(Notes) /\ \A k \in 1..Len(evs) : evs[k].family \in {"service", "hardware"}
      <3>1. PICK tail : tail = HardwareNotes(n)
        OBVIOUS
      <3>2. tail \in Seq(Notes) /\ Len(tail) = n /\ \A k \in 1..n : tail[k].family = "hardware"
        BY <1>1, <3>1, HardwareNotesIsSeq
      <3>3. /\ evs = <<Readiness>> \o tail /\ <<Readiness>> \in Seq(Notes)
            /\ Len(<<Readiness>>) = 1 /\ <<Readiness>>[1] = Readiness
        BY <2>3, <3>1, ReadinessIsNote
      <3>4. /\ evs \in Seq(Notes) /\ Len(evs) = 1 + n
            /\ \A k \in 1..(1 + n) : evs[k] = IF k <= 1 THEN <<Readiness>>[k] ELSE tail[k - 1]
        BY <3>2, <3>3, ConcatProperties
      <3> QED
        BY <1>1, <3>2, <3>3, <3>4
    <2> QED
      BY <1>3, <2>1, <2>2, <2>3
  <1>4. \/ UNCHANGED emitted
        \/ \E evs : /\ Publish(evs)
                    /\ evs = <<Readiness>> \/ \E n \in Nat : evs = HardwareNotes(n)
                                                \/ evs = <<Readiness>> \o HardwareNotes(n)
    <2>1. CASE HardwareFails
      <3>1. \/ UNCHANGED emitted
            \/ Publish(IF state = "READY" THEN HardwareNotes(1) ELSE <<Readiness>>)
        BY <2>1, Zenon DEF HardwareFails
      <3> QED
        BY <3>1
    <2>2. ASSUME NEW n \in HardwareEventCounts, HardwarePublishes(n)
          PROVE  \/ UNCHANGED emitted
                 \/ \E evs : /\ Publish(evs)
                             /\ evs = HardwareNotes(n) \/ evs = <<Readiness>> \o HardwareNotes(n)
      <3>1. \/ UNCHANGED emitted
            \/ Publish(IF state = "READY" THEN HardwareNotes(n) ELSE <<Readiness>> \o HardwareNotes(n))
        BY <2>2, Zenon DEF HardwarePublishes
      <3> QED
        BY <3>1
    <2> QED
      BY <2>1, <2>2, HardwareEventsAssumption
  <1>5. CASE UNCHANGED emitted
    BY <1>2, <1>5, SilentTracks
  <1>6. ASSUME NEW evs, Publish(evs),
               evs = <<Readiness>> \/ \E n \in Nat : evs = HardwareNotes(n)
                                                \/ evs = <<Readiness>> \o HardwareNotes(n)
        PROVE  EventsTrackRevisions'
    BY <1>2, <1>3, <1>6, OthersTrack
  <1> QED
    BY <1>4, <1>5, <1>6

LEMMA ConsentTracks ==
    ASSUME IInv, EventsTrackRevisions, NEW op \in OpIds, NEW v \in Values, NEW e \in Revisions,
           ConsentApplied(op, v, e)
    PROVE  EventsTrackRevisions'
  <1>1. PICK evs : evs = <<Note("consent", e + 1), Note("notification", notificationRevision + 1)>>
    OBVIOUS
  <1>2. /\ Stop \/ Publish(evs)
        /\ e = consent.revision /\ consent'.revision = e + 1 /\ e \in Nat
        /\ notificationRevision' = notificationRevision + 1 /\ toast' = toast
        /\ e + 1 \in Revisions /\ notificationRevision + 1 \in Revisions
        /\ notificationRevision \in Nat
    BY <1>1, RevisionAssumption DEF ConsentApplied, ConsentAccepts, Finish, IInv, TypeOK, Revisions
  <1>3. /\ evs \in Seq(Notes) /\ Len(evs) = 2
        /\ evs[1] = Note("consent", e + 1) /\ evs[2] = Note("notification", notificationRevision + 1)
    BY <1>1, <1>2 DEF Note, Notes, Families
  <1>4. evs[1].family = "consent" /\ evs[2].family = "notification"
    BY <1>3 DEF Note
  <1>5. CASE Stop
    BY <1>5, StopTracks
  <1>6. CASE Publish(evs)
    <2>1. Tracks(emitted', "consent", e + 1)
      <3>1. 1 \in 1..Len(evs) /\ \A k \in 1..Len(evs) : evs[k].family = "consent" => k = 1
        BY <1>3, <1>4
      <3> QED
        BY <1>2, <1>3, <1>6, <3>1, PublishOneMore DEF EventsTrackRevisions
    <2>2. Tracks(emitted', "notification", notificationRevision + 1)
      <3>1. 2 \in 1..Len(evs) /\ \A k \in 1..Len(evs) : evs[k].family = "notification" => k = 2
        BY <1>3, <1>4
      <3> QED
        BY <1>2, <1>3, <1>6, <3>1, PublishOneMore DEF EventsTrackRevisions
    <2>3. Tracks(emitted', "toast", toast.revision)
      <3>1. \A k \in 1..Len(evs) : evs[k].family # "toast"
        BY <1>3, <1>4
      <3> QED
        BY <1>3, <1>6, <3>1, PublishWithoutIt DEF EventsTrackRevisions
    <2> QED
      BY <1>2, <2>1, <2>2, <2>3 DEF EventsTrackRevisions
  <1> QED
    BY <1>2, <1>5, <1>6

\* A handler that publishes nothing, or the next revision of one family.
LEMMA OneFamilyTracks ==
    ASSUME IInv, EventsTrackRevisions, NEW family \in {"toast", "notification"},
           NEW revision \in Nat, revision + 1 \in Revisions, Tracks(emitted, family, revision),
           Publish(<<Note(family, revision + 1)>>)
    PROVE  /\ Tracks(emitted', family, revision + 1)
           /\ \A other \in {"consent", "toast", "notification"} \ {family} : \A r :
                Tracks(emitted, other, r) => Tracks(emitted', other, r)
  <1>1. PICK evs : evs = <<Note(family, revision + 1)>>
    OBVIOUS
  <1>2. evs \in Seq(Notes) /\ Len(evs) = 1 /\ evs[1] = Note(family, revision + 1) /\ Publish(evs)
    BY <1>1 DEF Note, Notes, Families
  <1>3. \A k \in 1..Len(evs) : evs[k].family = family /\ k = 1
    BY <1>2 DEF Note
  <1>4. Tracks(emitted', family, revision + 1)
    BY <1>2, <1>3, PublishOneMore
  <1>5. ASSUME NEW other \in {"consent", "toast", "notification"} \ {family}, NEW r,
               Tracks(emitted, other, r)
        PROVE  Tracks(emitted', other, r)
    BY <1>2, <1>3, <1>5, PublishWithoutIt
  <1> QED
    BY <1>4, <1>5

LEMMA NothingPublished == ASSUME IInv, Publish(<<>>) PROVE emitted' = emitted
  <1>1. Numbered(<<>>) = <<>>
    BY DEF Numbered
  <1>2. emitted \in Seq(Event)
    BY DEF IInv, TypeOK
  <1> QED
    BY <1>1, <1>2 DEF Publish

LEMMA ToastTracks ==
    ASSUME IInv, EventsTrackRevisions, NEW op \in OpIds, NEW v \in Values, NEW e \in Revisions,
           ToastApplied(op, v, e)
    PROVE  EventsTrackRevisions'
  <1>1. /\ e = toast.revision /\ e \in Nat /\ e + 1 \in Revisions
        /\ UNCHANGED <<consent, notificationRevision>>
        /\ toast'.revision = IF ToastChanges(v) THEN e + 1 ELSE e
    BY RevisionAssumption DEF ToastApplied, ToastAccepts, Revisions
  <1>2. CASE Stop
    BY <1>2, StopTracks
  <1>3. CASE ToastChanges(v) /\ ~Stop
    <2>1. Publish(<<Note("toast", e + 1)>>)
      BY <1>3 DEF ToastApplied, Finish
    <2>2. /\ Tracks(emitted', "toast", e + 1)
          /\ Tracks(emitted', "consent", consent.revision)
          /\ Tracks(emitted', "notification", notificationRevision)
      BY <1>1, <2>1, OneFamilyTracks DEF EventsTrackRevisions
    <2> QED
      BY <1>1, <1>3, <2>2 DEF EventsTrackRevisions
  <1>4. CASE ~ToastChanges(v) /\ ~Stop
    <2>1. Publish(<<>>)
      BY <1>4 DEF ToastApplied, Finish
    <2>2. emitted' = emitted
      BY <2>1, NothingPublished
    <2> QED
      BY <1>1, <1>4, <2>2 DEF EventsTrackRevisions
  <1> QED
    BY <1>2, <1>3, <1>4

LEMMA MarkReadTracks ==
    ASSUME IInv, EventsTrackRevisions, NEW op \in OpIds, NEW item \in Revisions,
           NEW e \in Revisions, MarkReadApplied(op, item, e)
    PROVE  EventsTrackRevisions'
  <1>1. /\ e = notificationRevision /\ e \in Nat /\ e + 1 \in Revisions
        /\ UNCHANGED <<consent, toast>>
        /\ notificationRevision' = IF MarkReadChanges(item) THEN e + 1 ELSE e
    BY RevisionAssumption DEF MarkReadApplied, MarkReadFresh, MarkReadAccepts, Revisions
  <1>2. CASE Stop
    BY <1>2, StopTracks
  <1>3. CASE MarkReadChanges(item) /\ ~Stop
    <2>1. Publish(<<Note("notification", e + 1)>>)
      BY <1>3 DEF MarkReadApplied, Finish
    <2>2. /\ Tracks(emitted', "notification", e + 1)
          /\ Tracks(emitted', "consent", consent.revision)
          /\ Tracks(emitted', "toast", toast.revision)
      BY <1>1, <2>1, OneFamilyTracks DEF EventsTrackRevisions
    <2> QED
      BY <1>1, <1>3, <2>2 DEF EventsTrackRevisions
  <1>4. CASE ~MarkReadChanges(item) /\ ~Stop
    <2>1. Publish(<<>>)
      BY <1>4 DEF MarkReadApplied, Finish
    <2>2. emitted' = emitted
      BY <2>1, NothingPublished
    <2> QED
      BY <1>1, <1>4, <2>2 DEF EventsTrackRevisions
  <1> QED
    BY <1>2, <1>3, <1>4

LEMMA EventsInit == Init => EventsTrackRevisions
  BY NothingToTrack DEF Init, EventsTrackRevisions

LEMMA EventsNext == LedgerInv /\ EventsTrackRevisions /\ [Next]_vars => EventsTrackRevisions'
  <1> SUFFICES ASSUME LedgerInv, EventsTrackRevisions, [Next]_vars PROVE EventsTrackRevisions'
    OBVIOUS
  <1>1. IInv
    BY DEF LedgerInv
  <1>2. CASE UNCHANGED preferenceVars /\ UNCHANGED emitted
    BY <1>2, SilentTracks DEF preferenceVars, Revised
  <1>3. CASE ServiceStep \/ UNCHANGED vars
    <2>1. CASE Crash
      BY <2>1, StopTracks DEF Crash
    <2>2. CASE HardwareFails \/ \E n \in HardwareEventCounts : HardwarePublishes(n)
      BY <1>1, <2>2, HardwareTracks
    <2>3. CASE \/ Start \/ ConsentExhausted \/ UNCHANGED vars
               \/ \E op \in OpIds, e \in Revisions :
                    \E item \in Revisions : MarkReadExhausted(op, item, e)
      <3>1. UNCHANGED emitted
        BY <2>3 DEF Start, ConsentExhausted, RefuseExhausted, MarkReadExhausted,
                    historyVars, vars
      <3> QED
        BY <1>2, <1>3, <3>1, ServiceStepsLeaveTables
    <2> QED
      BY <1>3, <2>1, <2>2, <2>3 DEF ServiceStep
  <1>4. ASSUME NEW op \in OpIds, NEW e \in Revisions,
               \/ \E v \in Values : ConsentReplayed(op, v, e) \/ ToastReplayed(op, v, e)
               \/ \E item \in Revisions : MarkReadReplayed(op, item, e)
        PROVE  EventsTrackRevisions'
    BY <1>2, <1>4 DEF ConsentReplayed, ToastReplayed, MarkReadReplayed
  <1> QED
    BY <1>1, <1>3, <1>4, StepKinds, RecoverTracks, ConsentTracks, ToastTracks, MarkReadTracks

\* The events of an incarnation name the revisions of each preference and of
\* the history one after the other, up to the current one: a client that
\* counts them sees a gap exactly when it has missed a change.
THEOREM EventsNameRevisions == Spec => []EventsTrackRevisions
  BY LedgerInit, LedgerNext, EventsInit, EventsNext, PTL DEF Spec
=============================================================================
