----------------------- MODULE ToastNotificationsClient -----------------------
(***************************************************************************)
(* ToastNotificationsClient with the ServiceReadinessClient it owns, on    *)
(* the session bus, against a service whose toast preference is the        *)
(* abstract register that SessionPreferences implements.  The user's       *)
(* change is kept with its operation ID until the service has decided it,  *)
(* through timeouts, failures and restarts of the service.                 *)
(*                                                                         *)
(* As in ServiceReadinessClient a handler maps the state of the objects    *)
(* to their next state and the calls they make.  The fields of a copy that *)
(* is not ready_ are not read by the code and not kept here.               *)
(***************************************************************************)
EXTENDS PreferenceService

NoToast ==
    [ownerEpoch |-> 0, requestInFlight |-> FALSE, refreshPending |-> FALSE,
     eventOwner |-> NoOwner, lastObservedSequence |-> 0,
     copy |-> NoCopy, pending |-> NoOperation]

-----------------------------------------------------------------------------
Usable(w) == w.c.copy.ready /\ Matches(w, w.c.copy.owner)

\* clearSnapshot.
Drop(w) == [w EXCEPT !.c.copy = NoCopy]

\* Mutant: a request under way does not hold back another one.
RequestSnapshotAnyway(w) ==
    IF ~IsReady(w.r) THEN w
    ELSE [w EXCEPT !.c.requestInFlight = TRUE, !.c.refreshPending = FALSE,
                   !.calls = Append(@, GetCall(w.c))]

RequestSnapshot(w) ==
    IF w.c.requestInFlight THEN [w EXCEPT !.c.refreshPending = TRUE]
    ELSE IF ~IsReady(w.r) THEN w
    ELSE [w EXCEPT !.c.requestInFlight = TRUE, !.c.refreshPending = FALSE,
                   !.calls = Append(@, GetCall(w.c))]

RefreshToast(w) == IF IsReady(w.r) THEN RequestSnapshot(w) ELSE Drop(w)

SubmitPendingMutation(w) ==
    IF w.c.pending = NoOperation \/ w.c.requestInFlight \/ ~Usable(w) THEN w
    ELSE [w EXCEPT !.c.requestInFlight = TRUE, !.c.copy = NoCopy,
                   !.calls = Append(@, SetCall(w.c))]

Resumed(w, again) ==
    IF again THEN RequestSnapshot([w EXCEPT !.c.refreshPending = FALSE]) ELSE w

Copied(w, a) ==
    [w EXCEPT !.c.copy = [ready |-> TRUE, owner |-> a.owner, sequence |-> a.sequence,
                          value |-> a.value, revision |-> a.revision],
              !.c.eventOwner = a.owner,
              !.c.lastObservedSequence = a.sequence]

FinishSnapshot(w, m) ==
    LET idle == [w EXCEPT !.c.requestInFlight = FALSE]
        again == w.c.refreshPending
    IN  IF m.call.epoch # w.c.ownerEpoch THEN w
        ELSE IF m.error \/ m.answer.code # "OK" THEN Resumed(Drop(idle), again)
        ELSE IF ~Matches(w, m.answer.owner) THEN RefreshReadiness(Drop(idle))
        ELSE IF \/ w.c.eventOwner \notin {NoOwner, m.answer.owner}
                \/ m.answer.sequence < w.c.lastObservedSequence
        THEN Drop(idle)
        ELSE IF again THEN Resumed(idle, again)
        ELSE SubmitPendingMutation(Copied(idle, m.answer))

FinishMutation(w, m) ==
    LET idle == [w EXCEPT !.c.requestInFlight = FALSE, !.c.refreshPending = FALSE]
        decided == [idle EXCEPT !.c.pending = NoOperation, !.c.copy = NoCopy]
    IN  IF m.call.epoch # w.c.ownerEpoch THEN w
        ELSE IF m.error /\ ~w.c.refreshPending THEN RequestSnapshot(idle)
        ELSE RefreshToast(IF Undecided(m) THEN idle ELSE decided)

\* A change of owner voids everything but the user's change.
\* Mutant: the answer of the previous owner is still waited for.
ForgottenToastButRequest(c) ==
    [NoToast EXCEPT !.ownerEpoch = c.ownerEpoch + 1, !.pending = c.pending,
                    !.requestInFlight = c.requestInFlight]
ForgottenToast(c) == [NoToast EXCEPT !.ownerEpoch = c.ownerEpoch + 1, !.pending = c.pending]

OnOwnerChanged(w, alive) ==
    LET fresh == [w EXCEPT !.c = ForgottenToast(w.c)]
    IN  IF alive THEN RefreshReadiness(fresh) ELSE fresh

OnReadinessChanged(w) ==
    IF ~IsReady(w.r) THEN Drop(w)
    ELSE IF ~Usable(w) THEN RefreshToast(w) ELSE w

\* observeEvent, for the value itself (ToastNotificationsChanged) and for
\* EventPublished, which follows with the same number.
HasValue(e) == e.kind = "value"
\* Mutant: EventPublished is not recognised as one about this preference.
AboutToastByValue(e) == HasValue(e)
AboutToast(e) == HasValue(e) \/ e.subject = "toast"
Continues(w, e) == w.c.copy.ready /\ e.revision = w.c.copy.revision + 1
Taken(w, e) ==
    [w EXCEPT !.c.copy = [@ EXCEPT !.value = e.value, !.revision = e.revision,
                                   !.sequence = e.sequence]]
Reread(w) == RefreshToast(Drop(w))

ObserveRepeatedNumber(w, e) ==
    IF HasValue(e) => w.c.copy.ready /\ e.value = w.c.copy.value /\ e.revision = w.c.copy.revision
    THEN w
    ELSE IF Continues(w, e) THEN Taken(w, e) ELSE Reread(w)

IsGap(w, e) == e.sequence # w.c.lastObservedSequence + 1

ObserveNewNumber(w, e) ==
    LET heard == [w EXCEPT !.c.lastObservedSequence = e.sequence,
                           !.c.refreshPending = @ \/ w.c.requestInFlight]
    IN  IF IsGap(w, e) THEN Reread(heard)
        ELSE IF HasValue(e) THEN (IF Continues(w, e) THEN Taken(heard, e) ELSE Reread(heard))
        ELSE IF AboutToast(e) THEN Reread(heard)
        ELSE IF w.c.copy.ready /\ Matches(w, e.owner)
        THEN [heard EXCEPT !.c.copy.sequence = e.sequence]
        ELSE heard

ObserveEvent(w, e) ==
    LET named == [w EXCEPT !.c.eventOwner = e.owner]
    IN  IF w.c.eventOwner \notin {NoOwner, e.owner}
        THEN Reread([named EXCEPT !.c.lastObservedSequence = e.sequence])
        ELSE IF e.sequence < w.c.lastObservedSequence THEN w
        ELSE IF e.sequence = w.c.lastObservedSequence THEN ObserveRepeatedNumber(named, e)
        ELSE ObserveNewNumber(named, e)

ToastOnMessage(w, m) ==
    CASE m.kind = "owner" -> OnOwnerChanged(w, m.alive)
      [] m.kind \in {"event", "value"} -> ObserveEvent(w, m)
      [] m.kind = "reply" /\ m.call.method = "Get" -> FinishSnapshot(w, m)
      [] m.kind = "reply" /\ m.call.method = "Set" -> FinishMutation(w, m)
-----------------------------------------------------------------------------
\* setEnabled(v): a new change, or another attempt of the undecided one.
SetEnabled(v) ==
    LET w == World(readiness, <<>>)
        asked == [op |-> issued + 1, value |-> v, expected |-> client.copy.revision]
    IN
    /\ Usable(w) /\ ~client.requestInFlight
    /\ \/ /\ client.pending = NoOperation /\ issued < spent.limits["operation"]
          /\ issued' = issued + 1
          /\ Becomes(SubmitPendingMutation([w EXCEPT !.c.pending = asked]))
       \/ /\ client.pending.value = v
          /\ Becomes(SubmitPendingMutation(w))
          /\ UNCHANGED issued
    /\ UNCHANGED <<service, persistedGeneration, inbox, spent, registerVars, kind, resolved>>
-----------------------------------------------------------------------------
ClientInit ==
    /\ kind = "toast" /\ client = NoToast
    /\ ServiceInit

ReadinessTurn == ReadinessHandles(OnReadinessChanged)
ToastTurn == ClientHandles(ToastOnMessage)

ClientNext ==
    \/ ServiceTurn \/ EnvironmentTurn
    \/ ReadinessTurn \/ ToastTurn
    \/ \E v \in {0, 1} : SetEnabled(v)

ClientSpec == ClientInit /\ [][ClientNext]_clientVars

ClientFairSpec ==
    /\ ClientSpec
    /\ WF_clientVars(ServiceTurn)
    /\ WF_clientVars(ReadinessTurn) /\ WF_clientVars(ToastTurn)
-----------------------------------------------------------------------------
ClientTypeOK ==
    /\ TypeOK /\ PreferenceTypeOK
    /\ kind = "toast" /\ value \in {0, 1, Unset}
    /\ client.ownerEpoch \in Nat /\ client.lastObservedSequence \in Nat
    /\ client.eventOwner \in Owners

\* Neither the client nor its readiness client ever waits for an answer that
\* cannot come, or asks again while one can.
RequestInvariant == ClientTypeOK /\ OneRequestUnderway /\ OneClientRequestUnderway

\* A copy whose cursor names the last event of the running service shows
\* the stored preference, whatever signals were lost, delayed or seen twice.
CursorIdentifiesToast ==
    /\ client.copy.ready
    /\ client.copy.owner.uuid = service.owner.uuid
    /\ client.copy.sequence = service.sequence
    => client.copy.value = value /\ client.copy.revision = revision

\* Without lost signals, timeouts and storage failures a service that stays
\* READY ends up with a client that is usable, shows what is stored and has
\* nothing pending, across any earlier restarts.
EventuallySettled ==
    []Without({"lost", "timeout", "failure"}) /\ <>[](service.state = "READY") =>
        <>[](/\ Usable(World(readiness, <<>>))
             /\ client.copy.value = value /\ client.copy.revision = revision
             /\ client.pending = NoOperation)
=============================================================================
