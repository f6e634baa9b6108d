---------------------------- MODULE SettingsClient ----------------------------
(***************************************************************************)
(* Settings1Client: the consent preference in a client.  It hears only the *)
(* signal of its own preference, asks again after an error or an early     *)
(* answer when a timer fires, and otherwise when readiness changes.        *)
(*                                                                         *)
(* A request stays underway across a change of owner until it is answered, *)
(* so that no epoch is needed.                                             *)
(***************************************************************************)
EXTENDS PreferenceService

NoSettings ==
    [ownerEpoch |-> 0, requestInFlight |-> FALSE, refreshPending |-> FALSE,
     retryScheduled |-> FALSE, copy |-> NoCopy, pending |-> NoOperation]

\* ready_ := false.  The identity is kept: canUseSettingsService compares it.
Unready(w) == [w EXCEPT !.c.copy = [NoCopy EXCEPT !.owner = w.c.copy.owner]]

\* scheduleRefreshRetry, scheduleRetry.
Scheduled(w) == [w EXCEPT !.c.retryScheduled = TRUE]

Idle(w) == [w EXCEPT !.c.requestInFlight = FALSE, !.c.refreshPending = FALSE]

Decided(w) == [w EXCEPT !.c.pending = NoOperation]

\* canUseSettingsService.
CanUse(w) == Matches(w, w.c.copy.owner)

\* Mutant: nothing is asked again until readiness changes.
DisconnectedForGood(w) == Unready(w)
Disconnected(w) == Scheduled(Unready(w))

RefreshSettings(w) ==
    IF ~IsReady(w.r) THEN Unready(w)
    ELSE IF w.c.requestInFlight THEN [w EXCEPT !.c.refreshPending = TRUE]
    ELSE [w EXCEPT !.c.requestInFlight = TRUE, !.calls = Append(@, GetCall(w.c))]

SubmitPendingConsent(w) ==
    IF w.c.pending = NoOperation \/ w.c.requestInFlight THEN w
    ELSE IF ~CanUse(w) THEN Unready(w)
    ELSE [Unready(w) EXCEPT !.c.requestInFlight = TRUE, !.calls = Append(@, SetCall(w.c))]

\* A copy of what was answered, shown at once or used for the undecided write.
Shown(w, a) ==
    [w EXCEPT !.c.copy = [ready |-> TRUE, owner |-> a.owner, sequence |-> a.sequence,
                          value |-> a.value, revision |-> a.revision]]

FinishConsentRead(w, m) ==
    IF w.c.refreshPending THEN RefreshSettings(Unready(Idle(w)))
    ELSE IF m.error THEN Disconnected(Idle(w))
    ELSE IF ~IsReady(w.r) THEN Unready(Idle(w))
    ELSE IF m.answer.code = "NOT_READY" THEN Scheduled(Unready(Idle(w)))
    ELSE IF m.answer.code # "OK" THEN Unready(Idle(w))
    ELSE IF ~Matches(w, m.answer.owner) THEN RefreshReadiness(Unready(Idle(w)))
    ELSE SubmitPendingConsent(Shown(Idle(w), m.answer))

FinishConsentWrite(w, m) ==
    IF m.error
    THEN IF w.c.refreshPending THEN RefreshSettings(Unready(Idle(w))) ELSE Disconnected(Idle(w))
    ELSE RefreshSettings(Unready(IF Undecided(m) THEN Idle(w) ELSE Decided(Idle(w))))

\* Mutant: the revision is not counted on.
TakenByValue(w, e) == [w EXCEPT !.c.copy.value = e.value, !.c.copy.sequence = e.sequence]
TakenOver(w, e) ==
    [w EXCEPT !.c.copy = [@ EXCEPT !.value = e.value, !.revision = e.revision,
                                   !.sequence = e.sequence]]

OnConsentChanged(w, e) ==
    LET copy == w.c.copy
    IN  IF ~copy.ready \/ w.c.requestInFlight THEN [w EXCEPT !.c.refreshPending = TRUE]
        ELSE IF e.owner # copy.owner THEN RefreshSettings(Unready(w))
        ELSE IF e.sequence <= copy.sequence THEN w
        ELSE IF e.sequence # copy.sequence + 1 \/ e.revision # copy.revision + 1
        THEN RefreshSettings(Unready(w))
        ELSE TakenOver(w, e)

OnSettingsOwnerChanged(w, alive) ==
    IF ~alive THEN Disconnected(w)
              ELSE RefreshSettings(RefreshReadiness([w EXCEPT !.c.copy = NoCopy]))

SettingsRetry(w) ==
    LET fired == [w EXCEPT !.c.retryScheduled = FALSE]
    IN  IF w.c.requestInFlight \/ (w.c.copy.ready /\ w.c.pending = NoOperation)
        THEN fired ELSE RefreshSettings(fired)

\* updateReadiness.
SettingsReadinessChanged(w) ==
    IF ~IsReady(w.r) THEN Unready(w)
    ELSE IF w.c.copy.ready /\ CanUse(w) THEN w
    ELSE RefreshSettings(w)

SettingsOnMessage(w, m) ==
    CASE m.kind = "owner" -> OnSettingsOwnerChanged(w, m.alive)
      [] m.kind = "value" -> OnConsentChanged(w, m)
      [] m.kind = "reply" /\ m.call.method = "Get" -> FinishConsentRead(w, m)
      [] m.kind = "reply" /\ m.call.method = "Set" -> FinishConsentWrite(w, m)

\* setProductTelemetryConsent: ready() excludes an undecided operation.
SetProductTelemetryConsent(v) ==
    LET w == World(readiness, <<>>)
        asked == [op |-> issued + 1, value |-> v, expected |-> client.copy.revision]
    IN
    /\ client.copy.ready /\ CanUse(w) /\ ~client.requestInFlight
    /\ client.pending = NoOperation
    /\ issued < spent.limits["operation"]
    /\ issued' = issued + 1
    /\ Becomes(SubmitPendingConsent([w EXCEPT !.c.pending = asked]))
    /\ UNCHANGED <<service, persistedGeneration, inbox, spent, registerVars, kind, resolved>>
=============================================================================
