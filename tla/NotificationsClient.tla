-------------------------- MODULE NotificationsClient --------------------------
(***************************************************************************)
(* Notifications1Client: the notification history in a client, here by the *)
(* number of its unread entries.  A signal of the family is only a reason  *)
(* to read the list again; a timer repeats what failed.                    *)
(*                                                                         *)
(* MarkRead answers a service that is not READY without an identity, and   *)
(* so as one of another service: the branch for BACKEND_UNAVAILABLE does   *)
(* not run against this service.                                           *)
(***************************************************************************)
EXTENDS SettingsClient

RequestList(w) ==
    IF w.c.requestInFlight \/ ~IsReady(w.r) THEN w
    ELSE [Unready(w) EXCEPT !.c.requestInFlight = TRUE, !.calls = Append(@, GetCall(w.c))]

\* Mutant: a request under way does not hold back another one.
RefreshListAnyway(w) ==
    IF ~IsReady(w.r) THEN Unready(w) ELSE RequestList([w EXCEPT !.c.requestInFlight = FALSE])

RefreshList(w) ==
    IF ~IsReady(w.r) THEN Unready(w)
    ELSE IF w.c.requestInFlight THEN [w EXCEPT !.c.refreshPending = TRUE]
    ELSE RequestList(w)

\* An answer or a signal of a service that readiness_ does not know.
Mismatched(w) == Scheduled(RefreshReadiness(Unready(w)))

RequestMutation(w) ==
    IF w.c.pending = NoOperation \/ w.c.requestInFlight THEN w
    ELSE IF ~CanUse(w) THEN Unready(w)
    ELSE [Unready(w) EXCEPT !.c.requestInFlight = TRUE, !.calls = Append(@, SetCall(w.c))]

\* Mutant: a change whose call failed is given up.
FailedForGood(w) == Scheduled(Unready(Decided(Idle(w))))
\* A change whose call failed is undecided.
Failed(w) ==
    LET failed == Scheduled(Unready(Idle(w)))
    IN  IF w.c.refreshPending THEN RefreshList(failed) ELSE failed

FinishList(w, m) ==
    IF m.error THEN Failed(w)
    ELSE IF ~IsReady(w.r) THEN Unready(Idle(w))
    ELSE IF w.c.refreshPending THEN RequestList(Unready(Idle(w)))
    ELSE IF m.answer.code # "OK" THEN Scheduled(Unready(Idle(w)))
    ELSE IF ~Matches(w, m.answer.owner) THEN Mismatched(Idle(w))
    ELSE RequestMutation(Shown(Idle(w), m.answer))

\* The answer is of the service that the list came from and readiness_ shows.
SignedAlike(w, m) == CanUse(w) /\ m.answer.owner = w.c.copy.owner

FinishMarkRead(w, m) ==
    IF m.error THEN Failed(w)
    ELSE IF ~IsReady(w.r) THEN Unready(Idle(w))
    ELSE IF ~SignedAlike(w, m) THEN Mismatched(Idle(w))
    ELSE RefreshList(Unready(Decided(Idle(w))))

OnNotificationsChanged(w, e) ==
    IF ~Matches(w, e.owner) THEN Mismatched(w) ELSE RefreshList(w)

OnNotificationsOwnerChanged(w, alive) ==
    LET dropped == [w EXCEPT !.c.copy = NoCopy]
    IN  IF alive THEN RefreshReadiness(dropped) ELSE dropped

NotificationsRetry(w) ==
    LET fired == [w EXCEPT !.c.retryScheduled = FALSE]
    IN  IF w.c.requestInFlight \/ ~IsReady(w.r) THEN fired ELSE RefreshList(fired)

\* updateReadiness.
NotificationsReadinessChanged(w) ==
    IF ~IsReady(w.r) THEN Unready(w)
    ELSE IF CanUse(w) THEN w
    ELSE RefreshList(Unready(w))

NotificationsOnMessage(w, m) ==
    CASE m.kind = "owner" -> OnNotificationsOwnerChanged(w, m.alive)
      [] m.kind = "value" -> OnNotificationsChanged(w, m)
      [] m.kind = "reply" /\ m.call.method = "Get" -> FinishList(w, m)
      [] m.kind = "reply" /\ m.call.method = "Set" -> FinishMarkRead(w, m)

\* markRead, of an entry that is shown as unread.
MarkRead ==
    LET w == World(readiness, <<>>)
        asked == [op |-> issued + 1, value |-> client.copy.value - 1,
                  expected |-> client.copy.revision]
    IN
    /\ client.copy.ready /\ IsReady(readiness) /\ ~client.requestInFlight
    /\ client.pending = NoOperation /\ client.copy.value > 0
    /\ issued < spent.limits["operation"]
    /\ issued' = issued + 1
    /\ Becomes(RequestMutation([w EXCEPT !.c.pending = asked]))
    /\ UNCHANGED <<service, persistedGeneration, inbox, spent, registerVars, kind, resolved>>
=============================================================================
