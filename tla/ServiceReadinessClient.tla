------------------------ MODULE ServiceReadinessClient ------------------------
(***************************************************************************)
(* ServiceReadinessClient: a client's copy of the service's identity and   *)
(* initialization state.  The copy is read with GetAll, advanced by events *)
(* that follow it without a gap, and dropped and read again otherwise.     *)
(*                                                                         *)
(* A handler maps the state of the client to a result: the new state, the  *)
(* calls it makes, and whether it emits stateChanged, which other clients  *)
(* are connected to.  The connection to the bus itself is never lost, the  *)
(* API major is the expected one, and events and replies are well-formed.  *)
(***************************************************************************)
EXTENDS SessionBus

VARIABLE readiness        \* the members of ServiceReadinessClient

NoReadiness ==
    [ownerEpoch |-> 0, requestInFlight |-> FALSE, refreshPending |-> FALSE,
     lastEventOwner |-> NoOwner, lastEventSequence |-> 0,
     available |-> FALSE, snapshot |-> NoService]

ReadinessTypeOK ==
    /\ readiness \in [ownerEpoch : Nat, requestInFlight : BOOLEAN, refreshPending : BOOLEAN,
                      lastEventOwner : Owners, lastEventSequence : Nat, available : BOOLEAN,
                      snapshot : [owner : Owners, sequence : Nat,
                                  state : {"STOPPED", "STARTING", "RECOVERING", "READY", "FAILED"}]]
    /\ readiness.available => readiness.snapshot.owner # NoOwner

\* ready(): what the other clients ask before anything else.
IsReady(r) == r.available /\ r.snapshot.state = "READY"
-----------------------------------------------------------------------------
Result(r, sent, changed) == [state |-> r, calls |-> sent, changed |-> changed]

GetAll(r) == [method |-> "GetAll", from |-> "readiness", epoch |-> r.ownerEpoch]

Cleared(r) == [r EXCEPT !.available = FALSE, !.snapshot = NoService]

\* refresh(): at most one request is under way, another one is remembered.
Refresh(r, changed) ==
    IF r.requestInFlight
    THEN Result([r EXCEPT !.refreshPending = TRUE], <<>>, changed)
    ELSE Result([r EXCEPT !.requestInFlight = TRUE, !.refreshPending = FALSE],
                <<GetAll(r)>>, changed)

Reconcile(r) == Refresh(Cleared(r), TRUE)

\* What a change of owner leaves: requests made to the previous one are void.
\* Mutant: the request is still waited for.
ForgottenButRequest(r) ==
    [NoReadiness EXCEPT !.ownerEpoch = r.ownerEpoch + 1, !.requestInFlight = r.requestInFlight]
Forgotten(r) == [NoReadiness EXCEPT !.ownerEpoch = r.ownerEpoch + 1]

OnServiceOwnerChanged(r, alive) ==
    LET fresh == Forgotten(r)
    IN  IF alive THEN Reconcile(fresh) ELSE Result(fresh, <<>>, TRUE)

FollowsLastEvent(r, e) ==
    e.sequence = r.lastEventSequence + 1
FollowsSnapshot(r, e) == r.available => e.sequence = r.snapshot.sequence + 1

\* Mutant: a change of readiness is taken for an event of another family.
OnlyMovesAnyCursor(r, e) == r.available
OnlyMovesCursor(r, e) == r.available /\ e.subject # "readiness"

Advanced(r, e) == [r EXCEPT !.snapshot.sequence = e.sequence]

OnEventPublished(r, e) ==
    LET heard == [r EXCEPT !.lastEventOwner = e.owner, !.lastEventSequence = e.sequence]
        again == [heard EXCEPT !.refreshPending = @ \/ r.requestInFlight]
    IN  IF e.owner # r.lastEventOwner
        THEN Reconcile(heard)
        ELSE IF e.sequence <= r.lastEventSequence
        THEN Result(r, <<>>, FALSE)
        ELSE IF r.available /\ e.owner # r.snapshot.owner
        THEN Reconcile(heard)
        ELSE IF r.available /\ e.sequence <= r.snapshot.sequence
        THEN Result(r, <<>>, FALSE)
        ELSE IF FollowsLastEvent(r, e) /\ FollowsSnapshot(r, e) /\ OnlyMovesCursor(r, e)
        THEN Result(Advanced(again, e), <<>>, FALSE)
        ELSE Reconcile(again)

\* applySnapshot: the events the snapshot covers count as heard.
ApplySnapshot(r, snapshot) ==
    LET covers == \/ r.lastEventOwner = NoOwner
                  \/ /\ r.lastEventOwner = snapshot.owner
                     /\ snapshot.sequence > r.lastEventSequence
        applied == [r EXCEPT !.available = TRUE, !.snapshot = snapshot]
    IN  IF covers THEN [applied EXCEPT !.lastEventOwner = snapshot.owner,
                                       !.lastEventSequence = snapshot.sequence]
                  ELSE applied

Applied(r, m) == IF m.error THEN Cleared(r) ELSE ApplySnapshot(r, m.answer)

FinishRefresh(r, m) ==
    LET idle == [r EXCEPT !.requestInFlight = FALSE, !.refreshPending = FALSE]
    IN  IF m.call.epoch # r.ownerEpoch THEN Result(r, <<>>, FALSE)
        ELSE IF r.refreshPending THEN Reconcile(idle)
        ELSE Result(Applied(idle, m), <<>>, TRUE)

OnMessage(r, m) ==
    CASE m.kind = "owner" -> OnServiceOwnerChanged(r, m.alive)
      [] m.kind = "event" -> OnEventPublished(r, m)
      [] m.kind = "reply" -> FinishRefresh(r, m)
-----------------------------------------------------------------------------
\* The constructor asks for the first snapshot.
ReadinessInit ==
    /\ readiness = Refresh(NoReadiness, FALSE).state
    /\ calls = Outgoing(Refresh(NoReadiness, FALSE).calls)

-----------------------------------------------------------------------------
TypeOK == BusTypeOK /\ ReadinessTypeOK

\* The cursor of an available copy identifies what it says: when it names
\* the last event of the running service, generation and state are those
\* of that service, whatever events were lost or are still on their way.
CursorIdentifiesReadiness ==
    /\ readiness.available
    /\ readiness.snapshot.owner.uuid = service.owner.uuid
    /\ readiness.snapshot.sequence = service.sequence
    => readiness.snapshot = service

\* A copy never goes back in time: until the owner changes, what it shows
\* is at least as recent as any event the client has handled.
CopyCoversEvents ==
    readiness.available /\ readiness.snapshot.owner = readiness.lastEventOwner
        => readiness.snapshot.sequence >= readiness.lastEventSequence

\* Events without a gap keep a copy current, and no copy misses one of them.
ReadinessIsCurrent == CursorIdentifiesReadiness /\ CopyCoversEvents

\* The client waits for exactly one answer, and only while it knows that
\* one is due: neither a change of owner, nor a timeout, nor an event during
\* the request leaves it waiting for an answer that cannot come.
OneRequestUnderway ==
    LET due == {i \in DOMAIN calls : /\ calls[i].awaited /\ calls[i].call.from = "readiness"
                                     /\ calls[i].call.epoch = readiness.ownerEpoch}
        here == {i \in DOMAIN inbox : /\ inbox[i].kind = "reply" /\ inbox[i].to = {"readiness"}
                                      /\ inbox[i].call.epoch = readiness.ownerEpoch}
    IN  /\ Cardinality(due) + Cardinality(here) = IF readiness.requestInFlight THEN 1 ELSE 0
        /\ readiness.refreshPending => readiness.requestInFlight

\* Without lost signals and timeouts the copy becomes, and stays, that of
\* the service: a start, a recovery under a provisional generation or a
\* change of owner during a request cannot leave it stale or missing.
EventuallyReflectsService ==
    []Without({"lost", "timeout"}) =>
        <>[](readiness.available = Alive /\ (Alive => readiness.snapshot = service))
=============================================================================
