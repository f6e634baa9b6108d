--------------------------- MODULE PreferenceService ---------------------------
(***************************************************************************)
(* A client that changes something the session service keeps, with the     *)
(* ServiceReadinessClient it owns, on the bus: what the three clients of   *)
(* this kind have in common, and the service they talk to.  What the       *)
(* service keeps is the abstract register that SessionPreferences          *)
(* implements: the toast preference, the consent, or, as the number of its *)
(* unread entries, the notification history.                               *)
(*                                                                         *)
(* As in ServiceReadinessClient a handler maps the state of the objects    *)
(* to their next state and the calls they make.                            *)
(***************************************************************************)
EXTENDS ServiceReadinessClient

\* The client and the readiness client it owns, which follows all events.
ASSUME ObjectsAssumption == Listeners = {"readiness", "client"} /\ "readiness" \in Observers

VARIABLES
    kind,                 \* "toast", "settings" or "notifications"
    client,               \* the members of the client
    value, revision, log, answers,  \* what the service keeps (IdempotentRegister)
    issued,               \* operation IDs created so far
    resolved              \* what the client took each operation for (history)

MaxOperations == LimitOf("operation")
ASSUME OperationsAssumption ==
    MaxOperations \in Nat /\ \A limits \in Limits : limits["operation"] <= MaxOperations
Operations == 1..MaxOperations
Unset == 2

\* A consent write counts as a change whatever it writes.
Counting == INSTANCE IdempotentRegister WITH
    OpIds <- Nat, Values <- Nat, CountsEveryWrite <- TRUE
Comparing == INSTANCE IdempotentRegister WITH
    OpIds <- Nat, Values <- Nat, CountsEveryWrite <- FALSE
Write(op, v) == IF kind = "settings" THEN Counting!Write(op, v) ELSE Comparing!Write(op, v)

registerVars == <<value, revision, log, answers>>
clientOnly == <<readiness, kind, client, issued, resolved>>
clientVars == <<busVars, registerVars, clientOnly>>

NoCopy == [ready |-> FALSE, owner |-> NoOwner, sequence |-> 0, value |-> Unset, revision |-> 0]
NoOperation == [op |-> 0, value |-> Unset, expected |-> 0]

PreferenceTypeOK ==
    /\ client.copy \in [ready : BOOLEAN, owner : Owners, sequence : Nat, value : Nat,
                        revision : Nat]
    /\ client.pending \in [op : Operations, value : Nat, expected : Nat] \cup {NoOperation}
    /\ {client.requestInFlight, client.refreshPending} \subseteq BOOLEAN
    /\ client.copy.ready => client.copy.owner # NoOwner
    /\ value \in Nat /\ revision \in Nat /\ issued \in 0..MaxOperations
    /\ resolved \in [Operations -> {"PENDING", "OK", "STALE_REVISION", "CONFLICT", "IO_ERROR"}]
-----------------------------------------------------------------------------
(* The service.                                                            *)

InitialRegister ==
    /\ answers = {}
    /\ \/ /\ value = IF kind = "toast" THEN Unset ELSE 0
          /\ revision = IF kind = "notifications" THEN 1 ELSE 0
          /\ log = {}
       \/ /\ value = IF kind = "notifications" THEN 1 ELSE 0
          /\ revision = IF kind = "notifications" THEN 2 ELSE 1
          /\ log = {Counting!Row(MaxOperations + 1, 0, 0, 1)}

\* Replies about notifications are signed only when there is something to tell.
SignedReply(call, code, signed) ==
    Reply("client", call,
          [code |-> code, sequence |-> service.sequence, value |-> value, revision |-> revision,
           owner |-> IF kind = "notifications" /\ ~signed THEN NoOwner ELSE service.owner])

\* The signal of the family and EventPublished share a number.  A consent
\* change comes with a notification, which has the next one.
Announcement(v, r) ==
    LET signal(n) == [kind |-> "value", to |-> {"client"}, owner |-> service.owner,
                      sequence |-> service.sequence + n, value |-> v, revision |-> r]
        event(n, subject) == EventOf(service.owner, n, subject)
    IN  CASE kind = "toast" -> <<signal(1), event(1, "toast")>>
          [] kind = "settings" -> <<signal(1), event(1, "other"), event(2, "other")>>
          [] kind = "notifications" /\ v > value ->
                <<event(1, "other"), signal(2), event(2, "other")>>
          [] kind = "notifications" /\ v <= value -> <<signal(1), event(1, "other")>>

Announces(v) ==
    IF kind = "settings" \/ (kind = "notifications" /\ v > value)
    THEN [service EXCEPT !.sequence = @ + 2]
    ELSE [service EXCEPT !.sequence = @ + 1]

IsFirst(method) == Alive /\ calls # <<>> /\ calls[1].call.method = method

NotReady == IF kind = "settings" /\ calls[1].call.method = "Get" THEN "NOT_READY"
                                                                 ELSE "BACKEND_UNAVAILABLE"
ReadFails == IF kind = "settings" THEN "STORAGE_FAILURE" ELSE "IO_ERROR"

\* getToastNotifications, getProductTelemetryConsent, listNotifications.
HandlesGet ==
    /\ IsFirst("Get")
    /\ \/ /\ service.state = "READY"
          /\ Answer(SignedReply(calls[1].call, "OK", TRUE))
          /\ UNCHANGED spent
       \/ /\ service.state # "READY"
          /\ Answer(SignedReply(calls[1].call, NotReady, FALSE))
          /\ UNCHANGED spent
       \/ /\ service.state = "READY"
          /\ Spend("failure")
          /\ Answer(SignedReply(calls[1].call, ReadFails, FALSE))
    /\ UNCHANGED <<service, persistedGeneration, registerVars>>

\* setToastNotifications, setProductTelemetryConsent, markRead when they
\* change nothing: not READY, an operation that is logged already, another
\* revision, a failed transaction.
HandlesSetWithoutEffect ==
    LET call == calls[1].call
        row == Counting!Row(call.op, call.value, call.expected, 0)
        known == {r \in log : r.op = call.op}
        same == {r \in known : [r EXCEPT !.result = 0] = row}
        code == IF service.state # "READY" THEN NotReady
                ELSE IF same # {} THEN "OK"
                ELSE IF known # {} THEN "CONFLICT" ELSE "STALE_REVISION"
    IN
    /\ IsFirst("Set")
    /\ \/ /\ code = "STALE_REVISION" => call.expected # revision
          /\ Answer(SignedReply(call, code, service.state = "READY"))
          /\ UNCHANGED spent
       \/ /\ service.state = "READY"
          /\ Spend("failure")
          /\ Answer(SignedReply(call, "IO_ERROR", TRUE))
    /\ UNCHANGED <<service, persistedGeneration, registerVars>>

\* The committed change is announced before the reply; the process may be
\* killed between the commit and the messages.
HandlesSetApplied ==
    LET call == calls[1].call
    IN
    /\ IsFirst("Set")
    /\ service.state = "READY" /\ call.expected = revision
    /\ Write(call.op, call.value)
    /\ \/ /\ answers' # answers
          /\ LET told == IF revision' = revision THEN <<>>
                                                 ELSE Announcement(call.value, revision')
                 reply == IF calls[1].awaited THEN <<SignedReply(call, "OK", TRUE)>> ELSE <<>>
             IN  inbox' = inbox \o told \o reply
          /\ calls' = Tail(calls)
          /\ service' = IF revision' = revision THEN service ELSE Announces(call.value)
          /\ UNCHANGED <<persistedGeneration, spent>>
       \/ /\ answers' = answers
          /\ ServiceEnds

\* What another client of the service may write: another value, a consent
\* again, a notification more or one read.
Writable ==
    CASE kind = "toast" -> {0, 1} \ {value}
      [] kind = "settings" -> {0, 1}
      [] kind = "notifications" -> {n \in {value - 1, value + 1} : n >= 0}

OtherClientSets ==
    /\ service.state = "READY"
    /\ Spend("other")
    /\ \E v \in Writable :
        /\ Write(MaxOperations + 1 + revision, v) /\ answers' # answers
        /\ inbox' = inbox \o Announcement(v, revision')
        /\ service' = Announces(v)
    /\ UNCHANGED <<persistedGeneration, calls>>
-----------------------------------------------------------------------------
(* What the handlers share.  w.r is the readiness client, w.c the client.  *)

World(r, sent) == [r |-> r, c |-> client, calls |-> sent]

Matches(w, owner) == IsReady(w.r) /\ owner = w.r.snapshot.owner

GetCall(c) == [method |-> "Get", from |-> "client", epoch |-> c.ownerEpoch]
\* Mutant: a retry names the revision the client has now.
SetCallAtCurrent(c) ==
    [method |-> "Set", from |-> "client", epoch |-> c.ownerEpoch,
     op |-> c.pending.op, value |-> c.pending.value, expected |-> c.copy.revision]
\* A retry repeats the arguments of the first attempt.
SetCall(c) == [method |-> "Set", from |-> "client", epoch |-> c.ownerEpoch,
               op |-> c.pending.op, value |-> c.pending.value, expected |-> c.pending.expected]

\* readiness_.refresh().
RefreshReadiness(w) ==
    LET result == Refresh(w.r, FALSE)
    IN  [w EXCEPT !.r = result.state, !.calls = @ \o result.calls]

\* Answers after which the service may still be asked with the same operation.
Undecided(m) == m.error \/ m.answer.code = "BACKEND_UNAVAILABLE"

Becomes(w) ==
    /\ readiness' = w.r
    /\ client' = w.c
    /\ calls' = calls \o Outgoing(w.calls)

\* The readiness client handles a message; it emits stateChanged, to which
\* the client is connected, inside its handler.
ReadinessHandles(OnReadinessChanged(_)) ==
    /\ Arrives("readiness")
    /\ LET result == OnMessage(readiness, inbox[1])
           after == World(result.state, result.calls)
       IN  Becomes(IF result.changed THEN OnReadinessChanged(after) ELSE after)
    /\ inbox' = InboxAfter("readiness")
    /\ UNCHANGED <<service, persistedGeneration, spent, registerVars, kind, issued, resolved>>

ClientHandles(OnClientMessage(_, _)) ==
    /\ Arrives("client")
    /\ Becomes(OnClientMessage(World(readiness, <<>>), inbox[1]))
    /\ inbox' = InboxAfter("client")
    /\ resolved' = IF client'.pending = client.pending THEN resolved
                   ELSE [resolved EXCEPT ![client.pending.op] = inbox[1].answer.code]
    /\ UNCHANGED <<service, persistedGeneration, spent, registerVars, kind, issued>>

ServiceTurn ==
    /\ \/ BusOwes /\ UNCHANGED registerVars
       \/ HandlesGet \/ HandlesSetWithoutEffect \/ HandlesSetApplied
    /\ UNCHANGED clientOnly

EnvironmentTurn ==
    /\ \/ BusMay /\ UNCHANGED registerVars
       \/ OtherClientSets
    /\ UNCHANGED clientOnly

ServiceInit ==
    /\ BusInit
    /\ ReadinessInit
    /\ InitialRegister
    /\ issued = 0
    /\ resolved = [op \in Operations |-> "PENDING"]
-----------------------------------------------------------------------------
\* The user is told the truth: an operation reported as saved is in the
\* log, one reported as stale or in conflict is not and never will be,
\* whichever of its attempts was answered, timed out or died with the
\* service.  IO_ERROR promises neither: a retry can meet it after the
\* operation took effect.
ReportsAreTrue ==
    \A op \in Operations :
        /\ resolved[op] = "OK" => \E row \in log : row.op = op
        /\ resolved[op] \in {"STALE_REVISION", "CONFLICT"} => \A row \in log : row.op # op

\* No attempt of a decided operation is still on its way to the service: it
\* cannot take effect behind the user's back later.
NoLateAttempts ==
    \A i \in DOMAIN calls :
        calls[i].call.method = "Set" => calls[i].call.op = client.pending.op

\* What the user has been told of an operation is true and stays so.
DecisionsAreFinal == ReportsAreTrue /\ NoLateAttempts

\* Among the calls and replies those that the client still waits for are
\* exactly one while it holds back the next request, and none otherwise.
OneClientRequestUnderway ==
    LET due == {i \in DOMAIN calls : /\ calls[i].awaited /\ calls[i].call.from = "client"
                                     /\ calls[i].call.epoch = client.ownerEpoch}
        here == {i \in DOMAIN inbox : /\ inbox[i].kind = "reply" /\ inbox[i].to = {"client"}
                                      /\ inbox[i].call.epoch = client.ownerEpoch}
    IN  Cardinality(due) + Cardinality(here) = IF client.requestInFlight THEN 1 ELSE 0
=============================================================================
