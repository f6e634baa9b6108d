------------------------------ MODULE SessionBus ------------------------------
(***************************************************************************)
(* The session service as a client process sees it through the session     *)
(* bus: an owner of the bus name that comes and goes, calls that are       *)
(* answered in the order they were made, and signals and replies that      *)
(* arrive in the order they were sent.  The objects of the client process  *)
(* that listen on the same connection get a signal one after the other, in *)
(* no particular order; other events of the process may come in between.   *)
(*                                                                         *)
(* The service side is what HardwareSession has in detail: readiness       *)
(* events, and further events that other subjects cause.                   *)
(***************************************************************************)
EXTENDS Naturals, Sequences, FiniteSets, FiniteSetsExt

CONSTANTS
    Listeners,            \* the objects of the client process
    Observers,            \* those of them that are connected to EventPublished
    Limits                \* what a run may do, in one combination or another

\* Incarnations of the service, failed recoveries and inventories, events of
\* other subjects, calls the client gives up on, signals the bus drops, and
\* changes the user asks for.
Spendable == {"start", "failure", "other", "timeout", "lost", "operation"}

ASSUME ListenersAssumption == Observers \subseteq Listeners
ASSUME LimitsAssumption == Limits \subseteq [Spendable -> Nat]

LimitOf(kind) == Max({limits[kind] : limits \in Limits})
MaxStarts == LimitOf("start")
ASSUME StartsAssumption ==
    MaxStarts \in Nat \ {0} /\ \A limits \in Limits : limits["start"] <= MaxStarts

VARIABLES
    service,              \* the running service: identity, state and event counter
    persistedGeneration,  \* service_metadata.service_generation, on disk
    calls,                \* calls on their way to the service
    inbox,                \* messages on their way to the client
    spent                 \* the combination of limits, and how much of it is used

busVars == <<service, persistedGeneration, calls, inbox, spent>>

\* serviceInstanceUuid and serviceGeneration: what an event or a reply is
\* signed with.  UUIDs are numbered in the order of the starts.
Owners == [uuid : 0..MaxStarts, generation : 0..MaxStarts]
NoOwner == [uuid |-> 0, generation |-> 0]
NoService == [owner |-> NoOwner, state |-> "STOPPED", sequence |-> 0]

Alive == service.owner # NoOwner

BusTypeOK ==
    /\ service \in [owner : Owners, sequence : Nat,
                    state : {"STOPPED", "STARTING", "RECOVERING", "READY", "FAILED"}]
    /\ persistedGeneration \in 0..MaxStarts
    /\ \A i \in DOMAIN calls : calls[i].awaited \in BOOLEAN
    /\ \A i \in DOMAIN inbox :
        /\ inbox[i].to \subseteq Listeners /\ inbox[i].to # {}
        /\ inbox[i].kind \in {"owner", "event", "value", "reply"}

MaySpend(kind) == spent.count[kind] < spent.limits[kind]

Spend(kind) == MaySpend(kind) /\ spent' = [spent EXCEPT !.count[kind] = @ + 1]

\* A client may be launched before the service or when it has long been READY.
BusInit ==
    /\ \/ service = NoService /\ persistedGeneration = 0
       \/ /\ service = [owner |-> [uuid |-> 1, generation |-> 1], state |-> "READY", sequence |-> 3]
          /\ persistedGeneration = 1
    /\ inbox = <<>>
    /\ \E limits \in Limits :
        spent = [limits |-> limits,
                 count |-> [kind \in Spendable |-> IF kind = "start" THEN service.owner.uuid ELSE 0]]

\* None of these has happened.
Without(kinds) == \A kind \in kinds : spent.count[kind] = 0
-----------------------------------------------------------------------------
(* Messages.                                                               *)

OwnerChanged(alive) == [kind |-> "owner", to |-> Listeners, alive |-> alive]

\* EventPublished; its sequence number is the n-th after the last one.
EventOf(owner, n, subject) ==
    [kind |-> "event", to |-> Observers, owner |-> owner,
     sequence |-> service.sequence + n, subject |-> subject]

\* A call that failed carries no answer.
NoAnswer == [code |-> "NO_REPLY", owner |-> NoOwner, state |-> "STOPPED", sequence |-> 0]
Reply(listener, call, answer) ==
    [kind |-> "reply", to |-> {listener}, call |-> call, error |-> FALSE, answer |-> answer]
ErrorReply(call) ==
    [kind |-> "reply", to |-> {call.from}, call |-> call, error |-> TRUE, answer |-> NoAnswer]

Awaited(call) == [call |-> call, awaited |-> TRUE]
Outgoing(sent) == [i \in DOMAIN sent |-> Awaited(sent[i])]

\* The elements of a set of numbers, in order.
InOrder(S) ==
    {f \in [1..Cardinality(S) -> S] : \A i, j \in DOMAIN f : i < j => f[i] < f[j]}

\* Errors for every call whose caller still waits.
ErrorReplies ==
    {[i \in DOMAIN f |-> ErrorReply(calls[f[i]].call)] :
        f \in InOrder({i \in DOMAIN calls : calls[i].awaited})}

\* What is left when one listener has handled the first message.
InboxAfter(listener) ==
    IF inbox[1].to = {listener} THEN Tail(inbox)
                                ELSE [inbox EXCEPT ![1].to = @ \ {listener}]

Arrives(listener) == inbox # <<>> /\ listener \in inbox[1].to
-----------------------------------------------------------------------------
(* The service.                                                            *)

\* A new process takes the bus name, activated by a call or restarted; its
\* generation is provisional and it gets the calls that waited for it.
ServiceStarts ==
    /\ ~Alive
    /\ Spend("start")
    /\ service' = [owner |-> [uuid |-> spent.count["start"] + 1, generation |-> 1],
                   state |-> "STARTING", sequence |-> 0]
    /\ inbox' = Append(inbox, OwnerChanged(TRUE))
    /\ UNCHANGED <<persistedGeneration, calls>>

\* prepareDatabaseRecovery: RECOVERING is announced under the provisional
\* generation, the one the database yields shows in everything later.
ServiceRecovers ==
    LET announced == EventOf(service.owner, 1, "readiness")
        recovered == [service.owner EXCEPT !.generation = persistedGeneration + 1]
    IN
    /\ service.state = "STARTING"
    /\ \/ /\ service' = [owner |-> recovered, state |-> "RECOVERING", sequence |-> 1]
          /\ persistedGeneration' = persistedGeneration + 1
          /\ inbox' = Append(inbox, announced)
          /\ UNCHANGED spent
       \/ /\ Spend("failure")
          /\ \E owner \in {service.owner, recovered} :
                /\ service' = [owner |-> owner, state |-> "FAILED", sequence |-> 2]
                /\ inbox' = inbox \o <<announced, EventOf(owner, 2, "readiness")>>
          /\ UNCHANGED persistedGeneration
    /\ UNCHANGED calls

\* publishHardwareInitialization: readiness first, then the hardware events.
ServiceBecomesReady ==
    /\ service.state \in {"RECOVERING", "FAILED"}
    /\ service' = [service EXCEPT !.state = "READY", !.sequence = @ + 2]
    /\ inbox' = inbox \o <<EventOf(service.owner, 1, "readiness"),
                           EventOf(service.owner, 2, "other")>>
    /\ UNCHANGED <<persistedGeneration, calls, spent>>

ServiceFailsInventory ==
    /\ service.state = "RECOVERING"
    /\ Spend("failure")
    /\ service' = [service EXCEPT !.state = "FAILED", !.sequence = @ + 1]
    /\ inbox' = Append(inbox, EventOf(service.owner, 1, "readiness"))
    /\ UNCHANGED <<persistedGeneration, calls>>

\* Hardware, consent, notification and profile events.
OtherEvent ==
    /\ service.state = "READY"
    /\ Spend("other")
    /\ service' = [service EXCEPT !.sequence = @ + 1]
    /\ inbox' = Append(inbox, EventOf(service.owner, 1, "other"))
    /\ UNCHANGED <<persistedGeneration, calls>>

\* The process ends.  The bus reports the loss of the owner and fails the
\* calls it had not answered, in either order.
ServiceEnds ==
    /\ Alive
    /\ service' = NoService
    /\ calls' = <<>>
    /\ \E errors \in ErrorReplies :
        \/ inbox' = inbox \o <<OwnerChanged(FALSE)>> \o errors
        \/ inbox' = inbox \o errors \o <<OwnerChanged(FALSE)>>
    /\ UNCHANGED <<persistedGeneration, spent>>
-----------------------------------------------------------------------------
(* The bus.                                                                *)

\* The first call is answered, unless its caller has given up on it.
Answer(message) ==
    /\ calls' = Tail(calls)
    /\ inbox' = IF calls[1].awaited THEN Append(inbox, message) ELSE inbox

\* A call without an owner to go to waits while the bus activates the
\* service; when that fails, so do the calls.
ActivationFails ==
    /\ ~Alive /\ calls # <<>>
    /\ \E errors \in ErrorReplies : inbox' = inbox \o errors
    /\ calls' = <<>>
    /\ UNCHANGED <<service, persistedGeneration, spent>>

\* The client's call times out; the call itself is still on its way.
CallTimesOut ==
    /\ Spend("timeout")
    /\ \E i \in DOMAIN calls :
        /\ calls[i].awaited
        /\ calls' = [calls EXCEPT ![i].awaited = FALSE]
        /\ inbox' = Append(inbox, ErrorReply(calls[i].call))
    /\ UNCHANGED <<service, persistedGeneration>>

\* A client that reads too slowly loses signals.
SignalLost ==
    /\ Spend("lost")
    /\ \E i \in DOMAIN inbox :
        /\ \/ inbox[i].kind = "event" /\ inbox[i].to = Observers
           \/ inbox[i].kind = "value"
        /\ inbox' = SubSeq(inbox, 1, i - 1) \o SubSeq(inbox, i + 1, Len(inbox))
    /\ UNCHANGED <<service, persistedGeneration, calls>>

\* Properties.GetAll answers about the moment it is handled.
HandlesGetAll ==
    /\ Alive /\ calls # <<>> /\ calls[1].call.method = "GetAll"
    /\ Answer(Reply(calls[1].call.from, calls[1].call, service))
    /\ UNCHANGED <<service, persistedGeneration, spent>>

BusOwes == ActivationFails \/ HandlesGetAll

BusLife ==
    \/ ServiceStarts \/ ServiceRecovers \/ ServiceFailsInventory \/ ServiceEnds
    \/ CallTimesOut \/ SignalLost

BusMay == BusLife \/ ServiceBecomesReady \/ OtherEvent
=============================================================================
