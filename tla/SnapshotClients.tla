---------------------------- MODULE SnapshotClients ----------------------------
(***************************************************************************)
(* The clients that keep a copy of something the session service has: a    *)
(* profile, the devices, or the displays with their states.  One of them,  *)
(* "kind", shares the bus with the service; what it copies is a numbered   *)
(* content that publications advance and reads answer.                     *)
(*                                                                         *)
(* That a read answers a content together with the event that announced it *)
(* is what HardwareSession and SessionPreferences examine; here it is so.  *)
(***************************************************************************)
EXTENDS SessionBus

\* The clients a run looks at under each combination of limits.
CONSTANT KindsWith(_)

Kinds == {"profiles", "hardware", "display"}

ASSUME KindsAssumption == \A limits \in Limits : KindsWith(limits) \subseteq Kinds
\* Each has a connection of its own and follows all events.
ASSUME ConnectionAssumption == Listeners = {"client"} /\ Observers = Listeners

VARIABLES
    kind,                 \* which client this is
    client,               \* its members
    content,              \* what there is to read; 0 is a profile not yet made
    open                  \* hardware reads are answered

vars == <<busVars, kind, client, content, open>>

Profiles == INSTANCE ProfilesClient WITH NoContent <- 0
Hardware == INSTANCE HardwareClient WITH NoContent <- 0
Display == INSTANCE DisplayClient WITH NoContent <- <<>>

NoClient ==
    CASE kind = "profiles" -> Profiles!NoClient
      [] kind = "hardware" -> Hardware!NoClient
      [] kind = "display" -> Display!NoClient

\* refresh(), which a new client calls itself.
Refreshed(c) ==
    CASE kind = "profiles" -> Profiles!RequestSnapshot(c)
      [] kind = "hardware" -> Hardware!Refresh(c)
      [] kind = "display" -> Display!Refresh(c)

NewClient == Refreshed(NoClient)

OnMessage(m) ==
    CASE kind = "profiles" -> Profiles!OnMessage(client, m)
      [] kind = "hardware" -> Hardware!OnMessage(client, m)
      [] kind = "display" -> Display!OnMessage(client, m)

\* No display, one, or two, so that a copy takes one call to three.
DisplaysAt(n) == n % 3

Init ==
    /\ BusInit
    /\ kind \in KindsWith(spent.limits)
    /\ content \in IF kind = "profiles" THEN {0, 1} ELSE {1}
    /\ open = TRUE
    /\ client = NewClient.state
    /\ calls = Outgoing(NewClient.calls)
-----------------------------------------------------------------------------
(* Publications.                                                           *)

\* One number, first signalled by the family the client listens to, by two
\* of them for a display, and then by EventPublished.
SignalsOf(n, subject) ==
    LET event == EventOf(service.owner, n, subject)
        signal == [event EXCEPT !.kind = "value"]
    IN  CASE subject = "other" -> <<event>>
          [] subject = "display" /\ kind = "display" -> <<signal, signal, event>>
          [] OTHER -> <<signal, event>>

Signals(n, subjects) == IF n \in DOMAIN subjects THEN SignalsOf(n, subjects[n]) ELSE <<>>

\* The events that name the subjects, three at most, one after the other.
Publishes(state, subjects) ==
    /\ service' = [service EXCEPT !.state = state, !.sequence = @ + Len(subjects)]
    /\ inbox' = inbox \o Signals(1, subjects) \o Signals(2, subjects) \o Signals(3, subjects)

\* An inventory that changed names its devices, a graph the platform too.
HardwareSubjects(before, after) ==
    IF DisplaysAt(before) + DisplaysAt(after) > 0 THEN <<"display", "platform">>
                                                  ELSE <<"gpu", "platform">>

\* publishHardwareInitialization: readiness first, then all there is.
BecomesReady ==
    /\ service.state \in {"RECOVERING", "FAILED"}
    /\ Publishes("READY", <<"other">> \o IF kind = "profiles" THEN <<"other">>
                                         ELSE HardwareSubjects(content, content))
    /\ open' = TRUE
    /\ UNCHANGED <<persistedGeneration, calls, spent, content>>

\* A profile is written, or the hardware changes; reads open again if need be.
Changes ==
    /\ service.state = "READY"
    /\ Spend("other")
    /\ content' = content + 1
    /\ open' = TRUE
    /\ Publishes("READY", IF kind = "profiles" THEN <<"profile">>
                          ELSE HardwareSubjects(content, content + 1))
    /\ UNCHANGED <<persistedGeneration, calls>>

\* An event that changes nothing this client copies.
ChangesElsewhere ==
    /\ service.state = "READY"
    /\ Spend("other")
    /\ Publishes("READY", <<"other">>)
    /\ UNCHANGED <<persistedGeneration, calls, content, open>>

\* A refresh fails or the monitor is lost: the platform is announced, and
\* reads are closed, until everything is announced again.
Closes ==
    /\ service.state = "READY" /\ kind # "profiles" /\ open
    /\ Spend("failure")
    /\ open' = FALSE
    /\ Publishes("READY", <<"platform">>)
    /\ UNCHANGED <<persistedGeneration, calls, content>>

Reopens ==
    /\ service.state = "READY" /\ ~open
    /\ open' = TRUE
    /\ Publishes("READY", HardwareSubjects(content, content))
    /\ UNCHANGED <<persistedGeneration, calls, spent, content>>
-----------------------------------------------------------------------------
(* Reads.                                                                  *)

Readable == service.state = "READY" /\ (kind # "profiles" => open)

Refused(code) == [code |-> code, owner |-> NoOwner, sequence |-> 0, content |-> 0]

Current ==
    [code |-> IF content = 0 THEN "NOT_FOUND" ELSE "OK", owner |-> service.owner,
     sequence |-> service.sequence, content |-> content]

CurrentAnswer ==
    IF kind = "display"
    THEN [code |-> "OK", owner |-> service.owner, sequence |-> service.sequence,
          content |-> content, displays |-> DisplaysAt(content)]
    ELSE Current

HandlesRead ==
    /\ Alive /\ calls # <<>>
    /\ \/ /\ Answer(Reply("client", calls[1].call,
                          IF Readable THEN CurrentAnswer ELSE Refused("BACKEND_UNAVAILABLE")))
          /\ UNCHANGED spent
       \/ /\ Readable /\ kind = "profiles"
          /\ Spend("failure")
          /\ Answer(Reply("client", calls[1].call, Refused("IO_ERROR")))
    /\ UNCHANGED <<service, persistedGeneration, content, open>>

ClientHandles ==
    /\ Arrives("client")
    /\ LET result == OnMessage(inbox[1])
       IN  /\ client' = result.state
           /\ calls' = calls \o Outgoing(result.calls)
    /\ inbox' = InboxAfter("client")
    /\ UNCHANGED <<service, persistedGeneration, spent, kind, content, open>>

\* The program asks for a read, whatever the client is doing.
UserRefreshes ==
    /\ Spend("operation")
    /\ client' = Refreshed(client).state
    /\ calls' = calls \o Outgoing(Refreshed(client).calls)
    /\ UNCHANGED <<service, persistedGeneration, inbox, kind, content, open>>

Next ==
    \/ BusLife /\ UNCHANGED <<kind, client, content, open>>
    \/ ActivationFails /\ UNCHANGED <<kind, client, content, open>>
    \/ (BecomesReady \/ Changes \/ ChangesElsewhere \/ Closes \/ Reopens)
        /\ UNCHANGED <<kind, client>>
    \/ HandlesRead /\ UNCHANGED <<kind, client>>
    \/ ClientHandles
    \/ UserRefreshes

Spec == Init /\ [][Next]_vars

\* The bus delivers and the service answers; the client's loop runs.
FairSpec ==
    /\ Spec
    /\ WF_vars(ClientHandles)
    /\ WF_vars(HandlesRead /\ UNCHANGED <<kind, client>>)
    /\ WF_vars(ActivationFails /\ UNCHANGED <<kind, client, content, open>>)
-----------------------------------------------------------------------------
TypeOK ==
    /\ BusTypeOK
    /\ client.ownerEpoch \in Nat /\ client.lastObserved \in Nat
    /\ {client.moved, client.inFlight, client.refreshPending, client.copy.ready} \subseteq BOOLEAN
    /\ {client.eventOwner, client.copy.owner} \subseteq Owners
    /\ content \in Nat /\ open \in BOOLEAN
    /\ kind # "profiles" /\ client.copy.ready => client.copy.owner # NoOwner

\* A whole copy of one content.
Whole == IF kind = "display" THEN [i \in 1..(DisplaysAt(content) + 1) |-> content] ELSE content

\* Copies are moved on by events without a read.  One whose cursor names the
\* last event of the running service still is what a read would answer, in
\* one piece, and there is none while reads are closed.  A profile's copy is
\* that whatever signals were lost.
CopyIsCurrent ==
    /\ kind = "profiles" \/ Without({"lost"})
    /\ client.copy.ready /\ Alive
    /\ client.copy.owner = service.owner /\ client.copy.sequence = service.sequence
    => Readable /\ client.copy.content = Whole

\* A reply that was overtaken by events is not kept: what the client shows
\* of an owner is at least as recent as any event it handled from it.
CopyCoversEvents ==
    client.copy.ready /\ client.copy.owner = client.eventOwner
        => client.copy.sequence >= client.lastObserved

\* Of the chain of calls that makes a copy exactly one is unanswered while
\* the client waits, and none otherwise: no change of owner, no timeout and
\* no event leaves it waiting for ever, or reading twice at a time.
OneReadUnderway ==
    LET due == {i \in DOMAIN calls : calls[i].awaited /\ calls[i].call.epoch = client.ownerEpoch}
        here == {i \in DOMAIN inbox : /\ inbox[i].kind = "reply"
                                      /\ inbox[i].call.epoch = client.ownerEpoch}
    IN  /\ Cardinality(due) + Cardinality(here) = IF client.inFlight THEN 1 ELSE 0
        /\ client.refreshPending => client.inFlight

\* No change of owner, event, failure or timeout confuses the client's reads.
ReadInvariant == TypeOK /\ OneReadUnderway

\* Without lost signals, timeouts and failures a client that shares the bus
\* with a READY service comes to show what the service has, and nothing of
\* a service that is gone.  Left out are a profile client that read before a
\* first start was READY, see ReadyOnlyOnAnswer, and a display client that the
\* program asked to read although it had a copy: an unrelated event between
\* the replies only moves the cursor, FinishState then drops the copy with
\* the read, and nothing reads again before the next event.
EventuallyCurrent ==
    []Without({"lost", "timeout", "failure"}
                \cup (IF kind = "display" THEN {"operation"} ELSE {})) =>
        <>[](/\ Alive \/ ~client.copy.ready
             /\ service.state = "READY" =>
                \/ /\ client.copy.ready
                   /\ client.copy.owner = service.owner /\ client.copy.sequence = service.sequence
                   /\ client.copy.content = Whole
                \/ /\ kind = "profiles" /\ service.owner.generation = 1
                   /\ client.copy.ready /\ client.copy.owner = NoOwner)

\* What the clients promise: a copy is shown only after the service has
\* answered with one, and not after it refused.
ReadyOnlyOnAnswer == client.copy.ready => client.copy.owner # NoOwner
=============================================================================
