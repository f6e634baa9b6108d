---------------------------- MODULE HardwareClient ----------------------------
(***************************************************************************)
(* The handlers of hardware1::Client, the list of devices that a process   *)
(* keeps.  Each change is signalled twice with one number: by the family   *)
(* signals InventoryChanged and CapabilityGraphChanged, which void the     *)
(* list, and by the common event, which only moves the cursor on.          *)
(*                                                                         *)
(* Conventions as in ProfilesClient.                                       *)
(***************************************************************************)
EXTENDS Naturals, Sequences

CONSTANTS
    NoOwner,              \* an empty service identity
    NoContent             \* no device list

\* snapshotSequence is where the copy was read, sequence where it still holds.
NoCopy == [ready |-> FALSE, owner |-> NoOwner, sequence |-> 0, snapshotSequence |-> 0,
           content |-> NoContent]

\* lastHardware is 0 while hardwareEventSeen_ is false.
NoClient ==
    [ownerEpoch |-> 0, moved |-> FALSE, inFlight |-> FALSE, refreshPending |-> FALSE,
     eventOwner |-> NoOwner, lastObserved |-> 0, lastHardware |-> 0, copy |-> NoCopy]

Result(c, sent) == [state |-> c, calls |-> sent]

ListDevices(c) == [method |-> "Read", from |-> "client", epoch |-> c.ownerEpoch]

\* clearSnapshot.
Cleared(c) == [c EXCEPT !.copy = NoCopy]

Refresh(c) ==
    IF c.inFlight
    THEN Result([c EXCEPT !.refreshPending = TRUE], <<>>)
    ELSE Result([c EXCEPT !.inFlight = TRUE, !.refreshPending = FALSE, !.moved = FALSE],
                <<ListDevices(c)>>)

\* invalidateAndRefresh.
Invalidated(c) == Refresh(Cleared(c))

OnServiceOwnerChanged(c, alive) ==
    LET fresh == [NoClient EXCEPT !.ownerEpoch = c.ownerEpoch + 1]
    IN  IF alive THEN Refresh(fresh) ELSE Result(fresh, <<>>)

\* acceptEventIdentity for a signal that was accepted already, on its own
\* or with the copy that was read after it.
IsRepeated(c, e, specific) ==
    /\ c.eventOwner = e.owner
    /\ IF specific
       THEN \/ c.copy.ready /\ c.copy.owner = e.owner /\ e.sequence <= c.copy.snapshotSequence
            \/ c.lastHardware # 0 /\ e.sequence <= c.lastHardware
       ELSE e.sequence <= c.lastObserved

\* The first event after the last one, or after the copy if none was heard.
IsGap(c, e) ==
    \/ c.eventOwner = e.owner /\ e.sequence > c.lastObserved + 1
    \/ c.eventOwner # e.owner /\ c.copy.ready /\ c.copy.owner = e.owner
       /\ e.sequence > c.copy.sequence + 1

IsForeign(c, e) ==
    c.eventOwner \notin {NoOwner, e.owner} \/ (c.copy.ready /\ c.copy.owner # e.owner)

Newer(m, n) == IF m >= n THEN m ELSE n

Heard(c, e, specific) ==
    [c EXCEPT !.eventOwner = e.owner, !.moved = TRUE,
              !.lastObserved = Newer(@, e.sequence),
              !.lastHardware = IF specific THEN Newer(@, e.sequence) ELSE @]

\* Mutant: a family signal only moves the cursor on, like any other event.
VoidsIfOutOfOrder(c, e, specific) == IsForeign(c, e) \/ IsGap(c, e)
Voids(c, e, specific) == IsForeign(c, e) \/ IsGap(c, e) \/ specific

AcceptEventIdentity(c, e, specific) ==
    LET heard == Heard(c, e, specific)
    IN  IF IsRepeated(c, e, specific) THEN Result(c, <<>>)
        ELSE IF Voids(c, e, specific) THEN Invalidated(heard)
        ELSE IF ~c.copy.ready THEN Refresh(heard)
        ELSE Result([heard EXCEPT !.copy.sequence = Newer(@, e.sequence)], <<>>)

\* Only an event during the request puts a reply in doubt.
Covers(c, a) ==
    c.moved => c.eventOwner # NoOwner /\ a.owner = c.eventOwner /\ a.sequence >= c.lastObserved

Applied(c, a) ==
    [c EXCEPT !.copy = [ready |-> TRUE, owner |-> a.owner, sequence |-> a.sequence,
                        snapshotSequence |-> a.sequence, content |-> a.content],
              !.eventOwner = a.owner, !.lastObserved = a.sequence,
              !.lastHardware = IF @ <= a.sequence THEN 0 ELSE @,
              !.refreshPending = FALSE]

IsValid(m) == ~m.error /\ m.answer.code = "OK"

FinishRefresh(c, m) ==
    LET idle == [c EXCEPT !.inFlight = FALSE]
        valid == IsValid(m)
        empty == [Cleared(idle) EXCEPT !.refreshPending = FALSE]
    IN  IF m.call.epoch # c.ownerEpoch THEN Result(c, <<>>)
        ELSE IF ~valid \/ ~Covers(c, m.answer)
        THEN IF c.refreshPending \/ valid THEN Refresh(empty) ELSE Result(empty, <<>>)
        ELSE IF c.copy.ready /\ c.copy.owner # m.answer.owner /\ ~c.moved
        THEN Refresh(Cleared(idle))
        ELSE Result(Applied(idle, m.answer), <<>>)

OnMessage(c, m) ==
    CASE m.kind = "owner" -> OnServiceOwnerChanged(c, m.alive)
      [] m.kind = "value" -> AcceptEventIdentity(c, m, TRUE)
      [] m.kind = "event" -> AcceptEventIdentity(c, m, FALSE)
      [] m.kind = "reply" -> FinishRefresh(c, m)
=============================================================================
