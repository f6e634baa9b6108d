---------------------------- MODULE ProfilesClient ----------------------------
(***************************************************************************)
(* The handlers of profiles1::Client, the copy of one profile that a       *)
(* process keeps.  It asks no readiness client: an owner, an event about   *)
(* the profile or a gap makes it read again, and a reply is fenced by the  *)
(* events observed since the request.                                      *)
(*                                                                         *)
(* A handler maps the members of the object to their next values and the   *)
(* calls it makes.  eventEpoch_ is only ever compared with its value at    *)
(* the request under way; "moved" says whether they differ.  The fields of *)
(* a copy that is not ready_ are not read by the code and not kept.        *)
(***************************************************************************)
EXTENDS Naturals, Sequences

CONSTANTS
    NoOwner,              \* an empty service identity
    NoContent             \* no profile

NoCopy == [ready |-> FALSE, owner |-> NoOwner, sequence |-> 0, content |-> NoContent]

NoClient ==
    [ownerEpoch |-> 0, moved |-> FALSE, inFlight |-> FALSE, refreshPending |-> FALSE,
     eventOwner |-> NoOwner, lastObserved |-> 0, copy |-> NoCopy]

Result(c, sent) == [state |-> c, calls |-> sent]

ReadProfile(c) == [method |-> "Read", from |-> "client", epoch |-> c.ownerEpoch]

Cleared(c) == [c EXCEPT !.copy = NoCopy]

\* refresh(), requestSnapshot().
RequestSnapshot(c) ==
    IF c.inFlight
    THEN Result([c EXCEPT !.refreshPending = TRUE], <<>>)
    ELSE Result([Cleared(c) EXCEPT !.inFlight = TRUE, !.refreshPending = FALSE, !.moved = FALSE],
                <<ReadProfile(c)>>)

RequestIf(again, c) ==
    IF again THEN RequestSnapshot([c EXCEPT !.refreshPending = FALSE]) ELSE Result(c, <<>>)

\* A reply counts when it covers every event that was observed.
Covers(c, a) == a.owner = c.eventOwner /\ a.sequence >= c.lastObserved
Fenced(c) == c.moved \/ c.refreshPending \/ c.eventOwner # NoOwner

Newer(m, n) == IF m >= n THEN m ELSE n

\* The code does not look at the result code, only at the envelope.
Applied(c, a) ==
    [c EXCEPT !.copy = [ready |-> TRUE, owner |-> a.owner, sequence |-> a.sequence,
                        content |-> a.content],
              !.eventOwner = a.owner,
              !.lastObserved = Newer(@, a.sequence)]

FinishSnapshot(c, m) ==
    LET idle == [c EXCEPT !.inFlight = FALSE]
    IN  IF m.call.epoch # c.ownerEpoch THEN Result(c, <<>>)
        ELSE IF m.error THEN RequestIf(c.refreshPending, Cleared(idle))
        ELSE IF Fenced(c) /\ ~(c.eventOwner # NoOwner /\ Covers(c, m.answer))
        THEN RequestIf(TRUE, Cleared(idle))
        ELSE RequestIf(c.refreshPending, Applied(idle, m.answer))

OnOwnerChanged(c, alive) ==
    LET fresh == [NoClient EXCEPT !.ownerEpoch = c.ownerEpoch + 1]
    IN  IF alive THEN RequestSnapshot(fresh) ELSE Result(fresh, <<>>)

\* Mutant: an event is followed whoever signed it.
FollowsAnyone(c, e) == FALSE
IsForeign(c, e) == c.eventOwner \notin {NoOwner, e.owner}
IsGap(c, e) == c.eventOwner # NoOwner /\ e.sequence > c.lastObserved + 1
\* The family signal and the common one carry the same subject.
IsRelevant(e) == e.subject = "profile"

Reread(c) == RequestSnapshot([Cleared(c) EXCEPT !.moved = TRUE])

\* Mutant: the copy keeps its cursor.
NotAdvanced(c, e) == c
Advanced(c, e) ==
    IF c.copy.ready /\ c.copy.owner = e.owner THEN [c EXCEPT !.copy.sequence = e.sequence] ELSE c

\* observeEvent.
ObserveEvent(c, e) ==
    LET heard == [c EXCEPT !.eventOwner = e.owner, !.lastObserved = e.sequence]
    IN  IF IsForeign(c, e) THEN Reread(heard)
        ELSE IF c.eventOwner # NoOwner /\ e.sequence <= c.lastObserved THEN Result(c, <<>>)
        ELSE IF IsGap(c, e) \/ IsRelevant(e) THEN Reread(heard)
        ELSE Result(Advanced(heard, e), <<>>)

OnMessage(c, m) ==
    CASE m.kind = "owner" -> OnOwnerChanged(c, m.alive)
      [] m.kind \in {"event", "value"} -> ObserveEvent(c, m)
      [] m.kind = "reply" -> FinishSnapshot(c, m)
=============================================================================
