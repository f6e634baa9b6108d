----------------------------- MODULE DisplayClient -----------------------------
(***************************************************************************)
(* The handlers of display1::Client, the list of displays with a state for *)
(* each that a process keeps.  One copy takes a call for the list and one  *)
(* more per display; all of them must answer for the same moment.          *)
(*                                                                         *)
(* Conventions as in ProfilesClient.  A call carries what its completion   *)
(* handler has captured: the list, and the states read so far.             *)
(***************************************************************************)
EXTENDS Naturals, Sequences

CONSTANTS
    NoOwner,              \* an empty service identity
    NoContent             \* no displays

NoCopy == [ready |-> FALSE, owner |-> NoOwner, sequence |-> 0, content |-> NoContent]

\* recent and issued: the keys of recentEvents_, and those with refreshIssued.
NoClient ==
    [ownerEpoch |-> 0, moved |-> FALSE, inFlight |-> FALSE, refreshPending |-> FALSE,
     eventOwner |-> NoOwner, lastObserved |-> 0, recent |-> {}, issued |-> {}, copy |-> NoCopy]

Result(c, sent) == [state |-> c, calls |-> sent]

ListDisplays(c) == [method |-> "Read", from |-> "client", epoch |-> c.ownerEpoch]

GetDisplayState(c, list, states) ==
    [method |-> "ReadDisplay", from |-> "client", epoch |-> c.ownerEpoch,
     list |-> list, states |-> states]

\* clear.
Cleared(c) == [c EXCEPT !.copy = NoCopy]

\* Mutant: a request under way is not looked for.
RefreshAnyway(c) ==
    Result([c EXCEPT !.inFlight = TRUE, !.refreshPending = FALSE, !.moved = FALSE],
           <<ListDisplays(c)>>)

Refresh(c) ==
    IF c.inFlight
    THEN Result([c EXCEPT !.refreshPending = TRUE], <<>>)
    ELSE Result([c EXCEPT !.inFlight = TRUE, !.refreshPending = FALSE, !.moved = FALSE],
                <<ListDisplays(c)>>)

\* invalidate, after an event that advanced eventEpoch_.
Invalidated(c) == Refresh([Cleared(c) EXCEPT !.moved = TRUE])

OnOwnerChanged(c, alive) ==
    LET fresh == [NoClient EXCEPT !.ownerEpoch = c.ownerEpoch + 1]
    IN  IF alive THEN Refresh(fresh) ELSE Result(fresh, <<>>)

\* The family signal of the platform may stand for any display.
IsRelevant(e) == e.subject \in IF e.kind = "value" THEN {"display", "platform"} ELSE {"display"}

IsForeign(c, e) ==
    c.eventOwner \notin {NoOwner, e.owner} \/ (c.copy.ready /\ c.copy.owner # e.owner)
IsGap(c, e) == c.eventOwner # NoOwner /\ e.sequence > c.lastObserved + 1
Newer(m, n) == IF m >= n THEN m ELSE n

\* Two signals with one number: only the first relevant one reads again.
Repeated(c, e) ==
    IF IsRelevant(e) /\ e.sequence \notin c.issued
    THEN Invalidated([c EXCEPT !.issued = @ \cup {e.sequence}])
    ELSE Result(c, <<>>)

Recorded(c, e) ==
    [c EXCEPT !.recent = @ \cup {e.sequence}, !.eventOwner = e.owner,
              !.issued = IF IsRelevant(e) THEN @ \cup {e.sequence} ELSE @]

AcceptEvent(c, e) ==
    LET recorded == Recorded(c, e)
        heard == [recorded EXCEPT !.lastObserved = Newer(@, e.sequence)]
    IN  IF IsForeign(c, e)
        THEN Invalidated([c EXCEPT !.recent = {}, !.issued = {}, !.eventOwner = e.owner,
                                   !.lastObserved = e.sequence])
        ELSE IF e.sequence \in c.recent THEN Repeated(c, e)
        ELSE IF c.eventOwner # NoOwner /\ e.sequence <= c.lastObserved THEN Result(recorded, <<>>)
        ELSE IF IsGap(c, e) \/ IsRelevant(e) THEN Invalidated(heard)
        ELSE IF ~c.copy.ready THEN Refresh(heard)
        ELSE Result([heard EXCEPT !.copy.sequence = heard.lastObserved], <<>>)

Covers(c, a) ==
    c.moved => c.eventOwner # NoOwner /\ a.owner = c.eventOwner /\ a.sequence >= c.lastObserved

Retried(c, again) ==
    LET empty == [Cleared(c) EXCEPT !.inFlight = FALSE, !.refreshPending = FALSE]
    IN  IF again THEN Refresh(empty) ELSE Result(empty, <<>>)

Applied(c, list, states) ==
    [c EXCEPT !.inFlight = FALSE, !.eventOwner = list.owner, !.lastObserved = list.sequence,
              !.copy = [ready |-> TRUE, owner |-> list.owner, sequence |-> list.sequence,
                        content |-> <<list.content>> \o states]]

\* requestState: the state of the next display, or the whole copy.
RequestState(c, list, states) ==
    IF Len(states) < list.displays
    THEN Result(c, <<GetDisplayState(c, list, states)>>)
    ELSE IF ~Covers(c, list) \/ c.refreshPending THEN Retried(c, TRUE)
    ELSE Result(Applied(c, list, states), <<>>)

FinishList(c, m) ==
    IF m.error \/ m.answer.code # "OK" THEN Retried(c, c.refreshPending)
    ELSE IF ~Covers(c, m.answer) THEN Retried(c, TRUE)
    ELSE RequestState(c, m.answer, <<>>)

\* sameSnapshot: the identity, the cursor and the generations.
SameSnapshot(list, a) == a.owner = list.owner /\ a.sequence = list.sequence

FinishState(c, m) ==
    IF m.error \/ m.answer.code # "OK" \/ ~SameSnapshot(m.call.list, m.answer)
    THEN Retried(c, c.refreshPending \/ c.moved)
    ELSE RequestState(c, m.call.list, Append(m.call.states, m.answer.content))

OnMessage(c, m) ==
    CASE m.kind = "owner" -> OnOwnerChanged(c, m.alive)
      [] m.kind \in {"event", "value"} -> AcceptEvent(c, m)
      [] m.kind = "reply" ->
            IF m.call.epoch # c.ownerEpoch THEN Result(c, <<>>)
            ELSE IF m.call.method = "Read" THEN FinishList(c, m) ELSE FinishState(c, m)
=============================================================================
