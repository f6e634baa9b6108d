------------------------- MODULE IdempotentRegister -------------------------
(***************************************************************************)
(* What a preference promises its callers: a versioned value that each     *)
(* operation ID can change at most once, and that answers an operation ID  *)
(* with the one result it ever had, however often and however late it is   *)
(* asked.  Neither crashes nor events nor transactions are visible here.   *)
(***************************************************************************)
EXTENDS Naturals

CONSTANTS OpIds, Values, CountsEveryWrite

VARIABLES
    value, revision,
    log,                  \* the operations that took effect
    answers               \* [op, revision] pairs some caller has heard

registerVars == <<value, revision, log, answers>>

Row(op, v, e, r) == [op |-> op, value |-> v, expected |-> e, result |-> r]

Hears(op, r) == answers' = answers \cup {[op |-> op, revision |-> r]}

\* A register is new, or taken over from a file with one operation in it.
Init ==
    /\ answers = {}
    /\ \/ revision = 0 /\ log = {}
       \/ /\ revision = 1
          /\ value \in Values
          /\ \E op \in OpIds : log = {Row(op, value, 0, 1)}

\* The caller may be gone before it hears the result.
Write(op, v) ==
    LET result == IF CountsEveryWrite \/ v # value THEN revision + 1 ELSE revision
    IN  /\ \A row \in log : row.op # op
        /\ value' = v
        /\ revision' = result
        /\ log' = log \cup {Row(op, v, revision, result)}
        /\ Hears(op, result) \/ UNCHANGED answers

Repeat(op) ==
    /\ \E row \in log : row.op = op /\ Hears(op, row.result)
    /\ UNCHANGED <<value, revision, log>>

Next == \E op \in OpIds : Repeat(op) \/ \E v \in Values : Write(op, v)

Spec == Init /\ [][Next]_registerVars

\* The results of one operation ID never differ, and each is logged.
OneResult ==
    /\ \A a, b \in answers : a.op = b.op => a = b
    /\ \A a \in answers : \E row \in log : row.op = a.op /\ row.result = a.revision

\* Each revision is the work of one operation; those that share it since
\* asked for the value it has.
OneWriterPerRevision ==
    /\ \A r \in 1..revision : \E row \in log : row.result = r /\ row.expected = r - 1
    /\ \A a, b \in log : a.result = b.result =>
        /\ a.value = b.value
        /\ a.expected < a.result /\ b.expected < b.result => a = b
    /\ \A a, b \in log : a.op = b.op => a = b
=============================================================================
