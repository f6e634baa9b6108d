---------------------------- MODULE SessionEvents ----------------------------
(***************************************************************************)
(* The part of SessionService every other part shares: the initialization  *)
(* state, the one event counter of the service incarnation, and the way    *)
(* its exhaustion ends the process.  The event loop is single threaded, so *)
(* each handler of the modules that extend this one is one step.           *)
(***************************************************************************)
EXTENDS Naturals, Sequences

CONSTANT MaxSequence      \* stands for numeric_limits<quint64>::max()

ASSUME MaxSequenceAssumption == MaxSequence \in Nat /\ MaxSequence >= 2

VARIABLES
    state,                \* state_, or "STOPPED" when no process is running
    eventSequence,        \* eventSequence_: the last sequence number used
    quitting              \* QCoreApplication::quit has been asked for

serviceVars == <<state, eventSequence, quitting>>

\* DEGRADED exists in the enumeration but no code ever enters it.
States == {"STOPPED", "STARTING", "RECOVERING", "READY", "FAILED"}

ServiceTypeOK ==
    /\ state \in States
    /\ eventSequence \in 0..MaxSequence
    /\ quitting \in BOOLEAN

Running == state # "STOPPED"

\* nextEventSequence called n times: at the maximum it returns 0 and leaves
\* the counter, so a caller that does not look publishes the old number again.
NextSequence(n) ==
    IF eventSequence + n <= MaxSequence THEN eventSequence + n ELSE MaxSequence

HasRoomFor(n) == eventSequence + n <= MaxSequence

\* failEventSequenceExhausted: no number is used; eventSequenceExhausted is
\* connected to QCoreApplication::quit.
FailEventSequenceExhausted ==
    /\ state' = "FAILED"
    /\ quitting' = TRUE
    /\ UNCHANGED eventSequence

\* setState: the change is announced as an event of subject SERVICE.
SetState(next) ==
    IF HasRoomFor(1)
    THEN state' = next /\ eventSequence' = NextSequence(1) /\ UNCHANGED quitting
    ELSE FailEventSequenceExhausted

\* The process starts with a new instance UUID and a counter at zero.
StartProcess ==
    /\ ~Running
    /\ state' = "STARTING"
    /\ eventSequence' = 0
    /\ quitting' = FALSE

\* The process ends; everything volatile is gone.
StopProcess ==
    /\ state' = "STOPPED"
    /\ eventSequence' = 0
    /\ quitting' = FALSE
=============================================================================
