---------------------------- MODULE TelemetryRing ----------------------------
(***************************************************************************)
(* The shared-memory sample ring of the telemetry ABI: one producer that   *)
(* writes slots under a sequence guard, and readers in other processes     *)
(* that copy a slot and keep the copy only if the guard did not move.      *)
(* Every field is read and written by one sequentially consistent atomic   *)
(* operation, so each load and each store is a step of its own.            *)
(*                                                                         *)
(* The header of the mapping is complete before anybody attaches and never *)
(* changes; a producer or reader that rejects it does nothing at all.      *)
(***************************************************************************)
EXTENDS Naturals

CONSTANTS
    Readers,
    MaxWord,              \* stands for numeric_limits<std::uint64_t>::max()
    Calls                 \* what publish is called with for each sample sequence

Words == 0..MaxWord
Sequences == 1..(MaxWord - 1)
Slots == 0..1             \* kSlotCount

Valid == 1
Unavailable == 2
Stale == 3
SampleStates == {Valid, Unavailable, Stale}
UnsignedMicroUnits == 1

\* The largest unsigned word is odd.
ASSUME WordAssumption == MaxWord \in Nat /\ MaxWord >= 3 /\ MaxWord % 2 = 1
ASSUME CallsAssumption ==
    Calls \in [Sequences -> [state : SampleStates, time : Words, value : Words]]

\* The five fields a guard protects, in the order they are written and read.
Fields == 1..5
SampleSequence == 1
MonotonicTime == 2
State == 3
Encoding == 4
MetricValue == 5

VARIABLES
    guard,                \* sequence_guard of each slot
    data,                 \* the other fields of each slot
    phase,                \* the producer: detached, 0 between two publications, or
                          \* 1..5 about to store that field, 6 about to commit
    next,                 \* m_nextSequence
    reader,               \* each reader's place in readSlot and its candidate
    accepted              \* the last sample each reader accepted from each slot

producerVars == <<guard, data, phase, next>>
readerVars == <<reader, accepted>>
vars == <<producerVars, readerVars>>

Detached == 7
Nothing == [k \in Fields |-> 0]
Idle == [at |-> 0, slot |-> 0, first |-> 0, copy |-> Nothing]

TypeOK ==
    /\ guard \in [Slots -> Words]
    /\ data \in [Slots -> [Fields -> Words]]
    /\ phase \in 0..7
    /\ next \in 1..MaxWord
    /\ reader \in [Readers -> [at : 0..6, slot : Slots, first : Words,
                               copy : [Fields -> Words]]]
    /\ accepted \in [Readers -> [Slots -> [Fields -> Words]]]

\* Mutant: every sample goes to the first slot.
FirstSlot(sequence) == 0

SlotOf(sequence) == (sequence - 1) % 2

\* The guard of a slot once sample `sequence` is committed to it.
CommittedGuard(sequence) == sequence + (sequence % 2)

\* What publish stores: a sample that is not Valid has no value.
Sample(sequence) ==
    LET call == Calls[sequence]
    IN  [k \in Fields |->
            CASE k = SampleSequence -> sequence
              [] k = MonotonicTime -> call.time
              [] k = State -> call.state
              [] k = Encoding -> UnsignedMicroUnits
              [] k = MetricValue -> IF call.state = Valid THEN call.value ELSE 0]

\* A new mapping is zero-filled.
Init ==
    /\ guard = [i \in Slots |-> 0]
    /\ data = [i \in Slots |-> Nothing]
    /\ phase = Detached
    /\ next = 1
    /\ reader = [r \in Readers |-> Idle]
    /\ accepted = [r \in Readers |-> [i \in Slots |-> Nothing]]
-----------------------------------------------------------------------------
(* The producer.                                                           *)

\* Mutants: a used mapping is taken as it is, or cleared and taken.
AttachToAny ==
    /\ phase = Detached
    /\ phase' = 0
    /\ next' = 1
    /\ UNCHANGED <<guard, data, readerVars>>

AttachAndClear ==
    /\ phase = Detached
    /\ guard' = [i \in Slots |-> 0]
    /\ phase' = 0
    /\ next' = 1
    /\ UNCHANGED <<data, readerVars>>

\* SingleProducer's constructor refuses a mapping that has been written to.
Attach ==
    /\ phase = Detached
    /\ \A i \in Slots : guard[i] = 0
    /\ phase' = 0
    /\ next' = 1
    /\ UNCHANGED <<guard, data, readerVars>>

\* publish up to the odd guard.  Nobody else writes the guard, so nothing
\* can come between its load and this store.
BeginPublish ==
    LET i == SlotOf(next)
    IN
    /\ phase = 0
    /\ next # MaxWord
    /\ guard[i] % 2 = 0
    /\ guard[i] <= MaxWord - 3
    /\ guard' = [guard EXCEPT ![i] = @ + 1]
    /\ phase' = 1
    /\ UNCHANGED <<data, next, readerVars>>

StoreField ==
    /\ phase \in Fields
    /\ data' = [data EXCEPT ![SlotOf(next)][phase] = Sample(next)[phase]]
    /\ phase' = phase + 1
    /\ UNCHANGED <<guard, next, readerVars>>

\* Mutant: the sequence wraps to zero one step early.
CommitAndWrap ==
    /\ phase = 6
    /\ guard' = [guard EXCEPT ![SlotOf(next)] = @ + 1]
    /\ next' = (next + 1) % MaxWord
    /\ phase' = 0
    /\ UNCHANGED <<data, readerVars>>

Commit ==
    /\ phase = 6
    /\ guard' = [guard EXCEPT ![SlotOf(next)] = @ + 1]
    /\ next' = next + 1
    /\ phase' = 0
    /\ UNCHANGED <<data, readerVars>>

\* The producing process dies between any two of its stores.
ProducerDies ==
    /\ phase # Detached
    /\ phase' = Detached
    /\ UNCHANGED <<guard, data, next, readerVars>>
-----------------------------------------------------------------------------
(* readSlot.                                                               *)

\* The first load of the guard; an unused or open slot ends the call.
LoadFirstGuard(r, i) ==
    /\ reader[r].at = 0
    /\ guard[i] # 0 /\ guard[i] % 2 = 0
    /\ reader' = [reader EXCEPT ![r] = [at |-> 1, slot |-> i, first |-> guard[i],
                                        copy |-> Nothing]]
    /\ UNCHANGED <<producerVars, accepted>>

LoadField(r) ==
    LET at == reader[r].at
    IN
    /\ at \in Fields
    /\ reader' = [reader EXCEPT ![r] =
                    [at |-> at + 1, slot |-> @.slot, first |-> @.first,
                     copy |-> [@.copy EXCEPT ![at] = data[reader[r].slot][at]]]]
    /\ UNCHANGED <<producerVars, accepted>>

\* The checks after the second load of the guard, on the copied fields.
\* Mutant: the two guards are not compared.
AcceptableAtLast(i, first, second, copy) ==
    /\ second % 2 = 0
    /\ copy[SampleSequence] # 0 /\ copy[SampleSequence] # MaxWord
    /\ SlotOf(copy[SampleSequence]) = i
    /\ second = CommittedGuard(copy[SampleSequence])
    /\ copy[State] \in SampleStates
    /\ copy[Encoding] = UnsignedMicroUnits

Acceptable(i, first, second, copy) ==
    /\ first = second /\ second % 2 = 0
    /\ copy[SampleSequence] # 0 /\ copy[SampleSequence] # MaxWord
    /\ SlotOf(copy[SampleSequence]) = i
    /\ second = CommittedGuard(copy[SampleSequence])
    /\ copy[State] \in SampleStates
    /\ copy[Encoding] = UnsignedMicroUnits

LoadSecondGuard(r) ==
    LET i == reader[r].slot
    IN
    /\ reader[r].at = 6
    /\ accepted' = IF Acceptable(i, reader[r].first, guard[i], reader[r].copy)
                   THEN [accepted EXCEPT ![r][i] = reader[r].copy]
                   ELSE accepted
    /\ reader' = [reader EXCEPT ![r] = Idle]
    /\ UNCHANGED producerVars

\* A reader stops anywhere; the ring never notices.
Abandon(r) ==
    /\ reader[r].at # 0
    /\ reader' = [reader EXCEPT ![r] = Idle]
    /\ UNCHANGED <<producerVars, accepted>>
-----------------------------------------------------------------------------
Producer == Attach \/ BeginPublish \/ StoreField \/ Commit \/ ProducerDies

Reader(r) ==
    \/ \E i \in Slots : LoadFirstGuard(r, i)
    \/ LoadField(r) \/ LoadSecondGuard(r) \/ Abandon(r)

Next == Producer \/ \E r \in Readers : Reader(r)

Spec == Init /\ [][Next]_vars
-----------------------------------------------------------------------------
(* Properties.                                                             *)

\* Whatever a reader accepts is one whole sample as it was published, never
\* fields of two (readSlot against publish, interleaved at every access).
NoTornSample ==
    \A r \in Readers, i \in Slots :
        accepted[r][i] # Nothing =>
            /\ accepted[r][i][SampleSequence] \in 1..(next - 1)
            /\ accepted[r][i] = Sample(accepted[r][i][SampleSequence])

\* The newest committed sample stays acceptable while the next one is being
\* written, and after the producer died in the middle of it.
LatestSampleReadable ==
    next > 1 =>
        LET i == SlotOf(next - 1)
        IN  /\ data[i] = Sample(next - 1)
            /\ Acceptable(i, guard[i], guard[i], data[i])

\* Neither counter wraps: an idle producer is refused by publish only once
\* every sequence number below the largest word has been used.
OnlyExhaustionRefuses ==
    phase = 0 /\ next # MaxWord =>
        guard[SlotOf(next)] % 2 = 0 /\ guard[SlotOf(next)] <= MaxWord - 3

\* What a reader accepts from one slot never gets older.
SlotNeverGoesBack ==
    [][\A r \in Readers, i \in Slots :
        accepted'[r][i][SampleSequence] >= accepted[r][i][SampleSequence]]_vars
=============================================================================
