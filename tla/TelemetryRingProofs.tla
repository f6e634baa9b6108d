------------------------- MODULE TelemetryRingProofs -------------------------
(***************************************************************************)
(* Proofs about the sample ring, for any number of readers, any width of   *)
(* the words and any sequence of calls to publish.                         *)
(***************************************************************************)
EXTENDS TelemetryRing, TLAPS

\* Consecutive samples alternate between the two slots.
LEMMA SlotArithmetic ==
    ASSUME NEW n \in Nat, n >= 1
    PROVE  /\ SlotOf(n) \in Slots
           /\ SlotOf(n + 1) = 1 - SlotOf(n)
           /\ SlotOf(n + 2) = SlotOf(n)
  BY SMT DEF SlotOf, Slots

\* The guard of a committed sample is its number rounded up to even.
LEMMA GuardArithmetic ==
    ASSUME NEW n \in Nat, n >= 1
    PROVE  /\ CommittedGuard(n) \in Nat
           /\ CommittedGuard(n) % 2 = 0
           /\ CommittedGuard(n) \in {n, n + 1}
           /\ CommittedGuard(n + 2) = CommittedGuard(n) + 2
  BY SMT DEF CommittedGuard

\* Within one slot guards and sample numbers are ordered alike.
LEMMA SlotAndGuardIdentify ==
    ASSUME NEW a \in Nat, a >= 1, NEW b \in Nat, b >= 1, SlotOf(a) = SlotOf(b)
    PROVE  /\ CommittedGuard(a) = CommittedGuard(b) => a = b
           /\ CommittedGuard(a) <= CommittedGuard(b) => a <= b
  BY SMT DEF SlotOf, CommittedGuard

\* What publish stores fits its fields and is never rejected for its content.
LEMMA SampleFacts ==
    ASSUME NEW s \in Sequences
    PROVE  /\ Sample(s) \in [Fields -> Words]
           /\ Sample(s)[SampleSequence] = s
           /\ Sample(s)[State] \in SampleStates
           /\ Sample(s)[Encoding] = UnsignedMicroUnits
           /\ Sample(s) # Nothing
  <1>1. Calls[s] \in [state : SampleStates, time : Words, value : Words]
    BY CallsAssumption
  <1>2. s \in Words /\ 0 \in Words /\ SampleStates \subseteq Words
        /\ UnsignedMicroUnits \in Words /\ s # 0
    BY WordAssumption DEF Words, Sequences, SampleStates, Valid, Unavailable, Stale,
                          UnsignedMicroUnits
  <1>3. ASSUME NEW k \in Fields
        PROVE  Sample(s)[k] \in Words
    BY <1>1, <1>2 DEF Sample, Fields, SampleSequence, MonotonicTime, State, Encoding, MetricValue
  <1>4. Sample(s) \in [Fields -> Words]
    BY <1>3 DEF Sample
  <1>5. /\ Sample(s)[SampleSequence] = s
        /\ Sample(s)[State] = Calls[s].state
        /\ Sample(s)[Encoding] = UnsignedMicroUnits
    BY DEF Sample, Fields, SampleSequence, MonotonicTime, State, Encoding, MetricValue
  <1>6. Nothing[SampleSequence] = 0
    BY DEF Nothing, Fields, SampleSequence
  <1> QED
    BY <1>1, <1>2, <1>4, <1>5, <1>6
-----------------------------------------------------------------------------
(* The inductive invariant.                                                *)

\* The slot not being written holds the sample before the current one, so
\* its guard is known whatever the producer does; the other guard is one
\* ahead of the even value it had while a publication is open.
WriterInv ==
    /\ guard[SlotOf(next + 1)] = CommittedGuard(next + 1) - 2
    /\ guard[SlotOf(next)] \in {CommittedGuard(next) - 2, CommittedGuard(next) - 1}
    /\ phase = 0 => guard[SlotOf(next)] = CommittedGuard(next) - 2
    /\ phase \in 1..6 =>
        /\ guard[SlotOf(next)] = CommittedGuard(next) - 1
        /\ next < MaxWord
        /\ \A k \in Fields : k < phase => data[SlotOf(next)][k] = Sample(next)[k]

\* A slot whose guard is even holds one whole sample.
SlotInv ==
    \A i \in Slots : guard[i] # 0 /\ guard[i] % 2 = 0 =>
        \E s \in 1..(next - 1) :
            SlotOf(s) = i /\ guard[i] = CommittedGuard(s) /\ data[i] = Sample(s)

\* As long as the guard is what a reader saw first, what it has copied is
\* still what the slot holds.
ReaderInv ==
    \A r \in Readers : reader[r].at # 0 =>
        LET i == reader[r].slot
        IN  /\ reader[r].first # 0 /\ reader[r].first % 2 = 0
            /\ reader[r].first <= guard[i]
            /\ accepted[r][i] # Nothing =>
                CommittedGuard(accepted[r][i][SampleSequence]) <= reader[r].first
            /\ guard[i] = reader[r].first =>
                \A k \in Fields : k < reader[r].at => reader[r].copy[k] = data[i][k]

\* What was accepted is a published sample of that slot, not newer than it.
AcceptedInv ==
    \A r \in Readers, i \in Slots : accepted[r][i] # Nothing =>
        \E s \in 1..(next - 1) :
            /\ accepted[r][i] = Sample(s)
            /\ SlotOf(s) = i
            /\ CommittedGuard(s) <= guard[i]

IInv == TypeOK /\ WriterInv /\ SlotInv /\ ReaderInv /\ AcceptedInv

LEMMA InitInv == Init => IInv
  <1> SUFFICES ASSUME Init PROVE IInv
    OBVIOUS
  <1>1. 0 \in Words /\ Nothing \in [Fields -> Words] /\ 1 \in 1..MaxWord
    BY WordAssumption DEF Words, Nothing
  <1>2. TypeOK
    BY <1>1 DEF Init, TypeOK, Detached, Idle, Slots
  <1>3. WriterInv
    BY DEF Init, WriterInv, SlotOf, CommittedGuard, Slots, Detached
  <1>4. SlotInv /\ ReaderInv /\ AcceptedInv
    BY DEF Init, SlotInv, ReaderInv, AcceptedInv, Idle
  <1> QED
    BY <1>2, <1>3, <1>4 DEF IInv
-----------------------------------------------------------------------------
(* What the steps of the producer and of the readers share.                *)

\* Where the producer is about to write, and where it is not.
LEMMA SlotsOfNext ==
    ASSUME TypeOK
    PROVE  /\ next \in Nat /\ next >= 1
           /\ SlotOf(next) \in Slots /\ SlotOf(next + 1) \in Slots
           /\ SlotOf(next + 1) # SlotOf(next)
           /\ Slots = {SlotOf(next), SlotOf(next + 1)}
  <1>1. next \in Nat /\ next >= 1
    BY WordAssumption DEF TypeOK
  <1>2. SlotOf(next) \in Slots /\ SlotOf(next + 1) = 1 - SlotOf(next)
    BY <1>1, SlotArithmetic
  <1> QED
    BY <1>1, <1>2 DEF Slots

\* When all guards are zero nobody has read anything.
LEMMA AttachInv == IInv /\ Attach => IInv'
  <1> SUFFICES ASSUME IInv, Attach PROVE IInv'
    OBVIOUS
  <1> USE DEF IInv
  <1>1. TypeOK'
    BY WordAssumption DEF TypeOK, Attach, readerVars
  <1>2. WriterInv'
    BY DEF WriterInv, Attach, SlotOf, CommittedGuard, Slots
  <1>3. SlotInv'
    BY DEF SlotInv, Attach
  <1>4. \A i \in Slots, r \in Readers : accepted[r][i] = Nothing
    <2> SUFFICES ASSUME NEW i \in Slots, NEW r \in Readers, accepted[r][i] # Nothing
                 PROVE  FALSE
      OBVIOUS
    <2>1. PICK s \in 1..(next - 1) : CommittedGuard(s) <= guard[i]
      BY DEF AcceptedInv
    <2>2. CommittedGuard(s) \in {s, s + 1} /\ s \in Nat /\ s >= 1
      BY GuardArithmetic, WordAssumption DEF TypeOK
    <2> QED
      BY <2>1, <2>2 DEF Attach
  <1>5. ReaderInv' /\ AcceptedInv'
    BY <1>4 DEF ReaderInv, AcceptedInv, Attach, readerVars
  <1> QED
    BY <1>1, <1>2, <1>3, <1>5

LEMMA BeginPublishInv == IInv /\ BeginPublish => IInv'
  <1> SUFFICES ASSUME IInv, BeginPublish PROVE IInv'
    OBVIOUS
  <1> USE DEF IInv
  <1> DEFINE i == SlotOf(next)
  <1>0. /\ next \in Nat /\ next >= 1 /\ next < MaxWord
        /\ i \in Slots /\ SlotOf(next + 1) \in Slots /\ SlotOf(next + 1) # i
    BY SlotsOfNext, WordAssumption DEF BeginPublish, TypeOK
  <1>1. /\ guard' = [guard EXCEPT ![i] = guard[i] + 1]
        /\ guard[i] \in Nat /\ guard[i] % 2 = 0 /\ guard[i] + 1 \in Words
        /\ guard \in [Slots -> Words]
    BY <1>0, WordAssumption DEF BeginPublish, TypeOK, Words
  <1>2. TypeOK'
    <2>1. guard' \in [Slots -> Words]
      BY <1>1
    <2> QED
      BY <2>1 DEF TypeOK, BeginPublish, readerVars
  <1>3. CommittedGuard(next) \in Nat
    BY <1>0, GuardArithmetic
  <1>4. WriterInv'
    BY <1>0, <1>1, <1>3 DEF WriterInv, BeginPublish, Fields
  <1>5. (guard[i] + 1) % 2 = 1
    BY <1>1
  <1>6. SlotInv'
    BY <1>1, <1>5 DEF SlotInv, BeginPublish
  <1>7. ReaderInv'
    <2> SUFFICES ASSUME NEW r \in Readers, reader[r].at # 0
                 PROVE  LET j == reader[r].slot
                        IN  /\ reader[r].first # 0 /\ reader[r].first % 2 = 0
                            /\ reader[r].first <= guard'[j]
                            /\ accepted[r][j] # Nothing =>
                               CommittedGuard(accepted[r][j][SampleSequence]) <= reader[r].first
                            /\ guard'[j] = reader[r].first =>
                               \A k \in Fields : k < reader[r].at => reader[r].copy[k] = data[j][k]
      BY DEF ReaderInv, BeginPublish, readerVars
    <2>1. reader[r].slot \in Slots /\ reader[r].first \in Nat
      BY WordAssumption DEF TypeOK, Words
    <2>2. CASE reader[r].slot = i
      BY <1>1, <1>5, <2>1, <2>2 DEF ReaderInv
    <2>3. CASE reader[r].slot # i
      BY <1>1, <2>1, <2>3 DEF ReaderInv
    <2> QED
      BY <2>2, <2>3
  <1>8. AcceptedInv'
    <2> SUFFICES ASSUME NEW r \in Readers, NEW j \in Slots, accepted[r][j] # Nothing
                 PROVE  \E s \in 1..(next - 1) :
                          /\ accepted[r][j] = Sample(s) /\ SlotOf(s) = j
                          /\ CommittedGuard(s) <= guard'[j]
      BY DEF AcceptedInv, BeginPublish, readerVars
    <2>1. PICK s \in 1..(next - 1) :
                          /\ accepted[r][j] = Sample(s) /\ SlotOf(s) = j
                          /\ CommittedGuard(s) <= guard[j]
      BY DEF AcceptedInv
    <2>2. CommittedGuard(s) \in Nat
      BY <1>0, GuardArithmetic
    <2>3. guard[j] \in Nat /\ guard'[j] \in {guard[j], guard[j] + 1}
      BY <1>1, WordAssumption DEF Words
    <2>4. CommittedGuard(s) <= guard'[j]
      BY <2>1, <2>2, <2>3
    <2> QED
      BY <2>1, <2>4
  <1> QED
    BY <1>2, <1>4, <1>6, <1>7, <1>8

LEMMA StoreFieldInv == IInv /\ StoreField => IInv'
  <1> SUFFICES ASSUME IInv, StoreField PROVE IInv'
    OBVIOUS
  <1> USE DEF IInv
  <1> DEFINE i == SlotOf(next)
  <1>0. /\ next \in Nat /\ next >= 1 /\ next \in Sequences
        /\ i \in Slots /\ SlotOf(next + 1) \in Slots /\ SlotOf(next + 1) # i
    BY SlotsOfNext, WordAssumption DEF StoreField, TypeOK, WriterInv, Sequences, Fields
  <1>1. /\ phase \in Fields /\ phase' = phase + 1
        /\ data' = [data EXCEPT ![i] = [data[i] EXCEPT ![phase] = Sample(next)[phase]]]
        /\ data \in [Slots -> [Fields -> Words]]
        /\ Sample(next)[phase] \in Words
    BY <1>0, SampleFacts DEF StoreField, TypeOK
  <1>2. TypeOK'
    BY <1>0, <1>1 DEF TypeOK, StoreField, readerVars, Fields
  <1>3. guard[i] = CommittedGuard(next) - 1
    BY <1>1 DEF WriterInv, Fields
  <1>4. guard[i] % 2 = 1
    <2>1. CommittedGuard(next) \in Nat /\ CommittedGuard(next) % 2 = 0
      BY <1>0, GuardArithmetic
    <2> QED
      BY <1>3, <2>1
  <1>5. \A j \in Slots : j # i => data'[j] = data[j]
    BY <1>1
  <1>6. WriterInv'
    <2>1. ASSUME NEW k \in Fields, k < phase + 1
          PROVE  data'[i][k] = Sample(next)[k]
      BY <1>0, <1>1, <2>1 DEF WriterInv, Fields
    <2> QED
      BY <1>0, <1>1, <2>1 DEF WriterInv, StoreField, Fields
  <1>7. SlotInv'
    BY <1>4, <1>5 DEF SlotInv, StoreField
  <1>8. ReaderInv'
    <2>1. ASSUME NEW r \in Readers, reader[r].at # 0
          PROVE  reader[r].slot \in Slots
      BY DEF TypeOK
    <2>2. ASSUME NEW r \in Readers, reader[r].at # 0, guard[reader[r].slot] = reader[r].first
          PROVE  data'[reader[r].slot] = data[reader[r].slot]
      BY <1>4, <1>5, <2>1, <2>2 DEF ReaderInv
    <2> QED
      BY <2>1, <2>2 DEF ReaderInv, StoreField, readerVars
  <1>9. AcceptedInv'
    BY DEF AcceptedInv, StoreField, readerVars
  <1> QED
    BY <1>2, <1>6, <1>7, <1>8, <1>9

\* The slot that was open now holds the sample, whole.
LEMMA CommitInv == IInv /\ Commit => IInv'
  <1> SUFFICES ASSUME IInv, Commit PROVE IInv'
    OBVIOUS
  <1> USE DEF IInv
  <1> DEFINE i == SlotOf(next)
  <1>0. /\ next \in Nat /\ next >= 1 /\ next < MaxWord /\ next \in Sequences
        /\ i \in Slots /\ SlotOf(next + 1) \in Slots /\ SlotOf(next + 1) # i
    BY SlotsOfNext, WordAssumption DEF Commit, TypeOK, WriterInv, Sequences
  <1>1. /\ CommittedGuard(next) \in Nat /\ CommittedGuard(next) % 2 = 0
        /\ CommittedGuard(next) \in {next, next + 1}
        /\ CommittedGuard(next + 2) = CommittedGuard(next) + 2
        /\ SlotOf(next + 2) = i
    BY <1>0, GuardArithmetic, SlotArithmetic
  <1>2. /\ guard' = [guard EXCEPT ![i] = guard[i] + 1]
        /\ guard[i] = CommittedGuard(next) - 1 /\ guard'[i] = CommittedGuard(next)
        /\ guard \in [Slots -> Words]
    BY <1>0, <1>1 DEF Commit, TypeOK, WriterInv
  <1>3. CommittedGuard(next) \in Words
    BY <1>0, <1>1, WordAssumption DEF Words
  <1>4. TypeOK'
    <2>1. guard' \in [Slots -> Words]
      BY <1>1, <1>2, <1>3
    <2>2. next' \in 1..MaxWord
      BY <1>0, WordAssumption DEF Commit
    <2> QED
      BY <2>1, <2>2 DEF TypeOK, Commit, readerVars
  <1>5. WriterInv'
    <2>1. next' = next + 1 /\ phase' = 0 /\ next' + 1 = next + 2
      BY <1>0 DEF Commit
    <2>2. guard'[SlotOf(next + 2)] = CommittedGuard(next + 2) - 2
      BY <1>1, <1>2
    <2>3. guard'[SlotOf(next + 1)] = CommittedGuard(next + 1) - 2
      BY <1>0, <1>2 DEF WriterInv
    <2> QED
      BY <2>1, <2>2, <2>3 DEF WriterInv
  <1>6. data[i] = Sample(next)
    <2>1. \A k \in Fields : data[i][k] = Sample(next)[k]
      BY DEF WriterInv, Commit, Fields
    <2>2. data[i] \in [Fields -> Words] /\ Sample(next) \in [Fields -> Words]
      BY <1>0, SampleFacts DEF TypeOK
    <2> QED
      BY <2>1, <2>2
  <1>7. 1..(next - 1) \subseteq 1..(next' - 1) /\ next \in 1..(next' - 1)
    BY <1>0 DEF Commit
  <1>8. SlotInv'
    <2> SUFFICES ASSUME NEW j \in Slots, guard'[j] # 0, guard'[j] % 2 = 0
                 PROVE  \E s \in 1..(next' - 1) : SlotOf(s) = j
                            /\ guard'[j] = CommittedGuard(s) /\ data[j] = Sample(s)
      BY DEF SlotInv, Commit
    <2>1. CASE j = i
      BY <1>2, <1>6, <1>7, <2>1
    <2>2. CASE j # i
      BY <1>2, <1>7, <2>2 DEF SlotInv
    <2> QED
      BY <2>1, <2>2
  <1>9. ReaderInv'
    <2> SUFFICES ASSUME NEW r \in Readers, reader[r].at # 0
                 PROVE  LET j == reader[r].slot
                        IN  /\ reader[r].first # 0 /\ reader[r].first % 2 = 0
                            /\ reader[r].first <= guard'[j]
                            /\ accepted[r][j] # Nothing =>
                               CommittedGuard(accepted[r][j][SampleSequence]) <= reader[r].first
                            /\ guard'[j] = reader[r].first =>
                               \A k \in Fields : k < reader[r].at => reader[r].copy[k] = data[j][k]
      BY DEF ReaderInv, Commit, readerVars
    <2>1. reader[r].slot \in Slots /\ reader[r].first \in Nat
      BY WordAssumption DEF TypeOK, Words
    <2>2. CASE reader[r].slot = i
      BY <1>1, <1>2, <2>1, <2>2 DEF ReaderInv
    <2>3. CASE reader[r].slot # i
      BY <1>2, <2>1, <2>3 DEF ReaderInv
    <2> QED
      BY <2>2, <2>3
  <1>10. AcceptedInv'
    <2> SUFFICES ASSUME NEW r \in Readers, NEW j \in Slots, accepted[r][j] # Nothing
                 PROVE  \E s \in 1..(next' - 1) :
                          /\ accepted[r][j] = Sample(s) /\ SlotOf(s) = j
                          /\ CommittedGuard(s) <= guard'[j]
      BY DEF AcceptedInv, Commit, readerVars
    <2>1. PICK s \in 1..(next - 1) :
                          /\ accepted[r][j] = Sample(s) /\ SlotOf(s) = j
                          /\ CommittedGuard(s) <= guard[j]
      BY DEF AcceptedInv
    <2>2. CommittedGuard(s) \in Nat
      BY <1>0, GuardArithmetic
    <2>3. guard[j] \in Nat /\ guard'[j] \in {guard[j], guard[j] + 1}
      BY <1>2, WordAssumption DEF Words
    <2>4. CommittedGuard(s) <= guard'[j]
      BY <2>1, <2>2, <2>3
    <2> QED
      BY <1>7, <2>1, <2>4
  <1> QED
    BY <1>4, <1>5, <1>8, <1>9, <1>10

LEMMA ProducerDiesInv == IInv /\ ProducerDies => IInv'
  <1> SUFFICES ASSUME IInv, ProducerDies PROVE IInv'
    OBVIOUS
  <1> USE DEF IInv, ProducerDies, readerVars
  <1>1. TypeOK'
    BY DEF TypeOK, Detached
  <1>2. WriterInv'
    BY DEF WriterInv, Detached
  <1>3. SlotInv' /\ ReaderInv' /\ AcceptedInv'
    BY DEF SlotInv, ReaderInv, AcceptedInv
  <1> QED
    BY <1>1, <1>2, <1>3
-----------------------------------------------------------------------------
(* The readers change nothing but their own place and what they accepted.  *)

LEMMA LoadFirstGuardInv ==
    ASSUME IInv, NEW r \in Readers, NEW i \in Slots, LoadFirstGuard(r, i)
    PROVE  IInv'
  <1> USE DEF IInv, LoadFirstGuard, producerVars
  <1>1. guard[i] \in Words /\ Nothing \in [Fields -> Words] /\ 0 \in Words
    BY WordAssumption DEF TypeOK, Nothing, Words
  <1>2. TypeOK'
    BY <1>1 DEF TypeOK
  <1>3. WriterInv' /\ SlotInv' /\ AcceptedInv'
    BY DEF WriterInv, SlotInv, AcceptedInv
  <1>4. accepted[r][i] # Nothing => CommittedGuard(accepted[r][i][SampleSequence]) <= guard[i]
    <2> SUFFICES ASSUME accepted[r][i] # Nothing
                 PROVE  CommittedGuard(accepted[r][i][SampleSequence]) <= guard[i]
      OBVIOUS
    <2>1. PICK s \in 1..(next - 1) : accepted[r][i] = Sample(s) /\ CommittedGuard(s) <= guard[i]
      BY DEF AcceptedInv
    <2>2. s \in Sequences
      BY WordAssumption DEF TypeOK, Sequences
    <2> QED
      BY <2>1, <2>2, SampleFacts
  <1>5. ReaderInv'
    <2> SUFFICES ASSUME NEW q \in Readers, reader'[q].at # 0
                 PROVE  LET j == reader'[q].slot
                        IN  /\ reader'[q].first # 0 /\ reader'[q].first % 2 = 0
                            /\ reader'[q].first <= guard[j]
                            /\ accepted[q][j] # Nothing =>
                               CommittedGuard(accepted[q][j][SampleSequence]) <= reader'[q].first
                            /\ guard[j] = reader'[q].first =>
                               \A k \in Fields : k < reader'[q].at => reader'[q].copy[k] = data[j][k]
      BY DEF ReaderInv
    <2>1. CASE q = r
      <3>1. reader'[q] = [at |-> 1, slot |-> i, first |-> guard[i], copy |-> Nothing]
        BY <2>1 DEF TypeOK
      <3>2. guard[i] <= guard[i] /\ \A k \in Fields : ~(k < 1)
        BY <1>1, WordAssumption DEF Words, Fields
      <3> QED
        BY <1>4, <2>1, <3>1, <3>2
    <2>2. CASE q # r
      BY <2>2 DEF ReaderInv
    <2> QED
      BY <2>1, <2>2
  <1> QED
    BY <1>2, <1>3, <1>5

LEMMA LoadFieldInv ==
    ASSUME IInv, NEW r \in Readers, LoadField(r)
    PROVE  IInv'
  <1> USE DEF IInv, LoadField, producerVars
  <1> DEFINE at == reader[r].at  i == reader[r].slot
  <1>1. /\ at \in Fields /\ i \in Slots /\ data[i][at] \in Words
        /\ reader[r] \in [at : 0..6, slot : Slots, first : Words, copy : [Fields -> Words]]
    BY DEF TypeOK
  <1>2. reader' = [reader EXCEPT ![r] =
                    [at |-> at + 1, slot |-> i, first |-> reader[r].first,
                     copy |-> [reader[r].copy EXCEPT ![at] = data[i][at]]]]
    BY <1>1 DEF TypeOK
  <1>3. TypeOK'
    <2>1. at + 1 \in 0..6 /\ [reader[r].copy EXCEPT ![at] = data[i][at]] \in [Fields -> Words]
      BY <1>1 DEF Fields
    <2> QED
      BY <1>1, <1>2, <2>1 DEF TypeOK
  <1>4. WriterInv' /\ SlotInv' /\ AcceptedInv'
    BY DEF WriterInv, SlotInv, AcceptedInv
  <1>5. ReaderInv'
    <2> SUFFICES ASSUME NEW q \in Readers, reader'[q].at # 0
                 PROVE  LET j == reader'[q].slot
                        IN  /\ reader'[q].first # 0 /\ reader'[q].first % 2 = 0
                            /\ reader'[q].first <= guard[j]
                            /\ accepted[q][j] # Nothing =>
                               CommittedGuard(accepted[q][j][SampleSequence]) <= reader'[q].first
                            /\ guard[j] = reader'[q].first =>
                               \A k \in Fields : k < reader'[q].at => reader'[q].copy[k] = data[j][k]
      BY DEF ReaderInv
    <2>1. CASE q = r
      <3>1. /\ reader'[r].slot = i /\ reader'[r].first = reader[r].first
            /\ reader'[r].at = at + 1
            /\ reader'[r].copy = [reader[r].copy EXCEPT ![at] = data[i][at]]
        BY <1>1, <1>2 DEF TypeOK
      <3>2. at # 0
        BY <1>1 DEF Fields
      <3>3. ASSUME guard[i] = reader[r].first, NEW k \in Fields, k < at + 1
            PROVE  reader'[r].copy[k] = data[i][k]
        BY <1>1, <3>1, <3>2, <3>3 DEF ReaderInv, Fields
      <3> QED
        BY <2>1, <3>1, <3>2, <3>3 DEF ReaderInv
    <2>2. CASE q # r
      BY <1>2, <2>2 DEF ReaderInv
    <2> QED
      BY <2>1, <2>2
  <1> QED
    BY <1>3, <1>4, <1>5

\* A reader that gives up, or ends its call, has no candidate.
LEMMA IdleReaderInv ==
    ASSUME IInv, NEW r \in Readers, reader' = [reader EXCEPT ![r] = Idle],
           UNCHANGED <<producerVars, accepted>>
    PROVE  IInv'
  <1> USE DEF IInv, producerVars
  <1>1. Idle \in [at : 0..6, slot : Slots, first : Words, copy : [Fields -> Words]]
    BY WordAssumption DEF Idle, Nothing, Words, Slots
  <1>2. TypeOK'
    BY <1>1 DEF TypeOK
  <1>3. \A q \in Readers : reader'[q] = reader[q] \/ reader'[q].at = 0
    BY DEF TypeOK, Idle
  <1>4. WriterInv' /\ SlotInv' /\ AcceptedInv' /\ ReaderInv'
    BY <1>3 DEF WriterInv, SlotInv, AcceptedInv, ReaderInv
  <1> QED
    BY <1>2, <1>4

\* An acceptable candidate is the sample the slot holds, and not an older
\* one than the reader took from the slot before.
LEMMA CandidateIsSample ==
    ASSUME IInv, NEW r \in Readers, reader[r].at = 6,
           Acceptable(reader[r].slot, reader[r].first, guard[reader[r].slot], reader[r].copy)
    PROVE  LET i == reader[r].slot
           IN  \E s \in 1..(next - 1) :
                /\ reader[r].copy = Sample(s) /\ SlotOf(s) = i
                /\ CommittedGuard(s) = guard[i]
                /\ accepted[r][i][SampleSequence] <= s
  <1> USE DEF IInv
  <1> DEFINE i == reader[r].slot
  <1>1. i \in Slots /\ reader[r].copy \in [Fields -> Words] /\ data[i] \in [Fields -> Words]
    BY DEF TypeOK
  <1>2. guard[i] = reader[r].first /\ guard[i] # 0 /\ guard[i] % 2 = 0
    BY DEF Acceptable, ReaderInv
  <1>3. reader[r].copy = data[i]
    <2>1. \A k \in Fields : reader[r].copy[k] = data[i][k]
      BY <1>2 DEF ReaderInv, Fields
    <2> QED
      BY <1>1, <2>1
  <1>4. PICK s \in 1..(next - 1) :
            SlotOf(s) = i /\ guard[i] = CommittedGuard(s) /\ data[i] = Sample(s)
    BY <1>1, <1>2 DEF SlotInv
  <1>5. accepted[r][i][SampleSequence] <= s
    <2>1. CASE accepted[r][i] = Nothing
      BY <2>1, WordAssumption DEF Nothing, Fields, SampleSequence, TypeOK
    <2>2. CASE accepted[r][i] # Nothing
      <3>1. PICK t \in 1..(next - 1) : accepted[r][i] = Sample(t) /\ SlotOf(t) = i
        BY <1>1, <2>2 DEF AcceptedInv
      <3>2. t \in Sequences /\ t \in Nat /\ t >= 1 /\ s \in Nat /\ s >= 1
        BY WordAssumption DEF TypeOK, Sequences
      <3>3. accepted[r][i][SampleSequence] = t
        BY <3>1, <3>2, SampleFacts
      <3>4. CommittedGuard(t) <= CommittedGuard(s)
        <4>1. CommittedGuard(accepted[r][i][SampleSequence]) <= reader[r].first
          BY <2>2 DEF ReaderInv
        <4> QED
          BY <1>2, <1>4, <3>3, <4>1
      <3> QED
        BY <1>4, <3>1, <3>2, <3>3, <3>4, SlotAndGuardIdentify
    <2> QED
      BY <2>1, <2>2
  <1> QED
    BY <1>3, <1>4, <1>5

LEMMA LoadSecondGuardInv ==
    ASSUME IInv, NEW r \in Readers, LoadSecondGuard(r)
    PROVE  IInv'
  <1> DEFINE i == reader[r].slot
  <1> USE DEF IInv
  <1>1. CASE ~Acceptable(i, reader[r].first, guard[i], reader[r].copy)
    BY <1>1, IdleReaderInv DEF LoadSecondGuard
  <1>2. CASE Acceptable(i, reader[r].first, guard[i], reader[r].copy)
    <2>1. PICK s \in 1..(next - 1) :
            reader[r].copy = Sample(s) /\ SlotOf(s) = i /\ CommittedGuard(s) = guard[i]
      BY <1>2, CandidateIsSample DEF LoadSecondGuard
    <2>2. /\ reader' = [reader EXCEPT ![r] = Idle]
          /\ accepted' = [accepted EXCEPT ![r] = [accepted[r] EXCEPT ![i] = reader[r].copy]]
          /\ UNCHANGED producerVars
      BY <1>2 DEF LoadSecondGuard
    <2>3. /\ Idle \in [at : 0..6, slot : Slots, first : Words, copy : [Fields -> Words]]
          /\ i \in Slots /\ reader[r].copy \in [Fields -> Words] /\ guard[i] \in Nat
      BY WordAssumption DEF Idle, Nothing, Words, Slots, TypeOK
    <2>4. TypeOK'
      BY <2>2, <2>3 DEF TypeOK, producerVars
    <2>5. WriterInv' /\ SlotInv'
      BY <2>2 DEF WriterInv, SlotInv, producerVars
    <2>6. \A q \in Readers :
            \/ reader'[q].at = 0
            \/ reader'[q] = reader[q] /\ accepted'[q] = accepted[q]
      BY <2>2 DEF TypeOK, Idle
    <2>7. ReaderInv'
      BY <2>2, <2>6 DEF ReaderInv, producerVars
    <2>8. AcceptedInv'
      <3> SUFFICES ASSUME NEW q \in Readers, NEW j \in Slots, accepted'[q][j] # Nothing
                   PROVE  \E t \in 1..(next - 1) :
                            /\ accepted'[q][j] = Sample(t) /\ SlotOf(t) = j
                            /\ CommittedGuard(t) <= guard[j]
        BY <2>2 DEF AcceptedInv, producerVars
      <3>1. CASE q = r /\ j = i
        <4>1. accepted'[q][j] = reader[r].copy
          BY <2>2, <3>1 DEF TypeOK
        <4> QED
          BY <2>1, <2>3, <3>1, <4>1
      <3>2. CASE ~(q = r /\ j = i)
        <4>1. accepted'[q][j] = accepted[q][j]
          BY <2>2, <3>2 DEF TypeOK
        <4> QED
          BY <4>1 DEF AcceptedInv
      <3> QED
        BY <3>1, <3>2
    <2> QED
      BY <2>4, <2>5, <2>7, <2>8
  <1> QED
    BY <1>1, <1>2
-----------------------------------------------------------------------------
LEMMA NextInv == IInv /\ [Next]_vars => IInv'
  <1> SUFFICES ASSUME IInv, [Next]_vars PROVE IInv'
    OBVIOUS
  <1>1. CASE Producer
    BY <1>1, AttachInv, BeginPublishInv, StoreFieldInv, CommitInv, ProducerDiesInv DEF Producer
  <1>2. ASSUME NEW r \in Readers, Reader(r)
        PROVE  IInv'
    <2>1. ASSUME NEW i \in Slots, LoadFirstGuard(r, i) PROVE IInv'
      BY <2>1, LoadFirstGuardInv
    <2>2. CASE LoadField(r)
      BY <2>2, LoadFieldInv
    <2>3. CASE LoadSecondGuard(r)
      BY <2>3, LoadSecondGuardInv
    <2>4. CASE Abandon(r)
      BY <2>4, IdleReaderInv DEF Abandon
    <2> QED
      BY <1>2, <2>1, <2>2, <2>3, <2>4 DEF Reader
  <1>3. CASE UNCHANGED vars
    <2> USE <1>3 DEF vars, producerVars, readerVars
    <2>1. TypeOK' /\ WriterInv' /\ SlotInv'
      BY DEF IInv, TypeOK, WriterInv, SlotInv
    <2>2. ReaderInv' /\ AcceptedInv'
      BY DEF IInv, ReaderInv, AcceptedInv
    <2> QED
      BY <2>1, <2>2 DEF IInv
  <1> QED
    BY <1>1, <1>2, <1>3 DEF Next

\* The strengthened invariant holds of every behaviour of the ring.
THEOREM RingInvariant == Spec => []IInv
  BY InitInv, NextInv, PTL DEF Spec

\* Every field of the mapping, and the producer's counter, keeps its width.
THEOREM RingTypeCorrect == Spec => []TypeOK
  <1>1. IInv => TypeOK
    BY DEF IInv
  <1> QED
    BY <1>1, RingInvariant, PTL

\* readSlot never accepts fields of two samples, however its loads and the
\* stores of publish interleave.
THEOREM ReadersNeverTear == Spec => []NoTornSample
  <1>1. IInv => NoTornSample
    <2> SUFFICES ASSUME IInv, NEW r \in Readers, NEW i \in Slots, accepted[r][i] # Nothing
                 PROVE  /\ accepted[r][i][SampleSequence] \in 1..(next - 1)
                        /\ accepted[r][i] = Sample(accepted[r][i][SampleSequence])
      BY DEF NoTornSample
    <2>1. PICK s \in 1..(next - 1) : accepted[r][i] = Sample(s)
      BY DEF IInv, AcceptedInv
    <2>2. s \in Sequences
      BY WordAssumption DEF IInv, TypeOK, Sequences
    <2> QED
      BY <2>1, <2>2, SampleFacts
  <1> QED
    BY <1>1, RingInvariant, PTL

\* A producer that is writing, or died writing, leaves the newest committed
\* sample in a state that readSlot accepts.
THEOREM NewestSampleSurvives == Spec => []LatestSampleReadable
  <1>1. IInv => LatestSampleReadable
    <2> SUFFICES ASSUME IInv, next > 1
                 PROVE  LET i == SlotOf(next - 1)
                        IN  /\ data[i] = Sample(next - 1)
                            /\ Acceptable(i, guard[i], guard[i], data[i])
      BY DEF LatestSampleReadable
    <2> DEFINE n == next - 1  i == SlotOf(n)
    <2>1. n \in Nat /\ n >= 1 /\ n \in Sequences /\ n # MaxWord /\ n + 2 = next + 1
      BY WordAssumption DEF IInv, TypeOK, Sequences
    <2>2. i \in Slots /\ SlotOf(next + 1) = i /\ CommittedGuard(next + 1) = CommittedGuard(n) + 2
      BY <2>1, SlotArithmetic, GuardArithmetic
    <2>3. CommittedGuard(n) \in Nat /\ CommittedGuard(n) % 2 = 0 /\ CommittedGuard(n) # 0
      <3>1. /\ CommittedGuard(n) \in Nat /\ CommittedGuard(n) % 2 = 0
            /\ CommittedGuard(n) \in {n, n + 1}
        BY <2>1, GuardArithmetic
      <3> QED
        BY <2>1, <3>1
    <2>4. guard[i] = CommittedGuard(n)
      BY <2>2, <2>3 DEF IInv, WriterInv
    <2>5. PICK s \in 1..(next - 1) :
              SlotOf(s) = i /\ guard[i] = CommittedGuard(s) /\ data[i] = Sample(s)
      BY <2>2, <2>3, <2>4 DEF IInv, SlotInv
    <2>6. s \in Nat /\ s >= 1
      BY <2>1
    <2>7. s = n
      BY <2>1, <2>4, <2>5, <2>6, SlotAndGuardIdentify
    <2> QED
      BY <2>1, <2>3, <2>4, <2>5, <2>7, SampleFacts DEF Acceptable
  <1> QED
    BY <1>1, RingInvariant, PTL

\* publish is refused for lack of numbers and for nothing else, and the
\* guards never come near the end of their range.
THEOREM OnlyExhaustionStopsPublish == Spec => []OnlyExhaustionRefuses
  <1>1. IInv => OnlyExhaustionRefuses
    <2> SUFFICES ASSUME IInv, phase = 0, next # MaxWord
                 PROVE  guard[SlotOf(next)] % 2 = 0 /\ guard[SlotOf(next)] <= MaxWord - 3
      BY DEF OnlyExhaustionRefuses
    <2>1. next \in Nat /\ next >= 1 /\ next < MaxWord
      BY WordAssumption DEF IInv, TypeOK
    <2>2. /\ CommittedGuard(next) \in Nat /\ CommittedGuard(next) % 2 = 0
          /\ CommittedGuard(next) \in {next, next + 1}
      BY <2>1, GuardArithmetic
    <2>3. guard[SlotOf(next)] = CommittedGuard(next) - 2
      BY DEF IInv, WriterInv
    <2>4. CommittedGuard(next) <= MaxWord - 1
      BY <2>1, <2>2, WordAssumption
    <2> QED
      BY <2>1, <2>2, <2>3, <2>4, WordAssumption
  <1> QED
    BY <1>1, RingInvariant, PTL

\* A reader that polls one slot sees its samples in the order of publication.
THEOREM SamplesInOrder == Spec => SlotNeverGoesBack
  <1> DEFINE Ordered == \A r \in Readers, i \in Slots :
                accepted'[r][i][SampleSequence] >= accepted[r][i][SampleSequence]
  <1>1. ASSUME IInv, [Next]_vars
        PROVE  [Ordered]_vars
    <2>1. \A r \in Readers, i \in Slots : accepted[r][i][SampleSequence] \in Nat
      BY <1>1, WordAssumption DEF IInv, TypeOK, Words, Fields, SampleSequence
    <2>2. CASE accepted' = accepted
      BY <2>1, <2>2
    <2>3. ASSUME NEW q \in Readers, LoadSecondGuard(q), accepted' # accepted
          PROVE  Ordered
      <3> DEFINE j == reader[q].slot
      <3>1. accepted' = [accepted EXCEPT ![q] = [accepted[q] EXCEPT ![j] = reader[q].copy]]
        BY <2>3 DEF LoadSecondGuard
      <3>2. PICK s \in 1..(next - 1) :
                reader[q].copy = Sample(s) /\ accepted[q][j][SampleSequence] <= s
        BY <1>1, <2>3, CandidateIsSample DEF LoadSecondGuard
      <3>3. s \in Sequences /\ j \in Slots
        BY <1>1, WordAssumption DEF IInv, TypeOK, Sequences
      <3>4. reader[q].copy[SampleSequence] >= accepted[q][j][SampleSequence]
        BY <2>1, <3>2, <3>3, SampleFacts
      <3>5. ASSUME NEW r \in Readers, NEW i \in Slots
            PROVE  accepted'[r][i][SampleSequence] >= accepted[r][i][SampleSequence]
        <4>1. CASE r = q /\ i = j
          <5>1. accepted'[r][i] = reader[q].copy
            BY <1>1, <3>1, <4>1 DEF IInv, TypeOK
          <5> QED
            BY <3>4, <4>1, <5>1
        <4>2. CASE ~(r = q /\ i = j)
          <5>1. accepted'[r][i] = accepted[r][i]
            BY <1>1, <3>1, <4>2 DEF IInv, TypeOK
          <5> QED
            BY <2>1, <5>1
        <4> QED
          BY <4>1, <4>2
      <3> QED
        BY <3>5
    <2>4. accepted' = accepted \/ \E q \in Readers : LoadSecondGuard(q)
      BY <1>1 DEF Next, Producer, Reader, Attach, BeginPublish, StoreField, Commit,
                  ProducerDies, LoadFirstGuard, LoadField, Abandon, readerVars, vars
    <2> QED
      BY <2>2, <2>3, <2>4
  <1> QED
    BY <1>1, RingInvariant, PTL DEF Spec, SlotNeverGoesBack
=============================================================================
