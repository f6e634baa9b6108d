------------------------ MODULE SnapshotClientsProofs ------------------------
(***************************************************************************)
(* Proofs about the profile, device and display clients, for any limits    *)
(* and any number of restarts, failures, timeouts, lost signals and events *)
(* of others, with reads that the program asks for at any time.            *)
(*                                                                         *)
(* What the handlers of the three clients have in common is Handled; each  *)
(* of them is shown to do that.  What the steps of the service and the bus *)
(* have in common is Continues (the same incarnation goes on), Turns (it   *)
(* changes) and Loses (a signal is lost); a client Consumes a message or   *)
(* is Asked to read.  Two invariants, ReadInv and CopyInv, are then        *)
(* preserved by the five kinds of step.                                    *)
(***************************************************************************)
EXTENDS SnapshotClients, SequenceTheorems, FiniteSetTheorems, TLAPS

-----------------------------------------------------------------------------
(* Sequences of anything.                                                  *)

IsSeq(s) == \E S : s \in Seq(S)

LEMMA SeqFacts ==
    ASSUME NEW s, IsSeq(s)
    PROVE  Len(s) \in Nat /\ DOMAIN s = 1..Len(s) /\ (s = <<>> <=> Len(s) = 0)
  <1>1. PICK S : s \in Seq(S)
    BY DEF IsSeq
  <1> QED
    BY <1>1, LenProperties, EmptySeq

LEMMA ListIsSeq ==
    /\ IsSeq(<<>>) /\ Len(<<>>) = 0
    /\ \A x : IsSeq(<<x>>) /\ Len(<<x>>) = 1
    /\ \A x, y : IsSeq(<<x, y>>) /\ Len(<<x, y>>) = 2
  <1>1. <<>> \in Seq({}) /\ Len(<<>>) = 0
    OBVIOUS
  <1>2. ASSUME NEW x PROVE <<x>> \in Seq({x}) /\ Len(<<x>>) = 1
    OBVIOUS
  <1>3. ASSUME NEW x, NEW y PROVE <<x, y>> \in Seq({x, y}) /\ Len(<<x, y>>) = 2
    OBVIOUS
  <1> QED
    BY <1>1, <1>2, <1>3 DEF IsSeq

LEMMA SeqAppend ==
    ASSUME NEW s, IsSeq(s), NEW x
    PROVE  /\ IsSeq(Append(s, x))
           /\ DOMAIN Append(s, x) = 1..(Len(s) + 1) /\ DOMAIN s \subseteq DOMAIN Append(s, x)
           /\ \A i \in DOMAIN s : Append(s, x)[i] = s[i]
           /\ Append(s, x)[Len(s) + 1] = x
  <1>1. PICK S : s \in Seq(S)
    BY DEF IsSeq
  <1> DEFINE T == S \cup {x}
  <1>2. s \in Seq(T) /\ x \in T
    BY <1>1, SeqMonotonic
  <1> HIDE DEF T
  <1>3. Append(s, x) \in Seq(T) /\ Len(Append(s, x)) = Len(s) + 1
    BY <1>2, AppendProperties
  <1> QED
    BY <1>2, <1>3, AppendProperties, LenProperties DEF IsSeq

LEMMA SeqConcat ==
    ASSUME NEW s, IsSeq(s), NEW t, IsSeq(t)
    PROVE  /\ IsSeq(s \o t)
           /\ DOMAIN (s \o t) = 1..(Len(s) + Len(t)) /\ DOMAIN s \subseteq DOMAIN (s \o t)
           /\ \A i \in DOMAIN s : (s \o t)[i] = s[i]
           /\ \A i \in DOMAIN (s \o t) : i \notin DOMAIN s =>
                i - Len(s) \in DOMAIN t /\ (s \o t)[i] = t[i - Len(s)]
           /\ s \o <<>> = s
           /\ \A x : s \o <<x>> = Append(s, x)
           /\ Len(s \o t) = Len(s) + Len(t)
  <1>1. PICK S : s \in Seq(S)
    BY DEF IsSeq
  <1>2. PICK T : t \in Seq(T)
    BY DEF IsSeq
  <1> DEFINE U == S \cup T
  <1>3. s \in Seq(U) /\ t \in Seq(U)
    BY <1>1, <1>2, SeqMonotonic
  <1> HIDE DEF U
  <1>4. s \o t \in Seq(U) /\ Len(s \o t) = Len(s) + Len(t)
    BY <1>3, ConcatProperties
  <1>5. /\ Len(s) \in Nat /\ Len(t) \in Nat
        /\ DOMAIN s = 1..Len(s) /\ DOMAIN t = 1..Len(t)
        /\ DOMAIN (s \o t) = 1..(Len(s) + Len(t)) /\ DOMAIN s \subseteq DOMAIN (s \o t)
    BY <1>3, <1>4, LenProperties
  <1>6. \A i \in 1..(Len(s) + Len(t)) : (s \o t)[i] = IF i <= Len(s) THEN s[i] ELSE t[i - Len(s)]
    BY <1>3, ConcatProperties
  <1>7. s \o <<>> = s
    BY <1>3, ConcatEmptySeq
  <1>8. ASSUME NEW x PROVE s \o <<x>> = Append(s, x)
    <2>1. s \in Seq(U \cup {x}) /\ x \in U \cup {x}
      BY <1>3, SeqMonotonic
    <2> QED
      BY <2>1, AppendIsConcat
  <1> QED
    BY <1>4, <1>5, <1>6, <1>7, <1>8 DEF IsSeq
LEMMA SeqTail ==
    ASSUME NEW s, IsSeq(s), s # <<>>
    PROVE  /\ IsSeq(Tail(s))
           /\ 1 \in DOMAIN s
           /\ DOMAIN Tail(s) = 1..(Len(s) - 1)
           /\ \A i \in DOMAIN Tail(s) : i + 1 \in DOMAIN s /\ Tail(s)[i] = s[i + 1]
  <1>1. PICK S : s \in Seq(S)
    BY DEF IsSeq
  <1>2. Len(s) \in Nat \ {0} /\ DOMAIN s = 1..Len(s)
    BY <1>1, LenProperties, EmptySeq
  <1>3. Tail(s) \in Seq(S) /\ Len(Tail(s)) = Len(s) - 1
    BY <1>1, HeadTailProperties
  <1>4. \A i \in 1..Len(Tail(s)) : Tail(s)[i] = s[i + 1]
    BY <1>1, HeadTailProperties
  <1>5. DOMAIN Tail(s) = 1..(Len(s) - 1)
    BY <1>3, LenProperties
  <1> QED
    BY <1>2, <1>3, <1>4, <1>5 DEF IsSeq

LEMMA SeqExcept ==
    ASSUME NEW s, IsSeq(s), NEW i \in DOMAIN s, NEW x
    PROVE  /\ IsSeq([s EXCEPT ![i] = x])
           /\ DOMAIN [s EXCEPT ![i] = x] = DOMAIN s
           /\ [s EXCEPT ![i] = x][i] = x
           /\ \A j \in DOMAIN s : j # i => [s EXCEPT ![i] = x][j] = s[j]
  <1>1. PICK S : s \in Seq(S)
    BY DEF IsSeq
  <1> DEFINE T == S \cup {x}
  <1>2. s \in Seq(T) /\ x \in T
    BY <1>1, SeqMonotonic
  <1> HIDE DEF T
  <1>3. DOMAIN s = 1..Len(s)
    BY <1>2, LenProperties
  <1>4. [s EXCEPT ![i] = x] \in Seq(T)
    BY <1>2, <1>3, ExceptSeq
  <1> QED
    BY <1>2, <1>3, <1>4, ExceptSeq, LenProperties DEF IsSeq

\* A sequence without one of its elements.
LEMMA SeqWithout ==
    ASSUME NEW s, IsSeq(s), NEW i \in DOMAIN s
    PROVE  LET t == SubSeq(s, 1, i - 1) \o SubSeq(s, i + 1, Len(s))
           IN  /\ IsSeq(t)
               /\ DOMAIN t = 1..(Len(s) - 1)
               /\ \A k \in DOMAIN t : t[k] = s[IF k < i THEN k ELSE k + 1]
  <1>1. PICK S : s \in Seq(S)
    BY DEF IsSeq
  <1>2. Len(s) \in Nat /\ i \in 1..Len(s) /\ \A j \in 1..Len(s) : s[j] \in S
    BY <1>1, LenProperties, ElementOfSeq
  <1> DEFINE a == SubSeq(s, 1, i - 1)
             b == SubSeq(s, i + 1, Len(s))
  <1>3. a \in Seq(S) /\ Len(a) = i - 1 /\ \A k \in 1..(i - 1) : a[k] = s[k]
    <2>1. \A j \in 1..(i - 1) : s[j] \in S
      BY <1>2
    <2>2. /\ a \in Seq(S) /\ Len(a) = IF 1 <= i - 1 THEN (i - 1) - 1 + 1 ELSE 0
          /\ \A k \in 1..((i - 1) - 1 + 1) : a[k] = s[1 + k - 1]
      BY <1>2, <2>1, SubSeqProperties
    <2> QED
      BY <1>2, <2>2
  <1>4. b \in Seq(S) /\ Len(b) = Len(s) - i /\ \A k \in 1..(Len(s) - i) : b[k] = s[i + k]
    <2>1. \A j \in (i + 1)..Len(s) : s[j] \in S
      BY <1>2
    <2>2. /\ b \in Seq(S) /\ Len(b) = IF i + 1 <= Len(s) THEN Len(s) - (i + 1) + 1 ELSE 0
          /\ \A k \in 1..(Len(s) - (i + 1) + 1) : b[k] = s[(i + 1) + k - 1]
      BY <1>2, <2>1, SubSeqProperties
    <2> QED
      BY <1>2, <2>2
  <1> HIDE DEF a, b
  <1>5. a \o b \in Seq(S) /\ Len(a \o b) = Len(s) - 1
    BY <1>2, <1>3, <1>4, ConcatProperties
  <1>6. DOMAIN (a \o b) = 1..(Len(s) - 1)
    BY <1>5, LenProperties
  <1>7. \A k \in 1..(Len(s) - 1) : (a \o b)[k] = IF k <= i - 1 THEN a[k] ELSE b[k - (i - 1)]
    BY <1>2, <1>3, <1>4, ConcatProperties
  <1>8. \A k \in 1..(Len(s) - 1) : (a \o b)[k] = s[IF k < i THEN k ELSE k + 1]
    BY <1>2, <1>3, <1>4, <1>7
  <1> QED
    BY <1>5, <1>6, <1>8 DEF IsSeq, a, b

LEMMA ConcatIsAssociative ==
    ASSUME NEW s, IsSeq(s), NEW t, IsSeq(t), NEW u, IsSeq(u)
    PROVE  (s \o t) \o u = s \o (t \o u)
  <1>1. PICK S : s \in Seq(S)
    BY DEF IsSeq
  <1>2. PICK T : t \in Seq(T)
    BY DEF IsSeq
  <1>3. PICK U : u \in Seq(U)
    BY DEF IsSeq
  <1> DEFINE A == S \cup (T \cup U)
  <1>4. s \in Seq(A) /\ t \in Seq(A) /\ u \in Seq(A)
    BY <1>1, <1>2, <1>3, SeqMonotonic
  <1> HIDE DEF A
  <1> QED
    BY <1>4, ConcatAssociative
-----------------------------------------------------------------------------
(* The bus.                                                                *)

States == {"STOPPED", "STARTING", "RECOVERING", "READY", "FAILED"}
Started == spent.count["start"]

\* No signal was lost.
Kept == spent.count["lost"] = 0

\* Each start gets a UUID of its own, and the generation on disk counts the
\* recoveries, of which there is at most one for each start.
BusKnown ==
    /\ DOMAIN spent = {"limits", "count"}
    /\ spent.limits \in Limits /\ spent.count \in [Spendable -> Nat]
    /\ Started <= MaxStarts
    /\ service \in [owner : Owners, sequence : Nat, state : States]
    /\ service.owner.uuid <= Started
    /\ service.owner.uuid = 0 => service = NoService
    /\ service.state = "STOPPED" <=> service.owner.uuid = 0
    /\ persistedGeneration \in Nat
    /\ persistedGeneration <= Started
    /\ service.state = "STARTING" => service.sequence = 0 /\ persistedGeneration + 1 <= Started

LEMMA StartsTyped == MaxStarts \in Nat /\ MaxStarts > 0
                     /\ \A limits \in Limits : limits["start"] \in Nat /\ limits["start"] <= MaxStarts
  BY StartsAssumption, LimitsAssumption DEF Spendable

LEMMA Spends ==
    ASSUME DOMAIN spent = {"limits", "count"}, spent.limits \in Limits,
           spent.count \in [Spendable -> Nat], NEW what \in Spendable, Spend(what)
    PROVE  /\ DOMAIN spent' = {"limits", "count"} /\ spent'.limits = spent.limits
           /\ spent'.count \in [Spendable -> Nat]
           /\ spent'.count[what] = spent.count[what] + 1
           /\ spent'.count[what] <= spent.limits[what]
           /\ \A other \in Spendable : other # what => spent'.count[other] = spent.count[other]
  <1>1. spent' = [spent EXCEPT !.count[what] = @ + 1]
    BY DEF Spend
  <1>2. /\ DOMAIN spent' = {"limits", "count"} /\ spent'.limits = spent.limits
        /\ spent'.count = [spent.count EXCEPT ![what] = @ + 1]
    BY <1>1, Zenon
  <1>3. spent.count[what] < spent.limits[what]
    BY DEF Spend, MaySpend
  <1>4. spent.limits[what] \in Nat
    BY LimitsAssumption
  <1>5. /\ spent'.count \in [Spendable -> Nat]
        /\ spent'.count[what] = spent.count[what] + 1
        /\ \A other \in Spendable : other # what => spent'.count[other] = spent.count[other]
    BY <1>2
  <1>6. spent.count[what] \in Nat
    OBVIOUS
  <1> QED
    BY <1>2, <1>3, <1>4, <1>5, <1>6

LEMMA Owned == BusKnown => (Alive <=> service.owner.uuid # 0)
  BY DEF BusKnown, Alive, NoService, NoOwner

\* A step that is no start, and leaves or moves the service.
LEMMA BusMoves ==
    ASSUME BusKnown, UNCHANGED spent \/ \E what \in Spendable : what # "start" /\ Spend(what),
           persistedGeneration' = persistedGeneration,
           \/ service' = service
           \/ /\ service' \in [owner : Owners, sequence : Nat, state : States]
              /\ service'.owner.uuid = service.owner.uuid /\ Alive
              /\ service'.state \notin {"STOPPED", "STARTING"}
    PROVE  BusKnown' /\ Started' = Started
  <1>1. /\ DOMAIN spent' = {"limits", "count"} /\ spent'.limits \in Limits
        /\ spent'.count \in [Spendable -> Nat] /\ spent'.count["start"] = spent.count["start"]
    <2>1. CASE UNCHANGED spent
      BY <2>1 DEF BusKnown
    <2>2. CASE \E what \in Spendable : what # "start" /\ Spend(what)
      BY <2>2, Spends DEF BusKnown, Spendable
    <2> QED
      BY <2>1, <2>2
  <1>2. Started' = Started
    BY <1>1 DEF Started
  <1>3. CASE service' = service
    BY <1>1, <1>2, <1>3 DEF BusKnown
  <1>4. CASE service' # service
    BY <1>1, <1>2, <1>4, Owned DEF BusKnown
  <1> QED
    BY <1>2, <1>3, <1>4

LEMMA BusBegins == ASSUME BusInit PROVE BusKnown
  <1>1. MaxStarts \in Nat /\ MaxStarts > 0
    BY StartsTyped
  <1>2. PICK limits \in Limits :
          spent = [limits |-> limits,
                   count |-> [k \in Spendable |-> IF k = "start" THEN service.owner.uuid ELSE 0]]
    BY DEF BusInit
  <1>3. service.owner.uuid \in 0..1 /\ service.owner.uuid \in Nat
    BY DEF BusInit, NoService, NoOwner
  <1>4. /\ DOMAIN spent = {"limits", "count"} /\ spent.limits \in Limits
        /\ spent.count \in [Spendable -> Nat] /\ Started = service.owner.uuid
    BY <1>2, <1>3 DEF Started, Spendable
  <1>5. CASE service = NoService /\ persistedGeneration = 0
    BY <1>1, <1>4, <1>5 DEF BusKnown, NoService, NoOwner, Owners, States
  <1>6. CASE /\ service = [owner |-> [uuid |-> 1, generation |-> 1], state |-> "READY", sequence |-> 3]
             /\ persistedGeneration = 1
    BY <1>1, <1>4, <1>6 DEF BusKnown, Owners, States
  <1> QED
    BY <1>5, <1>6 DEF BusInit

LEMMA Recovered ==
    ASSUME NEW owner \in Owners, NEW n \in 0..MaxStarts
    PROVE  [owner EXCEPT !.generation = n] \in Owners
           /\ [owner EXCEPT !.generation = n].uuid = owner.uuid
  BY DEF Owners

LEMMA ServiceMoved ==
    ASSUME NEW s \in [owner : Owners, sequence : Nat, state : States],
           NEW st \in States, NEW n \in Nat
    PROVE  LET t == [s EXCEPT !.state = st, !.sequence = n]
           IN  /\ t \in [owner : Owners, sequence : Nat, state : States]
               /\ t.owner = s.owner /\ t.state = st /\ t.sequence = n
  <1> DEFINE u == [s EXCEPT !.state = st]
             t == [u EXCEPT !.sequence = n]
  <1>1. u \in [owner : Owners, sequence : Nat, state : States] /\ u.owner = s.owner /\ u.state = st
    OBVIOUS
  <1> HIDE DEF u
  <1>2. /\ t \in [owner : Owners, sequence : Nat, state : States]
        /\ t.owner = u.owner /\ t.state = u.state /\ t.sequence = n
    BY <1>1
  <1> QED
    BY <1>1, <1>2 DEF u

-----------------------------------------------------------------------------
(* One call of a read is unanswered: calls cs and messages ms, of a client *)
(* in epoch ep that waits, or not.                                         *)

Due(c, ep) == c.awaited /\ c.call.epoch = ep
Here(m, ep) == m.kind = "reply" /\ m.call.epoch = ep

Underway(cs, ms, ep, busy) ==
    /\ \A i, j \in DOMAIN cs : Due(cs[i], ep) /\ Due(cs[j], ep) => i = j
    /\ \A i, j \in DOMAIN ms : Here(ms[i], ep) /\ Here(ms[j], ep) => i = j
    /\ \A i \in DOMAIN cs, j \in DOMAIN ms : ~(Due(cs[i], ep) /\ Here(ms[j], ep))
    /\ busy <=> \/ \E i \in DOMAIN cs : Due(cs[i], ep)
                \/ \E j \in DOMAIN ms : Here(ms[j], ep)

LEMMA OneIsDue ==
    ASSUME NEW cs, IsSeq(cs), NEW ms, IsSeq(ms), NEW ep, NEW busy \in BOOLEAN,
           Underway(cs, ms, ep, busy)
    PROVE  LET due == {i \in DOMAIN cs : cs[i].awaited /\ cs[i].call.epoch = ep}
               here == {i \in DOMAIN ms : ms[i].kind = "reply" /\ ms[i].call.epoch = ep}
           IN  Cardinality(due) + Cardinality(here) = IF busy THEN 1 ELSE 0
  <1> DEFINE due == {i \in DOMAIN cs : cs[i].awaited /\ cs[i].call.epoch = ep}
             here == {i \in DOMAIN ms : ms[i].kind = "reply" /\ ms[i].call.epoch = ep}
  <1>1. /\ \A i \in DOMAIN cs : i \in due <=> Due(cs[i], ep)
        /\ \A i \in DOMAIN ms : i \in here <=> Here(ms[i], ep)
        /\ due \subseteq DOMAIN cs /\ here \subseteq DOMAIN ms
    BY DEF Due, Here
  <1> HIDE DEF due, here
  <1>2. /\ \A i, j \in due : i = j
        /\ \A i, j \in here : i = j
        /\ due = {} \/ here = {}
        /\ busy <=> due # {} \/ here # {}
    BY <1>1 DEF Underway
  <1>3. Cardinality({}) = 0
    BY FS_EmptySet
  <1>4. ASSUME NEW S, S # {}, \A i, j \in S : i = j PROVE Cardinality(S) = 1
    <2>1. PICK x : x \in S
      BY <1>4
    <2>2. S = {x}
      BY <1>4, <2>1
    <2> QED
      BY <2>2, FS_Singleton
  <1>5. Cardinality(due) + Cardinality(here) = IF busy THEN 1 ELSE 0
    <2>1. CASE due # {}
      BY <1>2, <1>3, <1>4, <2>1
    <2>2. CASE here # {}
      BY <1>2, <1>3, <1>4, <2>2
    <2>3. CASE due = {} /\ here = {}
      BY <1>2, <1>3, <2>3
    <2> QED
      BY <2>1, <2>2, <2>3
  <1> QED
    BY <1>5 DEF due, here

\* Messages that are no replies change nothing.
LEMMA NewsArrives ==
    ASSUME NEW cs, NEW ms, NEW ep, NEW busy, NEW news, IsSeq(ms), IsSeq(news),
           Underway(cs, ms, ep, busy), \A i \in DOMAIN news : news[i].kind # "reply"
    PROVE  Underway(cs, ms \o news, ep, busy)
  <1> DEFINE new == ms \o news
  <1>1. /\ DOMAIN ms \subseteq DOMAIN new /\ \A i \in DOMAIN ms : new[i] = ms[i]
        /\ \A i \in DOMAIN new : i \notin DOMAIN ms =>
             i - Len(ms) \in DOMAIN news /\ new[i] = news[i - Len(ms)]
    BY SeqConcat
  <1> HIDE DEF new
  <1>2. \A i \in DOMAIN new : Here(new[i], ep) => i \in DOMAIN ms /\ Here(ms[i], ep)
    BY <1>1 DEF Here
  <1>3. \A i \in DOMAIN ms : Here(ms[i], ep) => i \in DOMAIN new /\ Here(new[i], ep)
    BY <1>1
  <1>4. Underway(cs, new, ep, busy)
    BY <1>2, <1>3 DEF Underway
  <1> QED
    BY <1>4 DEF new

\* Of a queue without its first element what is left comes one earlier.
LEMMA LeftOf ==
    ASSUME NEW s, IsSeq(s), s # <<>>
    PROVE  /\ 1 \in DOMAIN s
           /\ \A i \in DOMAIN Tail(s) : i + 1 \in DOMAIN s /\ i + 1 # 1 /\ Tail(s)[i] = s[i + 1]
           /\ \A i \in DOMAIN s : i # 1 => i - 1 \in DOMAIN Tail(s) /\ Tail(s)[i - 1] = s[i]
           /\ \A i, j \in DOMAIN Tail(s) : i + 1 = j + 1 => i = j
  <1>1. Len(s) \in Nat /\ DOMAIN s = 1..Len(s) /\ Len(s) # 0
    BY SeqFacts
  <1>2. /\ DOMAIN Tail(s) = 1..(Len(s) - 1) /\ 1 \in DOMAIN s
        /\ \A i \in DOMAIN Tail(s) : i + 1 \in DOMAIN s /\ Tail(s)[i] = s[i + 1]
    BY SeqTail
  <1>3. ASSUME NEW i \in DOMAIN s, i # 1
        PROVE  i - 1 \in DOMAIN Tail(s) /\ Tail(s)[i - 1] = s[i]
    <2>1. i - 1 \in DOMAIN Tail(s) /\ (i - 1) + 1 = i
      BY <1>1, <1>2, <1>3
    <2> QED
      BY <1>2, <2>1
  <1> QED
    BY <1>1, <1>2, <1>3

\* The first call is taken, and its caller gets a reply or has given up.
LEMMA CallAnswered ==
    ASSUME NEW cs, NEW ms, NEW ep, NEW busy, NEW m, IsSeq(cs), IsSeq(ms), cs # <<>>,
           Underway(cs, ms, ep, busy), m.kind = "reply", m.call = cs[1].call
    PROVE  Underway(Tail(cs), IF cs[1].awaited THEN Append(ms, m) ELSE ms, ep, busy)
  <1> DEFINE left == Tail(cs)
             new == Append(ms, m)
  <1>1. /\ 1 \in DOMAIN cs
        /\ \A i \in DOMAIN left : i + 1 \in DOMAIN cs /\ i + 1 # 1 /\ left[i] = cs[i + 1]
        /\ \A i \in DOMAIN cs : i # 1 => i - 1 \in DOMAIN left /\ left[i - 1] = cs[i]
        /\ \A i, j \in DOMAIN left : i + 1 = j + 1 => i = j
    BY LeftOf
  <1>2. /\ Len(ms) \in Nat /\ DOMAIN ms = 1..Len(ms) /\ DOMAIN new = 1..(Len(ms) + 1)
        /\ \A i \in DOMAIN ms : new[i] = ms[i]
        /\ new[Len(ms) + 1] = m
    BY SeqAppend, SeqFacts
  <1>3. /\ Len(ms) + 1 \in DOMAIN new /\ Len(ms) + 1 \notin DOMAIN ms
        /\ \A i \in DOMAIN new : i \in DOMAIN ms \/ i = Len(ms) + 1
        /\ \A i \in DOMAIN ms : i \in DOMAIN new
    BY <1>2
  <1> HIDE DEF left, new
  <1>4. \A i \in DOMAIN left : Due(left[i], ep) => Due(cs[i + 1], ep)
    BY <1>1
  <1>5. \A i \in DOMAIN cs : i # 1 /\ Due(cs[i], ep) => i - 1 \in DOMAIN left /\ Due(left[i - 1], ep)
    BY <1>1
  <1>6. Here(m, ep) <=> cs[1].call.epoch = ep
    BY DEF Here
  <1>7. CASE cs[1].awaited
    <2>1. Due(cs[1], ep) <=> Here(m, ep)
      BY <1>6, <1>7 DEF Due
    <2>2. CASE Here(m, ep)
      <3>1. \A i \in DOMAIN left : ~Due(left[i], ep)
        BY <1>1, <1>4, <2>1, <2>2 DEF Underway
      <3>2. \A i \in DOMAIN ms : ~Here(ms[i], ep)
        BY <1>1, <2>1, <2>2 DEF Underway
      <3>3. \A i \in DOMAIN new : Here(new[i], ep) <=> i = Len(ms) + 1
        BY <1>2, <1>3, <2>2, <3>2
      <3>4. busy
        BY <1>1, <2>1, <2>2 DEF Underway
      <3>5. Underway(left, new, ep, busy)
        BY <1>3, <3>1, <3>3, <3>4 DEF Underway
      <3> QED
        BY <1>7, <3>5 DEF left, new
    <2>3. CASE ~Here(m, ep)
      <3>1. \A i \in DOMAIN new : Here(new[i], ep) <=> i \in DOMAIN ms /\ Here(ms[i], ep)
        BY <1>2, <1>3, <2>3
      <3>2. \A i \in DOMAIN cs : Due(cs[i], ep) => i # 1
        BY <2>1, <2>3
      <3>3. Underway(left, new, ep, busy)
        BY <1>1, <1>3, <1>4, <1>5, <3>1, <3>2 DEF Underway
      <3> QED
        BY <1>7, <3>3 DEF left, new
    <2> QED
      BY <2>2, <2>3
  <1>8. CASE ~cs[1].awaited
    <2>1. \A i \in DOMAIN cs : Due(cs[i], ep) => i # 1
      BY <1>8 DEF Due
    <2>2. Underway(left, ms, ep, busy)
      BY <1>1, <1>4, <1>5, <2>1 DEF Underway
    <2> QED
      BY <1>8, <2>2 DEF left
  <1> QED
    BY <1>7, <1>8

LEMMA ErrorsAreReplies ==
    ASSUME NEW call
    PROVE  /\ ErrorReply(call).kind = "reply" /\ ErrorReply(call).call = call
           /\ ErrorReply(call).error = TRUE /\ ErrorReply(call).to = {call.from}
  BY DEF ErrorReply

\* The caller gives up on a call, which is still on its way.
LEMMA CallGivenUp ==
    ASSUME NEW cs, NEW ms, NEW ep, NEW busy, IsSeq(cs), IsSeq(ms), NEW i \in DOMAIN cs,
           Underway(cs, ms, ep, busy), DOMAIN cs[i] = {"call", "awaited"}, cs[i].awaited
    PROVE  LET new == [cs EXCEPT ![i].awaited = FALSE]
           IN  /\ Underway(new, Append(ms, ErrorReply(cs[i].call)), ep, busy)
               /\ IsSeq(new) /\ DOMAIN new = DOMAIN cs
               /\ \A j \in DOMAIN cs : j # i => new[j] = cs[j]
               /\ new[i].call = cs[i].call /\ new[i].awaited = FALSE
               /\ DOMAIN new[i] = {"call", "awaited"}
  <1> DEFINE new == [cs EXCEPT ![i].awaited = FALSE]
             c == [cs[i] EXCEPT !.awaited = FALSE]
             m == ErrorReply(cs[i].call)
             all == Append(ms, m)
  <1>1. c.call = cs[i].call /\ c.awaited = FALSE /\ DOMAIN c = {"call", "awaited"}
    BY Zenon
  <1>2. new = [cs EXCEPT ![i] = c]
    BY Zenon
  <1> HIDE DEF c
  <1>3. /\ IsSeq(new) /\ DOMAIN new = DOMAIN cs /\ new[i] = c
        /\ \A j \in DOMAIN cs : j # i => new[j] = cs[j]
    BY <1>2, SeqExcept
  <1> HIDE DEF new
  <1>4. \A j \in DOMAIN cs : Due(new[j], ep) <=> j # i /\ Due(cs[j], ep)
    BY <1>1, <1>3 DEF Due
  <1>5. m.kind = "reply" /\ m.call = cs[i].call
    BY ErrorsAreReplies
  <1> HIDE DEF m
  <1>6. Here(m, ep) <=> Due(cs[i], ep)
    BY <1>5 DEF Here, Due
  <1>7. /\ Len(ms) \in Nat /\ DOMAIN ms = 1..Len(ms) /\ DOMAIN all = 1..(Len(ms) + 1)
        /\ \A j \in DOMAIN ms : all[j] = ms[j]
        /\ all[Len(ms) + 1] = m
    BY SeqAppend, SeqFacts
  <1>8. /\ Len(ms) + 1 \in DOMAIN all /\ Len(ms) + 1 \notin DOMAIN ms
        /\ \A j \in DOMAIN all : j \in DOMAIN ms \/ j = Len(ms) + 1
        /\ \A j \in DOMAIN ms : j \in DOMAIN all
    BY <1>7
  <1> HIDE DEF all
  <1>9. CASE Due(cs[i], ep)
    <2>1. \A j \in DOMAIN new : ~Due(new[j], ep)
      BY <1>3, <1>4, <1>9 DEF Underway
    <2>2. \A j \in DOMAIN all : Here(all[j], ep) <=> j = Len(ms) + 1
      BY <1>6, <1>7, <1>8, <1>9 DEF Underway
    <2>3. busy
      BY <1>9 DEF Underway
    <2> QED
      BY <1>1, <1>3, <1>8, <2>1, <2>2, <2>3 DEF Underway, new, all, m
  <1>10. CASE ~Due(cs[i], ep)
    <2>1. \A j \in DOMAIN new : Due(new[j], ep) <=> Due(cs[j], ep)
      BY <1>3, <1>4, <1>10
    <2>2. \A j \in DOMAIN all : Here(all[j], ep) <=> j \in DOMAIN ms /\ Here(ms[j], ep)
      BY <1>6, <1>7, <1>8, <1>10
    <2>3. Underway(new, all, ep, busy)
      BY <1>3, <1>8, <2>1, <2>2 DEF Underway
    <2> QED
      BY <1>1, <1>3, <2>3 DEF new, all, m
  <1> QED
    BY <1>9, <1>10

IsErrorFor(m, call) ==
    m.kind = "reply" /\ m.call = call /\ m.error = TRUE /\ m.to = {call.from}

\* The bus fails all calls at once: who waits for one is told so.
LEMMA CallsFail ==
    ASSUME NEW ms, NEW ep, NEW busy, NEW errors \in ErrorReplies, IsSeq(calls), IsSeq(ms),
           Underway(calls, ms, ep, busy)
    PROVE  /\ Underway(<<>>, ms \o errors, ep, busy)
           /\ IsSeq(errors)
           /\ \A i \in DOMAIN errors : \E k \in DOMAIN calls : IsErrorFor(errors[i], calls[k].call)
  <1> DEFINE S == {i \in DOMAIN calls : calls[i].awaited}
             n == Cardinality(S)
             new == ms \o errors
  <1>1. /\ Len(calls) \in Nat /\ DOMAIN calls = 1..Len(calls)
        /\ Len(ms) \in Nat /\ DOMAIN ms = 1..Len(ms)
    BY SeqFacts
  <1>2. IsFiniteSet(S) /\ n \in Nat
    <2>1. IsFiniteSet(1..Len(calls))
      BY <1>1, FS_Interval
    <2>2. IsFiniteSet(S)
      BY <1>1, <2>1, FS_Subset
    <2> QED
      BY <2>2, FS_CardinalityType
  <1>3. PICK f \in InOrder(S) : errors = [i \in DOMAIN f |-> ErrorReply(calls[f[i]].call)]
    BY DEF ErrorReplies
  <1>4. f \in [1..n -> S] /\ \A i, j \in DOMAIN f : i < j => f[i] < f[j]
    BY <1>3 DEF InOrder
  <1>5. /\ DOMAIN errors = 1..n
        /\ \A i \in 1..n : f[i] \in S /\ errors[i] = ErrorReply(calls[f[i]].call)
    BY <1>3, <1>4
  <1>6. \A i, j \in 1..n : f[i] = f[j] => i = j
    <2> SUFFICES ASSUME NEW i \in 1..n, NEW j \in 1..n, f[i] = f[j], i # j PROVE FALSE
      OBVIOUS
    <2>1. f[i] \in Nat /\ f[j] \in Nat
      BY <1>1, <1>4
    <2>2. i < j \/ j < i
      BY <1>2
    <2> QED
      BY <1>4, <2>1, <2>2
  <1>7. IsSeq(errors)
    <2>1. errors \in [1..n -> {errors[i] : i \in 1..n}]
      BY <1>3, <1>4
    <2>2. errors \in Seq({errors[i] : i \in 1..n})
      BY <1>2, <2>1, SeqDef
    <2> QED
      BY <2>2 DEF IsSeq
  <1>8. Len(errors) = n
    BY <1>2, <1>5, <1>7, SeqFacts
  <1>9. \A i \in S : \E k \in 1..n : f[k] = i
    <2>1. Cardinality(1..n) = n
      BY <1>2, FS_Interval
    <2>2. f \in Injection(1..n, S)
      BY <1>4, <1>6 DEF Injection, IsInjective
    <2>3. f \in Surjection(1..n, S)
      BY <1>2, <2>1, <2>2, FS_Injection
    <2> QED
      BY <2>3 DEF Surjection
  <1>10. \A i \in 1..n : f[i] \in DOMAIN calls /\ calls[f[i]].awaited
    BY <1>5
  <1>11. \A i \in DOMAIN calls : Due(calls[i], ep) => \E k \in 1..n : f[k] = i
    BY <1>9 DEF Due
  <1> HIDE DEF n, S
  <1>12. /\ DOMAIN new = 1..(Len(ms) + n) /\ DOMAIN ms \subseteq DOMAIN new
         /\ \A i \in DOMAIN ms : new[i] = ms[i]
         /\ \A i \in DOMAIN new : i \notin DOMAIN ms =>
                i - Len(ms) \in 1..n /\ new[i] = errors[i - Len(ms)]
    <2>1. /\ DOMAIN new = 1..(Len(ms) + Len(errors)) /\ DOMAIN ms \subseteq DOMAIN new
          /\ \A i \in DOMAIN ms : new[i] = ms[i]
          /\ \A i \in DOMAIN new : i \notin DOMAIN ms =>
                i - Len(ms) \in DOMAIN errors /\ new[i] = errors[i - Len(ms)]
      BY <1>7, SeqConcat
    <2> HIDE DEF new
    <2> QED
      BY <1>5, <1>8, <2>1
  <1> HIDE DEF new
  <1>13. \A i \in 1..n : Here(errors[i], ep) <=> Due(calls[f[i]], ep)
    <2> SUFFICES ASSUME NEW i \in 1..n PROVE Here(errors[i], ep) <=> Due(calls[f[i]], ep)
      OBVIOUS
    <2>1. errors[i].kind = "reply" /\ errors[i].call = calls[f[i]].call
      <3> DEFINE call == calls[f[i]].call
                 e == ErrorReply(call)
      <3>1. errors[i] = e
        BY <1>5
      <3>2. e.kind = "reply" /\ e.call = call
        BY ErrorsAreReplies
      <3> HIDE DEF e
      <3> QED
        BY <3>1, <3>2
    <2> QED
      BY <1>10, <2>1 DEF Here, Due
  <1>14. \A i \in DOMAIN new : i \notin DOMAIN ms =>
            (Here(new[i], ep) <=> Due(calls[f[i - Len(ms)]], ep))
    BY <1>12, <1>13
  <1>15. ASSUME NEW i \in DOMAIN new, NEW j \in DOMAIN new, Here(new[i], ep), Here(new[j], ep)
         PROVE  i = j
    <2>1. CASE i \in DOMAIN ms /\ j \in DOMAIN ms
      BY <1>12, <1>15, <2>1 DEF Underway
    <2>2. CASE i \in DOMAIN ms /\ j \notin DOMAIN ms
      BY <1>10, <1>12, <1>14, <1>15, <2>2 DEF Underway
    <2>3. CASE i \notin DOMAIN ms /\ j \in DOMAIN ms
      BY <1>10, <1>12, <1>14, <1>15, <2>3 DEF Underway
    <2>4. CASE i \notin DOMAIN ms /\ j \notin DOMAIN ms
      <3>1. /\ i - Len(ms) \in 1..n /\ j - Len(ms) \in 1..n
            /\ Due(calls[f[i - Len(ms)]], ep) /\ Due(calls[f[j - Len(ms)]], ep)
        BY <1>12, <1>14, <1>15, <2>4
      <3>2. f[i - Len(ms)] = f[j - Len(ms)]
        BY <1>10, <3>1 DEF Underway
      <3>3. i - Len(ms) = j - Len(ms)
        BY <1>6, <3>1, <3>2
      <3> QED
        BY <1>1, <1>2, <1>12, <3>3
    <2> QED
      BY <2>1, <2>2, <2>3, <2>4
  <1>16. busy <=> \E j \in DOMAIN new : Here(new[j], ep)
    <2>1. ASSUME NEW i \in DOMAIN calls, Due(calls[i], ep)
          PROVE  \E j \in DOMAIN new : Here(new[j], ep)
      <3>1. PICK k \in 1..n : f[k] = i
        BY <1>11, <2>1
      <3>2. /\ Len(ms) + k \in DOMAIN new /\ Len(ms) + k \notin DOMAIN ms
            /\ (Len(ms) + k) - Len(ms) = k
        BY <1>1, <1>2, <1>12
      <3> QED
        BY <1>14, <2>1, <3>1, <3>2
    <2>2. \A i \in DOMAIN ms : Here(ms[i], ep) => Here(new[i], ep) /\ i \in DOMAIN new
      BY <1>12
    <2>3. ASSUME NEW j \in DOMAIN new, Here(new[j], ep) PROVE busy
      <3>1. CASE j \in DOMAIN ms
        BY <1>12, <2>3, <3>1 DEF Underway
      <3>2. CASE j \notin DOMAIN ms
        BY <1>10, <1>12, <1>14, <2>3, <3>2 DEF Underway
      <3> QED
        BY <3>1, <3>2
    <2> QED
      BY <2>1, <2>2, <2>3 DEF Underway
  <1>17. DOMAIN <<>> = {}
    OBVIOUS
  <1>18. Underway(<<>>, new, ep, busy)
    BY <1>15, <1>16, <1>17 DEF Underway
  <1>19. ASSUME NEW i \in DOMAIN errors
         PROVE  \E k \in DOMAIN calls : IsErrorFor(errors[i], calls[k].call)
    <2> DEFINE call == calls[f[i]].call
               e == ErrorReply(call)
    <2>1. errors[i] = e /\ f[i] \in DOMAIN calls
      BY <1>5, <1>10
    <2>2. IsErrorFor(e, call)
      BY ErrorsAreReplies DEF IsErrorFor
    <2> HIDE DEF e
    <2> QED
      BY <2>1, <2>2
  <1> QED
    BY <1>7, <1>18, <1>19 DEF new

\* A message that is no reply is lost.
LEMMA NewsLost ==
    ASSUME NEW cs, NEW ms, NEW ep, NEW busy, IsSeq(ms), NEW x \in DOMAIN ms, ms[x].kind # "reply",
           Underway(cs, ms, ep, busy)
    PROVE  Underway(cs, SubSeq(ms, 1, x - 1) \o SubSeq(ms, x + 1, Len(ms)), ep, busy)
  <1> DEFINE new == SubSeq(ms, 1, x - 1) \o SubSeq(ms, x + 1, Len(ms))
             at(i) == IF i < x THEN i ELSE i + 1
  <1>1. /\ Len(ms) \in Nat /\ DOMAIN ms = 1..Len(ms) /\ DOMAIN new = 1..(Len(ms) - 1)
        /\ \A i \in DOMAIN new : new[i] = ms[at(i)]
    BY SeqFacts, SeqWithout
  <1> HIDE DEF new
  <1>2. /\ \A i \in DOMAIN new : at(i) \in DOMAIN ms
        /\ \A i, j \in DOMAIN new : at(i) = at(j) => i = j
    BY <1>1
  <1>3. ASSUME NEW i \in DOMAIN ms, i # x
        PROVE  \E j \in DOMAIN new : at(j) = i
    <2>1. CASE i < x
      BY <1>1, <2>1
    <2>2. CASE ~(i < x)
      <3>1. i - 1 \in DOMAIN new /\ at(i - 1) = i
        BY <1>1, <1>3, <2>2
      <3> QED
        BY <3>1
    <2> QED
      BY <2>1, <2>2
  <1> HIDE DEF at
  <1>4. ~Here(ms[x], ep)
    BY DEF Here
  <1>5. Underway(cs, new, ep, busy)
    BY <1>1, <1>2, <1>3, <1>4 DEF Underway
  <1> QED
    BY <1>5 DEF new

\* The client takes the first message.
LEMMA FirstTaken ==
    ASSUME NEW cs, NEW ms, NEW ep, NEW busy, IsSeq(ms), ms # <<>>, Underway(cs, ms, ep, busy)
    PROVE  Underway(cs, Tail(ms), ep, busy /\ ~Here(ms[1], ep))
  <1> DEFINE new == Tail(ms)
  <1>1. /\ 1 \in DOMAIN ms
        /\ \A i \in DOMAIN new : i + 1 \in DOMAIN ms /\ i + 1 # 1 /\ new[i] = ms[i + 1]
        /\ \A i \in DOMAIN ms : i # 1 => i - 1 \in DOMAIN new /\ new[i - 1] = ms[i]
        /\ \A i, j \in DOMAIN new : i + 1 = j + 1 => i = j
    BY LeftOf
  <1> HIDE DEF new
  <1>2. CASE Here(ms[1], ep)
    <2>1. \A i \in DOMAIN new : ~Here(new[i], ep)
      BY <1>1, <1>2 DEF Underway
    <2>2. \A i \in DOMAIN cs : ~Due(cs[i], ep)
      BY <1>1, <1>2 DEF Underway
    <2> QED
      BY <1>2, <2>1, <2>2 DEF Underway, new
  <1>3. CASE ~Here(ms[1], ep)
    <2>1. \A i \in DOMAIN ms : Here(ms[i], ep) => i - 1 \in DOMAIN new /\ Here(new[i - 1], ep)
      BY <1>1, <1>3
    <2>2. \A i \in DOMAIN new : Here(new[i], ep) => Here(ms[i + 1], ep)
      BY <1>1
    <2>3. (busy /\ ~Here(ms[1], ep)) <=> busy
      BY <1>3
    <2>4. Underway(cs, new, ep, busy /\ ~Here(ms[1], ep))
      BY <1>1, <2>1, <2>2, <2>3 DEF Underway
    <2> QED
      BY <2>4 DEF new
  <1> QED
    BY <1>2, <1>3

\* In a new epoch nothing is under way.
LEMMA NothingUnderway ==
    ASSUME NEW cs, NEW ms, NEW ep \in Nat,
           \A i \in DOMAIN cs : cs[i].call.epoch \in 0..ep,
           \A i \in DOMAIN ms : ms[i].kind = "reply" => ms[i].call.epoch \in 0..ep
    PROVE  Underway(cs, ms, ep + 1, FALSE)
  BY DEF Underway, Due, Here

\* A client that does not wait makes a call.
LEMMA CallMade ==
    ASSUME NEW cs, IsSeq(cs), NEW ms, NEW ep, NEW call, Underway(cs, ms, ep, FALSE), call.epoch = ep
    PROVE  Underway(Append(cs, Awaited(call)), ms, ep, TRUE)
  <1> DEFINE c == Awaited(call)
             new == Append(cs, c)
  <1>1. c.awaited = TRUE /\ c.call = call
    BY DEF Awaited
  <1>2. Due(c, ep)
    BY <1>1 DEF Due
  <1> HIDE DEF c
  <1>3. /\ Len(cs) \in Nat /\ DOMAIN cs = 1..Len(cs) /\ DOMAIN new = 1..(Len(cs) + 1)
        /\ \A j \in DOMAIN cs : new[j] = cs[j]
        /\ new[Len(cs) + 1] = c
    BY SeqAppend, SeqFacts
  <1> HIDE DEF new
  <1>4. \A i \in DOMAIN new : Due(new[i], ep) <=> i = Len(cs) + 1
    BY <1>2, <1>3 DEF Underway
  <1>5. Len(cs) + 1 \in DOMAIN new
    BY <1>3
  <1>6. Underway(new, ms, ep, TRUE)
    BY <1>4, <1>5 DEF Underway
  <1> QED
    BY <1>6 DEF new, c

LEMMA OutgoingCalls ==
    ASSUME NEW cs, IsSeq(cs)
    PROVE  /\ cs \o Outgoing(<<>>) = cs
           /\ \A call : cs \o Outgoing(<<call>>) = Append(cs, Awaited(call))
  <1>1. Outgoing(<<>>) = <<>>
    BY DEF Outgoing
  <1>2. ASSUME NEW call PROVE Outgoing(<<call>>) = <<Awaited(call)>>
    BY DEF Outgoing
  <1> QED
    BY <1>1, <1>2, SeqConcat

-----------------------------------------------------------------------------
(* What is on its way, and what the clients keep.                          *)

IsSignal(m) == m.kind \in {"event", "value"}
IsAnswered(m) == m.kind = "reply" /\ ~m.error

\* Who answers something, and with the number of which event.
IsAnswer(a) ==
    /\ a.owner \in Owners /\ a.sequence \in Nat /\ a.content \in Nat
    /\ a.owner = NoOwner => a.sequence = 0
    /\ a.code = "OK" /\ kind # "profiles" => a.owner # NoOwner
    /\ a.code = "OK" /\ kind = "display" => a.displays \in Nat

IsList(a) ==
    /\ a.owner \in Owners /\ a.owner # NoOwner /\ a.sequence \in Nat
    /\ a.content \in Nat /\ a.displays \in Nat

\* A call of the client up to an epoch; it asks for a display only while the
\* list it has read has one left.
AsksForDisplay(call) == call.method = "ReadDisplay"
IsRequest(call, ep) ==
    /\ call.from = "client" /\ call.epoch \in 0..ep
    /\ call.method \in {"Read", "ReadDisplay"}
    /\ AsksForDisplay(call) =>
        /\ kind = "display" /\ IsList(call.list) /\ call.states \in Seq(Nat)
        /\ Len(call.states) < call.list.displays

IsCall(c, ep) == DOMAIN c = {"call", "awaited"} /\ c.awaited \in BOOLEAN /\ IsRequest(c.call, ep)

IsMessage(m, ep) ==
    /\ m.to = {"client"} /\ m.kind \in {"owner", "event", "value", "reply"}
    /\ m.kind = "owner" => m.alive \in BOOLEAN
    /\ IsSignal(m) => m.owner \in Owners /\ m.owner # NoOwner /\ m.sequence \in Nat /\ m.sequence > 0
    /\ m.kind = "reply" => m.error \in BOOLEAN /\ IsRequest(m.call, ep)
    /\ IsAnswered(m) => IsAnswer(m.answer)

Queued(cs, ms, ep) ==
    /\ IsSeq(cs) /\ \A i \in DOMAIN cs : IsCall(cs[i], ep)
    /\ IsSeq(ms) /\ \A i \in DOMAIN ms : IsMessage(ms[i], ep)

ProfileMembers ==
    [ownerEpoch : Nat, moved : BOOLEAN, inFlight : BOOLEAN, refreshPending : BOOLEAN,
     eventOwner : Owners, lastObserved : Nat,
     copy : [ready : BOOLEAN, owner : Owners, sequence : Nat, content : Nat]]
HardwareMembers ==
    [ownerEpoch : Nat, moved : BOOLEAN, inFlight : BOOLEAN, refreshPending : BOOLEAN,
     eventOwner : Owners, lastObserved : Nat, lastHardware : Nat,
     copy : [ready : BOOLEAN, owner : Owners, sequence : Nat, snapshotSequence : Nat,
             content : Nat]]
DisplayMembers ==
    [ownerEpoch : Nat, moved : BOOLEAN, inFlight : BOOLEAN, refreshPending : BOOLEAN,
     eventOwner : Owners, lastObserved : Nat, recent : SUBSET Nat, issued : SUBSET Nat,
     copy : [ready : BOOLEAN, owner : Owners, sequence : Nat, content : Seq(Nat)]]

\* A copy is signed like the last event heard, unless it is a refusal that
\* the profile client took for a profile.
CopyAtCursor(c) ==
    c.copy.ready =>
        \/ c.copy.owner # NoOwner /\ c.copy.owner = c.eventOwner /\ c.copy.sequence = c.lastObserved
        \/ kind = "profiles" /\ c.copy.owner = NoOwner /\ c.copy.sequence = 0

IsClient(c) ==
    /\ kind = "profiles" => c \in ProfileMembers
    /\ kind = "hardware" => c \in HardwareMembers
    /\ kind = "display" => c \in DisplayMembers
    /\ c.eventOwner = NoOwner => c.lastObserved = 0
    /\ CopyAtCursor(c)

\* The calls of a handler, and what the client then waits for.
Asks(c, m, r) ==
    /\ \/ r.calls = <<>>
       \/ \E call : /\ r.calls = <<call>> /\ call.epoch = r.state.ownerEpoch
                    /\ IsRequest(call, r.state.ownerEpoch)
    /\ r.state.refreshPending => r.state.inFlight
    /\ m.kind = "owner" =>
        /\ r.state.ownerEpoch = c.ownerEpoch + 1
        /\ r.state.inFlight <=> r.calls # <<>>
    /\ m.kind # "owner" => r.state.ownerEpoch = c.ownerEpoch
    /\ IsSignal(m) =>
        (r.state.inFlight <=> c.inFlight \/ r.calls # <<>>) /\ (c.inFlight => r.calls = <<>>)
    /\ m.kind = "reply" /\ m.call.epoch # c.ownerEpoch => r.state = c /\ r.calls = <<>>
    /\ m.kind = "reply" /\ m.call.epoch = c.ownerEpoch => (r.state.inFlight <=> r.calls # <<>>)

\* The event a message is about, or the one an answer was given after.
IsDated(m) == IsSignal(m) \/ IsAnswered(m)
OwnerOf(m) == IF IsSignal(m) THEN m.owner ELSE m.answer.owner
NumberOf(m) == IF IsSignal(m) THEN m.sequence ELSE m.answer.sequence

\* Nothing comes before what the client has heard already.
Later(c, m) == IsDated(m) /\ OwnerOf(m) # NoOwner => c.lastObserved <= NumberOf(m)

CursorMoves(c, m, d) ==
    /\ m.kind = "owner" => d.eventOwner = NoOwner
    /\ m.kind # "owner" =>
        \/ d.eventOwner = c.eventOwner /\ d.lastObserved = c.lastObserved
        \/ IsDated(m) /\ d.eventOwner = OwnerOf(m) /\ d.lastObserved = NumberOf(m)

\* A copy stays as it is, or an event that says nothing of what is copied
\* moves it on, or it is taken from an answer.
CopyStays(c, m, d) ==
    /\ c.copy.ready /\ d.copy = c.copy /\ m.kind # "owner"
    /\ IsSignal(m) => c.copy.owner = NoOwner \/ m.sequence <= c.copy.sequence

IsVoid(m) == m.kind = "value" /\ m.subject = "platform"
CopyAdvances(c, m, d) ==
    /\ c.copy.ready /\ IsSignal(m)
    /\ m.owner = c.copy.owner /\ d.copy.owner = c.copy.owner /\ d.copy.content = c.copy.content
    /\ d.copy.sequence = m.sequence /\ c.copy.sequence <= m.sequence
    /\ kind = "profiles" => m.subject # "profile" /\ m.sequence = c.copy.sequence + 1
    /\ kind # "profiles" => ~IsVoid(m)

\* The list a reply is about and the states read up to it.
ListOf(m) == IF AsksForDisplay(m.call) THEN m.call.list ELSE m.answer
StatesOf(m) == IF AsksForDisplay(m.call) THEN Append(m.call.states, m.answer.content) ELSE <<>>
SameMoment(m) ==
    /\ IsAnswered(m) /\ m.answer.code = "OK"
    /\ m.answer.owner = ListOf(m).owner /\ m.answer.sequence = ListOf(m).sequence

CopyIsTaken(c, m, d) ==
    /\ IsAnswered(m)
    /\ d.copy.owner = m.answer.owner /\ d.copy.sequence = m.answer.sequence
    /\ kind # "display" => d.copy.content = m.answer.content
    /\ kind = "hardware" => m.answer.code = "OK"
    /\ kind = "display" =>
        /\ SameMoment(m) /\ Len(StatesOf(m)) = ListOf(m).displays
        /\ d.copy.content = <<ListOf(m).content>> \o StatesOf(m)

CopyMoves(c, m, d) ==
    d.copy.ready => CopyStays(c, m, d) \/ CopyAdvances(c, m, d) \/ CopyIsTaken(c, m, d)

\* What the clients keep beside the cursor does not run ahead of it.
Bounded(c) ==
    /\ kind = "hardware" =>
        /\ c.lastHardware <= c.lastObserved
        /\ c.copy.ready => c.copy.snapshotSequence <= c.copy.sequence
    /\ kind = "display" => \A n \in c.recent : n <= c.lastObserved

ReadsOn(m, r) ==
    \A call : r.calls = <<call>> /\ AsksForDisplay(call) =>
        kind = "display" /\ SameMoment(m) /\ call.list = ListOf(m) /\ call.states = StatesOf(m)

Waits(c, m) ==
    /\ c.refreshPending => c.inFlight
    /\ m.kind = "reply" /\ m.call.epoch = c.ownerEpoch => c.inFlight

\* What a handler makes of a message.
Handled(c, m, r) ==
    /\ IsClient(r.state) /\ Asks(c, m, r) /\ ReadsOn(m, r)
    /\ Later(c, m) /\ Bounded(c) =>
        CursorMoves(c, m, r.state) /\ CopyMoves(c, m, r.state) /\ Bounded(r.state)

LEMMA NobodyTyped == NoOwner \in Owners
  BY StartsTyped DEF NoOwner, Owners

-----------------------------------------------------------------------------
(* The profile client.                                                     *)

LEMMA ProfileResult ==
    ASSUME NEW x, NEW s
    PROVE  Profiles!Result(x, s).state = x /\ Profiles!Result(x, s).calls = s
  BY DEF Profiles!Result

LEMMA ProfileCleared ==
    ASSUME NEW c \in ProfileMembers, NEW d, d = Profiles!Cleared(c)
    PROVE  /\ d \in ProfileMembers /\ ~d.copy.ready
           /\ d.ownerEpoch = c.ownerEpoch /\ d.moved = c.moved /\ d.inFlight = c.inFlight
           /\ d.refreshPending = c.refreshPending
           /\ d.eventOwner = c.eventOwner /\ d.lastObserved = c.lastObserved
  BY NobodyTyped DEF ProfileMembers, Profiles!Cleared, Profiles!NoCopy

LEMMA ProfileRequests ==
    ASSUME NEW c \in ProfileMembers, kind = "profiles", NEW r, r = Profiles!RequestSnapshot(c)
    PROVE  /\ r.state \in ProfileMembers
           /\ r.state.ownerEpoch = c.ownerEpoch /\ r.state.inFlight
           /\ r.state.eventOwner = c.eventOwner /\ r.state.lastObserved = c.lastObserved
           /\ r.state.copy = c.copy \/ ~r.state.copy.ready
           /\ c.inFlight => r.calls = <<>>
           /\ ~c.inFlight =>
                \E call : /\ r.calls = <<call>> /\ call.epoch = c.ownerEpoch
                          /\ IsRequest(call, c.ownerEpoch) /\ ~AsksForDisplay(call)
  <1> DEFINE waits == [c EXCEPT !.refreshPending = TRUE]
             gone == Profiles!Cleared(c)
             asked == [gone EXCEPT !.inFlight = TRUE, !.refreshPending = FALSE, !.moved = FALSE]
             call == Profiles!ReadProfile(c)
  <1>1. /\ c.inFlight => r = Profiles!Result(waits, <<>>)
        /\ ~c.inFlight => r = Profiles!Result(asked, <<call>>)
    BY Zenon DEF Profiles!RequestSnapshot
  <1>2. /\ waits \in ProfileMembers /\ waits.ownerEpoch = c.ownerEpoch /\ waits.copy = c.copy
        /\ waits.eventOwner = c.eventOwner /\ waits.lastObserved = c.lastObserved
        /\ c.inFlight => waits.inFlight
    BY DEF ProfileMembers
  <1>3. /\ gone \in ProfileMembers /\ gone.ownerEpoch = c.ownerEpoch /\ ~gone.copy.ready
        /\ gone.eventOwner = c.eventOwner /\ gone.lastObserved = c.lastObserved
    BY ProfileCleared
  <1> HIDE DEF gone
  <1>4. /\ asked \in ProfileMembers /\ asked.ownerEpoch = c.ownerEpoch /\ ~asked.copy.ready
        /\ asked.eventOwner = c.eventOwner /\ asked.lastObserved = c.lastObserved /\ asked.inFlight
    BY <1>3 DEF ProfileMembers
  <1>5. call.epoch = c.ownerEpoch /\ IsRequest(call, c.ownerEpoch) /\ ~AsksForDisplay(call)
    BY DEF ProfileMembers, Profiles!ReadProfile, IsRequest, AsksForDisplay
  <1> HIDE DEF waits, asked, call
  <1> QED
    BY <1>1, <1>2, <1>4, <1>5, ProfileResult

LEMMA ProfileMeetsOwner ==
    ASSUME NEW c \in ProfileMembers, kind = "profiles", IsClient(c), NEW m, m.kind = "owner",
           NEW r, r = Profiles!OnOwnerChanged(c, m.alive)
    PROVE  Handled(c, m, r)
  <1> DEFINE none == Profiles!NoClient
             fresh == [none EXCEPT !.ownerEpoch = c.ownerEpoch + 1]
  <1>0. /\ none \in ProfileMembers
        /\ ~none.inFlight /\ ~none.refreshPending /\ ~none.copy.ready
        /\ none.eventOwner = NoOwner /\ none.lastObserved = 0
    BY NobodyTyped DEF ProfileMembers, Profiles!NoClient, Profiles!NoCopy
  <1>1. /\ fresh \in ProfileMembers /\ fresh.ownerEpoch = c.ownerEpoch + 1
        /\ ~fresh.inFlight /\ ~fresh.refreshPending /\ ~fresh.copy.ready
        /\ fresh.eventOwner = NoOwner /\ fresh.lastObserved = 0
    <2> HIDE DEF none
    <2> QED
      BY <1>0 DEF ProfileMembers
  <1>2. /\ m.alive => r = Profiles!RequestSnapshot(fresh)
        /\ ~m.alive => r = Profiles!Result(fresh, <<>>)
    BY Zenon DEF Profiles!OnOwnerChanged
  <1> HIDE DEF fresh
  <1>3. ~IsSignal(m) /\ ~IsDated(m)
    BY DEF IsSignal, IsDated, IsAnswered
  <1>4. CASE m.alive
    <2>1. /\ r.state \in ProfileMembers
          /\ r.state.ownerEpoch = c.ownerEpoch + 1 /\ r.state.inFlight
          /\ r.state.eventOwner = NoOwner /\ r.state.lastObserved = 0
          /\ ~r.state.copy.ready
      BY <1>1, <1>2, <1>4, ProfileRequests
    <2>2. PICK call : /\ r.calls = <<call>> /\ call.epoch = fresh.ownerEpoch
                      /\ IsRequest(call, fresh.ownerEpoch) /\ ~AsksForDisplay(call)
      BY <1>1, <1>2, <1>4, ProfileRequests
    <2>3. r.calls # <<>> /\ \A x : r.calls = <<x>> => x = call
      BY <2>2
    <2> QED
      BY <1>1, <1>3, <2>1, <2>2, <2>3
         DEF Handled, IsClient, CopyAtCursor, Asks, ReadsOn, CursorMoves, CopyMoves, Bounded
  <1>5. CASE ~m.alive
    <2>1. r.state = fresh /\ r.calls = <<>>
      BY <1>2, <1>5, ProfileResult
    <2>2. \A x : r.calls # <<x>>
      BY <2>1
    <2> QED
      BY <1>1, <1>3, <2>1, <2>2
         DEF Handled, IsClient, CopyAtCursor, Asks, ReadsOn, CursorMoves, CopyMoves, Bounded
  <1> QED
    BY <1>4, <1>5

LEMMA ProfileHears ==
    ASSUME NEW c \in ProfileMembers, kind = "profiles", IsClient(c), NEW m, IsSignal(m),
           m.owner \in Owners, m.owner # NoOwner, m.sequence \in Nat, Waits(c, m),
           NEW r, r = Profiles!ObserveEvent(c, m)
    PROVE  Handled(c, m, r)
  <1> DEFINE heard == [c EXCEPT !.eventOwner = m.owner, !.lastObserved = m.sequence]
             gone == Profiles!Cleared(heard)
             unsure == [gone EXCEPT !.moved = TRUE]
             advanced == Profiles!Advanced(heard, m)
             rereads == Profiles!IsForeign(c, m) \/ Profiles!IsGap(c, m) \/ Profiles!IsRelevant(m)
             repeated == c.eventOwner # NoOwner /\ m.sequence <= c.lastObserved
  <1>1. /\ m.kind # "owner" /\ m.kind # "reply" /\ IsDated(m) /\ OwnerOf(m) = m.owner
        /\ NumberOf(m) = m.sequence /\ ~IsAnswered(m)
    BY DEF IsSignal, IsDated, IsAnswered, OwnerOf, NumberOf
  <1>2. /\ heard \in ProfileMembers /\ heard.eventOwner = m.owner /\ heard.lastObserved = m.sequence
        /\ heard.ownerEpoch = c.ownerEpoch /\ heard.inFlight = c.inFlight /\ heard.copy = c.copy
        /\ heard.refreshPending = c.refreshPending
    BY DEF ProfileMembers
  <1>3. \/ r = Profiles!RequestSnapshot(unsure)
        \/ r = Profiles!Result(c, <<>>) /\ repeated /\ ~Profiles!IsForeign(c, m)
        \/ r = Profiles!Result(advanced, <<>>) /\ ~rereads /\ ~repeated
    BY Zenon DEF Profiles!ObserveEvent, Profiles!Reread
  <1>4. ASSUME c.copy.ready, ~rereads, c.copy.owner = m.owner, ~repeated
        PROVE  m.sequence = c.copy.sequence + 1 /\ m.subject # "profile"
    BY <1>4 DEF ProfileMembers, Profiles!IsForeign, Profiles!IsGap, Profiles!IsRelevant, IsClient,
       CopyAtCursor
  <1>5. repeated /\ c.copy.ready /\ c.copy.owner # NoOwner => m.sequence <= c.copy.sequence
    BY DEF IsClient, CopyAtCursor
  <1>6. ~Profiles!IsForeign(c, m) => c.eventOwner = NoOwner \/ c.eventOwner = m.owner
    BY DEF Profiles!IsForeign
  <1>7. Waits(c, m) => (c.refreshPending => c.inFlight)
    BY DEF Waits
  <1>8. CASE r = Profiles!RequestSnapshot(unsure)
    <2>1. gone \in ProfileMembers /\ ~gone.copy.ready /\ gone.inFlight = c.inFlight
          /\ gone.eventOwner = m.owner /\ gone.lastObserved = m.sequence
          /\ gone.ownerEpoch = c.ownerEpoch
      BY <1>2, ProfileCleared
    <2> HIDE DEF gone
    <2>2. unsure \in ProfileMembers /\ ~unsure.copy.ready /\ unsure.inFlight = c.inFlight
          /\ unsure.eventOwner = m.owner /\ unsure.lastObserved = m.sequence
          /\ unsure.ownerEpoch = c.ownerEpoch
      BY <2>1 DEF ProfileMembers
    <2> HIDE DEF unsure
    <2>3. /\ r.state \in ProfileMembers
          /\ r.state.ownerEpoch = c.ownerEpoch /\ r.state.inFlight
          /\ r.state.eventOwner = m.owner /\ r.state.lastObserved = m.sequence
          /\ ~r.state.copy.ready
          /\ c.inFlight => r.calls = <<>>
      BY <1>8, <2>2, ProfileRequests
    <2>4. ~c.inFlight =>
            \E call : /\ r.calls = <<call>> /\ call.epoch = c.ownerEpoch
                      /\ IsRequest(call, c.ownerEpoch) /\ ~AsksForDisplay(call)
      BY <1>8, <2>2, ProfileRequests
    <2>5. CASE c.inFlight
      <3>0. r.calls = <<>>
        BY <2>3, <2>5
      <3>1. r.calls = <<>> /\ \A x : r.calls # <<x>>
        BY <3>0
      <3> QED
        BY <1>1, <2>3, <2>5, <3>1
           DEF Handled, IsClient, CopyAtCursor, Asks, ReadsOn, CursorMoves, CopyMoves, Bounded
    <2>6. CASE ~c.inFlight
      <3>1. PICK call : /\ r.calls = <<call>> /\ call.epoch = c.ownerEpoch
                        /\ IsRequest(call, c.ownerEpoch) /\ ~AsksForDisplay(call)
        BY <2>4, <2>6
      <3>2. r.calls # <<>> /\ \A x : r.calls = <<x>> => x = call
        BY <3>1
      <3> QED
        BY <1>1, <2>3, <2>6, <3>1, <3>2
           DEF Handled, IsClient, CopyAtCursor, Asks, ReadsOn, CursorMoves, CopyMoves, Bounded
    <2> QED
      BY <2>5, <2>6
  <1>9. CASE r = Profiles!Result(c, <<>>) /\ repeated /\ ~Profiles!IsForeign(c, m)
    <2>1. r.state = c /\ r.calls = <<>>
      BY <1>9, ProfileResult
    <2>2. \A x : r.calls # <<x>>
      BY <2>1
    <2>3. CopyMoves(c, m, c)
      BY <1>1, <1>5, <1>9 DEF CopyMoves, CopyStays
    <2> HIDE DEF repeated
    <2> QED
      BY <1>1, <1>7, <2>1, <2>2, <2>3 DEF Handled, Asks, ReadsOn, CursorMoves, Bounded
  <1>10. CASE r = Profiles!Result(advanced, <<>>) /\ ~rereads /\ ~repeated
    <2>1. r.state = advanced /\ r.calls = <<>>
      BY <1>10, ProfileResult
    <2>2. \A x : r.calls # <<x>>
      BY <2>1
    <2> DEFINE d == [heard EXCEPT !.copy.sequence = m.sequence]
    <2>3. /\ ~(c.copy.ready /\ c.copy.owner = m.owner) => advanced = heard
          /\ (c.copy.ready /\ c.copy.owner = m.owner) => advanced = d
      BY <1>2 DEF Profiles!Advanced
    <2> HIDE DEF heard, advanced
    <2>4. CASE ~(c.copy.ready /\ c.copy.owner = m.owner)
      <3>1. r.state = heard
        BY <2>1, <2>3, <2>4
      <3>2. c.copy.ready => c.copy.owner = NoOwner /\ c.copy.sequence = 0
        <4>1. c.eventOwner = NoOwner \/ c.eventOwner = m.owner
          BY <1>6, <1>10
        <4> QED
          BY <2>4, <4>1 DEF IsClient, CopyAtCursor
      <3>3. CopyMoves(c, m, heard)
        BY <1>1, <1>2, <3>2 DEF CopyMoves, CopyStays
      <3> QED
        BY <1>1, <1>2, <1>7, <2>1, <2>2, <3>1, <3>2, <3>3
           DEF Handled, IsClient, CopyAtCursor, Asks, ReadsOn, CursorMoves, Bounded
    <2>5. CASE c.copy.ready /\ c.copy.owner = m.owner
      <3>1. r.state = d
        BY <2>1, <2>3, <2>5
      <3>2. /\ d \in ProfileMembers /\ d.eventOwner = m.owner /\ d.lastObserved = m.sequence
            /\ d.ownerEpoch = c.ownerEpoch /\ d.inFlight = c.inFlight
            /\ d.refreshPending = c.refreshPending
            /\ d.copy.ready /\ d.copy.owner = m.owner /\ d.copy.sequence = m.sequence
            /\ d.copy.content = c.copy.content
        BY <1>2, <2>5 DEF ProfileMembers
      <3> HIDE DEF d
      <3>3. m.sequence = c.copy.sequence + 1 /\ m.subject # "profile" /\ c.copy.sequence \in Nat
        BY <1>4, <1>10, <2>5 DEF ProfileMembers
      <3>4. CopyMoves(c, m, d)
        BY <2>5, <3>2, <3>3 DEF CopyMoves, CopyAdvances
      <3> QED
        BY <1>1, <1>7, <2>1, <2>2, <3>1, <3>2, <3>4
           DEF Handled, IsClient, CopyAtCursor, Asks, ReadsOn, CursorMoves, Bounded
    <2> QED
      BY <2>4, <2>5
  <1> QED
    BY <1>3, <1>8, <1>9, <1>10

\* A request that is made, or not, when another has ended.
LEMMA ProfileRequestsIf ==
    ASSUME NEW c \in ProfileMembers, kind = "profiles", ~c.inFlight, NEW again \in BOOLEAN,
           c.refreshPending => again, NEW r, r = Profiles!RequestIf(again, c)
    PROVE  /\ r.state \in ProfileMembers
           /\ r.state.ownerEpoch = c.ownerEpoch
           /\ r.state.inFlight <=> again
           /\ r.state.refreshPending => r.state.inFlight
           /\ r.state.eventOwner = c.eventOwner /\ r.state.lastObserved = c.lastObserved
           /\ r.state.copy = c.copy \/ ~r.state.copy.ready
           /\ ~again => r.calls = <<>>
           /\ again => \E call : /\ r.calls = <<call>> /\ call.epoch = c.ownerEpoch
                                 /\ IsRequest(call, c.ownerEpoch) /\ ~AsksForDisplay(call)
  <1> DEFINE idle == [c EXCEPT !.refreshPending = FALSE]
  <1>1. /\ idle \in ProfileMembers /\ idle.ownerEpoch = c.ownerEpoch /\ idle.copy = c.copy
        /\ idle.eventOwner = c.eventOwner /\ idle.lastObserved = c.lastObserved /\ ~idle.inFlight
    BY DEF ProfileMembers
  <1>2. /\ again => r = Profiles!RequestSnapshot(idle)
        /\ ~again => r = Profiles!Result(c, <<>>)
    BY Zenon DEF Profiles!RequestIf
  <1> HIDE DEF idle
  <1>3. CASE again
    <2>1. r = Profiles!RequestSnapshot(idle)
      BY <1>2, <1>3
    <2>2. /\ r.state \in ProfileMembers
          /\ r.state.ownerEpoch = c.ownerEpoch /\ r.state.inFlight
          /\ r.state.eventOwner = c.eventOwner /\ r.state.lastObserved = c.lastObserved
          /\ r.state.copy = c.copy \/ ~r.state.copy.ready
      BY <1>1, <2>1, ProfileRequests
    <2>3. \E call : /\ r.calls = <<call>> /\ call.epoch = c.ownerEpoch
                    /\ IsRequest(call, c.ownerEpoch) /\ ~AsksForDisplay(call)
      BY <1>1, <2>1, ProfileRequests
    <2> QED
      BY <1>3, <2>2, <2>3
  <1>4. CASE ~again
    <2>1. r.state = c /\ r.calls = <<>>
      BY <1>2, <1>4, ProfileResult
    <2> QED
      BY <1>4, <2>1
  <1> QED
    BY <1>3, <1>4

LEMMA ProfileApplies ==
    ASSUME NEW c \in ProfileMembers, NEW a, a.owner \in Owners, a.sequence \in Nat, a.content \in Nat,
           c.lastObserved <= a.sequence, NEW d, d = Profiles!Applied(c, a)
    PROVE  /\ d \in ProfileMembers /\ d.ownerEpoch = c.ownerEpoch /\ (d.inFlight <=> c.inFlight)
           /\ d.refreshPending <=> c.refreshPending
           /\ d.eventOwner = a.owner /\ d.lastObserved = a.sequence
           /\ d.copy.ready /\ d.copy.owner = a.owner /\ d.copy.sequence = a.sequence
           /\ d.copy.content = a.content
  <1> DEFINE copy == [ready |-> TRUE, owner |-> a.owner, sequence |-> a.sequence,
                      content |-> a.content]
             last == Profiles!Newer(c.lastObserved, a.sequence)
  <1>1. last = a.sequence
    BY DEF ProfileMembers, Profiles!Newer
  <1>2. /\ copy \in [ready : BOOLEAN, owner : Owners, sequence : Nat, content : Nat]
        /\ copy.ready /\ copy.owner = a.owner /\ copy.sequence = a.sequence
        /\ copy.content = a.content
    OBVIOUS
  <1>3. d = [c EXCEPT !.copy = copy, !.eventOwner = a.owner, !.lastObserved = last]
    BY Zenon DEF Profiles!Applied
  <1> HIDE DEF copy, last
  <1> QED
    BY <1>1, <1>2, <1>3 DEF ProfileMembers

LEMMA ProfileFinishes ==
    ASSUME NEW c \in ProfileMembers, kind = "profiles", IsClient(c), NEW m, m.kind = "reply",
           m.error \in BOOLEAN, IsAnswered(m) => IsAnswer(m.answer), Waits(c, m),
           NEW r, r = Profiles!FinishSnapshot(c, m)
    PROVE  Handled(c, m, r)
  <1> DEFINE idle == [c EXCEPT !.inFlight = FALSE]
             gone == Profiles!Cleared(idle)
             applied == Profiles!Applied(idle, m.answer)
             current == m.call.epoch = c.ownerEpoch
             fits == ~Profiles!Fenced(c) \/ (c.eventOwner # NoOwner /\ Profiles!Covers(c, m.answer))
  <1>1. m.kind # "owner" /\ ~IsSignal(m) /\ (IsAnswered(m) <=> ~m.error) /\ (IsDated(m) <=> ~m.error)
        /\ OwnerOf(m) = m.answer.owner /\ NumberOf(m) = m.answer.sequence
    BY DEF IsSignal, IsAnswered, IsDated, OwnerOf, NumberOf
  <1>2. /\ idle \in ProfileMembers /\ ~idle.inFlight /\ (idle.refreshPending <=> c.refreshPending)
        /\ idle.ownerEpoch = c.ownerEpoch /\ idle.eventOwner = c.eventOwner
        /\ idle.lastObserved = c.lastObserved
    BY DEF ProfileMembers
  <1>3. /\ ~current => r = Profiles!Result(c, <<>>)
        /\ current /\ m.error => r = Profiles!RequestIf(c.refreshPending, gone)
        /\ current /\ ~m.error /\ ~fits => r = Profiles!RequestIf(TRUE, gone)
        /\ current /\ ~m.error /\ fits => r = Profiles!RequestIf(c.refreshPending, applied)
    BY Zenon DEF Profiles!FinishSnapshot
  <1> HIDE DEF idle
  <1>4. /\ gone \in ProfileMembers /\ ~gone.copy.ready /\ ~gone.inFlight
        /\ gone.ownerEpoch = c.ownerEpoch /\ gone.eventOwner = c.eventOwner
        /\ gone.lastObserved = c.lastObserved /\ (gone.refreshPending <=> c.refreshPending)
    BY <1>2, ProfileCleared
  <1>5. c.refreshPending \in BOOLEAN
    BY DEF ProfileMembers
  <1> HIDE DEF gone
  <1>6. CASE ~current
    <2>1. r.state = c /\ r.calls = <<>>
      BY <1>3, <1>6, ProfileResult
    <2>2. \A x : r.calls # <<x>>
      BY <2>1
    <2>3. c.refreshPending => c.inFlight
      BY DEF Waits
    <2>4. CopyMoves(c, m, c)
      BY <1>1 DEF CopyMoves, CopyStays
    <2> QED
      BY <1>1, <1>6, <2>1, <2>2, <2>3, <2>4 DEF Handled, Asks, ReadsOn, CursorMoves
  <1>7. ASSUME NEW again \in BOOLEAN, NEW x \in ProfileMembers, ~x.inFlight, x.refreshPending => again,
               x.ownerEpoch = c.ownerEpoch, r = Profiles!RequestIf(again, x), current,
               \/ ~x.copy.ready /\ x.eventOwner = c.eventOwner /\ x.lastObserved = c.lastObserved
               \/ /\ IsAnswered(m)
                  /\ x.copy.owner = m.answer.owner /\ x.copy.sequence = m.answer.sequence
                  /\ x.copy.content = m.answer.content
                  /\ x.eventOwner = m.answer.owner /\ x.lastObserved = m.answer.sequence
        PROVE  Handled(c, m, r)
    <2>1. /\ r.state \in ProfileMembers
          /\ r.state.ownerEpoch = c.ownerEpoch
          /\ r.state.inFlight <=> again
          /\ r.state.refreshPending => r.state.inFlight
          /\ r.state.eventOwner = x.eventOwner /\ r.state.lastObserved = x.lastObserved
          /\ r.state.copy = x.copy \/ ~r.state.copy.ready
          /\ ~again => r.calls = <<>>
      BY <1>7, ProfileRequestsIf
    <2>2. again => \E call : /\ r.calls = <<call>> /\ call.epoch = x.ownerEpoch
                             /\ IsRequest(call, x.ownerEpoch) /\ ~AsksForDisplay(call)
      <3>1. r = Profiles!RequestIf(again, x) /\ ~x.inFlight /\ (x.refreshPending => again)
        BY <1>7
      <3> QED
        BY ONLY kind = "profiles", x \in ProfileMembers, again \in BOOLEAN, <3>1,
                ProfileRequestsIf, Zenon
    <2>3. (r.state.inFlight <=> r.calls # <<>>) /\ ReadsOn(m, r)
          /\ (r.calls = <<>> \/ \E call : /\ r.calls = <<call>> /\ call.epoch = c.ownerEpoch
                                          /\ IsRequest(call, c.ownerEpoch))
      <3>1. CASE again
        <4>1. PICK call : /\ r.calls = <<call>> /\ call.epoch = c.ownerEpoch
                          /\ IsRequest(call, c.ownerEpoch) /\ ~AsksForDisplay(call)
          BY <1>7, <2>2, <3>1
        <4>2. r.calls # <<>> /\ \A y : r.calls = <<y>> => y = call
          BY <4>1
        <4> QED
          BY <2>1, <3>1, <4>1, <4>2 DEF ReadsOn
      <3>2. CASE ~again
        <4>1. r.calls = <<>>
          BY <2>1, <3>2
        <4>2. \A y : r.calls # <<y>>
          BY <4>1
        <4> QED
          BY <2>1, <3>2, <4>1, <4>2 DEF ReadsOn
      <3> QED
        BY <3>1, <3>2
    <2>4. Asks(c, m, r)
      BY <1>1, <1>7, <2>1, <2>3 DEF Asks
    <2>5. CASE ~x.copy.ready /\ x.eventOwner = c.eventOwner /\ x.lastObserved = c.lastObserved
      <3>1. ~r.state.copy.ready
        BY <2>1, <2>5
      <3> QED
        BY <1>1, <2>1, <2>3, <2>4, <2>5, <3>1
           DEF Handled, IsClient, CopyAtCursor, CursorMoves, CopyMoves, Bounded
    <2>6. CASE /\ IsAnswered(m)
               /\ x.copy.owner = m.answer.owner /\ x.copy.sequence = m.answer.sequence
               /\ x.copy.content = m.answer.content
               /\ x.eventOwner = m.answer.owner /\ x.lastObserved = m.answer.sequence
      <3>1. m.answer.owner = NoOwner => m.answer.sequence = 0
        BY <2>6 DEF IsAnswer
      <3>2. IsClient(r.state)
        BY <2>1, <2>6, <3>1 DEF IsClient, CopyAtCursor
      <3>3. CopyMoves(c, m, r.state)
        BY <2>1, <2>6 DEF CopyMoves, CopyIsTaken
      <3> QED
        BY <1>1, <2>1, <2>3, <2>4, <2>6, <3>2, <3>3 DEF Handled, CursorMoves, Bounded
    <2> QED
      BY <1>7, <2>5, <2>6
  <1>8. CASE current /\ m.error
    BY <1>3, <1>4, <1>5, <1>7, <1>8
  <1>9. CASE current /\ ~m.error /\ ~fits
    BY <1>3, <1>4, <1>7, <1>9
  <1>10. CASE current /\ ~m.error /\ fits
    <2>1. /\ m.answer.owner \in Owners /\ m.answer.sequence \in Nat /\ m.answer.content \in Nat
      BY <1>1, <1>10 DEF IsAnswer
    <2>2. c.lastObserved <= m.answer.sequence
      <3>1. CASE c.eventOwner = NoOwner
        BY <2>1, <3>1 DEF IsClient
      <3>2. CASE c.eventOwner # NoOwner
        BY <1>10, <2>1, <3>2 DEF Profiles!Fenced, Profiles!Covers, ProfileMembers
      <3> QED
        BY <3>1, <3>2
    <2>3. /\ applied \in ProfileMembers /\ applied.ownerEpoch = c.ownerEpoch /\ ~applied.inFlight
          /\ applied.refreshPending <=> c.refreshPending
          /\ applied.eventOwner = m.answer.owner /\ applied.lastObserved = m.answer.sequence
          /\ applied.copy.owner = m.answer.owner
          /\ applied.copy.sequence = m.answer.sequence
          /\ applied.copy.content = m.answer.content
      BY <1>2, <2>1, <2>2, ProfileApplies
    <2> HIDE DEF applied, fits
    <2>4. r = Profiles!RequestIf(c.refreshPending, applied)
      BY <1>3, <1>10
    <2> QED
      BY <1>1, <1>5, <1>7, <1>10, <2>3, <2>4
  <1> QED
    BY <1>6, <1>8, <1>9, <1>10

-----------------------------------------------------------------------------
(* The hardware client.                                                    *)

LEMMA HardwareResult ==
    ASSUME NEW x, NEW s
    PROVE  Hardware!Result(x, s).state = x /\ Hardware!Result(x, s).calls = s
  BY DEF Hardware!Result

LEMMA HardwareCleared ==
    ASSUME NEW c \in HardwareMembers, NEW d, d = Hardware!Cleared(c)
    PROVE  /\ d \in HardwareMembers /\ ~d.copy.ready
           /\ d.ownerEpoch = c.ownerEpoch /\ d.moved = c.moved /\ (d.inFlight <=> c.inFlight)
           /\ d.refreshPending <=> c.refreshPending
           /\ d.eventOwner = c.eventOwner /\ d.lastObserved = c.lastObserved
           /\ d.lastHardware = c.lastHardware
  BY NobodyTyped DEF HardwareMembers, Hardware!Cleared, Hardware!NoCopy

LEMMA HardwareRefreshes ==
    ASSUME NEW c \in HardwareMembers, kind = "hardware", NEW r, r = Hardware!Refresh(c)
    PROVE  /\ r.state \in HardwareMembers
           /\ r.state.ownerEpoch = c.ownerEpoch /\ r.state.inFlight
           /\ r.state.eventOwner = c.eventOwner /\ r.state.lastObserved = c.lastObserved
           /\ r.state.lastHardware = c.lastHardware /\ r.state.copy = c.copy
           /\ c.inFlight => r.calls = <<>>
           /\ ~c.inFlight =>
                \E call : /\ r.calls = <<call>> /\ call.epoch = c.ownerEpoch
                          /\ IsRequest(call, c.ownerEpoch) /\ ~AsksForDisplay(call)
  <1> DEFINE waits == [c EXCEPT !.refreshPending = TRUE]
             asked == [c EXCEPT !.inFlight = TRUE, !.refreshPending = FALSE, !.moved = FALSE]
             call == Hardware!ListDevices(c)
  <1>1. /\ c.inFlight => r = Hardware!Result(waits, <<>>)
        /\ ~c.inFlight => r = Hardware!Result(asked, <<call>>)
    BY Zenon DEF Hardware!Refresh
  <1>2. /\ waits \in HardwareMembers /\ waits.ownerEpoch = c.ownerEpoch /\ waits.copy = c.copy
        /\ waits.eventOwner = c.eventOwner /\ waits.lastObserved = c.lastObserved
        /\ waits.lastHardware = c.lastHardware
        /\ c.inFlight => waits.inFlight
    BY DEF HardwareMembers
  <1>3. /\ asked \in HardwareMembers /\ asked.ownerEpoch = c.ownerEpoch /\ asked.copy = c.copy
        /\ asked.eventOwner = c.eventOwner /\ asked.lastObserved = c.lastObserved
        /\ asked.lastHardware = c.lastHardware /\ asked.inFlight
    BY DEF HardwareMembers
  <1>4. call.epoch = c.ownerEpoch /\ IsRequest(call, c.ownerEpoch) /\ ~AsksForDisplay(call)
    BY DEF HardwareMembers, Hardware!ListDevices, IsRequest, AsksForDisplay
  <1> HIDE DEF waits, asked, call
  <1> QED
    BY <1>1, <1>2, <1>3, <1>4, HardwareResult

LEMMA HardwareMeetsOwner ==
    ASSUME NEW c \in HardwareMembers, kind = "hardware", NEW m, m.kind = "owner",
           NEW r, r = Hardware!OnServiceOwnerChanged(c, m.alive)
    PROVE  Handled(c, m, r)
  <1> DEFINE none == Hardware!NoClient
             fresh == [none EXCEPT !.ownerEpoch = c.ownerEpoch + 1]
  <1>1. /\ none \in HardwareMembers
        /\ ~none.inFlight /\ ~none.refreshPending /\ ~none.copy.ready
        /\ none.eventOwner = NoOwner /\ none.lastObserved = 0 /\ none.lastHardware = 0
    BY NobodyTyped DEF HardwareMembers, Hardware!NoClient, Hardware!NoCopy
  <1>2. /\ fresh \in HardwareMembers /\ fresh.ownerEpoch = c.ownerEpoch + 1
        /\ ~fresh.inFlight /\ ~fresh.refreshPending /\ ~fresh.copy.ready
        /\ fresh.eventOwner = NoOwner /\ fresh.lastObserved = 0 /\ fresh.lastHardware = 0
    <2> HIDE DEF none
    <2> QED
      BY <1>1 DEF HardwareMembers
  <1>3. /\ m.alive => r = Hardware!Refresh(fresh)
        /\ ~m.alive => r = Hardware!Result(fresh, <<>>)
    BY Zenon DEF Hardware!OnServiceOwnerChanged
  <1> HIDE DEF fresh
  <1>4. ~IsSignal(m) /\ ~IsDated(m)
    BY DEF IsSignal, IsDated, IsAnswered
  <1>5. CASE m.alive
    <2>0. r = Hardware!Refresh(fresh) /\ ~fresh.inFlight /\ fresh \in HardwareMembers
      BY <1>2, <1>3, <1>5
    <2>1. /\ r.state \in HardwareMembers
          /\ r.state.ownerEpoch = c.ownerEpoch + 1 /\ r.state.inFlight
          /\ r.state.eventOwner = NoOwner /\ r.state.lastObserved = 0
          /\ r.state.lastHardware = 0 /\ ~r.state.copy.ready
      <3>1. /\ r.state \in HardwareMembers
            /\ r.state.ownerEpoch = fresh.ownerEpoch /\ r.state.inFlight
            /\ r.state.eventOwner = fresh.eventOwner /\ r.state.lastObserved = fresh.lastObserved
            /\ r.state.lastHardware = fresh.lastHardware /\ r.state.copy = fresh.copy
        BY <2>0, HardwareRefreshes
      <3> QED
        BY <1>2, <3>1
    <2>2. PICK call : /\ r.calls = <<call>> /\ call.epoch = fresh.ownerEpoch
                      /\ IsRequest(call, fresh.ownerEpoch) /\ ~AsksForDisplay(call)
      BY ONLY kind = "hardware", <2>0, HardwareRefreshes, Zenon
    <2>3. r.calls # <<>> /\ \A x : r.calls = <<x>> => x = call
      BY <2>2
    <2> QED
      BY <1>2, <1>4, <2>1, <2>2, <2>3
         DEF Handled, IsClient, CopyAtCursor, Asks, ReadsOn, CursorMoves, CopyMoves, Bounded
  <1>6. CASE ~m.alive
    <2>1. r.state = fresh /\ r.calls = <<>>
      BY <1>3, <1>6, HardwareResult
    <2>2. \A x : r.calls # <<x>>
      BY <2>1
    <2> QED
      BY <1>2, <1>4, <2>1, <2>2
         DEF Handled, IsClient, CopyAtCursor, Asks, ReadsOn, CursorMoves, CopyMoves, Bounded
  <1> QED
    BY <1>5, <1>6

LEMMA HardwareHeard ==
    ASSUME NEW c \in HardwareMembers, NEW e, e.owner \in Owners, e.sequence \in Nat,
           NEW specific \in BOOLEAN, NEW d, d = Hardware!Heard(c, e, specific)
    PROVE  /\ d \in HardwareMembers
           /\ d.eventOwner = e.owner
           /\ d.lastObserved >= c.lastObserved /\ d.lastObserved >= e.sequence
           /\ c.lastObserved <= e.sequence => d.lastObserved = e.sequence
           /\ d.lastObserved = Hardware!Newer(c.lastObserved, e.sequence)
           /\ d.lastHardware = c.lastHardware \/ d.lastHardware <= e.sequence
           /\ d.ownerEpoch = c.ownerEpoch /\ (d.inFlight <=> c.inFlight) /\ d.copy = c.copy
           /\ d.refreshPending <=> c.refreshPending
  <1> DEFINE last == Hardware!Newer(c.lastObserved, e.sequence)
             hardware == IF specific THEN Hardware!Newer(c.lastHardware, e.sequence)
                                     ELSE c.lastHardware
  <1>1. /\ last \in Nat /\ last >= c.lastObserved /\ last >= e.sequence
        /\ c.lastObserved <= e.sequence => last = e.sequence
        /\ hardware \in Nat /\ (hardware = c.lastHardware \/ hardware <= e.sequence)
    BY DEF HardwareMembers, Hardware!Newer
  <1>2. d = [c EXCEPT !.eventOwner = e.owner, !.moved = TRUE, !.lastObserved = last,
                      !.lastHardware = hardware]
    BY Zenon DEF Hardware!Heard
  <1>3. last = Hardware!Newer(c.lastObserved, e.sequence)
    OBVIOUS
  <1> HIDE DEF last, hardware
  <1> QED
    BY <1>1, <1>2, <1>3 DEF HardwareMembers

\* A handler that reads again, with nothing to show until then.
LEMMA HardwareRereads ==
    ASSUME NEW c \in HardwareMembers, kind = "hardware", NEW m, m.kind \in {"event", "value", "reply"},
           m.kind = "reply" => m.call.epoch = c.ownerEpoch,
           NEW x \in HardwareMembers, ~x.copy.ready, x.ownerEpoch = c.ownerEpoch,
           x.inFlight <=> c.inFlight /\ IsSignal(m),
           x.eventOwner = NoOwner => x.lastObserved = 0,
           Later(c, m) /\ Bounded(c) => CursorMoves(c, m, x) /\ x.lastHardware <= x.lastObserved,
           NEW r, r = Hardware!Refresh(x)
    PROVE  Handled(c, m, r)
  <1>1. /\ r.state \in HardwareMembers
        /\ r.state.ownerEpoch = c.ownerEpoch /\ r.state.inFlight
        /\ r.state.eventOwner = x.eventOwner /\ r.state.lastObserved = x.lastObserved
        /\ r.state.lastHardware = x.lastHardware /\ ~r.state.copy.ready
        /\ x.inFlight => r.calls = <<>>
    BY HardwareRefreshes
  <1>2. ~x.inFlight => \E call : /\ r.calls = <<call>> /\ call.epoch = x.ownerEpoch
                                 /\ IsRequest(call, x.ownerEpoch) /\ ~AsksForDisplay(call)
    BY ONLY kind = "hardware", x \in HardwareMembers, r = Hardware!Refresh(x), HardwareRefreshes, Zenon
  <1>3. /\ IsClient(r.state)
        /\ Later(c, m) /\ Bounded(c) =>
             CursorMoves(c, m, r.state) /\ CopyMoves(c, m, r.state) /\ Bounded(r.state)
    BY <1>1 DEF IsClient, CopyAtCursor, CursorMoves, CopyMoves, Bounded
  <1>4. m.kind # "owner" /\ (IsSignal(m) <=> m.kind # "reply")
    BY DEF IsSignal
  <1>5. CASE x.inFlight
    <2>1. r.calls = <<>>
      BY <1>1, <1>5
    <2>2. \A y : r.calls # <<y>>
      BY <2>1
    <2> QED
      BY <1>1, <1>3, <1>4, <1>5, <2>1, <2>2 DEF Handled, Asks, ReadsOn
  <1>6. CASE ~x.inFlight
    <2>1. PICK call : /\ r.calls = <<call>> /\ call.epoch = c.ownerEpoch
                      /\ IsRequest(call, c.ownerEpoch) /\ ~AsksForDisplay(call)
      BY <1>2, <1>6
    <2>2. r.calls # <<>> /\ \A y : r.calls = <<y>> => y = call
      BY <2>1
    <2> QED
      BY <1>1, <1>3, <1>4, <1>6, <2>1, <2>2 DEF Handled, Asks, ReadsOn
  <1> QED
    BY <1>5, <1>6

LEMMA HardwareHears ==
    ASSUME NEW c \in HardwareMembers, kind = "hardware", IsClient(c), NEW m, IsSignal(m),
           m.owner \in Owners, m.owner # NoOwner, m.sequence \in Nat, Waits(c, m),
           NEW specific \in BOOLEAN, specific <=> m.kind = "value",
           NEW r, r = Hardware!AcceptEventIdentity(c, m, specific)
    PROVE  Handled(c, m, r)
  <1> DEFINE heard == Hardware!Heard(c, m, specific)
             gone == Hardware!Cleared(heard)
             last == Hardware!Newer(heard.copy.sequence, m.sequence)
             advanced == [heard EXCEPT !.copy.sequence = last]
             repeated == Hardware!IsRepeated(c, m, specific)
             voids == Hardware!Voids(c, m, specific)
  <1>1. /\ m.kind \in {"event", "value", "reply"} /\ m.kind # "owner" /\ m.kind # "reply"
        /\ IsDated(m) /\ OwnerOf(m) = m.owner /\ NumberOf(m) = m.sequence /\ ~IsAnswered(m)
    BY DEF IsSignal, IsDated, IsAnswered, OwnerOf, NumberOf
  <1>2. /\ heard \in HardwareMembers
        /\ heard.eventOwner = m.owner
        /\ heard.lastObserved >= c.lastObserved /\ heard.lastObserved >= m.sequence
        /\ c.lastObserved <= m.sequence => heard.lastObserved = m.sequence
        /\ heard.lastHardware = c.lastHardware \/ heard.lastHardware <= m.sequence
        /\ heard.ownerEpoch = c.ownerEpoch /\ (heard.inFlight <=> c.inFlight) /\ heard.copy = c.copy
        /\ heard.refreshPending <=> c.refreshPending
    BY HardwareHeard
  <1>3. heard.lastObserved = Hardware!Newer(c.lastObserved, m.sequence)
    BY HardwareHeard
  <1>4. /\ repeated => r = Hardware!Result(c, <<>>)
        /\ ~repeated /\ voids => r = Hardware!Refresh(gone)
        /\ ~repeated /\ ~voids /\ ~heard.copy.ready => r = Hardware!Refresh(heard)
        /\ ~repeated /\ ~voids /\ heard.copy.ready => r = Hardware!Result(advanced, <<>>)
    BY <1>2, Zenon DEF Hardware!AcceptEventIdentity, Hardware!Invalidated
  <1>5. ~voids => ~specific /\ (c.copy.ready => c.copy.owner = m.owner)
    BY DEF Hardware!Voids, Hardware!IsForeign
  <1>6. repeated /\ Bounded(c) /\ c.copy.ready => m.sequence <= c.copy.sequence
    <2> SUFFICES ASSUME repeated, Bounded(c), c.copy.ready PROVE m.sequence <= c.copy.sequence
      OBVIOUS
    <2>1. c.copy.sequence = c.lastObserved
      BY DEF IsClient, CopyAtCursor
    <2> QED
      BY <2>1 DEF Hardware!IsRepeated, Bounded, HardwareMembers
  <1>7. c.refreshPending => c.inFlight
    BY DEF Waits
  <1>8. Later(c, m) /\ Bounded(c) => heard.lastHardware <= heard.lastObserved
    BY <1>1, <1>2 DEF Later, Bounded, HardwareMembers
  <1>9. Later(c, m) => heard.lastObserved = m.sequence
    BY <1>1, <1>2 DEF Later
  <1> HIDE DEF heard, repeated, voids
  <1>10. CASE repeated
    <2>1. r.state = c /\ r.calls = <<>>
      BY <1>4, <1>10, HardwareResult
    <2>2. \A x : r.calls # <<x>>
      BY <2>1
    <2>3. Bounded(c) => CopyMoves(c, m, c)
      BY <1>1, <1>6, <1>10 DEF CopyMoves, CopyStays
    <2> QED
      BY <1>1, <1>7, <2>1, <2>2, <2>3 DEF Handled, Asks, ReadsOn, CursorMoves
  <1>11. CASE ~repeated /\ voids
    <2>1. /\ gone \in HardwareMembers /\ ~gone.copy.ready
          /\ gone.ownerEpoch = c.ownerEpoch /\ (gone.inFlight <=> c.inFlight)
          /\ gone.eventOwner = m.owner /\ gone.lastObserved = heard.lastObserved
          /\ gone.lastHardware = heard.lastHardware
      BY <1>2, HardwareCleared
    <2>2. r = Hardware!Refresh(gone)
      BY <1>4, <1>11
    <2> HIDE DEF gone
    <2>3. Later(c, m) /\ Bounded(c) =>
            CursorMoves(c, m, gone) /\ gone.lastHardware <= gone.lastObserved
      BY <1>1, <1>8, <1>9, <2>1 DEF CursorMoves
    <2> QED
      BY <1>1, <2>1, <2>2, <2>3, HardwareRereads
  <1>12. CASE ~repeated /\ ~voids /\ ~heard.copy.ready
    <2>1. r = Hardware!Refresh(heard)
      BY <1>4, <1>12
    <2>2. Later(c, m) /\ Bounded(c) =>
            CursorMoves(c, m, heard) /\ heard.lastHardware <= heard.lastObserved
      BY <1>1, <1>2, <1>8, <1>9 DEF CursorMoves
    <2> QED
      BY <1>1, <1>2, <1>12, <2>1, <2>2, HardwareRereads
  <1>13. CASE ~repeated /\ ~voids /\ heard.copy.ready
    <2>1. r.state = advanced /\ r.calls = <<>>
      BY <1>4, <1>13, HardwareResult
    <2>2. \A x : r.calls # <<x>>
      BY <2>1
    <2>3. c.copy.ready /\ c.copy.owner = m.owner /\ c.copy.sequence = c.lastObserved
          /\ ~specific /\ c.copy.sequence \in Nat /\ c.lastObserved \in Nat
      BY <1>2, <1>5, <1>13 DEF IsClient, CopyAtCursor, HardwareMembers
    <2>4. last = heard.lastObserved /\ last >= c.copy.sequence /\ last \in Nat
      BY <1>2, <1>3, <2>3 DEF HardwareMembers
    <2> HIDE DEF last
    <2>5. /\ advanced \in HardwareMembers /\ advanced.eventOwner = m.owner
          /\ advanced.lastObserved = last /\ advanced.lastHardware = heard.lastHardware
          /\ advanced.ownerEpoch = c.ownerEpoch /\ (advanced.inFlight <=> c.inFlight)
          /\ advanced.refreshPending <=> c.refreshPending
          /\ advanced.copy.ready /\ advanced.copy.owner = m.owner /\ advanced.copy.sequence = last
          /\ advanced.copy.content = c.copy.content
          /\ advanced.copy.snapshotSequence = c.copy.snapshotSequence
      BY <1>2, <1>13, <2>3, <2>4 DEF HardwareMembers
    <2> HIDE DEF advanced
    <2>6. IsClient(advanced)
      BY <2>5 DEF IsClient, CopyAtCursor
    <2>7. ASSUME Later(c, m), Bounded(c)
          PROVE  CursorMoves(c, m, advanced) /\ CopyMoves(c, m, advanced) /\ Bounded(advanced)
      <3>1. last = m.sequence /\ c.copy.snapshotSequence <= c.copy.sequence
            /\ heard.lastHardware <= last /\ c.copy.snapshotSequence \in Nat
        BY <1>8, <1>9, <2>3, <2>4, <2>7 DEF Bounded, HardwareMembers
      <3>2. ~IsVoid(m)
        BY <2>3 DEF IsVoid
      <3>3. c.copy.snapshotSequence <= last
        BY <2>3, <2>4, <3>1
      <3> QED
        BY <1>1, <2>3, <2>4, <2>5, <3>1, <3>2, <3>3
           DEF CursorMoves, CopyMoves, CopyAdvances, Bounded
    <2> QED
      BY <1>1, <1>7, <2>1, <2>2, <2>5, <2>6, <2>7 DEF Handled, Asks, ReadsOn
  <1> QED
    BY <1>10, <1>11, <1>12, <1>13

LEMMA HardwareApplies ==
    ASSUME NEW c \in HardwareMembers, NEW a, a.owner \in Owners, a.sequence \in Nat, a.content \in Nat,
           NEW d, d = Hardware!Applied(c, a)
    PROVE  /\ d \in HardwareMembers /\ d.ownerEpoch = c.ownerEpoch /\ (d.inFlight <=> c.inFlight)
           /\ ~d.refreshPending
           /\ d.eventOwner = a.owner /\ d.lastObserved = a.sequence
           /\ c.lastHardware <= a.sequence => d.lastHardware = 0
           /\ d.copy.ready /\ d.copy.owner = a.owner /\ d.copy.sequence = a.sequence
           /\ d.copy.snapshotSequence = a.sequence
           /\ d.copy.content = a.content
  <1> DEFINE copy == [ready |-> TRUE, owner |-> a.owner, sequence |-> a.sequence,
                      snapshotSequence |-> a.sequence, content |-> a.content]
             last == IF c.lastHardware <= a.sequence THEN 0 ELSE c.lastHardware
  <1>1. last \in Nat /\ (c.lastHardware <= a.sequence => last = 0)
    BY DEF HardwareMembers
  <1>2. /\ copy \in [ready : BOOLEAN, owner : Owners, sequence : Nat, snapshotSequence : Nat,
                     content : Nat]
        /\ copy.ready /\ copy.owner = a.owner /\ copy.sequence = a.sequence
        /\ copy.snapshotSequence = a.sequence /\ copy.content = a.content
    OBVIOUS
  <1>3. d = [c EXCEPT !.copy = copy, !.eventOwner = a.owner, !.lastObserved = a.sequence,
                      !.lastHardware = last, !.refreshPending = FALSE]
    BY Zenon DEF Hardware!Applied
  <1> HIDE DEF copy, last
  <1> QED
    BY <1>1, <1>2, <1>3 DEF HardwareMembers

LEMMA HardwareFinishes ==
    ASSUME NEW c \in HardwareMembers, kind = "hardware", IsClient(c), NEW m, m.kind = "reply",
           m.error \in BOOLEAN, IsAnswered(m) => IsAnswer(m.answer), Waits(c, m),
           NEW r, r = Hardware!FinishRefresh(c, m)
    PROVE  Handled(c, m, r)
  <1> DEFINE idle == [c EXCEPT !.inFlight = FALSE]
             cleared == Hardware!Cleared(idle)
             empty == [cleared EXCEPT !.refreshPending = FALSE]
             applied == Hardware!Applied(idle, m.answer)
             current == m.call.epoch = c.ownerEpoch
             taken == Hardware!IsValid(m) /\ Hardware!Covers(c, m.answer)
  <1>1. m.kind # "owner" /\ ~IsSignal(m) /\ (IsAnswered(m) <=> ~m.error) /\ (IsDated(m) <=> ~m.error)
        /\ OwnerOf(m) = m.answer.owner /\ NumberOf(m) = m.answer.sequence
    BY DEF IsSignal, IsAnswered, IsDated, OwnerOf, NumberOf
  <1>2. /\ idle \in HardwareMembers /\ ~idle.inFlight /\ (idle.refreshPending <=> c.refreshPending)
        /\ idle.ownerEpoch = c.ownerEpoch /\ idle.eventOwner = c.eventOwner
        /\ idle.lastObserved = c.lastObserved /\ idle.lastHardware = c.lastHardware
    BY DEF HardwareMembers
  <1>3. /\ ~current => r = Hardware!Result(c, <<>>)
        /\ current /\ ~taken => r = Hardware!Refresh(empty) \/ r = Hardware!Result(empty, <<>>)
        /\ current /\ taken => r = Hardware!Refresh(cleared) \/ r = Hardware!Result(applied, <<>>)
    BY Zenon DEF Hardware!FinishRefresh
  <1> HIDE DEF idle
  <1>4. /\ cleared \in HardwareMembers /\ ~cleared.copy.ready /\ ~cleared.inFlight
        /\ cleared.ownerEpoch = c.ownerEpoch /\ cleared.eventOwner = c.eventOwner
        /\ cleared.lastObserved = c.lastObserved /\ cleared.lastHardware = c.lastHardware
    BY <1>2, HardwareCleared
  <1> HIDE DEF cleared
  <1>5. /\ empty \in HardwareMembers /\ ~empty.copy.ready /\ ~empty.inFlight /\ ~empty.refreshPending
        /\ empty.ownerEpoch = c.ownerEpoch /\ empty.eventOwner = c.eventOwner
        /\ empty.lastObserved = c.lastObserved /\ empty.lastHardware = c.lastHardware
    BY <1>4 DEF HardwareMembers
  <1> HIDE DEF empty
  <1>6. CASE ~current
    <2>1. r.state = c /\ r.calls = <<>>
      BY <1>3, <1>6, HardwareResult
    <2>2. \A x : r.calls # <<x>>
      BY <2>1
    <2>3. c.refreshPending => c.inFlight
      BY DEF Waits
    <2>4. CopyMoves(c, m, c)
      BY <1>1 DEF CopyMoves, CopyStays
    <2> QED
      BY <1>1, <1>6, <2>1, <2>2, <2>3, <2>4 DEF Handled, Asks, ReadsOn, CursorMoves
  <1>7. ASSUME NEW x \in HardwareMembers, ~x.copy.ready, ~x.inFlight, current,
               x.ownerEpoch = c.ownerEpoch, x.eventOwner = c.eventOwner,
               x.lastObserved = c.lastObserved, x.lastHardware = c.lastHardware,
               \/ r = Hardware!Refresh(x)
               \/ r = Hardware!Result(x, <<>>) /\ ~x.refreshPending
        PROVE  Handled(c, m, r)
    <2>1. /\ x.eventOwner = NoOwner => x.lastObserved = 0
          /\ Later(c, m) /\ Bounded(c) => CursorMoves(c, m, x) /\ x.lastHardware <= x.lastObserved
      BY <1>1, <1>7 DEF IsClient, CursorMoves, Bounded
    <2>2. CASE r = Hardware!Refresh(x)
      BY <1>1, <1>7, <2>1, <2>2, HardwareRereads
    <2>3. CASE r = Hardware!Result(x, <<>>) /\ ~x.refreshPending
      <3>1. r.state = x /\ r.calls = <<>>
        BY <2>3, HardwareResult
      <3>2. \A y : r.calls # <<y>>
        BY <3>1
      <3> QED
        BY <1>1, <1>7, <2>1, <2>3, <3>1, <3>2
           DEF Handled, IsClient, CopyAtCursor, Asks, ReadsOn, CopyMoves, Bounded
    <2> QED
      BY <1>7, <2>2, <2>3
  <1>8. CASE current /\ ~taken
    BY <1>3, <1>5, <1>7, <1>8
  <1>9. CASE current /\ taken /\ r = Hardware!Refresh(cleared)
    BY <1>4, <1>7, <1>9
  <1>10. CASE current /\ taken /\ r = Hardware!Result(applied, <<>>)
    <2>1. IsAnswered(m) /\ m.answer.code = "OK"
      BY <1>1, <1>10 DEF Hardware!IsValid
    <2>2. /\ m.answer.owner \in Owners /\ m.answer.sequence \in Nat /\ m.answer.content \in Nat
          /\ m.answer.owner # NoOwner
      BY <2>1 DEF IsAnswer
    <2>3. /\ applied \in HardwareMembers /\ applied.ownerEpoch = c.ownerEpoch /\ ~applied.inFlight
          /\ ~applied.refreshPending
          /\ applied.eventOwner = m.answer.owner /\ applied.lastObserved = m.answer.sequence
          /\ c.lastHardware <= m.answer.sequence => applied.lastHardware = 0
          /\ applied.copy.ready /\ applied.copy.owner = m.answer.owner
          /\ applied.copy.sequence = m.answer.sequence
          /\ applied.copy.snapshotSequence = m.answer.sequence
          /\ applied.copy.content = m.answer.content
      BY <1>2, <2>2, HardwareApplies
    <2>4. r.state = applied /\ r.calls = <<>>
      BY <1>10, HardwareResult
    <2>5. \A y : r.calls # <<y>>
      BY <2>4
    <2> HIDE DEF applied, taken
    <2>6. IsClient(applied)
      BY <2>2, <2>3 DEF IsClient, CopyAtCursor
    <2>7. ASSUME Later(c, m), Bounded(c)
          PROVE  CursorMoves(c, m, applied) /\ CopyMoves(c, m, applied) /\ Bounded(applied)
      <3>1. c.lastHardware <= m.answer.sequence
        BY <1>1, <2>1, <2>2, <2>7 DEF Later, Bounded, HardwareMembers
      <3>2. CopyMoves(c, m, applied)
        BY <2>1, <2>3 DEF CopyMoves, CopyIsTaken
      <3> QED
        BY <1>1, <2>1, <2>2, <2>3, <3>1, <3>2 DEF CursorMoves, Bounded, HardwareMembers
    <2> QED
      BY <1>1, <1>10, <2>3, <2>4, <2>5, <2>6, <2>7 DEF Handled, Asks, ReadsOn
  <1> QED
    BY <1>3, <1>6, <1>8, <1>9, <1>10

-----------------------------------------------------------------------------
(* The display client.                                                     *)

LEMMA DisplayResult ==
    ASSUME NEW x, NEW s
    PROVE  Display!Result(x, s).state = x /\ Display!Result(x, s).calls = s
  BY DEF Display!Result

LEMMA NothingTyped == <<>> \in Seq(Nat)
  OBVIOUS

LEMMA DisplayCleared ==
    ASSUME NEW c \in DisplayMembers, NEW d, d = Display!Cleared(c)
    PROVE  /\ d \in DisplayMembers /\ ~d.copy.ready
           /\ d.ownerEpoch = c.ownerEpoch /\ d.moved = c.moved /\ (d.inFlight <=> c.inFlight)
           /\ d.refreshPending <=> c.refreshPending
           /\ d.eventOwner = c.eventOwner /\ d.lastObserved = c.lastObserved
           /\ d.recent = c.recent
  <1> DEFINE none == Display!NoCopy
  <1>1. none \in [ready : BOOLEAN, owner : Owners, sequence : Nat, content : Seq(Nat)] /\ ~none.ready
    BY NobodyTyped, NothingTyped DEF Display!NoCopy
  <1>2. d = [c EXCEPT !.copy = none]
    BY DEF Display!Cleared
  <1> HIDE DEF none
  <1> QED
    BY <1>1, <1>2 DEF DisplayMembers

LEMMA DisplayRefreshes ==
    ASSUME NEW c \in DisplayMembers, kind = "display", NEW r, r = Display!Refresh(c)
    PROVE  /\ r.state \in DisplayMembers
           /\ r.state.ownerEpoch = c.ownerEpoch /\ r.state.inFlight
           /\ r.state.eventOwner = c.eventOwner /\ r.state.lastObserved = c.lastObserved
           /\ r.state.recent = c.recent /\ r.state.copy = c.copy
           /\ c.inFlight => r.calls = <<>>
           /\ ~c.inFlight =>
                \E call : /\ r.calls = <<call>> /\ call.epoch = c.ownerEpoch
                          /\ IsRequest(call, c.ownerEpoch) /\ ~AsksForDisplay(call)
  <1> DEFINE waits == [c EXCEPT !.refreshPending = TRUE]
             asked == [c EXCEPT !.inFlight = TRUE, !.refreshPending = FALSE, !.moved = FALSE]
             call == Display!ListDisplays(c)
  <1>1. /\ c.inFlight => r = Display!Result(waits, <<>>)
        /\ ~c.inFlight => r = Display!Result(asked, <<call>>)
    BY Zenon DEF Display!Refresh
  <1>2. /\ waits \in DisplayMembers /\ waits.ownerEpoch = c.ownerEpoch /\ waits.copy = c.copy
        /\ waits.eventOwner = c.eventOwner /\ waits.lastObserved = c.lastObserved
        /\ waits.recent = c.recent
        /\ c.inFlight => waits.inFlight
    BY DEF DisplayMembers
  <1>3. /\ asked \in DisplayMembers /\ asked.ownerEpoch = c.ownerEpoch /\ asked.copy = c.copy
        /\ asked.eventOwner = c.eventOwner /\ asked.lastObserved = c.lastObserved
        /\ asked.recent = c.recent /\ asked.inFlight
    BY DEF DisplayMembers
  <1>4. call.epoch = c.ownerEpoch /\ IsRequest(call, c.ownerEpoch) /\ ~AsksForDisplay(call)
    BY DEF DisplayMembers, Display!ListDisplays, IsRequest, AsksForDisplay
  <1> HIDE DEF waits, asked, call
  <1> QED
    BY <1>1, <1>2, <1>3, <1>4, DisplayResult

\* A handler that reads again, with nothing to show until then.
LEMMA DisplayRereads ==
    ASSUME NEW c \in DisplayMembers, kind = "display", NEW m, m.kind \in {"event", "value", "reply"},
           m.kind = "reply" => m.call.epoch = c.ownerEpoch,
           NEW x \in DisplayMembers, ~x.copy.ready, x.ownerEpoch = c.ownerEpoch,
           x.inFlight <=> c.inFlight /\ IsSignal(m),
           x.eventOwner = NoOwner => x.lastObserved = 0,
           Later(c, m) /\ Bounded(c) =>
                CursorMoves(c, m, x) /\ \A n \in x.recent : n <= x.lastObserved,
           NEW r, r = Display!Refresh(x)
    PROVE  Handled(c, m, r)
  <1>1. /\ r.state \in DisplayMembers
        /\ r.state.ownerEpoch = c.ownerEpoch /\ r.state.inFlight
        /\ r.state.eventOwner = x.eventOwner /\ r.state.lastObserved = x.lastObserved
        /\ r.state.recent = x.recent /\ ~r.state.copy.ready
        /\ x.inFlight => r.calls = <<>>
    BY DisplayRefreshes
  <1>2. ~x.inFlight => \E call : /\ r.calls = <<call>> /\ call.epoch = x.ownerEpoch
                                 /\ IsRequest(call, x.ownerEpoch) /\ ~AsksForDisplay(call)
    BY ONLY kind = "display", x \in DisplayMembers, r = Display!Refresh(x), DisplayRefreshes, Zenon
  <1>3. /\ IsClient(r.state)
        /\ Later(c, m) /\ Bounded(c) =>
             CursorMoves(c, m, r.state) /\ CopyMoves(c, m, r.state) /\ Bounded(r.state)
    BY <1>1 DEF IsClient, CopyAtCursor, CursorMoves, CopyMoves, Bounded
  <1>4. m.kind # "owner" /\ (IsSignal(m) <=> m.kind # "reply")
    BY DEF IsSignal
  <1>5. CASE x.inFlight
    <2>1. r.calls = <<>>
      BY <1>1, <1>5
    <2>2. \A y : r.calls # <<y>>
      BY <2>1
    <2> QED
      BY <1>1, <1>3, <1>4, <1>5, <2>1, <2>2 DEF Handled, Asks, ReadsOn
  <1>6. CASE ~x.inFlight
    <2>1. PICK call : /\ r.calls = <<call>> /\ call.epoch = c.ownerEpoch
                      /\ IsRequest(call, c.ownerEpoch) /\ ~AsksForDisplay(call)
      BY <1>2, <1>6
    <2>2. r.calls # <<>> /\ \A y : r.calls = <<y>> => y = call
      BY <2>1
    <2> QED
      BY <1>1, <1>3, <1>4, <1>6, <2>1, <2>2 DEF Handled, Asks, ReadsOn
  <1> QED
    BY <1>5, <1>6

LEMMA DisplayAgain ==
    ASSUME NEW c \in DisplayMembers, NEW n \in Nat
    PROVE  LET d == [c EXCEPT !.ownerEpoch = n]
           IN  /\ d \in DisplayMembers /\ d.ownerEpoch = n
               /\ d.inFlight = c.inFlight /\ d.refreshPending = c.refreshPending
               /\ d.eventOwner = c.eventOwner /\ d.lastObserved = c.lastObserved
               /\ d.recent = c.recent /\ d.copy = c.copy
  BY DEF DisplayMembers

LEMMA DisplayMeetsOwner ==
    ASSUME NEW c \in DisplayMembers, kind = "display", NEW m, m.kind = "owner",
           NEW r, r = Display!OnOwnerChanged(c, m.alive)
    PROVE  Handled(c, m, r)
  <1> DEFINE copy == Display!NoCopy
             none == [ownerEpoch |-> 0, moved |-> FALSE, inFlight |-> FALSE,
                      refreshPending |-> FALSE, eventOwner |-> NoOwner, lastObserved |-> 0,
                      recent |-> {}, issued |-> {}, copy |-> copy]
             fresh == [none EXCEPT !.ownerEpoch = c.ownerEpoch + 1]
  <1>0. copy \in [ready : BOOLEAN, owner : Owners, sequence : Nat, content : Seq(Nat)] /\ ~copy.ready
    BY NobodyTyped, NothingTyped DEF Display!NoCopy
  <1>3. /\ m.alive => r = Display!Refresh(fresh)
        /\ ~m.alive => r = Display!Result(fresh, <<>>)
    BY Zenon DEF Display!OnOwnerChanged, Display!NoClient
  <1> HIDE DEF copy
  <1>1. /\ none \in DisplayMembers
        /\ ~none.inFlight /\ ~none.refreshPending /\ ~none.copy.ready
        /\ none.eventOwner = NoOwner /\ none.lastObserved = 0 /\ none.recent = {}
    BY <1>0, NobodyTyped DEF DisplayMembers
  <1> HIDE DEF none
  <1>2. /\ fresh \in DisplayMembers /\ fresh.ownerEpoch = c.ownerEpoch + 1
        /\ ~fresh.inFlight /\ ~fresh.refreshPending /\ ~fresh.copy.ready
        /\ fresh.eventOwner = NoOwner /\ fresh.lastObserved = 0 /\ fresh.recent = {}
    <2>1. c.ownerEpoch + 1 \in Nat
      BY DEF DisplayMembers
    <2>2. none \in DisplayMembers
      BY <1>1
    <2>3. /\ fresh \in DisplayMembers /\ fresh.ownerEpoch = c.ownerEpoch + 1
          /\ fresh.inFlight = none.inFlight /\ fresh.refreshPending = none.refreshPending
          /\ fresh.eventOwner = none.eventOwner /\ fresh.lastObserved = none.lastObserved
          /\ fresh.recent = none.recent /\ fresh.copy = none.copy
      BY ONLY <2>1, <2>2, DisplayAgain
    <2> HIDE DEF fresh
    <2> QED
      BY <1>1, <2>3
  <1> HIDE DEF fresh
  <1>4. ~IsSignal(m) /\ ~IsDated(m)
    BY DEF IsSignal, IsDated, IsAnswered
  <1>5. CASE m.alive
    <2>0. r = Display!Refresh(fresh) /\ ~fresh.inFlight /\ fresh \in DisplayMembers
      BY <1>2, <1>3, <1>5
    <2>1. /\ r.state \in DisplayMembers
          /\ r.state.ownerEpoch = c.ownerEpoch + 1 /\ r.state.inFlight
          /\ r.state.eventOwner = NoOwner /\ r.state.lastObserved = 0
          /\ r.state.recent = {} /\ ~r.state.copy.ready
      <3>1. /\ r.state \in DisplayMembers
            /\ r.state.ownerEpoch = fresh.ownerEpoch /\ r.state.inFlight
            /\ r.state.eventOwner = fresh.eventOwner /\ r.state.lastObserved = fresh.lastObserved
            /\ r.state.recent = fresh.recent /\ r.state.copy = fresh.copy
        BY <2>0, DisplayRefreshes
      <3> QED
        BY <1>2, <3>1
    <2>2. PICK call : /\ r.calls = <<call>> /\ call.epoch = fresh.ownerEpoch
                      /\ IsRequest(call, fresh.ownerEpoch) /\ ~AsksForDisplay(call)
      BY ONLY kind = "display", <2>0, DisplayRefreshes, Zenon
    <2>3. r.calls # <<>> /\ \A x : r.calls = <<x>> => x = call
      BY <2>2
    <2> QED
      BY <1>2, <1>4, <2>1, <2>2, <2>3
         DEF Handled, IsClient, CopyAtCursor, Asks, ReadsOn, CursorMoves, CopyMoves, Bounded
  <1>6. CASE ~m.alive
    <2>1. r.state = fresh /\ r.calls = <<>>
      BY <1>3, <1>6, DisplayResult
    <2>2. \A x : r.calls # <<x>>
      BY <2>1
    <2> QED
      BY <1>2, <1>4, <2>1, <2>2
         DEF Handled, IsClient, CopyAtCursor, Asks, ReadsOn, CursorMoves, CopyMoves, Bounded
  <1> QED
    BY <1>5, <1>6

LEMMA DisplayInvalidated ==
    ASSUME NEW c \in DisplayMembers, NEW r, r = Display!Invalidated(c)
    PROVE  \E x \in DisplayMembers :
             /\ r = Display!Refresh(x) /\ ~x.copy.ready
             /\ x.ownerEpoch = c.ownerEpoch /\ (x.inFlight <=> c.inFlight)
             /\ x.eventOwner = c.eventOwner /\ x.lastObserved = c.lastObserved
             /\ x.recent = c.recent
  <1> DEFINE gone == Display!Cleared(c)
             x == [gone EXCEPT !.moved = TRUE]
  <1>1. /\ gone \in DisplayMembers /\ ~gone.copy.ready
        /\ gone.ownerEpoch = c.ownerEpoch /\ (gone.inFlight <=> c.inFlight)
        /\ gone.eventOwner = c.eventOwner /\ gone.lastObserved = c.lastObserved
        /\ gone.recent = c.recent
    BY DisplayCleared
  <1>2. r = Display!Refresh(x)
    BY Zenon DEF Display!Invalidated
  <1> HIDE DEF gone
  <1>3. /\ x \in DisplayMembers /\ ~x.copy.ready
        /\ x.ownerEpoch = c.ownerEpoch /\ (x.inFlight <=> c.inFlight)
        /\ x.eventOwner = c.eventOwner /\ x.lastObserved = c.lastObserved
        /\ x.recent = c.recent
    BY <1>1 DEF DisplayMembers
  <1> HIDE DEF x
  <1> QED
    BY <1>2, <1>3

LEMMA DisplayRecorded ==
    ASSUME NEW c \in DisplayMembers, NEW e, e.owner \in Owners, e.sequence \in Nat,
           NEW d, d = Display!Recorded(c, e)
    PROVE  /\ d \in DisplayMembers
           /\ d.eventOwner = e.owner /\ d.lastObserved = c.lastObserved
           /\ d.recent = c.recent \cup {e.sequence}
           /\ d.ownerEpoch = c.ownerEpoch /\ (d.inFlight <=> c.inFlight) /\ d.copy = c.copy
           /\ d.refreshPending <=> c.refreshPending
  <1> DEFINE issued == IF Display!IsRelevant(e) THEN c.issued \cup {e.sequence} ELSE c.issued
             recent == c.recent \cup {e.sequence}
  <1>1. issued \in SUBSET Nat /\ recent \in SUBSET Nat
    BY DEF DisplayMembers
  <1>2. d = [c EXCEPT !.recent = recent, !.eventOwner = e.owner, !.issued = issued]
    BY Zenon DEF Display!Recorded
  <1>3. recent = c.recent \cup {e.sequence}
    OBVIOUS
  <1> HIDE DEF issued, recent
  <1> QED
    BY <1>1, <1>2, <1>3 DEF DisplayMembers

LEMMA DisplayHears ==
    ASSUME NEW c \in DisplayMembers, kind = "display", IsClient(c), NEW m, IsSignal(m),
           m.owner \in Owners, m.owner # NoOwner, m.sequence \in Nat, Waits(c, m),
           NEW r, r = Display!AcceptEvent(c, m)
    PROVE  Handled(c, m, r)
  <1> DEFINE recorded == Display!Recorded(c, m)
             last == Display!Newer(recorded.lastObserved, m.sequence)
             heard == [recorded EXCEPT !.lastObserved = last]
             anew == [c EXCEPT !.recent = {}, !.issued = {}, !.eventOwner = m.owner,
                               !.lastObserved = m.sequence]
             issued == c.issued \cup {m.sequence}
             noted == [c EXCEPT !.issued = issued]
             latest == heard.lastObserved
             advanced == [heard EXCEPT !.copy.sequence = latest]
             foreign == Display!IsForeign(c, m)
             old == c.eventOwner # NoOwner /\ m.sequence <= c.lastObserved
             rereads == Display!IsGap(c, m) \/ Display!IsRelevant(m)
  <1>1. /\ m.kind \in {"event", "value", "reply"} /\ m.kind # "owner" /\ m.kind # "reply"
        /\ IsDated(m) /\ OwnerOf(m) = m.owner /\ NumberOf(m) = m.sequence /\ ~IsAnswered(m)
    BY DEF IsSignal, IsDated, IsAnswered, OwnerOf, NumberOf
  <1>2. /\ recorded \in DisplayMembers
        /\ recorded.eventOwner = m.owner /\ recorded.lastObserved = c.lastObserved
        /\ recorded.recent = c.recent \cup {m.sequence}
        /\ recorded.ownerEpoch = c.ownerEpoch /\ (recorded.inFlight <=> c.inFlight)
        /\ recorded.copy = c.copy
        /\ recorded.refreshPending <=> c.refreshPending
    BY DisplayRecorded
  <1>3. \/ foreign /\ r = Display!Invalidated(anew)
        \/ ~foreign /\ r = Display!Invalidated(noted)
        \/ ~foreign /\ m.sequence \in c.recent /\ r = Display!Result(c, <<>>)
        \/ ~foreign /\ old /\ r = Display!Result(recorded, <<>>)
        \/ ~foreign /\ ~old /\ rereads /\ r = Display!Invalidated(heard)
        \/ ~foreign /\ ~old /\ ~rereads /\ ~c.copy.ready /\ r = Display!Refresh(heard)
        \/ ~foreign /\ ~old /\ ~rereads /\ c.copy.ready /\ r = Display!Result(advanced, <<>>)
    BY Zenon DEF Display!AcceptEvent, Display!Repeated
  <1>4. ~foreign => /\ c.eventOwner = NoOwner \/ c.eventOwner = m.owner
                    /\ c.copy.ready => c.copy.owner = m.owner
    BY DEF Display!IsForeign
  <1>5. ~rereads => ~IsVoid(m)
    BY DEF Display!IsRelevant, IsVoid
  <1>6. c.refreshPending => c.inFlight
    BY DEF Waits
  <1>7. /\ c.copy.ready => c.copy.owner = c.eventOwner /\ c.copy.owner # NoOwner
                           /\ c.copy.sequence = c.lastObserved
        /\ c.lastObserved \in Nat /\ c.recent \in SUBSET Nat
        /\ c.eventOwner = NoOwner => c.lastObserved = 0
    BY DEF IsClient, CopyAtCursor, DisplayMembers
  <1>8. Later(c, m) => c.lastObserved <= m.sequence
    BY <1>1 DEF Later
  <1>9. Bounded(c) <=> \A n \in c.recent : n <= c.lastObserved
    BY DEF Bounded
  <1>10. /\ last \in Nat /\ last >= m.sequence /\ last >= c.lastObserved
         /\ c.lastObserved <= m.sequence => last = m.sequence
    BY <1>2, <1>7 DEF Display!Newer
  <1> HIDE DEF recorded, last, foreign, rereads
  <1>11. /\ heard \in DisplayMembers
         /\ heard.eventOwner = m.owner /\ heard.lastObserved = last
         /\ heard.recent = recorded.recent
         /\ heard.ownerEpoch = c.ownerEpoch /\ (heard.inFlight <=> c.inFlight)
         /\ heard.copy = c.copy
         /\ heard.refreshPending <=> c.refreshPending
    BY <1>2, <1>10 DEF DisplayMembers
  <1>12. /\ anew \in DisplayMembers
         /\ anew.eventOwner = m.owner /\ anew.lastObserved = m.sequence /\ anew.recent = {}
         /\ anew.ownerEpoch = c.ownerEpoch /\ (anew.inFlight <=> c.inFlight)
    BY DEF DisplayMembers
  <1>13. /\ noted \in DisplayMembers
         /\ noted.eventOwner = c.eventOwner /\ noted.lastObserved = c.lastObserved
         /\ noted.recent = c.recent
         /\ noted.ownerEpoch = c.ownerEpoch /\ (noted.inFlight <=> c.inFlight)
    <2>1. issued \in SUBSET Nat
      BY DEF DisplayMembers
    <2> HIDE DEF issued
    <2> QED
      BY <2>1 DEF DisplayMembers
  <1> HIDE DEF heard, anew, noted
  <1>14. Bounded(c) => \A n \in recorded.recent : n <= last
    BY <1>2, <1>7, <1>9, <1>10
  \* Whatever is read again.
  <1>15. ASSUME NEW x \in DisplayMembers,
                r = Display!Invalidated(x) \/ (r = Display!Refresh(x) /\ ~x.copy.ready),
                x.ownerEpoch = c.ownerEpoch, x.inFlight <=> c.inFlight,
                x.eventOwner = NoOwner => x.lastObserved = 0,
                Later(c, m) /\ Bounded(c) =>
                    /\ \/ x.eventOwner = c.eventOwner /\ x.lastObserved = c.lastObserved
                       \/ x.eventOwner = m.owner /\ x.lastObserved = m.sequence
                    /\ \A n \in x.recent : n <= x.lastObserved
         PROVE  Handled(c, m, r)
    <2>1. PICK y \in DisplayMembers :
             /\ r = Display!Refresh(y) /\ ~y.copy.ready
             /\ y.ownerEpoch = x.ownerEpoch /\ (y.inFlight <=> x.inFlight)
             /\ y.eventOwner = x.eventOwner /\ y.lastObserved = x.lastObserved
             /\ y.recent = x.recent
      <3>1. CASE r = Display!Invalidated(x)
        BY <3>1, DisplayInvalidated
      <3>2. CASE r = Display!Refresh(x) /\ ~x.copy.ready
        BY <1>15, <3>2
      <3> QED
        BY <1>15, <3>1, <3>2
    <2>2. Later(c, m) /\ Bounded(c) =>
            CursorMoves(c, m, y) /\ \A n \in y.recent : n <= y.lastObserved
      BY <1>1, <1>15, <2>1 DEF CursorMoves
    <2> QED
      BY <1>1, <1>15, <2>1, <2>2, DisplayRereads
  <1>16. CASE foreign /\ r = Display!Invalidated(anew)
    BY <1>12, <1>15, <1>16
  <1>17. CASE ~foreign /\ r = Display!Invalidated(noted)
    BY <1>7, <1>9, <1>13, <1>15, <1>17
  <1>18. CASE ~foreign /\ ~old /\ rereads /\ r = Display!Invalidated(heard)
    BY <1>8, <1>10, <1>11, <1>14, <1>15, <1>18
  <1>19. CASE ~foreign /\ ~old /\ ~rereads /\ ~c.copy.ready /\ r = Display!Refresh(heard)
    BY <1>8, <1>10, <1>11, <1>14, <1>15, <1>19
  \* Whatever is not.
  <1>20. ASSUME NEW x, IsClient(x), r = Display!Result(x, <<>>), x.ownerEpoch = c.ownerEpoch,
                x.inFlight <=> c.inFlight, x.refreshPending <=> c.refreshPending,
                Later(c, m) /\ Bounded(c) =>
                    CursorMoves(c, m, x) /\ CopyMoves(c, m, x) /\ Bounded(x)
         PROVE  Handled(c, m, r)
    <2>1. r.state = x /\ r.calls = <<>>
      BY <1>20, DisplayResult
    <2>2. \A y : r.calls # <<y>>
      BY <2>1
    <2> QED
      BY <1>1, <1>6, <1>20, <2>1, <2>2 DEF Handled, Asks, ReadsOn
  <1>21. CASE ~foreign /\ m.sequence \in c.recent /\ r = Display!Result(c, <<>>)
    <2>1. Bounded(c) => CopyMoves(c, m, c)
      BY <1>1, <1>7, <1>9, <1>21 DEF CopyMoves, CopyStays
    <2> QED
      BY <1>1, <1>20, <1>21, <2>1 DEF CursorMoves
  <1>22. CASE ~foreign /\ old /\ r = Display!Result(recorded, <<>>)
    <2>1. c.eventOwner = m.owner
      BY <1>4, <1>22
    <2>2. IsClient(recorded)
      BY <1>2, <1>7, <2>1 DEF IsClient, CopyAtCursor
    <2>3. CopyMoves(c, m, recorded)
      BY <1>1, <1>2, <1>7, <1>22 DEF CopyMoves, CopyStays
    <2>4. Bounded(c) => Bounded(recorded)
      BY <1>2, <1>9, <1>22 DEF Bounded
    <2> QED
      BY <1>1, <1>2, <1>20, <1>22, <2>1, <2>2, <2>3, <2>4 DEF CursorMoves
  <1>23. CASE ~foreign /\ ~old /\ ~rereads /\ c.copy.ready /\ r = Display!Result(advanced, <<>>)
    <2>1. c.copy.owner = m.owner /\ c.copy.sequence = c.lastObserved /\ c.lastObserved <= m.sequence
      BY <1>4, <1>7, <1>23
    <2>2. latest = last /\ last = m.sequence
      BY <1>10, <1>11, <2>1
    <2> HIDE DEF latest
    <2>3. /\ advanced \in DisplayMembers /\ advanced.eventOwner = m.owner
          /\ advanced.lastObserved = last /\ advanced.recent = recorded.recent
          /\ advanced.ownerEpoch = c.ownerEpoch /\ (advanced.inFlight <=> c.inFlight)
          /\ advanced.refreshPending <=> c.refreshPending
          /\ advanced.copy.ready /\ advanced.copy.owner = m.owner /\ advanced.copy.sequence = last
          /\ advanced.copy.content = c.copy.content
      BY <1>10, <1>11, <1>23, <2>1, <2>2 DEF DisplayMembers
    <2> HIDE DEF advanced
    <2>4. IsClient(advanced)
      BY <2>3 DEF IsClient, CopyAtCursor
    <2>5. CopyMoves(c, m, advanced)
      BY <1>5, <1>23, <2>1, <2>2, <2>3 DEF CopyMoves, CopyAdvances
    <2>6. Bounded(c) => Bounded(advanced)
      BY <1>14, <2>3 DEF Bounded
    <2>7. CursorMoves(c, m, advanced)
      BY <1>1, <2>2, <2>3 DEF CursorMoves
    <2> QED
      BY <1>20, <1>23, <2>3, <2>4, <2>5, <2>6, <2>7
  <1> QED
    BY <1>3, <1>16, <1>17, <1>18, <1>19, <1>21, <1>22, <1>23

\* Reads end without a copy, and perhaps are repeated.
LEMMA DisplayRetries ==
    ASSUME NEW c \in DisplayMembers, kind = "display", IsClient(c), NEW m, m.kind = "reply",
           m.call.epoch = c.ownerEpoch, NEW again, NEW r, r = Display!Retried(c, again)
    PROVE  Handled(c, m, r)
  <1> DEFINE gone == Display!Cleared(c)
             empty == [gone EXCEPT !.inFlight = FALSE, !.refreshPending = FALSE]
  <1>1. m.kind \in {"event", "value", "reply"} /\ m.kind # "owner" /\ ~IsSignal(m)
    BY DEF IsSignal
  <1>2. r = Display!Refresh(empty) \/ r = Display!Result(empty, <<>>)
    BY Zenon DEF Display!Retried
  <1>3. /\ gone \in DisplayMembers /\ ~gone.copy.ready
        /\ gone.ownerEpoch = c.ownerEpoch
        /\ gone.eventOwner = c.eventOwner /\ gone.lastObserved = c.lastObserved
        /\ gone.recent = c.recent
    BY DisplayCleared
  <1> HIDE DEF gone
  <1>4. /\ empty \in DisplayMembers /\ ~empty.copy.ready
        /\ empty.ownerEpoch = c.ownerEpoch /\ ~empty.inFlight /\ ~empty.refreshPending
        /\ empty.eventOwner = c.eventOwner /\ empty.lastObserved = c.lastObserved
        /\ empty.recent = c.recent
    BY <1>3 DEF DisplayMembers
  <1> HIDE DEF empty
  <1>5. /\ empty.eventOwner = NoOwner => empty.lastObserved = 0
        /\ CursorMoves(c, m, empty)
        /\ Bounded(c) => \A n \in empty.recent : n <= empty.lastObserved
    BY <1>1, <1>4 DEF IsClient, CursorMoves, Bounded
  <1>6. CASE r = Display!Refresh(empty)
    BY <1>1, <1>4, <1>5, <1>6, DisplayRereads
  <1>7. CASE r = Display!Result(empty, <<>>)
    <2>1. r.state = empty /\ r.calls = <<>>
      BY <1>7, DisplayResult
    <2>2. \A y : r.calls # <<y>>
      BY <2>1
    <2> QED
      BY <1>1, <1>4, <1>5, <2>1, <2>2
         DEF Handled, IsClient, CopyAtCursor, Asks, ReadsOn, CopyMoves, Bounded
  <1> QED
    BY <1>2, <1>6, <1>7

LEMMA DisplayApplies ==
    ASSUME NEW c \in DisplayMembers, NEW list, IsList(list), NEW states \in Seq(Nat),
           NEW d, d = Display!Applied(c, list, states)
    PROVE  /\ d \in DisplayMembers /\ d.ownerEpoch = c.ownerEpoch /\ ~d.inFlight
           /\ d.refreshPending <=> c.refreshPending
           /\ d.eventOwner = list.owner /\ d.lastObserved = list.sequence /\ d.recent = c.recent
           /\ d.copy.ready /\ d.copy.owner = list.owner /\ d.copy.sequence = list.sequence
           /\ d.copy.content = <<list.content>> \o states
  <1> DEFINE whole == <<list.content>> \o states
             copy == [ready |-> TRUE, owner |-> list.owner, sequence |-> list.sequence,
                      content |-> whole]
  <1>1. list.owner \in Owners /\ list.sequence \in Nat /\ list.content \in Nat
    BY DEF IsList
  <1>2. whole \in Seq(Nat)
    <2>1. <<list.content>> \in Seq(Nat)
      BY <1>1
    <2> QED
      BY <2>1, ConcatProperties
  <1>3. d = [c EXCEPT !.inFlight = FALSE, !.eventOwner = list.owner,
                      !.lastObserved = list.sequence, !.copy = copy]
    BY Zenon DEF Display!Applied
  <1>4. whole = <<list.content>> \o states
    OBVIOUS
  <1> HIDE DEF whole
  <1>5. /\ copy \in [ready : BOOLEAN, owner : Owners, sequence : Nat, content : Seq(Nat)]
        /\ copy.ready /\ copy.owner = list.owner /\ copy.sequence = list.sequence
        /\ copy.content = whole
    BY <1>1, <1>2
  <1> HIDE DEF copy
  <1> QED
    BY <1>1, <1>3, <1>4, <1>5 DEF DisplayMembers

\* The list and the states read up to this reply.
LEMMA DisplayReads ==
    ASSUME NEW c \in DisplayMembers, kind = "display", IsClient(c), NEW m, m.kind = "reply",
           m.call.epoch = c.ownerEpoch, Waits(c, m), SameMoment(m),
           NEW list, IsList(list), list = ListOf(m),
           NEW states \in Seq(Nat), states = StatesOf(m), Len(states) <= list.displays,
           NEW r, r = Display!RequestState(c, list, states)
    PROVE  Handled(c, m, r)
  <1> DEFINE call == Display!GetDisplayState(c, list, states)
             applied == Display!Applied(c, list, states)
  <1>1. /\ m.kind # "owner" /\ ~IsSignal(m) /\ IsAnswered(m) /\ IsDated(m)
        /\ OwnerOf(m) = m.answer.owner /\ NumberOf(m) = m.answer.sequence
        /\ m.answer.owner = list.owner /\ m.answer.sequence = list.sequence
        /\ list.owner \in Owners /\ list.owner # NoOwner /\ list.sequence \in Nat
        /\ list.displays \in Nat /\ Len(states) \in Nat
    BY LenProperties DEF IsSignal, IsDated, OwnerOf, NumberOf, SameMoment, IsList, ListOf
  <1>2. c.inFlight /\ c.ownerEpoch \in Nat
    BY DEF Waits, DisplayMembers
  <1>3. \/ r = Display!Result(c, <<call>>) /\ Len(states) < list.displays
        \/ r = Display!Retried(c, TRUE)
        \/ /\ r = Display!Result(applied, <<>>) /\ ~(Len(states) < list.displays)
           /\ ~c.refreshPending
    BY Zenon DEF Display!RequestState
  <1>4. CASE r = Display!Result(c, <<call>>) /\ Len(states) < list.displays
    <2>1. call.epoch = c.ownerEpoch /\ call.from = "client" /\ call.method = "ReadDisplay"
          /\ call.list = list /\ call.states = states
      BY DEF Display!GetDisplayState
    <2> HIDE DEF call
    <2>2. IsRequest(call, c.ownerEpoch) /\ AsksForDisplay(call)
      BY <1>2, <1>4, <2>1 DEF IsRequest, AsksForDisplay
    <2>3. r.state = c /\ r.calls = <<call>>
      BY <1>4, DisplayResult
    <2>4. r.calls # <<>> /\ \A y : r.calls = <<y>> => y = call
      BY <2>3
    <2>5. CursorMoves(c, m, c) /\ CopyMoves(c, m, c)
      BY <1>1 DEF CursorMoves, CopyMoves, CopyStays
    <2> QED
      BY <1>1, <1>2, <2>1, <2>2, <2>3, <2>4, <2>5 DEF Handled, Asks, ReadsOn
  <1>5. CASE r = Display!Retried(c, TRUE)
    BY <1>5, DisplayRetries
  <1>6. CASE /\ r = Display!Result(applied, <<>>) /\ ~(Len(states) < list.displays)
             /\ ~c.refreshPending
    <2>1. /\ applied \in DisplayMembers /\ applied.ownerEpoch = c.ownerEpoch /\ ~applied.inFlight
          /\ applied.refreshPending <=> c.refreshPending
          /\ applied.eventOwner = list.owner /\ applied.lastObserved = list.sequence
          /\ applied.recent = c.recent
          /\ applied.copy.ready /\ applied.copy.owner = list.owner
          /\ applied.copy.sequence = list.sequence
          /\ applied.copy.content = <<list.content>> \o states
      BY DisplayApplies
    <2>2. r.state = applied /\ r.calls = <<>>
      BY <1>6, DisplayResult
    <2>3. \A y : r.calls # <<y>>
      BY <2>2
    <2> HIDE DEF applied
    <2>4. IsClient(applied)
      BY <1>1, <2>1 DEF IsClient, CopyAtCursor
    <2>5. Len(states) = list.displays
      BY <1>1, <1>6
    <2>6. CursorMoves(c, m, applied) /\ CopyMoves(c, m, applied)
      BY <1>1, <2>1, <2>5 DEF CursorMoves, CopyMoves, CopyIsTaken
    <2>7. Later(c, m) /\ Bounded(c) => Bounded(applied)
      <3>1. Later(c, m) => c.lastObserved <= list.sequence
        BY <1>1 DEF Later
      <3>2. c.lastObserved \in Nat /\ c.recent \in SUBSET Nat
        BY DEF DisplayMembers
      <3> QED
        BY <1>1, <2>1, <3>1, <3>2 DEF Bounded
    <2> QED
      BY <1>1, <1>6, <2>1, <2>2, <2>3, <2>4, <2>6, <2>7 DEF Handled, Asks, ReadsOn
  <1> QED
    BY <1>3, <1>4, <1>5, <1>6

LEMMA DisplayFinishes ==
    ASSUME NEW c \in DisplayMembers, kind = "display", IsClient(c), NEW m, m.kind = "reply",
           m.error \in BOOLEAN, IsAnswered(m) => IsAnswer(m.answer), Waits(c, m),
           IsRequest(m.call, c.ownerEpoch),
           NEW r, \/ m.call.epoch # c.ownerEpoch /\ r = Display!Result(c, <<>>)
                  \/ /\ m.call.epoch = c.ownerEpoch
                     /\ r = IF m.call.method = "Read" THEN Display!FinishList(c, m)
                                                      ELSE Display!FinishState(c, m)
    PROVE  Handled(c, m, r)
  <1>1. m.kind # "owner" /\ ~IsSignal(m) /\ (IsAnswered(m) <=> ~m.error)
    BY DEF IsSignal, IsAnswered
  <1>2. CASE m.call.epoch # c.ownerEpoch
    <2>1. r.state = c /\ r.calls = <<>>
      BY <1>2, DisplayResult
    <2>2. \A x : r.calls # <<x>>
      BY <2>1
    <2>3. c.refreshPending => c.inFlight
      BY DEF Waits
    <2>4. CopyMoves(c, m, c)
      BY <1>1 DEF CopyMoves, CopyStays
    <2> QED
      BY <1>1, <1>2, <2>1, <2>2, <2>3, <2>4 DEF Handled, Asks, ReadsOn, CursorMoves
  <1>3. CASE m.call.epoch = c.ownerEpoch /\ ~AsksForDisplay(m.call)
    <2>1. r = Display!FinishList(c, m)
      BY <1>3 DEF IsRequest, AsksForDisplay
    <2>2. \/ \E again : r = Display!Retried(c, again)
          \/ ~m.error /\ m.answer.code = "OK" /\ r = Display!RequestState(c, m.answer, <<>>)
      BY <2>1, Zenon DEF Display!FinishList
    <2>3. CASE \E again : r = Display!Retried(c, again)
      BY <1>3, <2>3, DisplayRetries
    <2>4. CASE ~m.error /\ m.answer.code = "OK" /\ r = Display!RequestState(c, m.answer, <<>>)
      <3>1. IsList(m.answer)
        BY <1>1, <2>4 DEF IsAnswer, IsList
      <3>2. m.answer = ListOf(m) /\ StatesOf(m) = <<>> /\ SameMoment(m)
        BY <1>1, <1>3, <2>4 DEF ListOf, StatesOf, SameMoment
      <3>3. Len(<<>>) = 0 /\ 0 <= m.answer.displays
        BY <3>1 DEF IsList
      <3> QED
        BY <1>3, <2>4, <3>1, <3>2, <3>3, NothingTyped, DisplayReads
    <2> QED
      BY <2>2, <2>3, <2>4
  <1>4. CASE m.call.epoch = c.ownerEpoch /\ AsksForDisplay(m.call)
    <2> DEFINE list == m.call.list
               states == Append(m.call.states, m.answer.content)
    <2>1. r = Display!FinishState(c, m)
      BY <1>4 DEF AsksForDisplay
    <2>2. \/ \E again : r = Display!Retried(c, again)
          \/ /\ ~m.error /\ m.answer.code = "OK" /\ Display!SameSnapshot(list, m.answer)
             /\ r = Display!RequestState(c, list, states)
      BY <2>1, Zenon DEF Display!FinishState
    <2>3. CASE \E again : r = Display!Retried(c, again)
      BY <1>4, <2>3, DisplayRetries
    <2>4. CASE /\ ~m.error /\ m.answer.code = "OK" /\ Display!SameSnapshot(list, m.answer)
               /\ r = Display!RequestState(c, list, states)
      <3>1. /\ IsList(list) /\ m.call.states \in Seq(Nat) /\ Len(m.call.states) < list.displays
            /\ m.answer.content \in Nat
        BY <1>1, <1>4, <2>4 DEF IsRequest, IsAnswer
      <3>2. list = ListOf(m) /\ StatesOf(m) = states /\ SameMoment(m)
        BY <1>1, <1>4, <2>4 DEF ListOf, StatesOf, SameMoment, Display!SameSnapshot
      <3>3. states \in Seq(Nat) /\ Len(states) = Len(m.call.states) + 1
        BY <3>1, AppendProperties
      <3>4. Len(states) <= list.displays
        <4>1. Len(m.call.states) \in Nat /\ list.displays \in Nat
          BY <3>1, LenProperties DEF IsList
        <4> QED
          BY <3>1, <3>3, <4>1
      <3> HIDE DEF list, states
      <3> QED
        BY <1>4, <2>4, <3>1, <3>2, <3>3, <3>4, DisplayReads
    <2> QED
      BY <2>2, <2>3, <2>4
  <1> QED
    BY <1>2, <1>3, <1>4

\* Every client, whatever it is told.
LEMMA ClientIsHandled ==
    ASSUME kind \in Kinds, NEW c, IsClient(c), NEW m, IsMessage(m, c.ownerEpoch), Waits(c, m),
           NEW r, \/ kind = "profiles" /\ r = Profiles!OnMessage(c, m)
                  \/ kind = "hardware" /\ r = Hardware!OnMessage(c, m)
                  \/ kind = "display" /\ r = Display!OnMessage(c, m)
    PROVE  Handled(c, m, r)
  <1>1. /\ m.kind \in {"owner", "event", "value", "reply"}
        /\ IsSignal(m) => m.owner \in Owners /\ m.owner # NoOwner /\ m.sequence \in Nat
        /\ m.kind = "reply" => m.error \in BOOLEAN /\ IsRequest(m.call, c.ownerEpoch)
        /\ IsAnswered(m) => IsAnswer(m.answer)
        /\ m.kind \in {"event", "value"} <=> IsSignal(m)
    BY DEF IsMessage, IsSignal
  <1>2. CASE kind = "profiles"
    <2>1. c \in ProfileMembers
      BY <1>2 DEF IsClient
    <2>2. /\ m.kind = "owner" => r = Profiles!OnOwnerChanged(c, m.alive)
          /\ IsSignal(m) => r = Profiles!ObserveEvent(c, m)
          /\ m.kind = "reply" => r = Profiles!FinishSnapshot(c, m)
      BY <1>2 DEF Profiles!OnMessage, IsSignal
    <2> QED
      BY <1>1, <1>2, <2>1, <2>2, ProfileMeetsOwner, ProfileHears, ProfileFinishes
  <1>3. CASE kind = "hardware"
    <2>1. c \in HardwareMembers
      BY <1>3 DEF IsClient
    <2>2. /\ m.kind = "owner" => r = Hardware!OnServiceOwnerChanged(c, m.alive)
          /\ m.kind = "value" => r = Hardware!AcceptEventIdentity(c, m, TRUE)
          /\ m.kind = "event" => r = Hardware!AcceptEventIdentity(c, m, FALSE)
          /\ m.kind = "reply" => r = Hardware!FinishRefresh(c, m)
      BY <1>3 DEF Hardware!OnMessage
    <2>3. CASE m.kind = "value"
      BY <1>1, <1>3, <2>1, <2>2, <2>3, HardwareHears
    <2>4. CASE m.kind = "event"
      BY <1>1, <1>3, <2>1, <2>2, <2>4, HardwareHears
    <2> QED
      BY <1>1, <1>3, <2>1, <2>2, <2>3, <2>4, HardwareMeetsOwner, HardwareFinishes
  <1>4. CASE kind = "display"
    <2>1. c \in DisplayMembers
      BY <1>4 DEF IsClient
    <2>2. /\ m.kind = "owner" => r = Display!OnOwnerChanged(c, m.alive)
          /\ IsSignal(m) => r = Display!AcceptEvent(c, m)
      BY <1>4 DEF Display!OnMessage, IsSignal
    <2>3. m.kind = "reply" =>
            \/ m.call.epoch # c.ownerEpoch /\ r = Display!Result(c, <<>>)
            \/ /\ m.call.epoch = c.ownerEpoch
               /\ r = IF m.call.method = "Read" THEN Display!FinishList(c, m)
                                                ELSE Display!FinishState(c, m)
      BY <1>4 DEF Display!OnMessage
    <2>4. CASE m.kind = "reply"
      BY <1>1, <1>4, <2>1, <2>3, <2>4, DisplayFinishes
    <2> QED
      BY <1>1, <1>4, <2>1, <2>2, <2>4, DisplayMeetsOwner, DisplayHears
  <1> QED
    BY <1>2, <1>3, <1>4 DEF Kinds

-----------------------------------------------------------------------------
(* The reads of the client.                                                *)

\* What is on its way is known, one call of a read at most is under way, and
\* the client is in one of the states its handlers leave it in.
ReadInv ==
    /\ BusKnown
    /\ kind \in Kinds /\ content \in Nat /\ open \in BOOLEAN
    /\ Queued(calls, inbox, client.ownerEpoch)
    /\ Underway(calls, inbox, client.ownerEpoch, client.inFlight)
    /\ client.refreshPending => client.inFlight
    /\ IsClient(client)

LEMMA ClientTyped ==
    ASSUME kind \in Kinds, NEW c, IsClient(c)
    PROVE  /\ c.ownerEpoch \in Nat /\ c.lastObserved \in Nat
           /\ {c.moved, c.inFlight, c.refreshPending, c.copy.ready} \subseteq BOOLEAN
           /\ {c.eventOwner, c.copy.owner} \subseteq Owners /\ c.copy.sequence \in Nat
  <1>1. CASE kind = "profiles"
    BY <1>1 DEF IsClient, ProfileMembers
  <1>2. CASE kind = "hardware"
    BY <1>2 DEF IsClient, HardwareMembers
  <1>3. CASE kind = "display"
    BY <1>3 DEF IsClient, DisplayMembers
  <1> QED
    BY <1>1, <1>2, <1>3 DEF Kinds

LEMMA ReadInvImplies == ReadInv => ReadInvariant /\ CopyCoversEvents
  <1> SUFFICES ASSUME ReadInv PROVE ReadInvariant /\ CopyCoversEvents
    OBVIOUS
  <1>1. /\ client.ownerEpoch \in Nat /\ client.lastObserved \in Nat
        /\ {client.moved, client.inFlight, client.refreshPending, client.copy.ready}
              \subseteq BOOLEAN
        /\ {client.eventOwner, client.copy.owner} \subseteq Owners
    BY ClientTyped DEF ReadInv
  <1>2. CopyCoversEvents /\ (kind # "profiles" /\ client.copy.ready => client.copy.owner # NoOwner)
    BY <1>1 DEF ReadInv, IsClient, CopyAtCursor, CopyCoversEvents
  <1>3. OneReadUnderway
    <2>1. IsSeq(calls) /\ IsSeq(inbox) /\ client.inFlight \in BOOLEAN
      BY <1>1 DEF ReadInv, Queued
    <2> QED
      BY <2>1, OneIsDue DEF ReadInv, OneReadUnderway
  <1>4. BusTypeOK
    <2>1. /\ service \in [owner : Owners, sequence : Nat, state : States]
          /\ persistedGeneration \in 0..MaxStarts
      BY StartsTyped DEF ReadInv, BusKnown, Started, Spendable
    <2>2. \A i \in DOMAIN calls : calls[i].awaited \in BOOLEAN
      BY DEF ReadInv, Queued, IsCall
    <2>3. \A i \in DOMAIN inbox :
            /\ inbox[i].to = {"client"}
            /\ inbox[i].kind \in {"owner", "event", "value", "reply"}
      BY DEF ReadInv, Queued, IsMessage
    <2>4. {"client"} \subseteq Listeners /\ {"client"} # {}
      BY ConnectionAssumption
    <2> QED
      BY <2>1, <2>2, <2>3, <2>4 DEF BusTypeOK, States
  <1>5. TypeOK
    BY <1>1, <1>2, <1>4 DEF ReadInv, TypeOK
  <1> QED
    BY <1>2, <1>3, <1>5 DEF ReadInvariant

\* Messages are sent, and calls handled or failed; the client does nothing.
Sends(news) ==
    /\ BusKnown' /\ UNCHANGED <<kind, client>>
    /\ content' \in Nat /\ open' \in BOOLEAN
    /\ IsSeq(news) /\ inbox' = inbox \o news
    /\ \A i \in DOMAIN news : /\ IsMessage(news[i], client.ownerEpoch)
                              /\ news[i].kind = "reply" =>
                                    \E k \in DOMAIN calls : news[i].call = calls[k].call
    /\ IsSeq(calls')
    /\ \A i \in DOMAIN calls' : /\ IsCall(calls'[i], client.ownerEpoch)
                                /\ \E k \in DOMAIN calls : calls'[i].call = calls[k].call
    /\ Underway(calls', inbox', client.ownerEpoch, client.inFlight)

LEMMA SendingKeepsReadInv ==
    ASSUME ReadInv, NEW news, Sends(news)
    PROVE  ReadInv'
  <1> DEFINE all == inbox \o news
  <1>1. IsSeq(inbox) /\ IsSeq(news)
    BY DEF ReadInv, Queued, Sends
  <1>2. /\ IsSeq(all)
        /\ \A i \in DOMAIN inbox : all[i] = inbox[i]
        /\ \A i \in DOMAIN all : i \notin DOMAIN inbox =>
              i - Len(inbox) \in DOMAIN news /\ all[i] = news[i - Len(inbox)]
    BY <1>1, SeqConcat
  <1> HIDE DEF all
  <1>3. \A i \in DOMAIN all : IsMessage(all[i], client.ownerEpoch)
    BY <1>2 DEF ReadInv, Queued, Sends
  <1>4. Queued(calls', inbox', client.ownerEpoch)
    BY <1>2, <1>3 DEF Queued, Sends, all
  <1>5. IsClient(client)'
    BY DEF ReadInv, Sends, IsClient, CopyAtCursor
  <1>6. Queued(calls, inbox, client.ownerEpoch)'
    BY <1>4 DEF Queued, Sends, IsMessage, IsCall, IsRequest, IsAnswer
  <1> QED
    BY <1>5, <1>6 DEF ReadInv, Sends

-----------------------------------------------------------------------------
(* What the steps of the service and the bus have in common.               *)

\* The answer that is right at the moment.
AnswersNow(a) ==
    /\ service.state = "READY" /\ a.owner = service.owner /\ a.sequence = service.sequence
    /\ Readable /\ a.content = content /\ (kind = "display" => a.displays = DisplaysAt(content))

\* A new signal of the running service, an answer at the moment, or an error.
Tells(m) ==
    /\ m.kind # "owner"
    /\ IsSignal(m) =>
        /\ Alive /\ m.owner.uuid = service.owner.uuid
        /\ service.sequence < m.sequence /\ m.sequence <= service'.sequence
    /\ IsAnswered(m) /\ m.answer.owner # NoOwner => AnswersNow(m.answer)

\* Signals that come in the order of their numbers.
Sorted(news) ==
    \A i, j \in DOMAIN news : i < j /\ IsSignal(news[i]) =>
        IsSignal(news[j]) /\ news[i].sequence <= news[j].sequence

\* What is read changes, and the n-th event says so: to a client of the
\* hardware by a signal that voids its copy, and to a profile client by
\* every signal with that number.
Announces(news, n) ==
    /\ Alive /\ n \in Nat /\ service.sequence < n /\ n <= service'.sequence
    /\ \A i \in DOMAIN news : IsSignal(news[i]) /\ news[i].owner = service.owner
    /\ kind # "profiles" =>
        \E j \in DOMAIN news :
            /\ IsVoid(news[j]) /\ news[j].sequence = n
            /\ \A i \in DOMAIN news : i < j => news[i].sequence < n
    /\ kind = "profiles" =>
        \A i \in DOMAIN news : news[i].sequence = n => news[i].subject = "profile"

Continues(news) ==
    /\ Sends(news) /\ Sorted(news) /\ \A i \in DOMAIN news : Tells(news[i])
    /\ Started' = Started
    /\ spent'.count["lost"] = spent.count["lost"]
    /\ service'.owner.uuid = service.owner.uuid /\ service.sequence <= service'.sequence
    /\ service.state = "READY" => service'.state = "READY" /\ service'.owner = service.owner
    /\ \A i \in DOMAIN news : IsAnswered(news[i]) => UNCHANGED <<service, content, open>>
    /\ \/ service.state # "READY"
       \/ content' = content /\ (kind # "profiles" => open' = open)
       \/ \E n \in Nat : Announces(news, n)

\* Another incarnation of the service, or none.
Turns(news) ==
    /\ Sends(news)
    /\ \A i \in DOMAIN news : ~IsDated(news[i])
    /\ \E i \in DOMAIN news : news[i].kind = "owner"
    /\ Started <= Started' /\ Started' \in Nat
    /\ spent'.count["lost"] = spent.count["lost"]
    /\ service'.owner.uuid = 0 \/ service'.owner.uuid > Started
    /\ service'.sequence = 0

LEMMA ErrorsAreMessages ==
    ASSUME NEW call, NEW ep, IsRequest(call, ep), NEW m, IsErrorFor(m, call)
    PROVE  IsMessage(m, ep) /\ ~IsDated(m) /\ m.kind = "reply" /\ m.call = call
  BY DEF IsErrorFor, IsRequest, IsMessage, IsDated, IsSignal, IsAnswered

LEMMA OwnersAreMessages ==
    ASSUME NEW alive \in BOOLEAN, NEW ep
    PROVE  LET m == OwnerChanged(alive)
           IN  IsMessage(m, ep) /\ ~IsDated(m) /\ m.kind = "owner"
  BY ConnectionAssumption DEF OwnerChanged, IsMessage, IsDated, IsSignal, IsAnswered

LEMMA EventsAreMessages ==
    ASSUME NEW owner \in Owners, owner # NoOwner, NEW n \in Nat, n > 0, NEW subject, NEW ep, ReadInv
    PROVE  LET m == EventOf(owner, n, subject)
           IN  /\ IsMessage(m, ep) /\ m.kind = "event" /\ IsSignal(m) /\ ~IsAnswered(m)
               /\ m.owner = owner /\ m.sequence = service.sequence + n /\ m.subject = subject
  <1>1. service.sequence \in Nat
    BY DEF ReadInv, BusKnown
  <1> QED
    BY <1>1, ConnectionAssumption DEF EventOf, IsMessage, IsSignal, IsAnswered

\* Errors for all calls.
LEMMA AllCallsFail ==
    ASSUME ReadInv, NEW errors \in ErrorReplies, NEW ms, IsSeq(ms),
           Underway(calls, ms, client.ownerEpoch, client.inFlight)
    PROVE  /\ Underway(<<>>, ms \o errors, client.ownerEpoch, client.inFlight)
           /\ IsSeq(errors)
           /\ \A i \in DOMAIN errors :
                /\ IsMessage(errors[i], client.ownerEpoch) /\ ~IsDated(errors[i])
                /\ errors[i].kind = "reply"
                /\ \E k \in DOMAIN calls : errors[i].call = calls[k].call
  <1>1. /\ Underway(<<>>, ms \o errors, client.ownerEpoch, client.inFlight)
        /\ IsSeq(errors)
        /\ \A i \in DOMAIN errors : \E k \in DOMAIN calls : IsErrorFor(errors[i], calls[k].call)
    <2> DEFINE ep == client.ownerEpoch
               busy == client.inFlight
    <2>1. IsSeq(calls) /\ Underway(calls, ms, ep, busy)
      BY DEF ReadInv, Queued
    <2> HIDE DEF ep, busy
    <2>2. Underway(<<>>, ms \o errors, ep, busy)
      BY <2>1, CallsFail
    <2>3. /\ IsSeq(errors)
          /\ \A i \in DOMAIN errors : \E k \in DOMAIN calls : IsErrorFor(errors[i], calls[k].call)
      BY <2>1, CallsFail
    <2> QED
      BY <2>2, <2>3 DEF ep, busy
  <1>2. ASSUME NEW i \in DOMAIN errors
        PROVE  /\ IsMessage(errors[i], client.ownerEpoch) /\ ~IsDated(errors[i])
               /\ errors[i].kind = "reply"
               /\ \E k \in DOMAIN calls : errors[i].call = calls[k].call
    <2>1. PICK k \in DOMAIN calls : IsErrorFor(errors[i], calls[k].call)
      BY <1>1
    <2>2. IsRequest(calls[k].call, client.ownerEpoch)
      BY DEF ReadInv, Queued, IsCall
    <2> QED
      BY <2>1, <2>2, ErrorsAreMessages
  <1> QED
    BY <1>1, <1>2

LEMMA NoCalls ==
    ASSUME calls' = <<>>
    PROVE  IsSeq(calls') /\ \A i \in DOMAIN calls' : FALSE
  BY ListIsSeq

LEMMA ConcatHas ==
    ASSUME NEW s, IsSeq(s), NEW t, IsSeq(t)
    PROVE  /\ IsSeq(s \o t)
           /\ \A i \in DOMAIN (s \o t) :
                \/ i \in DOMAIN s /\ (s \o t)[i] = s[i]
                \/ i - Len(s) \in DOMAIN t /\ (s \o t)[i] = t[i - Len(s)]
           /\ \A i \in DOMAIN s : i \in DOMAIN (s \o t) /\ (s \o t)[i] = s[i]
           /\ \A i \in DOMAIN t : i + Len(s) \in DOMAIN (s \o t) /\ (s \o t)[i + Len(s)] = t[i]
  <1> DEFINE u == s \o t
  <1>1. /\ IsSeq(u) /\ DOMAIN u = 1..(Len(s) + Len(t))
        /\ \A i \in DOMAIN s : i \in DOMAIN u /\ u[i] = s[i]
        /\ \A i \in DOMAIN u : i \notin DOMAIN s =>
                i - Len(s) \in DOMAIN t /\ u[i] = t[i - Len(s)]
    BY SeqConcat
  <1>2. /\ Len(s) \in Nat /\ DOMAIN s = 1..Len(s)
        /\ Len(t) \in Nat /\ DOMAIN t = 1..Len(t)
    BY SeqFacts
  <1> HIDE DEF u
  <1>3. ASSUME NEW i \in DOMAIN t
        PROVE  i + Len(s) \in DOMAIN u /\ u[i + Len(s)] = t[i]
    <2>1. i + Len(s) \in DOMAIN u /\ i + Len(s) \notin DOMAIN s /\ (i + Len(s)) - Len(s) = i
      BY <1>1, <1>2
    <2> QED
      BY <1>1, <2>1
  <1>4. /\ IsSeq(u)
        /\ \A i \in DOMAIN u :
             \/ i \in DOMAIN s /\ u[i] = s[i]
             \/ i - Len(s) \in DOMAIN t /\ u[i] = t[i - Len(s)]
        /\ \A i \in DOMAIN s : i \in DOMAIN u /\ u[i] = s[i]
        /\ \A i \in DOMAIN t : i + Len(s) \in DOMAIN u /\ u[i + Len(s)] = t[i]
    BY <1>1, <1>3
  <1> QED
    BY <1>4 DEF u

-----------------------------------------------------------------------------
(* The steps of the bus.                                                   *)

ClientStays == UNCHANGED <<kind, client, content, open>>

LEMMA NothingSent ==
    ASSUME ReadInv
    PROVE  /\ Sorted(<<>>)
           /\ \A i \in DOMAIN <<>> : FALSE
  BY DEF Sorted

\* Signals alone, while the calls stay.
LEMMA SignalsAreSent ==
    ASSUME ReadInv, BusKnown', UNCHANGED <<kind, client, calls>>, content' \in Nat, open' \in BOOLEAN,
           NEW news, IsSeq(news), inbox' = inbox \o news,
           \A i \in DOMAIN news : IsMessage(news[i], client.ownerEpoch) /\ news[i].kind # "reply"
    PROVE  Sends(news)
  <1>1. IsSeq(calls) /\ IsSeq(inbox) /\ \A i \in DOMAIN calls : IsCall(calls[i], client.ownerEpoch)
    BY DEF ReadInv, Queued
  <1>2. Underway(calls, inbox \o news, client.ownerEpoch, client.inFlight)
    BY <1>1, NewsArrives DEF ReadInv
  <1> QED
    BY <1>1, <1>2 DEF Sends

LEMMA StartTurns ==
    ASSUME ReadInv, ServiceStarts, ClientStays PROVE \E news : Turns(news)
  <1> DEFINE m == OwnerChanged(TRUE)
             news == <<m>>
             fresh == [owner |-> [uuid |-> Started + 1, generation |-> 1],
                       state |-> "STARTING", sequence |-> 0]
  <1>1. IsMessage(m, client.ownerEpoch) /\ ~IsDated(m) /\ m.kind = "owner"
    BY OwnersAreMessages
  <1>2. /\ DOMAIN spent' = {"limits", "count"} /\ spent'.limits = spent.limits
        /\ spent'.count \in [Spendable -> Nat]
        /\ Started' = Started + 1 /\ spent'.count["start"] <= spent.limits["start"]
        /\ spent'.count["lost"] = spent.count["lost"]
    BY Spends DEF ServiceStarts, Spendable, ReadInv, BusKnown, Started
  <1>3. service' = fresh
    BY DEF ServiceStarts, Started
  <1>4. BusKnown'
    <2>1. spent'.limits \in Limits /\ Started \in Nat /\ Started' <= MaxStarts /\ MaxStarts \in Nat
          /\ persistedGeneration \in Nat /\ persistedGeneration <= Started
          /\ persistedGeneration' = persistedGeneration
      BY <1>2, StartsTyped DEF ReadInv, BusKnown, Started, ServiceStarts, Spendable
    <2>2. fresh \in [owner : Owners, sequence : Nat, state : States]
          /\ fresh.owner.uuid = Started + 1 /\ fresh.state = "STARTING" /\ fresh.sequence = 0
      BY <1>2, <2>1, StartsTyped DEF Owners, States
    <2> HIDE DEF fresh
    <2> QED
      BY <1>2, <1>3, <2>1, <2>2 DEF BusKnown, Started
  <1> HIDE DEF m
  <1>5. /\ IsSeq(news) /\ inbox' = inbox \o news /\ DOMAIN news = {1} /\ news[1] = m
    <2>1. inbox' = Append(inbox, m) /\ IsSeq(inbox)
      BY DEF ServiceStarts, m, ReadInv, Queued
    <2>2. IsSeq(news) /\ inbox \o <<m>> = Append(inbox, m)
      BY <2>1, ListIsSeq, SeqConcat
    <2>3. DOMAIN <<m>> = {1} /\ <<m>>[1] = m
      OBVIOUS
    <2> QED
      BY <2>1, <2>2, <2>3
  <1> HIDE DEF news
  <1>6. \A i \in DOMAIN news : IsMessage(news[i], client.ownerEpoch) /\ news[i].kind # "reply"
                               /\ ~IsDated(news[i]) /\ news[i].kind = "owner"
    BY <1>1, <1>5
  <1>7. UNCHANGED <<kind, client, calls>> /\ content' \in Nat /\ open' \in BOOLEAN
    BY DEF ServiceStarts, ClientStays, ReadInv
  <1>8. Sends(news)
    BY <1>4, <1>5, <1>6, <1>7, SignalsAreSent
  <1>9. /\ Started <= Started' /\ Started' \in Nat
        /\ service'.owner.uuid > Started /\ service'.sequence = 0
    BY <1>2, <1>3 DEF ReadInv, BusKnown, Started, Spendable
  <1>10. Turns(news)
    BY <1>2, <1>5, <1>6, <1>8, <1>9 DEF Turns
  <1> QED
    BY <1>10

LEMMA EndTurns ==
    ASSUME ReadInv, ServiceEnds, ClientStays PROVE \E news : Turns(news)
  <1> DEFINE gone == OwnerChanged(FALSE)
             one == <<gone>>
             ep == client.ownerEpoch
  <1>1. PICK errors \in ErrorReplies : \/ inbox' = inbox \o one \o errors
                                       \/ inbox' = inbox \o errors \o one
    BY DEF ServiceEnds
  <1>2. IsMessage(gone, ep) /\ ~IsDated(gone) /\ gone.kind = "owner"
    BY OwnersAreMessages
  <1> HIDE DEF gone
  <1>3. IsSeq(inbox) /\ IsSeq(one) /\ DOMAIN one = {1} /\ one[1] = gone
        /\ Underway(calls, inbox, ep, client.inFlight)
    BY ListIsSeq DEF ReadInv, Queued
  <1> HIDE DEF one, ep
  <1>4. Underway(calls, inbox \o one, ep, client.inFlight) /\ IsSeq(inbox \o one)
    <2>1. \A i \in DOMAIN one : one[i].kind # "reply"
      BY <1>2, <1>3
    <2> QED
      BY <1>3, <2>1, NewsArrives, SeqConcat
  <1>5. /\ Underway(<<>>, (inbox \o one) \o errors, ep, client.inFlight)
        /\ Underway(<<>>, inbox \o errors, ep, client.inFlight)
        /\ IsSeq(errors)
        /\ \A i \in DOMAIN errors :
             /\ IsMessage(errors[i], ep) /\ ~IsDated(errors[i])
             /\ errors[i].kind = "reply"
             /\ \E k \in DOMAIN calls : errors[i].call = calls[k].call
    <2>1. Underway(<<>>, (inbox \o one) \o errors, ep, client.inFlight)
      BY <1>4, AllCallsFail DEF ep
    <2> QED
      BY <1>3, <2>1, AllCallsFail DEF ep
  <1>6. Underway(<<>>, (inbox \o errors) \o one, ep, client.inFlight)
    <2>1. \A i \in DOMAIN one : one[i].kind # "reply"
      BY <1>2, <1>3
    <2>2. IsSeq(inbox \o errors)
      BY <1>3, <1>5, SeqConcat
    <2> QED
      BY <1>3, <1>5, <2>1, <2>2, NewsArrives
  <1>7. /\ (inbox \o one) \o errors = inbox \o (one \o errors)
        /\ (inbox \o errors) \o one = inbox \o (errors \o one)
    <2>1. IsSeq(inbox) /\ IsSeq(one) /\ IsSeq(errors)
      BY <1>3, <1>5
    <2>2. (inbox \o one) \o errors = inbox \o (one \o errors)
      BY ONLY <2>1, ConcatIsAssociative
    <2>3. (inbox \o errors) \o one = inbox \o (errors \o one)
      BY ONLY <2>1, ConcatIsAssociative
    <2> QED
      BY <2>2, <2>3
  <1>8. /\ service' = NoService /\ UNCHANGED <<spent, persistedGeneration>> /\ calls' = <<>>
        /\ UNCHANGED <<kind, client>> /\ content' \in Nat /\ open' \in BOOLEAN
    BY DEF ServiceEnds, ClientStays, ReadInv
  <1>9. BusKnown' /\ Started' = Started /\ Started \in Nat
        /\ service'.owner.uuid = 0 /\ service'.sequence = 0
    <2>1. NoService \in [owner : Owners, sequence : Nat, state : States]
          /\ NoService.owner.uuid = 0 /\ NoService.sequence = 0 /\ NoService.state = "STOPPED"
      BY NobodyTyped DEF NoService, NoOwner, States
    <2> QED
      BY <1>8, <2>1 DEF ReadInv, BusKnown, Started, Spendable
  <1>10. IsSeq(calls') /\ \A i \in DOMAIN calls' : FALSE
    BY <1>8, NoCalls
  <1>11. ASSUME NEW news, IsSeq(news), inbox' = inbox \o news,
                Underway(<<>>, inbox', ep, client.inFlight),
                \A i \in DOMAIN news : news[i] = gone \/ \E k \in DOMAIN errors : news[i] = errors[k],
                \E i \in DOMAIN news : news[i] = gone
         PROVE  Turns(news)
    <2>1. \A i \in DOMAIN news :
            /\ IsMessage(news[i], client.ownerEpoch) /\ ~IsDated(news[i])
            /\ news[i].kind = "reply" => \E k \in DOMAIN calls : news[i].call = calls[k].call
      BY <1>2, <1>5, <1>11 DEF ep
    <2>2. Sends(news)
      BY <1>8, <1>9, <1>10, <1>11, <2>1 DEF Sends, ep
    <2> QED
      BY <1>2, <1>8, <1>9, <1>11, <2>1, <2>2 DEF Turns
  <1>12. CASE inbox' = inbox \o one \o errors
    <2> DEFINE news == one \o errors
    <2>1. /\ IsSeq(news)
          /\ \A i \in DOMAIN news :
               \/ i \in DOMAIN one /\ news[i] = one[i]
               \/ i - Len(one) \in DOMAIN errors /\ news[i] = errors[i - Len(one)]
          /\ \A i \in DOMAIN one : i \in DOMAIN news /\ news[i] = one[i]
          /\ \A i \in DOMAIN errors : i + Len(one) \in DOMAIN news /\ news[i + Len(one)] = errors[i]
      BY <1>3, <1>5, ConcatHas
    <2>2. inbox' = inbox \o news /\ Underway(<<>>, inbox', ep, client.inFlight)
      BY <1>5, <1>7, <1>12
    <2> HIDE DEF news
    <2>3. /\ \A i \in DOMAIN news : news[i] = gone \/ \E k \in DOMAIN errors : news[i] = errors[k]
          /\ \E i \in DOMAIN news : news[i] = gone
      BY <1>3, <2>1
    <2> QED
      BY <1>11, <2>1, <2>2, <2>3
  <1>13. CASE inbox' = inbox \o errors \o one
    <2> DEFINE news == errors \o one
    <2>1. /\ IsSeq(news)
          /\ \A i \in DOMAIN news :
               \/ i \in DOMAIN errors /\ news[i] = errors[i]
               \/ i - Len(errors) \in DOMAIN one /\ news[i] = one[i - Len(errors)]
          /\ \A i \in DOMAIN errors : i \in DOMAIN news /\ news[i] = errors[i]
          /\ \A i \in DOMAIN one : i + Len(errors) \in DOMAIN news /\ news[i + Len(errors)] = one[i]
      BY <1>3, <1>5, ConcatHas
    <2>2. inbox' = inbox \o news /\ Underway(<<>>, inbox', ep, client.inFlight)
      BY <1>6, <1>7, <1>13
    <2> HIDE DEF news
    <2>3. /\ \A i \in DOMAIN news : news[i] = gone \/ \E k \in DOMAIN errors : news[i] = errors[k]
          /\ \E i \in DOMAIN news : news[i] = gone
      BY <1>3, <2>1
    <2> QED
      BY <1>11, <2>1, <2>2, <2>3
  <1> QED
    BY <1>1, <1>12, <1>13

\* A signal of the running service with one of its new numbers.
IsNews(m) ==
    /\ m.to = {"client"} /\ IsSignal(m)
    /\ m.owner \in Owners /\ m.owner.uuid = service.owner.uuid
    /\ m.sequence \in Nat /\ service.sequence < m.sequence /\ m.sequence <= service'.sequence

\* The running service goes on.
GoesOn ==
    /\ ReadInv /\ BusKnown' /\ Started' = Started /\ UNCHANGED <<kind, client>>
    /\ content' \in Nat /\ open' \in BOOLEAN
    /\ spent'.count["lost"] = spent.count["lost"]
    /\ service'.owner.uuid = service.owner.uuid /\ service.sequence <= service'.sequence
    /\ service.state = "READY" => service'.state = "READY" /\ service'.owner = service.owner

LEMMA SignalsContinue ==
    ASSUME GoesOn, Alive, UNCHANGED calls,
           NEW news, IsSeq(news), inbox' = inbox \o news,
           \A i \in DOMAIN news : IsNews(news[i]),
           \A i, j \in DOMAIN news : i < j => news[i].sequence <= news[j].sequence,
           \/ service.state # "READY"
           \/ content' = content /\ (kind # "profiles" => open' = open)
           \/ \E n \in Nat : Announces(news, n)
    PROVE  Continues(news)
  <1>1. service.owner.uuid # 0 /\ service.sequence \in Nat
    BY Owned DEF GoesOn, ReadInv, BusKnown
  <1>2. ASSUME NEW i \in DOMAIN news
        PROVE  /\ IsMessage(news[i], client.ownerEpoch) /\ news[i].kind # "reply"
               /\ IsSignal(news[i]) /\ ~IsAnswered(news[i]) /\ Tells(news[i])
    BY <1>1 DEF IsNews, IsMessage, IsSignal, IsAnswered, Tells, NoOwner
  <1>3. Sends(news)
    BY <1>2, SignalsAreSent DEF GoesOn
  <1>4. Sorted(news)
    BY <1>2 DEF Sorted
  <1> QED
    BY <1>2, <1>3, <1>4 DEF GoesOn, Continues

LEMMA EventIsNews ==
    ASSUME GoesOn, NEW owner \in Owners, owner.uuid = service.owner.uuid,
           NEW n \in Nat, n > 0, service.sequence + n <= service'.sequence, NEW subject
    PROVE  LET m == EventOf(owner, n, subject)
           IN  IsNews(m) /\ m.sequence = service.sequence + n
  <1>1. service.sequence \in Nat
    BY DEF GoesOn, ReadInv, BusKnown
  <1> QED
    BY <1>1, ConnectionAssumption DEF EventOf, IsNews, IsSignal

LEMMA RecoveryContinues ==
    ASSUME ReadInv, ServiceRecovers, ClientStays PROVE \E news : Continues(news)
  <1> DEFINE first == EventOf(service.owner, 1, "readiness")
             recovered == [service.owner EXCEPT !.generation = persistedGeneration + 1]
  <1>1. /\ BusKnown /\ service.state = "STARTING" /\ Alive /\ service.sequence = 0
        /\ persistedGeneration \in Nat /\ persistedGeneration + 1 <= Started
        /\ Started <= MaxStarts /\ MaxStarts \in Nat /\ Started \in Nat
    BY Owned, StartsTyped DEF ServiceRecovers, ReadInv, BusKnown, Started, Spendable
  <1>2. recovered \in Owners /\ recovered.uuid = service.owner.uuid
    <2>1. persistedGeneration + 1 \in 0..MaxStarts /\ service.owner \in Owners
      BY <1>1 DEF BusKnown
    <2> QED
      BY <2>1, Recovered
  <1>3. \/ /\ service' = [owner |-> recovered, state |-> "RECOVERING", sequence |-> 1]
           /\ persistedGeneration' = persistedGeneration + 1
           /\ inbox' = Append(inbox, first)
           /\ UNCHANGED spent
        \/ /\ Spend("failure")
           /\ \E owner \in {service.owner, recovered} :
                 /\ service' = [owner |-> owner, state |-> "FAILED", sequence |-> 2]
                 /\ inbox' = inbox \o <<first, EventOf(owner, 2, "readiness")>>
           /\ UNCHANGED persistedGeneration
    BY Zenon DEF ServiceRecovers
  <1>4. IsSeq(inbox) /\ service.owner \in Owners /\ service.owner.uuid # 0
    BY <1>1, Owned DEF ReadInv, Queued, BusKnown
  <1>5. /\ UNCHANGED <<kind, client, calls>> /\ content' \in Nat /\ open' \in BOOLEAN
        /\ content' = content /\ open' = open
    BY DEF ServiceRecovers, ClientStays, ReadInv
  <1> HIDE DEF recovered
  <1>6. CASE /\ service' = [owner |-> recovered, state |-> "RECOVERING", sequence |-> 1]
             /\ persistedGeneration' = persistedGeneration + 1
             /\ inbox' = Append(inbox, first)
             /\ UNCHANGED spent
    <2> DEFINE news == <<first>>
    <2>1. /\ service'.owner = recovered /\ service'.state = "RECOVERING" /\ service'.sequence = 1
          /\ service' \in [owner : Owners, sequence : Nat, state : States]
      BY <1>2, <1>6 DEF States
    <2>2. BusKnown' /\ Started' = Started
      BY <1>1, <1>2, <1>4, <1>6, <2>1 DEF BusKnown, Started
    <2>3. GoesOn
      BY <1>1, <1>2, <1>5, <1>6, <2>1, <2>2 DEF GoesOn
    <2>4. IsNews(first) /\ first.sequence = 1
      BY <1>1, <1>4, <2>1, <2>3, EventIsNews
    <2> HIDE DEF first
    <2>5. /\ IsSeq(news) /\ inbox' = inbox \o news /\ DOMAIN news = {1} /\ news[1] = first
      <3>1. IsSeq(news) /\ inbox \o <<first>> = Append(inbox, first)
        BY <1>4, ListIsSeq, SeqConcat
      <3>2. DOMAIN <<first>> = {1} /\ <<first>>[1] = first
        OBVIOUS
      <3> QED
        BY <1>6, <3>1, <3>2
    <2> HIDE DEF news
    <2>6. Continues(news)
      BY <1>1, <1>5, <2>3, <2>4, <2>5, SignalsContinue
    <2> QED
      BY <2>6
  <1>7. CASE /\ Spend("failure")
             /\ \E owner \in {service.owner, recovered} :
                   /\ service' = [owner |-> owner, state |-> "FAILED", sequence |-> 2]
                   /\ inbox' = inbox \o <<first, EventOf(owner, 2, "readiness")>>
             /\ UNCHANGED persistedGeneration
    <2>1. PICK owner \in {service.owner, recovered} :
                   /\ service' = [owner |-> owner, state |-> "FAILED", sequence |-> 2]
                   /\ inbox' = inbox \o <<first, EventOf(owner, 2, "readiness")>>
      BY <1>7
    <2> DEFINE second == EventOf(owner, 2, "readiness")
               news == <<first, second>>
    <2>2. owner \in Owners /\ owner.uuid = service.owner.uuid
      BY <1>2, <1>4
    <2>3. /\ service'.owner = owner /\ service'.state = "FAILED" /\ service'.sequence = 2
          /\ service' \in [owner : Owners, sequence : Nat, state : States]
      BY <2>1, <2>2 DEF States
    <2>4. BusKnown' /\ Started' = Started
      BY <1>1, <1>7, <2>2, <2>3, BusMoves DEF Spendable
    <2>5. spent'.count["lost"] = spent.count["lost"]
      BY <1>1, <1>7, Spends DEF BusKnown, Spendable
    <2>6. GoesOn
      BY <1>1, <1>5, <2>2, <2>3, <2>4, <2>5 DEF GoesOn
    <2>7. IsNews(first) /\ first.sequence = 1 /\ IsNews(second) /\ second.sequence = 2
      BY <1>1, <1>4, <2>2, <2>3, <2>6, EventIsNews
    <2>8. inbox' = inbox \o news
      BY <2>1
    <2> HIDE DEF first, second
    <2>9. IsSeq(news) /\ DOMAIN news = {1, 2} /\ news[1] = first /\ news[2] = second
      <3>1. DOMAIN <<first, second>> = {1, 2} /\ <<first, second>>[1] = first
            /\ <<first, second>>[2] = second
        OBVIOUS
      <3> QED
        BY <3>1, ListIsSeq
    <2> HIDE DEF news
    <2>10. /\ \A i \in DOMAIN news : IsNews(news[i])
           /\ \A i, j \in DOMAIN news : i < j => news[i].sequence <= news[j].sequence
      BY <2>7, <2>9
    <2>11. Continues(news)
      BY <1>1, <1>5, <2>6, <2>8, <2>9, <2>10, SignalsContinue
    <2> QED
      BY <2>11
  <1> QED
    BY <1>3, <1>6, <1>7

LEMMA InventoryContinues ==
    ASSUME ReadInv, ServiceFailsInventory, ClientStays PROVE \E news : Continues(news)
  <1> DEFINE first == EventOf(service.owner, 1, "readiness")
             news == <<first>>
  <1>1. /\ service.state = "RECOVERING" /\ Spend("failure")
        /\ service' = [service EXCEPT !.state = "FAILED", !.sequence = @ + 1]
        /\ inbox' = Append(inbox, first)
        /\ UNCHANGED persistedGeneration
    BY DEF ServiceFailsInventory
  <1>2. /\ BusKnown /\ service.sequence \in Nat /\ service.owner \in Owners
        /\ service.owner.uuid # 0 /\ Alive /\ IsSeq(inbox)
    BY <1>1, Owned DEF ReadInv, BusKnown, Queued
  <1>3. /\ service'.owner = service.owner /\ service'.state = "FAILED"
        /\ service'.sequence = service.sequence + 1
        /\ service' \in [owner : Owners, sequence : Nat, state : States]
    <2>1. service \in [owner : Owners, sequence : Nat, state : States] /\ "FAILED" \in States
          /\ service.sequence + 1 \in Nat
      BY <1>2 DEF BusKnown, States
    <2> QED
      BY <1>1, <2>1, ServiceMoved, Zenon
  <1>4. BusKnown' /\ Started' = Started
    BY <1>1, <1>2, <1>3, BusMoves DEF Spendable
  <1>5. spent'.count["lost"] = spent.count["lost"]
    BY <1>1, <1>2, Spends DEF BusKnown, Spendable
  <1>6. /\ UNCHANGED <<kind, client, calls>> /\ content' \in Nat /\ open' \in BOOLEAN
        /\ content' = content /\ open' = open
    BY DEF ServiceFailsInventory, ClientStays, ReadInv
  <1>7. GoesOn
    BY <1>1, <1>2, <1>3, <1>4, <1>5, <1>6 DEF GoesOn
  <1>8. IsNews(first)
    BY <1>2, <1>3, <1>7, EventIsNews
  <1> HIDE DEF first
  <1>9. IsSeq(news) /\ inbox' = inbox \o news /\ DOMAIN news = {1} /\ news[1] = first
    <2>1. IsSeq(news) /\ inbox \o <<first>> = Append(inbox, first)
      BY <1>2, ListIsSeq, SeqConcat
    <2>2. DOMAIN <<first>> = {1} /\ <<first>>[1] = first
      OBVIOUS
    <2> QED
      BY <1>1, <2>1, <2>2
  <1> HIDE DEF news
  <1>10. Continues(news)
    BY <1>2, <1>6, <1>7, <1>8, <1>9, SignalsContinue
  <1> QED
    BY <1>10

\* Errors alone, and no change of the service.
LEMMA ErrorsContinue ==
    ASSUME ReadInv, BusKnown', Started' = Started, ClientStays, UNCHANGED service,
           spent'.count["lost"] = spent.count["lost"],
           NEW news, IsSeq(news), inbox' = inbox \o news,
           \A i \in DOMAIN news :
              /\ IsMessage(news[i], client.ownerEpoch) /\ ~IsDated(news[i])
              /\ news[i].kind = "reply" /\ \E k \in DOMAIN calls : news[i].call = calls[k].call,
           IsSeq(calls'),
           \A i \in DOMAIN calls' : /\ IsCall(calls'[i], client.ownerEpoch)
                                    /\ \E k \in DOMAIN calls : calls'[i].call = calls[k].call,
           Underway(calls', inbox', client.ownerEpoch, client.inFlight)
    PROVE  Continues(news)
  <1>1. /\ UNCHANGED <<kind, client>> /\ content' = content /\ open' = open
        /\ content' \in Nat /\ open' \in BOOLEAN
    BY DEF ClientStays, ReadInv
  <1>2. Sends(news)
    BY <1>1 DEF Sends
  <1>3. \A i \in DOMAIN news : ~IsSignal(news[i]) /\ ~IsAnswered(news[i]) /\ Tells(news[i])
    BY DEF IsDated, Tells
  <1>4. Sorted(news)
    BY <1>3 DEF Sorted
  <1>5. service.sequence \in Nat
    BY DEF ReadInv, BusKnown
  <1> QED
    BY <1>1, <1>2, <1>3, <1>4, <1>5 DEF Continues

LEMMA TimeoutContinues ==
    ASSUME ReadInv, CallTimesOut, ClientStays PROVE \E news : Continues(news)
  <1> DEFINE ep == client.ownerEpoch
             busy == client.inFlight
  <1>1. PICK i \in DOMAIN calls :
          /\ calls[i].awaited
          /\ calls' = [calls EXCEPT ![i].awaited = FALSE]
          /\ inbox' = Append(inbox, ErrorReply(calls[i].call))
    BY DEF CallTimesOut
  <1>2. /\ BusKnown /\ Spend("timeout") /\ UNCHANGED <<service, persistedGeneration>>
    BY DEF CallTimesOut, ReadInv
  <1>3. BusKnown' /\ Started' = Started
    BY <1>2, BusMoves DEF Spendable
  <1>4. spent'.count["lost"] = spent.count["lost"]
    BY <1>2, Spends DEF BusKnown, Spendable
  <1>5. /\ IsSeq(calls) /\ \A k \in DOMAIN calls : IsCall(calls[k], ep)
        /\ IsSeq(inbox) /\ Underway(calls, inbox, ep, busy)
    BY DEF ReadInv, Queued
  <1> HIDE DEF ep, busy
  <1> DEFINE m == ErrorReply(calls[i].call)
             news == <<m>>
  <1>6. IsErrorFor(m, calls[i].call)
    BY DEF ErrorReply, IsErrorFor
  <1>7. IsMessage(m, ep) /\ ~IsDated(m) /\ m.kind = "reply" /\ m.call = calls[i].call
    <2>1. IsRequest(calls[i].call, ep)
      BY <1>5 DEF IsCall
    <2> QED
      BY <1>6, <2>1, ErrorsAreMessages
  <1>8. /\ Underway(calls', inbox', ep, busy)
        /\ IsSeq(calls') /\ DOMAIN calls' = DOMAIN calls
        /\ \A j \in DOMAIN calls : j # i => calls'[j] = calls[j]
        /\ calls'[i].call = calls[i].call /\ calls'[i].awaited = FALSE
        /\ DOMAIN calls'[i] = {"call", "awaited"}
    <2>1. DOMAIN calls[i] = {"call", "awaited"}
      BY <1>5 DEF IsCall
    <2> QED
      BY <1>1, <1>5, <2>1, CallGivenUp
  <1>9. \A j \in DOMAIN calls' : /\ IsCall(calls'[j], ep)
                                 /\ \E k \in DOMAIN calls : calls'[j].call = calls[k].call
    BY <1>5, <1>8 DEF IsCall
  <1> HIDE DEF m
  <1>10. IsSeq(news) /\ inbox' = inbox \o news /\ DOMAIN news = {1} /\ news[1] = m
    <2>1. IsSeq(news) /\ inbox \o <<m>> = Append(inbox, m)
      BY <1>5, ListIsSeq, SeqConcat
    <2>2. DOMAIN <<m>> = {1} /\ <<m>>[1] = m
      OBVIOUS
    <2>3. inbox' = Append(inbox, m)
      BY <1>1 DEF m
    <2> QED
      BY <2>1, <2>2, <2>3
  <1> HIDE DEF news
  <1>11. \A j \in DOMAIN news :
              /\ IsMessage(news[j], ep) /\ ~IsDated(news[j])
              /\ news[j].kind = "reply" /\ \E k \in DOMAIN calls : news[j].call = calls[k].call
    BY <1>7, <1>10
  <1>12. Continues(news)
    BY <1>2, <1>3, <1>4, <1>8, <1>9, <1>10, <1>11, ErrorsContinue DEF ep, busy
  <1> QED
    BY <1>12

LEMMA ActivationContinues ==
    ASSUME ReadInv, ActivationFails, ClientStays PROVE \E news : Continues(news)
  <1>1. PICK errors \in ErrorReplies : inbox' = inbox \o errors
    BY DEF ActivationFails
  <1>2. calls' = <<>> /\ UNCHANGED <<service, persistedGeneration, spent>>
    BY DEF ActivationFails
  <1>3. BusKnown' /\ Started' = Started
    BY <1>2, BusMoves DEF ReadInv
  <1>4. IsSeq(inbox) /\ Underway(calls, inbox, client.ownerEpoch, client.inFlight)
    BY DEF ReadInv, Queued
  <1>5. /\ Underway(<<>>, inbox \o errors, client.ownerEpoch, client.inFlight)
        /\ IsSeq(errors)
        /\ \A i \in DOMAIN errors :
             /\ IsMessage(errors[i], client.ownerEpoch) /\ ~IsDated(errors[i])
             /\ errors[i].kind = "reply"
             /\ \E k \in DOMAIN calls : errors[i].call = calls[k].call
    BY <1>4, AllCallsFail
  <1>6. IsSeq(calls') /\ \A i \in DOMAIN calls' : FALSE
    BY <1>2, NoCalls
  <1>7. Continues(errors)
    BY <1>1, <1>2, <1>3, <1>5, <1>6, ErrorsContinue
  <1> QED
    BY <1>7

\* A signal is lost, and the run knows.
Loses(x) ==
    /\ inbox' = SubSeq(inbox, 1, x - 1) \o SubSeq(inbox, x + 1, Len(inbox))
    /\ x \in DOMAIN inbox /\ IsSignal(inbox[x])
    /\ UNCHANGED <<service, persistedGeneration, calls, kind, client, content, open>>
    /\ Started' = Started /\ spent'.count["lost"] \in Nat /\ spent'.count["lost"] # 0

LEMMA LossIsKnown ==
    ASSUME ReadInv, SignalLost, ClientStays
    PROVE  ReadInv' /\ \E x : Loses(x)
  <1>1. PICK x \in DOMAIN inbox :
          /\ IsSignal(inbox[x])
          /\ inbox' = SubSeq(inbox, 1, x - 1) \o SubSeq(inbox, x + 1, Len(inbox))
    BY DEF SignalLost, IsSignal
  <1>2. /\ BusKnown /\ Spend("lost")
        /\ UNCHANGED <<service, persistedGeneration, calls, kind, client, content, open>>
    BY DEF SignalLost, ReadInv, ClientStays
  <1>3. BusKnown' /\ Started' = Started
    BY <1>2, BusMoves DEF Spendable
  <1>4. spent'.count["lost"] \in Nat /\ spent'.count["lost"] # 0
    <2>1. "lost" \in Spendable
      BY DEF Spendable
    <2>2. spent.count["lost"] \in Nat /\ spent'.count["lost"] = spent.count["lost"] + 1
      BY <1>2, <2>1, Spends DEF BusKnown
    <2> QED
      BY <2>2
  <1>5. Loses(x)
    BY <1>1, <1>2, <1>3, <1>4 DEF Loses
  <1>6. /\ IsSeq(inbox) /\ \A i \in DOMAIN inbox : IsMessage(inbox[i], client.ownerEpoch)
        /\ Len(inbox) \in Nat /\ DOMAIN inbox = 1..Len(inbox)
        /\ Underway(calls, inbox, client.ownerEpoch, client.inFlight)
    BY SeqFacts DEF ReadInv, Queued
  <1>7. /\ IsSeq(inbox') /\ DOMAIN inbox' = 1..(Len(inbox) - 1)
        /\ \A k \in DOMAIN inbox' : inbox'[k] = inbox[IF k < x THEN k ELSE k + 1]
    BY <1>1, <1>6, SeqWithout
  <1>8. ASSUME NEW k \in DOMAIN inbox' PROVE IsMessage(inbox'[k], client.ownerEpoch)
    <2> DEFINE n == Len(inbox)
    <2>1. n \in Nat /\ DOMAIN inbox = 1..n /\ x \in 1..n /\ k \in 1..(n - 1)
      BY <1>1, <1>6, <1>7
    <2> HIDE DEF n
    <2>2. (IF k < x THEN k ELSE k + 1) \in 1..n
      BY ONLY <2>1
    <2>3. (IF k < x THEN k ELSE k + 1) \in DOMAIN inbox
      BY <2>1, <2>2
    <2> QED
      BY <1>6, <1>7, <2>3
  <1>9. Underway(calls, inbox', client.ownerEpoch, client.inFlight)
    <2>1. inbox[x].kind # "reply"
      BY <1>1 DEF IsSignal
    <2> QED
      BY <1>1, <1>6, <2>1, NewsLost
  <1>10. Queued(calls, inbox, client.ownerEpoch)'
    BY <1>2, <1>7, <1>8 DEF ReadInv, Queued, IsMessage, IsCall, IsRequest, IsAnswer
  <1>11. IsClient(client)'
    BY <1>2 DEF ReadInv, IsClient, CopyAtCursor
  <1> QED
    BY <1>2, <1>3, <1>5, <1>9, <1>10, <1>11 DEF ReadInv

-----------------------------------------------------------------------------
(* The publications.                                                       *)

\* Three sequences in one, the second after n elements and the third after k.
Joins(all, a, b, c, n, k) ==
    /\ IsSeq(all) /\ n \in Nat /\ k \in Nat /\ n <= k
    /\ \A i \in DOMAIN all : i \in Nat
    /\ \A i \in DOMAIN all :
         \/ i <= n /\ i \in DOMAIN a /\ all[i] = a[i]
         \/ n < i /\ i <= k /\ i - n \in DOMAIN b /\ all[i] = b[i - n]
         \/ k < i /\ i - k \in DOMAIN c /\ all[i] = c[i - k]
    /\ 1 \in DOMAIN a => 1 \in DOMAIN all /\ all[1] = a[1]
    /\ 1 \in DOMAIN b => n + 1 \in DOMAIN all /\ all[n + 1] = b[1]
    /\ 1 \in DOMAIN c => k + 1 \in DOMAIN all /\ all[k + 1] = c[1]

LEMMA ThreeParts ==
    ASSUME NEW a, IsSeq(a), NEW b, IsSeq(b), NEW c, IsSeq(c)
    PROVE  Joins((a \o b) \o c, a, b, c, Len(a), Len(a) + Len(b))
  <1> DEFINE ab == a \o b
             all == (a \o b) \o c
             n == Len(a)
             k == Len(a) + Len(b)
  <1>1. /\ n \in Nat /\ DOMAIN a = 1..n
        /\ Len(b) \in Nat /\ DOMAIN b = 1..Len(b) /\ k = n + Len(b)
        /\ Len(c) \in Nat /\ DOMAIN c = 1..Len(c)
    BY SeqFacts
  <1>2. /\ IsSeq(ab) /\ DOMAIN ab = 1..k
        /\ \A i \in DOMAIN a : ab[i] = a[i]
        /\ \A i \in DOMAIN ab : i \notin DOMAIN a => i - n \in DOMAIN b /\ ab[i] = b[i - n]
    <2>1. /\ IsSeq(ab) /\ DOMAIN ab = 1..(Len(a) + Len(b))
          /\ \A i \in DOMAIN a : ab[i] = a[i]
          /\ \A i \in DOMAIN ab : i \notin DOMAIN a =>
                i - Len(a) \in DOMAIN b /\ ab[i] = b[i - Len(a)]
      BY SeqConcat
    <2> QED
      BY <2>1
  <1> HIDE DEF ab
  <1>3. Len(ab) = k
    BY <1>1, <1>2, SeqFacts
  <1>4. /\ IsSeq(all) /\ DOMAIN all = 1..(k + Len(c))
        /\ \A i \in DOMAIN ab : all[i] = ab[i]
        /\ \A i \in DOMAIN all : i \notin DOMAIN ab => i - k \in DOMAIN c /\ all[i] = c[i - k]
    <2>1. all = ab \o c
      BY DEF ab
    <2> HIDE DEF all
    <2>2. /\ IsSeq(ab \o c) /\ DOMAIN (ab \o c) = 1..(Len(ab) + Len(c))
          /\ \A i \in DOMAIN ab : (ab \o c)[i] = ab[i]
          /\ \A i \in DOMAIN (ab \o c) : i \notin DOMAIN ab =>
                i - Len(ab) \in DOMAIN c /\ (ab \o c)[i] = c[i - Len(ab)]
      BY <1>2, SeqConcat
    <2> QED
      BY <1>3, <2>1, <2>2
  <1> HIDE DEF all, n, k
  <1>5. ASSUME NEW i \in DOMAIN all
        PROVE  \/ i <= n /\ i \in DOMAIN a /\ all[i] = a[i]
               \/ n < i /\ i <= k /\ i - n \in DOMAIN b /\ all[i] = b[i - n]
               \/ k < i /\ i - k \in DOMAIN c /\ all[i] = c[i - k]
    BY <1>1, <1>2, <1>4
  <1>6. 1 \in DOMAIN a => 1 \in DOMAIN all /\ all[1] = a[1]
    BY <1>1, <1>2, <1>4
  <1>7. ASSUME 1 \in DOMAIN b PROVE n + 1 \in DOMAIN all /\ all[n + 1] = b[1]
    <2>1. n + 1 \in DOMAIN all /\ n + 1 \in DOMAIN ab /\ n + 1 \notin DOMAIN a /\ (n + 1) - n = 1
      BY <1>1, <1>2, <1>4, <1>7
    <2> QED
      BY <1>2, <1>4, <2>1
  <1>8. ASSUME 1 \in DOMAIN c PROVE k + 1 \in DOMAIN all /\ all[k + 1] = c[1]
    <2>1. k + 1 \in DOMAIN all /\ k + 1 \notin DOMAIN ab /\ (k + 1) - k = 1
      BY <1>1, <1>2, <1>4, <1>8
    <2> QED
      BY <1>4, <2>1
  <1>9. k \in Nat /\ n <= k /\ \A i \in DOMAIN all : i \in Nat
    BY <1>1, <1>4
  <1> QED
    BY <1>1, <1>4, <1>5, <1>6, <1>7, <1>8, <1>9 DEF all, n, k, Joins

\* A signal of the n-th of the subjects.
IsAbout(m, n, subjects) ==
    /\ n \in DOMAIN subjects
    /\ m.to = {"client"} /\ IsSignal(m) /\ m.owner = service.owner
    /\ m.sequence = service.sequence + n /\ m.subject = subjects[n]

LEMMA SignalsAreAbout ==
    ASSUME NEW n \in Nat, NEW subjects, NEW part, part = Signals(n, subjects)
    PROVE  /\ IsSeq(part) /\ \A i \in DOMAIN part : IsAbout(part[i], n, subjects)
           /\ n \in DOMAIN subjects /\ subjects[n] # "other" =>
                1 \in DOMAIN part /\ part[1].kind = "value"
  <1>1. CASE n \notin DOMAIN subjects
    <2>1. part = <<>>
      BY <1>1 DEF Signals
    <2> QED
      BY <1>1, <2>1, NoCalls, ListIsSeq
  <1>2. CASE n \in DOMAIN subjects
    <2> DEFINE subject == subjects[n]
               event == EventOf(service.owner, n, subject)
               signal == [event EXCEPT !.kind = "value"]
    <2>1. \/ part = <<event>> /\ subject = "other"
          \/ part = <<signal, signal, event>>
          \/ part = <<signal, event>>
      BY <1>2 DEF Signals, SignalsOf
    <2>2. IsAbout(event, n, subjects) /\ IsAbout(signal, n, subjects) /\ signal.kind = "value"
      BY <1>2, ConnectionAssumption DEF IsAbout, EventOf, IsSignal
    <2> HIDE DEF event, signal
    <2>3. /\ IsSeq(<<event>>) /\ DOMAIN <<event>> = {1} /\ <<event>>[1] = event
      BY ListIsSeq
    <2>4. IsSeq(<<signal, event>>) /\ DOMAIN <<signal, event>> = {1, 2}
          /\ <<signal, event>>[1] = signal /\ <<signal, event>>[2] = event
      BY ListIsSeq
    <2>5. IsSeq(<<signal, signal, event>>) /\ DOMAIN <<signal, signal, event>> = {1, 2, 3}
          /\ <<signal, signal, event>>[1] = signal /\ <<signal, signal, event>>[2] = signal
          /\ <<signal, signal, event>>[3] = event
      <3> DEFINE list == <<signal, signal, event>>
      <3>1. list \in Seq({signal, event})
        OBVIOUS
      <3>2. DOMAIN list = {1, 2, 3} /\ list[1] = signal /\ list[2] = signal /\ list[3] = event
        OBVIOUS
      <3> HIDE DEF list
      <3>3. IsSeq(list)
        BY <3>1 DEF IsSeq
      <3> QED
        BY <3>2, <3>3 DEF list
    <2>6. CASE part = <<event>> /\ subject = "other"
      BY <2>2, <2>3, <2>6
    <2>7. CASE part = <<signal, signal, event>>
      BY <2>2, <2>5, <2>7
    <2>8. CASE part = <<signal, event>>
      BY <2>2, <2>4, <2>8
    <2> QED
      BY <2>1, <2>6, <2>7, <2>8
  <1> QED
    BY <1>1, <1>2

Published(subjects) == (Signals(1, subjects) \o Signals(2, subjects)) \o Signals(3, subjects)

\* The first signal of a number comes after the signals of those before.
LEMMA NumbersAscend ==
    ASSUME service.sequence \in Nat, NEW subjects, IsSeq(subjects), Len(subjects) <= 3,
           NEW news, news = Published(subjects)
    PROVE  /\ IsSeq(news)
           /\ \A i \in DOMAIN news : \E n \in DOMAIN subjects : IsAbout(news[i], n, subjects)
           /\ \A i, j \in DOMAIN news : i < j => news[i].sequence <= news[j].sequence
           /\ \A n \in DOMAIN subjects : subjects[n] # "other" =>
                \E j \in DOMAIN news :
                    /\ news[j].kind = "value" /\ IsAbout(news[j], n, subjects)
                    /\ \A i \in DOMAIN news : i < j => news[i].sequence < service.sequence + n
  <1> DEFINE a == Signals(1, subjects)
             b == Signals(2, subjects)
             c == Signals(3, subjects)
             p == Len(a)
             q == Len(a) + Len(b)
             s == service.sequence
  <1>1. /\ IsSeq(a) /\ \A i \in DOMAIN a : IsAbout(a[i], 1, subjects)
        /\ 1 \in DOMAIN subjects /\ subjects[1] # "other" => 1 \in DOMAIN a /\ a[1].kind = "value"
    BY SignalsAreAbout
  <1>2. /\ IsSeq(b) /\ \A i \in DOMAIN b : IsAbout(b[i], 2, subjects)
        /\ 2 \in DOMAIN subjects /\ subjects[2] # "other" => 1 \in DOMAIN b /\ b[1].kind = "value"
    BY SignalsAreAbout
  <1>3. /\ IsSeq(c) /\ \A i \in DOMAIN c : IsAbout(c[i], 3, subjects)
        /\ 3 \in DOMAIN subjects /\ subjects[3] # "other" => 1 \in DOMAIN c /\ c[1].kind = "value"
    BY SignalsAreAbout
  <1>4. news = (a \o b) \o c
    BY DEF Published
  <1> HIDE DEF a, b, c
  <1>5. /\ IsSeq(news) /\ p \in Nat /\ q \in Nat /\ p <= q
        /\ \A i \in DOMAIN news : i \in Nat
        /\ \A i \in DOMAIN news :
             \/ i <= p /\ i \in DOMAIN a /\ news[i] = a[i]
             \/ p < i /\ i <= q /\ i - p \in DOMAIN b /\ news[i] = b[i - p]
             \/ q < i /\ i - q \in DOMAIN c /\ news[i] = c[i - q]
        /\ 1 \in DOMAIN a => 1 \in DOMAIN news /\ news[1] = a[1]
        /\ 1 \in DOMAIN b => p + 1 \in DOMAIN news /\ news[p + 1] = b[1]
        /\ 1 \in DOMAIN c => q + 1 \in DOMAIN news /\ news[q + 1] = c[1]
    <2>1. Joins(news, a, b, c, p, q)
      BY <1>1, <1>2, <1>3, <1>4, ThreeParts
    <2> HIDE DEF p, q
    <2> QED
      BY <2>1 DEF Joins
  <1> HIDE DEF p, q
  <1>6. \A i \in DOMAIN news :
          /\ i \in Nat
          /\ \/ i <= p /\ IsAbout(news[i], 1, subjects)
             \/ p < i /\ i <= q /\ IsAbout(news[i], 2, subjects)
             \/ q < i /\ IsAbout(news[i], 3, subjects)
    BY <1>1, <1>2, <1>3, <1>5
  <1>7. \A i \in DOMAIN news :
          /\ i \in Nat
          /\ \/ i <= p /\ news[i].sequence = s + 1
             \/ p < i /\ i <= q /\ news[i].sequence = s + 2
             \/ q < i /\ news[i].sequence = s + 3
    BY <1>6 DEF IsAbout
  <1> HIDE DEF s
  <1>8. s \in Nat /\ p \in Nat /\ q \in Nat /\ p <= q
    BY <1>5 DEF s
  <1>9. /\ IsSeq(news)
        /\ \A i \in DOMAIN news : \E n \in DOMAIN subjects : IsAbout(news[i], n, subjects)
    BY <1>5, <1>6 DEF IsAbout
  <1>10. ASSUME NEW i \in DOMAIN news, NEW j \in DOMAIN news, i < j
         PROVE  news[i].sequence <= news[j].sequence
    BY <1>7, <1>8, <1>10
  <1>11. ASSUME 1 \in DOMAIN subjects, subjects[1] # "other"
         PROVE  \E j \in DOMAIN news :
                    /\ news[j].kind = "value" /\ IsAbout(news[j], 1, subjects)
                    /\ \A i \in DOMAIN news : i < j => news[i].sequence < s + 1
    <2>1. 1 \in DOMAIN news /\ news[1].kind = "value" /\ IsAbout(news[1], 1, subjects)
      BY <1>1, <1>5, <1>11
    <2>2. \A i \in DOMAIN news : ~(i < 1)
      <3>1. DOMAIN news = 1..Len(news)
        BY <1>5, SeqFacts
      <3> QED
        BY <3>1
    <2> QED
      BY <2>1, <2>2
  <1>12. ASSUME 2 \in DOMAIN subjects, subjects[2] # "other"
         PROVE  \E j \in DOMAIN news :
                    /\ news[j].kind = "value" /\ IsAbout(news[j], 2, subjects)
                    /\ \A i \in DOMAIN news : i < j => news[i].sequence < s + 2
    <2>1. p + 1 \in DOMAIN news /\ news[p + 1].kind = "value" /\ IsAbout(news[p + 1], 2, subjects)
      BY <1>2, <1>5, <1>12
    <2>2. \A i \in DOMAIN news : i < p + 1 => news[i].sequence < s + 2
      BY <1>7, <1>8
    <2> QED
      BY <2>1, <2>2
  <1>13. ASSUME 3 \in DOMAIN subjects, subjects[3] # "other"
         PROVE  \E j \in DOMAIN news :
                    /\ news[j].kind = "value" /\ IsAbout(news[j], 3, subjects)
                    /\ \A i \in DOMAIN news : i < j => news[i].sequence < s + 3
    <2>1. q + 1 \in DOMAIN news /\ news[q + 1].kind = "value" /\ IsAbout(news[q + 1], 3, subjects)
      BY <1>3, <1>5, <1>13
    <2>2. \A i \in DOMAIN news : i < q + 1 => news[i].sequence < s + 3
      BY <1>7, <1>8
    <2> QED
      BY <2>1, <2>2
  <1>14. \A n \in DOMAIN subjects : n = 1 \/ n = 2 \/ n = 3
    <2>1. Len(subjects) \in Nat /\ DOMAIN subjects = 1..Len(subjects)
      BY SeqFacts
    <2> QED
      BY <2>1
  <1> QED
    BY <1>9, <1>10, <1>11, <1>12, <1>13, <1>14 DEF s

LEMMA PublishingContinues ==
    ASSUME ReadInv, service.state \notin {"STOPPED", "STARTING"},
           NEW subjects, IsSeq(subjects), Len(subjects) \in 1..3, Publishes("READY", subjects),
           UNCHANGED <<kind, client, calls, persistedGeneration>>,
           UNCHANGED spent \/ Spend("other") \/ Spend("failure"),
           content' \in Nat, open' \in BOOLEAN,
           \/ service.state # "READY"
           \/ content' = content /\ (kind # "profiles" => open' = open)
           \/ kind # "profiles" /\ subjects[Len(subjects)] = "platform"
           \/ kind = "profiles" /\ subjects[1] = "profile" /\ Len(subjects) = 1
    PROVE  \E news : Continues(news)
  <1> DEFINE news == Published(subjects)
             k == Len(subjects)
  <1>1. /\ BusKnown /\ service.sequence \in Nat /\ service.owner \in Owners
        /\ service.owner.uuid # 0 /\ Alive /\ IsSeq(inbox) /\ k \in Nat /\ k > 0 /\ k <= 3
        /\ DOMAIN subjects = 1..k
    <2>1. /\ BusKnown /\ service.sequence \in Nat /\ service.owner \in Owners
          /\ service.owner.uuid # 0 /\ Alive /\ IsSeq(inbox)
      BY Owned DEF ReadInv, BusKnown, Queued
    <2>2. k \in Nat /\ k > 0 /\ k <= 3
      <3>1. \A n \in 1..3 : n \in Nat /\ n > 0 /\ n <= 3
        OBVIOUS
      <3>2. k \in 1..3
        OBVIOUS
      <3> HIDE DEF k
      <3> QED
        BY ONLY <3>1, <3>2
    <2>3. DOMAIN subjects = 1..k
      BY SeqFacts
    <2> QED
      BY <2>1, <2>2, <2>3
  <1>2. service' = [service EXCEPT !.state = "READY", !.sequence = @ + k]
    BY DEF Publishes
  <1>3. /\ service'.owner = service.owner /\ service'.state = "READY"
        /\ service'.sequence = service.sequence + k
        /\ service' \in [owner : Owners, sequence : Nat, state : States]
    <2>1. service \in [owner : Owners, sequence : Nat, state : States] /\ "READY" \in States
          /\ service.sequence + k \in Nat
      BY <1>1 DEF BusKnown, States
    <2> HIDE DEF k
    <2> QED
      BY <1>2, <2>1, ServiceMoved, Zenon
  <1>4. BusKnown' /\ Started' = Started
    <2>1. UNCHANGED spent \/ \E what \in Spendable : what # "start" /\ Spend(what)
      BY DEF Spendable
    <2> QED
      BY <1>1, <1>3, <2>1, BusMoves
  <1>5. spent'.count["lost"] = spent.count["lost"]
    <2>1. {"lost", "other", "failure"} \subseteq Spendable
      BY DEF Spendable
    <2> QED
      BY <1>1, <2>1, Spends DEF BusKnown
  <1>6. GoesOn
    BY <1>1, <1>3, <1>4, <1>5 DEF GoesOn
  <1>7. /\ IsSeq(news)
        /\ \A i \in DOMAIN news : \E n \in DOMAIN subjects : IsAbout(news[i], n, subjects)
        /\ \A i, j \in DOMAIN news : i < j => news[i].sequence <= news[j].sequence
        /\ \A n \in DOMAIN subjects : subjects[n] # "other" =>
             \E j \in DOMAIN news :
                 /\ news[j].kind = "value" /\ IsAbout(news[j], n, subjects)
                 /\ \A i \in DOMAIN news : i < j => news[i].sequence < service.sequence + n
    BY <1>1, NumbersAscend
  <1>8. inbox' = inbox \o news
    <2> DEFINE a == Signals(1, subjects)
               b == Signals(2, subjects)
               c == Signals(3, subjects)
    <2>1. IsSeq(a) /\ IsSeq(b) /\ IsSeq(c)
      BY SignalsAreAbout
    <2>2. inbox' = ((inbox \o a) \o b) \o c /\ news = (a \o b) \o c
      BY DEF Publishes, Published
    <2> HIDE DEF a, b, c, news
    <2>3. IsSeq(a \o b) /\ IsSeq(inbox \o a)
      BY <1>1, <2>1, SeqConcat
    <2> DEFINE all == inbox
    <2>0. IsSeq(all)
      BY <1>1
    <2> HIDE DEF all
    <2>4. (all \o a) \o b = all \o (a \o b)
      BY ONLY <2>0, <2>1, ConcatIsAssociative
    <2> DEFINE ab == a \o b
    <2>5. (all \o ab) \o c = all \o (ab \o c)
      <3>1. IsSeq(ab)
        BY <2>3
      <3> HIDE DEF ab
      <3> QED
        BY ONLY <2>0, <2>1, <3>1, ConcatIsAssociative
    <2> QED
      BY <2>2, <2>4, <2>5 DEF all
  <1> HIDE DEF news, k
  <1>9. \A i \in DOMAIN news : IsNews(news[i]) /\ IsSignal(news[i]) /\ news[i].owner = service.owner
    <2> SUFFICES ASSUME NEW i \in DOMAIN news
                 PROVE  IsNews(news[i]) /\ IsSignal(news[i]) /\ news[i].owner = service.owner
      OBVIOUS
    <2>1. PICK n \in DOMAIN subjects : IsAbout(news[i], n, subjects)
      BY <1>7
    <2>2. n \in Nat /\ n > 0 /\ n <= k
      BY <1>1
    <2> QED
      BY <1>1, <1>3, <2>1, <2>2 DEF IsNews, IsAbout
  <1>10. CASE kind # "profiles" /\ subjects[Len(subjects)] = "platform"
    <2> DEFINE n == service.sequence + k
    <2>1. k \in DOMAIN subjects /\ subjects[k] = "platform"
      BY <1>1, <1>10 DEF k
    <2>2. PICK j \in DOMAIN news :
                 /\ news[j].kind = "value" /\ IsAbout(news[j], k, subjects)
                 /\ \A i \in DOMAIN news : i < j => news[i].sequence < n
      BY <1>7, <2>1
    <2>3. IsVoid(news[j]) /\ news[j].sequence = n
      BY <2>1, <2>2 DEF IsAbout, IsVoid
    <2>4. n \in Nat /\ service.sequence < n /\ n <= service'.sequence
      BY <1>1, <1>3
    <2> HIDE DEF n
    <2>5. Announces(news, n)
      BY <1>1, <1>9, <1>10, <2>2, <2>3, <2>4 DEF Announces
    <2> QED
      BY <1>1, <1>6, <1>7, <1>8, <1>9, <2>4, <2>5, SignalsContinue
  <1>11. CASE kind = "profiles" /\ subjects[1] = "profile" /\ Len(subjects) = 1
    <2> DEFINE n == service.sequence + k
    <2>1. n \in Nat /\ service.sequence < n /\ n <= service'.sequence
      BY <1>1, <1>3
    <2>2. \A i \in DOMAIN news : news[i].subject = "profile"
      BY <1>1, <1>7, <1>11 DEF IsAbout, k
    <2> HIDE DEF n
    <2>3. Announces(news, n)
      BY <1>1, <1>9, <1>11, <2>1, <2>2 DEF Announces
    <2> QED
      BY <1>1, <1>6, <1>7, <1>8, <1>9, <2>1, <2>3, SignalsContinue
  <1>12. CASE \/ service.state # "READY"
              \/ content' = content /\ (kind # "profiles" => open' = open)
    BY <1>1, <1>6, <1>7, <1>8, <1>9, <1>12, SignalsContinue
  <1> QED
    BY <1>10, <1>11, <1>12

LEMMA HardwareNamesPlatform ==
    ASSUME NEW before, NEW after, NEW subjects, subjects = HardwareSubjects(before, after)
    PROVE  IsSeq(subjects) /\ Len(subjects) = 2 /\ subjects[2] = "platform"
           /\ subjects \in {<<"display", "platform">>, <<"gpu", "platform">>}
  BY ListIsSeq DEF HardwareSubjects

Publications == BecomesReady \/ Changes \/ ChangesElsewhere \/ Closes \/ Reopens

LEMMA PublicationContinues ==
    ASSUME ReadInv, Publications, UNCHANGED <<kind, client>>
    PROVE  \E news : Continues(news)
  <1>1. content \in Nat /\ open \in BOOLEAN
    BY DEF ReadInv
  <1>2. CASE BecomesReady
    <2> DEFINE rest == IF kind = "profiles" THEN <<"other">> ELSE HardwareSubjects(content, content)
               subjects == <<"other">> \o rest
    <2>1. rest \in {<<"other">>, <<"display", "platform">>, <<"gpu", "platform">>}
      BY HardwareNamesPlatform
    <2>2. IsSeq(subjects) /\ Len(subjects) \in 1..3
      <3> DEFINE first == <<"other">>
      <3>1. /\ \A x : IsSeq(<<x>>) /\ Len(<<x>>) = 1
            /\ \A x, y : IsSeq(<<x, y>>) /\ Len(<<x, y>>) = 2
        BY ListIsSeq
      <3> HIDE DEF rest
      <3>2. IsSeq(rest) /\ Len(rest) \in 1..2 /\ IsSeq(first) /\ Len(first) = 1
        BY <2>1, <3>1
      <3> HIDE DEF first
      <3>3. IsSeq(first \o rest) /\ Len(first \o rest) = Len(first) + Len(rest)
        BY <3>2, SeqConcat
      <3>4. Len(first \o rest) \in 1..3
        <4> DEFINE n == Len(first \o rest)
                   r == Len(rest)
        <4>1. n = 1 + r /\ r \in 1..2
          BY <3>2, <3>3
        <4> HIDE DEF n, r
        <4>2. n \in 1..3
          BY ONLY <4>1
        <4> QED
          BY <4>2 DEF n
      <3> QED
        BY <3>3, <3>4 DEF first
    <2>3. /\ service.state \notin {"STOPPED", "STARTING"} /\ service.state # "READY"
          /\ Publishes("READY", subjects)
          /\ UNCHANGED <<calls, persistedGeneration, spent>>
          /\ content' \in Nat /\ open' \in BOOLEAN
      BY <1>1, <1>2 DEF BecomesReady
    <2> HIDE DEF subjects
    <2> QED
      BY <2>2, <2>3, PublishingContinues
  <1>3. CASE Changes
    <2> DEFINE subjects == IF kind = "profiles" THEN <<"profile">>
                                                ELSE HardwareSubjects(content, content + 1)
    <2>1. /\ IsSeq(subjects) /\ Len(subjects) \in 1..3
          /\ \/ kind # "profiles" /\ subjects[Len(subjects)] = "platform"
             \/ kind = "profiles" /\ subjects[1] = "profile" /\ Len(subjects) = 1
      BY HardwareNamesPlatform, ListIsSeq
    <2>2. /\ service.state \notin {"STOPPED", "STARTING"}
          /\ Publishes("READY", subjects) /\ Spend("other")
          /\ UNCHANGED <<calls, persistedGeneration>>
          /\ content' \in Nat /\ open' \in BOOLEAN
      BY <1>1, <1>3 DEF Changes
    <2> HIDE DEF subjects
    <2> QED
      BY <2>1, <2>2, PublishingContinues
  <1>4. CASE ChangesElsewhere
    <2> DEFINE subjects == <<"other">>
    <2>1. IsSeq(subjects) /\ Len(subjects) \in 1..3
      BY ListIsSeq
    <2>2. /\ service.state \notin {"STOPPED", "STARTING"}
          /\ Publishes("READY", subjects) /\ Spend("other")
          /\ UNCHANGED <<calls, persistedGeneration, content, open>>
      BY <1>1, <1>4 DEF ChangesElsewhere
    <2> HIDE DEF subjects
    <2> QED
      BY <1>1, <2>1, <2>2, PublishingContinues
  <1>5. CASE Closes
    <2> DEFINE subjects == <<"platform">>
    <2>1. IsSeq(subjects) /\ Len(subjects) = 1 /\ subjects[1] = "platform"
      BY ListIsSeq
    <2>2. /\ service.state \notin {"STOPPED", "STARTING"} /\ kind # "profiles"
          /\ Publishes("READY", subjects) /\ Spend("failure")
          /\ UNCHANGED <<calls, persistedGeneration, content>> /\ open' \in BOOLEAN
      BY <1>5 DEF Closes
    <2> HIDE DEF subjects
    <2> QED
      BY <1>1, <2>1, <2>2, PublishingContinues
  <1>6. CASE Reopens
    <2> DEFINE subjects == HardwareSubjects(content, content)
    <2>1. IsSeq(subjects) /\ Len(subjects) = 2 /\ subjects[2] = "platform"
      BY HardwareNamesPlatform
    <2>2. /\ service.state \notin {"STOPPED", "STARTING"}
          /\ Publishes("READY", subjects)
          /\ UNCHANGED <<calls, persistedGeneration, spent, content>> /\ open' \in BOOLEAN
      BY <1>6 DEF Reopens
    <2> HIDE DEF subjects
    <2> QED
      BY <1>1, <2>1, <2>2, PublishingContinues
  <1> QED
    BY <1>2, <1>3, <1>4, <1>5, <1>6 DEF Publications

-----------------------------------------------------------------------------
(* The reads.                                                              *)

LEMMA AnswersAreAnswers ==
    ASSUME ReadInv, Alive,
           NEW a, \/ Readable /\ a = CurrentAnswer
                  \/ \E code : a = Refused(code) /\ code # "OK"
    PROVE  IsAnswer(a) /\ (a.owner # NoOwner => AnswersNow(a))
  <1>1. service.owner \in Owners /\ service.owner # NoOwner /\ service.sequence \in Nat
        /\ content \in Nat
    BY DEF ReadInv, BusKnown, Alive
  <1>2. CASE Readable /\ a = CurrentAnswer
    <2>1. DisplaysAt(content) \in Nat
      BY <1>1 DEF DisplaysAt
    <2>2. /\ a.owner = service.owner /\ a.sequence = service.sequence /\ a.content = content
          /\ kind = "display" => a.displays = DisplaysAt(content)
      BY <1>2 DEF CurrentAnswer, Current
    <2>3. service.state = "READY"
      BY <1>2 DEF Readable
    <2> QED
      BY <1>1, <1>2, <2>1, <2>2, <2>3 DEF IsAnswer, AnswersNow
  <1>3. CASE \E code : a = Refused(code) /\ code # "OK"
    <2>1. a.owner = NoOwner /\ a.sequence = 0 /\ a.content = 0 /\ a.code # "OK"
      BY <1>3 DEF Refused
    <2> QED
      BY <2>1, NobodyTyped DEF IsAnswer
  <1> QED
    BY <1>2, <1>3

LEMMA ReadContinues ==
    ASSUME ReadInv, HandlesRead, UNCHANGED <<kind, client>> PROVE \E news : Continues(news)
  <1> DEFINE call == calls[1].call
             ep == client.ownerEpoch
             busy == client.inFlight
  <1>1. /\ Alive /\ calls # <<>>
        /\ UNCHANGED <<service, persistedGeneration, content, open>>
    BY DEF HandlesRead
  <1>2. PICK a : /\ \/ Readable /\ a = CurrentAnswer
                    \/ \E code : a = Refused(code) /\ code # "OK"
                 /\ Answer(Reply("client", call, a))
                 /\ UNCHANGED spent \/ Spend("failure")
    <2>1. CASE Answer(Reply("client", call, IF Readable THEN CurrentAnswer
                                                        ELSE Refused("BACKEND_UNAVAILABLE")))
               /\ UNCHANGED spent
      <3>1. CASE Readable
        BY <2>1, <3>1
      <3>2. CASE ~Readable
        BY <2>1, <3>2
      <3> QED
        BY <3>1, <3>2
    <2>2. CASE Answer(Reply("client", call, Refused("IO_ERROR"))) /\ Spend("failure")
      BY <2>2
    <2> QED
      BY <2>1, <2>2 DEF HandlesRead
  <1>3. IsAnswer(a) /\ (a.owner # NoOwner => AnswersNow(a))
    BY <1>1, <1>2, AnswersAreAnswers
  <1> DEFINE m == Reply("client", call, a)
             news == IF calls[1].awaited THEN <<m>> ELSE <<>>
  <1>4. /\ m.kind = "reply" /\ m.to = {"client"} /\ m.call = call /\ m.error = FALSE
        /\ m.answer = a
    BY DEF Reply
  <1>5. /\ IsSeq(calls) /\ \A k \in DOMAIN calls : IsCall(calls[k], ep)
        /\ IsSeq(inbox) /\ Underway(calls, inbox, ep, busy)
    BY DEF ReadInv, Queued
  <1> HIDE DEF ep, busy
  <1>6. calls' = Tail(calls) /\ inbox' = IF calls[1].awaited THEN Append(inbox, m) ELSE inbox
    BY <1>2 DEF Answer
  <1> HIDE DEF m
  <1>7. /\ IsSeq(calls') /\ 1 \in DOMAIN calls
        /\ \A i \in DOMAIN calls' : i + 1 \in DOMAIN calls /\ calls'[i] = calls[i + 1]
    BY <1>1, <1>5, <1>6, SeqTail
  <1>8. IsMessage(m, ep) /\ ~IsSignal(m)
    <2>1. IsRequest(calls[1].call, ep)
      BY <1>5, <1>7 DEF IsCall
    <2> QED
      BY <1>3, <1>4, <2>1 DEF IsMessage, IsSignal
  <1>9. /\ IsSeq(news) /\ inbox' = inbox \o news
        /\ \A i \in DOMAIN news : i = 1 /\ news[i] = m
    <2>1. IsSeq(<<m>>) /\ inbox \o <<m>> = Append(inbox, m) /\ IsSeq(<<>>) /\ inbox \o <<>> = inbox
      BY <1>5, ListIsSeq, SeqConcat
    <2>2. /\ \A i \in DOMAIN <<m>> : i = 1 /\ <<m>>[i] = m
          /\ \A i \in DOMAIN <<>> : i = 1 /\ <<>>[i] = m
      OBVIOUS
    <2> QED
      BY <1>6, <2>1, <2>2
  <1>10. Underway(calls', inbox', ep, busy)
    <2>1. Underway(Tail(calls), IF calls[1].awaited THEN Append(inbox, m) ELSE inbox, ep, busy)
      BY <1>1, <1>4, <1>5, CallAnswered
    <2> QED
      BY <1>6, <2>1
  <1> HIDE DEF news
  <1>11. BusKnown' /\ Started' = Started /\ spent'.count["lost"] = spent.count["lost"]
    <2>1. {"lost", "failure"} \subseteq Spendable
      BY DEF Spendable
    <2>2. BusKnown /\ (UNCHANGED spent \/ \E what \in Spendable : what # "start" /\ Spend(what))
      BY <1>2, <2>1 DEF ReadInv
    <2>3. BusKnown' /\ Started' = Started
      BY <1>1, <2>2, BusMoves
    <2> QED
      BY <1>2, <2>1, <2>2, <2>3, Spends DEF BusKnown
  <1>12. /\ content' = content /\ open' = open /\ content' \in Nat /\ open' \in BOOLEAN
         /\ service.sequence \in Nat
    BY <1>1 DEF ReadInv, BusKnown
  <1>13. \A i \in DOMAIN news : /\ IsMessage(news[i], ep)
                                /\ news[i].kind = "reply" =>
                                      \E k \in DOMAIN calls : news[i].call = calls[k].call
    BY <1>4, <1>7, <1>8, <1>9
  <1>14. \A i \in DOMAIN calls' : /\ IsCall(calls'[i], ep)
                                  /\ \E k \in DOMAIN calls : calls'[i].call = calls[k].call
    BY <1>5, <1>7
  <1>15. Sends(news)
    <2>1. IsSeq(news) /\ inbox' = inbox \o news /\ IsSeq(calls')
      BY <1>7, <1>9
    <2> QED
      BY <1>10, <1>11, <1>12, <1>13, <1>14, <2>1 DEF Sends, ep, busy
  <1>16. Sorted(news) /\ \A i \in DOMAIN news : Tells(news[i])
    BY <1>3, <1>4, <1>8, <1>9 DEF Sorted, Tells
  <1>17. Continues(news)
    BY <1>1, <1>11, <1>12, <1>15, <1>16 DEF Continues
  <1> QED
    BY <1>17

-----------------------------------------------------------------------------
(* The client.                                                             *)

\* What a step of the client does, whichever client it is.
Consumes(m, r) ==
    /\ inbox # <<>> /\ m = inbox[1] /\ inbox' = Tail(inbox)
    /\ client' = r.state /\ calls' = calls \o Outgoing(r.calls)
    /\ UNCHANGED <<service, persistedGeneration, spent, kind, content, open>>
    /\ IsMessage(m, client.ownerEpoch) /\ Waits(client, m) /\ Handled(client, m, r)

LEMMA ClientConsumes ==
    ASSUME ReadInv, ClientHandles PROVE \E m, r : Consumes(m, r)
  <1> DEFINE m == inbox[1]
             r == OnMessage(inbox[1])
  <1>1. /\ inbox # <<>> /\ client' = r.state /\ calls' = calls \o Outgoing(r.calls)
        /\ inbox' = InboxAfter("client")
        /\ UNCHANGED <<service, persistedGeneration, spent, kind, content, open>>
    BY DEF ClientHandles, Arrives
  <1>2. IsSeq(inbox) /\ 1 \in DOMAIN inbox /\ IsMessage(m, client.ownerEpoch)
    BY <1>1, SeqTail DEF ReadInv, Queued
  <1>3. inbox' = Tail(inbox)
    <2>1. inbox[1].to = {"client"}
      BY <1>2 DEF IsMessage
    <2> QED
      BY <1>1, <2>1 DEF InboxAfter
  <1>4. Waits(client, m)
    <2>1. Here(m, client.ownerEpoch) => client.inFlight
      BY <1>2 DEF ReadInv, Underway
    <2> QED
      BY <2>1 DEF ReadInv, Waits, Here
  <1>5. \/ kind = "profiles" /\ r = Profiles!OnMessage(client, m)
        \/ kind = "hardware" /\ r = Hardware!OnMessage(client, m)
        \/ kind = "display" /\ r = Display!OnMessage(client, m)
    BY DEF ReadInv, Kinds, OnMessage
  <1> HIDE DEF m, r
  <1>6. Handled(client, m, r)
    BY <1>2, <1>4, <1>5, ClientIsHandled DEF ReadInv
  <1>7. Consumes(m, r)
    BY <1>1, <1>2, <1>3, <1>4, <1>6 DEF Consumes, m
  <1> QED
    BY <1>7

LEMMA CallsMade ==
    ASSUME ReadInv, NEW m, NEW r, Consumes(m, r)
    PROVE  \/ r.calls = <<>> /\ calls' = calls
           \/ \E call : /\ r.calls = <<call>> /\ call.epoch = client'.ownerEpoch
                        /\ IsRequest(call, client'.ownerEpoch)
                        /\ calls' = Append(calls, Awaited(call))
  <1>1. /\ IsSeq(calls) /\ calls' = calls \o Outgoing(r.calls) /\ client' = r.state
        /\ Asks(client, m, r)
    BY DEF ReadInv, Queued, Consumes, Handled
  <1>2. CASE r.calls = <<>>
    BY <1>1, <1>2, OutgoingCalls
  <1>3. CASE \E call : /\ r.calls = <<call>> /\ call.epoch = r.state.ownerEpoch
                       /\ IsRequest(call, r.state.ownerEpoch)
    <2>1. PICK call : /\ r.calls = <<call>> /\ call.epoch = r.state.ownerEpoch
                      /\ IsRequest(call, r.state.ownerEpoch)
      BY <1>3
    <2>2. calls' = Append(calls, Awaited(call))
      BY <1>1, <2>1, OutgoingCalls
    <2> QED
      BY <1>1, <2>1, <2>2
  <1> QED
    BY <1>1, <1>2, <1>3 DEF Asks

LEMMA RequestsStayKnown ==
    ASSUME NEW ep \in Nat, NEW later \in Nat, ep <= later
    PROVE  /\ \A call : IsRequest(call, ep) => IsRequest(call, later)
           /\ \A c : IsCall(c, ep) => IsCall(c, later)
           /\ \A m : IsMessage(m, ep) => IsMessage(m, later)
  <1>1. \A e \in 0..ep : e \in 0..later
    OBVIOUS
  <1>2. \A call : IsRequest(call, ep) => IsRequest(call, later)
    BY <1>1 DEF IsRequest
  <1> QED
    BY <1>2 DEF IsCall, IsMessage

LEMMA ClientKeepsReadInv ==
    ASSUME ReadInv, NEW m, NEW r, Consumes(m, r) PROVE ReadInv'
  <1> DEFINE ep == client.ownerEpoch
             busy == client.inFlight
             now == client'.ownerEpoch
             left == Tail(inbox)
  <1>1. /\ m = inbox[1] /\ inbox # <<>> /\ inbox' = left /\ client' = r.state
        /\ UNCHANGED <<service, persistedGeneration, spent, kind, content, open>>
        /\ Asks(client, m, r) /\ IsClient(r.state) /\ IsMessage(m, ep)
    BY DEF Consumes, Handled
  <1>2. /\ kind \in Kinds /\ IsSeq(calls) /\ \A i \in DOMAIN calls : IsCall(calls[i], ep)
        /\ IsSeq(inbox) /\ \A i \in DOMAIN inbox : IsMessage(inbox[i], ep)
        /\ Underway(calls, inbox, ep, busy) /\ busy \in BOOLEAN /\ ep \in Nat
    BY ClientTyped DEF ReadInv, Queued
  <1>3. now \in Nat /\ client'.inFlight \in BOOLEAN
    BY <1>1, <1>2, ClientTyped
  <1>4. (m.kind = "owner" => now = ep + 1) /\ (m.kind # "owner" => now = ep)
    BY <1>1 DEF Asks
  <1>5. IsClient(client)'
    BY <1>1 DEF IsClient, CopyAtCursor
  <1>6. Underway(calls, left, ep, busy /\ ~Here(m, ep))
    BY <1>1, <1>2, FirstTaken
  <1> HIDE DEF ep, busy, now
  <1>7. /\ IsSeq(left) /\ \A i \in DOMAIN left : IsMessage(left[i], ep)
    <2>1. IsSeq(left) /\ \A i \in DOMAIN left : i + 1 \in DOMAIN inbox /\ left[i] = inbox[i + 1]
      BY <1>1, <1>2, SeqTail
    <2> QED
      BY <1>2, <2>1
  <1> HIDE DEF left
  <1>8. ep <= now
    BY <1>2, <1>4
  <1>9. /\ \A i \in DOMAIN left : IsMessage(left[i], now)
        /\ \A i \in DOMAIN calls : IsCall(calls[i], now)
    BY <1>2, <1>3, <1>7, <1>8, RequestsStayKnown
  <1>10. IsSeq(calls') /\ \A i \in DOMAIN calls' : IsCall(calls'[i], now)
    <2>1. CASE calls' = calls
      BY <1>2, <1>9, <2>1
    <2>2. CASE \E call : IsRequest(call, now) /\ calls' = Append(calls, Awaited(call))
      <3>1. PICK call : IsRequest(call, now) /\ calls' = Append(calls, Awaited(call))
        BY <2>2
      <3> DEFINE c == Awaited(call)
      <3>2. IsCall(c, now)
        BY <3>1 DEF Awaited, IsCall
      <3> HIDE DEF c
      <3>3. /\ IsSeq(Append(calls, c)) /\ DOMAIN Append(calls, c) = 1..(Len(calls) + 1)
            /\ \A i \in DOMAIN calls : Append(calls, c)[i] = calls[i]
            /\ Append(calls, c)[Len(calls) + 1] = c
            /\ Len(calls) \in Nat /\ DOMAIN calls = 1..Len(calls)
        BY <1>2, SeqAppend, SeqFacts
      <3>4. calls' = Append(calls, c)
        BY <3>1 DEF c
      <3>5. \A i \in 1..(Len(calls) + 1) : i \in 1..Len(calls) \/ i = Len(calls) + 1
        BY <3>3
      <3> QED
        BY <1>9, <3>2, <3>3, <3>4, <3>5
    <2> QED
      BY <2>1, <2>2, CallsMade DEF now
  <1>11. Queued(calls, inbox, client.ownerEpoch)'
    BY <1>1, <1>7, <1>9, <1>10 DEF Queued, IsMessage, IsCall, IsRequest, IsAnswer, now
  <1>12. Underway(calls', left, now, client'.inFlight)
    <2>2. ASSUME Underway(calls, left, now, FALSE), client'.inFlight <=> r.calls # <<>>
          PROVE  Underway(calls', left, now, client'.inFlight)
      <3>1. CASE r.calls = <<>> /\ calls' = calls
        <4>1. client'.inFlight = FALSE
          BY <1>3, <2>2, <3>1
        <4> QED
          BY <2>2, <3>1, <4>1
      <3>2. CASE \E call : /\ r.calls = <<call>> /\ call.epoch = now
                           /\ calls' = Append(calls, Awaited(call))
        <4>1. PICK call : /\ r.calls = <<call>> /\ call.epoch = now
                          /\ calls' = Append(calls, Awaited(call))
          BY <3>2
        <4>2. r.calls # <<>>
          BY <4>1
        <4>3. client'.inFlight = TRUE
          BY <1>3, <2>2, <4>2
        <4>4. Underway(Append(calls, Awaited(call)), left, now, TRUE)
          BY <1>2, <2>2, <4>1, CallMade
        <4> QED
          BY <4>1, <4>3, <4>4
      <3> QED
        BY <3>1, <3>2, CallsMade DEF now
    <2>3. ASSUME Underway(calls, left, now, busy), r.calls = <<>>, client'.inFlight <=> busy
          PROVE  Underway(calls', left, now, client'.inFlight)
      <3>1. client'.inFlight = busy
        BY <1>2, <1>3, <2>3
      <3>2. calls' = calls
        <4>1. \A x : r.calls # <<x>>
          BY <2>3
        <4>2. \/ r.calls = <<>> /\ calls' = calls
              \/ \E call : r.calls = <<call>>
          BY CallsMade
        <4> QED
          BY <4>1, <4>2
      <3> QED
        BY <2>3, <3>1, <3>2
    <2>4. CASE m.kind = "owner"
      <3>1. \A i \in DOMAIN calls : calls[i].call.epoch \in 0..ep
        BY <1>2 DEF IsCall, IsRequest
      <3>2. \A i \in DOMAIN left : left[i].kind = "reply" => left[i].call.epoch \in 0..ep
        BY <1>7 DEF IsMessage, IsRequest
      <3>3. Underway(calls, left, ep + 1, FALSE)
        BY <1>2, <3>1, <3>2, NothingUnderway
      <3>4. Underway(calls, left, now, FALSE) /\ (client'.inFlight <=> r.calls # <<>>)
        BY <1>1, <1>4, <2>4, <3>3 DEF Asks
      <3> QED
        BY <2>2, <3>4
    <2>5. CASE m.kind = "reply" /\ m.call.epoch = ep
      <3>1. Here(m, ep) /\ now = ep
        BY <1>4, <2>5 DEF Here
      <3>2. Underway(calls, left, now, FALSE)
        <4>1. (busy /\ ~Here(m, ep)) = FALSE
          BY <3>1
        <4> QED
          BY <1>6, <3>1, <4>1
      <3>3. client'.inFlight <=> r.calls # <<>>
        BY <1>1, <2>5 DEF Asks, ep
      <3> QED
        BY <2>2, <3>2, <3>3
    <2>6. CASE m.kind = "reply" /\ m.call.epoch # ep
      <3>1. ~Here(m, ep) /\ now = ep
        BY <1>4, <2>6 DEF Here
      <3>2. Underway(calls, left, now, busy)
        <4>1. (busy /\ ~Here(m, ep)) = busy
          BY <1>2, <3>1
        <4> QED
          BY <1>6, <3>1, <4>1
      <3>3. r.state = client /\ r.calls = <<>>
        BY <1>1, <2>6 DEF Asks, ep
      <3> QED
        BY <1>1, <2>3, <3>2, <3>3 DEF busy
    <2>7. CASE IsSignal(m)
      <3>1. ~Here(m, ep) /\ now = ep
        BY <1>4, <2>7 DEF Here, IsSignal
      <3>2. Underway(calls, left, now, busy)
        <4>1. (busy /\ ~Here(m, ep)) = busy
          BY <1>2, <3>1
        <4> QED
          BY <1>6, <3>1, <4>1
      <3>3. (client'.inFlight <=> busy \/ r.calls # <<>>) /\ (busy => r.calls = <<>>)
        BY <1>1, <2>7 DEF Asks, busy
      <3>4. CASE busy
        BY <2>3, <3>2, <3>3, <3>4
      <3>5. CASE ~busy
        <4>1. busy = FALSE
          BY <1>2, <3>5
        <4> QED
          BY <2>2, <3>2, <3>3, <4>1
      <3> QED
        BY <3>4, <3>5
    <2> QED
      BY <1>1, <2>4, <2>5, <2>6, <2>7 DEF IsMessage, IsSignal
  <1>13. (client.refreshPending => client.inFlight)'
    BY <1>1 DEF Asks
  <1>14. BusKnown'
    BY <1>1 DEF ReadInv, BusKnown, Started
  <1> QED
    BY <1>1, <1>5, <1>11, <1>12, <1>13, <1>14 DEF ReadInv, now

-----------------------------------------------------------------------------
(* A read the program asks for.                                            *)

\* What the client and its calls look like then.
Rereads(r) ==
    /\ IsClient(r.state) /\ r.state.inFlight /\ r.state.ownerEpoch = client.ownerEpoch
    /\ r.state.eventOwner = client.eventOwner /\ r.state.lastObserved = client.lastObserved
    /\ r.state.copy = client.copy \/ ~r.state.copy.ready
    /\ Bounded(client) => Bounded(r.state)
    /\ client.inFlight => r.calls = <<>>
    /\ ~client.inFlight =>
        \E call : /\ r.calls = <<call>> /\ call.epoch = client.ownerEpoch
                  /\ IsRequest(call, client.ownerEpoch) /\ ~AsksForDisplay(call)

Asked(r) ==
    /\ client' = r.state /\ calls' = calls \o Outgoing(r.calls)
    /\ UNCHANGED <<service, persistedGeneration, inbox, kind, content, open>>
    /\ BusKnown' /\ Started' = Started /\ Kept' = Kept
    /\ Rereads(r)

LEMMA ClientAsks == ASSUME ReadInv, UserRefreshes PROVE \E r : Asked(r)
  <1> DEFINE r == Refreshed(client)
  <1>1. /\ client' = r.state /\ calls' = calls \o Outgoing(r.calls) /\ Spend("operation")
        /\ UNCHANGED <<service, persistedGeneration, inbox, kind, content, open>>
    BY DEF UserRefreshes
  <1>2. BusKnown' /\ Started' = Started
    BY <1>1, BusMoves DEF ReadInv, Spendable
  <1>3. Kept' = Kept
    BY <1>1, Spends DEF ReadInv, BusKnown, Spendable, Kept
  <1>4. \/ kind = "profiles" /\ r = Profiles!RequestSnapshot(client)
        \/ kind = "hardware" /\ r = Hardware!Refresh(client)
        \/ kind = "display" /\ r = Display!Refresh(client)
    BY DEF ReadInv, Kinds, Refreshed
  <1> HIDE DEF r
  <1>5. IsClient(client)
    BY DEF ReadInv
  <1>6. CASE kind = "profiles"
    <2>1. client \in ProfileMembers /\ r = Profiles!RequestSnapshot(client)
      BY <1>4, <1>5, <1>6 DEF IsClient
    <2>2. /\ r.state \in ProfileMembers
          /\ r.state.ownerEpoch = client.ownerEpoch /\ r.state.inFlight
          /\ r.state.eventOwner = client.eventOwner
          /\ r.state.lastObserved = client.lastObserved
          /\ r.state.copy = client.copy \/ ~r.state.copy.ready
          /\ client.inFlight => r.calls = <<>>
          /\ ~client.inFlight =>
                \E call : /\ r.calls = <<call>> /\ call.epoch = client.ownerEpoch
                          /\ IsRequest(call, client.ownerEpoch) /\ ~AsksForDisplay(call)
      BY ONLY <1>6, <2>1, ProfileRequests, Zenon
    <2>3. IsClient(r.state) /\ (Bounded(client) => Bounded(r.state))
      BY <1>5, <1>6, <2>2 DEF IsClient, CopyAtCursor, Bounded
    <2> QED
      BY <2>2, <2>3, <1>1, <1>2, <1>3 DEF Asked, Rereads
  <1>7. CASE kind = "hardware"
    <2>1. client \in HardwareMembers /\ r = Hardware!Refresh(client)
      BY <1>4, <1>5, <1>7 DEF IsClient
    <2>2. /\ r.state \in HardwareMembers
          /\ r.state.ownerEpoch = client.ownerEpoch /\ r.state.inFlight
          /\ r.state.eventOwner = client.eventOwner
          /\ r.state.lastObserved = client.lastObserved
          /\ r.state.lastHardware = client.lastHardware /\ r.state.copy = client.copy
          /\ client.inFlight => r.calls = <<>>
          /\ ~client.inFlight =>
                \E call : /\ r.calls = <<call>> /\ call.epoch = client.ownerEpoch
                          /\ IsRequest(call, client.ownerEpoch) /\ ~AsksForDisplay(call)
      BY ONLY <1>7, <2>1, HardwareRefreshes, Zenon
    <2>3. IsClient(r.state) /\ (Bounded(client) => Bounded(r.state))
      BY <1>5, <1>7, <2>2 DEF IsClient, CopyAtCursor, Bounded
    <2> QED
      BY <2>2, <2>3, <1>1, <1>2, <1>3 DEF Asked, Rereads
  <1>8. CASE kind = "display"
    <2>1. client \in DisplayMembers /\ r = Display!Refresh(client)
      BY <1>4, <1>5, <1>8 DEF IsClient
    <2>2. /\ r.state \in DisplayMembers
          /\ r.state.ownerEpoch = client.ownerEpoch /\ r.state.inFlight
          /\ r.state.eventOwner = client.eventOwner
          /\ r.state.lastObserved = client.lastObserved
          /\ r.state.recent = client.recent /\ r.state.copy = client.copy
          /\ client.inFlight => r.calls = <<>>
          /\ ~client.inFlight =>
                \E call : /\ r.calls = <<call>> /\ call.epoch = client.ownerEpoch
                          /\ IsRequest(call, client.ownerEpoch) /\ ~AsksForDisplay(call)
      BY ONLY <1>8, <2>1, DisplayRefreshes, Zenon
    <2>3. IsClient(r.state) /\ (Bounded(client) => Bounded(r.state))
      BY <1>5, <1>8, <2>2 DEF IsClient, CopyAtCursor, Bounded
    <2> QED
      BY <2>2, <2>3, <1>1, <1>2, <1>3 DEF Asked, Rereads
  <1> QED
    BY <1>4, <1>6, <1>7, <1>8

\* The calls are those there were, and a new one if the client was idle.
LEMMA CallsAsked ==
    ASSUME ReadInv, NEW r, Asked(r)
    PROVE  \/ client.inFlight /\ calls' = calls
           \/ /\ ~client.inFlight
              /\ \E call : /\ call.epoch = client.ownerEpoch /\ IsRequest(call, client.ownerEpoch)
                           /\ ~AsksForDisplay(call) /\ calls' = Append(calls, Awaited(call))
  <1>1. IsSeq(calls) /\ calls' = calls \o Outgoing(r.calls) /\ Rereads(r)
    BY DEF ReadInv, Queued, Asked
  <1>2. CASE client.inFlight
    BY <1>1, <1>2, OutgoingCalls DEF Rereads
  <1>3. CASE ~client.inFlight
    <2>1. PICK call : /\ r.calls = <<call>> /\ call.epoch = client.ownerEpoch
                      /\ IsRequest(call, client.ownerEpoch) /\ ~AsksForDisplay(call)
      BY <1>1, <1>3 DEF Rereads
    <2> QED
      BY <1>1, <1>3, <2>1, OutgoingCalls
  <1> QED
    BY <1>2, <1>3

LEMMA AskingKeepsReadInv ==
    ASSUME ReadInv, NEW r, Asked(r) PROVE ReadInv'
  <1> DEFINE ep == client.ownerEpoch
             busy == client.inFlight
  <1>1. /\ IsSeq(calls) /\ \A i \in DOMAIN calls : IsCall(calls[i], ep)
        /\ IsSeq(inbox) /\ \A i \in DOMAIN inbox : IsMessage(inbox[i], ep)
        /\ Underway(calls, inbox, ep, busy) /\ busy \in BOOLEAN
    BY ClientTyped DEF ReadInv, Queued
  <1>2. /\ client' = r.state /\ IsClient(r.state) /\ client'.ownerEpoch = ep
        /\ client'.inFlight
        /\ UNCHANGED <<service, persistedGeneration, inbox, kind, content, open>>
    BY DEF Asked, Rereads
  <1>3. client'.inFlight = TRUE
    <2>1. client'.inFlight \in BOOLEAN
      BY <1>2, ClientTyped DEF ReadInv
    <2> QED
      BY <1>2, <2>1
  <1>4. CASE busy /\ calls' = calls
    <2>1. busy = TRUE
      BY <1>1, <1>4
    <2>2. Underway(calls', inbox, ep, TRUE)
      BY <1>1, <1>4, <2>1
    <2>3. IsSeq(calls') /\ \A i \in DOMAIN calls' : IsCall(calls'[i], ep)
      BY <1>1, <1>4
    <2>4. Queued(calls, inbox, client.ownerEpoch)'
      BY <1>1, <1>2, <2>3 DEF Queued, IsMessage, IsCall, IsRequest, IsAnswer
    <2>5. IsClient(client)'
      BY <1>2 DEF IsClient, CopyAtCursor
    <2>6. Underway(calls', inbox', client'.ownerEpoch, client'.inFlight)
      BY <1>2, <1>3, <2>2
    <2> QED
      BY <1>2, <1>3, <2>4, <2>5, <2>6 DEF ReadInv, Asked
  <1>5. CASE ~busy /\ \E call : /\ call.epoch = ep /\ IsRequest(call, ep)
                                /\ calls' = Append(calls, Awaited(call))
    <2>1. PICK call : call.epoch = ep /\ IsRequest(call, ep) /\ calls' = Append(calls, Awaited(call))
      BY <1>5
    <2> DEFINE c == Awaited(call)
    <2>2. IsCall(c, ep)
      BY <2>1 DEF Awaited, IsCall
    <2>3. Underway(Append(calls, c), inbox, ep, TRUE)
      <3>1. busy = FALSE
        BY <1>1, <1>5
      <3> HIDE DEF ep, busy
      <3> QED
        BY <1>1, <2>1, <3>1, CallMade
    <2> HIDE DEF c
    <2>4. /\ IsSeq(Append(calls, c)) /\ DOMAIN Append(calls, c) = 1..(Len(calls) + 1)
          /\ \A i \in DOMAIN calls : Append(calls, c)[i] = calls[i]
          /\ Append(calls, c)[Len(calls) + 1] = c
          /\ Len(calls) \in Nat /\ DOMAIN calls = 1..Len(calls)
      BY <1>1, SeqAppend, SeqFacts
    <2>5. calls' = Append(calls, c)
      BY <2>1 DEF c
    <2>6. \A i \in 1..(Len(calls) + 1) : i \in 1..Len(calls) \/ i = Len(calls) + 1
      BY <2>4
    <2>7. IsSeq(calls') /\ \A i \in DOMAIN calls' : IsCall(calls'[i], ep)
      BY <1>1, <2>2, <2>4, <2>5, <2>6
    <2>8. Queued(calls, inbox, client.ownerEpoch)'
      BY <1>1, <1>2, <2>7 DEF Queued, IsMessage, IsCall, IsRequest, IsAnswer
    <2>9. IsClient(client)'
      BY <1>2 DEF IsClient, CopyAtCursor
    <2>10. Underway(calls', inbox', client'.ownerEpoch, client'.inFlight)
      BY <1>2, <1>3, <2>3, <2>5
    <2> QED
      BY <1>2, <1>3, <2>8, <2>9, <2>10 DEF ReadInv, Asked
  <1> QED
    BY <1>4, <1>5, CallsAsked

-----------------------------------------------------------------------------
(* The reads are never confused.                                           *)

\* The steps, for what the client is told and does.
LEMMA EveryStep ==
    ASSUME ReadInv, [Next]_vars
    PROVE  \/ \E news : Turns(news)
           \/ \E news : Continues(news)
           \/ ReadInv' /\ \E x : Loses(x)
           \/ \E m, r : Consumes(m, r)
           \/ \E r : Asked(r)
           \/ UNCHANGED vars
  <1>1. CASE BusLife /\ UNCHANGED <<kind, client, content, open>>
    <2>1. ClientStays
      BY <1>1 DEF ClientStays
    <2> QED
      BY <1>1, <2>1, StartTurns, EndTurns, RecoveryContinues, InventoryContinues,
         TimeoutContinues, LossIsKnown DEF BusLife
  <1>2. CASE ActivationFails /\ UNCHANGED <<kind, client, content, open>>
    BY <1>2, ActivationContinues DEF ClientStays
  <1>3. CASE (BecomesReady \/ Changes \/ ChangesElsewhere \/ Closes \/ Reopens)
                /\ UNCHANGED <<kind, client>>
    BY <1>3, PublicationContinues DEF Publications
  <1>4. CASE HandlesRead /\ UNCHANGED <<kind, client>>
    BY <1>4, ReadContinues
  <1>5. CASE ClientHandles
    BY <1>5, ClientConsumes
  <1>6. CASE UserRefreshes
    BY <1>6, ClientAsks
  <1> QED
    BY <1>1, <1>2, <1>3, <1>4, <1>5, <1>6 DEF Next

\* A client asks for what it copies when it is made.
IsNew(r) ==
    /\ IsClient(r.state) /\ r.state.inFlight /\ r.state.ownerEpoch = 0
    /\ ~r.state.copy.ready /\ r.state.eventOwner = NoOwner /\ r.state.lastObserved = 0
    /\ Bounded(r.state)
    /\ \E call : /\ r.calls = <<call>> /\ call.epoch = 0
                 /\ IsRequest(call, 0) /\ ~AsksForDisplay(call)

LEMMA ProfileBegins ==
    ASSUME kind = "profiles", NEW r, r = Profiles!RequestSnapshot(Profiles!NoClient)
    PROVE  IsNew(r)
  <1> DEFINE none == Profiles!NoClient
  <1>1. /\ none \in ProfileMembers /\ ~none.inFlight /\ none.ownerEpoch = 0
        /\ ~none.copy.ready /\ none.eventOwner = NoOwner /\ none.lastObserved = 0
    BY NobodyTyped DEF ProfileMembers, Profiles!NoClient, Profiles!NoCopy
  <1>2. r = Profiles!RequestSnapshot(none)
    OBVIOUS
  <1> HIDE DEF none
  <1>3. /\ r.state \in ProfileMembers /\ r.state.ownerEpoch = none.ownerEpoch /\ r.state.inFlight
        /\ r.state.eventOwner = none.eventOwner /\ r.state.lastObserved = none.lastObserved
        /\ r.state.copy = none.copy \/ ~r.state.copy.ready
    BY <1>1, <1>2, ProfileRequests
  <1>4. \E call : /\ r.calls = <<call>> /\ call.epoch = none.ownerEpoch
                  /\ IsRequest(call, none.ownerEpoch) /\ ~AsksForDisplay(call)
    BY ONLY kind = "profiles", <1>1, <1>2, ProfileRequests, Zenon
  <1> QED
    BY <1>1, <1>3, <1>4 DEF IsNew, IsClient, CopyAtCursor, Bounded

LEMMA HardwareBegins ==
    ASSUME kind = "hardware", NEW r, r = Hardware!Refresh(Hardware!NoClient)
    PROVE  IsNew(r)
  <1> DEFINE none == Hardware!NoClient
  <1>1. /\ none \in HardwareMembers /\ ~none.inFlight /\ none.ownerEpoch = 0
        /\ ~none.copy.ready /\ none.eventOwner = NoOwner /\ none.lastObserved = 0
        /\ none.lastHardware = 0
    BY NobodyTyped DEF HardwareMembers, Hardware!NoClient, Hardware!NoCopy
  <1>2. r = Hardware!Refresh(none)
    OBVIOUS
  <1> HIDE DEF none
  <1>3. /\ r.state \in HardwareMembers /\ r.state.ownerEpoch = none.ownerEpoch /\ r.state.inFlight
        /\ r.state.eventOwner = none.eventOwner /\ r.state.lastObserved = none.lastObserved
        /\ r.state.lastHardware = none.lastHardware /\ r.state.copy = none.copy
    BY <1>1, <1>2, HardwareRefreshes
  <1>4. \E call : /\ r.calls = <<call>> /\ call.epoch = none.ownerEpoch
                  /\ IsRequest(call, none.ownerEpoch) /\ ~AsksForDisplay(call)
    BY ONLY kind = "hardware", <1>1, <1>2, HardwareRefreshes, Zenon
  <1> QED
    BY <1>1, <1>3, <1>4 DEF IsNew, IsClient, CopyAtCursor, Bounded

LEMMA DisplayBegins ==
    ASSUME kind = "display", NEW r, r = Display!Refresh(Display!NoClient)
    PROVE  IsNew(r)
  <1> DEFINE none == Display!NoClient
             nothing == Display!NoCopy
  <1>0. /\ nothing \in [ready : BOOLEAN, owner : Owners, sequence : Nat, content : Seq(Nat)]
        /\ ~nothing.ready
    BY NobodyTyped, NothingTyped DEF Display!NoCopy
  <1>1. /\ none \in DisplayMembers /\ ~none.inFlight /\ none.ownerEpoch = 0
        /\ ~none.copy.ready /\ none.eventOwner = NoOwner /\ none.lastObserved = 0
        /\ none.recent = {}
    <2> HIDE DEF nothing
    <2>1. none = [ownerEpoch |-> 0, moved |-> FALSE, inFlight |-> FALSE, refreshPending |-> FALSE,
                  eventOwner |-> NoOwner, lastObserved |-> 0, recent |-> {}, issued |-> {},
                  copy |-> nothing]
      BY DEF Display!NoClient, nothing
    <2> HIDE DEF none
    <2> QED
      BY <1>0, <2>1, NobodyTyped DEF DisplayMembers
  <1>2. r = Display!Refresh(none)
    OBVIOUS
  <1> HIDE DEF none
  <1>3. /\ r.state \in DisplayMembers /\ r.state.ownerEpoch = none.ownerEpoch /\ r.state.inFlight
        /\ r.state.eventOwner = none.eventOwner /\ r.state.lastObserved = none.lastObserved
        /\ r.state.recent = none.recent /\ r.state.copy = none.copy
    BY <1>1, <1>2, DisplayRefreshes
  <1>4. \E call : /\ r.calls = <<call>> /\ call.epoch = none.ownerEpoch
                  /\ IsRequest(call, none.ownerEpoch) /\ ~AsksForDisplay(call)
    BY ONLY kind = "display", <1>1, <1>2, DisplayRefreshes, Zenon
  <1> QED
    BY <1>1, <1>3, <1>4 DEF IsNew, IsClient, CopyAtCursor, Bounded

LEMMA ClientBegins == ASSUME kind \in Kinds PROVE IsNew(NewClient)
  BY ProfileBegins, HardwareBegins, DisplayBegins DEF Kinds, NewClient, Refreshed, NoClient

\* The first call is on its way, and nothing else.
LEMMA BeginsWithOneCall ==
    ASSUME Init
    PROVE  /\ kind \in Kinds /\ IsNew(NewClient) /\ client = NewClient.state /\ inbox = <<>>
           /\ \E call : /\ calls = <<Awaited(call)>> /\ call.epoch = 0
                        /\ IsRequest(call, 0) /\ ~AsksForDisplay(call)
  <1>1. BusKnown
    BY BusBegins DEF Init
  <1>2. kind \in Kinds
    BY <1>1, KindsAssumption DEF Init, BusKnown
  <1>3. IsNew(NewClient)
    BY <1>2, ClientBegins
  <1>4. client = NewClient.state /\ calls = Outgoing(NewClient.calls) /\ inbox = <<>>
    BY DEF Init, BusInit
  <1> DEFINE r == NewClient
  <1> HIDE DEF r
  <1>5. PICK call : /\ r.calls = <<call>> /\ call.epoch = 0
                    /\ IsRequest(call, 0) /\ ~AsksForDisplay(call)
    BY <1>3 DEF IsNew, r
  <1>6. Outgoing(<<call>>) = <<Awaited(call)>>
    BY DEF Outgoing
  <1>7. calls = <<Awaited(call)>>
    BY <1>4, <1>5, <1>6 DEF r
  <1> QED
    BY <1>2, <1>3, <1>4, <1>5, <1>7

LEMMA ReadsBegin == ASSUME Init PROVE ReadInv
  <1>1. BusKnown /\ content \in Nat /\ open \in BOOLEAN
    BY BusBegins DEF Init
  <1>2. /\ kind \in Kinds /\ IsNew(NewClient) /\ client = NewClient.state /\ inbox = <<>>
    BY BeginsWithOneCall
  <1>3. PICK call : calls = <<Awaited(call)>> /\ call.epoch = 0 /\ IsRequest(call, 0)
    BY BeginsWithOneCall
  <1>4. /\ IsClient(client) /\ client.inFlight /\ client.ownerEpoch = 0
    BY <1>2 DEF IsNew
  <1> DEFINE c == Awaited(call)
             busy == client.inFlight
  <1>5. IsCall(c, 0) /\ Due(c, 0)
    BY <1>3 DEF Awaited, IsCall, Due
  <1> HIDE DEF c
  <1>6. /\ IsSeq(calls) /\ DOMAIN calls = {1} /\ calls[1] = c
        /\ IsSeq(inbox) /\ \A i \in DOMAIN inbox : FALSE
    <2>1. DOMAIN <<c>> = {1} /\ <<c>>[1] = c
      OBVIOUS
    <2>2. \A i \in DOMAIN <<>> : FALSE
      OBVIOUS
    <2> QED
      BY <1>2, <1>3, <2>1, <2>2, ListIsSeq DEF c
  <1>7. Queued(calls, inbox, client.ownerEpoch)
    BY <1>4, <1>5, <1>6 DEF Queued
  <1>8. Underway(calls, inbox, 0, busy)
    BY <1>4, <1>5, <1>6 DEF Underway
  <1> QED
    BY <1>1, <1>2, <1>4, <1>7, <1>8 DEF ReadInv

LEMMA ReadsGoOn == ASSUME ReadInv, [Next]_vars PROVE ReadInv'
  <1>1. CASE \E news : Turns(news) \/ Continues(news)
    BY <1>1, SendingKeepsReadInv DEF Turns, Continues
  <1>2. CASE \E m, r : Consumes(m, r)
    BY <1>2, ClientKeepsReadInv
  <1>3. CASE UNCHANGED vars
    BY <1>3 DEF vars, busVars, ReadInv, BusKnown, Started, Queued, IsCall, IsMessage, IsRequest,
                IsAnswer, IsClient, CopyAtCursor
  <1>4. CASE \E r : Asked(r)
    BY <1>4, AskingKeepsReadInv
  <1> QED
    BY <1>1, <1>2, <1>3, <1>4, EveryStep

\* Whatever is lost, late, refused or restarted, a client that waits has
\* exactly one unanswered call of a read in its epoch and one that does not
\* wait has none, and its members keep their types (refresh, fetchSnapshot
\* and the reply handlers of the profile, device and display clients).
THEOREM ClientsReadOnce == Spec => []ReadInvariant
  <1>1. Init => ReadInv
    BY ReadsBegin
  <1>2. ReadInv /\ [Next]_vars => ReadInv'
    BY ReadsGoOn
  <1>3. ReadInv => ReadInvariant
    BY ReadInvImplies
  <1> QED
    BY <1>1, <1>2, <1>3, PTL DEF Spec

\* What a client shows of an owner is never older than an event it has
\* handled from that owner: replies that events overtook are not kept.
THEOREM CopiesCoverEvents == Spec => []CopyCoversEvents
  <1>1. Init => ReadInv
    BY ReadsBegin
  <1>2. ReadInv /\ [Next]_vars => ReadInv'
    BY ReadsGoOn
  <1>3. ReadInv => CopyCoversEvents
    BY ReadInvImplies
  <1> QED
    BY <1>1, <1>2, <1>3, PTL DEF Spec

-----------------------------------------------------------------------------
(* Whose numbers are whose.  In what follows cs are calls, ms messages on  *)
(* their way, s is a service, b the number of starts there were.           *)

\* A number that some service has used.
Signs(o, n, s, b) ==
    \/ o = NoOwner /\ n = 0
    \/ o.uuid \in 1..b /\ (o.uuid = s.owner.uuid => n <= s.sequence)

\* One at which reads were answered.
Reads(o, n, s, b) ==
    /\ Signs(o, n, s, b)
    /\ o # NoOwner /\ o.uuid = s.owner.uuid => s.state = "READY" /\ o = s.owner

HasCall(cs, ms, call) ==
    \/ \E k \in DOMAIN cs : call = cs[k].call
    \/ \E i \in DOMAIN ms : ms[i].kind = "reply" /\ call = ms[i].call

Signed(cs, ms, c, s, b) ==
    /\ \A i \in DOMAIN ms : IsDated(ms[i]) => Signs(OwnerOf(ms[i]), NumberOf(ms[i]), s, b)
    /\ \A i \in DOMAIN ms : IsAnswered(ms[i]) =>
            Reads(ms[i].answer.owner, ms[i].answer.sequence, s, b)
    /\ \A call : HasCall(cs, ms, call) /\ AsksForDisplay(call) =>
            Reads(call.list.owner, call.list.sequence, s, b)
    /\ c.copy.ready => Reads(c.copy.owner, c.copy.sequence, s, b)
    /\ Signs(c.eventOwner, c.lastObserved, s, b)

\* Between two changes of the owner numbers come in order, and up to the last
\* of the running service.
Steady(ms, i, j) == \A k \in DOMAIN ms : i < k /\ k < j => ms[k].kind # "owner"
Follows(ms, i, o, n, s) ==
    /\ \A j \in DOMAIN ms :
         i < j /\ IsDated(ms[j]) /\ OwnerOf(ms[j]) # NoOwner /\ Steady(ms, i, j) =>
            OwnerOf(ms[j]).uuid = o.uuid /\ n <= NumberOf(ms[j])
    /\ (\A k \in DOMAIN ms : i < k => ms[k].kind # "owner") =>
            s.owner.uuid = o.uuid /\ n <= s.sequence

Ordered(ms, c, s) ==
    /\ \A i \in DOMAIN ms : IsDated(ms[i]) /\ OwnerOf(ms[i]) # NoOwner =>
            Follows(ms, i, OwnerOf(ms[i]), NumberOf(ms[i]), s)
    /\ c.eventOwner # NoOwner => Follows(ms, 0, c.eventOwner, c.lastObserved, s)

-----------------------------------------------------------------------------
(* What was read is there still, unless the event T came since.            *)

\* A number of the running service from T on.
Shown(o, n, T, s) == s.owner # NoOwner /\ o = s.owner /\ T <= n

\* The signal of T that voids copies is on its way, before any later number.
Voided(ms, i, T, s) ==
    \E j \in DOMAIN ms :
        /\ i < j /\ IsVoid(ms[j]) /\ ms[j].owner = s.owner /\ ms[j].sequence = T
        /\ \A k \in DOMAIN ms : i < k /\ k < j /\ IsSignal(ms[k]) /\ ms[k].owner = s.owner =>
                ms[k].sequence < T
Overtaken(ms, i, o, n, T, s) == s.owner # NoOwner /\ o = s.owner /\ n < T => Voided(ms, i, T, s)

Agrees(a, x, can) == can /\ a.content = x /\ (kind = "display" => a.displays = DisplaysAt(x))
AllAre(states, x) == \A i \in DOMAIN states : states[i] = x
WholeOf(x) == IF kind = "display" THEN [i \in 1..(DisplaysAt(x) + 1) |-> x] ELSE x

AnswersHold(T, ms, s, x, can, kept) ==
    \A i \in DOMAIN ms : IsAnswered(ms[i]) =>
        /\ Shown(ms[i].answer.owner, ms[i].answer.sequence, T, s) => Agrees(ms[i].answer, x, can)
        /\ kind # "profiles" /\ kept =>
             Overtaken(ms, i, ms[i].answer.owner, ms[i].answer.sequence, T, s)
ListsHold(T, cs, ms, s, x, can) ==
    \A call : HasCall(cs, ms, call) /\ AsksForDisplay(call) =>
        (Shown(call.list.owner, call.list.sequence, T, s) =>
            Agrees(call.list, x, can) /\ AllAre(call.states, x))
CopyHolds(T, ms, copy, s, x, can, kept) ==
    copy.ready /\ (kind = "profiles" \/ kept) =>
        /\ Shown(copy.owner, copy.sequence, T, s) => can /\ copy.content = WholeOf(x)
        /\ kind # "profiles" => Overtaken(ms, 0, copy.owner, copy.sequence, T, s)
SubjectHolds(T, ms, s) ==
    kind = "profiles" =>
        \A i \in DOMAIN ms :
            IsSignal(ms[i]) /\ ms[i].owner = s.owner /\ ms[i].sequence = T =>
                ms[i].subject = "profile"

UpTo(T, cs, ms, c, s, x, can, kept) ==
    /\ T \in Nat /\ T <= s.sequence
    /\ AnswersHold(T, ms, s, x, can, kept) /\ ListsHold(T, cs, ms, s, x, can)
    /\ CopyHolds(T, ms, c.copy, s, x, can, kept) /\ SubjectHolds(T, ms, s)

CopyInv ==
    /\ Signed(calls, inbox, client, service, Started)
    /\ Ordered(inbox, client, service)
    /\ Bounded(client)
    /\ \E T : UpTo(T, calls, inbox, client, service, content, Readable, Kept)

LEMMA CopyInvThen ==
    ASSUME UNCHANGED kind,
           Signed(calls', inbox', client', service', Started'),
           Ordered(inbox', client', service'),
           Bounded(client'),
           NEW T, UpTo(T, calls', inbox', client', service', content', Readable', Kept')
    PROVE  CopyInv'
  <1>1. Signed(calls, inbox, client, service, Started)'
    BY DEF Signed, Signs, Reads, HasCall, IsDated, IsSignal, IsAnswered, OwnerOf, NumberOf,
           AsksForDisplay
  <1>2. Ordered(inbox, client, service)'
    BY DEF Ordered, Follows, Steady, IsDated, IsSignal, IsAnswered, OwnerOf, NumberOf
  <1>3. Bounded(client)'
    BY DEF Bounded
  <1>4. UpTo(T, calls, inbox, client, service, content, Readable, Kept)'
    <2>1. AnswersHold(T, inbox, service, content, Readable, Kept)'
      BY DEF UpTo, AnswersHold, IsAnswered, Shown, Agrees, Overtaken, Voided, IsVoid, IsSignal,
             DisplaysAt
    <2>2. ListsHold(T, calls, inbox, service, content, Readable)'
      BY DEF UpTo, ListsHold, HasCall, AsksForDisplay, Shown, Agrees, AllAre, DisplaysAt
    <2>3. CopyHolds(T, inbox, client.copy, service, content, Readable, Kept)'
      BY DEF UpTo, CopyHolds, Shown, WholeOf, Overtaken, Voided, IsVoid, IsSignal, DisplaysAt
    <2>4. SubjectHolds(T, inbox, service)'
      BY DEF UpTo, SubjectHolds, IsSignal
    <2> QED
      BY <2>1, <2>2, <2>3, <2>4 DEF UpTo
  <1> QED
    BY <1>1, <1>2, <1>3, <1>4 DEF CopyInv

LEMMA CopyInvImplies == ReadInv /\ CopyInv => CopyIsCurrent
  <1> SUFFICES ASSUME ReadInv, CopyInv, kind = "profiles" \/ Without({"lost"}),
                      client.copy.ready, Alive,
                      client.copy.owner = service.owner, client.copy.sequence = service.sequence
               PROVE  Readable /\ client.copy.content = Whole
    BY DEF CopyIsCurrent
  <1>1. PICK T : UpTo(T, calls, inbox, client, service, content, Readable, Kept)
    BY DEF CopyInv
  <1>2. kind = "profiles" \/ Kept
    BY DEF Without, Kept
  <1>3. Shown(client.copy.owner, client.copy.sequence, T, service)
    BY <1>1 DEF UpTo, Shown, Alive
  <1>4. Readable /\ client.copy.content = WholeOf(content)
    BY <1>1, <1>2, <1>3 DEF UpTo, CopyHolds
  <1> QED
    BY <1>4 DEF Whole, WholeOf

LEMMA CopiesBegin == ASSUME Init PROVE CopyInv
  <1>1. /\ IsNew(NewClient) /\ client = NewClient.state /\ inbox = <<>>
    BY BeginsWithOneCall
  <1>2. PICK call : calls = <<Awaited(call)>> /\ ~AsksForDisplay(call)
    BY BeginsWithOneCall
  <1>3. \A i \in DOMAIN inbox : FALSE
    BY <1>1
  <1>4. \A k \in DOMAIN calls : calls[k].call = call
    <2> DEFINE c == Awaited(call)
    <2>1. c.call = call
      BY DEF Awaited
    <2> HIDE DEF c
    <2>2. \A k \in DOMAIN <<c>> : <<c>>[k] = c
      OBVIOUS
    <2>3. calls = <<c>>
      BY <1>2 DEF c
    <2> QED
      BY <2>1, <2>2, <2>3
  <1>5. \A x : ~(HasCall(calls, inbox, x) /\ AsksForDisplay(x))
    BY <1>2, <1>3, <1>4 DEF HasCall
  <1>6. ~client.copy.ready /\ client.eventOwner = NoOwner /\ client.lastObserved = 0
        /\ Bounded(client)
    BY <1>1 DEF IsNew
  <1>7. Signed(calls, inbox, client, service, Started)
    BY <1>3, <1>5, <1>6 DEF Signed, Signs
  <1>8. Ordered(inbox, client, service)
    BY <1>3, <1>6 DEF Ordered
  <1>9. service.sequence \in Nat
    BY BusBegins DEF Init, BusKnown
  <1>10. UpTo(0, calls, inbox, client, service, content, Readable, Kept)
    BY <1>3, <1>5, <1>6, <1>9 DEF UpTo, AnswersHold, ListsHold, CopyHolds, SubjectHolds
  <1> QED
    BY <1>6, <1>7, <1>8, <1>10 DEF CopyInv

-----------------------------------------------------------------------------
(* What the news adds.                                                     *)

\* A message of the longer inbox is an old one or one of the news.
LEMMA OldOrNew ==
    ASSUME ReadInv, NEW news, Sends(news)
    PROVE  /\ Len(inbox) \in Nat /\ Len(news) \in Nat
           /\ DOMAIN inbox = 1..Len(inbox) /\ DOMAIN inbox' = 1..(Len(inbox) + Len(news))
           /\ DOMAIN news = 1..Len(news)
           /\ \A i \in DOMAIN inbox : i \in DOMAIN inbox' /\ inbox'[i] = inbox[i]
           /\ \A i \in DOMAIN inbox' :
                i \in Nat /\ i > 0 /\
                (i \in DOMAIN inbox \/
                    /\ Len(inbox) < i /\ i - Len(inbox) \in DOMAIN news
                    /\ inbox'[i] = news[i - Len(inbox)])
           /\ \A j \in DOMAIN news :
                j + Len(inbox) \in DOMAIN inbox' /\ inbox'[j + Len(inbox)] = news[j]
  <1> DEFINE n == Len(inbox)
             k == Len(news)
             all == inbox \o news
  <1>1. IsSeq(inbox) /\ IsSeq(news) /\ inbox' = all
    BY DEF ReadInv, Queued, Sends
  <1>2. n \in Nat /\ DOMAIN inbox = 1..n /\ k \in Nat /\ DOMAIN news = 1..k
    BY <1>1, SeqFacts
  <1>3. /\ DOMAIN all = 1..(n + k)
        /\ \A i \in DOMAIN inbox : all[i] = inbox[i]
        /\ \A i \in DOMAIN all : i \notin DOMAIN inbox => i - n \in DOMAIN news /\ all[i] = news[i - n]
    BY <1>1, SeqConcat
  <1> HIDE DEF n, k, all
  <1>4. \A i \in DOMAIN inbox : i \in DOMAIN all /\ all[i] = inbox[i]
    BY <1>2, <1>3
  <1>5. \A i \in DOMAIN all :
                i \in Nat /\ i > 0 /\
                (i \in DOMAIN inbox \/ (n < i /\ i - n \in DOMAIN news /\ all[i] = news[i - n]))
    BY <1>2, <1>3
  <1>6. ASSUME NEW j \in DOMAIN news PROVE j + n \in DOMAIN all /\ all[j + n] = news[j]
    <2>1. j + n \in DOMAIN all /\ j + n \notin DOMAIN inbox /\ (j + n) - n = j
      BY <1>2, <1>3
    <2> QED
      BY <1>3, <2>1
  <1> QED
    BY <1>1, <1>2, <1>3, <1>4, <1>5, <1>6 DEF n, k

LEMMA NoNewCalls ==
    ASSUME ReadInv, NEW news, Sends(news), NEW call, HasCall(calls', inbox', call)
    PROVE  HasCall(calls, inbox, call)
  <1>1. CASE \E k \in DOMAIN calls' : call = calls'[k].call
    BY <1>1 DEF Sends, HasCall
  <1>2. CASE \E i \in DOMAIN inbox' : inbox'[i].kind = "reply" /\ call = inbox'[i].call
    <2>1. PICK i \in DOMAIN inbox' : inbox'[i].kind = "reply" /\ call = inbox'[i].call
      BY <1>2
    <2>2. CASE i \in DOMAIN inbox
      <3>1. inbox'[i] = inbox[i]
        BY <2>2, OldOrNew
      <3> QED
        BY <2>1, <2>2, <3>1 DEF HasCall
    <2>3. CASE i \notin DOMAIN inbox
      <3>1. PICK j \in DOMAIN news : inbox'[i] = news[j]
        BY <2>1, <2>3, OldOrNew
      <3> QED
        BY <2>1, <3>1 DEF Sends, HasCall
    <2> QED
      BY <2>2, <2>3
  <1> QED
    BY <1>1, <1>2 DEF HasCall

\* Numbers that were right stay right, if those of the next service start
\* where this one has come to, or are of another one.
GoesFurther(s, b, s2, b2) ==
    /\ b \in Nat /\ b2 \in Nat /\ b <= b2 /\ s.sequence \in Nat /\ s2.sequence \in Nat
    /\ \/ /\ s2.owner.uuid = s.owner.uuid /\ s.sequence <= s2.sequence
          /\ s.state = "READY" => s2.state = "READY" /\ s2.owner = s.owner
       \/ s2.owner.uuid \notin 1..b /\ s2.owner.uuid \in Nat

LEMMA SignsStay ==
    ASSUME NEW s, NEW b, NEW s2, NEW b2, GoesFurther(s, b, s2, b2), NEW o, NEW n \in Nat,
           Signs(o, n, s, b)
    PROVE  Signs(o, n, s2, b2)
  BY DEF Signs, GoesFurther

LEMMA ReadsStay ==
    ASSUME NEW s, NEW b, NEW s2, NEW b2, GoesFurther(s, b, s2, b2), NEW o, NEW n \in Nat,
           Reads(o, n, s, b)
    PROVE  Reads(o, n, s2, b2)
  <1>1. Signs(o, n, s2, b2)
    BY SignsStay DEF Reads
  <1>2. o # NoOwner => o.uuid \in 1..b
    BY DEF Reads, Signs
  <1> QED
    BY <1>1, <1>2 DEF Reads, GoesFurther

LEMMA NumbersTyped ==
    ASSUME ReadInv
    PROVE  /\ \A i \in DOMAIN inbox : IsDated(inbox[i]) => NumberOf(inbox[i]) \in Nat
           /\ \A i \in DOMAIN inbox : IsAnswered(inbox[i]) => inbox[i].answer.sequence \in Nat
           /\ \A call : HasCall(calls, inbox, call) /\ AsksForDisplay(call) =>
                call.list.sequence \in Nat /\ call.list.owner # NoOwner /\ IsList(call.list)
                /\ call.states \in Seq(Nat)
           /\ client.copy.sequence \in Nat /\ client.lastObserved \in Nat
           /\ service.sequence \in Nat /\ service.owner \in Owners /\ Started \in Nat
           /\ service.owner.uuid \in Nat
  <1>1. \A i \in DOMAIN inbox : IsMessage(inbox[i], client.ownerEpoch)
    BY DEF ReadInv, Queued
  <1>2. \A i \in DOMAIN inbox : /\ IsDated(inbox[i]) => NumberOf(inbox[i]) \in Nat
                                /\ IsAnswered(inbox[i]) => inbox[i].answer.sequence \in Nat
    BY <1>1 DEF IsMessage, IsDated, IsSignal, IsAnswered, NumberOf, IsAnswer
  <1>3. ASSUME NEW call, HasCall(calls, inbox, call), AsksForDisplay(call)
        PROVE  call.list.sequence \in Nat /\ call.list.owner # NoOwner /\ IsList(call.list)
               /\ call.states \in Seq(Nat)
    <2>1. IsRequest(call, client.ownerEpoch)
      BY <1>1, <1>3 DEF ReadInv, Queued, HasCall, IsCall, IsMessage
    <2> QED
      BY <1>3, <2>1 DEF IsRequest, IsList
  <1>4. client.copy.sequence \in Nat /\ client.lastObserved \in Nat
    BY ClientTyped DEF ReadInv
  <1>5. /\ service.sequence \in Nat /\ service.owner \in Owners /\ Started \in Nat
        /\ service.owner.uuid \in Nat
    BY StartsTyped DEF ReadInv, BusKnown, Started, Spendable, Owners
  <1> QED
    BY <1>2, <1>3, <1>4, <1>5

\* What is said of the old messages, calls and copies, and of every new one,
\* is true of all of them.
LEMMA SignedOn ==
    ASSUME ReadInv, CopyInv, NEW news, Sends(news),
           GoesFurther(service, Started, service', Started'),
           \A i \in DOMAIN news :
                /\ IsDated(news[i]) => Signs(OwnerOf(news[i]), NumberOf(news[i]), service', Started')
                /\ IsAnswered(news[i]) =>
                    Reads(news[i].answer.owner, news[i].answer.sequence, service', Started')
    PROVE  Signed(calls', inbox', client', service', Started')
  <1>1. Signed(calls, inbox, client, service, Started) /\ client' = client
    BY DEF CopyInv, Sends
  <1> DEFINE s == service
             b == Started
             s2 == service'
             b2 == Started'
  <1>2. /\ \A i \in DOMAIN inbox' :
             (\E j \in DOMAIN inbox : inbox'[i] = inbox[j]) \/ (\E j \in DOMAIN news : inbox'[i] = news[j])
    BY OldOrNew
  <1>3. /\ \A o : \A n \in Nat : Signs(o, n, s, b) => Signs(o, n, s2, b2)
        /\ \A o : \A n \in Nat : Reads(o, n, s, b) => Reads(o, n, s2, b2)
    BY SignsStay, ReadsStay
  <1> HIDE DEF s, b, s2, b2
  <1>4. /\ \A j \in DOMAIN inbox :
             /\ IsDated(inbox[j]) => Signs(OwnerOf(inbox[j]), NumberOf(inbox[j]), s2, b2)
             /\ IsAnswered(inbox[j]) => Reads(inbox[j].answer.owner, inbox[j].answer.sequence, s2, b2)
    BY <1>1, <1>3, NumbersTyped DEF Signed, s, b
  <1>5. /\ \A i \in DOMAIN inbox' :
             /\ IsDated(inbox'[i]) => Signs(OwnerOf(inbox'[i]), NumberOf(inbox'[i]), s2, b2)
             /\ IsAnswered(inbox'[i]) => Reads(inbox'[i].answer.owner, inbox'[i].answer.sequence, s2, b2)
    BY <1>2, <1>4 DEF s2, b2
  <1>6. /\ client.copy.ready => Reads(client.copy.owner, client.copy.sequence, s2, b2)
        /\ Signs(client.eventOwner, client.lastObserved, s2, b2)
    BY <1>1, <1>3, NumbersTyped DEF Signed, s, b
  <1>7. ASSUME NEW call, HasCall(calls', inbox', call), AsksForDisplay(call)
        PROVE  Reads(call.list.owner, call.list.sequence, s2, b2)
    <2>1. HasCall(calls, inbox, call)
      BY <1>7, NoNewCalls
    <2> QED
      BY <1>1, <1>3, <1>7, <2>1, NumbersTyped DEF Signed, s, b
  <1> QED
    BY <1>1, <1>5, <1>6, <1>7 DEF Signed, s2, b2

LEMMA ContinuingGoesFurther ==
    ASSUME ReadInv, NEW news, Continues(news)
    PROVE  GoesFurther(service, Started, service', Started')
  <1>1. service'.sequence \in Nat
    BY DEF Continues, Sends, BusKnown
  <1> QED
    BY <1>1, NumbersTyped DEF Continues, GoesFurther

LEMMA TurningGoesFurther ==
    ASSUME ReadInv, NEW news, Turns(news)
    PROVE  GoesFurther(service, Started, service', Started')
  <1>1. service'.sequence \in Nat /\ service'.owner \in Owners
    BY DEF Turns, Sends, BusKnown
  <1>2. service'.owner.uuid \in Nat
    BY <1>1, StartsTyped DEF Owners
  <1> QED
    BY <1>1, <1>2, NumbersTyped DEF Turns, GoesFurther

LEMMA NewNumbers ==
    ASSUME ReadInv, NEW news, Continues(news), NEW i \in DOMAIN news, IsDated(news[i]),
           OwnerOf(news[i]) # NoOwner
    PROVE  /\ OwnerOf(news[i]).uuid = service.owner.uuid /\ NumberOf(news[i]) \in Nat
           /\ service.sequence <= NumberOf(news[i]) /\ NumberOf(news[i]) <= service'.sequence
           /\ IsSignal(news[i]) => service.sequence < NumberOf(news[i])
           /\ ~IsSignal(news[i]) => NumberOf(news[i]) = service.sequence
           /\ service.owner # NoOwner
  <1>1. Tells(news[i]) /\ IsMessage(news[i], client.ownerEpoch)
        /\ service.sequence <= service'.sequence
    BY DEF Continues, Sends
  <1>2. service.sequence \in Nat
    BY NumbersTyped
  <1>3. CASE IsSignal(news[i])
    BY <1>1, <1>2, <1>3 DEF Tells, OwnerOf, NumberOf, IsMessage, Alive
  <1>4. CASE ~IsSignal(news[i])
    <2>1. IsAnswered(news[i]) /\ OwnerOf(news[i]) = news[i].answer.owner
          /\ NumberOf(news[i]) = news[i].answer.sequence
      BY <1>4 DEF IsDated, OwnerOf, NumberOf
    <2>2. AnswersNow(news[i].answer)
      BY <1>1, <2>1 DEF Tells
    <2> QED
      BY <1>1, <1>2, <1>4, <2>1, <2>2 DEF AnswersNow
  <1> QED
    BY <1>3, <1>4

LEMMA FollowsOn ==
    ASSUME ReadInv, NEW news, Continues(news), NEW i \in Nat, i <= Len(inbox), NEW o, NEW n \in Nat,
           Follows(inbox, i, o, n, service)
    PROVE  Follows(inbox', i, o, n, service')
  <1>0. Sends(news) /\ service'.owner.uuid = service.owner.uuid /\ service.sequence <= service'.sequence
        /\ service.sequence \in Nat /\ service'.sequence \in Nat
    BY NumbersTyped DEF Continues, Sends, BusKnown
  <1>1. ASSUME NEW j \in DOMAIN inbox', i < j, IsDated(inbox'[j]), OwnerOf(inbox'[j]) # NoOwner,
               Steady(inbox', i, j)
        PROVE  OwnerOf(inbox'[j]).uuid = o.uuid /\ n <= NumberOf(inbox'[j])
    <2>1. CASE j \in DOMAIN inbox
      <3>1. inbox'[j] = inbox[j]
        BY <1>0, <2>1, OldOrNew
      <3>2. Steady(inbox, i, j)
        BY <1>0, <1>1, OldOrNew DEF Steady
      <3> QED
        BY <1>1, <2>1, <3>1, <3>2 DEF Follows
    <2>2. CASE j \notin DOMAIN inbox
      <3>1. Len(inbox) < j /\ j - Len(inbox) \in DOMAIN news /\ inbox'[j] = news[j - Len(inbox)]
        BY <1>0, <2>2, OldOrNew
      <3>2. \A k \in DOMAIN inbox : k \in DOMAIN inbox' /\ inbox'[k] = inbox[k] /\ k < j
        BY <1>0, <3>1, OldOrNew
      <3>3. \A k \in DOMAIN inbox : i < k => inbox[k].kind # "owner"
        BY <1>1, <3>2 DEF Steady
      <3>4. service.owner.uuid = o.uuid /\ n <= service.sequence
        BY <3>3 DEF Follows
      <3>5. /\ OwnerOf(inbox'[j]).uuid = service.owner.uuid /\ NumberOf(inbox'[j]) \in Nat
            /\ service.sequence <= NumberOf(inbox'[j])
        BY <1>1, <3>1, NewNumbers
      <3> QED
        BY <1>0, <3>4, <3>5
    <2> QED
      BY <2>1, <2>2
  <1>2. ASSUME \A k \in DOMAIN inbox' : i < k => inbox'[k].kind # "owner"
        PROVE  service'.owner.uuid = o.uuid /\ n <= service'.sequence
    <2>1. \A k \in DOMAIN inbox : i < k => inbox[k].kind # "owner"
      BY <1>0, <1>2, OldOrNew
    <2>2. service.owner.uuid = o.uuid /\ n <= service.sequence
      BY <2>1 DEF Follows
    <2> QED
      BY <1>0, <2>2
  <1> QED
    BY <1>1, <1>2 DEF Follows

LEMMA NewFollow ==
    ASSUME ReadInv, NEW news, Continues(news), NEW i \in DOMAIN inbox', i \notin DOMAIN inbox,
           IsDated(inbox'[i]), OwnerOf(inbox'[i]) # NoOwner
    PROVE  Follows(inbox', i, OwnerOf(inbox'[i]), NumberOf(inbox'[i]), service')
  <1>0. Sends(news) /\ service'.owner.uuid = service.owner.uuid /\ service.sequence <= service'.sequence
        /\ service.sequence \in Nat /\ service'.sequence \in Nat /\ Sorted(news)
    BY NumbersTyped DEF Continues, Sends, BusKnown
  <1> DEFINE h == Len(inbox)
             o == OwnerOf(inbox'[i])
             n == NumberOf(inbox'[i])
  <1>1. h \in Nat /\ i \in Nat /\ h < i /\ i - h \in DOMAIN news /\ inbox'[i] = news[i - h]
        /\ DOMAIN inbox = 1..h
    BY <1>0, OldOrNew
  <1>2. /\ o.uuid = service.owner.uuid /\ n \in Nat /\ service.sequence <= n /\ n <= service'.sequence
        /\ IsSignal(inbox'[i]) => service.sequence < n
        /\ ~IsSignal(inbox'[i]) => n = service.sequence
    BY <1>1, NewNumbers
  <1>3. ASSUME NEW j \in DOMAIN inbox', i < j, IsDated(inbox'[j]), OwnerOf(inbox'[j]) # NoOwner
        PROVE  OwnerOf(inbox'[j]).uuid = o.uuid /\ n <= NumberOf(inbox'[j])
    <2>1. j \in Nat /\ j \notin DOMAIN inbox /\ j - h \in DOMAIN news /\ inbox'[j] = news[j - h]
      <3>1. j \in Nat /\ j \notin DOMAIN inbox
        BY <1>0, <1>1, <1>3, OldOrNew
      <3> QED
        BY <1>0, <3>1, OldOrNew
    <2>2. /\ OwnerOf(inbox'[j]).uuid = service.owner.uuid /\ NumberOf(inbox'[j]) \in Nat
          /\ service.sequence <= NumberOf(inbox'[j])
      BY <1>3, <2>1, NewNumbers
    <2>3. CASE IsSignal(inbox'[i])
      <3>1. i - h < j - h
        BY <1>1, <1>3, <2>1
      <3>2. IsSignal(news[j - h]) /\ news[i - h].sequence <= news[j - h].sequence
        BY <1>0, <1>1, <2>1, <2>3, <3>1 DEF Sorted
      <3> QED
        BY <1>1, <1>2, <2>1, <2>2, <2>3, <3>2 DEF NumberOf
    <2>4. CASE ~IsSignal(inbox'[i])
      BY <1>2, <2>2, <2>4
    <2> QED
      BY <2>3, <2>4
  <1> HIDE DEF o, n
  <1>4. Follows(inbox', i, o, n, service')
    BY <1>0, <1>2, <1>3 DEF Follows
  <1> QED
    BY <1>4 DEF o, n

LEMMA OrderedOn ==
    ASSUME ReadInv, CopyInv, NEW news, Continues(news)
    PROVE  Ordered(inbox', client', service')
  <1>0. Sends(news) /\ client' = client /\ Ordered(inbox, client, service)
    BY DEF Continues, Sends, CopyInv
  <1>1. ASSUME NEW i \in DOMAIN inbox', IsDated(inbox'[i]), OwnerOf(inbox'[i]) # NoOwner
        PROVE  Follows(inbox', i, OwnerOf(inbox'[i]), NumberOf(inbox'[i]), service')
    <2>1. CASE i \in DOMAIN inbox
      <3>1. inbox'[i] = inbox[i] /\ i \in Nat /\ i <= Len(inbox)
        BY <1>0, <2>1, OldOrNew
      <3>2. Follows(inbox, i, OwnerOf(inbox[i]), NumberOf(inbox[i]), service)
        BY <1>0, <1>1, <2>1, <3>1 DEF Ordered
      <3>3. NumberOf(inbox[i]) \in Nat
        BY <1>1, <2>1, <3>1, NumbersTyped
      <3> QED
        BY <3>1, <3>2, <3>3, FollowsOn
    <2>2. CASE i \notin DOMAIN inbox
      BY <1>1, <2>2, NewFollow
    <2> QED
      BY <2>1, <2>2
  <1>2. ASSUME client.eventOwner # NoOwner
        PROVE  Follows(inbox', 0, client.eventOwner, client.lastObserved, service')
    <2>1. client.lastObserved \in Nat /\ 0 <= Len(inbox)
      BY <1>0, NumbersTyped, OldOrNew
    <2>2. Follows(inbox, 0, client.eventOwner, client.lastObserved, service)
      BY <1>0, <1>2 DEF Ordered
    <2> QED
      BY <2>1, <2>2, FollowsOn
  <1> QED
    BY <1>0, <1>1, <1>2 DEF Ordered

-----------------------------------------------------------------------------
(* What was read, when news arrives.                                       *)

\* The last event to have changed what there is to read.
Marks(T, T2, news) ==
    \/ service.state # "READY" /\ T2 = 0
    \/ /\ service.state = "READY" /\ T2 = T
       /\ content' = content /\ (kind # "profiles" => open' = open)
    \/ service.state = "READY" /\ Announces(news, T2)

\* A reading that is shown after the step was shown before it, of what is
\* still there.
LEMMA ReadingStays ==
    ASSUME ReadInv, NEW news, Continues(news), NEW T \in Nat, NEW T2 \in Nat, Marks(T, T2, news),
           NEW o, NEW n \in Nat, o # NoOwner \/ n = 0, Reads(o, n, service, Started),
           Shown(o, n, T2, service')
    PROVE  /\ Shown(o, n, T, service) /\ content' = content /\ (Readable => Readable')
           /\ n <= service.sequence /\ service.state = "READY"
  <1>1. /\ service'.owner.uuid = service.owner.uuid /\ service.sequence \in Nat
        /\ service.state = "READY" => service'.state = "READY" /\ service'.owner = service.owner
        /\ kind' = kind
    BY NumbersTyped DEF Continues, Sends
  <1>2. o = service'.owner /\ service'.owner # NoOwner /\ T2 <= n
    BY DEF Shown
  <1>3. service.state = "READY" /\ o = service.owner /\ n <= service.sequence
    BY <1>1, <1>2 DEF Reads, Signs
  <1>4. T2 = T /\ content' = content /\ (kind # "profiles" => open' = open)
    BY <1>1, <1>2, <1>3 DEF Marks, Announces
  <1> QED
    BY <1>1, <1>2, <1>3, <1>4 DEF Shown, Readable

\* One that is overtaken after it was overtaken before, or is now.
LEMMA OvertakenOn ==
    ASSUME ReadInv, CopyInv, NEW news, Continues(news), NEW T \in Nat, NEW T2 \in Nat,
           Marks(T, T2, news),
           NEW i \in Nat, i <= Len(inbox), NEW o, NEW n \in Nat, Reads(o, n, service, Started),
           kind # "profiles", Overtaken(inbox, i, o, n, T, service)
    PROVE  Overtaken(inbox', i, o, n, T2, service')
  <1> SUFFICES ASSUME service'.owner # NoOwner, o = service'.owner, n < T2
               PROVE  Voided(inbox', i, T2, service')
    BY DEF Overtaken
  <1>1. /\ Sends(news) /\ service'.owner.uuid = service.owner.uuid /\ service.sequence \in Nat
        /\ service.state = "READY" => service'.state = "READY" /\ service'.owner = service.owner
    BY NumbersTyped DEF Continues
  <1>2. service.state = "READY" /\ o = service.owner /\ service'.owner = service.owner
    BY <1>1 DEF Reads
  <1>3. \A k \in DOMAIN inbox : k \in DOMAIN inbox' /\ inbox'[k] = inbox[k] /\ k \in Nat
                                /\ k <= Len(inbox)
    BY <1>1, OldOrNew
  <1>4. CASE T2 = T
    <2>1. Voided(inbox, i, T, service)
      BY <1>2, <1>4 DEF Overtaken
    <2>2. PICK j \in DOMAIN inbox :
            /\ i < j /\ IsVoid(inbox[j]) /\ inbox[j].owner = service.owner /\ inbox[j].sequence = T
            /\ \A k \in DOMAIN inbox :
                 i < k /\ k < j /\ IsSignal(inbox[k]) /\ inbox[k].owner = service.owner =>
                    inbox[k].sequence < T
      BY <2>1 DEF Voided
    <2>3. \A k \in DOMAIN inbox' : k < j => k \in DOMAIN inbox
      BY <1>1, <1>3, OldOrNew
    <2>4. j \in DOMAIN inbox' /\ inbox'[j] = inbox[j]
      BY <1>3
    <2>5. \A k \in DOMAIN inbox' :
            i < k /\ k < j /\ IsSignal(inbox'[k]) /\ inbox'[k].owner = service.owner =>
               inbox'[k].sequence < T
      BY <1>3, <2>2, <2>3
    <2> QED
      BY <1>2, <1>4, <2>2, <2>4, <2>5 DEF Voided
  <1>5. CASE Announces(news, T2)
    <2> DEFINE h == Len(inbox)
    <2>1. PICK j \in DOMAIN news :
            /\ IsVoid(news[j]) /\ news[j].sequence = T2
            /\ \A k \in DOMAIN news : k < j => news[k].sequence < T2
      BY <1>5 DEF Announces
    <2>2. /\ j + h \in DOMAIN inbox' /\ inbox'[j + h] = news[j] /\ j \in Nat /\ j > 0 /\ h \in Nat
      BY <1>1, OldOrNew
    <2>3. news[j].owner = service.owner /\ service.sequence < T2
      BY <1>5 DEF Announces
    <2>4. ASSUME NEW k \in DOMAIN inbox', k < j + h, IsSignal(inbox'[k]),
                 inbox'[k].owner = service.owner
          PROVE  inbox'[k].sequence < T2
      <3>1. CASE k \in DOMAIN inbox
        <4>1. inbox'[k] = inbox[k]
          BY <1>3, <3>1
        <4>2. IsDated(inbox[k]) /\ OwnerOf(inbox[k]) = service.owner
              /\ NumberOf(inbox[k]) = inbox[k].sequence
          BY <2>4, <4>1 DEF IsDated, OwnerOf, NumberOf
        <4>3. Signs(service.owner, inbox[k].sequence, service, Started)
          BY <3>1, <4>2 DEF CopyInv, Signed
        <4>4. inbox[k].sequence <= service.sequence /\ inbox[k].sequence \in Nat
          BY <3>1, <1>1, <4>2, <4>3, NumbersTyped DEF Signs
        <4> QED
          BY <1>1, <2>3, <4>1, <4>4
      <3>2. CASE k \notin DOMAIN inbox
        <4>1. k \in Nat /\ k - h \in DOMAIN news /\ inbox'[k] = news[k - h]
          BY <1>1, <3>2, OldOrNew
        <4>2. k - h < j
          BY <2>2, <2>4, <4>1
        <4> QED
          BY <2>1, <4>1, <4>2
      <3> QED
        BY <3>1, <3>2
    <2>5. i < j + h
      BY <2>2
    <2> HIDE DEF h
    <2> QED
      BY <1>2, <2>1, <2>2, <2>3, <2>4, <2>5 DEF Voided
  <1> QED
    BY <1>2, <1>4, <1>5 DEF Marks

LEMMA SomeMark ==
    ASSUME ReadInv, NEW news, Continues(news), NEW T \in Nat
    PROVE  \E T2 \in Nat : Marks(T, T2, news)
  <1>1. CASE service.state # "READY"
    <2>1. Marks(T, 0, news)
      BY <1>1 DEF Marks
    <2> QED
      BY <2>1
  <1>2. CASE service.state = "READY" /\ content' = content /\ (kind # "profiles" => open' = open)
    <2>1. Marks(T, T, news)
      BY <1>2 DEF Marks
    <2> QED
      BY <2>1
  <1>3. CASE service.state = "READY" /\ \E n \in Nat : Announces(news, n)
    BY <1>3 DEF Marks
  <1> QED
    BY <1>1, <1>2, <1>3 DEF Continues

LEMMA AnswersHoldOn ==
    ASSUME ReadInv, CopyInv, NEW news, Continues(news), NEW T \in Nat, NEW T2 \in Nat,
           Marks(T, T2, news), T2 <= service'.sequence,
           AnswersHold(T, inbox, service, content, Readable, Kept), Kept' = Kept
    PROVE  AnswersHold(T2, inbox', service', content', Readable', Kept')
  <1>0. Sends(news) /\ service.sequence \in Nat /\ service'.sequence \in Nat /\ kind' = kind
    BY NumbersTyped DEF Continues, Sends, BusKnown
  <1> SUFFICES ASSUME NEW i \in DOMAIN inbox', IsAnswered(inbox'[i])
               PROVE  LET a == inbox'[i].answer
                      IN  /\ Shown(a.owner, a.sequence, T2, service') =>
                                Agrees(a, content', Readable')
                          /\ kind # "profiles" /\ Kept' =>
                                Overtaken(inbox', i, a.owner, a.sequence, T2, service')
    BY DEF AnswersHold
  <1> DEFINE a == inbox'[i].answer
  <1>1. CASE i \in DOMAIN inbox
    <2>1. inbox'[i] = inbox[i] /\ i \in Nat /\ i <= Len(inbox)
      BY <1>0, <1>1, OldOrNew
    <2>2. IsAnswered(inbox[i]) /\ a = inbox[i].answer
      BY <2>1
    <2> HIDE DEF a
    <2>3. /\ Shown(a.owner, a.sequence, T, service) => Agrees(a, content, Readable)
          /\ kind # "profiles" /\ Kept => Overtaken(inbox, i, a.owner, a.sequence, T, service)
      BY <1>1, <2>2 DEF AnswersHold
    <2>4. Reads(a.owner, a.sequence, service, Started) /\ a.sequence \in Nat
      BY <1>1, <2>2, NumbersTyped DEF CopyInv, Signed
    <2>5. a.owner # NoOwner \/ a.sequence = 0
      <3>1. IsAnswer(a)
        BY <1>1, <2>2 DEF ReadInv, Queued, IsMessage
      <3> QED
        BY <3>1 DEF IsAnswer
    <2>6. Shown(a.owner, a.sequence, T2, service') => Agrees(a, content', Readable')
      BY <2>3, <2>4, <2>5, ReadingStays DEF Agrees
    <2>7. kind # "profiles" /\ Kept' => Overtaken(inbox', i, a.owner, a.sequence, T2, service')
      BY <2>1, <2>3, <2>4, OvertakenOn
    <2> QED
      BY <2>6, <2>7 DEF a
  <1>2. CASE i \notin DOMAIN inbox
    <2>1. PICK j \in DOMAIN news : inbox'[i] = news[j]
      BY <1>0, <1>2, OldOrNew
    <2>2. Tells(news[j]) /\ UNCHANGED <<service, content, open>>
      BY <2>1 DEF Continues
    <2>3. a.owner # NoOwner => AnswersNow(a)
      BY <2>1, <2>2 DEF Tells
    <2> HIDE DEF a
    <2>4. Readable => Readable'
      BY <1>0, <2>2 DEF Readable
    <2>5. Shown(a.owner, a.sequence, T2, service') => Agrees(a, content', Readable')
      BY <2>2, <2>3, <2>4 DEF Shown, AnswersNow, Agrees
    <2>6. Overtaken(inbox', i, a.owner, a.sequence, T2, service')
      BY <1>0, <2>2, <2>3 DEF Overtaken, AnswersNow
    <2> QED
      BY <2>5, <2>6 DEF a
  <1> QED
    BY <1>1, <1>2

LEMMA ListsHoldOn ==
    ASSUME ReadInv, CopyInv, NEW news, Continues(news), NEW T \in Nat, NEW T2 \in Nat,
           Marks(T, T2, news), ListsHold(T, calls, inbox, service, content, Readable)
    PROVE  ListsHold(T2, calls', inbox', service', content', Readable')
  <1> SUFFICES ASSUME NEW call, HasCall(calls', inbox', call), AsksForDisplay(call),
                      Shown(call.list.owner, call.list.sequence, T2, service')
               PROVE  Agrees(call.list, content', Readable') /\ AllAre(call.states, content')
    BY DEF ListsHold
  <1>1. HasCall(calls, inbox, call)
    BY NoNewCalls DEF Continues
  <1>2. /\ Reads(call.list.owner, call.list.sequence, service, Started)
        /\ call.list.sequence \in Nat /\ call.list.owner # NoOwner
    BY <1>1, NumbersTyped DEF CopyInv, Signed
  <1>3. Shown(call.list.owner, call.list.sequence, T, service) /\ content' = content
        /\ (Readable => Readable')
    BY <1>2, ReadingStays
  <1>4. Agrees(call.list, content, Readable) /\ AllAre(call.states, content)
    BY <1>1, <1>3 DEF ListsHold
  <1> QED
    BY <1>3, <1>4 DEF Agrees

LEMMA CopyHoldsOn ==
    ASSUME ReadInv, CopyInv, NEW news, Continues(news), NEW T \in Nat, NEW T2 \in Nat,
           Marks(T, T2, news), Kept' = Kept,
           CopyHolds(T, inbox, client.copy, service, content, Readable, Kept)
    PROVE  CopyHolds(T2, inbox', client'.copy, service', content', Readable', Kept')
  <1> DEFINE copy == client.copy
  <1>0. Sends(news) /\ client'.copy = copy
    BY DEF Continues, Sends
  <1> SUFFICES ASSUME copy.ready, kind = "profiles" \/ Kept
               PROVE  /\ Shown(copy.owner, copy.sequence, T2, service') =>
                            Readable' /\ copy.content = WholeOf(content')
                      /\ kind # "profiles" =>
                            Overtaken(inbox', 0, copy.owner, copy.sequence, T2, service')
    BY <1>0 DEF CopyHolds
  <1>1. /\ Reads(copy.owner, copy.sequence, service, Started) /\ copy.sequence \in Nat
        /\ copy.owner # NoOwner \/ copy.sequence = 0
    BY NumbersTyped DEF CopyInv, Signed, ReadInv, IsClient, CopyAtCursor
  <1>2. /\ Shown(copy.owner, copy.sequence, T, service) => Readable /\ copy.content = WholeOf(content)
        /\ kind # "profiles" => Overtaken(inbox, 0, copy.owner, copy.sequence, T, service)
    BY DEF CopyHolds
  <1> HIDE DEF copy
  <1>3. Shown(copy.owner, copy.sequence, T2, service') => Readable' /\ copy.content = WholeOf(content')
    BY <1>1, <1>2, ReadingStays
  <1>4. kind # "profiles" => Overtaken(inbox', 0, copy.owner, copy.sequence, T2, service')
    <2>1. 0 \in Nat /\ 0 <= Len(inbox)
      BY <1>0, OldOrNew
    <2> QED
      BY <1>1, <1>2, <2>1, OvertakenOn
  <1> QED
    BY <1>3, <1>4

LEMMA SubjectHoldsOn ==
    ASSUME ReadInv, CopyInv, NEW news, Continues(news), NEW T \in Nat, NEW T2 \in Nat,
           Marks(T, T2, news), T <= service.sequence, SubjectHolds(T, inbox, service)
    PROVE  SubjectHolds(T2, inbox', service')
  <1>0. /\ Sends(news) /\ service.sequence \in Nat
        /\ service.state = "READY" => service'.owner = service.owner
    BY NumbersTyped DEF Continues
  <1> SUFFICES ASSUME kind = "profiles", NEW i \in DOMAIN inbox', IsSignal(inbox'[i]),
                      inbox'[i].owner = service'.owner, inbox'[i].sequence = T2
               PROVE  inbox'[i].subject = "profile"
    BY DEF SubjectHolds
  <1>1. \/ i \in DOMAIN inbox /\ inbox'[i] = inbox[i]
        \/ \E j \in DOMAIN news : inbox'[i] = news[j]
    BY <1>0, OldOrNew
  <1>2. T2 > 0 /\ inbox'[i].owner # NoOwner
    BY <1>0, <1>1 DEF ReadInv, Queued, Sends, IsMessage
  <1>3. service.state = "READY" /\ service'.owner = service.owner
    BY <1>0, <1>2 DEF Marks
  <1>4. ASSUME i \in DOMAIN inbox, inbox'[i] = inbox[i]
        PROVE  inbox[i].sequence <= service.sequence
    <2>1. Signs(inbox[i].owner, inbox[i].sequence, service, Started)
      BY <1>4 DEF CopyInv, Signed, IsDated, OwnerOf, NumberOf
    <2> QED
      BY <1>2, <1>3, <1>4, <2>1 DEF Signs
  <1>5. ASSUME NEW j \in DOMAIN news, inbox'[i] = news[j]
        PROVE  service.sequence < news[j].sequence
    <2>1. IsDated(news[j]) /\ OwnerOf(news[j]) # NoOwner /\ IsSignal(news[j])
          /\ NumberOf(news[j]) = news[j].sequence
      BY <1>2, <1>5 DEF IsDated, OwnerOf, NumberOf
    <2> QED
      BY <2>1, NewNumbers
  <1>6. CASE T2 = T
    <2>1. i \in DOMAIN inbox /\ inbox'[i] = inbox[i]
      BY <1>0, <1>1, <1>5, <1>6
    <2> QED
      BY <1>3, <1>6, <2>1 DEF SubjectHolds
  <1>7. CASE Announces(news, T2)
    <2>1. service.sequence < T2
      BY <1>7 DEF Announces
    <2>2. PICK j \in DOMAIN news : inbox'[i] = news[j]
      BY <1>0, <1>1, <1>4, <2>1
    <2> QED
      BY <1>7, <2>2 DEF Announces
  <1> QED
    BY <1>3, <1>6, <1>7 DEF Marks

LEMMA ContinuingKeepsCopies ==
    ASSUME ReadInv, CopyInv, NEW news, Continues(news) PROVE CopyInv'
  <1>0. /\ Sends(news) /\ client' = client /\ UNCHANGED kind
        /\ service.sequence \in Nat /\ service'.sequence \in Nat
        /\ service.sequence <= service'.sequence
    BY NumbersTyped DEF Continues, Sends, BusKnown
  <1>1. PICK T : UpTo(T, calls, inbox, client, service, content, Readable, Kept)
    BY DEF CopyInv
  <1>2. T \in Nat /\ T <= service.sequence
    BY <1>1 DEF UpTo
  <1>3. PICK T2 \in Nat : Marks(T, T2, news)
    BY <1>2, SomeMark
  <1>4. T2 <= service'.sequence
    BY <1>0, <1>2, <1>3 DEF Marks, Announces
  <1>5. Kept' = Kept
    BY DEF Continues, Kept
  <1>6. UpTo(T2, calls', inbox', client', service', content', Readable', Kept')
    BY <1>1, <1>2, <1>3, <1>4, <1>5, AnswersHoldOn, ListsHoldOn, CopyHoldsOn, SubjectHoldsOn
       DEF UpTo
  <1>7. Signed(calls', inbox', client', service', Started')
    <2>1. GoesFurther(service, Started, service', Started')
      BY ContinuingGoesFurther
    <2>2. ASSUME NEW i \in DOMAIN news, IsDated(news[i])
          PROVE  Signs(OwnerOf(news[i]), NumberOf(news[i]), service', Started')
      <3>1. CASE OwnerOf(news[i]) = NoOwner
        <4>1. NumberOf(news[i]) = 0
          BY <1>0, <2>2, <3>1 DEF Sends, IsMessage, IsDated, OwnerOf, NumberOf, IsAnswer
        <4> QED
          BY <3>1, <4>1 DEF Signs
      <3>2. CASE OwnerOf(news[i]) # NoOwner
        <4>1. /\ OwnerOf(news[i]).uuid = service.owner.uuid
              /\ NumberOf(news[i]) <= service'.sequence /\ service.owner # NoOwner
          BY <2>2, <3>2, NewNumbers
        <4>2. service.owner.uuid \in 1..Started /\ Started' = Started
          <5>1. service.owner.uuid # 0 /\ service.owner.uuid <= Started
            BY <4>1, Owned DEF ReadInv, BusKnown, Alive
          <5> QED
            BY <5>1, NumbersTyped DEF Continues
        <4> QED
          BY <4>1, <4>2 DEF Signs
      <3> QED
        BY <3>1, <3>2
    <2>3. ASSUME NEW i \in DOMAIN news, IsAnswered(news[i])
          PROVE  Reads(news[i].answer.owner, news[i].answer.sequence, service', Started')
      <3>1. IsDated(news[i]) /\ OwnerOf(news[i]) = news[i].answer.owner
            /\ NumberOf(news[i]) = news[i].answer.sequence
        BY <2>3 DEF IsDated, OwnerOf, NumberOf, IsAnswered, IsSignal
      <3>2. news[i].answer.owner # NoOwner =>
              service.state = "READY" /\ news[i].answer.owner = service.owner /\ service' = service
        BY <2>3 DEF Continues, Tells, AnswersNow
      <3> QED
        BY <2>2, <3>1, <3>2 DEF Reads
    <2> QED
      BY <1>0, <2>1, <2>2, <2>3, SignedOn
  <1>8. Ordered(inbox', client', service')
    BY OrderedOn
  <1>9. Bounded(client')
    BY <1>0 DEF CopyInv
  <1> QED
    BY <1>0, <1>6, <1>7, <1>8, <1>9, CopyInvThen

-----------------------------------------------------------------------------
(* Another service, or none.                                               *)

LEMMA NobodyIsMissed ==
    ASSUME ReadInv, NEW news, Turns(news), NEW o, NEW n, Signs(o, n, service, Started)
    PROVE  ~(service'.owner # NoOwner /\ o = service'.owner)
  <1>1. BusKnown' /\ Started \in Nat
    BY NumbersTyped DEF Turns, Sends
  <1>2. service'.owner.uuid = 0 => service'.owner = NoOwner
    BY <1>1 DEF BusKnown, NoService
  <1>3. service'.owner.uuid \in Nat
    <2>1. service'.owner \in Owners
      BY <1>1 DEF BusKnown
    <2> QED
      BY <2>1, StartsTyped DEF Owners
  <1> QED
    BY <1>1, <1>2, <1>3 DEF Signs, Turns

LEMMA TurningKeepsCopies ==
    ASSUME ReadInv, CopyInv, NEW news, Turns(news) PROVE CopyInv'
  <1>0. /\ Sends(news) /\ client' = client /\ UNCHANGED kind
        /\ service.sequence \in Nat /\ service'.sequence = 0
    BY NumbersTyped DEF Turns, Sends
  <1>1. \A i \in DOMAIN news : ~IsDated(news[i]) /\ ~IsAnswered(news[i]) /\ ~IsSignal(news[i])
    BY DEF Turns, IsDated
  <1>2. Signed(calls', inbox', client', service', Started')
    BY <1>0, <1>1, TurningGoesFurther, SignedOn
  <1>3. Signed(calls, inbox, client, service, Started) /\ Ordered(inbox, client, service)
    BY DEF CopyInv
  <1>4. \A i \in DOMAIN inbox' : IsDated(inbox'[i]) => i \in DOMAIN inbox
    BY <1>0, <1>1, OldOrNew
  <1>5. \A i \in DOMAIN inbox' : IsAnswered(inbox'[i]) \/ IsSignal(inbox'[i]) => IsDated(inbox'[i])
    BY DEF IsDated
  <1>6. ASSUME NEW i \in DOMAIN inbox', IsAnswered(inbox'[i])
        PROVE  ~(service'.owner # NoOwner /\ inbox'[i].answer.owner = service'.owner)
    <2>1. i \in DOMAIN inbox /\ inbox'[i] = inbox[i]
      BY <1>0, <1>4, <1>5, <1>6, OldOrNew
    <2>2. Signs(inbox[i].answer.owner, inbox[i].answer.sequence, service, Started)
      BY <1>3, <1>6, <2>1 DEF Signed, Reads
    <2> QED
      BY <2>1, <2>2, NobodyIsMissed
  <1>7. ASSUME NEW call, HasCall(calls', inbox', call), AsksForDisplay(call)
        PROVE  ~(service'.owner # NoOwner /\ call.list.owner = service'.owner)
    <2>1. HasCall(calls, inbox, call)
      BY <1>0, <1>7, NoNewCalls
    <2>2. Signs(call.list.owner, call.list.sequence, service, Started)
      BY <1>3, <1>7, <2>1 DEF Signed, Reads
    <2> QED
      BY <2>2, NobodyIsMissed
  <1>8. client.copy.ready => ~(service'.owner # NoOwner /\ client.copy.owner = service'.owner)
    BY <1>3, NobodyIsMissed DEF Signed, Reads
  <1>9. \A i \in DOMAIN inbox' : IsSignal(inbox'[i]) => inbox'[i].sequence # 0
    BY <1>0, <1>4, <1>5, OldOrNew DEF ReadInv, Queued, IsMessage
  <1>10. UpTo(0, calls', inbox', client', service', content', Readable', Kept')
    BY <1>0, <1>6, <1>7, <1>8, <1>9
       DEF UpTo, AnswersHold, ListsHold, CopyHolds, SubjectHolds, Shown, Overtaken
  <1>11. \E k \in DOMAIN inbox' : k \notin DOMAIN inbox /\ inbox'[k].kind = "owner"
    <2>1. PICK j \in DOMAIN news : news[j].kind = "owner"
      BY DEF Turns
    <2>2. /\ j + Len(inbox) \in DOMAIN inbox' /\ inbox'[j + Len(inbox)] = news[j]
          /\ Len(inbox) \in Nat /\ j \in 1..Len(news) /\ Len(news) \in Nat
          /\ DOMAIN inbox = 1..Len(inbox)
      BY <1>0, OldOrNew
    <2>3. j + Len(inbox) \notin DOMAIN inbox
      BY <2>2
    <2> QED
      BY <2>1, <2>2, <2>3
  <1>12. ASSUME NEW i \in Nat, i <= Len(inbox), NEW o, NEW n, Follows(inbox, i, o, n, service)
         PROVE  Follows(inbox', i, o, n, service')
    <2>1. ASSUME NEW j \in DOMAIN inbox', i < j, IsDated(inbox'[j]), OwnerOf(inbox'[j]) # NoOwner,
                 Steady(inbox', i, j)
          PROVE  OwnerOf(inbox'[j]).uuid = o.uuid /\ n <= NumberOf(inbox'[j])
      <3>1. j \in DOMAIN inbox /\ inbox'[j] = inbox[j]
        BY <1>0, <1>4, <2>1, OldOrNew
      <3>2. Steady(inbox, i, j)
        BY <1>0, <2>1, OldOrNew DEF Steady
      <3> QED
        BY <1>12, <2>1, <3>1, <3>2 DEF Follows
    <2>2. ~ \A k \in DOMAIN inbox' : i < k => inbox'[k].kind # "owner"
      <3>1. PICK k \in DOMAIN inbox' : k \notin DOMAIN inbox /\ inbox'[k].kind = "owner"
        BY <1>11
      <3>2. k > Len(inbox) /\ k \in Nat /\ Len(inbox) \in Nat
        BY <1>0, <3>1, OldOrNew
      <3> QED
        BY <1>12, <3>1, <3>2
    <2> QED
      BY <2>1, <2>2 DEF Follows
  <1>13. Ordered(inbox', client', service')
    <2>1. ASSUME NEW i \in DOMAIN inbox', IsDated(inbox'[i]), OwnerOf(inbox'[i]) # NoOwner
          PROVE  Follows(inbox', i, OwnerOf(inbox'[i]), NumberOf(inbox'[i]), service')
      <3>1. i \in DOMAIN inbox /\ inbox'[i] = inbox[i] /\ i \in Nat /\ i <= Len(inbox)
        BY <1>0, <1>4, <2>1, OldOrNew
      <3>2. Follows(inbox, i, OwnerOf(inbox[i]), NumberOf(inbox[i]), service)
        BY <1>3, <2>1, <3>1 DEF Ordered
      <3> QED
        BY <1>12, <3>1, <3>2
    <2>2. ASSUME client.eventOwner # NoOwner
          PROVE  Follows(inbox', 0, client.eventOwner, client.lastObserved, service')
      <3>1. Follows(inbox, 0, client.eventOwner, client.lastObserved, service)
        BY <1>3, <2>2 DEF Ordered
      <3>2. 0 \in Nat /\ 0 <= Len(inbox)
        BY <1>0, OldOrNew
      <3> QED
        BY <1>12, <3>1, <3>2
    <2> QED
      BY <1>0, <2>1, <2>2 DEF Ordered
  <1>14. Bounded(client')
    BY <1>0 DEF CopyInv
  <1> QED
    BY <1>0, <1>2, <1>10, <1>13, <1>14, CopyInvThen

-----------------------------------------------------------------------------
(* Messages that go.                                                       *)

\* What follows the message h among ms follows i among ms2, where the k-th is
\* the at[k]-th of ms, and none that is missing changed the owner.
LEMMA FollowsThrough ==
    ASSUME NEW ms, NEW ms2, NEW at, NEW i, NEW h, NEW o, NEW n, NEW s,
           \A k \in DOMAIN ms2 : at[k] \in DOMAIN ms /\ ms2[k] = ms[at[k]],
           \A j \in DOMAIN ms2 : i < j => h < at[j],
           \A j \in DOMAIN ms2, k \in DOMAIN ms :
                i < j /\ h < k /\ k < at[j] /\ ms[k].kind = "owner" =>
                    \E l \in DOMAIN ms2 : i < l /\ l < j /\ ms2[l].kind = "owner",
           \A k \in DOMAIN ms :
                h < k /\ ms[k].kind = "owner" =>
                    \E l \in DOMAIN ms2 : i < l /\ ms2[l].kind = "owner",
           Follows(ms, h, o, n, s)
    PROVE  Follows(ms2, i, o, n, s)
  <1>1. ASSUME NEW j \in DOMAIN ms2, i < j, IsDated(ms2[j]), OwnerOf(ms2[j]) # NoOwner,
               Steady(ms2, i, j)
        PROVE  OwnerOf(ms2[j]).uuid = o.uuid /\ n <= NumberOf(ms2[j])
    <2>1. Steady(ms, h, at[j])
      BY <1>1 DEF Steady
    <2> QED
      BY <1>1, <2>1 DEF Follows
  <1>2. ASSUME \A k \in DOMAIN ms2 : i < k => ms2[k].kind # "owner"
        PROVE  s.owner.uuid = o.uuid /\ n <= s.sequence
    <2>1. \A k \in DOMAIN ms : h < k => ms[k].kind # "owner"
      BY <1>2
    <2> QED
      BY <2>1 DEF Follows
  <1> QED
    BY <1>1, <1>2 DEF Follows

\* Where the messages were before one was lost.
LEMMA LossLeaves ==
    ASSUME ReadInv, NEW x, Loses(x),
           NEW at, at = [k \in 0..Len(inbox) |-> IF k < x THEN k ELSE k + 1]
    PROVE  /\ x \in Nat /\ x > 0 /\ x <= Len(inbox) /\ Len(inbox) \in Nat
           /\ DOMAIN inbox = 1..Len(inbox) /\ DOMAIN inbox' = 1..(Len(inbox) - 1)
           /\ \A k \in 0..(Len(inbox) - 1) : at[k] = IF k < x THEN k ELSE k + 1
           /\ \A k \in DOMAIN inbox' : at[k] \in DOMAIN inbox /\ inbox'[k] = inbox[at[k]]
  <1> DEFINE h == Len(inbox)
             left == SubSeq(inbox, 1, x - 1) \o SubSeq(inbox, x + 1, Len(inbox))
  <1>1. IsSeq(inbox) /\ x \in DOMAIN inbox /\ inbox' = left
    BY DEF ReadInv, Queued, Loses
  <1>2. h \in Nat /\ DOMAIN inbox = 1..h
    BY <1>1, SeqFacts
  <1>3. /\ DOMAIN left = 1..(h - 1)
        /\ \A k \in DOMAIN left : left[k] = inbox[IF k < x THEN k ELSE k + 1]
    BY <1>1, SeqWithout
  <1> HIDE DEF h, left
  <1>4. x \in Nat /\ x > 0 /\ x <= h
    BY <1>1, <1>2
  <1>5. \A k \in 0..(h - 1) : at[k] = IF k < x THEN k ELSE k + 1
    BY <1>2 DEF h
  <1>6. \A k \in DOMAIN left : at[k] \in DOMAIN inbox /\ left[k] = inbox[at[k]]
    <2> SUFFICES ASSUME NEW k \in DOMAIN left PROVE at[k] \in DOMAIN inbox /\ left[k] = inbox[at[k]]
      OBVIOUS
    <2>1. k \in 1..(h - 1)
      BY <1>3
    <2>2. at[k] = IF k < x THEN k ELSE k + 1
      BY <1>2, <1>5, <2>1
    <2>3. (IF k < x THEN k ELSE k + 1) \in 1..h
      BY ONLY <1>2, <1>4, <2>1
    <2> QED
      BY <1>2, <1>3, <2>2, <2>3
  <1> QED
    BY <1>1, <1>2, <1>3, <1>4, <1>5, <1>6 DEF h

LEMMA LossKeepsOrder ==
    ASSUME ReadInv, NEW x, Loses(x), NEW i \in Nat, i < Len(inbox), NEW o, NEW n,
           Follows(inbox, IF i < x THEN i ELSE i + 1, o, n, service)
    PROVE  Follows(inbox', i, o, n, service)
  <1> DEFINE at == [k \in 0..Len(inbox) |-> IF k < x THEN k ELSE k + 1]
             h == IF i < x THEN i ELSE i + 1
             len == Len(inbox)
  <1>1. /\ x \in Nat /\ x > 0 /\ x <= len /\ len \in Nat
        /\ DOMAIN inbox = 1..len /\ DOMAIN inbox' = 1..(len - 1)
        /\ \A k \in 0..(len - 1) : at[k] = IF k < x THEN k ELSE k + 1
        /\ \A k \in DOMAIN inbox' : at[k] \in DOMAIN inbox /\ inbox'[k] = inbox[at[k]]
    BY LossLeaves
  <1>2. inbox[x].kind # "owner"
    BY DEF Loses, IsSignal
  <1> HIDE DEF at
  <1>3. \A k \in DOMAIN inbox' : k \in Nat /\ k > 0 /\ k < len /\ at[k] = IF k < x THEN k ELSE k + 1
    BY <1>1
  <1>4. \A j \in DOMAIN inbox' : i < j => h < at[j]
    BY <1>1, <1>3
  <1>5. ASSUME NEW k \in DOMAIN inbox, inbox[k].kind = "owner"
        PROVE  \E l \in DOMAIN inbox' : at[l] = k /\ (h < k => i < l)
                                        /\ \A j \in DOMAIN inbox' : k < at[j] => l < j
    <2>1. k \in Nat /\ k > 0 /\ k <= len /\ k # x
      BY <1>1, <1>2, <1>5
    <2>2. CASE k < x
      <3>1. k \in DOMAIN inbox' /\ at[k] = k
        BY <1>1, <2>1, <2>2
      <3>2. (h < k => i < k) /\ \A j \in DOMAIN inbox' : k < at[j] => k < j
        BY <1>1, <1>3, <2>1, <2>2
      <3> QED
        BY <3>1, <3>2
    <2>3. CASE k > x
      <3>1. k - 1 \in DOMAIN inbox' /\ at[k - 1] = k
        BY <1>1, <2>1, <2>3
      <3>2. (h < k => i < k - 1) /\ \A j \in DOMAIN inbox' : k < at[j] => k - 1 < j
        BY <1>1, <1>3, <2>1, <2>3
      <3> QED
        BY <3>1, <3>2
    <2> QED
      BY <1>1, <2>1, <2>2, <2>3
  <1>6. \A j \in DOMAIN inbox', k \in DOMAIN inbox :
             i < j /\ h < k /\ k < at[j] /\ inbox[k].kind = "owner" =>
                 \E l \in DOMAIN inbox' : i < l /\ l < j /\ inbox'[l].kind = "owner"
    BY <1>1, <1>5
  <1>7. \A k \in DOMAIN inbox :
             h < k /\ inbox[k].kind = "owner" =>
                 \E l \in DOMAIN inbox' : i < l /\ inbox'[l].kind = "owner"
    BY <1>1, <1>5
  <1>8. \A k \in DOMAIN inbox' : at[k] \in DOMAIN inbox /\ inbox'[k] = inbox[at[k]]
    BY <1>1
  <1>9. Follows(inbox, h, o, n, service)
    OBVIOUS
  <1> HIDE DEF h
  <1> QED
    BY <1>4, <1>6, <1>7, <1>8, <1>9, FollowsThrough

LEMMA LossKeepsCopies ==
    ASSUME ReadInv, CopyInv, NEW x, Loses(x) PROVE CopyInv'
  <1> DEFINE at == [k \in 0..Len(inbox) |-> IF k < x THEN k ELSE k + 1]
             len == Len(inbox)
  <1>0. /\ service' = service /\ calls' = calls /\ UNCHANGED kind /\ client' = client
        /\ content' = content /\ open' = open /\ Started' = Started /\ ~Kept'
        /\ (Readable' <=> Readable) /\ service.sequence \in Nat
    BY NumbersTyped DEF Loses, Kept, Readable
  <1>1. /\ x \in Nat /\ x > 0 /\ x <= len /\ len \in Nat
        /\ DOMAIN inbox = 1..len /\ DOMAIN inbox' = 1..(len - 1)
        /\ \A k \in 0..(len - 1) : at[k] = IF k < x THEN k ELSE k + 1
        /\ \A k \in DOMAIN inbox' : at[k] \in DOMAIN inbox /\ inbox'[k] = inbox[at[k]]
    BY LossLeaves
  <1> HIDE DEF at
  <1>2. \A call : HasCall(calls', inbox', call) => HasCall(calls, inbox, call)
    BY <1>0, <1>1 DEF HasCall
  <1>3. Signed(calls, inbox, client, service, Started) /\ Ordered(inbox, client, service)
        /\ Bounded(client)
    BY DEF CopyInv
  <1>4. Signed(calls', inbox', client', service', Started')
    BY <1>0, <1>1, <1>2, <1>3 DEF Signed
  <1>5. Ordered(inbox', client', service')
    <2>1. ASSUME NEW i \in DOMAIN inbox', IsDated(inbox'[i]), OwnerOf(inbox'[i]) # NoOwner
          PROVE  Follows(inbox', i, OwnerOf(inbox'[i]), NumberOf(inbox'[i]), service)
      <3> DEFINE o == OwnerOf(inbox'[i])
                 n == NumberOf(inbox'[i])
                 h == IF i < x THEN i ELSE i + 1
      <3>1. i \in Nat /\ i < len /\ at[i] = h /\ h \in DOMAIN inbox /\ inbox'[i] = inbox[h]
        BY <1>1
      <3>2. Follows(inbox, h, o, n, service)
        BY <1>3, <2>1, <3>1 DEF Ordered
      <3> HIDE DEF o, n
      <3>3. Follows(inbox', i, o, n, service)
        BY <3>1, <3>2, LossKeepsOrder
      <3> QED
        BY <3>3 DEF o, n
    <2>2. ASSUME client.eventOwner # NoOwner
          PROVE  Follows(inbox', 0, client.eventOwner, client.lastObserved, service)
      <3>1. Follows(inbox, 0, client.eventOwner, client.lastObserved, service)
        BY <1>3, <2>2 DEF Ordered
      <3>2. 0 \in Nat /\ 0 < len /\ (IF 0 < x THEN 0 ELSE 0 + 1) = 0
        BY <1>1
      <3> QED
        BY <3>1, <3>2, LossKeepsOrder
    <2> QED
      BY <1>0, <2>1, <2>2 DEF Ordered
  <1>6. PICK T : UpTo(T, calls, inbox, client, service, content, Readable, Kept)
    BY DEF CopyInv
  <1>7. UpTo(T, calls', inbox', client', service', content', Readable', Kept')
    <2>1. AnswersHold(T, inbox', service', content', Readable', Kept')
      BY <1>0, <1>1, <1>6 DEF UpTo, AnswersHold, Agrees
    <2>2. ListsHold(T, calls', inbox', service', content', Readable')
      BY <1>0, <1>2, <1>6 DEF UpTo, ListsHold, Agrees
    <2>3. CopyHolds(T, inbox', client'.copy, service', content', Readable', Kept')
      BY <1>0, <1>6 DEF UpTo, CopyHolds
    <2>4. SubjectHolds(T, inbox', service')
      BY <1>0, <1>1, <1>6 DEF UpTo, SubjectHolds
    <2> QED
      BY <1>0, <1>6, <2>1, <2>2, <2>3, <2>4 DEF UpTo
  <1> QED
    BY <1>0, <1>3, <1>4, <1>5, <1>7, CopyInvThen

-----------------------------------------------------------------------------
(* The client takes the first message.                                     *)

LEMMA WhatIsLeft ==
    ASSUME ReadInv, NEW m, NEW r, Consumes(m, r)
    PROVE  /\ 1 \in DOMAIN inbox /\ m = inbox[1]
           /\ \A i \in DOMAIN inbox : i \in Nat /\ i > 0
           /\ \A i \in DOMAIN inbox' :
                i \in Nat /\ i > 0 /\ i + 1 \in DOMAIN inbox /\ inbox'[i] = inbox[i + 1]
           /\ \A i \in DOMAIN inbox : i # 1 => i - 1 \in DOMAIN inbox' /\ inbox'[i - 1] = inbox[i]
           /\ UNCHANGED <<service, kind, content, open>> /\ Started' = Started
           /\ Kept' = Kept /\ (Readable' <=> Readable)
           /\ client' = r.state /\ Handled(client, m, r) /\ IsClient(client')
  <1> DEFINE left == Tail(inbox)
  <1>1. inbox' = left /\ inbox # <<>> /\ IsSeq(inbox)
    BY DEF Consumes, ReadInv, Queued
  <1>2. /\ 1 \in DOMAIN inbox /\ DOMAIN left = 1..(Len(inbox) - 1)
        /\ \A i \in DOMAIN left : i + 1 \in DOMAIN inbox /\ left[i] = inbox[i + 1]
    BY <1>1, SeqTail
  <1>3. Len(inbox) \in Nat /\ DOMAIN inbox = 1..Len(inbox)
    BY <1>1, SeqFacts
  <1> HIDE DEF left
  <1>4. \A i \in DOMAIN left : i \in Nat /\ i > 0
    BY <1>2, <1>3
  <1>5. ASSUME NEW i \in DOMAIN inbox, i # 1 PROVE i - 1 \in DOMAIN left /\ left[i - 1] = inbox[i]
    <2>1. i - 1 \in DOMAIN left /\ (i - 1) + 1 = i
      BY <1>2, <1>3, <1>5
    <2> QED
      BY <1>2, <2>1
  <1>6. \A i \in DOMAIN inbox : i \in Nat /\ i > 0
    BY <1>3
  <1>7. /\ UNCHANGED <<service, kind, content, open>> /\ spent' = spent /\ m = inbox[1]
        /\ client' = r.state /\ Handled(client, m, r) /\ IsClient(r.state)
    BY DEF Consumes, Handled
  <1>8. Started' = Started /\ Kept' = Kept /\ (Readable' <=> Readable)
    BY <1>7 DEF Started, Kept, Readable
  <1> QED
    BY <1>1, <1>2, <1>4, <1>5, <1>6, <1>7, <1>8

\* The first message is no earlier than what the client has heard.
LEMMA FirstIsLater ==
    ASSUME ReadInv, CopyInv, NEW m, NEW r, Consumes(m, r) PROVE Later(client, m)
  <1> SUFFICES ASSUME IsDated(m), OwnerOf(m) # NoOwner
               PROVE  client.lastObserved <= NumberOf(m)
    BY DEF Later
  <1>1. 1 \in DOMAIN inbox /\ m = inbox[1] /\ \A i \in DOMAIN inbox : i \in Nat /\ i > 0
    BY WhatIsLeft
  <1>2. NumberOf(m) \in Nat
    BY <1>1, NumbersTyped
  <1>3. CASE client.eventOwner = NoOwner
    BY <1>2, <1>3 DEF ReadInv, IsClient
  <1>4. CASE client.eventOwner # NoOwner
    <2>1. Follows(inbox, 0, client.eventOwner, client.lastObserved, service)
      BY <1>4 DEF CopyInv, Ordered
    <2>2. Steady(inbox, 0, 1)
      BY <1>1 DEF Steady
    <2> QED
      BY <1>1, <2>1, <2>2 DEF Follows
  <1> QED
    BY <1>3, <1>4

LEMMA CursorAndCopyMove ==
    ASSUME ReadInv, CopyInv, NEW m, NEW r, Consumes(m, r)
    PROVE  CursorMoves(client, m, client') /\ CopyMoves(client, m, client') /\ Bounded(client')
  <1>1. Later(client, m) /\ Bounded(client)
    BY FirstIsLater DEF CopyInv
  <1> QED
    BY <1>1, WhatIsLeft DEF Handled

\* A call that the client makes is the only one that is new.
LEMMA CallsKnown ==
    ASSUME ReadInv, NEW m, NEW r, Consumes(m, r), NEW call, HasCall(calls', inbox', call)
    PROVE  HasCall(calls, inbox, call) \/ r.calls = <<call>>
  <1>1. CASE \E i \in DOMAIN inbox' : inbox'[i].kind = "reply" /\ call = inbox'[i].call
    BY <1>1, WhatIsLeft DEF HasCall
  <1>2. CASE \E k \in DOMAIN calls' : call = calls'[k].call
    <2>1. CASE calls' = calls
      BY <1>2, <2>1 DEF HasCall
    <2>2. CASE \E new : r.calls = <<new>> /\ calls' = Append(calls, Awaited(new))
      <3>1. PICK new : r.calls = <<new>> /\ calls' = Append(calls, Awaited(new))
        BY <2>2
      <3> DEFINE c == Awaited(new)
                 all == Append(calls, c)
      <3>2. c.call = new
        BY DEF Awaited
      <3> HIDE DEF c
      <3>3. /\ Len(calls) \in Nat /\ DOMAIN calls = 1..Len(calls)
            /\ DOMAIN all = 1..(Len(calls) + 1)
            /\ \A i \in DOMAIN calls : all[i] = calls[i]
            /\ all[Len(calls) + 1] = c
        <4>1. IsSeq(calls)
          BY DEF ReadInv, Queued
        <4> QED
          BY <4>1, SeqAppend, SeqFacts
      <3> HIDE DEF all
      <3>4. \A k \in DOMAIN all : k \in DOMAIN calls \/ k = Len(calls) + 1
        BY <3>3
      <3>5. PICK k \in DOMAIN all : call = all[k].call
        BY <1>2, <3>1 DEF all, c
      <3>6. CASE k \in DOMAIN calls
        BY <3>3, <3>5, <3>6 DEF HasCall
      <3>7. CASE k = Len(calls) + 1
        BY <3>1, <3>2, <3>3, <3>5, <3>7
      <3> QED
        BY <3>4, <3>6, <3>7
    <2> QED
      BY <2>1, <2>2, CallsMade
  <1> QED
    BY <1>1, <1>2 DEF HasCall

\* What the client asks next it asks about what the reply is about.
LEMMA NextDisplay ==
    ASSUME ReadInv, NEW m, NEW r, Consumes(m, r), NEW call, r.calls = <<call>>,
           AsksForDisplay(call)
    PROVE  /\ kind = "display" /\ SameMoment(m) /\ IsAnswered(m)
           /\ call.list = ListOf(m) /\ call.states = StatesOf(m)
           /\ AsksForDisplay(m.call) => HasCall(calls, inbox, m.call)
  <1>1. ReadsOn(m, r)
    BY WhatIsLeft DEF Handled
  <1>2. /\ kind = "display" /\ SameMoment(m) /\ IsAnswered(m)
        /\ call.list = ListOf(m) /\ call.states = StatesOf(m)
    BY <1>1 DEF ReadsOn, SameMoment
  <1>3. HasCall(calls, inbox, m.call)
    BY <1>2, WhatIsLeft DEF HasCall, IsAnswered
  <1> QED
    BY <1>2, <1>3

LEMMA SignedStill ==
    ASSUME ReadInv, CopyInv, NEW m, NEW r, Consumes(m, r)
    PROVE  Signed(calls', inbox', client', service', Started')
  <1> DEFINE s == service
             b == Started
             c == client
             d == client'
  <1>0. /\ Signed(calls, inbox, c, s, b) /\ 1 \in DOMAIN inbox /\ m = inbox[1]
        /\ service' = s /\ Started' = b /\ IsClient(d)
        /\ CursorMoves(c, m, d) /\ CopyMoves(c, m, d)
    BY WhatIsLeft, CursorAndCopyMove DEF CopyInv
  <1>1. /\ \A i \in DOMAIN inbox' : i + 1 \in DOMAIN inbox /\ inbox'[i] = inbox[i + 1]
    BY WhatIsLeft
  <1> HIDE DEF s, b, c, d
  <1>2. /\ \A i \in DOMAIN inbox' : IsDated(inbox'[i]) =>
                Signs(OwnerOf(inbox'[i]), NumberOf(inbox'[i]), s, b)
        /\ \A i \in DOMAIN inbox' : IsAnswered(inbox'[i]) =>
                Reads(inbox'[i].answer.owner, inbox'[i].answer.sequence, s, b)
    BY <1>0, <1>1 DEF Signed
  <1>3. /\ IsDated(m) => Signs(OwnerOf(m), NumberOf(m), s, b)
        /\ IsAnswered(m) => Reads(m.answer.owner, m.answer.sequence, s, b)
        /\ c.copy.ready => Reads(c.copy.owner, c.copy.sequence, s, b)
        /\ Signs(c.eventOwner, c.lastObserved, s, b)
    BY <1>0 DEF Signed
  <1>4. ASSUME NEW call, HasCall(calls', inbox', call), AsksForDisplay(call)
        PROVE  Reads(call.list.owner, call.list.sequence, s, b)
    <2>1. CASE HasCall(calls, inbox, call)
      BY <1>0, <1>4, <2>1 DEF Signed
    <2>2. CASE r.calls = <<call>>
      <3>1. /\ IsAnswered(m) /\ call.list = ListOf(m)
            /\ AsksForDisplay(m.call) => HasCall(calls, inbox, m.call)
        BY <1>4, <2>2, NextDisplay
      <3>2. CASE AsksForDisplay(m.call)
        BY <1>0, <3>1, <3>2 DEF Signed, ListOf
      <3>3. CASE ~AsksForDisplay(m.call)
        BY <1>3, <3>1, <3>3 DEF ListOf
      <3> QED
        BY <3>2, <3>3
    <2> QED
      BY <1>4, <2>1, <2>2, CallsKnown
  <1>5. Signs(d.eventOwner, d.lastObserved, s, b)
    <2>1. CASE m.kind = "owner"
      BY <1>0, <2>1 DEF CursorMoves, IsClient, Signs
    <2>2. CASE m.kind # "owner"
      BY <1>0, <1>3, <2>2 DEF CursorMoves
    <2> QED
      BY <2>1, <2>2
  <1>6. ASSUME d.copy.ready PROVE Reads(d.copy.owner, d.copy.sequence, s, b)
    <2>1. CASE CopyStays(c, m, d)
      BY <1>3, <2>1 DEF CopyStays
    <2>2. CASE CopyAdvances(c, m, d)
      <3>1. IsDated(m) /\ OwnerOf(m) = m.owner /\ NumberOf(m) = m.sequence
        BY <2>2 DEF CopyAdvances, IsDated, OwnerOf, NumberOf
      <3> QED
        BY <1>3, <2>2, <3>1 DEF CopyAdvances, Reads
    <2>3. CASE CopyIsTaken(c, m, d)
      BY <1>3, <2>3 DEF CopyIsTaken
    <2> QED
      BY <1>0, <1>6, <2>1, <2>2, <2>3 DEF CopyMoves
  <1> QED
    BY <1>0, <1>2, <1>4, <1>5, <1>6 DEF Signed, d

\* What followed a message follows it still when the first is gone, and what
\* followed the first follows the client's cursor.
LEMMA FollowsStill ==
    ASSUME ReadInv, NEW m, NEW r, Consumes(m, r), NEW h \in Nat, NEW i \in Nat,
           h = i + 1 \/ (h = 0 /\ i = 0 /\ m.kind # "owner"),
           NEW o, NEW n, Follows(inbox, h, o, n, service)
    PROVE  Follows(inbox', i, o, n, service)
  <1>1. /\ m = inbox[1] /\ \A k \in DOMAIN inbox : k \in Nat /\ k > 0
        /\ \A k \in DOMAIN inbox' :
             k \in Nat /\ k > 0 /\ k + 1 \in DOMAIN inbox /\ inbox'[k] = inbox[k + 1]
        /\ \A k \in DOMAIN inbox : k # 1 => k - 1 \in DOMAIN inbox' /\ inbox'[k - 1] = inbox[k]
    BY WhatIsLeft
  <1> DEFINE at == [k \in DOMAIN inbox' |-> k + 1]
  <1>2. \A k \in DOMAIN inbox' : at[k] = k + 1
    OBVIOUS
  <1> HIDE DEF at
  <1>3. \A k \in DOMAIN inbox' : at[k] \in DOMAIN inbox /\ inbox'[k] = inbox[at[k]]
    BY <1>1, <1>2
  <1>4. \A j \in DOMAIN inbox' : i < j => h < at[j]
    BY <1>1, <1>2
  <1>5. ASSUME NEW k \in DOMAIN inbox, h < k, inbox[k].kind = "owner"
        PROVE  /\ k - 1 \in DOMAIN inbox' /\ i < k - 1 /\ inbox'[k - 1].kind = "owner"
               /\ \A j \in DOMAIN inbox' : k < at[j] => k - 1 < j
    <2>1. k # 1 /\ k \in Nat
      BY <1>1, <1>5
    <2>2. i < k - 1
      BY <1>1, <1>5, <2>1
    <2> QED
      BY <1>1, <1>2, <1>5, <2>1, <2>2
  <1>6. \A j \in DOMAIN inbox', k \in DOMAIN inbox :
             i < j /\ h < k /\ k < at[j] /\ inbox[k].kind = "owner" =>
                 \E l \in DOMAIN inbox' : i < l /\ l < j /\ inbox'[l].kind = "owner"
    BY <1>5
  <1>7. \A k \in DOMAIN inbox :
             h < k /\ inbox[k].kind = "owner" =>
                 \E l \in DOMAIN inbox' : i < l /\ inbox'[l].kind = "owner"
    BY <1>5
  <1> QED
    BY <1>3, <1>4, <1>6, <1>7, FollowsThrough

LEMMA OrderedStill ==
    ASSUME ReadInv, CopyInv, NEW m, NEW r, Consumes(m, r)
    PROVE  Ordered(inbox', client', service')
  <1>0. /\ 1 \in DOMAIN inbox /\ m = inbox[1] /\ service' = service
        /\ CursorMoves(client, m, client') /\ Ordered(inbox, client, service)
    BY WhatIsLeft, CursorAndCopyMove DEF CopyInv
  <1>1. ASSUME NEW i \in DOMAIN inbox', IsDated(inbox'[i]), OwnerOf(inbox'[i]) # NoOwner
        PROVE  Follows(inbox', i, OwnerOf(inbox'[i]), NumberOf(inbox'[i]), service)
    <2>1. i \in Nat /\ i + 1 \in Nat /\ i + 1 \in DOMAIN inbox /\ inbox'[i] = inbox[i + 1]
      BY WhatIsLeft
    <2>2. Follows(inbox, i + 1, OwnerOf(inbox[i + 1]), NumberOf(inbox[i + 1]), service)
      BY <1>0, <1>1, <2>1 DEF Ordered
    <2> DEFINE o == OwnerOf(inbox[i + 1])
               n == NumberOf(inbox[i + 1])
               h == i + 1
    <2>3. Follows(inbox, h, o, n, service) /\ h \in Nat /\ h = i + 1
      BY <2>1, <2>2
    <2> HIDE DEF o, n, h
    <2>4. Follows(inbox', i, o, n, service)
      BY <2>1, <2>3, FollowsStill
    <2> QED
      BY <2>1, <2>4 DEF o, n
  <1>2. ASSUME client'.eventOwner # NoOwner
        PROVE  Follows(inbox', 0, client'.eventOwner, client'.lastObserved, service)
    <2> DEFINE o == client'.eventOwner
               n == client'.lastObserved
    <2>1. m.kind # "owner"
      BY <1>0, <1>2 DEF CursorMoves
    <2>2. Follows(inbox, 0, o, n, service) \/ Follows(inbox, 1, o, n, service)
      <3>1. CASE o = client.eventOwner /\ n = client.lastObserved
        BY <1>0, <1>2, <3>1 DEF Ordered
      <3>2. CASE IsDated(m) /\ o = OwnerOf(m) /\ n = NumberOf(m)
        BY <1>0, <1>2, <3>2 DEF Ordered
      <3> QED
        BY <1>0, <2>1, <3>1, <3>2 DEF CursorMoves
    <2> HIDE DEF o, n
    <2>3. 0 \in Nat /\ 1 \in Nat /\ 1 = 0 + 1
      OBVIOUS
    <2>4. Follows(inbox', 0, o, n, service)
      BY <2>1, <2>2, <2>3, FollowsStill
    <2> QED
      BY <2>4 DEF o, n
  <1> QED
    BY <1>0, <1>1, <1>2 DEF Ordered

\* A void that is still to come after the first message is taken.
LEMMA VoidedStill ==
    ASSUME ReadInv, NEW m, NEW r, Consumes(m, r), NEW h \in Nat, NEW i \in Nat, NEW T, NEW s,
           \/ h = i + 1
           \/ h = 0 /\ i = 0 /\ ~(IsVoid(m) /\ m.owner = s.owner /\ m.sequence = T),
           Voided(inbox, h, T, s)
    PROVE  Voided(inbox', i, T, s)
  <1>1. /\ m = inbox[1] /\ \A k \in DOMAIN inbox : k \in Nat /\ k > 0
        /\ \A k \in DOMAIN inbox' :
             k \in Nat /\ k > 0 /\ k + 1 \in DOMAIN inbox /\ inbox'[k] = inbox[k + 1]
        /\ \A k \in DOMAIN inbox : k # 1 => k - 1 \in DOMAIN inbox' /\ inbox'[k - 1] = inbox[k]
    BY WhatIsLeft
  <1>2. PICK j \in DOMAIN inbox :
          /\ h < j /\ IsVoid(inbox[j]) /\ inbox[j].owner = s.owner /\ inbox[j].sequence = T
          /\ \A k \in DOMAIN inbox :
               h < k /\ k < j /\ IsSignal(inbox[k]) /\ inbox[k].owner = s.owner =>
                  inbox[k].sequence < T
    BY DEF Voided
  <1>3. j # 1 /\ j \in Nat
    BY <1>1, <1>2
  <1>4. i < j - 1
    BY <1>1, <1>2, <1>3
  <1>5. j - 1 \in DOMAIN inbox' /\ inbox'[j - 1] = inbox[j]
    BY <1>1, <1>3
  <1>6. ASSUME NEW k \in DOMAIN inbox', i < k, k < j - 1, IsSignal(inbox'[k]),
               inbox'[k].owner = s.owner
        PROVE  inbox'[k].sequence < T
    <2>1. k + 1 \in DOMAIN inbox /\ inbox'[k] = inbox[k + 1] /\ h < k + 1 /\ k + 1 < j
      BY <1>1, <1>3, <1>6
    <2> QED
      BY <1>2, <1>6, <2>1
  <1> QED
    BY <1>2, <1>4, <1>5, <1>6 DEF Voided

LEMMA AnswersHoldStill ==
    ASSUME ReadInv, NEW m, NEW r, Consumes(m, r), NEW T, NEW s, NEW x, NEW can, NEW kept,
           AnswersHold(T, inbox, s, x, can, kept)
    PROVE  AnswersHold(T, inbox', s, x, can, kept)
  <1> SUFFICES ASSUME NEW i \in DOMAIN inbox', IsAnswered(inbox'[i])
               PROVE  /\ Shown(inbox'[i].answer.owner, inbox'[i].answer.sequence, T, s) =>
                            Agrees(inbox'[i].answer, x, can)
                      /\ kind # "profiles" /\ kept =>
                            Overtaken(inbox', i, inbox'[i].answer.owner,
                                      inbox'[i].answer.sequence, T, s)
    BY DEF AnswersHold
  <1> DEFINE a == inbox[i + 1].answer
  <1>1. i \in Nat /\ i + 1 \in Nat /\ i + 1 \in DOMAIN inbox /\ inbox'[i] = inbox[i + 1]
    BY WhatIsLeft
  <1>2. /\ Shown(a.owner, a.sequence, T, s) => Agrees(a, x, can)
        /\ kind # "profiles" /\ kept => Overtaken(inbox, i + 1, a.owner, a.sequence, T, s)
    BY <1>1 DEF AnswersHold
  <1> HIDE DEF a
  <1>3. ASSUME kind # "profiles", kept PROVE Overtaken(inbox', i, a.owner, a.sequence, T, s)
    <2> SUFFICES ASSUME s.owner # NoOwner, a.owner = s.owner, a.sequence < T
                 PROVE  Voided(inbox', i, T, s)
      BY DEF Overtaken
    <2>1. Voided(inbox, i + 1, T, s)
      BY <1>2, <1>3 DEF Overtaken
    <2> QED
      BY <1>1, <2>1, VoidedStill
  <1> QED
    BY <1>1, <1>2, <1>3 DEF a

\* What the reply brought is of the moment of the list, or of no moment.
LEMMA MomentHolds ==
    ASSUME ReadInv, NEW m, NEW r, Consumes(m, r), NEW T, NEW s, NEW x, NEW can, NEW kept,
           kind = "display", SameMoment(m),
           AnswersHold(T, inbox, s, x, can, kept), ListsHold(T, calls, inbox, s, x, can),
           Shown(m.answer.owner, m.answer.sequence, T, s)
    PROVE  Agrees(ListOf(m), x, can) /\ AllAre(StatesOf(m), x)
  <1>1. IsAnswered(m) /\ m.answer.owner = ListOf(m).owner /\ m.answer.sequence = ListOf(m).sequence
        /\ 1 \in DOMAIN inbox /\ m = inbox[1]
    BY WhatIsLeft DEF SameMoment
  <1>2. Agrees(m.answer, x, can)
    BY <1>1 DEF AnswersHold
  <1>3. CASE AsksForDisplay(m.call)
    <2>1. HasCall(calls, inbox, m.call)
      BY <1>1 DEF HasCall, IsAnswered
    <2>2. ListOf(m) = m.call.list /\ StatesOf(m) = Append(m.call.states, m.answer.content)
      BY <1>3 DEF ListOf, StatesOf
    <2>3. Agrees(m.call.list, x, can) /\ AllAre(m.call.states, x)
      BY <1>1, <1>3, <2>1, <2>2 DEF ListsHold
    <2> DEFINE states == m.call.states
               state == m.answer.content
    <2>4. state = x
      BY <1>2 DEF Agrees
    <2>5. IsSeq(states)
      BY <1>3, <2>1, NumbersTyped DEF IsSeq
    <2>6. \A i \in DOMAIN states : states[i] = x
      BY <2>3 DEF AllAre
    <2> HIDE DEF states, state
    <2>7. \A i \in DOMAIN Append(states, state) : Append(states, state)[i] = x
      <3>1. /\ DOMAIN Append(states, state) = 1..(Len(states) + 1)
            /\ DOMAIN states = 1..Len(states) /\ Len(states) \in Nat
            /\ \A i \in DOMAIN states : Append(states, state)[i] = states[i]
            /\ Append(states, state)[Len(states) + 1] = state
        BY <2>5, SeqAppend, SeqFacts
      <3>2. \A i \in 1..(Len(states) + 1) : i \in 1..Len(states) \/ i = Len(states) + 1
        BY <3>1
      <3> QED
        BY <2>4, <2>6, <3>1, <3>2
    <2> QED
      BY <2>2, <2>3, <2>7 DEF AllAre, states, state
  <1>4. CASE ~AsksForDisplay(m.call)
    <2>1. ListOf(m) = m.answer /\ StatesOf(m) = <<>>
      BY <1>4 DEF ListOf, StatesOf
    <2>2. AllAre(<<>>, x)
      BY DEF AllAre
    <2> QED
      BY <1>2, <2>1, <2>2
  <1> QED
    BY <1>3, <1>4

LEMMA ListsHoldStill ==
    ASSUME ReadInv, NEW m, NEW r, Consumes(m, r), NEW T, NEW s, NEW x, NEW can, NEW kept,
           AnswersHold(T, inbox, s, x, can, kept), ListsHold(T, calls, inbox, s, x, can)
    PROVE  ListsHold(T, calls', inbox', s, x, can)
  <1> SUFFICES ASSUME NEW call, HasCall(calls', inbox', call), AsksForDisplay(call),
                      Shown(call.list.owner, call.list.sequence, T, s)
               PROVE  Agrees(call.list, x, can) /\ AllAre(call.states, x)
    BY DEF ListsHold
  <1>1. CASE HasCall(calls, inbox, call)
    BY <1>1 DEF ListsHold
  <1>2. CASE r.calls = <<call>>
    <2>1. /\ kind = "display" /\ SameMoment(m)
          /\ call.list = ListOf(m) /\ call.states = StatesOf(m)
      BY <1>2, NextDisplay
    <2>2. Shown(m.answer.owner, m.answer.sequence, T, s)
      BY <2>1 DEF SameMoment
    <2> QED
      BY <2>1, <2>2, MomentHolds
  <1> QED
    BY <1>1, <1>2, CallsKnown

\* The displays of one moment are what a whole copy of it holds.
LEMMA MomentIsWhole ==
    ASSUME NEW x \in Nat, kind = "display", NEW m, NEW ep, IsMessage(m, ep), SameMoment(m),
           Len(StatesOf(m)) = ListOf(m).displays,
           ListOf(m).content = x, ListOf(m).displays = DisplaysAt(x), AllAre(StatesOf(m), x)
    PROVE  <<ListOf(m).content>> \o StatesOf(m) = WholeOf(x)
  <1> DEFINE states == StatesOf(m)
             n == DisplaysAt(x)
             all == <<x>> \o states
             whole == [i \in 1..(n + 1) |-> x]
  <1>1. states \in Seq(Nat)
    <2>1. CASE AsksForDisplay(m.call)
      <3>1. m.call.states \in Seq(Nat) /\ m.answer.content \in Nat
        BY <2>1 DEF IsMessage, IsRequest, SameMoment, IsAnswered, IsAnswer
      <3>2. states = Append(m.call.states, m.answer.content)
        BY <2>1 DEF StatesOf
      <3> HIDE DEF states
      <3> QED
        BY <3>1, <3>2, AppendProperties
    <2>2. CASE ~AsksForDisplay(m.call)
      <3>1. states = <<>>
        BY <2>2 DEF StatesOf
      <3> HIDE DEF states
      <3> QED
        BY <3>1
    <2> QED
      BY <2>1, <2>2
  <1>2. Len(states) = n /\ n \in Nat /\ \A i \in DOMAIN states : states[i] = x
    BY <1>1, LenProperties DEF AllAre
  <1> HIDE DEF states, n
  <1>3. <<x>> \in Seq(Nat) /\ Len(<<x>>) = 1 /\ <<x>>[1] = x
    OBVIOUS
  <1> DEFINE first == <<x>>
  <1>4. first \in Seq(Nat) /\ Len(first) = 1 /\ first[1] = x /\ all = first \o states
    BY <1>3
  <1> HIDE DEF first
  <1>5. /\ all \in Seq(Nat) /\ Len(all) = 1 + n
        /\ \A i \in 1..(1 + n) : all[i] = IF i <= 1 THEN first[i] ELSE states[i - 1]
    BY <1>1, <1>2, <1>4, ConcatProperties
  <1> HIDE DEF all
  <1>6. DOMAIN states = 1..n
    BY <1>1, <1>2, LenProperties
  <1>7. ASSUME NEW i \in 1..(1 + n) PROVE all[i] = x
    <2>1. CASE i <= 1
      <3>1. i = 1
        BY <1>2, <2>1
      <3> QED
        BY <1>4, <1>5, <2>1, <3>1
    <2>2. CASE ~(i <= 1)
      <3>1. i - 1 \in 1..n
        BY <1>2, <2>2
      <3> QED
        BY <1>2, <1>5, <1>6, <2>2, <3>1
    <2> QED
      BY <2>1, <2>2
  <1>8. whole \in Seq(Nat) /\ Len(whole) = 1 + n /\ \A i \in 1..(1 + n) : whole[i] = x
    BY <1>2
  <1> HIDE DEF whole
  <1>9. all = whole
    BY <1>5, <1>7, <1>8, SeqEqual
  <1> QED
    BY <1>9 DEF WholeOf, all, whole, states, n

LEMMA CopyHoldsStill ==
    ASSUME ReadInv, CopyInv, NEW m, NEW r, Consumes(m, r), NEW T,
           UpTo(T, calls, inbox, client, service, content, Readable, Kept)
    PROVE  CopyHolds(T, inbox', client'.copy, service, content, Readable, Kept)
  <1> DEFINE old == client.copy
             new == client'.copy
  <1>0. /\ 1 \in DOMAIN inbox /\ m = inbox[1] /\ CopyMoves(client, m, client')
        /\ T \in Nat /\ content \in Nat /\ old.sequence \in Nat
        /\ IsMessage(m, client.ownerEpoch) /\ client'.copy = new
    BY WhatIsLeft, CursorAndCopyMove, NumbersTyped DEF UpTo, ReadInv, Consumes
  <1> SUFFICES ASSUME new.ready, kind = "profiles" \/ Kept
               PROVE  /\ Shown(new.owner, new.sequence, T, service) =>
                            Readable /\ new.content = WholeOf(content)
                      /\ kind # "profiles" =>
                            Overtaken(inbox', 0, new.owner, new.sequence, T, service)
    BY DEF CopyHolds
  <1>1. old.ready =>
            /\ Shown(old.owner, old.sequence, T, service) =>
                  Readable /\ old.content = WholeOf(content)
            /\ kind # "profiles" => Overtaken(inbox, 0, old.owner, old.sequence, T, service)
    BY DEF UpTo, CopyHolds
  <1>2. CASE CopyStays(client, m, client')
    <2>1. new = old /\ old.ready /\ (IsSignal(m) => old.owner = NoOwner \/ m.sequence <= old.sequence)
      BY <1>2 DEF CopyStays
    <2> HIDE DEF old, new
    <2>2. ASSUME kind # "profiles"
          PROVE  Overtaken(inbox', 0, old.owner, old.sequence, T, service)
      <3> SUFFICES ASSUME service.owner # NoOwner, old.owner = service.owner, old.sequence < T
                   PROVE  Voided(inbox', 0, T, service)
        BY DEF Overtaken
      <3>1. Voided(inbox, 0, T, service)
        BY <1>1, <2>1, <2>2 DEF Overtaken
      <3>2. ~(IsVoid(m) /\ m.owner = service.owner /\ m.sequence = T)
        BY <1>0, <2>1 DEF IsVoid, IsSignal
      <3>3. 0 \in Nat
        OBVIOUS
      <3> QED
        BY <3>1, <3>2, <3>3, VoidedStill
    <2> QED
      BY <1>1, <2>1, <2>2
  <1>3. CASE CopyAdvances(client, m, client')
    <2>1. /\ old.ready /\ IsSignal(m) /\ m.owner = old.owner /\ new.owner = old.owner
          /\ new.content = old.content /\ new.sequence = m.sequence
          /\ old.sequence <= m.sequence
          /\ kind = "profiles" => m.subject # "profile" /\ m.sequence = old.sequence + 1
          /\ kind # "profiles" => ~IsVoid(m)
      BY <1>3 DEF CopyAdvances
    <2>2. m.sequence \in Nat
      BY <1>0, <2>1 DEF IsMessage
    <2> HIDE DEF old, new
    <2>3. ASSUME Shown(new.owner, new.sequence, T, service)
          PROVE  Readable /\ new.content = WholeOf(content)
      <3>0. service.owner # NoOwner /\ old.owner = service.owner /\ T <= m.sequence
        BY <2>1, <2>3 DEF Shown
      <3>1. T <= old.sequence
        <4> SUFFICES ASSUME ~(T <= old.sequence) PROVE FALSE
          OBVIOUS
        <4>1. old.sequence < T
          BY <1>0
        <4>2. CASE kind = "profiles"
          <5>1. m.sequence = T /\ m.subject # "profile"
            BY <1>0, <2>1, <2>2, <3>0, <4>1, <4>2
          <5>2. SubjectHolds(T, inbox, service)
            BY DEF UpTo
          <5> QED
            BY <1>0, <2>1, <3>0, <4>2, <5>1, <5>2 DEF SubjectHolds
        <4>3. CASE kind # "profiles"
          <5>1. Voided(inbox, 0, T, service)
            BY <1>1, <2>1, <3>0, <4>1, <4>3 DEF Overtaken
          <5>2. PICK j \in DOMAIN inbox :
                  /\ 0 < j /\ IsVoid(inbox[j]) /\ inbox[j].owner = service.owner
                  /\ inbox[j].sequence = T
                  /\ \A k \in DOMAIN inbox :
                       0 < k /\ k < j /\ IsSignal(inbox[k]) /\ inbox[k].owner = service.owner =>
                          inbox[k].sequence < T
            BY <5>1 DEF Voided
          <5>3. j # 1 /\ j \in Nat
            BY <1>0, <2>1, <4>3, <5>2, WhatIsLeft
          <5>4. m.sequence < T
            BY <1>0, <2>1, <3>0, <5>2, <5>3
          <5> QED
            BY <1>0, <2>2, <3>0, <5>4
        <4> QED
          BY <4>2, <4>3
      <3>2. Shown(old.owner, old.sequence, T, service)
        BY <3>0, <3>1 DEF Shown
      <3> QED
        BY <1>1, <2>1, <3>2
    <2>4. ASSUME kind # "profiles"
          PROVE  Overtaken(inbox', 0, new.owner, new.sequence, T, service)
      <3> SUFFICES ASSUME service.owner # NoOwner, new.owner = service.owner, new.sequence < T
                   PROVE  Voided(inbox', 0, T, service)
        BY DEF Overtaken
      <3>1. old.owner = service.owner /\ old.sequence < T
        BY <1>0, <2>1, <2>2
      <3>2. Voided(inbox, 0, T, service)
        BY <1>1, <2>1, <2>4, <3>1 DEF Overtaken
      <3>3. ~IsVoid(m) /\ 0 \in Nat
        BY <2>1, <2>4
      <3> QED
        BY <3>2, <3>3, VoidedStill
    <2> QED
      BY <2>3, <2>4
  <1>4. CASE CopyIsTaken(client, m, client')
    <2> DEFINE a == m.answer
    <2>1. /\ IsAnswered(m) /\ new.owner = a.owner /\ new.sequence = a.sequence
          /\ kind # "display" => new.content = a.content
          /\ kind = "display" =>
               /\ SameMoment(m) /\ Len(StatesOf(m)) = ListOf(m).displays
               /\ new.content = <<ListOf(m).content>> \o StatesOf(m)
      BY <1>4 DEF CopyIsTaken
    <2>2. /\ AnswersHold(T, inbox, service, content, Readable, Kept)
          /\ ListsHold(T, calls, inbox, service, content, Readable)
      BY DEF UpTo
    <2>3. /\ Shown(a.owner, a.sequence, T, service) => Agrees(a, content, Readable)
          /\ kind # "profiles" /\ Kept => Overtaken(inbox, 1, a.owner, a.sequence, T, service)
      BY <1>0, <2>1, <2>2 DEF AnswersHold
    <2> HIDE DEF a, new, old
    <2>4. ASSUME Shown(a.owner, a.sequence, T, service)
          PROVE  Readable /\ new.content = WholeOf(content)
      <3>1. CASE kind # "display"
        BY <2>1, <2>3, <2>4, <3>1 DEF Agrees, WholeOf
      <3>2. CASE kind = "display"
        <4>1. Agrees(ListOf(m), content, Readable) /\ AllAre(StatesOf(m), content)
          BY <2>1, <2>2, <2>4, <3>2, MomentHolds DEF a
        <4>2. <<ListOf(m).content>> \o StatesOf(m) = WholeOf(content)
          BY <1>0, <2>1, <3>2, <4>1, MomentIsWhole DEF Agrees
        <4> QED
          BY <2>1, <3>2, <4>1, <4>2 DEF Agrees
      <3> QED
        BY <3>1, <3>2
    <2>5. ASSUME kind # "profiles"
          PROVE  Overtaken(inbox', 0, a.owner, a.sequence, T, service)
      <3> SUFFICES ASSUME service.owner # NoOwner, a.owner = service.owner, a.sequence < T
                   PROVE  Voided(inbox', 0, T, service)
        BY DEF Overtaken
      <3>1. Voided(inbox, 1, T, service)
        BY <2>3, <2>5 DEF Overtaken
      <3>2. 0 \in Nat /\ 1 \in Nat /\ 1 = 0 + 1
        OBVIOUS
      <3> QED
        BY <3>1, <3>2, VoidedStill
    <2> QED
      BY <2>1, <2>4, <2>5
  <1> QED
    BY <1>0, <1>2, <1>3, <1>4 DEF CopyMoves

LEMMA ConsumingKeepsCopies ==
    ASSUME ReadInv, CopyInv, NEW m, NEW r, Consumes(m, r) PROVE CopyInv'
  <1>1. PICK T : UpTo(T, calls, inbox, client, service, content, Readable, Kept)
    BY DEF CopyInv
  <1>2. AnswersHold(T, inbox', service, content, Readable, Kept)
    BY <1>1, AnswersHoldStill DEF UpTo
  <1>3. ListsHold(T, calls', inbox', service, content, Readable)
    BY <1>1, ListsHoldStill DEF UpTo
  <1>4. CopyHolds(T, inbox', client'.copy, service, content, Readable, Kept)
    BY <1>1, CopyHoldsStill
  <1>5. SubjectHolds(T, inbox', service)
    BY <1>1, WhatIsLeft DEF UpTo, SubjectHolds
  <1>6. UpTo(T, calls', inbox', client', service, content, Readable, Kept)
    BY <1>1, <1>2, <1>3, <1>4, <1>5 DEF UpTo
  <1>7. UpTo(T, calls', inbox', client', service', content', Readable', Kept')
    <2>1. service' = service /\ content' = content /\ (Readable' <=> Readable) /\ (Kept' <=> Kept)
          /\ UNCHANGED kind
      BY WhatIsLeft
    <2> QED
      BY <1>6, <2>1 DEF UpTo, AnswersHold, ListsHold, CopyHolds, Agrees
  <1> QED
    BY <1>7, CursorAndCopyMove, SignedStill, OrderedStill, WhatIsLeft, CopyInvThen

\* The program asks for a read: the copy stays or goes, and the call is one
\* for a list.
LEMMA AskingKeepsCopies ==
    ASSUME ReadInv, CopyInv, NEW r, Asked(r) PROVE CopyInv'
  <1>1. /\ client' = r.state /\ UNCHANGED <<service, inbox, kind, content, open>>
        /\ Started' = Started /\ Kept' = Kept /\ Rereads(r)
    BY DEF Asked
  <1>2. Readable' <=> Readable
    BY <1>1 DEF Readable
  <1>3. ASSUME NEW call, HasCall(calls', inbox, call), AsksForDisplay(call)
        PROVE  HasCall(calls, inbox, call)
    <2>1. CASE \E i \in DOMAIN inbox : inbox[i].kind = "reply" /\ call = inbox[i].call
      BY <2>1 DEF HasCall
    <2>2. CASE calls' = calls
      BY <1>3, <2>2 DEF HasCall
    <2>3. CASE /\ \E k \in DOMAIN calls' : call = calls'[k].call
               /\ \E x : ~AsksForDisplay(x) /\ calls' = Append(calls, Awaited(x))
      <3>1. PICK x : ~AsksForDisplay(x) /\ calls' = Append(calls, Awaited(x))
        BY <2>3
      <3> DEFINE c == Awaited(x)
                 all == Append(calls, c)
      <3>2. c.call = x
        BY DEF Awaited
      <3> HIDE DEF c
      <3>3. /\ Len(calls) \in Nat /\ DOMAIN calls = 1..Len(calls)
            /\ DOMAIN all = 1..(Len(calls) + 1)
            /\ \A i \in DOMAIN calls : all[i] = calls[i]
            /\ all[Len(calls) + 1] = c
        <4>1. IsSeq(calls)
          BY DEF ReadInv, Queued
        <4> QED
          BY <4>1, SeqAppend, SeqFacts
      <3> HIDE DEF all
      <3>4. \A k \in DOMAIN all : k \in DOMAIN calls \/ k = Len(calls) + 1
        BY <3>3
      <3>5. PICK k \in DOMAIN all : call = all[k].call
        BY <2>3, <3>1 DEF all, c
      <3>6. k # Len(calls) + 1
        BY <1>3, <3>1, <3>2, <3>3, <3>5
      <3> QED
        BY <3>3, <3>4, <3>5, <3>6 DEF HasCall
    <2> QED
      BY <1>3, <2>1, <2>2, <2>3, CallsAsked DEF HasCall
  <1>4. Signed(calls', inbox, client', service, Started)
    BY <1>1, <1>3 DEF CopyInv, Signed, Rereads
  <1>5. Ordered(inbox, client', service)
    BY <1>1 DEF CopyInv, Ordered, Rereads
  <1>6. Bounded(client')
    BY <1>1 DEF CopyInv, Rereads
  <1>7. PICK T : UpTo(T, calls, inbox, client, service, content, Readable, Kept)
    BY DEF CopyInv
  <1>8. ListsHold(T, calls', inbox, service, content, Readable)
    BY <1>3, <1>7 DEF UpTo, ListsHold
  <1>9. CopyHolds(T, inbox, client'.copy, service, content, Readable, Kept)
    BY <1>1, <1>7 DEF UpTo, CopyHolds, Rereads
  <1>10. UpTo(T, calls', inbox, client', service, content, Readable, Kept)
    BY <1>7, <1>8, <1>9 DEF UpTo
  <1>11. UpTo(T, calls', inbox', client', service', content', Readable', Kept')
    BY <1>1, <1>2, <1>10 DEF UpTo, AnswersHold, ListsHold, CopyHolds, Agrees
  <1>12. Signed(calls', inbox', client', service', Started') /\ Ordered(inbox', client', service')
    BY <1>1, <1>4, <1>5
  <1> QED
    BY <1>1, <1>6, <1>11, <1>12, CopyInvThen

\* Nothing happens.
LEMMA CopiesStay ==
    ASSUME CopyInv, UNCHANGED vars PROVE CopyInv'
  <1>1. /\ UNCHANGED <<service, calls, inbox, spent, kind, client, content, open>>
    BY DEF vars, busVars
  <1>2. Started' = Started /\ Kept' = Kept /\ (Readable' <=> Readable)
    BY <1>1 DEF Started, Kept, Readable
  <1>3. PICK T : UpTo(T, calls, inbox, client, service, content, Readable, Kept)
    BY DEF CopyInv
  <1>4. UpTo(T, calls', inbox', client', service', content', Readable', Kept')
    BY <1>1, <1>2, <1>3 DEF UpTo, AnswersHold, ListsHold, CopyHolds, Agrees
  <1>5. Signed(calls', inbox', client', service', Started') /\ Ordered(inbox', client', service')
        /\ Bounded(client')
    BY <1>1, <1>2 DEF CopyInv
  <1> QED
    BY <1>1, <1>4, <1>5, CopyInvThen

LEMMA CopiesGoOn == ReadInv /\ CopyInv /\ [Next]_vars => CopyInv'
  <1> SUFFICES ASSUME ReadInv, CopyInv, [Next]_vars PROVE CopyInv'
    OBVIOUS
  <1>1. CASE \E news : Turns(news)
    BY <1>1, TurningKeepsCopies
  <1>2. CASE \E news : Continues(news)
    BY <1>2, ContinuingKeepsCopies
  <1>3. CASE \E x : Loses(x)
    BY <1>3, LossKeepsCopies
  <1>4. CASE \E m, r : Consumes(m, r)
    BY <1>4, ConsumingKeepsCopies
  <1>5. CASE UNCHANGED vars
    BY <1>5, CopiesStay
  <1>6. CASE \E r : Asked(r)
    BY <1>6, AskingKeepsCopies
  <1> QED
    BY <1>1, <1>2, <1>3, <1>4, <1>5, <1>6, EveryStep

\* A copy whose cursor names the last event of the running service is what
\* a read would answer, in one piece, whether it was read or moved on by
\* events since, and none is shown while reads are closed (fetchSnapshot and
\* the signal handlers of the profile, device and display clients).
THEOREM CopiesAreCurrent == Spec => []CopyIsCurrent
  <1>1. Init => ReadInv /\ CopyInv
    BY ReadsBegin, CopiesBegin
  <1>2. ReadInv /\ CopyInv /\ [Next]_vars => (ReadInv /\ CopyInv)'
    BY ReadsGoOn, CopiesGoOn
  <1>3. ReadInv /\ CopyInv => CopyIsCurrent
    BY CopyInvImplies
  <1> QED
    BY <1>1, <1>2, <1>3, PTL DEF Spec
=============================================================================
