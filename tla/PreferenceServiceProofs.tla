------------------------ MODULE PreferenceServiceProofs ------------------------
(***************************************************************************)
(* What the proofs about the clients of the session service share: the     *)
(* queues between a client and the service, the requests that are under    *)
(* way, what messages say about the service, and the readiness client.     *)
(* All of it holds for any limits, and any number of restarts, failures,   *)
(* timeouts, lost signals and other clients.                               *)
(***************************************************************************)
EXTENDS PreferenceService, SequenceTheorems, FiniteSetTheorems, TLAPS

-----------------------------------------------------------------------------
(* Sequences of anything.                                                  *)

IsSeq(s) == \E S : s \in Seq(S)

LEMMA SeqFacts ==
    ASSUME NEW s, IsSeq(s)
    PROVE  Len(s) \in Nat /\ DOMAIN s = 1..Len(s) /\ (s = <<>> <=> Len(s) = 0)
  <1>1. PICK S : s \in Seq(S)
    BY DEF IsSeq
  <1> QED
    BY <1>1, LenProperties, EmptySeq

LEMMA ListIsSeq ==
    /\ IsSeq(<<>>) /\ Len(<<>>) = 0
    /\ \A x : IsSeq(<<x>>) /\ Len(<<x>>) = 1
    /\ \A x, y : IsSeq(<<x, y>>) /\ Len(<<x, y>>) = 2
  <1>1. <<>> \in Seq({}) /\ Len(<<>>) = 0
    OBVIOUS
  <1>2. ASSUME NEW x PROVE <<x>> \in Seq({x}) /\ Len(<<x>>) = 1
    OBVIOUS
  <1>3. ASSUME NEW x, NEW y PROVE <<x, y>> \in Seq({x, y}) /\ Len(<<x, y>>) = 2
    OBVIOUS
  <1> QED
    BY <1>1, <1>2, <1>3 DEF IsSeq

LEMMA SeqAppend ==
    ASSUME NEW s, IsSeq(s), NEW x
    PROVE  /\ IsSeq(Append(s, x))
           /\ DOMAIN Append(s, x) = 1..(Len(s) + 1) /\ DOMAIN s \subseteq DOMAIN Append(s, x)
           /\ \A i \in DOMAIN s : Append(s, x)[i] = s[i]
           /\ Append(s, x)[Len(s) + 1] = x
  <1>1. PICK S : s \in Seq(S)
    BY DEF IsSeq
  <1> DEFINE T == S \cup {x}
  <1>2. s \in Seq(T) /\ x \in T
    BY <1>1, SeqMonotonic
  <1> HIDE DEF T
  <1>3. Append(s, x) \in Seq(T) /\ Len(Append(s, x)) = Len(s) + 1
    BY <1>2, AppendProperties
  <1> QED
    BY <1>2, <1>3, AppendProperties, LenProperties DEF IsSeq

LEMMA SeqConcat ==
    ASSUME NEW s, IsSeq(s), NEW t, IsSeq(t)
    PROVE  /\ IsSeq(s \o t)
           /\ DOMAIN (s \o t) = 1..(Len(s) + Len(t)) /\ DOMAIN s \subseteq DOMAIN (s \o t)
           /\ \A i \in DOMAIN s : (s \o t)[i] = s[i]
           /\ \A i \in DOMAIN (s \o t) : i \notin DOMAIN s =>
                i - Len(s) \in DOMAIN t /\ (s \o t)[i] = t[i - Len(s)]
           /\ s \o <<>> = s
           /\ \A x : s \o <<x>> = Append(s, x)
  <1>1. PICK S : s \in Seq(S)
    BY DEF IsSeq
  <1>2. PICK T : t \in Seq(T)
    BY DEF IsSeq
  <1> DEFINE U == S \cup T
  <1>3. s \in Seq(U) /\ t \in Seq(U)
    BY <1>1, <1>2, SeqMonotonic
  <1> HIDE DEF U
  <1>4. s \o t \in Seq(U) /\ Len(s \o t) = Len(s) + Len(t)
    BY <1>3, ConcatProperties
  <1>5. /\ Len(s) \in Nat /\ Len(t) \in Nat
        /\ DOMAIN s = 1..Len(s) /\ DOMAIN t = 1..Len(t)
        /\ DOMAIN (s \o t) = 1..(Len(s) + Len(t)) /\ DOMAIN s \subseteq DOMAIN (s \o t)
    BY <1>3, <1>4, LenProperties
  <1>6. \A i \in 1..(Len(s) + Len(t)) : (s \o t)[i] = IF i <= Len(s) THEN s[i] ELSE t[i - Len(s)]
    BY <1>3, ConcatProperties
  <1>7. s \o <<>> = s
    BY <1>3, ConcatEmptySeq
  <1>8. ASSUME NEW x PROVE s \o <<x>> = Append(s, x)
    <2>1. s \in Seq(U \cup {x}) /\ x \in U \cup {x}
      BY <1>3, SeqMonotonic
    <2> QED
      BY <2>1, AppendIsConcat
  <1> QED
    BY <1>4, <1>5, <1>6, <1>7, <1>8 DEF IsSeq

LEMMA ConcatAppend ==
    ASSUME NEW s, IsSeq(s), NEW t, IsSeq(t), NEW x
    PROVE  s \o Append(t, x) = Append(s \o t, x)
  <1>1. PICK S : s \in Seq(S)
    BY DEF IsSeq
  <1>2. PICK T : t \in Seq(T)
    BY DEF IsSeq
  <1> DEFINE U == (S \cup T) \cup {x}
  <1>3. s \in Seq(U) /\ t \in Seq(U) /\ x \in U
    BY <1>1, <1>2, SeqMonotonic
  <1> HIDE DEF U
  <1>4. s \o t \in Seq(U) /\ <<x>> \in Seq(U)
    BY <1>3, ConcatProperties
  <1>5. t \o <<x>> = Append(t, x) /\ (s \o t) \o <<x>> = Append(s \o t, x)
    BY <1>3, <1>4, AppendIsConcat
  <1>6. s \o (t \o <<x>>) = (s \o t) \o <<x>>
    BY <1>3, <1>4, ConcatAssociative
  <1> QED
    BY <1>5, <1>6

LEMMA SeqTail ==
    ASSUME NEW s, IsSeq(s), s # <<>>
    PROVE  /\ IsSeq(Tail(s))
           /\ 1 \in DOMAIN s
           /\ DOMAIN Tail(s) = 1..(Len(s) - 1)
           /\ \A i \in DOMAIN Tail(s) : i + 1 \in DOMAIN s /\ Tail(s)[i] = s[i + 1]
  <1>1. PICK S : s \in Seq(S)
    BY DEF IsSeq
  <1>2. Len(s) \in Nat \ {0} /\ DOMAIN s = 1..Len(s)
    BY <1>1, LenProperties, EmptySeq
  <1>3. Tail(s) \in Seq(S) /\ Len(Tail(s)) = Len(s) - 1
    BY <1>1, HeadTailProperties
  <1>4. \A i \in 1..Len(Tail(s)) : Tail(s)[i] = s[i + 1]
    BY <1>1, HeadTailProperties
  <1>5. DOMAIN Tail(s) = 1..(Len(s) - 1)
    BY <1>3, LenProperties
  <1> QED
    BY <1>2, <1>3, <1>4, <1>5 DEF IsSeq

LEMMA SeqExcept ==
    ASSUME NEW s, IsSeq(s), NEW i \in DOMAIN s, NEW x
    PROVE  /\ IsSeq([s EXCEPT ![i] = x])
           /\ DOMAIN [s EXCEPT ![i] = x] = DOMAIN s
           /\ [s EXCEPT ![i] = x][i] = x
           /\ \A j \in DOMAIN s : j # i => [s EXCEPT ![i] = x][j] = s[j]
  <1>1. PICK S : s \in Seq(S)
    BY DEF IsSeq
  <1> DEFINE T == S \cup {x}
  <1>2. s \in Seq(T) /\ x \in T
    BY <1>1, SeqMonotonic
  <1> HIDE DEF T
  <1>3. DOMAIN s = 1..Len(s)
    BY <1>2, LenProperties
  <1>4. [s EXCEPT ![i] = x] \in Seq(T)
    BY <1>2, <1>3, ExceptSeq
  <1> QED
    BY <1>2, <1>3, <1>4, ExceptSeq, LenProperties DEF IsSeq

\* A sequence without one of its elements.
LEMMA SeqWithout ==
    ASSUME NEW s, IsSeq(s), NEW i \in DOMAIN s
    PROVE  LET t == SubSeq(s, 1, i - 1) \o SubSeq(s, i + 1, Len(s))
           IN  /\ IsSeq(t)
               /\ DOMAIN t = 1..(Len(s) - 1)
               /\ \A k \in DOMAIN t : t[k] = s[IF k < i THEN k ELSE k + 1]
  <1>1. PICK S : s \in Seq(S)
    BY DEF IsSeq
  <1>2. Len(s) \in Nat /\ i \in 1..Len(s) /\ \A j \in 1..Len(s) : s[j] \in S
    BY <1>1, LenProperties, ElementOfSeq
  <1> DEFINE a == SubSeq(s, 1, i - 1)
             b == SubSeq(s, i + 1, Len(s))
  <1>3. a \in Seq(S) /\ Len(a) = i - 1 /\ \A k \in 1..(i - 1) : a[k] = s[k]
    <2>1. \A j \in 1..(i - 1) : s[j] \in S
      BY <1>2
    <2>2. /\ a \in Seq(S) /\ Len(a) = IF 1 <= i - 1 THEN (i - 1) - 1 + 1 ELSE 0
          /\ \A k \in 1..((i - 1) - 1 + 1) : a[k] = s[1 + k - 1]
      BY <1>2, <2>1, SubSeqProperties
    <2> QED
      BY <1>2, <2>2
  <1>4. b \in Seq(S) /\ Len(b) = Len(s) - i /\ \A k \in 1..(Len(s) - i) : b[k] = s[i + k]
    <2>1. \A j \in (i + 1)..Len(s) : s[j] \in S
      BY <1>2
    <2>2. /\ b \in Seq(S) /\ Len(b) = IF i + 1 <= Len(s) THEN Len(s) - (i + 1) + 1 ELSE 0
          /\ \A k \in 1..(Len(s) - (i + 1) + 1) : b[k] = s[(i + 1) + k - 1]
      BY <1>2, <2>1, SubSeqProperties
    <2> QED
      BY <1>2, <2>2
  <1> HIDE DEF a, b
  <1>5. a \o b \in Seq(S) /\ Len(a \o b) = Len(s) - 1
    BY <1>2, <1>3, <1>4, ConcatProperties
  <1>6. DOMAIN (a \o b) = 1..(Len(s) - 1)
    BY <1>5, LenProperties
  <1>7. \A k \in 1..(Len(s) - 1) : (a \o b)[k] = IF k <= i - 1 THEN a[k] ELSE b[k - (i - 1)]
    BY <1>2, <1>3, <1>4, ConcatProperties
  <1>8. \A k \in 1..(Len(s) - 1) : (a \o b)[k] = s[IF k < i THEN k ELSE k + 1]
    BY <1>2, <1>3, <1>4, <1>7
  <1> QED
    BY <1>5, <1>6, <1>8 DEF IsSeq, a, b
-----------------------------------------------------------------------------
(* What is on its way: calls cs and messages ms, for the object "who" of   *)
(* the client, which is in epoch ep and busy or not; p is the operation    *)
(* that is pending and lg the log of the service.                          *)

Snapshots == [owner : Owners, sequence : Nat,
              state : {"STOPPED", "STARTING", "RECOVERING", "READY", "FAILED"}]

\* A call of one of the two objects; an attempt names the pending operation.
CallOf(call) ==
    /\ call.epoch \in Nat
    /\ \/ call.method = "GetAll" /\ call.from = "readiness"
       \/ call.method \in {"Get", "Set"} /\ call.from = "client"
AttemptOf(call, p) ==
    call.method = "Set" => /\ p # NoOperation /\ call.op = p.op
                           /\ call.value = p.value /\ call.expected = p.expected
IsCall(c, who, ep, p) ==
    /\ DOMAIN c = {"call", "awaited"} /\ c.awaited \in BOOLEAN
    /\ CallOf(c.call)
    /\ c.call.from = who => c.call.epoch \in 0..ep /\ AttemptOf(c.call, p)

\* Signals, and replies with what they carry.
IsNews(m) ==
    /\ {"kind", "to"} \subseteq DOMAIN m
    /\ m.to \subseteq Listeners /\ m.to # {}
    /\ m.kind \in {"owner", "event", "value"}
    /\ m.kind = "event" => /\ m.to \subseteq Observers
                          /\ {"owner", "sequence", "subject"} \subseteq DOMAIN m
    /\ m.kind # "owner" => m.owner \in Owners /\ m.sequence \in Nat
    /\ m.kind = "value" => m.to = {"client"} /\ m.value \in Nat /\ m.revision \in Nat
IsAnswer(call, a) ==
    /\ call.method = "GetAll" => a \in Snapshots
    /\ call.method # "GetAll" => /\ a.owner \in Owners /\ a.sequence \in Nat
                                 /\ a.value \in Nat /\ a.revision \in Nat
IsReply(m) ==
    /\ {"kind", "to"} \subseteq DOMAIN m
    /\ m.kind = "reply" /\ m.to = {m.call.from} /\ CallOf(m.call)
    /\ ~m.error => IsAnswer(m.call, m.answer)
IsMessage(m, who, ep) ==
    IsNews(m) \/ (IsReply(m) /\ (m.call.from = who => m.call.epoch \in 0..ep))

\* What the object waits for, and the answer it takes.
Waits(c, who, ep) == c.awaited /\ c.call.from = who /\ c.call.epoch = ep
Mine(m, who, ep) == m.kind = "reply" /\ m.call.from = who /\ m.call.epoch = ep

\* An answer tells the truth about the pending operation.
TellsTruth(m, p, lg) ==
    m.call.method = "Set" =>
        /\ p # NoOperation
        /\ m.answer.code = "OK" => \E row \in lg : row.op = p.op
        /\ m.answer.code \in {"STALE_REVISION", "CONFLICT"} => \A row \in lg : row.op # p.op
        /\ m.answer.code \in {"OK", "STALE_REVISION", "CONFLICT", "IO_ERROR", "BACKEND_UNAVAILABLE"}

\* The call that is waited for is the last of this object, and an answer to
\* one comes when none of the object's calls is left.
Queued(cs, ms, who, ep, p) ==
    /\ IsSeq(cs) /\ IsSeq(ms)
    /\ \A i \in DOMAIN cs : IsCall(cs[i], who, ep, p)
    /\ \A i \in DOMAIN ms : IsMessage(ms[i], who, ep)
LastWaits(cs, ms, who, ep, busy) ==
    \A i \in DOMAIN cs : Waits(cs[i], who, ep) =>
        /\ busy
        /\ \A j \in DOMAIN cs : cs[j].call.from = who => j <= i
        /\ \A j \in DOMAIN ms : ~Mine(ms[j], who, ep)
OneIsMine(ms, who, ep, busy) ==
    \A i, j \in DOMAIN ms : Mine(ms[i], who, ep) => busy /\ (Mine(ms[j], who, ep) => i = j)
AnswersDecide(cs, ms, who, ep, p, lg) ==
    \A i \in DOMAIN ms : Mine(ms[i], who, ep) /\ ~ms[i].error =>
        /\ \A j \in DOMAIN cs : cs[j].call.from # who
        /\ TellsTruth(ms[i], p, lg)

AtMostOne(cs, ms, who, ep, busy, p, lg) ==
    /\ Queued(cs, ms, who, ep, p)
    /\ LastWaits(cs, ms, who, ep, busy)
    /\ OneIsMine(ms, who, ep, busy)
    /\ AnswersDecide(cs, ms, who, ep, p, lg)

\* What a busy object waits for will come.
Awaits(cs, ms, who, ep, busy) ==
    busy => \/ \E i \in DOMAIN cs : Waits(cs[i], who, ep)
            \/ \E i \in DOMAIN ms : Mine(ms[i], who, ep)

Underway(cs, ms, who, ep, busy, p, lg) ==
    AtMostOne(cs, ms, who, ep, busy, p, lg) /\ Awaits(cs, ms, who, ep, busy)

\* Messages that are all old, or news.
Fewer(new, ms, at) ==
    /\ IsSeq(new)
    /\ \A i \in DOMAIN new : (at[i] \in DOMAIN ms /\ new[i] = ms[at[i]]) \/ IsNews(new[i])
    /\ \A i, j \in DOMAIN new : at[i] = at[j] => i = j

LEMMA FewerMessages ==
    ASSUME NEW cs, NEW ms, NEW who, NEW ep, NEW busy, NEW p, NEW lg, NEW new, NEW at,
           Fewer(new, ms, at), AtMostOne(cs, ms, who, ep, busy, p, lg)
    PROVE  AtMostOne(cs, new, who, ep, busy, p, lg)
  <1>1. \A i \in DOMAIN new : IsMessage(new[i], who, ep)
    BY DEF AtMostOne, Queued, Fewer, IsMessage
  <1>2. /\ \A i \in DOMAIN new : Mine(new[i], who, ep) => at[i] \in DOMAIN ms /\ new[i] = ms[at[i]]
        /\ \A i, j \in DOMAIN new : at[i] = at[j] => i = j
    BY DEF Fewer, IsNews, Mine
  <1>3. LastWaits(cs, new, who, ep, busy)
    BY <1>2 DEF AtMostOne, LastWaits
  <1>4. OneIsMine(new, who, ep, busy)
    BY <1>2 DEF AtMostOne, OneIsMine
  <1>5. AnswersDecide(cs, new, who, ep, p, lg)
    BY <1>2 DEF AtMostOne, AnswersDecide
  <1> QED
    BY <1>1, <1>3, <1>4, <1>5 DEF AtMostOne, Queued, Fewer

\* None of the answers the object waits for is among those that are gone.
LEMMA NoAnswerGone ==
    ASSUME NEW cs, NEW ms, NEW who, NEW ep, NEW busy, NEW p, NEW lg, NEW new, NEW at,
           Fewer(new, ms, at), Underway(cs, ms, who, ep, busy, p, lg),
           \A i \in DOMAIN ms : Mine(ms[i], who, ep) => \E j \in DOMAIN new : new[j] = ms[i]
    PROVE  Underway(cs, new, who, ep, busy, p, lg)
  <1>1. Awaits(cs, new, who, ep, busy)
    BY DEF Underway, Awaits
  <1> QED
    BY <1>1, FewerMessages DEF Underway

LEMMA NewsArrives ==
    ASSUME NEW cs, NEW ms, NEW who, NEW ep, NEW busy, NEW p, NEW lg, NEW news,
           Underway(cs, ms, who, ep, busy, p, lg),
           IsSeq(news), \A i \in DOMAIN news : IsNews(news[i])
    PROVE  Underway(cs, ms \o news, who, ep, busy, p, lg)
  <1> DEFINE new == ms \o news
             at == [i \in DOMAIN new |-> i]
  <1>1. IsSeq(ms)
    BY DEF Underway, AtMostOne, Queued
  <1>2. /\ IsSeq(new) /\ DOMAIN ms \subseteq DOMAIN new
        /\ \A i \in DOMAIN ms : new[i] = ms[i]
        /\ \A i \in DOMAIN new : i \notin DOMAIN ms =>
             i - Len(ms) \in DOMAIN news /\ new[i] = news[i - Len(ms)]
    BY <1>1, SeqConcat
  <1> HIDE DEF new
  <1>3. Fewer(new, ms, at)
    BY <1>2 DEF Fewer
  <1> HIDE DEF at
  <1>4. Underway(cs, new, who, ep, busy, p, lg)
    BY <1>2, <1>3, NoAnswerGone
  <1> QED
    BY <1>4 DEF new

LEMMA OneNewsArrives ==
    ASSUME NEW cs, NEW ms, NEW who, NEW ep, NEW busy, NEW p, NEW lg, NEW m,
           Underway(cs, ms, who, ep, busy, p, lg), IsNews(m)
    PROVE  Underway(cs, Append(ms, m), who, ep, busy, p, lg)
  <1>1. IsSeq(ms) /\ IsSeq(<<m>>)
    BY ListIsSeq DEF Underway, AtMostOne, Queued
  <1>2. Append(ms, m) = ms \o <<m>>
    BY <1>1, ListIsSeq, SeqConcat
  <1>3. \A i \in DOMAIN <<m>> : IsNews(<<m>>[i])
    OBVIOUS
  <1> QED
    BY <1>1, <1>2, <1>3, NewsArrives

\* The first message is gone; an answer, if it was one, was nobody's.
LEMMA FirstHandled ==
    ASSUME NEW cs, NEW ms, NEW who, NEW ep, NEW busy, NEW p, NEW lg,
           Underway(cs, ms, who, ep, busy, p, lg), ms # <<>>, ~Mine(ms[1], who, ep)
    PROVE  Underway(cs, Tail(ms), who, ep, busy, p, lg)
  <1> DEFINE new == Tail(ms)
             at == [i \in DOMAIN new |-> i + 1]
  <1>1. IsSeq(ms) /\ Len(ms) \in Nat /\ DOMAIN ms = 1..Len(ms)
    BY SeqFacts DEF Underway, AtMostOne, Queued
  <1>2. /\ IsSeq(new) /\ DOMAIN new = 1..(Len(ms) - 1)
        /\ \A i \in DOMAIN new : i + 1 \in DOMAIN ms /\ new[i] = ms[i + 1]
    BY <1>1, SeqTail
  <1> HIDE DEF new
  <1>3. Fewer(new, ms, at)
    BY <1>2 DEF Fewer
  <1> HIDE DEF at
  <1>4. ASSUME NEW i \in DOMAIN ms, Mine(ms[i], who, ep)
        PROVE  \E j \in DOMAIN new : new[j] = ms[i]
    <2>1. i # 1
      BY <1>4
    <2>2. i - 1 \in DOMAIN new /\ (i - 1) + 1 = i
      BY <1>1, <1>2, <2>1
    <2> QED
      BY <1>2, <2>2
  <1>5. Underway(cs, new, who, ep, busy, p, lg)
    BY <1>3, <1>4, NoAnswerGone
  <1> QED
    BY <1>5 DEF new

\* One more listener has seen the first message, which is none of replies.
LEMMA FirstSeen ==
    ASSUME NEW cs, NEW ms, NEW who, NEW ep, NEW busy, NEW p, NEW lg, NEW m,
           Underway(cs, ms, who, ep, busy, p, lg), ms # <<>>, IsNews(ms[1]), IsNews(m)
    PROVE  Underway(cs, [ms EXCEPT ![1] = m], who, ep, busy, p, lg)
  <1> DEFINE new == [ms EXCEPT ![1] = m]
             at == [i \in DOMAIN new |-> i]
  <1>1. IsSeq(ms) /\ 1 \in DOMAIN ms
    BY SeqTail DEF Underway, AtMostOne, Queued
  <1>2. /\ IsSeq(new) /\ DOMAIN new = DOMAIN ms /\ new[1] = m
        /\ \A i \in DOMAIN ms : i # 1 => new[i] = ms[i]
    BY <1>1, SeqExcept
  <1> HIDE DEF new
  <1>3. Fewer(new, ms, at)
    BY <1>2 DEF Fewer
  <1> HIDE DEF at
  <1>4. \A i \in DOMAIN ms : Mine(ms[i], who, ep) => i # 1
    BY DEF Mine, IsNews
  <1>5. Underway(cs, new, who, ep, busy, p, lg)
    BY <1>2, <1>3, <1>4, NoAnswerGone
  <1> QED
    BY <1>5 DEF new

LEMMA OneMessageLost ==
    ASSUME NEW cs, NEW ms, NEW who, NEW ep, NEW busy, NEW p, NEW lg, NEW i \in DOMAIN ms,
           Underway(cs, ms, who, ep, busy, p, lg), ms[i].kind # "reply"
    PROVE  Underway(cs, SubSeq(ms, 1, i - 1) \o SubSeq(ms, i + 1, Len(ms)),
                    who, ep, busy, p, lg)
  <1> DEFINE new == SubSeq(ms, 1, i - 1) \o SubSeq(ms, i + 1, Len(ms))
             at == [k \in DOMAIN new |-> IF k < i THEN k ELSE k + 1]
  <1>1. IsSeq(ms)
    BY DEF Underway, AtMostOne, Queued
  <1>2. /\ IsSeq(new) /\ DOMAIN new = 1..(Len(ms) - 1)
        /\ \A k \in DOMAIN new : new[k] = ms[IF k < i THEN k ELSE k + 1]
    BY <1>1, SeqWithout
  <1>3. Len(ms) \in Nat /\ DOMAIN ms = 1..Len(ms)
    BY <1>1, SeqFacts
  <1> HIDE DEF new
  <1>4. Fewer(new, ms, at)
    BY <1>2, <1>3 DEF Fewer
  <1> HIDE DEF at
  <1>5. ASSUME NEW k \in DOMAIN ms, Mine(ms[k], who, ep)
        PROVE  \E j \in DOMAIN new : new[j] = ms[k]
    <2>1. k # i
      BY <1>5 DEF Mine
    <2>2. CASE k < i
      BY <1>2, <1>3, <2>2
    <2>3. CASE k > i
      <3>1. k - 1 \in DOMAIN new /\ ~(k - 1 < i) /\ (k - 1) + 1 = k
        BY <1>2, <1>3, <2>3
      <3> QED
        BY <1>2, <3>1
    <2> QED
      BY <1>3, <2>1, <2>2, <2>3
  <1>6. Underway(cs, new, who, ep, busy, p, lg)
    BY <1>4, <1>5, NoAnswerGone
  <1> QED
    BY <1>6 DEF new
-----------------------------------------------------------------------------
(* Calls.                                                                  *)

\* A call leaves the queue unanswered: nobody waits for it.
LEMMA CallGone ==
    ASSUME NEW cs, NEW ms, NEW who, NEW ep, NEW busy, NEW p, NEW lg,
           AtMostOne(cs, ms, who, ep, busy, p, lg), cs # <<>>
    PROVE  AtMostOne(Tail(cs), ms, who, ep, busy, p, lg)
  <1> DEFINE rest == Tail(cs)
  <1>1. IsSeq(cs)
    BY DEF AtMostOne, Queued
  <1>2. /\ IsSeq(rest) /\ DOMAIN rest = 1..(Len(cs) - 1)
        /\ \A i \in DOMAIN rest : i + 1 \in DOMAIN cs /\ rest[i] = cs[i + 1]
    BY <1>1, SeqTail
  <1>3. Len(cs) \in Nat
    BY <1>1, SeqFacts
  <1> HIDE DEF rest
  <1>4. Queued(rest, ms, who, ep, p)
    BY <1>2 DEF AtMostOne, Queued
  <1>5. LastWaits(rest, ms, who, ep, busy)
    <2> SUFFICES ASSUME NEW i \in DOMAIN rest, Waits(rest[i], who, ep)
                 PROVE  /\ busy
                        /\ \A j \in DOMAIN rest : rest[j].call.from = who => j <= i
                        /\ \A j \in DOMAIN ms : ~Mine(ms[j], who, ep)
      BY DEF LastWaits
    <2>1. i + 1 \in DOMAIN cs /\ Waits(cs[i + 1], who, ep)
      BY <1>2
    <2>2. /\ busy /\ \A j \in DOMAIN ms : ~Mine(ms[j], who, ep)
          /\ \A j \in DOMAIN cs : cs[j].call.from = who => j <= i + 1
      BY <2>1 DEF AtMostOne, LastWaits
    <2>3. ASSUME NEW j \in DOMAIN rest, rest[j].call.from = who PROVE j <= i
      <3>1. j + 1 \in DOMAIN cs /\ cs[j + 1].call.from = who
        BY <1>2, <2>3
      <3>2. j + 1 <= i + 1 /\ i \in 1..(Len(cs) - 1) /\ j \in 1..(Len(cs) - 1)
        BY <1>2, <2>2, <3>1
      <3> QED
        BY <1>3, <3>2
    <2> QED
      BY <2>2, <2>3
  <1>6. AnswersDecide(rest, ms, who, ep, p, lg)
    BY <1>2 DEF AtMostOne, AnswersDecide
  <1>7. OneIsMine(ms, who, ep, busy)
    BY DEF AtMostOne
  <1>8. AtMostOne(rest, ms, who, ep, busy, p, lg)
    BY <1>4, <1>5, <1>6, <1>7 DEF AtMostOne
  <1> QED
    BY <1>8 DEF rest

LEMMA CallTaken ==
    ASSUME NEW cs, NEW ms, NEW who, NEW ep, NEW busy, NEW p, NEW lg,
           Underway(cs, ms, who, ep, busy, p, lg), cs # <<>>, ~cs[1].awaited
    PROVE  Underway(Tail(cs), ms, who, ep, busy, p, lg)
  <1> DEFINE rest == Tail(cs)
  <1>1. AtMostOne(rest, ms, who, ep, busy, p, lg)
    BY CallGone DEF Underway
  <1>2. IsSeq(cs) /\ Len(cs) \in Nat /\ DOMAIN cs = 1..Len(cs)
    BY SeqFacts DEF Underway, AtMostOne, Queued
  <1>3. DOMAIN rest = 1..(Len(cs) - 1) /\ \A i \in DOMAIN rest : rest[i] = cs[i + 1]
    BY <1>2, SeqTail
  <1> HIDE DEF rest
  <1>4. ASSUME NEW i \in DOMAIN cs, Waits(cs[i], who, ep)
        PROVE  \E j \in DOMAIN rest : Waits(rest[j], who, ep)
    <2>1. i # 1
      BY <1>4 DEF Waits
    <2>2. i - 1 \in DOMAIN rest /\ (i - 1) + 1 = i
      BY <1>2, <1>3, <2>1
    <2> QED
      BY <1>3, <1>4, <2>2
  <1>5. Awaits(rest, ms, who, ep, busy)
    BY <1>4 DEF Underway, Awaits
  <1> QED
    BY <1>1, <1>5 DEF Underway, rest

\* A reply to a call that is gone: the object did not wait for anything
\* else, and a decision comes when no attempt is left.
LEMMA ReplyArrives ==
    ASSUME NEW cs, NEW ms, NEW who, NEW ep, NEW busy, NEW p, NEW lg, NEW m,
           AtMostOne(cs, ms, who, ep, busy, p, lg),
           IsReply(m), m.call.from = who => m.call.epoch \in 0..ep,
           Mine(m, who, ep) =>
                /\ busy
                /\ \A i \in DOMAIN cs : ~Waits(cs[i], who, ep)
                /\ \A i \in DOMAIN ms : ~Mine(ms[i], who, ep),
           Mine(m, who, ep) /\ ~m.error =>
                /\ \A j \in DOMAIN cs : cs[j].call.from # who
                /\ TellsTruth(m, p, lg)
    PROVE  /\ AtMostOne(cs, Append(ms, m), who, ep, busy, p, lg)
           /\ Awaits(cs, ms, who, ep, busy) \/ Mine(m, who, ep) =>
                Awaits(cs, Append(ms, m), who, ep, busy)
  <1> DEFINE new == Append(ms, m)
  <1>1. IsSeq(ms)
    BY DEF AtMostOne, Queued
  <1>2. /\ IsSeq(new)
        /\ DOMAIN new = 1..(Len(ms) + 1) /\ DOMAIN ms \subseteq DOMAIN new
        /\ \A i \in DOMAIN ms : new[i] = ms[i]
        /\ new[Len(ms) + 1] = m
    BY <1>1, SeqAppend
  <1>3. Len(ms) \in Nat /\ DOMAIN ms = 1..Len(ms)
    BY <1>1, SeqFacts
  <1> HIDE DEF new
  <1>4. \A i \in DOMAIN new : \/ i \in DOMAIN ms /\ new[i] = ms[i]
                              \/ i = Len(ms) + 1 /\ new[i] = m
    <2>1. \A i \in 1..(Len(ms) + 1) : i \in 1..Len(ms) \/ i = Len(ms) + 1
      BY <1>3
    <2> QED
      BY <1>2, <1>3, <2>1
  <1>5. \A i \in DOMAIN new : IsMessage(new[i], who, ep)
    <2>1. IsMessage(m, who, ep)
      BY DEF IsMessage
    <2> QED
      BY <1>4, <2>1 DEF AtMostOne, Queued
  <1>6. LastWaits(cs, new, who, ep, busy)
    BY <1>4 DEF AtMostOne, LastWaits
  <1>7. OneIsMine(new, who, ep, busy)
    BY <1>4 DEF AtMostOne, OneIsMine
  <1>8. AnswersDecide(cs, new, who, ep, p, lg)
    BY <1>4 DEF AtMostOne, AnswersDecide
  <1>9. AtMostOne(cs, new, who, ep, busy, p, lg)
    BY <1>2, <1>5, <1>6, <1>7, <1>8 DEF AtMostOne, Queued
  <1>10. ASSUME Awaits(cs, ms, who, ep, busy) \/ Mine(m, who, ep)
         PROVE  Awaits(cs, new, who, ep, busy)
    <2>1. Len(ms) + 1 \in DOMAIN new
      BY <1>2, <1>3
    <2> QED
      BY <1>2, <1>10, <2>1 DEF Awaits
  <1> QED
    BY <1>9, <1>10 DEF new

\* Who waits for the first call is told the answer.
LEMMA CallAnswered ==
    ASSUME NEW cs, NEW ms, NEW who, NEW ep, NEW busy, NEW p, NEW lg, NEW m,
           Underway(cs, ms, who, ep, busy, p, lg), cs # <<>>, cs[1].awaited,
           IsReply(m), m.call = cs[1].call, m.call.from = who => TellsTruth(m, p, lg)
    PROVE  Underway(Tail(cs), Append(ms, m), who, ep, busy, p, lg)
  <1> DEFINE rest == Tail(cs)
  <1>1. IsSeq(cs)
    BY DEF Underway, AtMostOne, Queued
  <1>2. /\ IsSeq(rest) /\ DOMAIN rest = 1..(Len(cs) - 1) /\ 1 \in DOMAIN cs
        /\ \A i \in DOMAIN rest : i + 1 \in DOMAIN cs /\ rest[i] = cs[i + 1]
    BY <1>1, SeqTail
  <1>3. Len(cs) \in Nat /\ DOMAIN cs = 1..Len(cs)
    BY <1>1, SeqFacts
  <1>4. AtMostOne(rest, ms, who, ep, busy, p, lg)
    BY CallGone DEF Underway
  <1> HIDE DEF rest
  <1>5. m.call.from = who => m.call.epoch \in 0..ep
    BY <1>2 DEF Underway, AtMostOne, Queued, IsCall
  <1>6. ASSUME Mine(m, who, ep)
        PROVE  /\ busy
               /\ \A i \in DOMAIN rest : rest[i].call.from # who
               /\ \A i \in DOMAIN ms : ~Mine(ms[i], who, ep)
    <2>1. Waits(cs[1], who, ep)
      BY <1>6 DEF Mine, Waits
    <2>2. /\ busy /\ \A i \in DOMAIN ms : ~Mine(ms[i], who, ep)
          /\ \A j \in DOMAIN cs : cs[j].call.from = who => j <= 1
      BY <1>2, <2>1 DEF Underway, AtMostOne, LastWaits
    <2>3. \A i \in DOMAIN rest : rest[i].call.from # who
      BY <1>2, <1>3, <2>2
    <2> QED
      BY <2>2, <2>3
  <1>7. Mine(m, who, ep) => \A i \in DOMAIN rest : ~Waits(rest[i], who, ep)
    BY <1>6 DEF Waits
  <1>8. Mine(m, who, ep) => TellsTruth(m, p, lg)
    BY DEF Mine
  <1>9. /\ AtMostOne(rest, Append(ms, m), who, ep, busy, p, lg)
        /\ Awaits(rest, ms, who, ep, busy) \/ Mine(m, who, ep) =>
                Awaits(rest, Append(ms, m), who, ep, busy)
    BY <1>4, <1>5, <1>6, <1>7, <1>8, ReplyArrives
  <1>10. Awaits(rest, ms, who, ep, busy) \/ Mine(m, who, ep)
    <2>1. CASE Waits(cs[1], who, ep)
      BY <2>1 DEF Waits, Mine, IsReply
    <2>2. CASE ~Waits(cs[1], who, ep)
      <3>1. ASSUME NEW i \in DOMAIN cs, Waits(cs[i], who, ep)
            PROVE  \E j \in DOMAIN rest : Waits(rest[j], who, ep)
        <4>1. i # 1
          BY <2>2, <3>1
        <4>2. i - 1 \in DOMAIN rest /\ (i - 1) + 1 = i
          BY <1>2, <1>3, <4>1
        <4> QED
          BY <1>2, <3>1, <4>2
      <3> QED
        BY <3>1 DEF Underway, Awaits
    <2> QED
      BY <2>1, <2>2
  <1> QED
    BY <1>9, <1>10 DEF Underway, rest

LEMMA ErrorsAreReplies ==
    ASSUME NEW call, CallOf(call)
    PROVE  /\ IsReply(ErrorReply(call)) /\ ErrorReply(call).call = call
           /\ ErrorReply(call).error /\ ErrorReply(call).kind = "reply"
  BY DEF ErrorReply, IsReply

\* The caller gives up on a call, which is still on its way.
LEMMA CallGivenUp ==
    ASSUME NEW cs, NEW ms, NEW who, NEW ep, NEW busy, NEW p, NEW lg, NEW i \in DOMAIN cs,
           Underway(cs, ms, who, ep, busy, p, lg), cs[i].awaited
    PROVE  Underway([cs EXCEPT ![i].awaited = FALSE], Append(ms, ErrorReply(cs[i].call)),
                    who, ep, busy, p, lg)
  <1> DEFINE new == [cs EXCEPT ![i].awaited = FALSE]
             c == [cs[i] EXCEPT !.awaited = FALSE]
             m == ErrorReply(cs[i].call)
  <1>1. IsSeq(cs) /\ IsCall(cs[i], who, ep, p) /\ IsSeq(ms)
    BY DEF Underway, AtMostOne, Queued
  <1>2. c.call = cs[i].call /\ c.awaited = FALSE /\ DOMAIN c = {"call", "awaited"}
    BY <1>1, Zenon DEF IsCall
  <1>3. new = [cs EXCEPT ![i] = c]
    BY Zenon
  <1> HIDE DEF c
  <1>4. /\ IsSeq(new) /\ DOMAIN new = DOMAIN cs /\ new[i] = c
        /\ \A j \in DOMAIN cs : j # i => new[j] = cs[j]
    BY <1>1, <1>3, SeqExcept
  <1> HIDE DEF new
  <1>5. \A j \in DOMAIN cs : new[j].call = cs[j].call
                             /\ (Waits(new[j], who, ep) <=> j # i /\ Waits(cs[j], who, ep))
    BY <1>2, <1>4 DEF Waits
  <1>6. Queued(new, ms, who, ep, p)
    <2>1. IsCall(c, who, ep, p)
      BY <1>1, <1>2 DEF IsCall
    <2> QED
      BY <1>4, <2>1 DEF Underway, AtMostOne, Queued
  <1>7. LastWaits(new, ms, who, ep, busy)
    BY <1>4, <1>5 DEF Underway, AtMostOne, LastWaits
  <1>8. AnswersDecide(new, ms, who, ep, p, lg)
    BY <1>4, <1>5 DEF Underway, AtMostOne, AnswersDecide
  <1>9. AtMostOne(new, ms, who, ep, busy, p, lg)
    BY <1>6, <1>7, <1>8 DEF Underway, AtMostOne
  <1>10. IsReply(m) /\ m.call = cs[i].call /\ m.error /\ m.kind = "reply"
    BY <1>1, ErrorsAreReplies DEF IsCall
  <1>11. m.call.from = who => m.call.epoch \in 0..ep
    BY <1>1, <1>10 DEF IsCall
  <1> HIDE DEF m
  <1>12. ASSUME Mine(m, who, ep)
         PROVE  /\ busy
                /\ \A j \in DOMAIN new : ~Waits(new[j], who, ep)
                /\ \A j \in DOMAIN ms : ~Mine(ms[j], who, ep)
    <2>1. Waits(cs[i], who, ep)
      BY <1>10, <1>12 DEF Mine, Waits
    <2>2. /\ busy /\ \A j \in DOMAIN ms : ~Mine(ms[j], who, ep)
          /\ \A j \in DOMAIN cs : cs[j].call.from = who => j <= i
      BY <2>1 DEF Underway, AtMostOne, LastWaits
    <2>3. ASSUME NEW j \in DOMAIN new, Waits(new[j], who, ep) PROVE FALSE
      <3>1. j \in DOMAIN cs /\ Waits(cs[j], who, ep) /\ j # i
        BY <1>4, <1>5, <2>3
      <3>2. i <= j /\ j <= i
        BY <2>1, <2>2, <3>1 DEF Underway, AtMostOne, LastWaits, Waits
      <3> QED
        BY <1>1, <3>1, <3>2, SeqFacts
    <2> QED
      BY <2>2, <2>3
  <1>13. /\ AtMostOne(new, Append(ms, m), who, ep, busy, p, lg)
         /\ Awaits(new, ms, who, ep, busy) \/ Mine(m, who, ep) =>
                Awaits(new, Append(ms, m), who, ep, busy)
    BY <1>9, <1>10, <1>11, <1>12, ReplyArrives
  <1>14. Awaits(new, ms, who, ep, busy) \/ Mine(m, who, ep)
    <2>1. CASE Waits(cs[i], who, ep)
      BY <1>10, <2>1 DEF Waits, Mine
    <2>2. CASE ~Waits(cs[i], who, ep)
      BY <1>4, <1>5, <2>2 DEF Underway, Awaits
    <2> QED
      BY <2>1, <2>2
  <1> QED
    BY <1>13, <1>14 DEF Underway, new, m

\* The bus fails all calls at once: who waits for one is told so.
LEMMA CallsFail ==
    ASSUME NEW ms, NEW who, NEW ep, NEW busy, NEW p, NEW lg, NEW errors \in ErrorReplies,
           Underway(calls, ms, who, ep, busy, p, lg)
    PROVE  /\ Underway(<<>>, ms \o errors, who, ep, busy, p, lg)
           /\ IsSeq(errors)
           /\ \A i \in DOMAIN errors : IsReply(errors[i]) /\ errors[i].error
  <1> DEFINE S == {i \in DOMAIN calls : calls[i].awaited}
             n == Cardinality(S)
             new == ms \o errors
  <1>0. AtMostOne(calls, ms, who, ep, busy, p, lg)
    BY DEF Underway
  <1>1. IsSeq(calls) /\ IsSeq(ms)
    BY <1>0 DEF AtMostOne, Queued
  <1>2. Len(calls) \in Nat /\ DOMAIN calls = 1..Len(calls) /\ Len(ms) \in Nat /\ DOMAIN ms = 1..Len(ms)
    BY <1>1, SeqFacts
  <1>3. IsFiniteSet(S) /\ n \in Nat
    <2>1. IsFiniteSet(1..Len(calls))
      BY <1>2, FS_Interval
    <2>2. IsFiniteSet(S)
      BY <1>2, <2>1, FS_Subset
    <2> QED
      BY <2>2, FS_CardinalityType
  <1>4. PICK f \in InOrder(S) : errors = [i \in DOMAIN f |-> ErrorReply(calls[f[i]].call)]
    BY DEF ErrorReplies
  <1>5. f \in [1..n -> S] /\ \A i, j \in DOMAIN f : i < j => f[i] < f[j]
    BY <1>4 DEF InOrder
  <1>6. /\ DOMAIN errors = 1..n
        /\ \A i \in 1..n : f[i] \in S /\ errors[i] = ErrorReply(calls[f[i]].call)
    BY <1>4, <1>5
  <1>7. \A i, j \in 1..n : f[i] = f[j] => i = j
    <2> SUFFICES ASSUME NEW i \in 1..n, NEW j \in 1..n, f[i] = f[j], i # j PROVE FALSE
      OBVIOUS
    <2>1. f[i] \in Nat /\ f[j] \in Nat
      BY <1>2, <1>5
    <2>2. i < j \/ j < i
      BY <1>3
    <2> QED
      BY <1>5, <2>1, <2>2
  <1>8. IsSeq(errors)
    <2>1. errors \in [1..n -> {errors[i] : i \in 1..n}]
      BY <1>4, <1>5
    <2>2. errors \in Seq({errors[i] : i \in 1..n})
      BY <1>3, <2>1, SeqDef
    <2> QED
      BY <2>2 DEF IsSeq
  <1>9. Len(errors) = n
    BY <1>3, <1>6, <1>8, SeqFacts
  <1>17. \A i \in S : \E k \in 1..n : f[k] = i
    <2>1. Cardinality(1..n) = n
      BY <1>3, FS_Interval
    <2>2. f \in Injection(1..n, S)
      BY <1>5, <1>7 DEF Injection, IsInjective
    <2>3. f \in Surjection(1..n, S)
      BY <1>3, <2>1, <2>2, FS_Injection
    <2> QED
      BY <2>3 DEF Surjection
  <1> HIDE DEF n, S
  <1>10. /\ IsSeq(new) /\ DOMAIN new = 1..(Len(ms) + n)
         /\ DOMAIN ms \subseteq DOMAIN new
         /\ \A i \in DOMAIN ms : new[i] = ms[i]
         /\ \A i \in DOMAIN new : i \notin DOMAIN ms =>
                i - Len(ms) \in 1..n /\ new[i] = errors[i - Len(ms)]
    <2>1. /\ IsSeq(new) /\ DOMAIN new = 1..(Len(ms) + Len(errors))
          /\ DOMAIN ms \subseteq DOMAIN new
          /\ \A i \in DOMAIN ms : new[i] = ms[i]
          /\ \A i \in DOMAIN new : i \notin DOMAIN ms =>
                i - Len(ms) \in DOMAIN errors /\ new[i] = errors[i - Len(ms)]
      BY <1>1, <1>8, SeqConcat
    <2> HIDE DEF new
    <2> QED
      BY <1>6, <1>9, <2>1
  <1> HIDE DEF new
  <1>11. ASSUME NEW i \in 1..n
         PROVE  /\ IsReply(errors[i]) /\ errors[i].error
                /\ f[i] \in DOMAIN calls
                /\ errors[i].call = calls[f[i]].call /\ CallOf(errors[i].call)
                /\ errors[i].call.from = who => errors[i].call.epoch \in 0..ep
                /\ Mine(errors[i], who, ep) <=> Waits(calls[f[i]], who, ep)
    <2>1. f[i] \in DOMAIN calls /\ calls[f[i]].awaited
      BY <1>6 DEF S
    <2>2. CallOf(calls[f[i]].call)
          /\ (calls[f[i]].call.from = who => calls[f[i]].call.epoch \in 0..ep)
      BY <1>0, <2>1 DEF AtMostOne, Queued, IsCall
    <2>3. /\ IsReply(errors[i]) /\ errors[i].error /\ errors[i].call = calls[f[i]].call
          /\ errors[i].kind = "reply"
      BY <1>6, <2>2, ErrorsAreReplies
    <2> QED
      BY <2>1, <2>2, <2>3 DEF Mine, Waits
  <1>12. Queued(<<>>, new, who, ep, p)
    <2>1. \A i \in 1..n : IsMessage(errors[i], who, ep)
      BY <1>11 DEF IsMessage
    <2>2. \A i \in DOMAIN new : IsMessage(new[i], who, ep)
      BY <1>0, <1>10, <2>1 DEF AtMostOne, Queued
    <2> QED
      BY <1>10, <2>2, ListIsSeq DEF Queued
  <1>13. LastWaits(<<>>, new, who, ep, busy)
    BY DEF LastWaits
  <1>14. OneIsMine(new, who, ep, busy)
    <2> SUFFICES ASSUME NEW i \in DOMAIN new, NEW j \in DOMAIN new, Mine(new[i], who, ep)
                 PROVE  busy /\ (Mine(new[j], who, ep) => i = j)
      BY DEF OneIsMine
    <2>1. CASE i \in DOMAIN ms
      <3>1. Mine(ms[i], who, ep)
        BY <1>10, <2>1
      <3>2. \A k \in DOMAIN calls : ~Waits(calls[k], who, ep)
        BY <1>0, <2>1, <3>1 DEF AtMostOne, LastWaits
      <3>3. Mine(new[j], who, ep) => j \in DOMAIN ms /\ Mine(ms[j], who, ep)
        BY <1>10, <1>11, <3>2
      <3> QED
        BY <1>0, <2>1, <3>1, <3>3 DEF AtMostOne, OneIsMine
    <2>2. CASE i \notin DOMAIN ms
      <3>1. i - Len(ms) \in 1..n /\ Waits(calls[f[i - Len(ms)]], who, ep) /\ f[i - Len(ms)] \in DOMAIN calls
        BY <1>10, <1>11, <2>2
      <3>2. /\ busy /\ \A k \in DOMAIN ms : ~Mine(ms[k], who, ep)
            /\ \A k \in DOMAIN calls : calls[k].call.from = who => k <= f[i - Len(ms)]
        BY <1>0, <3>1 DEF AtMostOne, LastWaits
      <3>3. ASSUME Mine(new[j], who, ep) PROVE i = j
        <4>1. j \notin DOMAIN ms
          BY <1>10, <3>2, <3>3
        <4>2. j - Len(ms) \in 1..n /\ Waits(calls[f[j - Len(ms)]], who, ep) /\ f[j - Len(ms)] \in DOMAIN calls
          BY <1>10, <1>11, <3>3, <4>1
        <4>3. f[i - Len(ms)] <= f[j - Len(ms)]
          BY <1>0, <3>1, <4>2 DEF AtMostOne, LastWaits, Waits
        <4>4. f[j - Len(ms)] <= f[i - Len(ms)]
          BY <3>2, <4>2 DEF Waits
        <4>5. f[i - Len(ms)] = f[j - Len(ms)]
          BY <1>2, <3>1, <4>2, <4>3, <4>4
        <4>6. i - Len(ms) = j - Len(ms)
          BY <1>7, <3>1, <4>2, <4>5
        <4> QED
          BY <1>2, <1>3, <1>10, <4>6
      <3> QED
        BY <3>2, <3>3
    <2> QED
      BY <2>1, <2>2
  <1>15. AnswersDecide(<<>>, new, who, ep, p, lg)
    <2>1. \A i \in DOMAIN new : ~new[i].error => i \in DOMAIN ms /\ new[i] = ms[i]
      BY <1>10, <1>11
    <2> QED
      BY <1>0, <2>1 DEF AtMostOne, AnswersDecide
  <1>16. AtMostOne(<<>>, new, who, ep, busy, p, lg)
    BY <1>12, <1>13, <1>14, <1>15 DEF AtMostOne
  <1>18. Awaits(<<>>, new, who, ep, busy)
    <2> SUFFICES ASSUME busy PROVE \E i \in DOMAIN new : Mine(new[i], who, ep)
      BY DEF Awaits
    <2>1. CASE \E i \in DOMAIN ms : Mine(ms[i], who, ep)
      BY <1>10, <2>1
    <2>2. CASE \E i \in DOMAIN calls : Waits(calls[i], who, ep)
      <3>1. PICK i \in DOMAIN calls : Waits(calls[i], who, ep)
        BY <2>2
      <3>2. PICK k \in 1..n : f[k] = i
        BY <1>17, <3>1 DEF Waits, S
      <3>3. Mine(errors[k], who, ep)
        BY <1>11, <3>1, <3>2
      <3>4. /\ Len(ms) + k \in DOMAIN new /\ Len(ms) + k \notin DOMAIN ms
            /\ (Len(ms) + k) - Len(ms) = k
        BY <1>2, <1>3, <1>10
      <3>5. new[Len(ms) + k] = errors[k]
        BY <1>10, <3>4
      <3> QED
        BY <3>3, <3>4, <3>5
    <2> QED
      BY <2>1, <2>2 DEF Underway, Awaits
  <1>19. \A i \in DOMAIN errors : IsReply(errors[i]) /\ errors[i].error
    BY <1>6, <1>11
  <1> QED
    BY <1>8, <1>16, <1>18, <1>19 DEF Underway, new
-----------------------------------------------------------------------------
(* What the client and the service do to what is on its way.               *)

\* After a change of owner nothing that is on its way counts.
LEMMA OwnerForgotten ==
    ASSUME NEW cs, NEW ms, NEW who, NEW ep \in Nat, NEW busy, NEW p, NEW lg,
           Underway(cs, ms, who, ep, busy, p, lg)
    PROVE  Underway(cs, ms, who, ep + 1, FALSE, p, lg)
  <1>1. \A n \in 0..ep : n \in 0..(ep + 1) /\ n # ep + 1
    OBVIOUS
  <1>2. \A i \in DOMAIN cs : ~Waits(cs[i], who, ep + 1)
    BY <1>1 DEF Underway, AtMostOne, Queued, IsCall, Waits
  <1>3. \A i \in DOMAIN ms : ~Mine(ms[i], who, ep + 1)
    BY <1>1 DEF Underway, AtMostOne, Queued, IsMessage, IsNews, Mine
  <1>4. Queued(cs, ms, who, ep + 1, p)
    BY <1>1 DEF Underway, AtMostOne, Queued, IsCall, IsMessage
  <1> QED
    BY <1>2, <1>3, <1>4 DEF Underway, AtMostOne, LastWaits, OneIsMine, AnswersDecide, Awaits

\* The object takes its answer: it waits for nothing, and when the answer
\* decides, no attempt is left.
LEMMA AnswerTaken ==
    ASSUME NEW cs, NEW ms, NEW who, NEW ep, NEW busy, NEW p, NEW lg,
           Underway(cs, ms, who, ep, busy, p, lg), ms # <<>>, Mine(ms[1], who, ep)
    PROVE  /\ Underway(cs, Tail(ms), who, ep, FALSE, p, lg)
           /\ ~ms[1].error => \A q : Underway(cs, Tail(ms), who, ep, FALSE, q, lg)
           /\ \A i \in DOMAIN Tail(ms) : ~Mine(Tail(ms)[i], who, ep)
  <1> DEFINE new == Tail(ms)
  <1>0. AtMostOne(cs, ms, who, ep, busy, p, lg)
    BY DEF Underway
  <1>1. IsSeq(ms) /\ Len(ms) \in Nat /\ DOMAIN ms = 1..Len(ms)
    BY <1>0, SeqFacts DEF AtMostOne, Queued
  <1>2. /\ 1 \in DOMAIN ms /\ IsSeq(new)
        /\ \A i \in DOMAIN new : i + 1 \in DOMAIN ms /\ new[i] = ms[i + 1]
        /\ DOMAIN new = 1..(Len(ms) - 1)
    BY <1>1, SeqTail
  <1> HIDE DEF new
  <1>5. \A i \in DOMAIN new : ~Mine(new[i], who, ep)
    <2> SUFFICES ASSUME NEW i \in DOMAIN new, Mine(new[i], who, ep) PROVE FALSE
      OBVIOUS
    <2>1. i + 1 \in DOMAIN ms /\ Mine(ms[i + 1], who, ep) /\ i + 1 # 1
      BY <1>1, <1>2
    <2> QED
      BY <1>0, <1>2, <2>1 DEF AtMostOne, OneIsMine
  <1>6. \A i \in DOMAIN cs : ~Waits(cs[i], who, ep)
    BY <1>0, <1>2 DEF AtMostOne, LastWaits
  <1>7. Queued(cs, new, who, ep, p)
    BY <1>0, <1>2 DEF AtMostOne, Queued
  <1>8. Underway(cs, new, who, ep, FALSE, p, lg)
    BY <1>5, <1>6, <1>7 DEF Underway, AtMostOne, LastWaits, OneIsMine, AnswersDecide, Awaits
  <1>9. ASSUME ~ms[1].error, NEW q PROVE Underway(cs, new, who, ep, FALSE, q, lg)
    <2>1. \A i \in DOMAIN cs : cs[i].call.from # who
      BY <1>0, <1>2, <1>9 DEF AtMostOne, AnswersDecide
    <2>2. Queued(cs, new, who, ep, q)
      BY <1>7, <2>1 DEF Queued, IsCall
    <2> QED
      BY <1>5, <1>6, <2>2 DEF Underway, AtMostOne, LastWaits, OneIsMine, AnswersDecide, Awaits
  <1> QED
    BY <1>5, <1>8, <1>9 DEF new

\* A client that waits for nothing and has nothing pending may begin.
LEMMA OperationBegins ==
    ASSUME NEW cs, NEW ms, NEW who, NEW ep, NEW busy, NEW lg, NEW p, ~busy,
           Underway(cs, ms, who, ep, busy, NoOperation, lg)
    PROVE  Underway(cs, ms, who, ep, busy, p, lg)
  <1>1. \A i \in DOMAIN ms : ~Mine(ms[i], who, ep)
    BY DEF Underway, AtMostOne, OneIsMine
  <1>2. \A i \in DOMAIN cs : IsCall(cs[i], who, ep, p)
    BY DEF Underway, AtMostOne, Queued, IsCall, AttemptOf
  <1> QED
    BY <1>1, <1>2 DEF Underway, AtMostOne, Queued, AnswersDecide

\* An operation takes effect: another one, or while an attempt is there.
LEMMA LogGrows ==
    ASSUME NEW cs, NEW ms, NEW who, NEW ep, NEW busy, NEW p, NEW lg, NEW row,
           Underway(cs, ms, who, ep, busy, p, lg),
           row.op # p.op \/ \E i \in DOMAIN cs : cs[i].call.from = who
    PROVE  Underway(cs, ms, who, ep, busy, p, lg \cup {row})
  <1>1. AnswersDecide(cs, ms, who, ep, p, lg \cup {row})
    BY DEF Underway, AtMostOne, AnswersDecide, TellsTruth
  <1> QED
    BY <1>1 DEF Underway, AtMostOne

LEMMA CallMade ==
    ASSUME NEW cs, NEW ms, NEW who, NEW ep, NEW busy, NEW p, NEW lg, NEW call,
           Underway(cs, ms, who, ep, busy, p, lg), IsCall(Awaited(call), who, ep, p),
           call.from = who => ~busy /\ call.epoch = ep
    PROVE  /\ call.from = who => Underway(Append(cs, Awaited(call)), ms, who, ep, TRUE, p, lg)
           /\ call.from # who => Underway(Append(cs, Awaited(call)), ms, who, ep, busy, p, lg)
  <1> DEFINE new == Append(cs, Awaited(call))
  <1>0. AtMostOne(cs, ms, who, ep, busy, p, lg)
    BY DEF Underway
  <1>1. IsSeq(cs)
    BY <1>0 DEF AtMostOne, Queued
  <1>2. /\ IsSeq(new)
        /\ DOMAIN new = 1..(Len(cs) + 1) /\ DOMAIN cs \subseteq DOMAIN new
        /\ \A i \in DOMAIN cs : new[i] = cs[i]
        /\ new[Len(cs) + 1] = Awaited(call)
    BY <1>1, SeqAppend
  <1>3. Len(cs) \in Nat /\ DOMAIN cs = 1..Len(cs)
    BY <1>1, SeqFacts
  <1> HIDE DEF new
  <1>4. \A i \in DOMAIN new : \/ i \in DOMAIN cs /\ i < Len(cs) + 1 /\ new[i] = cs[i]
                              \/ i = Len(cs) + 1 /\ new[i] = Awaited(call)
    <2>1. \A i \in 1..(Len(cs) + 1) : (i \in 1..Len(cs) /\ i < Len(cs) + 1) \/ i = Len(cs) + 1
      BY <1>3
    <2> QED
      BY <1>2, <1>3, <2>1
  <1>5. Queued(new, ms, who, ep, p)
    BY <1>0, <1>2, <1>4 DEF AtMostOne, Queued
  <1>6. Awaited(call).call = call /\ Awaited(call).awaited = TRUE
    BY DEF Awaited
  <1>7. CASE call.from = who
    <2>1. /\ \A i \in DOMAIN cs : ~Waits(cs[i], who, ep)
          /\ \A i \in DOMAIN ms : ~Mine(ms[i], who, ep)
      BY <1>0, <1>7 DEF AtMostOne, LastWaits, OneIsMine
    <2>2. LastWaits(new, ms, who, ep, TRUE)
      <3> SUFFICES ASSUME NEW i \in DOMAIN new, Waits(new[i], who, ep)
                   PROVE \A j \in DOMAIN new : new[j].call.from = who => j <= i
        BY <2>1 DEF LastWaits
      <3>1. i = Len(cs) + 1
        BY <1>4, <2>1
      <3> QED
        BY <1>2, <1>3, <3>1
    <2>3. OneIsMine(ms, who, ep, TRUE) /\ AnswersDecide(new, ms, who, ep, p, lg)
      BY <2>1 DEF OneIsMine, AnswersDecide
    <2>4. Awaits(new, ms, who, ep, TRUE)
      <3>1. Len(cs) + 1 \in DOMAIN new /\ Waits(new[Len(cs) + 1], who, ep)
        BY <1>2, <1>3, <1>6, <1>7 DEF Waits
      <3> QED
        BY <3>1 DEF Awaits
    <2>5. Underway(new, ms, who, ep, TRUE, p, lg)
      BY <1>5, <2>2, <2>3, <2>4 DEF Underway, AtMostOne
    <2> QED
      BY <1>7, <2>5 DEF new
  <1>8. CASE call.from # who
    <2>1. LastWaits(new, ms, who, ep, busy)
      BY <1>0, <1>4, <1>6, <1>8 DEF AtMostOne, LastWaits, Waits
    <2>2. AnswersDecide(new, ms, who, ep, p, lg) /\ OneIsMine(ms, who, ep, busy)
      BY <1>0, <1>4, <1>6, <1>8 DEF AtMostOne, AnswersDecide
    <2>3. Awaits(new, ms, who, ep, busy)
      BY <1>2 DEF Underway, Awaits
    <2>4. Underway(new, ms, who, ep, busy, p, lg)
      BY <1>5, <2>1, <2>2, <2>3 DEF Underway, AtMostOne
    <2> QED
      BY <1>8, <2>4 DEF new
  <1> QED
    BY <1>7, <1>8

\* Exactly one answer is due while the object is busy.
LEMMA OneIsDue ==
    ASSUME NEW cs, NEW ms, NEW who, NEW ep, NEW busy, NEW p, NEW lg,
           Underway(cs, ms, who, ep, busy, p, lg)
    PROVE  LET due == {i \in DOMAIN cs : /\ cs[i].awaited /\ cs[i].call.from = who
                                         /\ cs[i].call.epoch = ep}
               here == {i \in DOMAIN ms : /\ ms[i].kind = "reply" /\ ms[i].to = {who}
                                          /\ ms[i].call.epoch = ep}
           IN  Cardinality(due) + Cardinality(here) = IF busy THEN 1 ELSE 0
  <1> DEFINE due == {i \in DOMAIN cs : /\ cs[i].awaited /\ cs[i].call.from = who
                                       /\ cs[i].call.epoch = ep}
             here == {i \in DOMAIN ms : /\ ms[i].kind = "reply" /\ ms[i].to = {who}
                                        /\ ms[i].call.epoch = ep}
  <1>0. AtMostOne(cs, ms, who, ep, busy, p, lg)
    BY DEF Underway
  <1>1. \A i \in DOMAIN cs : i \in due <=> Waits(cs[i], who, ep)
    BY DEF Waits
  <1>2. \A i \in DOMAIN ms : i \in here <=> Mine(ms[i], who, ep)
    <2> SUFFICES ASSUME NEW i \in DOMAIN ms PROVE i \in here <=> Mine(ms[i], who, ep)
      OBVIOUS
    <2>1. ms[i].kind = "reply" => ms[i].to = {ms[i].call.from}
      BY <1>0 DEF AtMostOne, Queued, IsMessage, IsNews, IsReply
    <2>2. \A x : {x} = {who} <=> x = who
      OBVIOUS
    <2>3. ms[i].kind = "reply" => (ms[i].to = {who} <=> ms[i].call.from = who)
      BY <2>1, <2>2
    <2> QED
      BY <2>3 DEF Mine
  <1>3. due \subseteq DOMAIN cs /\ here \subseteq DOMAIN ms
    OBVIOUS
  <1>4. DOMAIN cs \subseteq Nat
    BY <1>0, SeqFacts DEF AtMostOne, Queued
  <1> HIDE DEF due, here
  <1>5. CASE ~busy
    <2>1. due = {} /\ here = {}
      BY <1>0, <1>1, <1>2, <1>3, <1>5 DEF AtMostOne, LastWaits, OneIsMine
    <2>2. Cardinality(due) = 0 /\ Cardinality(here) = 0
      BY <2>1, FS_EmptySet
    <2> QED
      BY <1>5, <2>2 DEF due, here
  <1>6. CASE busy /\ \E i \in DOMAIN cs : Waits(cs[i], who, ep)
    <2>1. PICK i \in DOMAIN cs : Waits(cs[i], who, ep)
      BY <1>6
    <2>2. here = {}
      BY <1>0, <1>2, <1>3, <2>1 DEF AtMostOne, LastWaits
    <2>3. \A j \in due : j = i
      <3> SUFFICES ASSUME NEW j \in due PROVE j = i
        OBVIOUS
      <3>1. j \in DOMAIN cs /\ Waits(cs[j], who, ep)
        BY <1>1, <1>3
      <3>2. j <= i /\ i <= j
        BY <1>0, <2>1, <3>1 DEF AtMostOne, LastWaits, Waits
      <3> QED
        BY <1>4, <2>1, <3>1, <3>2
    <2>4. due = {i}
      BY <1>1, <2>1, <2>3
    <2>5. Cardinality(due) = 1 /\ Cardinality(here) = 0
      BY <2>2, <2>4, FS_EmptySet, FS_Singleton
    <2> QED
      BY <1>6, <2>5 DEF due, here
  <1>7. CASE busy /\ \E i \in DOMAIN ms : Mine(ms[i], who, ep)
    <2>1. PICK i \in DOMAIN ms : Mine(ms[i], who, ep)
      BY <1>7
    <2>2. due = {}
      BY <1>0, <1>1, <1>3, <2>1 DEF AtMostOne, LastWaits
    <2>3. here = {i}
      BY <1>0, <1>2, <1>3, <2>1 DEF AtMostOne, OneIsMine
    <2>4. Cardinality(due) = 0 /\ Cardinality(here) = 1
      BY <2>2, <2>3, FS_EmptySet, FS_Singleton
    <2> QED
      BY <1>7, <2>4 DEF due, here
  <1> QED
    BY <1>5, <1>6, <1>7 DEF Underway, Awaits
-----------------------------------------------------------------------------
(* The calls of a handler leave.                                           *)

LEMMA OutgoingCalls ==
    /\ Outgoing(<<>>) = <<>>
    /\ \A s, x : IsSeq(s) => IsSeq(Outgoing(s))
                             /\ Outgoing(Append(s, x)) = Append(Outgoing(s), Awaited(x))
  <1>2. ASSUME NEW s, IsSeq(s)
        PROVE  IsSeq(Outgoing(s)) /\ Len(Outgoing(s)) = Len(s)
               /\ \A i \in 1..Len(s) : Outgoing(s)[i] = Awaited(s[i])
    <2> DEFINE o == Outgoing(s)
               T == {Awaited(s[i]) : i \in 1..Len(s)}
    <2>1. Len(s) \in Nat /\ DOMAIN s = 1..Len(s)
      BY <1>2, SeqFacts
    <2>2. o = [i \in 1..Len(s) |-> Awaited(s[i])]
      BY <2>1 DEF Outgoing
    <2>3. o \in [1..Len(s) -> T] /\ \A i \in 1..Len(s) : o[i] = Awaited(s[i])
      BY <2>2
    <2> HIDE DEF o, T
    <2>4. o \in Seq(T)
      BY <2>1, <2>3, SeqDef
    <2>5. DOMAIN o = 1..Len(s)
      BY <2>3
    <2>6. DOMAIN o = 1..Len(o) /\ Len(o) \in Nat
      BY <2>4, LenProperties
    <2>7. Len(o) = Len(s)
      BY <2>1, <2>5, <2>6
    <2> QED
      BY <2>3, <2>4, <2>7 DEF IsSeq, o
  <1>1. Outgoing(<<>>) = <<>>
    BY <1>2, ListIsSeq, SeqFacts
  <1>3. ASSUME NEW s, NEW x, IsSeq(s)
        PROVE  Outgoing(Append(s, x)) = Append(Outgoing(s), Awaited(x))
    <2> DEFINE t == Append(s, x)
               a == Outgoing(t)
               o == Outgoing(s)
               b == Append(o, Awaited(x))
    <2>1. IsSeq(t) /\ DOMAIN t = 1..(Len(s) + 1)
          /\ (\A i \in DOMAIN s : t[i] = s[i]) /\ t[Len(s) + 1] = x
      BY <1>3, SeqAppend
    <2>2. Len(s) \in Nat /\ DOMAIN s = 1..Len(s)
      BY <1>3, SeqFacts
    <2> HIDE DEF t
    <2>3. Len(t) = Len(s) + 1
      BY <2>1, <2>2, SeqFacts
    <2>4. IsSeq(a) /\ Len(a) = Len(t) /\ \A i \in 1..Len(t) : a[i] = Awaited(t[i])
      BY <1>2, <2>1
    <2>5. IsSeq(o) /\ Len(o) = Len(s) /\ \A i \in 1..Len(s) : o[i] = Awaited(s[i])
      BY <1>2, <1>3
    <2> HIDE DEF a, o
    <2>6. IsSeq(b) /\ DOMAIN b = 1..(Len(o) + 1)
          /\ (\A i \in DOMAIN o : b[i] = o[i]) /\ b[Len(o) + 1] = Awaited(x)
      BY <2>5, SeqAppend
    <2> HIDE DEF b
    <2>7. DOMAIN o = 1..Len(s) /\ DOMAIN a = 1..(Len(s) + 1) /\ DOMAIN b = 1..(Len(s) + 1)
      BY <2>3, <2>4, <2>5, <2>6, SeqFacts
    <2>8. ASSUME NEW i \in 1..(Len(s) + 1) PROVE a[i] = b[i]
      <3>1. CASE i \in 1..Len(s)
        BY <2>1, <2>2, <2>3, <2>4, <2>5, <2>6, <2>7, <3>1
      <3>2. CASE i = Len(s) + 1
        BY <2>1, <2>3, <2>4, <2>5, <2>6, <3>2
      <3> QED
        BY <2>2, <3>1, <3>2
    <2>9. a = b
      <3>1. PICK A : a \in Seq(A)
        BY <2>4 DEF IsSeq
      <3>2. PICK B : b \in Seq(B)
        BY <2>6 DEF IsSeq
      <3> DEFINE C == A \cup B
      <3>3. a \in Seq(C) /\ b \in Seq(C)
        BY <3>1, <3>2, SeqMonotonic
      <3> HIDE DEF C
      <3>4. Len(a) = Len(s) + 1 /\ Len(b) = Len(s) + 1
        BY <2>2, <2>3, <2>4, <2>6, <2>7, SeqFacts
      <3> QED
        BY <2>8, <3>3, <3>4, SeqEqual
    <2> QED
      BY <2>9 DEF a, b, o, t
  <1> QED
    BY <1>1, <1>2, <1>3

LEMMA NoCallsLeave == ASSUME NEW cs, IsSeq(cs) PROVE cs \o Outgoing(<<>>) = cs
  BY OutgoingCalls, ListIsSeq, SeqConcat

LEMMA OneCallLeaves ==
    ASSUME NEW cs, IsSeq(cs), NEW sent, IsSeq(sent), NEW call
    PROVE  cs \o Outgoing(Append(sent, call)) = Append(cs \o Outgoing(sent), Awaited(call))
  <1>1. /\ IsSeq(Outgoing(sent))
        /\ Outgoing(Append(sent, call)) = Append(Outgoing(sent), Awaited(call))
    BY OutgoingCalls
  <1> DEFINE o == Outgoing(sent)
  <1>2. IsSeq(o)
    BY <1>1
  <1> HIDE DEF o
  <1>3. \A x : cs \o Append(o, x) = Append(cs \o o, x)
    BY <1>2, ConcatAppend
  <1> QED
    BY <1>1, <1>3 DEF o
-----------------------------------------------------------------------------
(* The bus and what the service keeps.                                     *)

States == {"STOPPED", "STARTING", "RECOVERING", "READY", "FAILED"}
Started == spent.count["start"]

\* The toast preference may never have been set.
StoredValues == IF kind = "toast" THEN {0, 1, Unset} ELSE Nat
WrittenValues == IF kind = "notifications" THEN Nat ELSE {0, 1}

\* Each start gets a UUID of its own, and the generation on disk counts the
\* recoveries, of which there is at most one for each start.
BusKnown ==
    /\ DOMAIN spent = {"limits", "count"}
    /\ spent.limits \in Limits /\ spent.count \in [Spendable -> Nat]
    /\ Started <= MaxStarts
    /\ service \in [owner : Owners, sequence : Nat, state : States]
    /\ service.owner.uuid <= Started
    /\ service.owner.uuid = 0 => service = NoService
    /\ service.state = "STOPPED" <=> service.owner.uuid = 0
    /\ persistedGeneration \in Nat
    /\ persistedGeneration <= Started
    /\ service.state = "STARTING" => service.sequence = 0 /\ persistedGeneration + 1 <= Started

RegisterKnown ==
    /\ kind \in {"toast", "settings", "notifications"}
    /\ value \in StoredValues /\ revision \in Nat

LEMMA StartsTyped == MaxStarts \in Nat /\ MaxStarts > 0
                     /\ \A limits \in Limits : limits["start"] \in Nat /\ limits["start"] <= MaxStarts
  BY StartsAssumption, LimitsAssumption DEF Spendable

LEMMA Spends ==
    ASSUME DOMAIN spent = {"limits", "count"}, spent.limits \in Limits,
           spent.count \in [Spendable -> Nat], NEW what \in Spendable, Spend(what)
    PROVE  /\ DOMAIN spent' = {"limits", "count"} /\ spent'.limits = spent.limits
           /\ spent'.count \in [Spendable -> Nat]
           /\ spent'.count[what] = spent.count[what] + 1
           /\ spent'.count[what] <= spent.limits[what]
           /\ \A other \in Spendable : other # what => spent'.count[other] = spent.count[other]
  <1>1. spent' = [spent EXCEPT !.count[what] = @ + 1]
    BY DEF Spend
  <1>2. /\ DOMAIN spent' = {"limits", "count"} /\ spent'.limits = spent.limits
        /\ spent'.count = [spent.count EXCEPT ![what] = @ + 1]
    BY <1>1, Zenon
  <1>3. spent.count[what] < spent.limits[what]
    BY DEF Spend, MaySpend
  <1>4. spent.limits[what] \in Nat
    BY LimitsAssumption
  <1>5. /\ spent'.count \in [Spendable -> Nat]
        /\ spent'.count[what] = spent.count[what] + 1
        /\ \A other \in Spendable : other # what => spent'.count[other] = spent.count[other]
    BY <1>2
  <1>6. spent.count[what] \in Nat
    OBVIOUS
  <1> QED
    BY <1>2, <1>3, <1>4, <1>5, <1>6

LEMMA Owned == BusKnown => (Alive <=> service.owner.uuid # 0)
  BY DEF BusKnown, Alive, NoService, NoOwner

\* A step that is no start, and leaves or moves the service.
LEMMA BusMoves ==
    ASSUME BusKnown, UNCHANGED spent \/ \E what \in Spendable : what # "start" /\ Spend(what),
           persistedGeneration' = persistedGeneration,
           \/ service' = service
           \/ /\ service' \in [owner : Owners, sequence : Nat, state : States]
              /\ service'.owner.uuid = service.owner.uuid /\ Alive
              /\ service'.state \notin {"STOPPED", "STARTING"}
    PROVE  BusKnown' /\ Started' = Started
  <1>1. /\ DOMAIN spent' = {"limits", "count"} /\ spent'.limits \in Limits
        /\ spent'.count \in [Spendable -> Nat] /\ spent'.count["start"] = spent.count["start"]
    <2>1. CASE UNCHANGED spent
      BY <2>1 DEF BusKnown
    <2>2. CASE \E what \in Spendable : what # "start" /\ Spend(what)
      BY <2>2, Spends DEF BusKnown, Spendable
    <2> QED
      BY <2>1, <2>2
  <1>2. Started' = Started
    BY <1>1 DEF Started
  <1>3. CASE service' = service
    BY <1>1, <1>2, <1>3 DEF BusKnown
  <1>4. CASE service' # service
    BY <1>1, <1>2, <1>4, Owned DEF BusKnown
  <1> QED
    BY <1>2, <1>3, <1>4
-----------------------------------------------------------------------------
(* What a step of the service, of the bus or of another client does.       *)

\* New messages, out of N, follow the others.
Grows(N) ==
    /\ IsSeq(inbox) /\ IsSeq(inbox')
    /\ DOMAIN inbox \subseteq DOMAIN inbox'
    /\ \A i \in DOMAIN inbox : inbox'[i] = inbox[i]
    /\ \A i \in DOMAIN inbox' : i \notin DOMAIN inbox => inbox'[i] \in N

\* A reply tells of the service at the moment.
Truthful(m) ==
    /\ m.kind = "reply"
    /\ ~m.error =>
        /\ m.call.method = "GetAll" => Alive /\ m.answer = service
        /\ m.call.method # "GetAll" => /\ m.answer.owner \in {NoOwner, service.owner}
                                       /\ m.answer.sequence = service.sequence
        /\ m.call.method = "Get" /\ m.answer.code = "OK" =>
                /\ service.state = "READY" /\ m.answer.owner = service.owner
                /\ m.answer.value = value /\ m.answer.revision = revision
        /\ m.call.method = "Set" /\ m.answer.code = "BACKEND_UNAVAILABLE"
           /\ kind = "notifications" => m.answer.owner = NoOwner
Answers ==
    /\ UNCHANGED <<service, value, revision>>
    /\ \E N : Grows(N) /\ \A m \in N : Truthful(m)

\* Events; the n-th is about the readiness, if that changes.
Published(m, n) ==
    /\ m.kind = "event" /\ m.owner \in Owners /\ m.owner.uuid = service.owner.uuid
    /\ m.sequence \in Nat /\ service.sequence < m.sequence /\ m.sequence <= service'.sequence
    /\ m.subject # "toast" /\ (m.sequence = n => m.subject = "readiness")
Publishes ==
    /\ UNCHANGED <<value, revision>> /\ Alive
    /\ service'.owner.uuid = service.owner.uuid
    /\ service.sequence < service'.sequence
    /\ service.state = "READY" => service'.owner = service.owner /\ service'.state = "READY"
    /\ \E n \in Nat : \E N :
        /\ n <= service'.sequence
        /\ \/ service.sequence < n
           \/ n = service.sequence /\ service'.owner = service.owner /\ service'.state = service.state
        /\ Grows(N) /\ \A m \in N : Published(m, n)

\* Another incarnation of the service, or none; the last one may have
\* written something before it ended.
Turns ==
    /\ service'.owner.uuid = 0 \/ service'.owner.uuid > Started
    /\ service'.sequence = 0
    /\ revision' \in {revision, revision + 1} /\ (revision' = revision => value' = value)
    /\ \E N : Grows(N) /\ \A m \in N : m.kind = "owner" \/ (m.kind = "reply" /\ m.error)

\* A change of what is stored, with number n, is announced and replied to.
Announced(m, n) ==
    \/ /\ m.kind = "value" /\ m.owner = service.owner /\ m.sequence = n
       /\ m.value = value' /\ m.revision = revision'
    \/ /\ m.kind = "event" /\ m.owner = service.owner /\ m.subject # "readiness"
       /\ m.sequence \in Nat /\ service.sequence < m.sequence /\ m.sequence <= service'.sequence
       /\ kind = "toast" => m.subject = "toast"
    \/ /\ m.kind = "reply" /\ m.call.method = "Set"
       /\ ~m.error /\ m.answer.code = "OK"
       /\ m.answer.owner = service.owner /\ m.answer.sequence = service.sequence
Writes ==
    /\ Alive /\ service.state = "READY" /\ service'.state = "READY"
    /\ service'.owner = service.owner
    /\ service.sequence < service'.sequence
    /\ revision' = revision + 1
    /\ \E n \in Nat : \E N :
        /\ service.sequence < n /\ n <= service'.sequence
        /\ kind = "toast" => service'.sequence = n /\ n = service.sequence + 1
        /\ Grows(N) /\ \A m \in N : Announced(m, n)
        /\ \E i \in DOMAIN inbox' : i \notin DOMAIN inbox /\ inbox'[i].kind = "value"

\* A signal that not every listener has seen is gone.
Loses ==
    /\ UNCHANGED <<service, value, revision>>
    /\ spent'.count["lost"] # 0
    /\ \E i \in DOMAIN inbox :
        /\ inbox[i].kind # "reply" /\ IsSeq(inbox)
        /\ inbox' = SubSeq(inbox, 1, i - 1) \o SubSeq(inbox, i + 1, Len(inbox))

Step ==
    /\ Answers \/ Publishes \/ Turns \/ Writes \/ Loses
    /\ Started <= Started'
    /\ spent'.count["lost"] = 0 => spent.count["lost"] = 0
    /\ kind' = kind

LEMMA ConcatIsAssociative ==
    ASSUME NEW s, IsSeq(s), NEW t, IsSeq(t), NEW u, IsSeq(u)
    PROVE  (s \o t) \o u = s \o (t \o u)
  <1>1. PICK S : s \in Seq(S)
    BY DEF IsSeq
  <1>2. PICK T : t \in Seq(T)
    BY DEF IsSeq
  <1>3. PICK U : u \in Seq(U)
    BY DEF IsSeq
  <1> DEFINE A == S \cup (T \cup U)
  <1>4. s \in Seq(A) /\ t \in Seq(A) /\ u \in Seq(A)
    BY <1>1, <1>2, <1>3, SeqMonotonic
  <1> HIDE DEF A
  <1> QED
    BY <1>4, ConcatAssociative

LEMMA OneOf == ASSUME NEW N, NEW x \in N PROVE \A i \in DOMAIN <<x>> : <<x>>[i] \in N
  OBVIOUS

LEMMA TwoOf ==
    ASSUME NEW N, NEW x \in N, NEW y \in N PROVE \A i \in DOMAIN <<x, y>> : <<x, y>>[i] \in N
  OBVIOUS

LEMMA ConcatOf ==
    ASSUME NEW s, IsSeq(s), NEW t, IsSeq(t), NEW N,
           \A i \in DOMAIN s : s[i] \in N, \A i \in DOMAIN t : t[i] \in N
    PROVE  IsSeq(s \o t) /\ \A i \in DOMAIN (s \o t) : (s \o t)[i] \in N
  <1> DEFINE u == s \o t
  <1>1. /\ IsSeq(u)
        /\ \A i \in DOMAIN s : u[i] = s[i]
        /\ \A i \in DOMAIN u : i \notin DOMAIN s => i - Len(s) \in DOMAIN t /\ u[i] = t[i - Len(s)]
    BY SeqConcat
  <1> HIDE DEF u
  <1>2. IsSeq(u) /\ \A i \in DOMAIN u : u[i] \in N
    BY <1>1
  <1> QED
    BY <1>2 DEF u

LEMMA MessagesFollow ==
    ASSUME NEW new, IsSeq(inbox), IsSeq(new), inbox' = inbox \o new,
           NEW N, \A i \in DOMAIN new : new[i] \in N
    PROVE  Grows(N)
  <1> DEFINE all == inbox \o new
  <1>1. /\ IsSeq(all) /\ DOMAIN inbox \subseteq DOMAIN all
        /\ \A i \in DOMAIN inbox : all[i] = inbox[i]
        /\ \A i \in DOMAIN all : i \notin DOMAIN inbox =>
                i - Len(inbox) \in DOMAIN new /\ all[i] = new[i - Len(inbox)]
    BY SeqConcat
  <1>2. inbox' = all
    OBVIOUS
  <1> HIDE DEF all
  <1> QED
    BY <1>1, <1>2 DEF Grows

LEMMA MessageFollows ==
    ASSUME NEW m, IsSeq(inbox), inbox' = Append(inbox, m), NEW N, m \in N
    PROVE  Grows(N)
  <1> DEFINE one == <<m>>
  <1>1. IsSeq(one) /\ \A i \in DOMAIN one : one[i] \in N
    BY ListIsSeq, OneOf
  <1>2. inbox' = inbox \o one
    BY SeqConcat
  <1> HIDE DEF one
  <1> QED
    BY <1>1, <1>2, MessagesFollow

LEMMA NothingFollows == ASSUME IsSeq(inbox), inbox' = inbox, NEW N PROVE Grows(N)
  BY DEF Grows

\* The answers the readiness client waits for, and those the client does.
ReadinessAsks ==
    Underway(calls, inbox, "readiness", readiness.ownerEpoch, readiness.requestInFlight,
             NoOperation, {})
ClientAsks ==
    Underway(calls, inbox, "client", client.ownerEpoch, client.requestInFlight,
             client.pending, log)

LEMMA QueuesAreSeqs == ReadinessAsks \/ ClientAsks => IsSeq(calls) /\ IsSeq(inbox)
  BY DEF ReadinessAsks, ClientAsks, Underway, AtMostOne, Queued

LEMMA ErrorsAreTruthful ==
    ASSUME ReadinessAsks, NEW errors \in ErrorReplies
    PROVE  /\ IsSeq(errors)
           /\ \A i \in DOMAIN errors : errors[i].kind = "reply" /\ errors[i].error
  <1>1. Underway(calls, inbox, "readiness", readiness.ownerEpoch, readiness.requestInFlight,
                 NoOperation, {})
    BY DEF ReadinessAsks
  <1>2. IsSeq(errors) /\ \A i \in DOMAIN errors : IsReply(errors[i]) /\ errors[i].error
    BY <1>1, CallsFail
  <1> QED
    BY <1>2 DEF IsReply

LEMMA EndIsATurn ==
    ASSUME BusKnown, ReadinessAsks, ServiceEnds, kind' = kind,
           revision' \in {revision, revision + 1}, revision' = revision => value' = value
    PROVE  BusKnown' /\ Step
  <1> DEFINE gone == OwnerChanged(FALSE)
  <1>1. PICK errors \in ErrorReplies : \/ inbox' = inbox \o <<gone>> \o errors
                                       \/ inbox' = inbox \o errors \o <<gone>>
    BY DEF ServiceEnds
  <1>2. /\ IsSeq(errors)
        /\ \A i \in DOMAIN errors : errors[i].kind = "reply" /\ errors[i].error
    BY ErrorsAreTruthful
  <1>3. IsSeq(inbox) /\ gone.kind = "owner"
    BY QueuesAreSeqs DEF OwnerChanged
  <1> HIDE DEF gone
  <1> DEFINE one == <<gone>>
             N == {gone} \cup {errors[i] : i \in DOMAIN errors}
  <1>4. IsSeq(one) /\ (\A i \in DOMAIN one : one[i] \in N) /\ \A i \in DOMAIN errors : errors[i] \in N
    BY ListIsSeq, OneOf
  <1>5. \A m \in N : m.kind = "owner" \/ (m.kind = "reply" /\ m.error)
    BY <1>2, <1>3
  <1> HIDE DEF one, N
  <1>6. Grows(N)
    <2>1. IsSeq(one \o errors) /\ \A i \in DOMAIN (one \o errors) : (one \o errors)[i] \in N
      BY <1>2, <1>4, ConcatOf
    <2>2. IsSeq(errors \o one) /\ \A i \in DOMAIN (errors \o one) : (errors \o one)[i] \in N
      BY <1>2, <1>4, ConcatOf
    <2>3. inbox' = inbox \o (one \o errors) \/ inbox' = inbox \o (errors \o one)
      <3>1. (inbox \o one) \o errors = inbox \o (one \o errors)
        BY <1>2, <1>3, <1>4, ConcatIsAssociative
      <3>2. (inbox \o errors) \o one = inbox \o (errors \o one)
        BY <1>2, <1>3, <1>4, ConcatIsAssociative
      <3> QED
        BY <1>1, <3>1, <3>2 DEF one
    <2> QED
      BY <1>3, <2>1, <2>2, <2>3, MessagesFollow
  <1>7. service' = NoService /\ UNCHANGED <<spent, persistedGeneration>>
    BY DEF ServiceEnds
  <1>8. service'.owner.uuid = 0 /\ service'.sequence = 0 /\ service'.state = "STOPPED"
        /\ NoService \in [owner : Owners, sequence : Nat, state : States]
    BY <1>7, StartsTyped DEF NoService, NoOwner, Owners, States
  <1>9. Turns
    BY <1>5, <1>6, <1>8 DEF Turns
  <1>10. BusKnown' /\ Started' = Started
    BY <1>7, <1>8 DEF BusKnown, Started, Spendable
  <1> QED
    BY <1>7, <1>9, <1>10 DEF Step, BusKnown, Started, Spendable

LEMMA AnswerIsTruthful ==
    ASSUME ReadinessAsks, NEW m, Answer(m), Truthful(m), UNCHANGED <<service, value, revision>>
    PROVE  Answers
  <1>1. IsSeq(inbox) /\ m \in {m}
    BY QueuesAreSeqs
  <1>2. Grows({m})
    BY <1>1, MessageFollows, NothingFollows DEF Answer
  <1> QED
    BY <1>2 DEF Answers

LEMMA StartIsATurn ==
    ASSUME BusKnown, ReadinessAsks, ServiceStarts, UNCHANGED <<kind, value, revision>>
    PROVE  BusKnown' /\ Step
  <1>1. /\ DOMAIN spent' = {"limits", "count"} /\ spent'.limits = spent.limits
        /\ spent'.count \in [Spendable -> Nat] /\ Started' = Started + 1
        /\ Started' <= spent.limits["start"]
        /\ spent'.count["lost"] = spent.count["lost"]
    BY Spends DEF ServiceStarts, Started, BusKnown, Spendable
  <1>2. Started' <= MaxStarts /\ Started \in Nat
    BY <1>1, StartsTyped DEF BusKnown, Started, Spendable
  <1>3. service' = [owner |-> [uuid |-> Started + 1, generation |-> 1],
                    state |-> "STARTING", sequence |-> 0]
    BY DEF ServiceStarts, Started
  <1>4. /\ service'.owner.uuid = Started + 1 /\ service'.sequence = 0
        /\ service'.state = "STARTING"
        /\ service' \in [owner : Owners, sequence : Nat, state : States]
    BY <1>1, <1>2, <1>3, StartsTyped DEF Owners, States
  <1>5. service.owner.uuid = 0 /\ persistedGeneration' = persistedGeneration
    BY Owned DEF ServiceStarts
  <1>6. BusKnown'
    BY <1>1, <1>2, <1>4, <1>5 DEF BusKnown
  <1> DEFINE m == OwnerChanged(TRUE)
  <1>7. IsSeq(inbox) /\ m \in {m} /\ inbox' = Append(inbox, m) /\ m.kind = "owner"
    BY QueuesAreSeqs DEF ServiceStarts, OwnerChanged
  <1> HIDE DEF m
  <1>8. Grows({m})
    BY <1>7, MessageFollows
  <1>9. Turns
    BY <1>2, <1>4, <1>7, <1>8 DEF Turns
  <1> QED
    BY <1>1, <1>2, <1>6, <1>9 DEF Step

LEMMA EventsSay ==
    ASSUME NEW owner, NEW n, NEW subject
    PROVE  /\ EventOf(owner, n, subject).kind = "event"
           /\ EventOf(owner, n, subject).owner = owner
           /\ EventOf(owner, n, subject).sequence = service.sequence + n
           /\ EventOf(owner, n, subject).subject = subject
           /\ EventOf(owner, n, subject).to = Observers
           /\ DOMAIN EventOf(owner, n, subject) = {"kind", "to", "owner", "sequence", "subject"}
  BY DEF EventOf

\* What the publishing steps share, with their one or two events.
LEMMA PublishingIsAStep ==
    ASSUME BusKnown, BusKnown', UNCHANGED <<kind, value, revision>>, Started' = Started,
           spent'.count["lost"] = 0 => spent.count["lost"] = 0,
           Alive, service'.owner.uuid = service.owner.uuid, service.sequence < service'.sequence,
           service.state = "READY" => service'.owner = service.owner /\ service'.state = "READY",
           NEW n \in Nat, NEW N, n <= service'.sequence,
           \/ service.sequence < n
           \/ n = service.sequence /\ service'.owner = service.owner /\ service'.state = service.state,
           Grows(N), \A m \in N : Published(m, n)
    PROVE  Step
  <1>1. Started <= Started'
    BY DEF BusKnown, Started, Spendable
  <1>2. Publishes
    BY DEF Publishes
  <1> QED
    BY <1>1, <1>2 DEF Step

LEMMA Recovered ==
    ASSUME NEW owner \in Owners, NEW n \in 0..MaxStarts
    PROVE  [owner EXCEPT !.generation = n] \in Owners
           /\ [owner EXCEPT !.generation = n].uuid = owner.uuid
  BY DEF Owners

LEMMA RecoveryPublishes ==
    ASSUME BusKnown, ReadinessAsks, ServiceRecovers, UNCHANGED <<kind, value, revision>>
    PROVE  BusKnown' /\ Step
  <1> DEFINE first == EventOf(service.owner, 1, "readiness")
             recovered == [service.owner EXCEPT !.generation = persistedGeneration + 1]
  <1>1. /\ service.state = "STARTING" /\ Alive /\ service.sequence = 0
        /\ persistedGeneration \in Nat /\ persistedGeneration + 1 <= Started
        /\ Started <= MaxStarts /\ MaxStarts \in Nat /\ Started \in Nat
    BY Owned, StartsTyped DEF ServiceRecovers, BusKnown, Started, Spendable
  <1>2. recovered \in Owners /\ recovered.uuid = service.owner.uuid
    <2>1. persistedGeneration + 1 \in 0..MaxStarts /\ service.owner \in Owners
      BY <1>1 DEF BusKnown
    <2> QED
      BY <2>1, Recovered
  <1>3. \/ /\ service' = [owner |-> recovered, state |-> "RECOVERING", sequence |-> 1]
           /\ persistedGeneration' = persistedGeneration + 1
           /\ inbox' = Append(inbox, first)
           /\ UNCHANGED spent
        \/ /\ Spend("failure")
           /\ \E owner \in {service.owner, recovered} :
                 /\ service' = [owner |-> owner, state |-> "FAILED", sequence |-> 2]
                 /\ inbox' = inbox \o <<first, EventOf(owner, 2, "readiness")>>
           /\ UNCHANGED persistedGeneration
    BY Zenon DEF ServiceRecovers
  <1>4. IsSeq(inbox) /\ service.owner \in Owners /\ service.owner.uuid # 0
    BY <1>1, Owned, QueuesAreSeqs DEF BusKnown
  <1>5. /\ first.kind = "event" /\ first.owner = service.owner /\ first.sequence = 1
        /\ first.subject = "readiness"
    BY <1>1, EventsSay
  <1> HIDE DEF recovered, first
  <1>6. CASE /\ service' = [owner |-> recovered, state |-> "RECOVERING", sequence |-> 1]
             /\ persistedGeneration' = persistedGeneration + 1
             /\ inbox' = Append(inbox, first)
             /\ UNCHANGED spent
    <2>1. /\ service'.owner = recovered /\ service'.state = "RECOVERING" /\ service'.sequence = 1
          /\ service' \in [owner : Owners, sequence : Nat, state : States]
      BY <1>2, <1>6 DEF States
    <2>2. BusKnown' /\ Started' = Started
      BY <1>1, <1>2, <1>4, <1>6, <2>1 DEF BusKnown, Started
    <2>3. Grows({first})
      BY <1>4, <1>6, MessageFollows
    <2>4. Published(first, 1)
      BY <1>1, <1>4, <1>5, <2>1 DEF Published
    <2> QED
      BY <1>1, <1>2, <1>6, <2>1, <2>2, <2>3, <2>4, PublishingIsAStep
  <1>7. CASE /\ Spend("failure")
             /\ \E owner \in {service.owner, recovered} :
                   /\ service' = [owner |-> owner, state |-> "FAILED", sequence |-> 2]
                   /\ inbox' = inbox \o <<first, EventOf(owner, 2, "readiness")>>
             /\ UNCHANGED persistedGeneration
    <2>1. PICK owner \in {service.owner, recovered} :
                   /\ service' = [owner |-> owner, state |-> "FAILED", sequence |-> 2]
                   /\ inbox' = inbox \o <<first, EventOf(owner, 2, "readiness")>>
      BY <1>7
    <2> DEFINE second == EventOf(owner, 2, "readiness")
               both == <<first, second>>
    <2>2. owner \in Owners /\ owner.uuid = service.owner.uuid
      BY <1>2, <1>4
    <2>3. /\ second.kind = "event" /\ second.owner = owner /\ second.sequence = 2
          /\ second.subject = "readiness"
      BY <1>1, EventsSay
    <2>4. /\ service'.owner = owner /\ service'.state = "FAILED" /\ service'.sequence = 2
          /\ service' \in [owner : Owners, sequence : Nat, state : States]
      BY <2>1, <2>2 DEF States
    <2>5. BusKnown' /\ Started' = Started
      BY <1>1, <1>7, <2>2, <2>4, BusMoves DEF Spendable
    <2>6. spent'.count["lost"] = spent.count["lost"]
      BY <1>7, Spends DEF BusKnown, Spendable
    <2>7. Published(first, 1) /\ Published(second, 1)
      BY <1>1, <1>4, <1>5, <2>2, <2>3, <2>4 DEF Published
    <2>8. IsSeq(both) /\ \A i \in DOMAIN both : both[i] \in {first, second}
      BY ListIsSeq, TwoOf
    <2>9. inbox' = inbox \o both
      BY <2>1
    <2> HIDE DEF second, both
    <2>10. Grows({first, second})
      BY <1>4, <2>8, <2>9, MessagesFollow
    <2> QED
      BY <1>1, <2>2, <2>4, <2>5, <2>6, <2>7, <2>10, PublishingIsAStep
  <1> QED
    BY <1>3, <1>6, <1>7

LEMMA ServiceMoved ==
    ASSUME NEW s \in [owner : Owners, sequence : Nat, state : States],
           NEW st \in States, NEW n \in Nat
    PROVE  LET t == [s EXCEPT !.state = st, !.sequence = n]
           IN  /\ t \in [owner : Owners, sequence : Nat, state : States]
               /\ t.owner = s.owner /\ t.state = st /\ t.sequence = n
  <1> DEFINE u == [s EXCEPT !.state = st]
             t == [u EXCEPT !.sequence = n]
  <1>1. u \in [owner : Owners, sequence : Nat, state : States] /\ u.owner = s.owner /\ u.state = st
    OBVIOUS
  <1> HIDE DEF u
  <1>2. /\ t \in [owner : Owners, sequence : Nat, state : States]
        /\ t.owner = u.owner /\ t.state = u.state /\ t.sequence = n
    BY <1>1
  <1> QED
    BY <1>1, <1>2 DEF u

LEMMA ReadyPublishes ==
    ASSUME BusKnown, ReadinessAsks, ServiceBecomesReady, UNCHANGED <<kind, value, revision>>
    PROVE  BusKnown' /\ Step
  <1> DEFINE a == EventOf(service.owner, 1, "readiness")
             b == EventOf(service.owner, 2, "other")
             both == <<a, b>>
             n == service.sequence + 1
  <1>1. /\ service.state # "READY" /\ service.state # "STOPPED"
        /\ service' = [service EXCEPT !.state = "READY", !.sequence = @ + 2]
        /\ inbox' = inbox \o both
        /\ UNCHANGED <<persistedGeneration, spent>>
    BY DEF ServiceBecomesReady
  <1>2. /\ service.sequence \in Nat /\ service.owner \in Owners /\ service.owner.uuid # 0
        /\ Alive /\ IsSeq(inbox)
    BY <1>1, Owned, QueuesAreSeqs DEF BusKnown
  <1>3. /\ service'.owner = service.owner /\ service'.state = "READY"
        /\ service'.sequence = service.sequence + 2
        /\ service' \in [owner : Owners, sequence : Nat, state : States]
    <2>1. service \in [owner : Owners, sequence : Nat, state : States] /\ "READY" \in States
          /\ service.sequence + 2 \in Nat
      BY <1>2 DEF BusKnown, States
    <2> QED
      BY <1>1, <2>1, ServiceMoved, Zenon
  <1>4. BusKnown' /\ Started' = Started
    BY <1>1, <1>2, <1>3, BusMoves
  <1>5. /\ a.kind = "event" /\ a.owner = service.owner /\ a.sequence = n /\ a.subject = "readiness"
        /\ b.kind = "event" /\ b.owner = service.owner /\ b.sequence = n + 1 /\ b.subject = "other"
    BY <1>2, EventsSay
  <1>6. IsSeq(both) /\ \A i \in DOMAIN both : both[i] \in {a, b}
    BY ListIsSeq, TwoOf
  <1> HIDE DEF a, b, both
  <1>7. Published(a, n) /\ Published(b, n)
    BY <1>2, <1>3, <1>5 DEF Published
  <1>8. Grows({a, b})
    BY <1>1, <1>2, <1>6, MessagesFollow
  <1>9. n \in Nat /\ service.sequence < n /\ n <= service'.sequence
    BY <1>2, <1>3
  <1> QED
    BY <1>1, <1>2, <1>3, <1>4, <1>7, <1>8, <1>9, PublishingIsAStep

LEMMA InventoryPublishes ==
    ASSUME BusKnown, ReadinessAsks, ServiceFailsInventory, UNCHANGED <<kind, value, revision>>
    PROVE  BusKnown' /\ Step
  <1> DEFINE a == EventOf(service.owner, 1, "readiness")
             n == service.sequence + 1
  <1>1. /\ service.state = "RECOVERING" /\ Spend("failure")
        /\ service' = [service EXCEPT !.state = "FAILED", !.sequence = @ + 1]
        /\ inbox' = Append(inbox, a)
        /\ UNCHANGED persistedGeneration
    BY DEF ServiceFailsInventory
  <1>2. /\ service.sequence \in Nat /\ service.owner \in Owners /\ service.owner.uuid # 0
        /\ Alive /\ IsSeq(inbox)
    BY <1>1, Owned, QueuesAreSeqs DEF BusKnown
  <1>3. /\ service'.owner = service.owner /\ service'.state = "FAILED"
        /\ service'.sequence = n
        /\ service' \in [owner : Owners, sequence : Nat, state : States]
    <2>1. service \in [owner : Owners, sequence : Nat, state : States] /\ "FAILED" \in States
          /\ service.sequence + 1 \in Nat
      BY <1>2 DEF BusKnown, States
    <2> QED
      BY <1>1, <2>1, ServiceMoved, Zenon
  <1>4. BusKnown' /\ Started' = Started
    BY <1>1, <1>2, <1>3, BusMoves DEF Spendable
  <1>5. spent'.count["lost"] = spent.count["lost"]
    BY <1>1, Spends DEF BusKnown, Spendable
  <1>6. a.kind = "event" /\ a.owner = service.owner /\ a.sequence = n /\ a.subject = "readiness"
    BY <1>2, EventsSay
  <1> HIDE DEF a
  <1>7. Published(a, n)
    BY <1>2, <1>3, <1>6 DEF Published
  <1>8. Grows({a})
    BY <1>1, <1>2, MessageFollows
  <1> QED
    BY <1>1, <1>2, <1>3, <1>4, <1>5, <1>7, <1>8, PublishingIsAStep

LEMMA OtherPublishes ==
    ASSUME BusKnown, ReadinessAsks, OtherEvent, UNCHANGED <<kind, value, revision>>
    PROVE  BusKnown' /\ Step
  <1> DEFINE a == EventOf(service.owner, 1, "other")
             n == service.sequence
  <1>1. /\ service.state = "READY" /\ Spend("other")
        /\ service' = [service EXCEPT !.sequence = @ + 1]
        /\ inbox' = Append(inbox, a)
        /\ UNCHANGED persistedGeneration
    BY DEF OtherEvent
  <1>2. /\ service.sequence \in Nat /\ service.owner \in Owners /\ service.owner.uuid # 0
        /\ Alive /\ IsSeq(inbox)
    BY <1>1, Owned, QueuesAreSeqs DEF BusKnown
  <1>3. /\ service'.owner = service.owner /\ service'.state = service.state
        /\ service'.sequence = n + 1
        /\ service' \in [owner : Owners, sequence : Nat, state : States]
    BY <1>1, <1>2 DEF BusKnown, States
  <1>4. BusKnown' /\ Started' = Started
    BY <1>1, <1>2, <1>3, BusMoves DEF Spendable
  <1>5. spent'.count["lost"] = spent.count["lost"]
    BY <1>1, Spends DEF BusKnown, Spendable
  <1>6. a.kind = "event" /\ a.owner = service.owner /\ a.sequence = n + 1 /\ a.subject = "other"
    BY <1>2, EventsSay
  <1> HIDE DEF a
  <1>7. Published(a, n)
    BY <1>2, <1>3, <1>6 DEF Published
  <1>8. Grows({a})
    BY <1>1, <1>2, MessageFollows
  <1> QED
    BY <1>1, <1>2, <1>3, <1>4, <1>5, <1>7, <1>8, PublishingIsAStep

LEMMA BusIsAStep ==
    ASSUME BusKnown, ReadinessAsks, BusOwes \/ BusMay, UNCHANGED <<kind, value, revision>>
    PROVE  BusKnown' /\ Step
  <1>1. ASSUME UNCHANGED <<service, persistedGeneration>>,
               UNCHANGED spent \/ \E what \in Spendable : what # "start" /\ Spend(what),
               Answers \/ Loses,
               spent'.count["lost"] = 0 => spent.count["lost"] = 0
        PROVE  BusKnown' /\ Step
    <2>1. BusKnown' /\ Started' = Started
      BY <1>1, BusMoves
    <2>2. Started <= Started'
      BY <2>1 DEF BusKnown, Started, Spendable
    <2> QED
      BY <1>1, <2>1, <2>2 DEF Step
  <1>2. CASE ActivationFails
    <2>1. PICK errors \in ErrorReplies : inbox' = inbox \o errors
      BY <1>2 DEF ActivationFails
    <2> DEFINE N == {errors[i] : i \in DOMAIN errors}
    <2>2. IsSeq(errors) /\ \A i \in DOMAIN errors : errors[i].kind = "reply" /\ errors[i].error
      BY ErrorsAreTruthful
    <2>3. Grows(N)
      BY <2>1, <2>2, QueuesAreSeqs, MessagesFollow
    <2>4. \A m \in N : Truthful(m)
      BY <2>2 DEF Truthful
    <2> HIDE DEF N
    <2> QED
      BY <1>1, <1>2, <2>3, <2>4 DEF ActivationFails, Answers
  <1>3. CASE HandlesGetAll
    <2> DEFINE m == Reply(calls[1].call.from, calls[1].call, service)
    <2>1. Answer(m) /\ Alive /\ UNCHANGED <<service, persistedGeneration, spent>>
      BY <1>3 DEF HandlesGetAll
    <2>2. m.kind = "reply" /\ m.call = calls[1].call /\ m.answer = service
          /\ m.call.method = "GetAll"
      BY <1>3 DEF HandlesGetAll, Reply
    <2> HIDE DEF m
    <2>3. Truthful(m)
      BY <2>1, <2>2 DEF Truthful
    <2> QED
      BY <1>1, <2>1, <2>3, AnswerIsTruthful
  <1>4. CASE CallTimesOut
    <2>1. PICK i \in DOMAIN calls : inbox' = Append(inbox, ErrorReply(calls[i].call))
      BY <1>4 DEF CallTimesOut
    <2> DEFINE m == ErrorReply(calls[i].call)
    <2>2. m.kind = "reply" /\ m.error /\ m \in {m}
      BY DEF ErrorReply
    <2>3. inbox' = Append(inbox, m)
      BY <2>1
    <2> HIDE DEF m
    <2>4. Grows({m}) /\ Truthful(m)
      BY <2>2, <2>3, QueuesAreSeqs, MessageFollows DEF Truthful
    <2>5. UNCHANGED <<service, persistedGeneration>> /\ Spend("timeout")
      BY <1>4 DEF CallTimesOut
    <2>6. spent'.count["lost"] = spent.count["lost"] /\ "timeout" \in Spendable
      BY <2>5, Spends DEF BusKnown, Spendable
    <2>7. Answers
      BY <2>4, <2>5 DEF Answers
    <2> QED
      BY <1>1, <2>5, <2>6, <2>7
  <1>5. CASE SignalLost
    <2>1. UNCHANGED <<service, persistedGeneration>> /\ Spend("lost")
      BY <1>5 DEF SignalLost
    <2>2. spent'.count["lost"] # 0 /\ "lost" \in Spendable
      BY <2>1, Spends DEF BusKnown, Spendable
    <2>3. IsSeq(inbox)
      BY QueuesAreSeqs
    <2>4. Loses
      BY <1>5, <2>2, <2>3 DEF SignalLost, Loses
    <2> QED
      BY <1>1, <2>1, <2>2, <2>4
  <1>6. CASE ServiceEnds
    BY <1>6, EndIsATurn
  <1> QED
    BY <1>2, <1>3, <1>4, <1>5, <1>6, StartIsATurn, RecoveryPublishes, ReadyPublishes,
       InventoryPublishes, OtherPublishes DEF BusOwes, BusMay, BusLife
-----------------------------------------------------------------------------
(* What objects wait for, through these steps.                             *)

LEMMA SignalsAreNews ==
    /\ \A alive : IsNews(OwnerChanged(alive))
    /\ \A owner \in Owners, n \in Nat : \A subject :
            service.sequence \in Nat => IsNews(EventOf(owner, n, subject))
  <1>1. Observers \subseteq Listeners /\ Observers # {} /\ Listeners # {}
    BY ListenersAssumption, ObjectsAssumption
  <1>2. \A alive : IsNews(OwnerChanged(alive))
    BY <1>1 DEF OwnerChanged, IsNews
  <1>3. ASSUME NEW owner \in Owners, NEW n \in Nat, NEW subject, service.sequence \in Nat
        PROVE  IsNews(EventOf(owner, n, subject))
    <2> DEFINE m == EventOf(owner, n, subject)
    <2>1. /\ m.kind = "event" /\ m.owner = owner /\ m.sequence = service.sequence + n
          /\ m.to = Observers
          /\ DOMAIN m = {"kind", "to", "owner", "sequence", "subject"}
      BY EventsSay
    <2> HIDE DEF m
    <2>2. IsNews(m)
      BY <1>1, <1>3, <2>1 DEF IsNews
    <2> QED
      BY <2>2 DEF m
  <1> QED
    BY <1>2, <1>3

LEMMA FirstAnswered ==
    ASSUME NEW who, NEW ep, NEW busy, NEW p, NEW lg, NEW m,
           Underway(calls, inbox, who, ep, busy, p, lg), calls # <<>>, Answer(m),
           IsReply(m), m.call = calls[1].call, m.call.from = who => TellsTruth(m, p, lg)
    PROVE  Underway(calls', inbox', who, ep, busy, p, lg)
  BY CallAnswered, CallTaken DEF Answer

LEMMA ServiceEndsKeeps ==
    ASSUME NEW who, NEW ep, NEW busy, NEW p, NEW lg,
           Underway(calls, inbox, who, ep, busy, p, lg), ServiceEnds
    PROVE  Underway(calls', inbox', who, ep, busy, p, lg)
  <1> DEFINE gone == OwnerChanged(FALSE)
  <1>1. PICK errors \in ErrorReplies : \/ inbox' = inbox \o <<gone>> \o errors
                                       \/ inbox' = inbox \o errors \o <<gone>>
    BY DEF ServiceEnds
  <1>2. calls' = <<>> /\ IsSeq(inbox)
    BY DEF ServiceEnds, Underway, AtMostOne, Queued
  <1>3. IsNews(gone)
    BY SignalsAreNews
  <1> HIDE DEF gone
  <1>4. Underway(calls, Append(inbox, gone), who, ep, busy, p, lg)
    BY <1>3, OneNewsArrives
  <1>5. Underway(<<>>, Append(inbox, gone) \o errors, who, ep, busy, p, lg)
    BY <1>4, CallsFail
  <1>6. Underway(<<>>, inbox \o errors, who, ep, busy, p, lg)
    BY CallsFail
  <1>7. Underway(<<>>, Append(inbox \o errors, gone), who, ep, busy, p, lg)
    BY <1>3, <1>6, OneNewsArrives
  <1>8. IsSeq(inbox \o errors)
    BY <1>6 DEF Underway, AtMostOne, Queued
  <1>9. inbox \o <<gone>> = Append(inbox, gone)
    BY <1>2, ListIsSeq, SeqConcat
  <1>10. (inbox \o errors) \o <<gone>> = Append(inbox \o errors, gone)
    BY <1>8, ListIsSeq, SeqConcat
  <1> QED
    BY <1>1, <1>2, <1>5, <1>7, <1>9, <1>10

LEMMA BusStepKeeps ==
    ASSUME NEW who, NEW ep, NEW busy, NEW p, NEW lg, BusKnown,
           Underway(calls, inbox, who, ep, busy, p, lg), BusOwes \/ BusMay
    PROVE  Underway(calls', inbox', who, ep, busy, p, lg)
  <1>0. service.sequence \in Nat /\ service.owner \in Owners
    BY DEF BusKnown
  <1>1. CASE ActivationFails
    BY <1>1, CallsFail DEF ActivationFails
  <1>2. CASE HandlesGetAll
    <2> DEFINE m == Reply(calls[1].call.from, calls[1].call, service)
    <2>1. 1 \in DOMAIN calls
      BY <1>2, SeqTail DEF HandlesGetAll, Underway, AtMostOne, Queued
    <2>2. CallOf(calls[1].call) /\ calls[1].call.method = "GetAll"
      BY <1>2, <2>1 DEF HandlesGetAll, Underway, AtMostOne, Queued, IsCall
    <2>3. service \in Snapshots
      BY DEF BusKnown, Snapshots, States
    <2>4. /\ {"kind", "to"} \subseteq DOMAIN m /\ m.kind = "reply" /\ m.call = calls[1].call
          /\ m.to = {m.call.from} /\ m.answer = service
      BY DEF Reply
    <2>5. Answer(m) /\ calls # <<>>
      BY <1>2 DEF HandlesGetAll
    <2> HIDE DEF m
    <2>6. IsReply(m) /\ TellsTruth(m, p, lg)
      BY <2>2, <2>3, <2>4 DEF IsReply, IsAnswer, TellsTruth
    <2> QED
      BY <2>4, <2>5, <2>6, FirstAnswered
  <1>3. CASE ServiceStarts
    BY <1>3, SignalsAreNews, OneNewsArrives DEF ServiceStarts
  <1>4. CASE ServiceRecovers
    <2> DEFINE first == EventOf(service.owner, 1, "readiness")
               recovered == [service.owner EXCEPT !.generation = persistedGeneration + 1]
    <2>1. calls' = calls /\ recovered \in Owners
      <3>1. persistedGeneration + 1 \in 0..MaxStarts
        BY <1>4, StartsTyped DEF ServiceRecovers, BusKnown, Started, Spendable
      <3> QED
        BY <1>0, <1>4, <3>1, Recovered DEF ServiceRecovers
    <2>2. CASE inbox' = Append(inbox, first)
      BY <1>0, <2>1, <2>2, SignalsAreNews, OneNewsArrives
    <2>3. CASE \E owner \in {service.owner, recovered} :
                    inbox' = inbox \o <<first, EventOf(owner, 2, "readiness")>>
      <3>1. PICK owner \in Owners : inbox' = inbox \o <<first, EventOf(owner, 2, "readiness")>>
        BY <1>0, <2>1, <2>3
      <3> DEFINE second == EventOf(owner, 2, "readiness")
                 both == <<first, second>>
                 N == {m \in {first, second} : IsNews(m)}
      <3>2. IsNews(first) /\ IsNews(second)
        BY <1>0, SignalsAreNews
      <3>3. IsSeq(both) /\ \A i \in DOMAIN both : both[i] \in N
        BY <3>2, ListIsSeq, TwoOf
      <3> HIDE DEF both
      <3>4. Underway(calls, inbox \o both, who, ep, busy, p, lg)
        BY <3>3, NewsArrives
      <3> QED
        BY <2>1, <3>1, <3>4 DEF both
    <2> QED
      BY <1>4, <2>2, <2>3, Zenon DEF ServiceRecovers
  <1>5. CASE ServiceFailsInventory
    BY <1>0, <1>5, SignalsAreNews, OneNewsArrives DEF ServiceFailsInventory
  <1>6. CASE ServiceEnds
    BY <1>6, ServiceEndsKeeps
  <1>7. CASE CallTimesOut
    <2>1. PICK i \in DOMAIN calls : /\ calls[i].awaited
                                    /\ calls' = [calls EXCEPT ![i].awaited = FALSE]
                                    /\ inbox' = Append(inbox, ErrorReply(calls[i].call))
      BY <1>7 DEF CallTimesOut
    <2>2. Underway([calls EXCEPT ![i].awaited = FALSE], Append(inbox, ErrorReply(calls[i].call)),
                   who, ep, busy, p, lg)
      BY <2>1, CallGivenUp
    <2> QED
      BY <2>1, <2>2, Zenon
  <1>8. CASE SignalLost
    <2>1. PICK i \in DOMAIN inbox :
            /\ inbox[i].kind # "reply"
            /\ inbox' = SubSeq(inbox, 1, i - 1) \o SubSeq(inbox, i + 1, Len(inbox))
      BY <1>8 DEF SignalLost
    <2> QED
      BY <1>8, <2>1, OneMessageLost DEF SignalLost
  <1>9. CASE ServiceBecomesReady
    <2> DEFINE a == EventOf(service.owner, 1, "readiness")
               b == EventOf(service.owner, 2, "other")
               both == <<a, b>>
               N == {m \in {a, b} : IsNews(m)}
    <2>1. calls' = calls /\ inbox' = inbox \o both
      BY <1>9 DEF ServiceBecomesReady
    <2>2. IsNews(a) /\ IsNews(b)
      BY <1>0, SignalsAreNews
    <2>3. IsSeq(both) /\ \A i \in DOMAIN both : both[i] \in N
      BY <2>2, ListIsSeq, TwoOf
    <2> HIDE DEF both
    <2> QED
      BY <2>1, <2>3, NewsArrives
  <1>10. CASE OtherEvent
    BY <1>0, <1>10, SignalsAreNews, OneNewsArrives DEF OtherEvent
  <1> QED
    BY <1>1, <1>2, <1>3, <1>4, <1>5, <1>6, <1>7, <1>8, <1>9, <1>10
       DEF BusOwes, BusMay, BusLife
-----------------------------------------------------------------------------
(* The operations of the client.                                           *)

\* The operation that is pending is one of the issued ones.
OperationsIssued ==
    /\ issued \in 0..MaxOperations
    /\ \/ client.pending = NoOperation
       \/ client.pending \in [op : 1..issued, value : WrittenValues, expected : Nat]

\* An issued operation took effect with the arguments it was issued with.
IsRow(row) == \E op, v, e, r : row = Counting!Row(op, v, e, r)
LogIsIssued ==
    \A row \in log :
        /\ IsRow(row)
        /\ row.op \in Operations => row.op <= issued
        /\ client.pending # NoOperation /\ row.op = client.pending.op =>
                row.value = client.pending.value /\ row.expected = client.pending.expected

\* Nothing is told of an operation before it is decided.
OutcomesFollow ==
    /\ resolved \in [Operations -> {"PENDING", "OK", "STALE_REVISION", "CONFLICT", "IO_ERROR"}]
    /\ \A op \in Operations : op > issued \/ op = client.pending.op => resolved[op] = "PENDING"

Outcomes == OperationsIssued /\ LogIsIssued /\ OutcomesFollow /\ ReportsAreTrue

ServiceInv == BusKnown /\ RegisterKnown /\ ReadinessAsks /\ ClientAsks /\ Outcomes

LEMMA DecisionsFollow == Outcomes /\ ClientAsks => DecisionsAreFinal
  <1>1. ClientAsks => NoLateAttempts
    <2> SUFFICES ASSUME ClientAsks, NEW i \in DOMAIN calls, calls[i].call.method = "Set"
                 PROVE  calls[i].call.op = client.pending.op
      BY DEF NoLateAttempts
    <2>1. IsCall(calls[i], "client", client.ownerEpoch, client.pending)
      BY DEF ClientAsks, Underway, AtMostOne, Queued
    <2> QED
      BY <2>1 DEF IsCall, CallOf, AttemptOf
  <1> QED
    BY <1>1 DEF Outcomes, DecisionsAreFinal

LEMMA PendingOperation ==
    ASSUME Outcomes
    PROVE  /\ MaxOperations \in Nat /\ issued \in 0..MaxOperations
           /\ client.pending.op \in 0..issued
           /\ client.pending # NoOperation => /\ client.pending.op \in 1..issued
                                              /\ client.pending.value \in WrittenValues
                                              /\ client.pending.expected \in Nat
  <1>1. MaxOperations \in Nat /\ issued \in 0..MaxOperations
    BY OperationsAssumption DEF Outcomes, OperationsIssued
  <1>2. NoOperation.op = 0
    BY DEF NoOperation
  <1>3. CASE client.pending = NoOperation
    BY <1>1, <1>2, <1>3
  <1>4. CASE client.pending # NoOperation
    <2>1. client.pending \in [op : 1..issued, value : WrittenValues, expected : Nat]
      BY <1>4 DEF Outcomes, OperationsIssued
    <2> QED
      BY <1>1, <2>1
  <1> QED
    BY <1>3, <1>4

LEMMA FirstCall ==
    ASSUME ServiceInv, NEW method \in {"Get", "Set"}, IsFirst(method)
    PROVE  /\ calls # <<>> /\ 1 \in DOMAIN calls
           /\ IsCall(calls[1], "client", client.ownerEpoch, client.pending)
           /\ CallOf(calls[1].call) /\ calls[1].call.from = "client"
           /\ calls[1].call.method = method /\ Alive
  <1>1. calls # <<>> /\ calls[1].call.method = method /\ Alive
    BY DEF IsFirst
  <1>2. 1 \in DOMAIN calls
    BY <1>1, SeqTail DEF ServiceInv, ClientAsks, Underway, AtMostOne, Queued
  <1>3. IsCall(calls[1], "client", client.ownerEpoch, client.pending)
    BY <1>2 DEF ServiceInv, ClientAsks, Underway, AtMostOne, Queued
  <1> QED
    BY <1>1, <1>2, <1>3 DEF IsCall, CallOf

LEMMA RepliesAreSigned ==
    ASSUME ServiceInv, NEW call, CallOf(call), call.from = "client", NEW code,
           NEW signed \in BOOLEAN
    PROVE  LET m == SignedReply(call, code, signed)
           IN  /\ IsReply(m) /\ m.kind = "reply" /\ m.call = call /\ ~m.error
               /\ m.answer.code = code /\ m.answer.sequence = service.sequence
               /\ m.answer.value = value /\ m.answer.revision = revision
               /\ m.answer.owner = IF kind = "notifications" /\ ~signed THEN NoOwner
                                                                        ELSE service.owner
  <1> DEFINE m == SignedReply(call, code, signed)
  <1>1. /\ m.kind = "reply" /\ m.call = call /\ m.error = FALSE /\ m.to = {"client"}
        /\ DOMAIN m = {"kind", "to", "call", "error", "answer"}
        /\ m.answer.code = code /\ m.answer.sequence = service.sequence
        /\ m.answer.value = value /\ m.answer.revision = revision
        /\ m.answer.owner = IF kind = "notifications" /\ ~signed THEN NoOwner ELSE service.owner
    BY DEF SignedReply, Reply
  <1>2. /\ service.owner \in Owners /\ NoOwner \in Owners /\ service.sequence \in Nat
        /\ value \in Nat /\ revision \in Nat
    BY StartsTyped DEF ServiceInv, BusKnown, RegisterKnown, StoredValues, Unset, NoOwner, Owners
  <1>3. call.method # "GetAll"
    BY DEF CallOf
  <1> HIDE DEF m
  <1>4. IsReply(m)
    BY <1>1, <1>2, <1>3 DEF IsReply, IsAnswer
  <1> QED
    BY <1>1, <1>4 DEF m

\* What the service is told and the client knows stays.
LEMMA NothingWritten ==
    ASSUME ServiceInv, UNCHANGED registerVars, UNCHANGED clientOnly
    PROVE  RegisterKnown' /\ Outcomes'
  <1>1. UNCHANGED <<value, revision, log, kind, client, issued, resolved>>
    BY DEF registerVars, clientOnly
  <1>2. RegisterKnown'
    BY <1>1 DEF ServiceInv, RegisterKnown, StoredValues
  <1>3. Outcomes'
    BY <1>1 DEF ServiceInv, Outcomes, OperationsIssued, WrittenValues, LogIsIssued, OutcomesFollow,
                ReportsAreTrue
  <1> QED
    BY <1>2, <1>3

LEMMA StillAsked ==
    ASSUME UNCHANGED clientOnly,
           Underway(calls', inbox', "readiness", readiness.ownerEpoch, readiness.requestInFlight,
                    NoOperation, {}),
           Underway(calls', inbox', "client", client.ownerEpoch, client.requestInFlight,
                    client.pending, log')
    PROVE  ReadinessAsks' /\ ClientAsks'
  BY DEF ReadinessAsks, ClientAsks, clientOnly

LEMMA BusStepIsSafe ==
    ASSUME ServiceInv, BusOwes \/ BusMay, UNCHANGED registerVars, UNCHANGED clientOnly
    PROVE  ServiceInv' /\ Step
  <1>1. BusKnown' /\ Step
    BY BusIsAStep DEF ServiceInv, registerVars, clientOnly
  <1>2. /\ Underway(calls', inbox', "readiness", readiness.ownerEpoch, readiness.requestInFlight,
                    NoOperation, {})
        /\ Underway(calls', inbox', "client", client.ownerEpoch, client.requestInFlight,
                    client.pending, log)
    BY BusStepKeeps DEF ServiceInv, ReadinessAsks, ClientAsks
  <1>3. ReadinessAsks' /\ ClientAsks'
    BY <1>2, StillAsked DEF registerVars
  <1> QED
    BY <1>1, <1>3, NothingWritten DEF ServiceInv

\* A reply that tells the truth, and changes nothing.
LEMMA ReplyIsSafe ==
    ASSUME ServiceInv, UNCHANGED <<service, persistedGeneration, registerVars>>,
           UNCHANGED clientOnly, UNCHANGED spent \/ Spend("failure"),
           calls # <<>>, calls[1].call.from = "client",
           NEW m, Answer(m), IsReply(m), m.call = calls[1].call,
           TellsTruth(m, client.pending, log), Truthful(m)
    PROVE  ServiceInv' /\ Step
  <1>1. BusKnown' /\ Started' = Started
    BY BusMoves DEF ServiceInv, Spendable
  <1>2. Started <= Started' /\ spent'.count["lost"] = spent.count["lost"]
    BY <1>1, Spends DEF ServiceInv, BusKnown, Started, Spendable
  <1>3. Answers
    BY AnswerIsTruthful DEF ServiceInv, registerVars
  <1>4. Step
    BY <1>2, <1>3 DEF Step, clientOnly
  <1>5. /\ Underway(calls', inbox', "readiness", readiness.ownerEpoch, readiness.requestInFlight,
                    NoOperation, {})
        /\ Underway(calls', inbox', "client", client.ownerEpoch, client.requestInFlight,
                    client.pending, log)
    BY FirstAnswered DEF ServiceInv, ReadinessAsks, ClientAsks
  <1>6. ReadinessAsks' /\ ClientAsks'
    BY <1>5, StillAsked DEF registerVars
  <1> QED
    BY <1>1, <1>4, <1>6, NothingWritten DEF ServiceInv

LEMMA GetIsSafe == ASSUME ServiceInv, HandlesGet, UNCHANGED clientOnly PROVE ServiceInv' /\ Step
  <1>1. /\ calls # <<>> /\ calls[1].call.from = "client" /\ calls[1].call.method = "Get"
        /\ CallOf(calls[1].call) /\ Alive
    BY FirstCall DEF HandlesGet
  <1>2. PICK code, signed :
            /\ signed \in BOOLEAN /\ Answer(SignedReply(calls[1].call, code, signed))
            /\ code = "OK" => signed /\ service.state = "READY"
    <2>1. NotReady # "OK" /\ ReadFails # "OK"
      BY DEF NotReady, ReadFails
    <2>2. \/ service.state = "READY" /\ Answer(SignedReply(calls[1].call, "OK", TRUE))
          \/ Answer(SignedReply(calls[1].call, NotReady, FALSE))
          \/ Answer(SignedReply(calls[1].call, ReadFails, FALSE))
      BY Zenon DEF HandlesGet
    <2> QED
      BY <2>1, <2>2
  <1> DEFINE m == SignedReply(calls[1].call, code, signed)
  <1>3. /\ IsReply(m) /\ m.kind = "reply" /\ m.call = calls[1].call /\ ~m.error
        /\ m.answer.code = code /\ m.answer.sequence = service.sequence
        /\ m.answer.value = value /\ m.answer.revision = revision
        /\ m.answer.owner = IF kind = "notifications" /\ ~signed THEN NoOwner ELSE service.owner
    BY <1>1, <1>2, RepliesAreSigned
  <1>4. Answer(m)
    BY <1>2
  <1> HIDE DEF m
  <1>5. TellsTruth(m, client.pending, log)
    BY <1>1, <1>3 DEF TellsTruth
  <1>6. Truthful(m)
    BY <1>1, <1>2, <1>3 DEF Truthful
  <1>7. UNCHANGED <<service, persistedGeneration, registerVars>>
        /\ (UNCHANGED spent \/ Spend("failure"))
    BY DEF HandlesGet
  <1> QED
    BY <1>1, <1>3, <1>4, <1>5, <1>6, <1>7, ReplyIsSafe

\* A logged operation is answered as it is logged, since its attempts agree.
LEMMA RefusalsAreTrue ==
    ASSUME ServiceInv, IsFirst("Set"), NEW code, NEW m, m.call = calls[1].call, m.answer.code = code,
           LET call == calls[1].call
               row == Counting!Row(call.op, call.value, call.expected, 0)
               known == {r \in log : r.op = call.op}
               same == {r \in known : [r EXCEPT !.result = 0] = row}
           IN  code = IF service.state # "READY" THEN "BACKEND_UNAVAILABLE"
                      ELSE IF same # {} THEN "OK"
                      ELSE IF known # {} THEN "CONFLICT" ELSE "STALE_REVISION"
    PROVE  /\ TellsTruth(m, client.pending, log)
           /\ code = "BACKEND_UNAVAILABLE" => service.state # "READY"
  <1> DEFINE call == calls[1].call
             wanted == Counting!Row(call.op, call.value, call.expected, 0)
             known == {r \in log : r.op = call.op}
             same == {r \in known : [r EXCEPT !.result = 0] = wanted}
  <1>1. /\ call.from = "client" /\ call.method = "Set"
        /\ IsCall(calls[1], "client", client.ownerEpoch, client.pending)
    BY FirstCall
  <1>2. /\ client.pending # NoOperation /\ call.op = client.pending.op
        /\ call.value = client.pending.value /\ call.expected = client.pending.expected
    BY <1>1 DEF IsCall, AttemptOf
  <1>3. code = IF service.state # "READY" THEN "BACKEND_UNAVAILABLE"
               ELSE IF same # {} THEN "OK"
               ELSE IF known # {} THEN "CONFLICT" ELSE "STALE_REVISION"
    BY Zenon
  <1>4. ASSUME NEW r \in known PROVE r \in same
    <2>1. r \in log /\ r.op = call.op
      OBVIOUS
    <2>2. PICK op, v, e, n : r = Counting!Row(op, v, e, n)
      BY <2>1 DEF ServiceInv, Outcomes, LogIsIssued, IsRow
    <2>3. v = call.value /\ e = call.expected /\ op = call.op
      BY <1>2, <2>1, <2>2 DEF ServiceInv, Outcomes, LogIsIssued, Counting!Row
    <2>4. [r EXCEPT !.result = 0] = wanted
      BY <2>2, <2>3 DEF Counting!Row
    <2> QED
      BY <2>1, <2>4
  <1>5. known # {} <=> \E row \in log : row.op = client.pending.op
    BY <1>2
  <1>6. same \subseteq known
    OBVIOUS
  <1> HIDE DEF same, known
  <1> QED
    BY <1>1, <1>2, <1>3, <1>4, <1>5, <1>6 DEF TellsTruth

LEMMA RefusalIsSafe ==
    ASSUME ServiceInv, HandlesSetWithoutEffect, UNCHANGED clientOnly
    PROVE  ServiceInv' /\ Step
  <1>1. /\ calls # <<>> /\ calls[1].call.from = "client" /\ IsFirst("Set")
        /\ calls[1].call.method = "Set" /\ CallOf(calls[1].call)
        /\ IsCall(calls[1], "client", client.ownerEpoch, client.pending)
    BY FirstCall DEF HandlesSetWithoutEffect
  <1>2. NotReady = "BACKEND_UNAVAILABLE"
    BY <1>1 DEF NotReady
  <1> DEFINE call == calls[1].call
             wanted == Counting!Row(call.op, call.value, call.expected, 0)
             known == {r \in log : r.op = call.op}
             same == {r \in known : [r EXCEPT !.result = 0] = wanted}
             code == IF service.state # "READY" THEN NotReady
                     ELSE IF same # {} THEN "OK"
                     ELSE IF known # {} THEN "CONFLICT" ELSE "STALE_REVISION"
             ready == service.state = "READY"
  <1>3. \/ Answer(SignedReply(call, code, ready)) /\ UNCHANGED spent
        \/ Spend("failure") /\ Answer(SignedReply(call, "IO_ERROR", TRUE))
    BY Zenon DEF HandlesSetWithoutEffect
  <1>4. UNCHANGED <<service, persistedGeneration, registerVars>>
    BY DEF HandlesSetWithoutEffect
  <1>5. CASE Answer(SignedReply(call, code, ready)) /\ UNCHANGED spent
    <2> DEFINE m == SignedReply(call, code, ready)
    <2>1. code = IF service.state # "READY" THEN "BACKEND_UNAVAILABLE"
                 ELSE IF same # {} THEN "OK"
                 ELSE IF known # {} THEN "CONFLICT" ELSE "STALE_REVISION"
      BY <1>2, Zenon
    <2>2. ready \in BOOLEAN
      OBVIOUS
    <2>3. /\ IsReply(m) /\ m.kind = "reply" /\ m.call = call /\ ~m.error
          /\ m.answer.code = code /\ m.answer.sequence = service.sequence
          /\ m.answer.owner = IF kind = "notifications" /\ ~ready THEN NoOwner ELSE service.owner
      <3> HIDE DEF code, ready
      <3> QED
        BY <1>1, <2>2, RepliesAreSigned
    <2>4. Answer(m)
      BY <1>5
    <2> HIDE DEF m
    <2>5. /\ TellsTruth(m, client.pending, log)
          /\ code = "BACKEND_UNAVAILABLE" => service.state # "READY"
      <3>1. m.call = call /\ m.answer.code = code
        BY <2>3
      <3> QED
        BY <1>1, <2>1, <3>1, RefusalsAreTrue, Zenon
    <2> HIDE DEF code
    <2>6. Truthful(m)
      BY <1>1, <2>3, <2>5 DEF Truthful
    <2> QED
      BY <1>1, <1>4, <1>5, <2>3, <2>4, <2>5, <2>6, ReplyIsSafe
  <1>6. CASE Spend("failure") /\ Answer(SignedReply(call, "IO_ERROR", TRUE))
    <2> DEFINE m == SignedReply(call, "IO_ERROR", TRUE)
    <2>1. /\ IsReply(m) /\ m.kind = "reply" /\ m.call = call /\ ~m.error
          /\ m.answer.code = "IO_ERROR" /\ m.answer.sequence = service.sequence
          /\ m.answer.owner = service.owner
      <3> DEFINE signed == TRUE
                 result == "IO_ERROR"
                 n == SignedReply(call, result, signed)
      <3>1. signed \in BOOLEAN
        OBVIOUS
      <3> HIDE DEF signed, result
      <3>2. /\ IsReply(n) /\ n.kind = "reply" /\ n.call = call /\ ~n.error
            /\ n.answer.code = result /\ n.answer.sequence = service.sequence
            /\ n.answer.owner = IF kind = "notifications" /\ ~signed THEN NoOwner
                                                                    ELSE service.owner
        BY <1>1, <3>1, RepliesAreSigned
      <3> HIDE DEF n
      <3>3. m = n
        BY DEF n, result, signed
      <3> HIDE DEF m
      <3> QED
        BY <3>2, <3>3 DEF signed, result
    <2>2. client.pending # NoOperation
      BY <1>1 DEF IsCall, AttemptOf
    <2>3. Answer(m)
      BY <1>6
    <2> HIDE DEF m
    <2>4. TellsTruth(m, client.pending, log) /\ Truthful(m)
      BY <1>1, <2>1, <2>2 DEF TellsTruth, Truthful
    <2> QED
      BY <1>1, <1>4, <1>6, <2>1, <2>3, <2>4, ReplyIsSafe
  <1> QED
    BY <1>3, <1>5, <1>6

\* What an operation writes is a row of its own, and at most a revision.
LEMMA WritesOneRow ==
    ASSUME RegisterKnown, NEW op, NEW v, Write(op, v)
    PROVE  /\ value' = v
           /\ revision' \in {revision, revision + 1} /\ (revision' = revision => value' = value)
           /\ kind = "settings" \/ v # value => revision' = revision + 1
           /\ \E row : /\ IsRow(row) /\ row.op = op /\ row.value = v /\ row.expected = revision
                       /\ log' = log \cup {row}
  <1> DEFINE result == IF kind = "settings" \/ v # value THEN revision + 1 ELSE revision
             row == Counting!Row(op, v, revision, result)
  <1>1. revision' = result /\ log' = log \cup {row} /\ value' = v
    <2>1. CASE kind = "settings"
      <3>1. Counting!Write(op, v)
        BY <2>1 DEF Write
      <3>2. /\ revision' = result /\ value' = v
            /\ log' = log \cup {Counting!Row(op, v, revision, result)}
        BY <2>1, <3>1 DEF Counting!Write
      <3> QED
        BY <3>2
    <2>2. CASE kind # "settings"
      <3>1. /\ revision' = result /\ value' = v
            /\ log' = log \cup {Comparing!Row(op, v, revision, result)}
        BY <2>2 DEF Write, Comparing!Write
      <3>2. Comparing!Row(op, v, revision, result) = row
        BY DEF Comparing!Row, Counting!Row
      <3> QED
        BY <3>1, <3>2
    <2> QED
      BY <2>1, <2>2
  <1>2. IsRow(row) /\ row.op = op /\ row.value = v /\ row.expected = revision
    BY DEF IsRow, Counting!Row
  <1> HIDE DEF row
  <1> QED
    BY <1>1, <1>2 DEF RegisterKnown

\* A row of the pending operation, or of another client, falsifies nothing.
LEMMA RowKeepsTheRest ==
    ASSUME ServiceInv, UNCHANGED clientOnly, NEW row, IsRow(row), log' = log \cup {row},
           \/ row.op \notin Operations /\ row.op # client.pending.op
           \/ /\ client.pending # NoOperation /\ row.op = client.pending.op
              /\ row.value = client.pending.value /\ row.expected = client.pending.expected
    PROVE  Outcomes'
  <1>0. UNCHANGED <<kind, client, issued, resolved>>
    BY DEF clientOnly
  <1>1. OperationsIssued'
    BY <1>0 DEF ServiceInv, Outcomes, OperationsIssued, WrittenValues
  <1>2. LogIsIssued'
    <2> SUFFICES ASSUME NEW r \in log'
                 PROVE  /\ IsRow(r)
                        /\ r.op \in Operations => r.op <= issued
                        /\ client.pending # NoOperation /\ r.op = client.pending.op =>
                                r.value = client.pending.value /\ r.expected = client.pending.expected
      BY <1>0 DEF LogIsIssued
    <2>1. CASE r \in log
      BY <2>1 DEF ServiceInv, Outcomes, LogIsIssued
    <2>2. CASE r = row
      BY <2>2, PendingOperation DEF ServiceInv
    <2> QED
      BY <2>1, <2>2
  <1>3. OutcomesFollow'
    BY <1>0 DEF ServiceInv, Outcomes, OutcomesFollow
  <1>4. ReportsAreTrue'
    BY <1>0, PendingOperation DEF ServiceInv, Outcomes, OutcomesFollow, ReportsAreTrue
  <1> QED
    BY <1>1, <1>2, <1>3, <1>4 DEF Outcomes

LEMMA ThreeOf ==
    ASSUME NEW N, NEW x \in N, NEW y \in N, NEW z \in N
    PROVE  /\ IsSeq(<<x, y, z>>)
           /\ \A i \in DOMAIN <<x, y, z>> : <<x, y, z>>[i] \in N
           /\ DOMAIN <<x, y, z>> = {1, 2, 3} /\ <<x, y, z>>[1] = x /\ <<x, y, z>>[2] = y
  <1>1. <<x, y, z>> \in Seq(N)
    OBVIOUS
  <1>2. DOMAIN <<x, y, z>> = {1, 2, 3}
    OBVIOUS
  <1> QED
    BY <1>1, <1>2 DEF IsSeq

\* The signal of the family, as announced with the n-th number.
Signal(n, v, r) ==
    [kind |-> "value", to |-> {"client"}, owner |-> service.owner,
     sequence |-> service.sequence + n, value |-> v, revision |-> r]

LEMMA SignalSays ==
    ASSUME BusKnown, NEW n \in Nat, NEW v \in Nat, NEW r \in Nat
    PROVE  /\ IsNews(Signal(n, v, r)) /\ Signal(n, v, r).kind = "value"
           /\ Signal(n, v, r).owner = service.owner /\ Signal(n, v, r).value = v
           /\ Signal(n, v, r).sequence = service.sequence + n /\ Signal(n, v, r).revision = r
  <1> DEFINE m == Signal(n, v, r)
  <1>1. /\ m.kind = "value" /\ m.to = {"client"} /\ m.owner = service.owner /\ m.value = v
        /\ m.sequence = service.sequence + n /\ m.revision = r
        /\ DOMAIN m = {"kind", "to", "owner", "sequence", "value", "revision"}
    BY DEF Signal
  <1> HIDE DEF m
  <1>2. IsNews(m)
    BY <1>1, ObjectsAssumption DEF IsNews, BusKnown
  <1> QED
    BY <1>1, <1>2 DEF m

LEMMA AnnouncementIs ==
    ASSUME RegisterKnown, NEW v \in Nat, NEW r
    PROVE  /\ kind = "toast" =>
                Announcement(v, r) = <<Signal(1, v, r), EventOf(service.owner, 1, "toast")>>
           /\ kind = "settings" =>
                Announcement(v, r) = <<Signal(1, v, r), EventOf(service.owner, 1, "other"),
                                       EventOf(service.owner, 2, "other")>>
           /\ kind = "notifications" /\ v > value =>
                Announcement(v, r) = <<EventOf(service.owner, 1, "other"), Signal(2, v, r),
                                       EventOf(service.owner, 2, "other")>>
           /\ kind = "notifications" /\ ~(v > value) =>
                Announcement(v, r) = <<Signal(1, v, r), EventOf(service.owner, 1, "other")>>
  <1>1. value \in Nat
    BY DEF RegisterKnown, StoredValues, Unset
  <1>2. CASE kind = "toast"
    BY <1>2 DEF Announcement, Signal
  <1>3. CASE kind = "settings"
    BY <1>3 DEF Announcement, Signal
  <1>4. CASE kind = "notifications" /\ v > value
    <2>1. ~(v <= value) /\ kind # "toast" /\ kind # "settings"
      BY <1>1, <1>4
    <2> QED
      BY <1>4, <2>1 DEF Announcement, Signal
  <1>5. CASE kind = "notifications" /\ ~(v > value)
    <2>1. v <= value
      BY <1>1, <1>5
    <2>2. ~(kind = "notifications" /\ v > value) /\ kind # "toast" /\ kind # "settings"
      BY <1>5
    <2> QED
      BY <1>5, <2>1, <2>2 DEF Announcement, Signal
  <1> QED
    BY <1>2, <1>3, <1>4, <1>5 DEF RegisterKnown

LEMMA AnnouncingMoves ==
    ASSUME BusKnown, RegisterKnown, Alive, service.state = "READY", NEW v, service' = Announces(v)
    PROVE  /\ service' \in [owner : Owners, sequence : Nat, state : States]
           /\ service'.owner = service.owner /\ service'.state = "READY"
           /\ service'.sequence =
                IF kind = "settings" \/ (kind = "notifications" /\ v > value)
                THEN service.sequence + 2 ELSE service.sequence + 1
  <1>1. service \in [owner : Owners, sequence : Nat, state : States]
    BY DEF BusKnown
  <1>2. CASE kind = "settings" \/ (kind = "notifications" /\ v > value)
    <2>1. service' = [service EXCEPT !.sequence = @ + 2]
      BY <1>2 DEF Announces
    <2> QED
      BY <1>1, <1>2, <2>1
  <1>3. CASE ~(kind = "settings" \/ (kind = "notifications" /\ v > value))
    <2>1. service' = [service EXCEPT !.sequence = @ + 1]
      BY <1>3 DEF Announces
    <2> QED
      BY <1>1, <1>3, <2>1
  <1> QED
    BY <1>2, <1>3

\* What is announced of a change, and with which number.
Announcing(told, n) ==
    /\ IsSeq(told)
    /\ \A i \in DOMAIN told : IsNews(told[i]) /\ Announced(told[i], n)
    /\ \E i \in DOMAIN told : told[i].kind = "value"
    /\ service.sequence < n /\ n <= service'.sequence
    /\ kind = "toast" => service'.sequence = n /\ n = service.sequence + 1

LEMMA AnnouncementSays ==
    ASSUME BusKnown, RegisterKnown, Alive, service.state = "READY", NEW v \in Nat, NEW r \in Nat,
           service' = Announces(v), value' = v, revision' = r
    PROVE  \E n \in Nat : Announcing(Announcement(v, r), n)
  <1> DEFINE s == service.sequence
             a == EventOf(service.owner, 1, IF kind = "toast" THEN "toast" ELSE "other")
             b == EventOf(service.owner, 2, "other")
             x == Signal(1, v, r)
             y == Signal(2, v, r)
             more == kind = "settings" \/ (kind = "notifications" /\ v > value)
  <1>1. service.sequence \in Nat /\ service.owner \in Owners
    BY DEF BusKnown
  <1>2. service'.sequence = (IF more THEN s + 2 ELSE s + 1) /\ service'.owner = service.owner
    BY AnnouncingMoves
  <1>3. /\ IsNews(a) /\ a.kind = "event" /\ a.owner = service.owner /\ a.sequence = s + 1
        /\ a.subject = IF kind = "toast" THEN "toast" ELSE "other"
    BY <1>1, EventsSay, SignalsAreNews
  <1>4. /\ IsNews(b) /\ b.kind = "event" /\ b.owner = service.owner /\ b.sequence = s + 2
        /\ b.subject = "other"
    BY <1>1, EventsSay, SignalsAreNews
  <1>5. /\ IsNews(x) /\ x.kind = "value" /\ x.owner = service.owner /\ x.sequence = s + 1
        /\ x.value = v /\ x.revision = r
    BY SignalSays
  <1>6. /\ IsNews(y) /\ y.kind = "value" /\ y.owner = service.owner /\ y.sequence = s + 2
        /\ y.value = v /\ y.revision = r
    BY SignalSays
  <1>7. /\ kind = "toast" => Announcement(v, r) = <<x, a>>
        /\ kind = "settings" => Announcement(v, r) = <<x, a, b>>
        /\ kind = "notifications" /\ v > value => Announcement(v, r) = <<a, y, b>>
        /\ kind = "notifications" /\ ~(v > value) => Announcement(v, r) = <<x, a>>
    BY AnnouncementIs
  <1> HIDE DEF a, b, x, y
  <1>8. Announced(a, s + 1) /\ Announced(a, s + 2)
    BY <1>1, <1>2, <1>3 DEF Announced
  <1>9. kind # "toast" /\ more => Announced(b, s + 1) /\ Announced(b, s + 2)
    BY <1>1, <1>2, <1>4 DEF Announced
  <1>10. Announced(x, s + 1) /\ Announced(y, s + 2)
    BY <1>5, <1>6 DEF Announced
  <1> DEFINE Says(n) == {m \in {a, b, x, y} : IsNews(m) /\ Announced(m, n)}
  <1>11. CASE ~more
    <2> DEFINE told == <<x, a>>
    <2>1. x \in Says(s + 1) /\ a \in Says(s + 1)
      BY <1>3, <1>5, <1>8, <1>10
    <2> HIDE DEF Says
    <2>2. IsSeq(told) /\ (\A i \in DOMAIN told : told[i] \in Says(s + 1)) /\ 1 \in DOMAIN told
          /\ told[1] = x
      BY <2>1, ListIsSeq, TwoOf
    <2>3. Announcement(v, r) = told
      BY <1>7, <1>11 DEF RegisterKnown
    <2> HIDE DEF told
    <2> QED
      BY <1>1, <1>2, <1>5, <1>11, <2>2, <2>3 DEF Announcing, Says
  <1>12. CASE kind = "settings"
    <2> DEFINE told == <<x, a, b>>
    <2>1. x \in Says(s + 1) /\ a \in Says(s + 1) /\ b \in Says(s + 1)
      BY <1>3, <1>4, <1>5, <1>8, <1>9, <1>10, <1>12
    <2> HIDE DEF Says
    <2>2. IsSeq(told) /\ (\A i \in DOMAIN told : told[i] \in Says(s + 1)) /\ 1 \in DOMAIN told
          /\ told[1] = x
      BY <2>1, ThreeOf
    <2>3. Announcement(v, r) = told
      BY <1>7, <1>12
    <2> HIDE DEF told
    <2> QED
      BY <1>1, <1>2, <1>5, <1>12, <2>2, <2>3 DEF Announcing, Says
  <1>13. CASE kind = "notifications" /\ v > value
    <2> DEFINE told == <<a, y, b>>
    <2>1. y \in Says(s + 2) /\ a \in Says(s + 2) /\ b \in Says(s + 2)
      BY <1>3, <1>4, <1>6, <1>8, <1>9, <1>10, <1>13
    <2> HIDE DEF Says
    <2>2. IsSeq(told) /\ (\A i \in DOMAIN told : told[i] \in Says(s + 2)) /\ 2 \in DOMAIN told
          /\ told[2] = y
      BY <2>1, ThreeOf
    <2>3. Announcement(v, r) = told
      BY <1>7, <1>13
    <2> HIDE DEF told
    <2> QED
      BY <1>1, <1>2, <1>6, <1>13, <2>2, <2>3 DEF Announcing, Says
  <1> QED
    BY <1>11, <1>12, <1>13

LEMMA ToldArrives ==
    ASSUME IsSeq(inbox), NEW told, IsSeq(told), NEW more, IsSeq(more), NEW j \in DOMAIN told,
           inbox' = inbox \o told \o more
    PROVE  \E i \in DOMAIN inbox' : i \notin DOMAIN inbox /\ inbox'[i] = told[j]
  <1> DEFINE new == inbox \o told
             all == new \o more
             i == Len(inbox) + j
  <1>1. /\ IsSeq(new) /\ DOMAIN new = 1..(Len(inbox) + Len(told))
        /\ \A k \in DOMAIN new : k \notin DOMAIN inbox => new[k] = told[k - Len(inbox)]
    BY SeqConcat
  <1>2. /\ Len(inbox) \in Nat /\ DOMAIN inbox = 1..Len(inbox)
        /\ Len(told) \in Nat /\ DOMAIN told = 1..Len(told)
    BY SeqFacts
  <1>3. i \in DOMAIN new /\ i \notin DOMAIN inbox /\ i - Len(inbox) = j
    BY <1>1, <1>2
  <1>4. new[i] = told[j]
    BY <1>1, <1>3
  <1> HIDE DEF new, i
  <1>5. DOMAIN new \subseteq DOMAIN all /\ \A k \in DOMAIN new : all[k] = new[k]
    BY <1>1, SeqConcat
  <1>6. inbox' = all
    BY DEF new
  <1> HIDE DEF all
  <1> QED
    BY <1>3, <1>4, <1>5, <1>6

LEMMA TwoFollow ==
    ASSUME IsSeq(inbox), NEW told, IsSeq(told), NEW more, IsSeq(more),
           NEW N, \A i \in DOMAIN told : told[i] \in N, \A i \in DOMAIN more : more[i] \in N,
           inbox' = inbox \o told \o more
    PROVE  Grows(N)
  <1> DEFINE new == told \o more
  <1>1. IsSeq(new) /\ \A i \in DOMAIN new : new[i] \in N
    BY ConcatOf
  <1>2. inbox' = inbox \o new
    BY ConcatIsAssociative
  <1> HIDE DEF new
  <1> QED
    BY <1>1, <1>2, MessagesFollow

LEMMA ChangeIsAStep ==
    ASSUME ServiceInv, kind' = kind, Alive, service.state = "READY",
           persistedGeneration' = persistedGeneration, UNCHANGED spent \/ Spend("other"),
           revision' = revision + 1, NEW v, service' = Announces(v),
           NEW n \in Nat, NEW told, Announcing(told, n),
           NEW more, IsSeq(more), \A i \in DOMAIN more : Announced(more[i], n),
           inbox' = inbox \o told \o more
    PROVE  BusKnown' /\ Step
  <1>1. /\ service' \in [owner : Owners, sequence : Nat, state : States]
        /\ service'.owner = service.owner /\ service'.state = "READY"
    BY AnnouncingMoves DEF ServiceInv
  <1>2. BusKnown' /\ Started' = Started
    BY <1>1, BusMoves DEF ServiceInv, Spendable
  <1>3. Started <= Started' /\ spent'.count["lost"] = spent.count["lost"]
    BY <1>2, Spends DEF ServiceInv, BusKnown, Started, Spendable
  <1> DEFINE N == {told[i] : i \in DOMAIN told} \cup {more[i] : i \in DOMAIN more}
  <1>4. \A m \in N : Announced(m, n)
    BY DEF Announcing
  <1>5. IsSeq(inbox) /\ IsSeq(told)
    BY QueuesAreSeqs DEF ServiceInv, Announcing
  <1>6. Grows(N)
    <2>1. (\A i \in DOMAIN told : told[i] \in N) /\ \A i \in DOMAIN more : more[i] \in N
      OBVIOUS
    <2> HIDE DEF N
    <2> QED
      BY <1>5, <2>1, TwoFollow
  <1> HIDE DEF N
  <1>7. \E i \in DOMAIN inbox' : i \notin DOMAIN inbox /\ inbox'[i].kind = "value"
    <2>1. PICK j \in DOMAIN told : told[j].kind = "value"
      BY DEF Announcing
    <2>2. \E i \in DOMAIN inbox' : i \notin DOMAIN inbox /\ inbox'[i] = told[j]
      BY <1>5, ToldArrives
    <2> QED
      BY <2>1, <2>2
  <1>8. /\ service.sequence < n /\ n <= service'.sequence
        /\ kind = "toast" => service'.sequence = n /\ n = service.sequence + 1
        /\ service.sequence < service'.sequence
    BY <1>1 DEF Announcing, ServiceInv, BusKnown
  <1>9. Writes
    BY <1>1, <1>4, <1>6, <1>7, <1>8 DEF Writes
  <1> QED
    BY <1>2, <1>3, <1>9 DEF Step

\* A change of what is stored keeps what is known of it.
LEMMA WrittenIsStored ==
    ASSUME RegisterKnown, kind' = kind, NEW v, v \in WrittenValues, value' = v,
           revision' \in {revision, revision + 1}
    PROVE  RegisterKnown' /\ v \in Nat /\ revision' \in Nat
  <1>1. v \in StoredValues /\ v \in Nat
    BY DEF RegisterKnown, WrittenValues, StoredValues
  <1>2. StoredValues' = StoredValues
    BY DEF StoredValues
  <1>3. revision' \in Nat
    BY DEF RegisterKnown
  <1> QED
    BY <1>1, <1>2, <1>3 DEF RegisterKnown

LEMMA OtherClientIsSafe ==
    ASSUME ServiceInv, OtherClientSets, UNCHANGED clientOnly
    PROVE  ServiceInv' /\ Step
  <1>1. PICK v \in Writable :
            /\ Write(MaxOperations + 1 + revision, v)
            /\ inbox' = inbox \o Announcement(v, revision') /\ service' = Announces(v)
    BY DEF OtherClientSets
  <1>2. /\ service.state = "READY" /\ Spend("other") /\ calls' = calls
        /\ persistedGeneration' = persistedGeneration /\ kind' = kind
    BY DEF OtherClientSets, clientOnly
  <1>3. Alive /\ value \in Nat /\ revision \in Nat /\ IsSeq(inbox)
    BY <1>2, Owned, QueuesAreSeqs
       DEF ServiceInv, BusKnown, RegisterKnown, StoredValues, Unset
  <1>4. v \in WrittenValues /\ (kind # "settings" => v # value)
    BY <1>3 DEF Writable, WrittenValues, ServiceInv, RegisterKnown
  <1>5. /\ value' = v /\ revision' = revision + 1
        /\ \E row : /\ IsRow(row) /\ row.op = MaxOperations + 1 + revision
                    /\ log' = log \cup {row}
    BY <1>1, <1>4, WritesOneRow DEF ServiceInv
  <1>6. PICK row : /\ IsRow(row) /\ row.op = MaxOperations + 1 + revision
                   /\ log' = log \cup {row}
    BY <1>5
  <1>7. RegisterKnown' /\ v \in Nat /\ revision' \in Nat
    BY <1>2, <1>4, <1>5, WrittenIsStored DEF ServiceInv
  <1> DEFINE told == Announcement(v, revision')
             none == <<>>
  <1>8. PICK n \in Nat : Announcing(told, n)
    BY <1>1, <1>2, <1>3, <1>5, <1>7, AnnouncementSays DEF ServiceInv
  <1>9. inbox' = inbox \o told
    BY <1>1
  <1> HIDE DEF told
  <1>10. IsSeq(told)
    BY <1>8 DEF Announcing
  <1>11. inbox' = inbox \o told \o none
    BY <1>3, <1>9, <1>10, SeqConcat
  <1>12. IsSeq(none) /\ \A i \in DOMAIN none : Announced(none[i], n)
    BY ListIsSeq
  <1> HIDE DEF none
  <1>13. BusKnown' /\ Step
    BY <1>1, <1>2, <1>3, <1>5, <1>8, <1>11, <1>12, ChangeIsAStep
  <1>14. row.op \notin Operations /\ row.op # client.pending.op
    BY <1>3, <1>6, PendingOperation DEF ServiceInv, Operations
  <1>15. Outcomes'
    BY <1>6, <1>14, RowKeepsTheRest
  <1>16. ASSUME NEW who, NEW ep, NEW busy, NEW p, NEW lg, Underway(calls, inbox, who, ep, busy, p, lg)
         PROVE  Underway(calls', inbox', who, ep, busy, p, lg)
    BY <1>2, <1>8, <1>9, <1>16, NewsArrives DEF Announcing
  <1>17. Underway(calls, inbox, "client", client.ownerEpoch, client.requestInFlight,
                  client.pending, log')
    BY <1>6, <1>14, LogGrows DEF ServiceInv, ClientAsks
  <1>18. ReadinessAsks' /\ ClientAsks'
    BY <1>16, <1>17, StillAsked DEF ServiceInv, ReadinessAsks
  <1> QED
    BY <1>7, <1>13, <1>15, <1>18 DEF ServiceInv

LEMMA AppliedIsSafe ==
    ASSUME ServiceInv, HandlesSetApplied, UNCHANGED clientOnly
    PROVE  ServiceInv' /\ Step
  <1> DEFINE call == calls[1].call
             p == client.pending
             ep == client.ownerEpoch
             busy == client.requestInFlight
  <1>1. /\ calls # <<>> /\ 1 \in DOMAIN calls /\ CallOf(call) /\ call.from = "client"
        /\ IsCall(calls[1], "client", ep, p) /\ call.method = "Set" /\ Alive
    BY FirstCall DEF HandlesSetApplied
  <1>2. p # NoOperation /\ call.op = p.op /\ call.value = p.value /\ call.expected = p.expected
    BY <1>1 DEF IsCall, AttemptOf
  <1>3. call.value \in WrittenValues
    BY <1>2, PendingOperation DEF ServiceInv
  <1>4. /\ Write(call.op, call.value) /\ call.expected = revision /\ service.state = "READY"
        /\ kind' = kind
    BY DEF HandlesSetApplied, clientOnly
  <1>5. /\ value' = call.value
        /\ revision' \in {revision, revision + 1} /\ (revision' = revision => value' = value)
        /\ \E row : /\ IsRow(row) /\ row.op = call.op /\ row.value = call.value
                    /\ row.expected = revision /\ log' = log \cup {row}
    BY <1>4, WritesOneRow DEF ServiceInv
  <1>6. PICK row : /\ IsRow(row) /\ row.op = call.op /\ row.value = call.value
                   /\ row.expected = revision /\ log' = log \cup {row}
    BY <1>5
  <1>7. RegisterKnown' /\ call.value \in Nat /\ revision' \in Nat
    BY <1>3, <1>4, <1>5, WrittenIsStored DEF ServiceInv
  <1>8. Outcomes'
    BY <1>2, <1>4, <1>6, RowKeepsTheRest
  <1>9. /\ Underway(calls, inbox, "client", ep, busy, p, log')
        /\ Underway(calls, inbox, "readiness", readiness.ownerEpoch, readiness.requestInFlight,
                    NoOperation, {})
    BY <1>1, <1>6, LogGrows DEF ServiceInv, ClientAsks, ReadinessAsks
  <1>10. CASE ServiceEnds
    <2>1. BusKnown' /\ Step
      BY <1>4, <1>5, <1>10, EndIsATurn DEF ServiceInv
    <2>2. /\ Underway(calls', inbox', "client", ep, busy, p, log')
          /\ Underway(calls', inbox', "readiness", readiness.ownerEpoch,
                      readiness.requestInFlight, NoOperation, {})
      BY <1>9, <1>10, ServiceEndsKeeps
    <2> QED
      BY <1>7, <1>8, <2>1, <2>2, StillAsked DEF ServiceInv
  <1>11. CASE ~ServiceEnds
    <2> DEFINE told == IF revision' = revision THEN <<>> ELSE Announcement(call.value, revision')
               m == SignedReply(call, "OK", TRUE)
               reply == IF calls[1].awaited THEN <<m>> ELSE <<>>
    <2>1. /\ inbox' = inbox \o told \o reply
          /\ calls' = Tail(calls) /\ UNCHANGED <<persistedGeneration, spent>>
          /\ service' = IF revision' = revision THEN service ELSE Announces(call.value)
      BY <1>11 DEF HandlesSetApplied
    <2>2. /\ IsReply(m) /\ m.kind = "reply" /\ m.call = call /\ ~m.error /\ m.answer.code = "OK"
          /\ m.answer.sequence = service.sequence /\ m.answer.owner = service.owner
      <3> DEFINE signed == TRUE
                 n == SignedReply(call, "OK", signed)
      <3>1. signed \in BOOLEAN
        OBVIOUS
      <3> HIDE DEF signed
      <3>2. /\ IsReply(n) /\ n.kind = "reply" /\ n.call = call /\ ~n.error
            /\ n.answer.code = "OK" /\ n.answer.sequence = service.sequence
            /\ n.answer.owner = IF kind = "notifications" /\ ~signed THEN NoOwner
                                                                    ELSE service.owner
        BY <1>1, <3>1, RepliesAreSigned
      <3> HIDE DEF n
      <3>3. m = n
        BY DEF n, signed
      <3> HIDE DEF m
      <3> QED
        BY <3>2, <3>3 DEF signed
    <2> HIDE DEF m
    <2>3. IsSeq(reply) /\ \A i \in DOMAIN reply : reply[i] \in {m}
      BY ListIsSeq, OneOf
    <2>4. IsSeq(inbox)
      BY QueuesAreSeqs DEF ServiceInv
    <2>5. IsSeq(told) /\ \A i \in DOMAIN told : IsNews(told[i])
      <3>1. CASE revision' = revision
        BY <3>1, ListIsSeq
      <3>2. CASE revision' # revision
        <4> DEFINE a == Announcement(call.value, revision')
        <4>1. \E n \in Nat : Announcing(a, n)
          BY <1>1, <1>4, <1>5, <1>7, <2>1, <3>2, AnnouncementSays DEF ServiceInv
        <4>2. told = a
          BY <3>2
        <4> HIDE DEF a, told
        <4> QED
          BY <4>1, <4>2 DEF Announcing
      <3> QED
        BY <3>1, <3>2
    <2>6. BusKnown' /\ Step
      <3>1. CASE revision' = revision
        <4>1. service' = service /\ value' = value /\ told = <<>>
          BY <1>5, <2>1, <3>1
        <4>2. BusKnown' /\ Started' = Started
          BY <2>1, <4>1, BusMoves DEF ServiceInv
        <4>3. inbox' = inbox \o reply
          BY <2>1, <2>4, <4>1, SeqConcat
        <4> HIDE DEF reply
        <4>4. Grows({m})
          BY <2>3, <2>4, <4>3, MessagesFollow
        <4>5. Truthful(m)
          BY <1>1, <2>2 DEF Truthful
        <4>6. Answers
          BY <3>1, <4>1, <4>4, <4>5 DEF Answers
        <4> QED
          BY <1>4, <2>1, <4>2, <4>6 DEF Step, ServiceInv, BusKnown, Started, Spendable
      <3>2. CASE revision' # revision
        <4> DEFINE a == Announcement(call.value, revision')
        <4>1. PICK n \in Nat : Announcing(a, n)
          BY <1>1, <1>4, <1>5, <1>7, <2>1, <3>2, AnnouncementSays DEF ServiceInv
        <4>2. inbox' = inbox \o a \o reply
          BY <2>1, <3>2
        <4> HIDE DEF a, told
        <4>3. Announced(m, n)
          BY <1>1, <2>2 DEF Announced
        <4>4. \A i \in DOMAIN reply : Announced(reply[i], n)
          BY <2>3, <4>3
        <4> HIDE DEF reply
        <4>5. service' = Announces(call.value) /\ revision' = revision + 1
          BY <1>5, <2>1, <3>2
        <4> QED
          BY <1>1, <1>4, <2>1, <2>3, <4>1, <4>2, <4>4, <4>5, ChangeIsAStep
      <3> QED
        BY <3>1, <3>2
    <2> HIDE DEF told
    <2>7. TellsTruth(m, p, log')
      BY <1>2, <1>6, <2>2 DEF TellsTruth
    <2>8. ASSUME NEW who, NEW e, NEW b, NEW q, NEW lg, Underway(calls, inbox, who, e, b, q, lg),
                 call.from = who => TellsTruth(m, q, lg)
          PROVE  Underway(calls', inbox', who, e, b, q, lg)
      <3> DEFINE new == inbox \o told
      <3>1. Underway(calls, new, who, e, b, q, lg)
        BY <2>5, <2>8, NewsArrives
      <3>2. IsSeq(new)
        BY <3>1 DEF Underway, AtMostOne, Queued
      <3>3. inbox' = new \o reply
        BY <2>1
      <3> HIDE DEF new
      <3>4. CASE calls[1].awaited
        <4>1. new \o reply = Append(new, m)
          BY <3>2, <3>4, ListIsSeq, SeqConcat
        <4>2. Underway(Tail(calls), Append(new, m), who, e, b, q, lg)
          BY <1>1, <2>2, <2>8, <3>1, <3>4, CallAnswered
        <4> QED
          BY <2>1, <3>3, <4>1, <4>2
      <3>5. CASE ~calls[1].awaited
        <4>1. new \o reply = new
          BY <3>2, <3>5, ListIsSeq, SeqConcat
        <4>2. Underway(Tail(calls), new, who, e, b, q, lg)
          BY <1>1, <3>1, <3>5, CallTaken
        <4> QED
          BY <2>1, <3>3, <4>1, <4>2
      <3> QED
        BY <3>4, <3>5
    <2>9. /\ Underway(calls', inbox', "client", ep, busy, p, log')
          /\ Underway(calls', inbox', "readiness", readiness.ownerEpoch,
                      readiness.requestInFlight, NoOperation, {})
      BY <1>1, <1>9, <2>7, <2>8
    <2> QED
      BY <1>7, <1>8, <2>6, <2>9, StillAsked DEF ServiceInv
  <1> QED
    BY <1>10, <1>11

\* The service, the bus and other clients keep what they are known for.
LEMMA ServiceIsSafe ==
    ASSUME ServiceInv, ServiceTurn \/ EnvironmentTurn PROVE ServiceInv' /\ Step
  <1>1. UNCHANGED clientOnly
    BY DEF ServiceTurn, EnvironmentTurn
  <1>2. CASE (BusOwes \/ BusMay) /\ UNCHANGED registerVars
    BY <1>1, <1>2, BusStepIsSafe
  <1>3. CASE HandlesGet \/ HandlesSetWithoutEffect \/ HandlesSetApplied \/ OtherClientSets
    BY <1>1, <1>3, GetIsSafe, RefusalIsSafe, AppliedIsSafe, OtherClientIsSafe
  <1> QED
    BY <1>2, <1>3 DEF ServiceTurn, EnvironmentTurn
-----------------------------------------------------------------------------
(* What messages and copies say about the service.                         *)

\* An incarnation that has started signs, with numbers it has given out.
Signs(o, n) ==
    /\ o.uuid <= Started
    /\ o.uuid # 0 /\ o.uuid = service.owner.uuid => n <= service.sequence

IsGetAll(m) == m.kind = "reply" /\ ~m.error /\ m.call.method = "GetAll"
IsRead(m) ==
    m.kind = "reply" /\ ~m.error /\ m.call.method = "Get" /\ m.answer.code = "OK"

\* Only a notification service that is not READY leaves a reply unsigned
\* that carries an answer to a change.
SignedMessage(m) ==
    /\ m.kind \in {"event", "value"} => m.owner.uuid # 0 /\ Signs(m.owner, m.sequence)
    /\ m.kind = "reply" /\ ~m.error => Signs(m.answer.owner, m.answer.sequence)
    /\ IsGetAll(m) => m.answer.owner.uuid # 0
    /\ m.kind = "reply" /\ ~m.error /\ m.call.method = "Set"
       /\ m.answer.code = "BACKEND_UNAVAILABLE" /\ kind = "notifications" =>
            m.answer.owner = NoOwner

\* What a copy of what is stored says: revisions identify values.
Reading(x) ==
    /\ x.owner.uuid # 0 /\ Signs(x.owner, x.sequence)
    /\ x.revision <= revision /\ (x.revision = revision => x.value = value)
    /\ x.owner.uuid = service.owner.uuid => x.owner = service.owner /\ service.state = "READY"
ReadingMessage(m) ==
    /\ m.kind = "value" => Reading(m)
    /\ IsRead(m) => Reading(m.answer)

MessagesSigned(ms) == \A i \in DOMAIN ms : SignedMessage(ms[i]) /\ ReadingMessage(ms[i])

\* After the event with number "last" the readiness has not changed.
Shows(s, last) ==
    s.owner.uuid # 0 /\ s.owner.uuid = service.owner.uuid /\ s.sequence >= last =>
        s.owner = service.owner /\ s.state = service.state
RecentMessage(m, last) ==
    /\ m.kind = "event" /\ m.owner.uuid = service.owner.uuid /\ m.subject # "readiness" =>
        m.sequence # last
    /\ IsGetAll(m) => Shows(m.answer, last)
Recent(ms, r) ==
    \E last \in Nat :
        /\ last <= service.sequence
        /\ \A i \in DOMAIN ms : RecentMessage(ms[i], last)
        /\ r.available => Shows(r.snapshot, last)

\* What the readiness client has.
IsReadiness(r) ==
    /\ r \in [ownerEpoch : Nat, requestInFlight : BOOLEAN, refreshPending : BOOLEAN,
              lastEventOwner : Owners, lastEventSequence : Nat, available : BOOLEAN,
              snapshot : [owner : Owners, sequence : Nat,
                          state : {"STOPPED", "STARTING", "RECOVERING", "READY", "FAILED"}]]
    /\ r.available => r.snapshot.owner.uuid # 0 /\ Signs(r.snapshot.owner, r.snapshot.sequence)
    /\ Signs(r.lastEventOwner, r.lastEventSequence)
    /\ r.available /\ r.snapshot.owner = r.lastEventOwner =>
            r.snapshot.sequence >= r.lastEventSequence
    /\ r.refreshPending => r.requestInFlight

\* The answer it takes covers the events it has heard, or it asks again.
Covered(ms, r) ==
    ~r.refreshPending => \A i \in DOMAIN ms :
        /\ Mine(ms[i], "readiness", r.ownerEpoch) /\ ~ms[i].error
        /\ ms[i].answer.owner = r.lastEventOwner
        => ms[i].answer.sequence >= r.lastEventSequence

IsTyped(m) == IsNews(m) \/ IsReply(m)

LEMMA KnownService ==
    ASSUME BusKnown
    PROVE  /\ service.sequence \in Nat /\ service.owner \in Owners /\ service.owner.uuid \in Nat
           /\ Started \in Nat /\ service.owner.uuid <= Started
           /\ service.owner.uuid = 0 => service = NoService
           /\ NoOwner \in Owners /\ NoOwner.uuid = 0
           /\ \A o \in Owners : o.uuid \in Nat
  BY StartsTyped DEF BusKnown, Started, Spendable, Owners, NoOwner

LEMMA SignatureStays ==
    ASSUME BusKnown, BusKnown', Step, NEW o \in Owners, NEW n \in Nat, Signs(o, n)
    PROVE  Signs(o, n)'
  <1>1. /\ Started \in Nat /\ Started' \in Nat /\ o.uuid \in Nat
        /\ service.sequence \in Nat /\ service'.sequence \in Nat
        /\ service'.owner.uuid \in Nat
    BY KnownService DEF BusKnown, Started, Spendable, Owners
  <1>2. o.uuid <= Started' /\ Started <= Started'
    BY <1>1 DEF Step, Signs
  <1>3. CASE Answers \/ Loses
    BY <1>1, <1>2, <1>3 DEF Signs, Answers, Loses
  <1>4. CASE Publishes
    BY <1>1, <1>2, <1>4 DEF Signs, Publishes
  <1>5. CASE Turns
    BY <1>1, <1>2, <1>5 DEF Signs, Turns
  <1>6. CASE Writes
    BY <1>1, <1>2, <1>6 DEF Signs, Writes
  <1> QED
    BY <1>3, <1>4, <1>5, <1>6 DEF Step

\* What copies are compared with, before and after a step.
LEMMA ReadingStays ==
    ASSUME BusKnown, BusKnown', RegisterKnown, Step,
           NEW x, x.owner \in Owners, x.sequence \in Nat, x.revision \in Nat, Reading(x)
    PROVE  Reading(x)'
  <1>1. /\ Signs(x.owner, x.sequence)' /\ x.owner.uuid \in Nat /\ x.owner.uuid <= Started
        /\ Started \in Nat /\ service'.owner.uuid \in Nat /\ revision \in Nat
    BY SignatureStays, KnownService DEF Reading, RegisterKnown, Signs, BusKnown, Owners
  <1>2. CASE Answers \/ Loses
    BY <1>1, <1>2 DEF Reading, Answers, Loses
  <1>3. CASE Publishes
    BY <1>1, <1>3 DEF Reading, Publishes
  <1>4. CASE Turns
    BY <1>1, <1>4 DEF Reading, Turns
  <1>5. CASE Writes
    BY <1>1, <1>5 DEF Reading, Writes
  <1> QED
    BY <1>2, <1>3, <1>4, <1>5 DEF Step

LEMMA MessageIsTyped ==
    ASSUME NEW m, IsTyped(m)
    PROVE  /\ m.kind \in {"event", "value"} => m.owner \in Owners /\ m.sequence \in Nat
           /\ m.kind = "value" => m.value \in Nat /\ m.revision \in Nat
           /\ m.kind = "reply" /\ ~m.error => m.answer.owner \in Owners /\ m.answer.sequence \in Nat
           /\ IsGetAll(m) => m.answer \in Snapshots
           /\ IsRead(m) => m.answer.value \in Nat /\ m.answer.revision \in Nat
           /\ m.kind \in {"owner", "event", "value", "reply"}
  BY DEF IsTyped, IsNews, IsReply, IsAnswer, IsGetAll, IsRead, Snapshots

LEMMA MessageStays ==
    ASSUME BusKnown, BusKnown', RegisterKnown, Step,
           NEW m, IsTyped(m), SignedMessage(m), ReadingMessage(m)
    PROVE  SignedMessage(m)' /\ ReadingMessage(m)'
  <1>1. /\ m.kind \in {"event", "value"} => m.owner \in Owners /\ m.sequence \in Nat
        /\ m.kind = "value" => m.value \in Nat /\ m.revision \in Nat
        /\ m.kind = "reply" /\ ~m.error => m.answer.owner \in Owners /\ m.answer.sequence \in Nat
        /\ IsRead(m) => m.answer.value \in Nat /\ m.answer.revision \in Nat
    BY MessageIsTyped
  <1>2. kind' = kind
    BY DEF Step
  <1>3. SignedMessage(m)'
    BY <1>1, <1>2, SignatureStays DEF SignedMessage, IsGetAll
  <1>4. m.kind = "value" => Reading(m)'
    BY <1>1, ReadingStays DEF ReadingMessage
  <1>5. IsRead(m) => Reading(m.answer)'
    <2> SUFFICES ASSUME IsRead(m) PROVE Reading(m.answer)'
      OBVIOUS
    <2> DEFINE x == m.answer
    <2>1. x.owner \in Owners /\ x.sequence \in Nat /\ x.revision \in Nat /\ Reading(x)
      BY <1>1 DEF ReadingMessage, IsRead
    <2> HIDE DEF x
    <2>2. Reading(x)'
      BY <2>1, ReadingStays
    <2> QED
      BY <2>2 DEF x
  <1> QED
    BY <1>3, <1>4, <1>5 DEF ReadingMessage, IsRead

\* The messages that a step sends.
Sent(m) ==
    \/ UNCHANGED <<service, value, revision>> /\ Truthful(m)
    \/ Publishes /\ \E n \in Nat : Published(m, n)
    \/ m.kind = "owner" \/ (m.kind = "reply" /\ m.error)
    \/ Writes /\ \E n \in Nat : /\ service.sequence < n /\ n <= service'.sequence
                                /\ Announced(m, n)

LEMMA LossLeavesOld ==
    ASSUME Loses
    PROVE  IsSeq(inbox') /\ \A i \in DOMAIN inbox' : \E j \in DOMAIN inbox : inbox'[i] = inbox[j]
  <1>1. PICK i \in DOMAIN inbox :
          /\ IsSeq(inbox) /\ inbox' = SubSeq(inbox, 1, i - 1) \o SubSeq(inbox, i + 1, Len(inbox))
    BY DEF Loses
  <1> DEFINE rest == SubSeq(inbox, 1, i - 1) \o SubSeq(inbox, i + 1, Len(inbox))
  <1>2. /\ IsSeq(rest) /\ DOMAIN rest = 1..(Len(inbox) - 1)
        /\ \A k \in DOMAIN rest : rest[k] = inbox[IF k < i THEN k ELSE k + 1]
    BY <1>1, SeqWithout
  <1>3. inbox' = rest
    BY <1>1
  <1> HIDE DEF rest
  <1>4. Len(inbox) \in Nat /\ DOMAIN inbox = 1..Len(inbox)
    BY <1>1, SeqFacts
  <1>5. ASSUME NEW k \in DOMAIN rest PROVE \E j \in DOMAIN inbox : rest[k] = inbox[j]
    <2>1. (IF k < i THEN k ELSE k + 1) \in DOMAIN inbox
      BY <1>2, <1>4
    <2> QED
      BY <1>2, <2>1
  <1> QED
    BY <1>2, <1>3, <1>5

LEMMA OldOrSent ==
    ASSUME Step
    PROVE  /\ IsSeq(inbox')
           /\ \A i \in DOMAIN inbox' :
                (\E j \in DOMAIN inbox : inbox'[i] = inbox[j]) \/ Sent(inbox'[i])
  <1>1. ASSUME NEW N, Grows(N), \A m \in N : Sent(m)
        PROVE  /\ IsSeq(inbox')
               /\ \A i \in DOMAIN inbox' :
                    (\E j \in DOMAIN inbox : inbox'[i] = inbox[j]) \/ Sent(inbox'[i])
    BY <1>1 DEF Grows
  <1>2. CASE Answers
    <2>1. PICK N : Grows(N) /\ \A m \in N : Truthful(m)
      BY <1>2 DEF Answers
    <2> QED
      BY <1>1, <1>2, <2>1 DEF Answers, Sent
  <1>3. CASE Publishes
    <2>1. PICK n \in Nat : \E N : Grows(N) /\ \A m \in N : Published(m, n)
      BY <1>3 DEF Publishes
    <2> QED
      BY <1>1, <1>3, <2>1 DEF Sent
  <1>4. CASE Turns
    <2>1. PICK N : Grows(N) /\ \A m \in N : m.kind = "owner" \/ (m.kind = "reply" /\ m.error)
      BY <1>4 DEF Turns
    <2> QED
      BY <1>1, <2>1 DEF Sent
  <1>5. CASE Writes
    <2>1. PICK n \in Nat : /\ service.sequence < n /\ n <= service'.sequence
                           /\ \E N : Grows(N) /\ \A m \in N : Announced(m, n)
      BY <1>5 DEF Writes
    <2> QED
      BY <1>1, <1>5, <2>1 DEF Sent
  <1>6. CASE Loses
    BY <1>6, LossLeavesOld
  <1> QED
    BY <1>2, <1>3, <1>4, <1>5, <1>6 DEF Step

LEMMA SentIsKnown ==
    ASSUME BusKnown, BusKnown', RegisterKnown, RegisterKnown', Step, NEW m, Sent(m)
    PROVE  SignedMessage(m)' /\ ReadingMessage(m)'
  <1>1. /\ service.sequence \in Nat /\ service.owner \in Owners /\ service.owner.uuid \in Nat
        /\ service'.sequence \in Nat /\ service'.owner.uuid \in Nat
        /\ Started' \in Nat /\ Started \in Nat /\ service'.owner.uuid <= Started'
        /\ service.owner.uuid <= Started /\ Started <= Started'
        /\ NoOwner.uuid = 0 /\ (service.state = "READY" => service.owner.uuid # 0)
        /\ kind' = kind /\ revision' \in Nat
    BY KnownService DEF BusKnown, Owners, Started, Spendable, Step, RegisterKnown
  <1>2. CASE UNCHANGED <<service, value, revision>> /\ Truthful(m)
    <2>1. m.kind = "reply" /\ (~m.error => Signs(m.answer.owner, m.answer.sequence)')
      BY <1>1, <1>2 DEF Truthful, Signs
    <2>2. IsGetAll(m) => m.answer.owner.uuid # 0
      BY <1>1, <1>2, Owned DEF Truthful, IsGetAll
    <2>3. SignedMessage(m)'
      BY <1>1, <1>2, <2>1, <2>2 DEF Truthful, SignedMessage, IsGetAll
    <2>4. IsRead(m) => Reading(m.answer)'
      BY <1>1, <1>2, <2>1 DEF Truthful, IsRead, Reading
    <2> QED
      BY <2>1, <2>3, <2>4 DEF ReadingMessage, IsRead
  <1>3. CASE Publishes /\ \E n \in Nat : Published(m, n)
    <2>1. m.kind = "event" /\ m.owner.uuid # 0 /\ Signs(m.owner, m.sequence)'
      BY <1>1, <1>3, Owned DEF Publishes, Published, Signs
    <2> QED
      BY <2>1 DEF SignedMessage, ReadingMessage, IsGetAll, IsRead
  <1>4. CASE m.kind = "owner" \/ (m.kind = "reply" /\ m.error)
    BY <1>4 DEF SignedMessage, ReadingMessage, IsGetAll, IsRead
  <1>5. CASE Writes /\ \E n \in Nat : /\ service.sequence < n /\ n <= service'.sequence
                                      /\ Announced(m, n)
    <2>1. PICK n \in Nat : service.sequence < n /\ n <= service'.sequence /\ Announced(m, n)
      BY <1>5
    <2>2. service'.owner = service.owner /\ service.owner.uuid # 0 /\ service'.state = "READY"
          /\ service.sequence <= service'.sequence
      BY <1>1, <1>5, Owned DEF Writes
    <2>3. CASE m.kind = "value" /\ m.owner = service.owner /\ m.sequence = n
               /\ m.value = value' /\ m.revision = revision'
      <3>1. Signs(m.owner, m.sequence)'
        BY <1>1, <2>1, <2>2, <2>3 DEF Signs
      <3>2. Reading(m)'
        BY <1>1, <2>2, <2>3, <3>1 DEF Reading
      <3> QED
        BY <2>2, <2>3, <3>1, <3>2 DEF SignedMessage, ReadingMessage, IsGetAll, IsRead
    <2>4. CASE m.kind = "event" /\ m.owner = service.owner /\ m.sequence \in Nat
               /\ m.sequence <= service'.sequence
      <3>1. Signs(m.owner, m.sequence)'
        BY <1>1, <2>2, <2>4 DEF Signs
      <3> QED
        BY <2>2, <2>4, <3>1 DEF SignedMessage, ReadingMessage, IsGetAll, IsRead
    <2>5. CASE m.kind = "reply" /\ m.call.method = "Set" /\ ~m.error /\ m.answer.code = "OK"
               /\ m.answer.owner = service.owner /\ m.answer.sequence = service.sequence
      <3>1. Signs(m.answer.owner, m.answer.sequence)'
        BY <1>1, <2>2, <2>5 DEF Signs
      <3> QED
        BY <2>5, <3>1 DEF SignedMessage, ReadingMessage, IsGetAll, IsRead
    <2> QED
      BY <2>1, <2>3, <2>4, <2>5 DEF Announced
  <1> QED
    BY <1>2, <1>3, <1>4, <1>5 DEF Sent

LEMMA MessagesAreTyped == ReadinessAsks => \A i \in DOMAIN inbox : IsTyped(inbox[i])
  BY DEF ReadinessAsks, Underway, AtMostOne, Queued, IsMessage, IsTyped

LEMMA MessagesStaySigned ==
    ASSUME BusKnown, BusKnown', RegisterKnown, RegisterKnown', ReadinessAsks, Step,
           MessagesSigned(inbox)
    PROVE  MessagesSigned(inbox)'
  <1> SUFFICES ASSUME NEW i \in DOMAIN inbox'
               PROVE  (SignedMessage(inbox[i]) /\ ReadingMessage(inbox[i]))'
    BY DEF MessagesSigned
  <1>1. CASE \E j \in DOMAIN inbox : inbox'[i] = inbox[j]
    <2>1. PICK j \in DOMAIN inbox : inbox'[i] = inbox[j]
      BY <1>1
    <2>2. IsTyped(inbox[j]) /\ SignedMessage(inbox[j]) /\ ReadingMessage(inbox[j])
      BY MessagesAreTyped DEF MessagesSigned
    <2> QED
      BY <2>1, <2>2, MessageStays
  <1>2. CASE Sent(inbox'[i])
    BY <1>2, SentIsKnown
  <1> QED
    BY <1>1, <1>2, OldOrSent

\* How the number of the last change of readiness moves.
Moves(last, next) ==
    \/ /\ service'.owner = service.owner /\ service'.state = service.state /\ next = last
       /\ service.sequence <= service'.sequence
    \/ service'.owner.uuid = service.owner.uuid /\ service.sequence < next
    \/ service'.owner.uuid = 0 \/ service'.owner.uuid > Started

LEMMA ShownStays ==
    ASSUME BusKnown, BusKnown', NEW last \in Nat, NEW next \in Nat, Moves(last, next),
           NEW s \in Snapshots, Signs(s.owner, s.sequence), Shows(s, last)
    PROVE  Shows(s, next)'
  <1>1. /\ s.owner.uuid \in Nat /\ s.sequence \in Nat /\ service.sequence \in Nat
        /\ service.owner.uuid \in Nat /\ service'.owner.uuid \in Nat /\ Started \in Nat
    BY KnownService DEF BusKnown, Owners, Snapshots
  <1> QED
    BY <1>1 DEF Moves, Signs, Shows

LEMMA RecentStaysSo ==
    ASSUME BusKnown, BusKnown', NEW last \in Nat, NEW next \in Nat, Moves(last, next),
           NEW m, IsTyped(m), SignedMessage(m), RecentMessage(m, last)
    PROVE  RecentMessage(m, next)'
  <1>1. /\ m.kind = "event" => m.owner \in Owners /\ m.sequence \in Nat
        /\ IsGetAll(m) => m.answer \in Snapshots
    BY MessageIsTyped
  <1>2. /\ service.sequence \in Nat /\ Started \in Nat
        /\ service.owner.uuid \in Nat /\ service'.owner.uuid \in Nat
    BY KnownService DEF BusKnown, Owners
  <1>3. ASSUME m.kind = "event", m.owner.uuid = service'.owner.uuid, m.subject # "readiness"
        PROVE  m.sequence # next
    <2>1. m.owner.uuid \in Nat /\ m.sequence \in Nat
      BY <1>1, <1>3 DEF Owners
    <2> QED
      BY <1>2, <1>3, <2>1 DEF SignedMessage, RecentMessage, Signs, Moves
  <1>4. IsGetAll(m) => Shows(m.answer, next)'
    <2> SUFFICES ASSUME IsGetAll(m) PROVE Shows(m.answer, next)'
      OBVIOUS
    <2>1. m.answer \in Snapshots /\ Signs(m.answer.owner, m.answer.sequence) /\ Shows(m.answer, last)
      BY <1>1 DEF SignedMessage, RecentMessage, IsGetAll
    <2> QED
      BY <2>1, ShownStays
  <1> QED
    BY <1>3, <1>4 DEF RecentMessage, IsGetAll

LEMMA RecentIsKept ==
    ASSUME BusKnown, BusKnown', ReadinessAsks, IsReadiness(readiness), readiness' = readiness,
           MessagesSigned(inbox), NEW last \in Nat, NEW next \in Nat, Moves(last, next),
           next <= service'.sequence,
           \A i \in DOMAIN inbox : RecentMessage(inbox[i], last),
           readiness.available => Shows(readiness.snapshot, last),
           NEW N, \A m \in N : RecentMessage(m, next)',
           \A i \in DOMAIN inbox' : (\E j \in DOMAIN inbox : inbox'[i] = inbox[j]) \/ inbox'[i] \in N
    PROVE  Recent(inbox, readiness)'
  <1>1. ASSUME NEW i \in DOMAIN inbox' PROVE RecentMessage(inbox[i], next)'
    <2>1. CASE \E j \in DOMAIN inbox : inbox'[i] = inbox[j]
      <3>1. PICK j \in DOMAIN inbox : inbox'[i] = inbox[j]
        BY <2>1
      <3>2. IsTyped(inbox[j]) /\ SignedMessage(inbox[j]) /\ RecentMessage(inbox[j], last)
        BY MessagesAreTyped DEF MessagesSigned
      <3> QED
        BY <3>1, <3>2, RecentStaysSo
    <2>2. CASE inbox'[i] \in N
      BY <2>2
    <2> QED
      BY <2>1, <2>2
  <1>2. readiness.available => Shows(readiness.snapshot, next)'
    <2> DEFINE s == readiness.snapshot
    <2> SUFFICES ASSUME readiness.available PROVE Shows(s, next)'
      OBVIOUS
    <2>1. s \in Snapshots /\ Signs(s.owner, s.sequence) /\ Shows(s, last)
      BY DEF IsReadiness, Snapshots
    <2> QED
      BY <2>1, ShownStays
  <1>3. (readiness.available => Shows(readiness.snapshot, next))'
    BY <1>2
  <1> QED
    BY <1>1, <1>3 DEF Recent

LEMMA RecentStays ==
    ASSUME BusKnown, BusKnown', ReadinessAsks, IsReadiness(readiness), readiness' = readiness,
           MessagesSigned(inbox), Recent(inbox, readiness), Step
    PROVE  Recent(inbox, readiness)'
  <1>1. PICK last \in Nat : /\ last <= service.sequence
                            /\ \A i \in DOMAIN inbox : RecentMessage(inbox[i], last)
                            /\ readiness.available => Shows(readiness.snapshot, last)
    BY DEF Recent
  <1>2. /\ service.sequence \in Nat /\ service'.sequence \in Nat
        /\ service.owner.uuid \in Nat /\ service'.owner.uuid \in Nat /\ Started \in Nat
    BY KnownService DEF BusKnown, Owners
  <1>3. ASSUME NEW next \in Nat, Moves(last, next), next <= service'.sequence,
               NEW N, Grows(N), \A m \in N : RecentMessage(m, next)'
        PROVE  Recent(inbox, readiness)'
    <2>1. \A i \in DOMAIN inbox' : (\E j \in DOMAIN inbox : inbox'[i] = inbox[j]) \/ inbox'[i] \in N
      BY <1>3 DEF Grows
    <2> QED
      BY <1>1, <1>3, <2>1, RecentIsKept
  <1>4. CASE Answers
    <2>1. PICK N : Grows(N) /\ \A m \in N : Truthful(m)
      BY <1>4 DEF Answers
    <2>2. \A m \in N : RecentMessage(m, last)'
      BY <1>4, <2>1 DEF Answers, Truthful, RecentMessage, IsGetAll, Shows
    <2>3. Moves(last, last)
      BY <1>2, <1>4 DEF Moves, Answers
    <2> QED
      BY <1>1, <1>3, <1>4, <2>1, <2>2, <2>3 DEF Answers
  <1>5. CASE Publishes
    <2>1. PICK n \in Nat : \E N :
            /\ n <= service'.sequence
            /\ \/ service.sequence < n
               \/ n = service.sequence /\ service'.owner = service.owner /\ service'.state = service.state
            /\ Grows(N) /\ \A m \in N : Published(m, n)
      BY <1>5 DEF Publishes
    <2>2. PICK N : Grows(N) /\ \A m \in N : Published(m, n)
      BY <2>1
    <2>3. service'.owner.uuid = service.owner.uuid /\ service.sequence < service'.sequence
      BY <1>5 DEF Publishes
    <2>4. CASE service.sequence < n
      <3>1. Moves(last, n)
        BY <2>3, <2>4 DEF Moves
      <3>2. \A m \in N : RecentMessage(m, n)'
        BY <2>2 DEF Published, RecentMessage, IsGetAll
      <3> QED
        BY <1>3, <2>1, <2>2, <3>1, <3>2
    <2>5. CASE ~(service.sequence < n)
      <3>1. Moves(last, last)
        BY <1>2, <2>1, <2>3, <2>5 DEF Moves
      <3>2. \A m \in N : RecentMessage(m, last)'
        <4> SUFFICES ASSUME NEW m \in N PROVE RecentMessage(m, last)'
          OBVIOUS
        <4>1. m.kind = "event" /\ m.sequence \in Nat /\ service.sequence < m.sequence
          BY <2>2 DEF Published
        <4>2. m.sequence # last
          BY <1>1, <1>2, <4>1
        <4> QED
          BY <4>1, <4>2 DEF RecentMessage, IsGetAll
      <3> QED
        BY <1>1, <1>2, <1>3, <2>2, <2>3, <3>1, <3>2
    <2> QED
      BY <2>4, <2>5
  <1>6. CASE Turns
    <2>1. PICK N : Grows(N) /\ \A m \in N : m.kind = "owner" \/ (m.kind = "reply" /\ m.error)
      BY <1>6 DEF Turns
    <2>2. \A m \in N : RecentMessage(m, 0)'
      BY <2>1 DEF RecentMessage, IsGetAll
    <2>3. Moves(last, 0) /\ 0 <= service'.sequence
      BY <1>2, <1>6 DEF Moves, Turns
    <2> QED
      BY <1>3, <2>1, <2>2, <2>3
  <1>7. CASE Writes
    <2>1. PICK n \in Nat : /\ service.sequence < n /\ n <= service'.sequence
                           /\ \E N : Grows(N) /\ \A m \in N : Announced(m, n)
      BY <1>7 DEF Writes
    <2>2. PICK N : Grows(N) /\ \A m \in N : Announced(m, n)
      BY <2>1
    <2>3. Moves(last, last) /\ service.sequence < service'.sequence
      BY <1>2, <1>7 DEF Moves, Writes
    <2>4. \A m \in N : RecentMessage(m, last)'
      <3> SUFFICES ASSUME NEW m \in N PROVE RecentMessage(m, last)'
        OBVIOUS
      <3>1. Announced(m, n)
        BY <2>2
      <3>2. m.kind = "event" => m.sequence # last
        BY <1>1, <1>2, <3>1 DEF Announced
      <3>3. ~IsGetAll(m)
        BY <3>1 DEF Announced, IsGetAll
      <3> QED
        BY <3>2, <3>3 DEF RecentMessage, IsGetAll
    <2> QED
      BY <1>1, <1>2, <1>3, <2>2, <2>3, <2>4
  <1>8. CASE Loses
    <2>1. Moves(last, last) /\ service' = service
      BY <1>2, <1>8 DEF Moves, Loses
    <2>2. \A i \in DOMAIN inbox' : \E j \in DOMAIN inbox : inbox'[i] = inbox[j]
      BY <1>8, LossLeavesOld
    <2> DEFINE N == {}
    <2>3. \A i \in DOMAIN inbox' : (\E j \in DOMAIN inbox : inbox'[i] = inbox[j]) \/ inbox'[i] \in N
      BY <2>2
    <2>4. \A m \in N : RecentMessage(m, last)'
      OBVIOUS
    <2> HIDE DEF N
    <2> QED
      BY <1>1, <2>1, <2>3, <2>4, RecentIsKept
  <1> QED
    BY <1>4, <1>5, <1>6, <1>7, <1>8 DEF Step

LEMMA CoverStays ==
    ASSUME BusKnown, ReadinessAsks, ReadinessAsks', IsReadiness(readiness), readiness' = readiness,
           Covered(inbox, readiness), Step
    PROVE  Covered(inbox, readiness)'
  <1> SUFFICES ASSUME ~readiness.refreshPending, NEW i \in DOMAIN inbox',
                      Mine(inbox'[i], "readiness", readiness.ownerEpoch), ~inbox'[i].error,
                      inbox'[i].answer.owner = readiness.lastEventOwner
               PROVE  inbox'[i].answer.sequence >= readiness.lastEventSequence
    BY DEF Covered
  <1>1. CASE \E j \in DOMAIN inbox : inbox'[i] = inbox[j]
    BY <1>1 DEF Covered
  <1>2. CASE Sent(inbox'[i])
    <2> DEFINE m == inbox'[i]
    <2>1. m.kind = "reply" /\ m.call.from = "readiness" /\ IsTyped(m)
      BY DEF Mine, ReadinessAsks, Underway, AtMostOne, Queued, IsMessage, IsTyped
    <2> HIDE DEF m
    <2>2. m.call.method = "GetAll"
      BY <2>1 DEF IsTyped, IsNews, IsReply, CallOf
    <2>3. Sent(m) /\ ~m.error
      BY <1>2 DEF m
    <2>4. Truthful(m)
      BY <2>1, <2>2, <2>3 DEF Sent, Published, Announced
    <2>5. m.answer = service /\ Alive
      BY <2>2, <2>3, <2>4 DEF Truthful
    <2>6. service.owner = readiness.lastEventOwner /\ service.owner.uuid # 0
      BY <2>5, Owned DEF m
    <2>7. readiness.lastEventSequence <= service.sequence
      BY <2>6 DEF IsReadiness, Signs
    <2>8. readiness.lastEventSequence \in Nat /\ service.sequence \in Nat
      BY DEF IsReadiness, BusKnown
    <2> QED
      BY <2>5, <2>7, <2>8 DEF m
  <1> QED
    BY <1>1, <1>2, OldOrSent

LEMMA ReadinessStays ==
    ASSUME BusKnown, BusKnown', IsReadiness(readiness), readiness' = readiness, Step
    PROVE  IsReadiness(readiness)'
  <1> DEFINE s == readiness.snapshot
             r == readiness
  <1>1. s.owner \in Owners /\ s.sequence \in Nat /\ r.lastEventOwner \in Owners
        /\ r.lastEventSequence \in Nat
    BY DEF IsReadiness
  <1>2. (r.available => Signs(s.owner, s.sequence)') /\ Signs(r.lastEventOwner, r.lastEventSequence)'
    BY <1>1, SignatureStays DEF IsReadiness
  <1> QED
    BY <1>2 DEF IsReadiness

-----------------------------------------------------------------------------
(* What is known of the service, of messages and of the readiness client.  *)

CommonInv ==
    /\ ServiceInv /\ MessagesSigned(inbox)
    /\ IsReadiness(readiness) /\ Recent(inbox, readiness) /\ Covered(inbox, readiness)

LEMMA CommonStays ==
    ASSUME CommonInv, ServiceTurn \/ EnvironmentTurn PROVE CommonInv' /\ Step
  <1>1. ServiceInv' /\ Step
    BY ServiceIsSafe DEF CommonInv
  <1>2. readiness' = readiness
    BY DEF ServiceTurn, EnvironmentTurn, clientOnly
  <1>3. /\ BusKnown /\ BusKnown' /\ RegisterKnown /\ RegisterKnown'
        /\ ReadinessAsks /\ ReadinessAsks'
    BY <1>1 DEF CommonInv, ServiceInv
  <1>4. MessagesSigned(inbox)'
    BY <1>1, <1>3, MessagesStaySigned DEF CommonInv
  <1>5. IsReadiness(readiness)' /\ Recent(inbox, readiness)' /\ Covered(inbox, readiness)'
    BY <1>1, <1>2, <1>3, ReadinessStays, RecentStays, CoverStays DEF CommonInv
  <1> QED
    BY <1>1, <1>4, <1>5 DEF CommonInv

LEMMA CurrentFollows == CommonInv => ReadinessIsCurrent
  <1> SUFFICES ASSUME CommonInv PROVE ReadinessIsCurrent
    OBVIOUS
  <1>1. CursorIdentifiesReadiness
    <2> SUFFICES ASSUME readiness.available,
                        readiness.snapshot.owner.uuid = service.owner.uuid,
                        readiness.snapshot.sequence = service.sequence
                 PROVE  readiness.snapshot = service
      BY DEF CursorIdentifiesReadiness
    <2>1. PICK last \in Nat : last <= service.sequence /\ Shows(readiness.snapshot, last)
      BY DEF CommonInv, Recent
    <2>2. readiness.snapshot.owner.uuid # 0 /\ readiness.snapshot \in Snapshots
      BY DEF CommonInv, IsReadiness, Snapshots
    <2>3. service \in Snapshots
      BY DEF CommonInv, ServiceInv, BusKnown, Snapshots, States
    <2>4. readiness.snapshot.owner = service.owner /\ readiness.snapshot.state = service.state
      BY <2>1, <2>2, <2>3 DEF Shows, Snapshots
    <2> QED
      BY <2>2, <2>3, <2>4 DEF Snapshots
  <1>2. CopyCoversEvents
    BY DEF CommonInv, IsReadiness, CopyCoversEvents
  <1> QED
    BY <1>1, <1>2 DEF ReadinessIsCurrent

LEMMA RequestsFollow == CommonInv => OneRequestUnderway /\ OneClientRequestUnderway
  <1> SUFFICES ASSUME CommonInv PROVE OneRequestUnderway /\ OneClientRequestUnderway
    OBVIOUS
  <1>1. OneRequestUnderway
    BY OneIsDue DEF CommonInv, ServiceInv, ReadinessAsks, OneRequestUnderway, IsReadiness
  <1>2. OneClientRequestUnderway
    BY OneIsDue DEF CommonInv, ServiceInv, ClientAsks, OneClientRequestUnderway
  <1> QED
    BY <1>1, <1>2

LEMMA TypesFollow == CommonInv => TypeOK
  <1> SUFFICES ASSUME CommonInv PROVE TypeOK
    OBVIOUS
  <1>1. \A i \in DOMAIN calls : calls[i].awaited \in BOOLEAN
    BY DEF CommonInv, ServiceInv, ReadinessAsks, Underway, AtMostOne, Queued, IsCall
  <1>2. ASSUME NEW i \in DOMAIN inbox
        PROVE  /\ inbox[i].to \subseteq Listeners /\ inbox[i].to # {}
               /\ inbox[i].kind \in {"owner", "event", "value", "reply"}
    <2>1. IsTyped(inbox[i])
      BY MessagesAreTyped DEF CommonInv, ServiceInv
    <2> QED
      BY <2>1, ObjectsAssumption DEF IsTyped, IsNews, IsReply, CallOf
  <1>3. persistedGeneration \in 0..MaxStarts
    BY StartsTyped DEF CommonInv, ServiceInv, BusKnown, Started, Spendable
  <1>4. BusTypeOK
    BY <1>1, <1>2, <1>3 DEF BusTypeOK, CommonInv, ServiceInv, BusKnown, States
  <1>5. ReadinessTypeOK
    BY DEF ReadinessTypeOK, CommonInv, IsReadiness, NoOwner
  <1> QED
    BY <1>4, <1>5 DEF TypeOK
-----------------------------------------------------------------------------
(* A listener takes the first message.                                     *)

\* What is left is older than the first message, or that with fewer listeners.
SameNews(x, m) ==
    /\ IsNews(x) /\ IsNews(m) /\ x.kind = m.kind /\ m.kind \in {"owner", "event"}
    /\ m.kind = "event" => /\ x.owner = m.owner /\ x.subject = m.subject
                           /\ x.sequence = m.sequence
Shrunk(ms) == ms = Tail(inbox) \/ \E x : ms = [inbox EXCEPT ![1] = x] /\ SameNews(x, inbox[1])

LEMMA InboxShrinks ==
    ASSUME CommonInv, NEW listener \in {"readiness", "client"}, Arrives(listener)
    PROVE  /\ inbox # <<>> /\ IsSeq(InboxAfter(listener))
           /\ IsTyped(inbox[1]) /\ 1 \in DOMAIN inbox /\ listener \in inbox[1].to
           /\ inbox[1].kind \in {"value", "reply"} =>
                inbox[1].to = {listener} /\ InboxAfter(listener) = Tail(inbox)
           /\ Shrunk(InboxAfter(listener))
  <1> DEFINE m == inbox[1]
  <1>1. inbox # <<>> /\ listener \in m.to
    BY DEF Arrives
  <1>2. IsSeq(inbox) /\ ReadinessAsks
    BY QueuesAreSeqs DEF CommonInv, ServiceInv
  <1>3. 1 \in DOMAIN inbox /\ IsSeq(Tail(inbox)) /\ \A x : IsSeq([inbox EXCEPT ![1] = x])
    BY <1>1, <1>2, SeqTail, SeqExcept
  <1>4. IsTyped(m)
    BY <1>2, <1>3, MessagesAreTyped
  <1>5. m.kind \in {"value", "reply"} => m.to = {listener}
    BY <1>1, <1>4 DEF IsTyped, IsNews, IsReply
  <1>6. CASE m.to = {listener}
    <2>1. InboxAfter(listener) = Tail(inbox)
      BY <1>6 DEF InboxAfter
    <2> QED
      BY <1>1, <1>3, <1>4, <1>5, <2>1 DEF Shrunk
  <1>7. CASE m.to # {listener}
    <2> DEFINE x == [m EXCEPT !.to = @ \ {listener}]
    <2>1. InboxAfter(listener) = [inbox EXCEPT ![1] = x]
      BY <1>7, Zenon DEF InboxAfter
    <2>2. {"kind", "to"} \subseteq DOMAIN m
      BY <1>4 DEF IsTyped, IsNews, IsReply
    <2>3. x.kind = m.kind /\ DOMAIN x = DOMAIN m /\ x.to = m.to \ {listener}
      BY <2>2, Zenon
    <2>4. m.kind = "event" => {"owner", "sequence", "subject"} \subseteq DOMAIN m
      BY <1>4 DEF IsTyped, IsNews, IsReply
    <2>5. m.kind = "event" => x.owner = m.owner /\ x.subject = m.subject /\ x.sequence = m.sequence
      BY <2>4, Zenon
    <2> HIDE DEF x
    <2>6. m.kind \in {"owner", "event"} /\ IsNews(m)
      BY <1>4, <1>5, <1>7 DEF IsTyped, IsNews, IsReply
    <2>7. SameNews(x, m)
      BY <1>1, <1>7, <2>3, <2>5, <2>6 DEF SameNews, IsNews
    <2>8. IsSeq(InboxAfter(listener)) /\ Shrunk(InboxAfter(listener))
      BY <1>3, <2>1, <2>7 DEF Shrunk
    <2> QED
      BY <1>1, <1>3, <1>4, <2>6, <2>8
  <1> QED
    BY <1>6, <1>7

\* What is said of messages stays so for those that are left.
LEMMA LeftMessages ==
    ASSUME CommonInv, NEW listener \in {"readiness", "client"}, Arrives(listener)
    PROVE  LET ms == InboxAfter(listener)
           IN  /\ MessagesSigned(ms)
               /\ \A last : (\A i \in DOMAIN inbox : RecentMessage(inbox[i], last)) =>
                    \A i \in DOMAIN ms : RecentMessage(ms[i], last)
               /\ \A r : Covered(inbox, r) => Covered(ms, r)
               /\ \A i \in DOMAIN ms : ms[i].kind \in {"value", "reply"} =>
                    \E j \in DOMAIN inbox : ms[i] = inbox[j]
  <1> DEFINE ms == InboxAfter(listener)
             m == inbox[1]
  <1>1. IsSeq(inbox) /\ inbox # <<>> /\ 1 \in DOMAIN inbox
    BY InboxShrinks, QueuesAreSeqs DEF CommonInv, ServiceInv
  <1>2. ms = Tail(inbox) \/ \E x : ms = [inbox EXCEPT ![1] = x] /\ SameNews(x, m)
    BY InboxShrinks DEF Shrunk
  <1> HIDE DEF ms
  <1>3. \A i \in DOMAIN ms : (\E j \in DOMAIN inbox : ms[i] = inbox[j]) \/ SameNews(ms[i], m)
    <2>1. CASE ms = Tail(inbox)
      BY <1>1, <2>1, SeqTail
    <2>2. CASE \E x : ms = [inbox EXCEPT ![1] = x] /\ SameNews(x, m)
      <3>1. PICK x : ms = [inbox EXCEPT ![1] = x] /\ SameNews(x, m)
        BY <2>2
      <3>2. /\ DOMAIN ms = DOMAIN inbox /\ ms[1] = x
            /\ \A j \in DOMAIN inbox : j # 1 => ms[j] = inbox[j]
        BY <1>1, <3>1, SeqExcept
      <3> QED
        BY <3>1, <3>2
    <2> QED
      BY <1>2, <2>1, <2>2
  <1>4. MessagesSigned(ms)
    <2> SUFFICES ASSUME NEW i \in DOMAIN ms
                 PROVE  SignedMessage(ms[i]) /\ ReadingMessage(ms[i])
      BY DEF MessagesSigned
    <2>1. CASE \E j \in DOMAIN inbox : ms[i] = inbox[j]
      BY <2>1 DEF CommonInv, MessagesSigned
    <2>2. CASE SameNews(ms[i], m)
      <3>1. SignedMessage(m)
        BY <1>1 DEF CommonInv, MessagesSigned
      <3> DEFINE x == ms[i]
      <3>2. x.kind \in {"owner", "event"} /\ (x.kind = "event" => x.owner = m.owner
                /\ x.sequence = m.sequence /\ m.kind = "event")
        BY <2>2 DEF SameNews
      <3> HIDE DEF x, m
      <3> QED
        BY <3>1, <3>2 DEF SignedMessage, ReadingMessage, IsGetAll, IsRead, x
    <2> QED
      BY <1>3, <2>1, <2>2
  <1>5. ASSUME NEW last, \A i \in DOMAIN inbox : RecentMessage(inbox[i], last), NEW i \in DOMAIN ms
        PROVE  RecentMessage(ms[i], last)
    <2>1. CASE \E j \in DOMAIN inbox : ms[i] = inbox[j]
      BY <1>5, <2>1
    <2>2. CASE SameNews(ms[i], m)
      <3>1. RecentMessage(m, last)
        BY <1>1, <1>5
      <3> DEFINE x == ms[i]
      <3>2. x.kind \in {"owner", "event"} /\ (x.kind = "event" => x.owner = m.owner
                /\ x.sequence = m.sequence /\ m.kind = "event" /\ x.subject = m.subject)
        BY <2>2 DEF SameNews
      <3> HIDE DEF x, m
      <3> QED
        BY <3>1, <3>2 DEF RecentMessage, IsGetAll, x
    <2> QED
      BY <1>3, <2>1, <2>2
  <1>6. \A i \in DOMAIN ms : ms[i].kind \in {"value", "reply"} =>
            \E j \in DOMAIN inbox : ms[i] = inbox[j]
    BY <1>3 DEF SameNews
  <1>7. ASSUME NEW r, Covered(inbox, r) PROVE Covered(ms, r)
    BY <1>6, <1>7 DEF Covered, Mine
  <1> QED
    BY <1>4, <1>5, <1>6, <1>7 DEF ms

\* What an object waits for, if the first message is none of its answers.
LEMMA LeftUnderway ==
    ASSUME CommonInv, NEW listener \in {"readiness", "client"}, Arrives(listener),
           NEW who, NEW ep, NEW busy, NEW p, NEW lg,
           Underway(calls, inbox, who, ep, busy, p, lg), ~Mine(inbox[1], who, ep)
    PROVE  Underway(calls, InboxAfter(listener), who, ep, busy, p, lg)
  <1> DEFINE ms == InboxAfter(listener)
             m == inbox[1]
  <1>1. inbox # <<>> /\ (ms = Tail(inbox) \/ \E x : ms = [inbox EXCEPT ![1] = x] /\ SameNews(x, m))
    BY InboxShrinks DEF Shrunk
  <1> HIDE DEF ms
  <1>2. CASE ms = Tail(inbox)
    BY <1>1, <1>2, FirstHandled DEF ms
  <1>3. CASE \E x : ms = [inbox EXCEPT ![1] = x] /\ SameNews(x, m)
    <2>1. PICK x : ms = [inbox EXCEPT ![1] = x] /\ IsNews(x) /\ IsNews(inbox[1])
      BY <1>3 DEF SameNews
    <2>2. Underway(calls, [inbox EXCEPT ![1] = x], who, ep, busy, p, lg)
      BY <1>1, <2>1, FirstSeen
    <2> QED
      BY <2>1, <2>2 DEF ms
  <1> QED
    BY <1>1, <1>2, <1>3

-----------------------------------------------------------------------------
(* The readiness client handles a message.  r is what it becomes, and sent *)
(* the calls that are made; ms is what is left in the inbox.               *)

Readinesses ==
    [ownerEpoch : Nat, requestInFlight : BOOLEAN, refreshPending : BOOLEAN,
     lastEventOwner : Owners, lastEventSequence : Nat, available : BOOLEAN, snapshot : Snapshots]

\* The calls of the readiness client.
ReadinessCalls(sent) ==
    sent = <<>> \/ \E call : /\ sent = <<call>> /\ call.method = "GetAll"
                             /\ call.from = "readiness" /\ call.epoch \in Nat

ReadinessWaits(r, sent, ms) ==
    Underway(calls \o Outgoing(sent), ms, "readiness", r.ownerEpoch, r.requestInFlight,
             NoOperation, {})
ReadinessIs(r, sent, ms) ==
    /\ IsReadiness(r) /\ Recent(ms, r) /\ Covered(ms, r)
    /\ IsSeq(sent) /\ ReadinessWaits(r, sent, ms)

\* refresh(): the object waits for its answer, and covers what it has heard.
LEMMA RefreshIsGood ==
    ASSUME IsSeq(calls), NEW r, NEW sent, NEW ms, NEW changed,
           IsReadiness(r), Recent(ms, r), IsSeq(sent), ReadinessWaits(r, sent, ms)
    PROVE  LET result == Refresh(r, changed)
           IN  /\ ReadinessIs(result.state, sent \o result.calls, ms)
               /\ ReadinessCalls(result.calls) /\ result.changed = changed
               /\ result.state.available = r.available /\ result.state.snapshot = r.snapshot
  <1> DEFINE result == Refresh(r, changed)
             s == result.state
  <1>1. r \in Readinesses
    BY DEF IsReadiness, Readinesses, Snapshots
  <1>2. CASE r.requestInFlight
    <2>1. s = [r EXCEPT !.refreshPending = TRUE] /\ result.calls = <<>> /\ result.changed = changed
      BY <1>2 DEF Refresh, Result
    <2>2. /\ s \in Readinesses /\ s.refreshPending = TRUE
          /\ s.ownerEpoch = r.ownerEpoch /\ s.requestInFlight = r.requestInFlight
          /\ s.lastEventOwner = r.lastEventOwner /\ s.lastEventSequence = r.lastEventSequence
          /\ s.available = r.available /\ s.snapshot = r.snapshot
      BY <1>1, <2>1 DEF Readinesses
    <2>3. sent \o result.calls = sent
      BY <2>1, SeqConcat, ListIsSeq
    <2> HIDE DEF result
    <2>4. IsReadiness(s)
      BY <1>2, <2>2 DEF IsReadiness, Readinesses, Snapshots
    <2>5. Recent(ms, s) /\ Covered(ms, s)
      BY <2>2 DEF Recent, Covered
    <2>6. ReadinessWaits(s, sent, ms)
      BY <2>2 DEF ReadinessWaits
    <2> QED
      BY <2>1, <2>2, <2>3, <2>4, <2>5, <2>6 DEF ReadinessIs, ReadinessCalls, result
  <1>3. CASE ~r.requestInFlight
    <2> DEFINE call == GetAll(r)
               cs == calls \o Outgoing(sent)
    <2>1. /\ s = [r EXCEPT !.requestInFlight = TRUE, !.refreshPending = FALSE]
          /\ result.calls = <<call>> /\ result.changed = changed
      BY <1>3 DEF Refresh, Result
    <2>2. /\ s \in Readinesses /\ s.refreshPending = FALSE
          /\ s.ownerEpoch = r.ownerEpoch /\ s.requestInFlight = TRUE
          /\ s.lastEventOwner = r.lastEventOwner /\ s.lastEventSequence = r.lastEventSequence
          /\ s.available = r.available /\ s.snapshot = r.snapshot
      BY <1>1, <2>1 DEF Readinesses
    <2>3. call.method = "GetAll" /\ call.from = "readiness" /\ call.epoch = r.ownerEpoch
          /\ call.epoch \in Nat
      BY <1>1 DEF GetAll, Readinesses
    <2> HIDE DEF result, call
    <2>4. sent \o result.calls = Append(sent, call)
      BY <2>1, SeqConcat, ListIsSeq
    <2>5. calls \o Outgoing(Append(sent, call)) = Append(cs, Awaited(call))
      BY OneCallLeaves
    <2>6. IsCall(Awaited(call), "readiness", r.ownerEpoch, NoOperation)
      BY <2>3 DEF IsCall, Awaited, CallOf, AttemptOf
    <2> HIDE DEF cs
    <2>7. Underway(cs, ms, "readiness", r.ownerEpoch, r.requestInFlight, NoOperation, {})
      BY DEF ReadinessWaits, cs
    <2>8. Underway(Append(cs, Awaited(call)), ms, "readiness", r.ownerEpoch, TRUE, NoOperation, {})
      BY <1>3, <2>3, <2>6, <2>7, CallMade
    <2>9. ReadinessWaits(s, Append(sent, call), ms)
      BY <2>2, <2>5, <2>8 DEF ReadinessWaits
    <2>10. \A i \in DOMAIN ms : ~Mine(ms[i], "readiness", r.ownerEpoch)
      BY <1>3, <2>7 DEF Underway, AtMostOne, OneIsMine
    <2>11. IsReadiness(s)
      BY <2>2 DEF IsReadiness, Readinesses, Snapshots
    <2>12. Recent(ms, s) /\ Covered(ms, s)
      BY <2>2, <2>10 DEF Recent, Covered
    <2>13. IsSeq(Append(sent, call)) /\ ReadinessCalls(result.calls)
      BY <2>1, <2>3, SeqAppend DEF ReadinessCalls
    <2> QED
      BY <2>1, <2>2, <2>4, <2>9, <2>11, <2>12, <2>13 DEF ReadinessIs, result
  <1> QED
    BY <1>2, <1>3

\* A handler that ends with a new copy asked for, or without a call.
RecentMessages(ms) ==
    \E last \in Nat : last <= service.sequence /\ \A i \in DOMAIN ms : RecentMessage(ms[i], last)

HandledWell(result, ms) ==
    ReadinessIs(result.state, result.calls, ms) /\ ReadinessCalls(result.calls)

LEMMA ReconcileIsGood ==
    ASSUME IsSeq(calls), NEW r, NEW ms, r \in Readinesses, RecentMessages(ms),
           Signs(r.lastEventOwner, r.lastEventSequence), r.refreshPending => r.requestInFlight,
           Underway(calls, ms, "readiness", r.ownerEpoch, r.requestInFlight, NoOperation, {})
    PROVE  HandledWell(Reconcile(r), ms)
  <1> DEFINE s == Cleared(r)
             result == Refresh(s, TRUE)
  <1>1. NoService \in Snapshots
    BY StartsTyped DEF NoService, Snapshots, NoOwner, Owners
  <1>2. /\ s \in Readinesses /\ s.available = FALSE
        /\ s.refreshPending = r.refreshPending
        /\ s.ownerEpoch = r.ownerEpoch /\ s.requestInFlight = r.requestInFlight
        /\ s.lastEventOwner = r.lastEventOwner /\ s.lastEventSequence = r.lastEventSequence
    BY <1>1 DEF Cleared, Readinesses
  <1> HIDE DEF s
  <1>3. IsReadiness(s)
    BY <1>2 DEF IsReadiness, Readinesses, Snapshots
  <1>4. Recent(ms, s)
    BY <1>2 DEF Recent, RecentMessages
  <1> DEFINE none == <<>>
  <1>5. calls \o Outgoing(none) = calls /\ IsSeq(none)
    BY NoCallsLeave, ListIsSeq
  <1> HIDE DEF none
  <1>7. ReadinessWaits(s, none, ms)
    BY <1>2, <1>5 DEF ReadinessWaits
  <1>8. ReadinessIs(result.state, none \o result.calls, ms) /\ ReadinessCalls(result.calls)
    BY <1>3, <1>4, <1>5, <1>7, RefreshIsGood
  <1> HIDE DEF result
  <1>9. none \o result.calls = result.calls
    <2>1. PICK T : result.calls \in Seq(T)
      BY <1>8, ListIsSeq DEF ReadinessCalls, IsSeq
    <2> QED
      BY <2>1, ConcatEmptySeq DEF none
  <1> QED
    BY <1>8, <1>9 DEF HandledWell, Reconcile, s, result

LEMMA OwnerChangeIsGood ==
    ASSUME IsSeq(calls), IsReadiness(readiness), NEW ms, RecentMessages(ms), NEW alive,
           BusKnown,
           Underway(calls, ms, "readiness", readiness.ownerEpoch, readiness.requestInFlight,
                    NoOperation, {})
    PROVE  HandledWell(OnServiceOwnerChanged(readiness, alive), ms)
  <1> DEFINE s == Forgotten(readiness)
             ep == readiness.ownerEpoch
             none == <<>>
             result == Result(s, none, TRUE)
  <1>1. NoService \in Snapshots /\ NoOwner \in Owners /\ NoOwner.uuid = 0
    BY StartsTyped DEF NoService, Snapshots, NoOwner, Owners
  <1>2. ep \in Nat
    BY DEF IsReadiness
  <1>3. /\ s \in Readinesses /\ s.available = FALSE /\ s.refreshPending = FALSE
        /\ s.ownerEpoch = ep + 1 /\ s.requestInFlight = FALSE
        /\ s.lastEventOwner = NoOwner /\ s.lastEventSequence = 0
    <2> DEFINE b == NoReadiness
    <2>1. /\ b \in Readinesses /\ b.available = FALSE /\ b.refreshPending = FALSE
          /\ b.requestInFlight = FALSE /\ b.lastEventOwner = NoOwner /\ b.lastEventSequence = 0
      BY <1>1 DEF NoReadiness, Readinesses
    <2>2. s = [b EXCEPT !.ownerEpoch = ep + 1]
      BY DEF Forgotten
    <2> HIDE DEF b, s
    <2> QED
      BY <1>2, <2>1, <2>2 DEF Readinesses
  <1> HIDE DEF s
  <1>4. Underway(calls, ms, "readiness", ep + 1, FALSE, NoOperation, {})
    BY <1>2, OwnerForgotten
  <1>5. Signs(NoOwner, 0)
    BY <1>1, KnownService DEF Signs
  <1>6. HandledWell(Reconcile(s), ms)
    <2>1. Underway(calls, ms, "readiness", s.ownerEpoch, s.requestInFlight, NoOperation, {})
      BY <1>3, <1>4
    <2> QED
      BY <1>3, <1>5, <2>1, ReconcileIsGood
  <1>7. HandledWell(result, ms)
    <2>1. IsReadiness(s)
      BY <1>3, <1>5 DEF IsReadiness, Readinesses, Snapshots
    <2>2. Recent(ms, s)
      BY <1>3 DEF Recent, RecentMessages
    <2>3. Covered(ms, s)
      <3>1. \A i \in DOMAIN ms : ~Mine(ms[i], "readiness", ep + 1)
        BY <1>4 DEF Underway, AtMostOne, OneIsMine
      <3> QED
        BY <1>3, <3>1 DEF Covered
    <2>4. IsSeq(none) /\ calls \o Outgoing(none) = calls /\ ReadinessCalls(none)
      BY NoCallsLeave, ListIsSeq DEF ReadinessCalls
    <2>5. result.state = s /\ result.calls = none
      BY DEF Result
    <2> HIDE DEF none, result
    <2>6. ReadinessWaits(s, none, ms)
      BY <1>3, <1>4, <2>4 DEF ReadinessWaits
    <2> QED
      BY <2>1, <2>2, <2>3, <2>4, <2>5, <2>6 DEF HandledWell, ReadinessIs
  <1> QED
    BY <1>6, <1>7, Zenon DEF OnServiceOwnerChanged, s

\* Nothing changes.
LEMMA IgnoredIsGood ==
    ASSUME IsSeq(calls), IsReadiness(readiness), NEW ms, Recent(ms, readiness),
           Covered(ms, readiness),
           Underway(calls, ms, "readiness", readiness.ownerEpoch, readiness.requestInFlight,
                    NoOperation, {})
    PROVE  HandledWell(Result(readiness, <<>>, FALSE), ms)
  <1> DEFINE none == <<>>
  <1>1. IsSeq(none) /\ calls \o Outgoing(none) = calls /\ ReadinessCalls(none)
    BY NoCallsLeave, ListIsSeq DEF ReadinessCalls
  <1>2. Result(readiness, none, FALSE).state = readiness
        /\ Result(readiness, none, FALSE).calls = none
    BY DEF Result
  <1> HIDE DEF none
  <1>3. ReadinessWaits(readiness, none, ms)
    BY <1>1 DEF ReadinessWaits
  <1>4. HandledWell(Result(readiness, none, FALSE), ms)
    BY <1>1, <1>2, <1>3 DEF HandledWell, ReadinessIs
  <1> QED
    BY <1>4 DEF none

\* An event that follows without a gap, and is none of the readiness, moves
\* the copy: it shows what it showed, of a later moment.
LEMMA EventIsGood ==
    ASSUME CommonInv, NEW e, IsNews(e), e.kind = "event", e.owner.uuid # 0,
           Signs(e.owner, e.sequence), NEW ms,
           NEW last \in Nat, last <= service.sequence, RecentMessage(e, last),
           \A i \in DOMAIN ms : RecentMessage(ms[i], last),
           readiness.available => Shows(readiness.snapshot, last), Covered(ms, readiness),
           Underway(calls, ms, "readiness", readiness.ownerEpoch, readiness.requestInFlight,
                    NoOperation, {})
    PROVE  HandledWell(OnEventPublished(readiness, e), ms)
  <1> DEFINE r == readiness
             heard == [r EXCEPT !.lastEventOwner = e.owner, !.lastEventSequence = e.sequence]
             again == [heard EXCEPT !.refreshPending = @ \/ r.requestInFlight]
             moved == Advanced(again, e)
             none == <<>>
             result == Result(moved, none, FALSE)
  <1>1. IsSeq(calls) /\ r \in Readinesses /\ IsReadiness(r) /\ BusKnown
    BY QueuesAreSeqs DEF CommonInv, ServiceInv, IsReadiness, Readinesses, Snapshots
  <1>2. e.owner \in Owners /\ e.sequence \in Nat
    BY DEF IsNews
  <1>3. /\ heard \in Readinesses /\ heard.refreshPending = r.refreshPending
        /\ heard.ownerEpoch = r.ownerEpoch /\ heard.requestInFlight = r.requestInFlight
        /\ heard.lastEventOwner = e.owner /\ heard.lastEventSequence = e.sequence
        /\ heard.available = r.available /\ heard.snapshot = r.snapshot
    BY <1>1, <1>2 DEF Readinesses
  <1> HIDE DEF heard
  <1>4. /\ again \in Readinesses /\ again.refreshPending = (r.refreshPending \/ r.requestInFlight)
        /\ again.ownerEpoch = r.ownerEpoch /\ again.requestInFlight = r.requestInFlight
        /\ again.lastEventOwner = e.owner /\ again.lastEventSequence = e.sequence
        /\ again.available = r.available /\ again.snapshot = r.snapshot
    BY <1>1, <1>3 DEF Readinesses
  <1> HIDE DEF again
  <1>5. RecentMessages(ms) /\ Recent(ms, r)
    BY DEF RecentMessages, Recent
  <1>6. HandledWell(Reconcile(heard), ms) /\ HandledWell(Reconcile(again), ms)
    <2>1. Underway(calls, ms, "readiness", heard.ownerEpoch, heard.requestInFlight, NoOperation, {})
          /\ Underway(calls, ms, "readiness", again.ownerEpoch, again.requestInFlight, NoOperation, {})
      BY <1>3, <1>4
    <2>2. (heard.refreshPending => heard.requestInFlight)
          /\ (again.refreshPending => again.requestInFlight)
      BY <1>1, <1>3, <1>4 DEF IsReadiness
    <2>3. Signs(heard.lastEventOwner, heard.lastEventSequence)
          /\ Signs(again.lastEventOwner, again.lastEventSequence)
      BY <1>3, <1>4
    <2> QED
      BY <1>1, <1>3, <1>4, <1>5, <2>1, <2>2, <2>3, ReconcileIsGood
  <1>7. HandledWell(Result(r, <<>>, FALSE), ms)
    BY <1>1, <1>5, IgnoredIsGood
  <1>8. ASSUME r.available, e.owner = r.lastEventOwner, e.owner = r.snapshot.owner,
               e.sequence = r.snapshot.sequence + 1, e.subject # "readiness"
        PROVE  HandledWell(result, ms)
    <2>1. /\ moved \in Readinesses /\ moved.refreshPending = again.refreshPending
          /\ moved.ownerEpoch = r.ownerEpoch /\ moved.requestInFlight = r.requestInFlight
          /\ moved.lastEventOwner = e.owner /\ moved.lastEventSequence = e.sequence
          /\ moved.available = TRUE /\ moved.snapshot.owner = r.snapshot.owner
          /\ moved.snapshot.state = r.snapshot.state /\ moved.snapshot.sequence = e.sequence
      BY <1>2, <1>4, <1>8 DEF Advanced, Readinesses, Snapshots
    <2> HIDE DEF moved
    <2>2. IsReadiness(moved)
      <3>1. moved.refreshPending => moved.requestInFlight
        BY <1>1, <1>4, <2>1 DEF IsReadiness
      <3> QED
        BY <1>2, <1>8, <2>1, <3>1 DEF IsReadiness, Readinesses, Snapshots
    <2>3. Shows(moved.snapshot, last)
      <3> SUFFICES ASSUME e.owner.uuid = service.owner.uuid, e.sequence >= last
                   PROVE  r.snapshot.owner = service.owner /\ r.snapshot.state = service.state
        BY <1>8, <2>1 DEF Shows
      <3>1. e.sequence # last
        BY <1>8 DEF RecentMessage
      <3>2. r.snapshot.sequence \in Nat /\ r.snapshot.sequence >= last
        BY <1>1, <1>2, <1>8, <3>1 DEF Readinesses, Snapshots
      <3> QED
        BY <1>8, <3>2 DEF Shows
    <2>4. Recent(ms, moved)
      BY <2>3 DEF Recent
    <2>5. Covered(ms, moved)
      <3> SUFFICES ASSUME ~moved.refreshPending
                   PROVE  \A i \in DOMAIN ms : ~Mine(ms[i], "readiness", r.ownerEpoch)
        BY <2>1 DEF Covered
      <3>1. ~r.requestInFlight
        BY <1>4, <2>1
      <3> QED
        BY <3>1 DEF Underway, AtMostOne, OneIsMine
    <2>6. IsSeq(none) /\ calls \o Outgoing(none) = calls /\ ReadinessCalls(none)
      BY <1>1, NoCallsLeave, ListIsSeq DEF ReadinessCalls
    <2>7. result.state = moved /\ result.calls = none
      BY DEF Result
    <2> HIDE DEF none, result
    <2>8. ReadinessWaits(moved, none, ms)
      BY <2>1, <2>6 DEF ReadinessWaits
    <2> QED
      BY <2>2, <2>4, <2>5, <2>6, <2>7, <2>8 DEF HandledWell, ReadinessIs
  <1> HIDE DEF result
  <1> DEFINE follows == FollowsLastEvent(r, e) /\ FollowsSnapshot(r, e) /\ OnlyMovesCursor(r, e)
             final == OnEventPublished(r, e)
  <1>9. \/ final = Reconcile(heard) \/ final = Reconcile(again) \/ final = Result(r, <<>>, FALSE)
        \/ /\ e.owner = r.lastEventOwner /\ ~(r.available /\ e.owner # r.snapshot.owner) /\ follows
           /\ final = result
    BY Zenon DEF OnEventPublished, heard, again, result, follows
  <1>10. follows => r.available /\ e.sequence = r.snapshot.sequence + 1 /\ e.subject # "readiness"
    BY DEF FollowsSnapshot, OnlyMovesCursor
  <1> HIDE DEF follows, final
  <1>11. HandledWell(final, ms)
    BY <1>6, <1>7, <1>8, <1>9, <1>10
  <1> QED
    BY <1>11 DEF final

\* The answer that is waited for: the copy it brings covers every event that
\* was heard, and shows the readiness since the last change of it.
LEMMA SnapshotIsGood ==
    ASSUME CommonInv, NEW m, IsReply(m), IsGetAll(m), SignedMessage(m), NEW ms,
           NEW last \in Nat, last <= service.sequence, RecentMessage(m, last),
           \A i \in DOMAIN ms : RecentMessage(ms[i], last),
           m.answer.owner = readiness.lastEventOwner =>
                m.answer.sequence >= readiness.lastEventSequence,
           Underway(calls, ms, "readiness", readiness.ownerEpoch, FALSE, NoOperation, {}),
           NEW idle \in Readinesses, idle.requestInFlight = FALSE, idle.refreshPending = FALSE,
           idle.ownerEpoch = readiness.ownerEpoch,
           idle.lastEventOwner = readiness.lastEventOwner,
           idle.lastEventSequence = readiness.lastEventSequence
    PROVE  HandledWell(Result(ApplySnapshot(idle, m.answer), <<>>, TRUE), ms)
  <1> DEFINE a == m.answer
             applied == [idle EXCEPT !.available = TRUE, !.snapshot = a]
             newer == [applied EXCEPT !.lastEventOwner = a.owner, !.lastEventSequence = a.sequence]
             s == ApplySnapshot(idle, a)
             none == <<>>
  <1>1. a \in Snapshots /\ a.owner.uuid # 0 /\ Signs(a.owner, a.sequence) /\ Shows(a, last)
    BY DEF IsReply, IsAnswer, IsGetAll, SignedMessage, RecentMessage
  <1>2. a.owner \in Owners /\ a.sequence \in Nat /\ a.owner # NoOwner
    BY <1>1 DEF Snapshots, NoOwner
  <1>3. Signs(readiness.lastEventOwner, readiness.lastEventSequence)
        /\ readiness.lastEventSequence \in Nat
    BY DEF CommonInv, IsReadiness
  <1>4. a.owner = idle.lastEventOwner => a.sequence >= idle.lastEventSequence
    OBVIOUS
  <1> HIDE DEF a
  <1>5. /\ applied \in Readinesses /\ applied.available = TRUE /\ applied.snapshot = a
        /\ applied.requestInFlight = FALSE /\ applied.refreshPending = FALSE
        /\ applied.ownerEpoch = readiness.ownerEpoch
        /\ applied.lastEventOwner = idle.lastEventOwner
        /\ applied.lastEventSequence = idle.lastEventSequence
    BY <1>1 DEF Readinesses
  <1> HIDE DEF applied
  <1>6. /\ newer \in Readinesses /\ newer.available = TRUE /\ newer.snapshot = a
        /\ newer.requestInFlight = FALSE /\ newer.refreshPending = FALSE
        /\ newer.ownerEpoch = readiness.ownerEpoch
        /\ newer.lastEventOwner = a.owner /\ newer.lastEventSequence = a.sequence
    BY <1>2, <1>5 DEF Readinesses
  <1> HIDE DEF newer
  <1>7. s = newer \/ s = applied
    BY Zenon DEF ApplySnapshot, applied, newer
  <1> HIDE DEF s
  <1>8. /\ s \in Readinesses /\ s.available = TRUE /\ s.snapshot = a
        /\ s.requestInFlight = FALSE /\ s.refreshPending = FALSE
        /\ s.ownerEpoch = readiness.ownerEpoch
        /\ Signs(s.lastEventOwner, s.lastEventSequence)
        /\ a.owner = s.lastEventOwner => a.sequence >= s.lastEventSequence
    BY <1>1, <1>2, <1>3, <1>4, <1>5, <1>6, <1>7
  <1>9. IsReadiness(s)
    BY <1>1, <1>8 DEF IsReadiness, Readinesses, Snapshots
  <1>10. Recent(ms, s)
    BY <1>1, <1>8 DEF Recent
  <1>11. Covered(ms, s)
    <2>1. \A i \in DOMAIN ms : ~Mine(ms[i], "readiness", readiness.ownerEpoch)
      BY DEF Underway, AtMostOne, OneIsMine
    <2> QED
      BY <1>8, <2>1 DEF Covered
  <1>12. IsSeq(none) /\ calls \o Outgoing(none) = calls /\ ReadinessCalls(none)
    <2>1. IsSeq(calls)
      BY QueuesAreSeqs DEF CommonInv, ServiceInv
    <2> QED
      BY <2>1, NoCallsLeave, ListIsSeq DEF ReadinessCalls
  <1> DEFINE result == Result(s, none, TRUE)
  <1>13. result.state = s /\ result.calls = none
    BY DEF Result
  <1> HIDE DEF none, result
  <1>14. ReadinessWaits(s, none, ms)
    BY <1>8, <1>12 DEF ReadinessWaits
  <1>15. HandledWell(result, ms)
    BY <1>9, <1>10, <1>11, <1>12, <1>13, <1>14 DEF HandledWell, ReadinessIs
  <1> QED
    BY <1>15 DEF result, none, s, a

LEMMA RefreshFinishesWell ==
    ASSUME CommonInv, Arrives("readiness"), inbox[1].kind = "reply"
    PROVE  HandledWell(FinishRefresh(readiness, inbox[1]), InboxAfter("readiness"))
  <1> DEFINE m == inbox[1]
             r == readiness
             ms == InboxAfter("readiness")
             idle == [r EXCEPT !.requestInFlight = FALSE, !.refreshPending = FALSE]
  <1>1. /\ IsSeq(calls) /\ inbox # <<>> /\ 1 \in DOMAIN inbox /\ IsReply(m) /\ ms = Tail(inbox)
        /\ m.call.from = "readiness" /\ m.call.method = "GetAll"
    <2>1. inbox # <<>> /\ 1 \in DOMAIN inbox /\ IsTyped(m) /\ m.to = {"readiness"}
          /\ ms = Tail(inbox)
      BY InboxShrinks
    <2>2. IsSeq(calls)
      BY QueuesAreSeqs DEF CommonInv, ServiceInv
    <2>3. IsReply(m)
      BY <2>1 DEF IsTyped, IsNews
    <2>4. m.call.from = "readiness"
      BY <2>1, <2>3 DEF IsReply
    <2> QED
      BY <2>1, <2>2, <2>3, <2>4 DEF IsReply, CallOf
  <1>2. Underway(calls, inbox, "readiness", r.ownerEpoch, r.requestInFlight, NoOperation, {})
    BY DEF CommonInv, ServiceInv, ReadinessAsks
  <1>3. PICK last \in Nat :
          /\ last <= service.sequence
          /\ \A i \in DOMAIN inbox : RecentMessage(inbox[i], last)
          /\ r.available => Shows(r.snapshot, last)
    BY DEF CommonInv, Recent
  <1>4. (\A i \in DOMAIN ms : RecentMessage(ms[i], last)) /\ Covered(ms, r)
    BY <1>3, LeftMessages DEF CommonInv
  <1>5. RecentMessages(ms) /\ Recent(ms, r)
    BY <1>3, <1>4 DEF RecentMessages, Recent
  <1>6. r \in Readinesses /\ IsReadiness(r)
    BY DEF CommonInv, IsReadiness, Readinesses, Snapshots
  <1>7. SignedMessage(m) /\ RecentMessage(m, last)
    BY <1>1, <1>3 DEF CommonInv, MessagesSigned
  <1> HIDE DEF ms
  <1>8. CASE m.call.epoch # r.ownerEpoch
    <2>1. FinishRefresh(r, m) = Result(r, <<>>, FALSE)
      BY <1>8 DEF FinishRefresh
    <2>2. ~Mine(m, "readiness", r.ownerEpoch)
      BY <1>8 DEF Mine
    <2>3. Underway(calls, ms, "readiness", r.ownerEpoch, r.requestInFlight, NoOperation, {})
      BY <1>2, <2>2, LeftUnderway DEF ms
    <2>4. HandledWell(Result(r, <<>>, FALSE), ms)
      BY <1>1, <1>4, <1>5, <1>6, <2>3, IgnoredIsGood
    <2> QED
      BY <2>1, <2>4 DEF ms
  <1>9. CASE m.call.epoch = r.ownerEpoch
    <2>1. Mine(m, "readiness", r.ownerEpoch)
      BY <1>1, <1>9 DEF Mine
    <2>2. Underway(calls, ms, "readiness", r.ownerEpoch, FALSE, NoOperation, {})
      BY <1>1, <1>2, <2>1, AnswerTaken
    <2>3. /\ idle \in Readinesses /\ idle.requestInFlight = FALSE /\ idle.refreshPending = FALSE
          /\ idle.ownerEpoch = r.ownerEpoch /\ idle.available = r.available
          /\ idle.lastEventOwner = r.lastEventOwner
          /\ idle.lastEventSequence = r.lastEventSequence
      BY <1>6 DEF Readinesses
    <2>4. Signs(idle.lastEventOwner, idle.lastEventSequence)
      BY <1>6, <2>3 DEF IsReadiness
    <2> HIDE DEF idle
    <2>5. Underway(calls, ms, "readiness", idle.ownerEpoch, idle.requestInFlight, NoOperation, {})
      BY <2>2, <2>3
    <2>6. HandledWell(Reconcile(idle), ms)
      BY <1>1, <1>5, <2>3, <2>4, <2>5, ReconcileIsGood
    <2>7. CASE r.refreshPending
      <3>1. FinishRefresh(r, m) = Reconcile(idle)
        BY <1>9, <2>7, Zenon DEF FinishRefresh, idle
      <3> QED
        BY <2>6, <3>1 DEF ms
    <2>8. CASE ~r.refreshPending /\ m.error
      <3> DEFINE s == Cleared(idle)
                 none == <<>>
                 result == Result(s, none, TRUE)
      <3>1. FinishRefresh(r, m) = result
        BY <1>9, <2>8, Zenon DEF FinishRefresh, idle, Applied
      <3>2. NoService \in Snapshots
        BY StartsTyped DEF NoService, Snapshots, NoOwner, Owners
      <3>3. /\ s \in Readinesses /\ s.requestInFlight = FALSE /\ s.refreshPending = FALSE
            /\ s.ownerEpoch = r.ownerEpoch /\ s.available = FALSE
            /\ s.lastEventOwner = r.lastEventOwner /\ s.lastEventSequence = r.lastEventSequence
        BY <2>3, <3>2 DEF Readinesses, Cleared
      <3> HIDE DEF s
      <3>4. IsReadiness(s)
        BY <2>3, <2>4, <3>3 DEF IsReadiness, Readinesses, Snapshots
      <3>5. Recent(ms, s)
        BY <1>5, <3>3 DEF Recent, RecentMessages
      <3>6. Covered(ms, s)
        <4>1. \A i \in DOMAIN ms : ~Mine(ms[i], "readiness", r.ownerEpoch)
          BY <2>2 DEF Underway, AtMostOne, OneIsMine
        <4> QED
          BY <3>3, <4>1 DEF Covered
      <3>7. IsSeq(none) /\ calls \o Outgoing(none) = calls /\ ReadinessCalls(none)
        BY <1>1, NoCallsLeave, ListIsSeq DEF ReadinessCalls
      <3>8. result.state = s /\ result.calls = none
        BY DEF Result
      <3> HIDE DEF none, result
      <3>9. ReadinessWaits(s, none, ms)
        BY <2>2, <3>3, <3>7 DEF ReadinessWaits
      <3>10. HandledWell(result, ms)
        BY <3>4, <3>5, <3>6, <3>7, <3>8, <3>9 DEF HandledWell, ReadinessIs
      <3> QED
        BY <3>1, <3>10 DEF ms
    <2>9. CASE ~r.refreshPending /\ ~m.error
      <3>1. FinishRefresh(r, m) = Result(ApplySnapshot(idle, m.answer), <<>>, TRUE)
        BY <1>9, <2>9, Zenon DEF FinishRefresh, idle, Applied
      <3>2. IsGetAll(m)
        BY <1>1, <2>9 DEF IsGetAll
      <3>3. m.answer.owner = r.lastEventOwner => m.answer.sequence >= r.lastEventSequence
        BY <1>1, <2>1, <2>9 DEF CommonInv, Covered
      <3> HIDE DEF m
      <3>4. HandledWell(Result(ApplySnapshot(idle, m.answer), <<>>, TRUE), ms)
        BY <1>1, <1>3, <1>4, <1>7, <2>2, <2>3, <3>2, <3>3, SnapshotIsGood
      <3> QED
        BY <3>1, <3>4 DEF ms, m
    <2> QED
      BY <2>7, <2>8, <2>9
  <1> QED
    BY <1>8, <1>9

LEMMA MessageIsHandledWell ==
    ASSUME CommonInv, Arrives("readiness")
    PROVE  HandledWell(OnMessage(readiness, inbox[1]), InboxAfter("readiness"))
  <1> DEFINE m == inbox[1]
             ms == InboxAfter("readiness")
             r == readiness
  <1>1. 1 \in DOMAIN inbox /\ IsTyped(m) /\ (m.kind = "value" => m.to = {"readiness"})
    BY InboxShrinks
  <1>2. m.kind \in {"owner", "event", "reply"}
    <2>1. {"readiness"} # {"client"}
      OBVIOUS
    <2> QED
      BY <1>1, <2>1 DEF IsTyped, IsNews, IsReply
  <1>3. CASE m.kind = "reply"
    <2>1. OnMessage(r, m) = FinishRefresh(r, m)
      BY <1>3, Zenon DEF OnMessage
    <2> QED
      BY <1>3, <2>1, RefreshFinishesWell
  <1>4. CASE m.kind # "reply"
    <2>1. ~Mine(m, "readiness", r.ownerEpoch)
      BY <1>4 DEF Mine
    <2>2. Underway(calls, ms, "readiness", r.ownerEpoch, r.requestInFlight, NoOperation, {})
      BY <2>1, LeftUnderway DEF CommonInv, ServiceInv, ReadinessAsks
    <2>3. PICK last \in Nat :
            /\ last <= service.sequence
            /\ \A i \in DOMAIN inbox : RecentMessage(inbox[i], last)
            /\ r.available => Shows(r.snapshot, last)
      BY DEF CommonInv, Recent
    <2>4. (\A i \in DOMAIN ms : RecentMessage(ms[i], last)) /\ Covered(ms, r)
      BY <2>3, LeftMessages DEF CommonInv
    <2>5. SignedMessage(m) /\ RecentMessage(m, last) /\ IsNews(m)
      BY <1>1, <1>4, <2>3 DEF CommonInv, MessagesSigned, IsTyped, IsReply
    <2> HIDE DEF ms, m
    <2>6. CASE m.kind = "event"
      <3>1. OnMessage(r, m) = OnEventPublished(r, m)
        BY <2>6, Zenon DEF OnMessage
      <3>2. m.owner.uuid # 0 /\ Signs(m.owner, m.sequence)
        BY <2>5, <2>6 DEF SignedMessage
      <3>3. HandledWell(OnEventPublished(r, m), ms)
        BY <2>2, <2>3, <2>4, <2>5, <2>6, <3>2, EventIsGood
      <3> QED
        BY <3>1, <3>3 DEF ms, m
    <2>7. CASE m.kind = "owner"
      <3>1. OnMessage(r, m) = OnServiceOwnerChanged(r, m.alive)
        BY <2>7, Zenon DEF OnMessage
      <3>2. RecentMessages(ms)
        BY <2>3, <2>4 DEF RecentMessages
      <3>3. IsSeq(calls) /\ IsReadiness(r) /\ BusKnown
        BY QueuesAreSeqs DEF CommonInv, ServiceInv
      <3>4. HandledWell(OnServiceOwnerChanged(r, m.alive), ms)
        BY <2>2, <3>2, <3>3, OwnerChangeIsGood
      <3> QED
        BY <3>1, <3>4 DEF ms, m
    <2> QED
      BY <1>2, <1>4, <2>6, <2>7 DEF m
  <1> QED
    BY <1>3, <1>4

-----------------------------------------------------------------------------
(* The objects of the client process, while they handle something.         *)

Members == {"ownerEpoch", "requestInFlight", "refreshPending", "copy", "pending"}
Copies == [ready : BOOLEAN, owner : Owners, sequence : Nat, value : Nat, revision : Nat]
IsCopy(x) == x \in Copies /\ (x.ready => Reading(x))

IsObject(c) ==
    /\ Members \subseteq DOMAIN c
    /\ c.ownerEpoch \in Nat /\ c.requestInFlight \in BOOLEAN /\ c.refreshPending \in BOOLEAN
    /\ IsCopy(c.copy)

\* What is known of a world w, with the messages ms that are left.
IsWorld(w) == DOMAIN w = {"r", "c", "calls"} /\ IsObject(w.c)
ClientWaits(c, sent, ms) ==
    Underway(calls \o Outgoing(sent), ms, "client", c.ownerEpoch, c.requestInFlight,
             c.pending, log)
Good(w, ms) == IsWorld(w) /\ ReadinessIs(w.r, w.calls, ms) /\ ClientWaits(w.c, w.calls, ms)

\* The client changes members that no answer depends on.
Quiet(w, u) ==
    /\ DOMAIN u = {"r", "c", "calls"} /\ u.r = w.r /\ u.calls = w.calls
    /\ IsObject(u.c) /\ u.c.ownerEpoch = w.c.ownerEpoch
    /\ u.c.requestInFlight = w.c.requestInFlight /\ u.c.pending = w.c.pending

LEMMA QuietIsGood == ASSUME NEW w, NEW u, NEW ms, Good(w, ms), Quiet(w, u) PROVE Good(u, ms)
  BY DEF Good, Quiet, IsWorld, ClientWaits

LEMMA CopyIsDropped == IsCopy(NoCopy) /\ NoCopy.ready = FALSE
                       /\ \A o \in Owners : LET x == [NoCopy EXCEPT !.owner = o]
                                            IN  IsCopy(x) /\ x.ready = FALSE
  <1>1. NoOwner \in Owners
    BY StartsTyped DEF NoOwner, Owners
  <1> DEFINE b == NoCopy
  <1>2. b \in Copies /\ b.ready = FALSE
    BY <1>1 DEF NoCopy, Copies, Unset
  <1> HIDE DEF b
  <1>3. ASSUME NEW o \in Owners
        PROVE  [b EXCEPT !.owner = o] \in Copies /\ [b EXCEPT !.owner = o].ready = FALSE
    BY <1>2 DEF Copies
  <1> QED
    BY <1>2, <1>3 DEF IsCopy, b

\* readiness_.refresh().
LEMMA RefreshKeeps ==
    ASSUME IsSeq(calls), NEW w, NEW ms, Good(w, ms)
    PROVE  LET u == RefreshReadiness(w)
           IN  /\ Good(u, ms) /\ u.c = w.c
               /\ u.r.available = w.r.available /\ u.r.snapshot = w.r.snapshot
  <1> DEFINE result == Refresh(w.r, FALSE)
             u == RefreshReadiness(w)
  <1>1. /\ DOMAIN w = {"r", "c", "calls"} /\ ReadinessIs(w.r, w.calls, ms)
        /\ ClientWaits(w.c, w.calls, ms) /\ IsWorld(w)
    BY DEF Good, IsWorld
  <1>2. /\ ReadinessIs(result.state, w.calls \o result.calls, ms) /\ ReadinessCalls(result.calls)
        /\ result.state.available = w.r.available /\ result.state.snapshot = w.r.snapshot
    <2> DEFINE none == FALSE
               r == w.r
               sent == w.calls
    <2>1. IsReadiness(r) /\ Recent(ms, r) /\ IsSeq(sent) /\ ReadinessWaits(r, sent, ms)
      BY <1>1 DEF ReadinessIs
    <2> HIDE DEF none, r, sent
    <2>2. LET got == Refresh(r, none)
          IN  /\ ReadinessIs(got.state, sent \o got.calls, ms) /\ ReadinessCalls(got.calls)
              /\ got.state.available = r.available /\ got.state.snapshot = r.snapshot
      BY <2>1, RefreshIsGood
    <2> QED
      BY <2>2 DEF none, r, sent
  <1>3. u = [w EXCEPT !.r = result.state, !.calls = w.calls \o result.calls]
    BY DEF RefreshReadiness
  <1> HIDE DEF result, u
  <1>4. DOMAIN u = {"r", "c", "calls"} /\ u.r = result.state /\ u.c = w.c
        /\ u.calls = w.calls \o result.calls
    BY <1>1, <1>3, Zenon
  <1>5. ClientWaits(w.c, w.calls \o result.calls, ms)
    <2>1. IsSeq(w.calls)
      BY <1>1 DEF ReadinessIs
    <2>2. CASE result.calls = <<>>
      BY <1>1, <2>1, <2>2, SeqConcat, ListIsSeq
    <2>3. CASE result.calls # <<>>
      <3>1. PICK call : /\ result.calls = <<call>> /\ call.method = "GetAll"
                        /\ call.from = "readiness" /\ call.epoch \in Nat
        BY <1>2, <2>3 DEF ReadinessCalls
      <3> DEFINE cs == calls \o Outgoing(w.calls)
      <3>2. w.calls \o <<call>> = Append(w.calls, call)
        BY <2>1, SeqConcat, ListIsSeq
      <3>3. calls \o Outgoing(Append(w.calls, call)) = Append(cs, Awaited(call))
        BY <2>1, OneCallLeaves
      <3> HIDE DEF cs
      <3>4. Underway(cs, ms, "client", w.c.ownerEpoch, w.c.requestInFlight, w.c.pending, log)
        BY <1>1 DEF ClientWaits, cs
      <3>5. IsCall(Awaited(call), "client", w.c.ownerEpoch, w.c.pending) /\ call.from # "client"
        BY <3>1 DEF IsCall, Awaited, CallOf, AttemptOf
      <3>6. Underway(Append(cs, Awaited(call)), ms, "client", w.c.ownerEpoch,
                     w.c.requestInFlight, w.c.pending, log)
        BY <3>4, <3>5, CallMade
      <3> QED
        BY <3>1, <3>2, <3>3, <3>6 DEF ClientWaits
    <2> QED
      BY <2>2, <2>3
  <1>6. Good(u, ms)
    BY <1>1, <1>2, <1>4, <1>5 DEF Good, IsWorld
  <1> QED
    BY <1>2, <1>4, <1>6 DEF u

\* An idle client asks: it waits from now on.
LEMMA RequestKeeps ==
    ASSUME IsSeq(calls), NEW w, NEW u, NEW ms, Good(w, ms), ~w.c.requestInFlight, NEW call,
           call.method \in {"Get", "Set"}, call.from = "client", call.epoch = w.c.ownerEpoch,
           AttemptOf(call, w.c.pending),
           DOMAIN u = {"r", "c", "calls"}, u.r = w.r, u.calls = Append(w.calls, call),
           IsObject(u.c), u.c.ownerEpoch = w.c.ownerEpoch, u.c.requestInFlight,
           u.c.pending = w.c.pending
    PROVE  Good(u, ms)
  <1> DEFINE cs == calls \o Outgoing(w.calls)
             rep == w.r.ownerEpoch
             cep == w.c.ownerEpoch
             p == w.c.pending
  <1>1. IsSeq(w.calls) /\ cep \in Nat /\ ReadinessIs(w.r, w.calls, ms)
    BY DEF Good, ReadinessIs, IsWorld, IsObject
  <1>2. calls \o Outgoing(u.calls) = Append(cs, Awaited(call)) /\ IsSeq(u.calls)
    BY <1>1, OneCallLeaves, SeqAppend
  <1> HIDE DEF cs
  <1>3. Underway(cs, ms, "client", cep, w.c.requestInFlight, p, log)
    BY DEF Good, ClientWaits, cs
  <1>4. Underway(cs, ms, "readiness", rep, w.r.requestInFlight, NoOperation, {})
    BY <1>1 DEF ReadinessIs, ReadinessWaits, cs
  <1>5. IsCall(Awaited(call), "client", cep, p)
        /\ IsCall(Awaited(call), "readiness", rep, NoOperation)
    BY <1>1 DEF IsCall, Awaited, CallOf, AttemptOf
  <1>6. Underway(Append(cs, Awaited(call)), ms, "client", cep, TRUE, p, log)
    BY <1>3, <1>5, CallMade
  <1>7. Underway(Append(cs, Awaited(call)), ms, "readiness", rep, w.r.requestInFlight,
                 NoOperation, {})
    BY <1>4, <1>5, CallMade
  <1>8. ReadinessIs(u.r, u.calls, ms)
    BY <1>1, <1>2, <1>7 DEF ReadinessIs, ReadinessWaits
  <1>9. ClientWaits(u.c, u.calls, ms)
    <2>1. u.c.requestInFlight = TRUE
      BY DEF IsObject
    <2> QED
      BY <1>2, <1>6, <2>1 DEF ClientWaits
  <1> QED
    BY <1>8, <1>9 DEF Good, IsWorld

-----------------------------------------------------------------------------
(* A handler of the client process begins.                                 *)

LEMMA WorldIs ==
    ASSUME NEW r, NEW sent
    PROVE  /\ DOMAIN World(r, sent) = {"r", "c", "calls"}
           /\ World(r, sent).r = r /\ World(r, sent).c = client /\ World(r, sent).calls = sent
  BY DEF World

\* The readiness client has handled a message.
LEMMA ReadinessBegins ==
    ASSUME CommonInv, IsObject(client), Arrives("readiness")
    PROVE  LET result == OnMessage(readiness, inbox[1])
           IN  Good(World(result.state, result.calls), InboxAfter("readiness"))
  <1> DEFINE result == OnMessage(readiness, inbox[1])
             ms == InboxAfter("readiness")
             w == World(result.state, result.calls)
             start == World(result.state, <<>>)
             ep == client.ownerEpoch
             busy == client.requestInFlight
             p == client.pending
  <1>1. ReadinessIs(result.state, result.calls, ms) /\ ReadinessCalls(result.calls)
    BY MessageIsHandledWell DEF HandledWell
  <1>2. Underway(calls, ms, "client", ep, busy, p, log)
    <2>1. Underway(calls, inbox, "client", ep, busy, p, log)
      BY DEF CommonInv, ServiceInv, ClientAsks
    <2>2. ~Mine(inbox[1], "client", ep)
      <3>1. IsTyped(inbox[1]) /\ "readiness" \in inbox[1].to
        BY InboxShrinks
      <3> QED
        BY <3>1 DEF Mine, IsTyped, IsReply, IsNews
    <2> QED
      BY <2>1, <2>2, LeftUnderway
  <1>3. IsSeq(calls)
    BY QueuesAreSeqs DEF CommonInv, ServiceInv
  <1> HIDE DEF result, ms
  <1>4. ClientWaits(client, result.calls, ms)
    <2>1. CASE result.calls = <<>>
      BY <1>2, <1>3, <2>1, NoCallsLeave DEF ClientWaits
    <2>2. CASE result.calls # <<>>
      <3>1. PICK call : /\ result.calls = <<call>> /\ call.method = "GetAll"
                        /\ call.from = "readiness" /\ call.epoch \in Nat
        BY <1>1, <2>2 DEF ReadinessCalls
      <3> DEFINE none == <<>>
      <3>2. IsSeq(none) /\ calls \o Outgoing(none) = calls /\ <<call>> = Append(none, call)
        BY <1>3, NoCallsLeave, ListIsSeq
      <3> HIDE DEF none
      <3>3. calls \o Outgoing(Append(none, call)) = Append(calls \o Outgoing(none), Awaited(call))
        BY <1>3, <3>2, OneCallLeaves
      <3>4. calls \o Outgoing(result.calls) = Append(calls, Awaited(call))
        BY <3>1, <3>2, <3>3
      <3>5. IsCall(Awaited(call), "client", ep, p) /\ call.from # "client"
        BY <3>1 DEF IsCall, Awaited, CallOf, AttemptOf
      <3>6. Underway(Append(calls, Awaited(call)), ms, "client", ep, busy, p, log)
        BY <1>2, <3>5, CallMade
      <3> QED
        BY <3>4, <3>6 DEF ClientWaits
    <2> QED
      BY <2>1, <2>2
  <1>5. Good(w, ms)
    BY <1>1, <1>4, WorldIs DEF Good, IsWorld
  <1> QED
    BY <1>5 DEF result, ms

\* A world u in which the readiness client is as it was, and the client
\* waits for something or nothing.
LEMMA WorldBegins ==
    ASSUME CommonInv, NEW ms, Recent(ms, readiness), Covered(ms, readiness),
           Underway(calls, ms, "readiness", readiness.ownerEpoch, readiness.requestInFlight,
                    NoOperation, {}),
           NEW u, IsWorld(u), u.r = readiness, u.calls = <<>>,
           Underway(calls, ms, "client", u.c.ownerEpoch, u.c.requestInFlight, u.c.pending, log)
    PROVE  Good(u, ms)
  <1> DEFINE none == <<>>
  <1>1. IsSeq(calls) /\ IsReadiness(readiness)
    BY QueuesAreSeqs DEF CommonInv, ServiceInv
  <1>2. IsSeq(none) /\ calls \o Outgoing(none) = calls /\ u.calls = none
    BY <1>1, NoCallsLeave, ListIsSeq
  <1> HIDE DEF none
  <1>3. ReadinessIs(u.r, u.calls, ms)
    BY <1>1, <1>2 DEF ReadinessIs, ReadinessWaits
  <1>4. ClientWaits(u.c, u.calls, ms)
    BY <1>2 DEF ClientWaits
  <1> QED
    BY <1>3, <1>4 DEF Good

\* The user or a timer acts.
LEMMA IdleBegins ==
    ASSUME CommonInv, IsObject(client)
    PROVE  Good(World(readiness, <<>>), inbox)
  <1> DEFINE w == World(readiness, <<>>)
  <1>1. IsWorld(w) /\ w.r = readiness /\ w.c = client /\ w.calls = <<>>
    BY WorldIs DEF IsWorld
  <1>2. Underway(calls, inbox, "client", w.c.ownerEpoch, w.c.requestInFlight, w.c.pending, log)
    BY <1>1 DEF CommonInv, ServiceInv, ClientAsks
  <1> HIDE DEF w
  <1>3. Good(w, inbox)
    BY <1>1, <1>2, WorldBegins DEF CommonInv, ServiceInv, ReadinessAsks
  <1> QED
    BY <1>3 DEF w

\* What the readiness client waits for while the client handles a message.
LEMMA ReadinessKeepsWaiting ==
    ASSUME CommonInv, Arrives("client")
    PROVE  LET ms == InboxAfter("client")
           IN  /\ Recent(ms, readiness) /\ Covered(ms, readiness) /\ MessagesSigned(ms)
               /\ Underway(calls, ms, "readiness", readiness.ownerEpoch,
                           readiness.requestInFlight, NoOperation, {})
  <1> DEFINE ms == InboxAfter("client")
  <1>1. Recent(ms, readiness)
    BY LeftMessages DEF CommonInv, Recent
  <1>2. Covered(ms, readiness) /\ MessagesSigned(ms)
    BY LeftMessages DEF CommonInv
  <1>3. ~Mine(inbox[1], "readiness", readiness.ownerEpoch)
    <2>1. IsTyped(inbox[1]) /\ "client" \in inbox[1].to
      BY InboxShrinks
    <2> QED
      BY <2>1 DEF Mine, IsTyped, IsReply, IsNews
  <1> QED
    BY <1>1, <1>2, <1>3, LeftUnderway DEF CommonInv, ServiceInv, ReadinessAsks

\* A message that is none of the answers the client waits for.
LEMMA NewsBegins ==
    ASSUME CommonInv, IsObject(client), Arrives("client"),
           ~Mine(inbox[1], "client", client.ownerEpoch)
    PROVE  Good(World(readiness, <<>>), InboxAfter("client"))
  <1> DEFINE w == World(readiness, <<>>)
             ms == InboxAfter("client")
  <1>1. IsWorld(w) /\ w.r = readiness /\ w.c = client /\ w.calls = <<>>
    BY WorldIs DEF IsWorld
  <1>2. Underway(calls, ms, "client", client.ownerEpoch, client.requestInFlight,
                 client.pending, log)
    BY LeftUnderway DEF CommonInv, ServiceInv, ClientAsks
  <1> HIDE DEF w, ms
  <1>3. Good(w, ms)
    BY <1>1, <1>2, ReadinessKeepsWaiting, WorldBegins DEF ms
  <1> QED
    BY <1>3 DEF w, ms

\* The answer it waits for: it waits for nothing, and if it was answered no
\* attempt is left.
LEMMA AnswerBegins ==
    ASSUME CommonInv, Arrives("client"), Mine(inbox[1], "client", client.ownerEpoch),
           NEW u, IsWorld(u), u.r = readiness, u.calls = <<>>,
           u.c.ownerEpoch = client.ownerEpoch, ~u.c.requestInFlight,
           u.c.pending = client.pending \/ ~inbox[1].error
    PROVE  Good(u, InboxAfter("client"))
  <1> DEFINE ms == InboxAfter("client")
  <1>1. ms = Tail(inbox) /\ inbox # <<>>
    BY InboxShrinks DEF Mine
  <1>2. Underway(calls, inbox, "client", client.ownerEpoch, client.requestInFlight,
                 client.pending, log)
    BY DEF CommonInv, ServiceInv, ClientAsks
  <1>3. Underway(calls, Tail(inbox), "client", u.c.ownerEpoch, u.c.requestInFlight,
                 u.c.pending, log)
    <2>1. u.c.requestInFlight = FALSE
      BY DEF IsWorld, IsObject
    <2> QED
      BY <1>1, <1>2, <2>1, AnswerTaken
  <1>4. Underway(calls, ms, "client", u.c.ownerEpoch, u.c.requestInFlight, u.c.pending, log)
    BY <1>1, <1>3
  <1> HIDE DEF ms
  <1>5. Good(u, ms)
    BY <1>4, ReadinessKeepsWaiting, WorldBegins DEF ms
  <1> QED
    BY <1>5 DEF ms

\* A change of owner voids what was asked.
LEMMA ForgettingBegins ==
    ASSUME CommonInv, IsObject(client), Arrives("client"), inbox[1].kind # "reply",
           NEW u, IsWorld(u), u.r = readiness, u.calls = <<>>,
           u.c.ownerEpoch = client.ownerEpoch + 1, ~u.c.requestInFlight,
           u.c.pending = client.pending
    PROVE  Good(u, InboxAfter("client"))
  <1> DEFINE ms == InboxAfter("client")
  <1>1. client.ownerEpoch \in Nat /\ ~Mine(inbox[1], "client", client.ownerEpoch)
    BY DEF IsObject, Mine
  <1>2. Underway(calls, ms, "client", client.ownerEpoch, client.requestInFlight,
                 client.pending, log)
    BY <1>1, LeftUnderway DEF CommonInv, ServiceInv, ClientAsks
  <1>3. Underway(calls, ms, "client", u.c.ownerEpoch, u.c.requestInFlight, u.c.pending, log)
    <2>1. u.c.requestInFlight = FALSE
      BY DEF IsWorld, IsObject
    <2> QED
      BY <1>1, <1>2, <2>1, OwnerForgotten
  <1> HIDE DEF ms
  <1>4. Good(u, ms)
    BY <1>3, ReadinessKeepsWaiting, WorldBegins DEF ms
  <1> QED
    BY <1>4 DEF ms
-----------------------------------------------------------------------------
(* ... and ends.                                                           *)

LEMMA OutcomesStay ==
    ASSUME Outcomes, UNCHANGED <<issued, resolved, log, kind>>, client'.pending = client.pending
    PROVE  Outcomes'
  <1>1. OperationsIssued'
    BY DEF Outcomes, OperationsIssued, WrittenValues
  <1>2. LogIsIssued'
    BY DEF Outcomes, LogIsIssued
  <1>3. OutcomesFollow' /\ ReportsAreTrue'
    BY DEF Outcomes, OutcomesFollow, ReportsAreTrue
  <1> QED
    BY <1>1, <1>2, <1>3 DEF Outcomes

\* An answer decides: what the user is told of the operation is true.
LEMMA OperationIsDecided ==
    ASSUME Outcomes, UNCHANGED <<issued, log, kind>>, client'.pending = NoOperation,
           client.pending # NoOperation, NEW m, m.call.method = "Set",
           TellsTruth(m, client.pending, log), m.answer.code # "BACKEND_UNAVAILABLE",
           resolved' = [resolved EXCEPT ![client.pending.op] = m.answer.code]
    PROVE  Outcomes'
  <1> DEFINE op == client.pending.op
             code == m.answer.code
  <1>1. op \in 1..issued /\ issued \in 0..MaxOperations /\ MaxOperations \in Nat
    BY PendingOperation
  <1>2. op \in Operations /\ 0 \notin Operations /\ NoOperation.op = 0
    BY <1>1 DEF Operations, NoOperation
  <1>3. OperationsIssued'
    BY DEF Outcomes, OperationsIssued
  <1>4. LogIsIssued'
    BY DEF Outcomes, LogIsIssued
  <1>5. /\ DOMAIN resolved' = Operations /\ resolved'[op] = code
        /\ \A other \in Operations : other # op => resolved'[other] = resolved[other]
    BY <1>2 DEF Outcomes, OutcomesFollow
  <1>6. code \in {"OK", "STALE_REVISION", "CONFLICT", "IO_ERROR"}
    BY DEF TellsTruth
  <1>7. OutcomesFollow'
    BY <1>1, <1>2, <1>5, <1>6 DEF Outcomes, OutcomesFollow
  <1>8. ReportsAreTrue'
    BY <1>5 DEF Outcomes, ReportsAreTrue, TellsTruth
  <1> QED
    BY <1>3, <1>4, <1>7, <1>8 DEF Outcomes

\* The user asks for something: an operation that nobody knows of yet.
LEMMA OperationIsIssued ==
    ASSUME Outcomes, spent.limits \in Limits, UNCHANGED <<resolved, log, kind>>,
           client.pending = NoOperation, issued < spent.limits["operation"],
           issued' = issued + 1, NEW v \in WrittenValues, NEW e \in Nat,
           client'.pending = [op |-> issued + 1, value |-> v, expected |-> e]
    PROVE  Outcomes'
  <1>1. /\ issued \in 0..MaxOperations /\ issued' = issued + 1 /\ issued < MaxOperations
        /\ MaxOperations \in Nat
    <2>1. issued \in 0..MaxOperations
      BY DEF Outcomes, OperationsIssued
    <2>2. spent.limits["operation"] <= MaxOperations /\ MaxOperations \in Nat
      BY OperationsAssumption
    <2>3. spent.limits["operation"] \in Nat
      BY LimitsAssumption DEF Spendable
    <2> QED
      BY <2>1, <2>2, <2>3
  <1>2. client'.pending \in [op : 1..(issued + 1), value : WrittenValues, expected : Nat]
        /\ client'.pending.op = issued + 1
    BY <1>1
  <1>3. OperationsIssued'
    BY <1>1, <1>2 DEF OperationsIssued, WrittenValues
  <1>4. LogIsIssued'
    <2>1. issued + 1 \in Operations
      BY <1>1 DEF Operations
    <2>2. \A row \in log : row.op # issued + 1
      BY <1>1, <2>1 DEF Outcomes, LogIsIssued
    <2>3. \A row \in log : IsRow(row) /\ (row.op \in Operations => row.op <= issued + 1)
      BY <1>1 DEF Outcomes, LogIsIssued, Operations
    <2> QED
      BY <1>1, <1>2, <2>2, <2>3 DEF LogIsIssued
  <1>5. OutcomesFollow' /\ ReportsAreTrue'
    <2>1. \A op \in Operations : op > issued' \/ op = client'.pending.op => op > issued
      BY <1>1, <1>2 DEF Operations
    <2> QED
      BY <2>1 DEF Outcomes, OutcomesFollow, ReportsAreTrue
  <1> QED
    BY <1>3, <1>4, <1>5 DEF Outcomes

LEMMA WorldEnds ==
    ASSUME CommonInv, NEW w, NEW ms, Good(w, ms), Becomes(w), inbox' = ms, MessagesSigned(ms),
           UNCHANGED <<service, persistedGeneration, value, revision, log, kind>>,
           BusKnown', Started' = Started, Outcomes'
    PROVE  CommonInv' /\ IsObject(client)'
  <1>1. readiness' = w.r /\ client' = w.c /\ calls' = calls \o Outgoing(w.calls)
    BY DEF Becomes
  <1>2. /\ IsReadiness(w.r) /\ Recent(ms, w.r) /\ Covered(ms, w.r)
        /\ Underway(calls', ms, "readiness", w.r.ownerEpoch, w.r.requestInFlight, NoOperation, {})
        /\ Underway(calls', ms, "client", w.c.ownerEpoch, w.c.requestInFlight, w.c.pending, log)
        /\ IsObject(w.c)
    BY <1>1 DEF Good, IsWorld, ReadinessIs, ReadinessWaits, ClientWaits
  <1>3. ReadinessAsks' /\ ClientAsks'
    BY <1>1, <1>2 DEF ReadinessAsks, ClientAsks
  <1>4. RegisterKnown'
    BY DEF CommonInv, ServiceInv, RegisterKnown, StoredValues
  <1>5. \A o, n : Signs(o, n)' <=> Signs(o, n)
    BY DEF Signs
  <1>6. MessagesSigned(inbox)'
    BY <1>5 DEF MessagesSigned, SignedMessage, ReadingMessage, Reading
  <1>7. IsReadiness(readiness)'
    BY <1>1, <1>2, <1>5 DEF IsReadiness
  <1>8. Recent(inbox, readiness)' /\ Covered(inbox, readiness)'
    BY <1>1, <1>2 DEF Recent, Covered, RecentMessage, Shows
  <1>9. IsObject(client)'
    BY <1>1, <1>2, <1>5 DEF IsObject, IsCopy, Reading
  <1> QED
    BY <1>3, <1>4, <1>6, <1>7, <1>8, <1>9 DEF CommonInv, ServiceInv

-----------------------------------------------------------------------------
(* The service moves on, and the beginning.                                *)

LEMMA CopyStays ==
    ASSUME CommonInv, CommonInv', Step, NEW x, IsCopy(x) PROVE IsCopy(x)'
  BY ReadingStays DEF CommonInv, ServiceInv, IsCopy, Copies

LEMMA ObjectStays ==
    ASSUME CommonInv, CommonInv', Step, IsObject(client), client' = client PROVE IsObject(client)'
  BY CopyStays DEF IsObject

LEMMA NothingHappens ==
    ASSUME CommonInv, UNCHANGED clientVars PROVE CommonInv' /\ Started' = Started
  <1>1. UNCHANGED <<service, persistedGeneration, calls, inbox, spent, readiness, kind, client,
                    value, revision, log, issued, resolved>>
    BY DEF clientVars, busVars, registerVars, clientOnly
  <1>2. BusKnown' /\ Started' = Started
    BY <1>1 DEF CommonInv, ServiceInv, BusKnown, Started
  <1>3. RegisterKnown'
    BY <1>1 DEF CommonInv, ServiceInv, RegisterKnown, StoredValues
  <1>4. Outcomes'
    BY <1>1, OutcomesStay DEF CommonInv, ServiceInv
  <1>5. ReadinessAsks' /\ ClientAsks'
    BY <1>1 DEF CommonInv, ServiceInv, ReadinessAsks, ClientAsks
  <1>6. \A o, n : Signs(o, n)' <=> Signs(o, n)
    BY <1>1, <1>2 DEF Signs
  <1>7. MessagesSigned(inbox)'
    BY <1>1, <1>6 DEF CommonInv, MessagesSigned, SignedMessage, ReadingMessage, Reading
  <1>8. IsReadiness(readiness)'
    BY <1>1, <1>6 DEF CommonInv, IsReadiness
  <1>9. Recent(inbox, readiness)' /\ Covered(inbox, readiness)'
    BY <1>1 DEF CommonInv, Recent, Covered, RecentMessage, Shows
  <1> QED
    BY <1>2, <1>3, <1>4, <1>5, <1>7, <1>8, <1>9 DEF CommonInv, ServiceInv

LEMMA BusBegins == ASSUME BusInit PROVE BusKnown
  <1>1. MaxStarts \in Nat /\ MaxStarts > 0
    BY StartsTyped
  <1>2. PICK limits \in Limits :
          spent = [limits |-> limits,
                   count |-> [k \in Spendable |-> IF k = "start" THEN service.owner.uuid ELSE 0]]
    BY DEF BusInit
  <1>3. service.owner.uuid \in 0..1 /\ service.owner.uuid \in Nat
    BY DEF BusInit, NoService, NoOwner
  <1>4. /\ DOMAIN spent = {"limits", "count"} /\ spent.limits \in Limits
        /\ spent.count \in [Spendable -> Nat] /\ Started = service.owner.uuid
    BY <1>2, <1>3 DEF Started, Spendable
  <1>5. CASE service = NoService /\ persistedGeneration = 0
    BY <1>1, <1>4, <1>5 DEF BusKnown, NoService, NoOwner, Owners, States
  <1>6. CASE /\ service = [owner |-> [uuid |-> 1, generation |-> 1], state |-> "READY", sequence |-> 3]
             /\ persistedGeneration = 1
    BY <1>1, <1>4, <1>6 DEF BusKnown, Owners, States
  <1> QED
    BY <1>5, <1>6 DEF BusInit

LEMMA RegisterBegins ==
    ASSUME InitialRegister, kind \in {"toast", "settings", "notifications"}, issued = 0,
           client.pending = NoOperation, resolved = [op \in Operations |-> "PENDING"]
    PROVE  RegisterKnown /\ Outcomes
  <1>1. RegisterKnown
    BY DEF InitialRegister, RegisterKnown, StoredValues, Unset
  <1>2. MaxOperations \in Nat
    BY OperationsAssumption
  <1>3. OperationsIssued
    BY <1>2 DEF OperationsIssued
  <1>4. \A row \in log : IsRow(row) /\ row.op \notin Operations
    <2>1. \A row \in log : row = Counting!Row(MaxOperations + 1, 0, 0, 1)
      BY DEF InitialRegister
    <2>2. \A row \in log : IsRow(row) /\ row.op = MaxOperations + 1
      BY <2>1 DEF IsRow, Counting!Row
    <2> QED
      BY <1>2, <2>2 DEF Operations
  <1>5. LogIsIssued
    BY <1>4 DEF LogIsIssued
  <1>6. OutcomesFollow /\ ReportsAreTrue
    BY DEF OutcomesFollow, ReportsAreTrue
  <1> QED
    BY <1>1, <1>3, <1>5, <1>6 DEF Outcomes

\* The readiness client has asked, and the client waits for nothing.
LEMMA ServiceBegins ==
    ASSUME ServiceInit, kind \in {"toast", "settings", "notifications"},
           client.ownerEpoch \in Nat, client.requestInFlight \in BOOLEAN,
           ~client.requestInFlight, client.pending = NoOperation
    PROVE  CommonInv
  <1> DEFINE r == NoReadiness
             none == <<>>
             result == Refresh(r, FALSE)
             call == GetAll(r)
  <1>1. BusKnown /\ RegisterKnown /\ Outcomes /\ inbox = none
    BY BusBegins, RegisterBegins DEF ServiceInit, BusInit
  <1>2. /\ r \in Readinesses /\ r.available = FALSE /\ r.refreshPending = FALSE
        /\ r.ownerEpoch = 0 /\ r.requestInFlight = FALSE
        /\ r.lastEventOwner = NoOwner /\ r.lastEventSequence = 0
    BY StartsTyped DEF NoReadiness, Readinesses, Snapshots, NoService, NoOwner, Owners
  <1>3. Signs(NoOwner, 0)
    BY <1>1, KnownService DEF Signs
  <1> HIDE DEF r
  <1>4. IsReadiness(r)
    BY <1>2, <1>3 DEF IsReadiness, Readinesses, Snapshots
  <1>5. IsSeq(none) /\ Len(none) = 0 /\ DOMAIN none = {} /\ none \o Outgoing(none) = none
        /\ Append(none, call) = <<call>> /\ none \o <<call>> = <<call>>
    <2>1. IsSeq(none) /\ Len(none) = 0
      BY ListIsSeq
    <2> QED
      BY <2>1, SeqFacts, SeqConcat, NoCallsLeave
  <1>6. \A who, ep, p, lg : Underway(none, none, who, ep, FALSE, p, lg)
    BY <1>5 DEF Underway, AtMostOne, Queued, LastWaits, OneIsMine, AnswersDecide, Awaits
  <1>7. Recent(none, r)
    <2>1. service.sequence \in Nat
      BY <1>1, KnownService
    <2> QED
      BY <1>2, <1>5, <2>1 DEF Recent
  <1>8. readiness = result.state /\ calls = Outgoing(result.calls) /\ result.calls = <<call>>
    BY <1>2 DEF ServiceInit, ReadinessInit, Refresh, Result, r
  <1>9. /\ result.state = [r EXCEPT !.requestInFlight = TRUE, !.refreshPending = FALSE]
    BY <1>2 DEF Refresh, Result
  <1> HIDE DEF result
  <1>10. /\ readiness \in Readinesses /\ readiness.available = FALSE
         /\ readiness.ownerEpoch = 0 /\ readiness.requestInFlight = TRUE
         /\ readiness.refreshPending = FALSE
         /\ readiness.lastEventOwner = NoOwner /\ readiness.lastEventSequence = 0
    BY <1>2, <1>8, <1>9 DEF Readinesses
  <1>11. call.method = "GetAll" /\ call.from = "readiness" /\ call.epoch = 0
    BY <1>2 DEF GetAll
  <1> HIDE DEF call
  <1>12. calls = Append(none, Awaited(call))
    <2>1. Outgoing(Append(none, call)) = Append(Outgoing(none), Awaited(call))
      BY <1>5, OutgoingCalls
    <2>2. Outgoing(none) = none
      BY OutgoingCalls
    <2> QED
      BY <1>5, <1>8, <2>1, <2>2
  <1> HIDE DEF none
  <1>13. ReadinessAsks
    <2>1. IsCall(Awaited(call), "readiness", 0, NoOperation)
      BY <1>11 DEF IsCall, Awaited, CallOf, AttemptOf
    <2> DEFINE idle == FALSE
    <2>2. Underway(none, none, "readiness", 0, idle, NoOperation, {}) /\ ~idle
      BY <1>6
    <2> HIDE DEF idle
    <2>3. Underway(Append(none, Awaited(call)), none, "readiness", 0, TRUE, NoOperation, {})
      BY <1>11, <2>1, <2>2, CallMade
    <2> QED
      BY <1>1, <1>10, <1>12, <2>3 DEF ReadinessAsks
  <1>14. ClientAsks
    <2> DEFINE ep == client.ownerEpoch
               busy == client.requestInFlight
               p == client.pending
    <2>1. IsCall(Awaited(call), "client", ep, p) /\ call.from # "client"
      BY <1>11 DEF IsCall, Awaited, CallOf, AttemptOf
    <2>2. Underway(none, none, "client", ep, busy, p, log)
      BY <1>6
    <2> HIDE DEF ep, busy, p
    <2>3. Underway(Append(none, Awaited(call)), none, "client", ep, busy, p, log)
      BY <2>1, <2>2, CallMade
    <2> QED
      BY <1>1, <1>12, <2>3 DEF ClientAsks, ep, busy, p
  <1>15. MessagesSigned(inbox)
    BY <1>1, <1>5 DEF MessagesSigned
  <1>16. IsReadiness(readiness) /\ Recent(inbox, readiness) /\ Covered(inbox, readiness)
    <2>1. service.sequence \in Nat
      BY <1>1, KnownService
    <2> QED
      BY <1>1, <1>3, <1>5, <1>10, <2>1 DEF IsReadiness, Readinesses, Snapshots, Recent, Covered
  <1> QED
    BY <1>1, <1>13, <1>14, <1>15, <1>16 DEF CommonInv, ServiceInv

\* The user asks an idle client for something new.
LEMMA OperationBeginsWell ==
    ASSUME CommonInv, IsObject(client), ~client.requestInFlight, client.pending = NoOperation,
           NEW u, IsWorld(u), u.r = readiness, u.calls = <<>>,
           u.c.ownerEpoch = client.ownerEpoch, u.c.requestInFlight = client.requestInFlight
    PROVE  Good(u, inbox)
  <1> DEFINE busy == client.requestInFlight
             ep == client.ownerEpoch
             p == u.c.pending
  <1>1. Underway(calls, inbox, "client", ep, busy, NoOperation, log)
    BY DEF CommonInv, ServiceInv, ClientAsks
  <1>2. Underway(calls, inbox, "client", ep, busy, p, log)
    BY <1>1, OperationBegins
  <1> QED
    BY <1>2, WorldBegins DEF CommonInv, ServiceInv, ReadinessAsks
=============================================================================
