--------------------------- MODULE ToastClientProofs ---------------------------
(***************************************************************************)
(* Proofs about the toast client: what it waits for, what it reports of    *)
(* the user's changes, and that the cursor of its copy identifies what is  *)
(* stored.  The limits may be any: any number of restarts, failures,       *)
(* timeouts, lost signals, changes of the user and of other clients.       *)
(***************************************************************************)
EXTENDS ToastNotificationsClient, PreferenceServiceProofs

-----------------------------------------------------------------------------
(* T is the number of the last change of the preference that the running   *)
(* service has announced, or 0.                                            *)

\* What x says of the running service is current, unless it is older than T.
New(x, T) ==
    x.owner.uuid = service.owner.uuid /\ x.sequence >= T => x.revision = revision

NewMessage(m, T) ==
    /\ m.kind = "value" /\ m.owner.uuid = service.owner.uuid => m.sequence <= T /\ New(m, T)
    /\ m.kind = "event" /\ m.owner.uuid = service.owner.uuid =>
            IF m.subject = "toast" THEN m.sequence <= T ELSE m.sequence # T
    /\ IsRead(m) => New(m.answer, T)
MessagesNew(ms, T) == \A i \in DOMAIN ms : NewMessage(ms[i], T)

\* A copy that is older than T belongs to a client that has not heard of it.
CopyIsNew(c, T) ==
    c.copy.ready =>
        /\ New(c.copy, T)
        /\ c.eventOwner = c.copy.owner /\ c.copy.sequence <= c.lastObservedSequence
        /\ c.copy.owner.uuid = service.owner.uuid /\ c.copy.sequence < T =>
                c.lastObservedSequence < T

ToastMembers ==
    {"ownerEpoch", "requestInFlight", "refreshPending", "eventOwner", "lastObservedSequence",
     "copy", "pending"}
IsToast(c) ==
    /\ DOMAIN c = ToastMembers
    /\ c.eventOwner \in Owners /\ c.lastObservedSequence \in Nat
    /\ c.eventOwner # NoOwner => Signs(c.eventOwner, c.lastObservedSequence)

Current(T) == T <= service.sequence /\ MessagesNew(inbox, T) /\ CopyIsNew(client, T)

\* The inductive invariant: the queues between the objects and the service,
\* what messages and copies say of the running service, what the operations
\* of the user came to, and when the preference was last changed.
ToastInv ==
    /\ CommonInv /\ IsObject(client) /\ IsToast(client) /\ kind = "toast"
    /\ \E T \in Nat : Current(T)
-----------------------------------------------------------------------------
(* The service moves on.                                                   *)

LEMMA MessagesAreKnown ==
    ASSUME CommonInv, NEW i \in DOMAIN inbox, NEW m, m = inbox[i]
    PROVE  /\ IsTyped(m) /\ SignedMessage(m) /\ ReadingMessage(m)
           /\ m.kind \in {"event", "value"} =>
                /\ m.owner \in Owners /\ m.sequence \in Nat /\ m.owner.uuid # 0
                /\ Signs(m.owner, m.sequence)
           /\ IsRead(m) => /\ m.answer.owner \in Owners /\ m.answer.sequence \in Nat
                           /\ m.answer.owner.uuid # 0 /\ Signs(m.answer.owner, m.answer.sequence)
  <1>1. IsTyped(m) /\ SignedMessage(m) /\ ReadingMessage(m)
    BY MessagesAreTyped DEF CommonInv, ServiceInv, MessagesSigned
  <1>2. IsRead(m) => Reading(m.answer) /\ m.kind = "reply" /\ ~m.error
    BY <1>1 DEF ReadingMessage, IsRead
  <1> QED
    BY <1>1, <1>2, MessageIsTyped DEF SignedMessage, Reading

\* How the number of the last change moves with a step.
Renews(T, next) ==
    \/ /\ service'.owner.uuid = service.owner.uuid /\ revision' = revision /\ next = T
    \/ /\ service'.owner.uuid = service.owner.uuid /\ service.sequence < next
    \/ service'.owner.uuid = 0 \/ service'.owner.uuid > Started

LEMMA NewStays ==
    ASSUME CommonInv, NEW T \in Nat, NEW next \in Nat, Renews(T, next), NEW x,
           x.owner \in Owners, x.sequence \in Nat, x.owner.uuid # 0, Signs(x.owner, x.sequence),
           New(x, T)
    PROVE  New(x, next)'
  <1>1. /\ Started \in Nat /\ service.owner.uuid \in Nat /\ service.sequence \in Nat
        /\ x.owner.uuid \in Nat
    BY KnownService DEF CommonInv, ServiceInv
  <1> QED
    BY <1>1 DEF Renews, New, Signs

LEMMA NewMessageStays ==
    ASSUME CommonInv, NEW T \in Nat, NEW next \in Nat, Renews(T, next), T <= service.sequence,
           NEW i \in DOMAIN inbox, NEW m, m = inbox[i], NewMessage(m, T)
    PROVE  NewMessage(m, next)'
  <1>1. /\ Started \in Nat /\ service.owner.uuid \in Nat /\ service.sequence \in Nat
    BY KnownService DEF CommonInv, ServiceInv
  <1>2. ASSUME m.kind = "value", m.owner.uuid = service'.owner.uuid
        PROVE  m.sequence <= next /\ New(m, next)'
    <2>1. m.owner \in Owners /\ m.sequence \in Nat /\ m.owner.uuid # 0
          /\ Signs(m.owner, m.sequence) /\ m.owner.uuid \in Nat
      BY <1>2, MessagesAreKnown, KnownService DEF CommonInv, ServiceInv
    <2>2. m.owner.uuid = service.owner.uuid
      BY <1>1, <1>2, <2>1 DEF Renews, Signs
    <2>3. m.sequence <= T /\ New(m, T)
      BY <1>2, <2>2 DEF NewMessage
    <2>4. m.sequence <= next
      BY <1>1, <1>2, <2>1, <2>2, <2>3 DEF Renews, Signs
    <2>5. New(m, next)'
      BY <2>1, <2>3, NewStays
    <2> QED
      BY <2>4, <2>5
  <1>3. ASSUME m.kind = "event", m.owner.uuid = service'.owner.uuid
        PROVE  IF m.subject = "toast" THEN m.sequence <= next ELSE m.sequence # next
    <2>1. m.owner \in Owners /\ m.sequence \in Nat /\ m.owner.uuid # 0
          /\ Signs(m.owner, m.sequence) /\ m.owner.uuid \in Nat
      BY <1>3, MessagesAreKnown, KnownService DEF CommonInv, ServiceInv
    <2>2. m.owner.uuid = service.owner.uuid
      BY <1>1, <1>3, <2>1 DEF Renews, Signs
    <2>3. IF m.subject = "toast" THEN m.sequence <= T ELSE m.sequence # T
      BY <1>3, <2>2 DEF NewMessage
    <2>4. next = T \/ service.sequence < next
      BY <1>1, <1>3, <2>1, <2>2 DEF Renews, Signs
    <2>5. m.sequence <= service.sequence
      BY <2>1, <2>2 DEF Signs
    <2> QED
      BY <1>1, <2>1, <2>3, <2>4, <2>5
  <1>4. ASSUME IsRead(m) PROVE New(m.answer, next)'
    <2>1. m.answer.owner \in Owners /\ m.answer.sequence \in Nat /\ m.answer.owner.uuid # 0
          /\ Signs(m.answer.owner, m.answer.sequence)
      BY <1>4, MessagesAreKnown
    <2>2. New(m.answer, T)
      BY <1>4 DEF NewMessage
    <2> QED
      BY <2>1, <2>2, NewStays
  <1> QED
    BY <1>2, <1>3, <1>4 DEF NewMessage, IsRead, New

LEMMA CopyStaysNew ==
    ASSUME CommonInv, IsObject(client), IsToast(client), client' = client,
           NEW T \in Nat, NEW next \in Nat, Renews(T, next), CopyIsNew(client, T)
    PROVE  CopyIsNew(client, next)'
  <1> SUFFICES ASSUME client.copy.ready PROVE CopyIsNew(client, next)'
    BY DEF CopyIsNew
  <1> DEFINE x == client.copy
             last == client.lastObservedSequence
  <1>1. /\ Started \in Nat /\ service.owner.uuid \in Nat /\ service.sequence \in Nat
    BY KnownService DEF CommonInv, ServiceInv
  <1>2. x \in Copies /\ Reading(x)
    BY DEF IsObject, IsCopy
  <1>3. x.owner \in Owners /\ x.sequence \in Nat /\ x.owner.uuid # 0 /\ Signs(x.owner, x.sequence)
        /\ x.owner.uuid \in Nat
    BY <1>2, KnownService DEF Copies, Reading, CommonInv, ServiceInv
  <1>4. /\ New(x, T) /\ client.eventOwner = x.owner /\ x.sequence <= last
        /\ x.owner.uuid = service.owner.uuid /\ x.sequence < T => last < T
    BY DEF CopyIsNew
  <1>5. last \in Nat /\ Signs(x.owner, last)
    BY <1>3, <1>4 DEF IsToast, NoOwner
  <1>6. ASSUME NEW y, y = x PROVE New(y, next)'
    BY <1>3, <1>4, <1>6, NewStays
  <1>7. x.owner.uuid = service'.owner.uuid /\ x.sequence < next => last < next
    BY <1>1, <1>3, <1>4, <1>5 DEF Renews, Signs
  <1> QED
    BY <1>4, <1>6, <1>7 DEF CopyIsNew, New


LEMMA RenewedBy ==
    ASSUME CommonInv, IsObject(client), IsToast(client), client' = client,
           NEW T \in Nat, NEW next \in Nat, Renews(T, next), Current(T), next <= service'.sequence,
           NEW N, \A m \in N : NewMessage(m, next)',
           \A i \in DOMAIN inbox' : (\E j \in DOMAIN inbox : inbox'[i] = inbox[j]) \/ inbox'[i] \in N
    PROVE  Current(next)'
  <1>1. CopyIsNew(client, next)'
    BY CopyStaysNew DEF Current
  <1>2. ASSUME NEW i \in DOMAIN inbox', NEW m, m = inbox'[i] PROVE NewMessage(m, next)'
    <2>1. CASE \E j \in DOMAIN inbox : inbox'[i] = inbox[j]
      <3>1. PICK j \in DOMAIN inbox : m = inbox[j]
        BY <1>2, <2>1
      <3>2. NewMessage(m, T) /\ T <= service.sequence
        BY <3>1 DEF Current, MessagesNew
      <3> QED
        BY <3>1, <3>2, NewMessageStays
    <2>2. CASE inbox'[i] \in N
      BY <1>2, <2>2
    <2> QED
      BY <1>2, <2>1, <2>2
  <1>3. MessagesNew(inbox, next)'
    BY <1>2 DEF MessagesNew
  <1> QED
    BY <1>1, <1>3 DEF Current

\* Every change renews what is current; nothing else disturbs it.
LEMMA CurrentStays ==
    ASSUME CommonInv, CommonInv', kind = "toast", Step, IsObject(client), IsToast(client),
           client' = client, NEW T \in Nat, Current(T)
    PROVE  \E next \in Nat : Current(next)'
  <1>1. /\ service.sequence \in Nat /\ service'.sequence \in Nat /\ T <= service.sequence
        /\ Started \in Nat /\ service.owner.uuid \in Nat
    BY KnownService DEF CommonInv, ServiceInv, BusKnown, Current
  <1>2. CASE Answers
    <2>1. PICK N : Grows(N) /\ \A m \in N : Truthful(m)
      BY <1>2 DEF Answers
    <2>2. \A m \in N : NewMessage(m, T)'
      BY <1>2, <2>1 DEF Answers, Truthful, NewMessage, IsRead, New
    <2>3. Renews(T, T)
      BY <1>2 DEF Answers, Renews
    <2>4. T <= service'.sequence
      BY <1>1, <1>2 DEF Answers
    <2> QED
      BY <2>1, <2>2, <2>3, <2>4, RenewedBy DEF Grows
  <1>3. CASE Publishes
    <2>1. PICK n, N : Grows(N) /\ \A m \in N : Published(m, n)
      BY <1>3 DEF Publishes
    <2>2. \A m \in N : NewMessage(m, T)'
      BY <1>1, <1>3, <2>1 DEF Published, NewMessage, IsRead
    <2>3. Renews(T, T)
      BY <1>3 DEF Publishes, Renews
    <2>4. T <= service'.sequence
      BY <1>1, <1>3 DEF Publishes
    <2> QED
      BY <2>1, <2>2, <2>3, <2>4, RenewedBy DEF Grows
  <1>4. CASE Turns
    <2>1. PICK N : Grows(N) /\ \A m \in N : m.kind = "owner" \/ (m.kind = "reply" /\ m.error)
      BY <1>4 DEF Turns
    <2>2. \A m \in N : NewMessage(m, 0)'
      BY <2>1 DEF NewMessage, IsRead
    <2>3. Renews(T, 0) /\ 0 <= service'.sequence
      BY <1>4 DEF Turns, Renews
    <2> QED
      BY <2>1, <2>2, <2>3, RenewedBy DEF Grows
  <1>5. CASE Writes
    <2>1. PICK n \in Nat : /\ service.sequence < n /\ service'.sequence = n
                           /\ \E N : Grows(N) /\ \A m \in N : Announced(m, n)
      BY <1>5 DEF Writes
    <2>2. PICK N : Grows(N) /\ \A m \in N : Announced(m, n)
      BY <2>1
    <2>3. \A m \in N : NewMessage(m, n)'
      BY <2>1, <2>2 DEF Announced, NewMessage, IsRead, New
    <2>4. Renews(T, n) /\ n <= service'.sequence
      BY <1>5, <2>1 DEF Writes, Renews
    <2> QED
      BY <2>2, <2>3, <2>4, RenewedBy DEF Grows
  <1>6. CASE Loses
    <2>1. \A i \in DOMAIN inbox' : \E j \in DOMAIN inbox : inbox'[i] = inbox[j]
      BY <1>6, LossLeavesOld
    <2>2. Renews(T, T) /\ T <= service'.sequence
      BY <1>1, <1>6 DEF Loses, Renews
    <2>3. PICK N : N = {}
      OBVIOUS
    <2>4. \A m \in N : NewMessage(m, T)'
      BY <2>3
    <2>5. \A i \in DOMAIN inbox' : (\E j \in DOMAIN inbox : inbox'[i] = inbox[j]) \/ inbox'[i] \in N
      BY <2>1
    <2> QED
      BY <2>2, <2>4, <2>5, RenewedBy
  <1> QED
    BY <1>2, <1>3, <1>4, <1>5, <1>6 DEF Step

LEMMA ServiceKeepsToast ==
    ASSUME ToastInv, ServiceTurn \/ EnvironmentTurn PROVE ToastInv'
  <1>1. CommonInv' /\ Step
    BY CommonStays DEF ToastInv
  <1>2. client' = client /\ kind' = kind
    BY DEF ServiceTurn, EnvironmentTurn, clientOnly
  <1>3. IsObject(client)'
    BY <1>1, <1>2, ObjectStays DEF ToastInv
  <1>4. IsToast(client)'
    <2>1. IsToast(client) /\ BusKnown /\ BusKnown'
      BY <1>1 DEF ToastInv, CommonInv, ServiceInv
    <2>2. PICK o, n : o = client.eventOwner /\ n = client.lastObservedSequence
      OBVIOUS
    <2>3. o # NoOwner => Signs(o, n)'
      BY <1>1, <2>1, <2>2, SignatureStays DEF IsToast
    <2>4. client'.eventOwner = o /\ client'.lastObservedSequence = n
      BY <1>2, <2>2
    <2> QED
      BY <1>2, <2>1, <2>2, <2>3, <2>4 DEF IsToast, Signs
  <1>5. PICK T \in Nat : Current(T)
    BY DEF ToastInv
  <1>6. \E next \in Nat : Current(next)'
    BY <1>1, <1>2, <1>5, CurrentStays DEF ToastInv
  <1> QED
    BY <1>1, <1>2, <1>3, <1>4, <1>6 DEF ToastInv
-----------------------------------------------------------------------------
(* A listener takes the first message.                                     *)

LEMMA LeftNew ==
    ASSUME CommonInv, NEW listener \in {"readiness", "client"}, Arrives(listener),
           NEW T \in Nat, MessagesNew(inbox, T)
    PROVE  MessagesNew(InboxAfter(listener), T) /\ NewMessage(inbox[1], T)
  <1>1. PICK ms : ms = InboxAfter(listener)
    OBVIOUS
  <1>2. Shrunk(ms) /\ inbox # <<>> /\ IsSeq(inbox) /\ 1 \in DOMAIN inbox
    BY <1>1, InboxShrinks, QueuesAreSeqs DEF CommonInv, ServiceInv
  <1>3. CASE ms = Tail(inbox)
    BY <1>1, <1>2, <1>3, SeqTail DEF MessagesNew
  <1>4. CASE \E x : ms = [inbox EXCEPT ![1] = x] /\ SameNews(x, inbox[1])
    <2>1. PICK x : ms = [inbox EXCEPT ![1] = x] /\ SameNews(x, inbox[1])
      BY <1>4
    <2>2. NewMessage(x, T)
      <3>1. PICK m : m = inbox[1]
        OBVIOUS
      <3>2. NewMessage(m, T) /\ SameNews(x, m)
        BY <1>2, <2>1, <3>1 DEF MessagesNew
      <3> QED
        BY <3>2 DEF NewMessage, SameNews, IsRead
    <2>3. \A i \in DOMAIN ms : i \in DOMAIN inbox /\ (ms[i] = x \/ ms[i] = inbox[i])
      BY <1>2, <2>1, SeqExcept
    <2> QED
      BY <1>1, <1>2, <2>2, <2>3 DEF MessagesNew
  <1> QED
    BY <1>2, <1>3, <1>4 DEF Shrunk

-----------------------------------------------------------------------------
(* The client, while it handles something.                                 *)

Fair(w, ms) == Good(w, ms) /\ IsToast(w.c)
Sound(w, ms, T) == Fair(w, ms) /\ CopyIsNew(w.c, T)
Keeps(w, u, ms, T) == Sound(u, ms, T) /\ u.c.pending = w.c.pending

\* u waits for what w waits for.
Like(w, u) ==
    /\ DOMAIN u = {"r", "c", "calls"} /\ u.r = w.r /\ u.calls = w.calls
    /\ DOMAIN u.c = ToastMembers
    /\ u.c.ownerEpoch = w.c.ownerEpoch /\ u.c.requestInFlight = w.c.requestInFlight
    /\ u.c.pending = w.c.pending /\ u.c.refreshPending \in BOOLEAN

LEMMA WorldMembers ==
    ASSUME NEW w, NEW ms, Fair(w, ms)
    PROVE  /\ DOMAIN w = {"r", "c", "calls"} /\ DOMAIN w.c = ToastMembers
           /\ w.c.requestInFlight \in BOOLEAN /\ w.c.refreshPending \in BOOLEAN
           /\ w.c.ownerEpoch \in Nat
           /\ w.c.eventOwner \in Owners /\ w.c.lastObservedSequence \in Nat
           /\ w.c.eventOwner # NoOwner => Signs(w.c.eventOwner, w.c.lastObservedSequence)
           /\ IsCopy(w.c.copy)
  BY DEF Fair, Good, IsWorld, IsToast, IsObject

LEMMA LikeIsFair ==
    ASSUME NEW w, NEW ms, Fair(w, ms), NEW u, Like(w, u), IsCopy(u.c.copy),
           u.c.eventOwner \in Owners, u.c.lastObservedSequence \in Nat,
           u.c.eventOwner # NoOwner => Signs(u.c.eventOwner, u.c.lastObservedSequence)
    PROVE  Fair(u, ms)
  <1>1. IsObject(u.c) /\ IsToast(u.c)
    BY WorldMembers DEF Like, IsObject, Members, ToastMembers, IsToast
  <1>2. Quiet(w, u)
    BY <1>1 DEF Like, Quiet
  <1> QED
    BY <1>1, <1>2, QuietIsGood DEF Fair

\* A client without a copy has none that is out of date.
LEMMA DropIsSound ==
    ASSUME NEW w, NEW ms, Fair(w, ms), NEW T
    PROVE  /\ Keeps(w, Drop(w), ms, T) /\ Fair(Drop(w), ms)
           /\ Drop(w).c.requestInFlight = w.c.requestInFlight
           /\ Drop(w).r = w.r
  <1> DEFINE u == Drop(w)
  <1>1. DOMAIN w = {"r", "c", "calls"} /\ DOMAIN w.c = ToastMembers
        /\ w.c.refreshPending \in BOOLEAN
    BY WorldMembers
  <1>2. /\ DOMAIN u = {"r", "c", "calls"} /\ u.r = w.r /\ u.calls = w.calls
        /\ DOMAIN u.c = ToastMembers /\ u.c.copy = NoCopy
        /\ \A other \in ToastMembers : other # "copy" => u.c[other] = w.c[other]
    BY <1>1 DEF Drop, ToastMembers
  <1> HIDE DEF u
  <1>3. Like(w, u) /\ u.c.eventOwner = w.c.eventOwner
        /\ u.c.lastObservedSequence = w.c.lastObservedSequence
    BY <1>1, <1>2 DEF Like, ToastMembers
  <1>4. Fair(u, ms)
    BY <1>2, <1>3, WorldMembers, CopyIsDropped, LikeIsFair
  <1>5. Keeps(w, u, ms, T)
    BY <1>2, <1>3, <1>4, CopyIsDropped DEF Keeps, Sound, CopyIsNew, Like
  <1> QED
    BY <1>3, <1>4, <1>5 DEF Like, u

\* An idle client asks, with the copy it has or without.
Asks(w, u, call) ==
    /\ DOMAIN u = {"r", "c", "calls"} /\ u.r = w.r /\ u.calls = Append(w.calls, call)
    /\ DOMAIN u.c = ToastMembers /\ u.c.requestInFlight
    /\ {u.c.requestInFlight, u.c.refreshPending} \subseteq BOOLEAN
    /\ u.c.ownerEpoch = w.c.ownerEpoch /\ u.c.pending = w.c.pending
    /\ u.c.eventOwner = w.c.eventOwner /\ u.c.lastObservedSequence = w.c.lastObservedSequence
    /\ u.c.copy \in {w.c.copy, NoCopy}

LEMMA AskingIsSound ==
    ASSUME IsSeq(calls), NEW w, NEW ms, NEW T, Sound(w, ms, T), ~w.c.requestInFlight, NEW call,
           call.method \in {"Get", "Set"}, call.from = "client", call.epoch = w.c.ownerEpoch,
           AttemptOf(call, w.c.pending), NEW u, Asks(w, u, call)
    PROVE  Keeps(w, u, ms, T)
  <1>1. Fair(w, ms) /\ CopyIsNew(w.c, T)
    BY DEF Sound
  <1>2. IsCopy(u.c.copy)
    BY <1>1, WorldMembers, CopyIsDropped DEF Asks
  <1>3. IsObject(u.c) /\ IsToast(u.c)
    BY <1>1, <1>2, WorldMembers DEF Asks, IsObject, Members, ToastMembers, IsToast
  <1>4. Good(u, ms)
    <2>1. Good(w, ms)
      BY <1>1 DEF Fair
    <2>2. u.c.requestInFlight /\ DOMAIN u = {"r", "c", "calls"}
          /\ u.r = w.r /\ u.calls = Append(w.calls, call)
          /\ u.c.ownerEpoch = w.c.ownerEpoch /\ u.c.pending = w.c.pending
      BY DEF Asks
    <2> QED
      BY <1>3, <2>1, <2>2, RequestKeeps
  <1>5. CopyIsNew(u.c, T)
    BY <1>1, CopyIsDropped DEF Asks, CopyIsNew
  <1> QED
    BY <1>3, <1>4, <1>5 DEF Keeps, Sound, Fair, Asks
-----------------------------------------------------------------------------
(* What the handlers are built from.                                       *)

\* A flag that says whether to ask again changes nothing else.
LEMMA FlagKeeps ==
    ASSUME NEW w, NEW ms, NEW T, Sound(w, ms, T), NEW b \in BOOLEAN
    PROVE  LET u == [w EXCEPT !.c.refreshPending = b]
           IN  Keeps(w, u, ms, T) /\ u.c.requestInFlight = w.c.requestInFlight /\ u.r = w.r
  <1> DEFINE u == [w EXCEPT !.c.refreshPending = b]
  <1>1. Fair(w, ms) /\ DOMAIN w = {"r", "c", "calls"} /\ DOMAIN w.c = ToastMembers
    BY WorldMembers DEF Sound
  <1>2. /\ Like(w, u) /\ u.c.copy = w.c.copy /\ u.c.eventOwner = w.c.eventOwner
        /\ u.c.lastObservedSequence = w.c.lastObservedSequence
    BY <1>1 DEF Like, ToastMembers
  <1> HIDE DEF u
  <1>3. Fair(u, ms)
    BY <1>1, <1>2, WorldMembers, LikeIsFair
  <1>4. Keeps(w, u, ms, T) /\ u.c.requestInFlight = w.c.requestInFlight /\ u.r = w.r
    BY <1>2, <1>3 DEF Keeps, Sound, CopyIsNew, Like
  <1> QED
    BY <1>4 DEF u

LEMMA RequestSnapshotKeeps ==
    ASSUME IsSeq(calls), NEW w, NEW ms, NEW T, Sound(w, ms, T)
    PROVE  Keeps(w, RequestSnapshot(w), ms, T)
  <1> DEFINE yes == TRUE
             call == GetCall(w.c)
             later == [w EXCEPT !.c.refreshPending = yes]
             now == [w EXCEPT !.c.requestInFlight = TRUE, !.c.refreshPending = FALSE,
                              !.calls = Append(@, call)]
  <1>1. \/ RequestSnapshot(w) = later \/ RequestSnapshot(w) = w
        \/ ~w.c.requestInFlight /\ RequestSnapshot(w) = now
    BY Zenon DEF RequestSnapshot
  <1>2. Keeps(w, w, ms, T)
    BY DEF Keeps
  <1>3. Keeps(w, later, ms, T)
    <2>1. yes \in BOOLEAN
      OBVIOUS
    <2> HIDE DEF yes
    <2> QED
      BY <2>1, FlagKeeps
  <1>4. ASSUME ~w.c.requestInFlight PROVE Keeps(w, now, ms, T)
    <2>1. DOMAIN w = {"r", "c", "calls"} /\ DOMAIN w.c = ToastMembers
      BY WorldMembers DEF Sound
    <2>2. call.method \in {"Get", "Set"} /\ call.from = "client" /\ call.epoch = w.c.ownerEpoch
          /\ AttemptOf(call, w.c.pending)
      BY DEF GetCall, AttemptOf
    <2> HIDE DEF call
    <2>3. Asks(w, now, call)
      BY <2>1 DEF Asks, ToastMembers
    <2> HIDE DEF now
    <2> QED
      BY <1>4, <2>2, <2>3, AskingIsSound
  <1> QED
    BY <1>1, <1>2, <1>3, <1>4

LEMMA RefreshToastKeeps ==
    ASSUME IsSeq(calls), NEW w, NEW ms, NEW T, Sound(w, ms, T)
    PROVE  Keeps(w, RefreshToast(w), ms, T)
  BY RequestSnapshotKeeps, DropIsSound DEF RefreshToast, Sound

\* Whatever the copy was, it goes.
LEMMA RereadKeeps ==
    ASSUME IsSeq(calls), NEW w, NEW ms, NEW T, Fair(w, ms)
    PROVE  Keeps(w, Reread(w), ms, T)
  <1>1. PICK u : u = Drop(w)
    OBVIOUS
  <1>2. Sound(u, ms, T) /\ u.c.pending = w.c.pending
    BY <1>1, DropIsSound DEF Keeps
  <1>3. Keeps(u, RefreshToast(u), ms, T)
    BY <1>2, RefreshToastKeeps
  <1> QED
    BY <1>1, <1>2, <1>3 DEF Keeps, Reread

LEMMA ResumedKeeps ==
    ASSUME IsSeq(calls), NEW w, NEW ms, NEW T, Sound(w, ms, T), NEW again
    PROVE  Keeps(w, Resumed(w, again), ms, T)
  <1> DEFINE no == FALSE
             u == [w EXCEPT !.c.refreshPending = no]
  <1>1. no \in BOOLEAN
    OBVIOUS
  <1>2. Resumed(w, again) = RequestSnapshot(u) \/ Resumed(w, again) = w
    BY DEF Resumed
  <1> HIDE DEF no
  <1>3. Keeps(w, u, ms, T)
    BY <1>1, FlagKeeps
  <1> HIDE DEF u
  <1>4. Keeps(u, RequestSnapshot(u), ms, T)
    BY <1>3, RequestSnapshotKeeps DEF Keeps
  <1> QED
    BY <1>2, <1>3, <1>4 DEF Keeps

\* An attempt leaves for the pending operation, with the arguments of the
\* first, and takes the copy with it.
LEMMA SubmitPendingMutationKeeps ==
    ASSUME IsSeq(calls), NEW w, NEW ms, NEW T, Sound(w, ms, T)
    PROVE  Keeps(w, SubmitPendingMutation(w), ms, T)
  <1> DEFINE call == SetCall(w.c)
             u == [w EXCEPT !.c.requestInFlight = TRUE, !.c.copy = NoCopy, !.calls = Append(@, call)]
  <1>1. \/ SubmitPendingMutation(w) = w
        \/ /\ w.c.pending # NoOperation /\ ~w.c.requestInFlight
           /\ SubmitPendingMutation(w) = u
    BY Zenon DEF SubmitPendingMutation
  <1>2. ASSUME w.c.pending # NoOperation, ~w.c.requestInFlight PROVE Keeps(w, u, ms, T)
    <2>1. DOMAIN w = {"r", "c", "calls"} /\ DOMAIN w.c = ToastMembers
          /\ w.c.refreshPending \in BOOLEAN
      BY WorldMembers DEF Sound
    <2>2. call.method \in {"Get", "Set"} /\ call.from = "client" /\ call.epoch = w.c.ownerEpoch
          /\ AttemptOf(call, w.c.pending)
      BY <1>2 DEF SetCall, AttemptOf
    <2> HIDE DEF call
    <2>3. Asks(w, u, call)
      BY <2>1 DEF Asks, ToastMembers
    <2> HIDE DEF u
    <2> QED
      BY <1>2, <2>2, <2>3, AskingIsSound
  <1> QED
    BY <1>1, <1>2 DEF Keeps

LEMMA ReadinessRefreshKeeps ==
    ASSUME IsSeq(calls), NEW w, NEW ms, NEW T, Sound(w, ms, T)
    PROVE  Keeps(w, RefreshReadiness(w), ms, T)
  <1>1. PICK u : u = RefreshReadiness(w)
    OBVIOUS
  <1>2. Good(u, ms) /\ u.c = w.c
    BY <1>1, RefreshKeeps DEF Sound, Fair
  <1> QED
    BY <1>1, <1>2 DEF Keeps, Sound, Fair

-----------------------------------------------------------------------------
(* Answers and events.                                                     *)

\* The copy that an answer brings.
LEMMA CopiedKeeps ==
    ASSUME NEW w, NEW ms, NEW T, Fair(w, ms), NEW a, a.owner \in Owners, a.sequence \in Nat,
           a.value \in Nat, a.revision \in Nat, Reading(a), New(a, T)
    PROVE  Keeps(w, Copied(w, a), ms, T)
  <1> DEFINE u == Copied(w, a)
             x == [ready |-> TRUE, owner |-> a.owner, sequence |-> a.sequence,
                   value |-> a.value, revision |-> a.revision]
  <1>1. DOMAIN w = {"r", "c", "calls"} /\ DOMAIN w.c = ToastMembers
        /\ w.c.refreshPending \in BOOLEAN
    BY WorldMembers
  <1>2. IsCopy(x) /\ New(x, T) /\ x.owner = a.owner /\ x.sequence = a.sequence
    BY DEF IsCopy, Copies, Reading, Signs, New
  <1>3. Like(w, u) /\ u.c.copy = x /\ u.c.eventOwner = a.owner
        /\ u.c.lastObservedSequence = a.sequence
    BY <1>1 DEF Copied, Like, ToastMembers
  <1> HIDE DEF u, x
  <1>4. Fair(u, ms)
    BY <1>2, <1>3, LikeIsFair DEF Reading
  <1>5. CopyIsNew(u.c, T)
    <2>1. a.sequence <= a.sequence /\ (a.sequence < T => a.sequence < T)
      OBVIOUS
    <2> QED
      BY <1>2, <1>3, <2>1 DEF CopyIsNew
  <1>6. Keeps(w, u, ms, T)
    BY <1>3, <1>4, <1>5 DEF Keeps, Sound, Like
  <1> QED
    BY <1>6 DEF u

IsHeard(e) ==
    /\ e.kind \in {"event", "value"} /\ e.owner \in Owners /\ e.sequence \in Nat
    /\ e.owner.uuid # 0 /\ Signs(e.owner, e.sequence)
    /\ e.kind = "value" => e.value \in Nat /\ e.revision \in Nat /\ Reading(e)

\* u has heard e: the owner and the number are those of e.
Hears(w, u, e) ==
    /\ Like(w, u) /\ u.c.copy = w.c.copy
    /\ u.c.eventOwner = e.owner /\ u.c.lastObservedSequence = e.sequence

LEMMA HearingIsFair ==
    ASSUME NEW w, NEW ms, Fair(w, ms), NEW e, IsHeard(e), NEW u, Hears(w, u, e)
    PROVE  Fair(u, ms)
  <1>1. IsCopy(u.c.copy)
    BY WorldMembers DEF Hears
  <1> QED
    BY <1>1, LikeIsFair DEF Hears, IsHeard

\* The announced value becomes the copy of a client that has heard it.
LEMMA TakenKeeps ==
    ASSUME NEW w, NEW ms, NEW T, Fair(w, ms), NEW e, IsHeard(e), e.kind = "value", New(e, T),
           w.c.copy.ready, w.c.copy.owner = e.owner, w.c.eventOwner = e.owner,
           w.c.lastObservedSequence = e.sequence
    PROVE  Keeps(w, Taken(w, e), ms, T)
  <1> DEFINE u == Taken(w, e)
             x == [w.c.copy EXCEPT !.value = e.value, !.revision = e.revision,
                                   !.sequence = e.sequence]
  <1>1. DOMAIN w = {"r", "c", "calls"} /\ DOMAIN w.c = ToastMembers
        /\ w.c.refreshPending \in BOOLEAN /\ w.c.copy \in Copies
    BY WorldMembers DEF IsCopy
  <1>2. /\ x \in Copies /\ x.owner = e.owner /\ x.sequence = e.sequence /\ x.value = e.value
        /\ x.revision = e.revision
    BY <1>1 DEF Copies, IsHeard
  <1>3. IsCopy(x) /\ New(x, T)
    <2> HIDE DEF x
    <2> QED
      BY <1>2 DEF IsHeard, IsCopy, Reading, New
  <1>4. Like(w, u) /\ u.c.copy = x /\ u.c.eventOwner = w.c.eventOwner
        /\ u.c.lastObservedSequence = w.c.lastObservedSequence
    BY <1>1 DEF Taken, Like, ToastMembers
  <1> HIDE DEF u, x
  <1>5. Fair(u, ms)
    BY <1>3, <1>4, LikeIsFair, WorldMembers
  <1>6. CopyIsNew(u.c, T)
    <2>1. e.sequence <= e.sequence /\ (e.sequence < T => e.sequence < T)
      BY DEF IsHeard
    <2> QED
      BY <1>2, <1>3, <1>4, <2>1 DEF CopyIsNew
  <1>7. Keeps(w, u, ms, T)
    BY <1>4, <1>5, <1>6 DEF Keeps, Sound, Like
  <1> QED
    BY <1>7 DEF u

\* The next event after the last that was heard, of another subject: a copy
\* that a change has put out of date has not heard of that change either.
LEMMA NextIsSound ==
    ASSUME NEW w, NEW ms, NEW T \in Nat, Sound(w, ms, T), NEW e, IsHeard(e), NewMessage(e, T),
           e.kind = "event", e.subject # "toast", w.c.copy.ready => w.c.eventOwner = e.owner,
           e.sequence = w.c.lastObservedSequence + 1, NEW u, Hears(w, u, e)
    PROVE  /\ Keeps(w, u, ms, T)
           /\ w.c.copy.ready => Keeps(w, [u EXCEPT !.c.copy.sequence = e.sequence], ms, T)
  <1> DEFINE last == w.c.lastObservedSequence
             y == w.c.copy
  <1>1. Fair(w, ms) /\ last \in Nat /\ IsCopy(y) /\ CopyIsNew(w.c, T)
    BY WorldMembers DEF Sound
  <1>2. e.owner.uuid = service.owner.uuid => e.sequence # T
    BY DEF NewMessage
  <1>3. y.ready => /\ New(y, T) /\ y.owner = e.owner /\ y.sequence <= last /\ y.sequence \in Nat
                   /\ y.owner.uuid = service.owner.uuid /\ y.sequence < T => last < T
    BY <1>1 DEF CopyIsNew, IsCopy, Copies
  <1>4. Fair(u, ms)
    BY <1>1, HearingIsFair
  <1> HIDE DEF last, y
  <1>5. Keeps(w, u, ms, T)
    <2>1. u.c.copy = y /\ u.c.eventOwner = e.owner /\ u.c.lastObservedSequence = last + 1
          /\ u.c.pending = w.c.pending
      BY DEF Hears, Like, y, last
    <2>2. e.sequence = last + 1
      BY DEF last
    <2> QED
      BY <1>1, <1>2, <1>3, <1>4, <2>1, <2>2 DEF Keeps, Sound, CopyIsNew
  <1>6. ASSUME y.ready PROVE Keeps(w, [u EXCEPT !.c.copy.sequence = e.sequence], ms, T)
    <2> DEFINE v == [u EXCEPT !.c.copy.sequence = e.sequence]
               x == [y EXCEPT !.sequence = e.sequence]
    <2>1. /\ DOMAIN u = {"r", "c", "calls"} /\ DOMAIN u.c = ToastMembers /\ u.c.copy = y
          /\ u.c.refreshPending \in BOOLEAN
      BY <1>4, WorldMembers DEF Hears, y
    <2>2. y \in Copies /\ Reading(y)
      BY <1>1, <1>6 DEF IsCopy
    <2>3. /\ x \in Copies /\ x.owner = y.owner /\ x.sequence = e.sequence /\ x.value = y.value
          /\ x.revision = y.revision /\ x.ready = y.ready
      BY <2>2 DEF Copies, IsHeard
    <2>4. Like(u, v) /\ v.c.copy = x /\ v.c.eventOwner = u.c.eventOwner
          /\ v.c.lastObservedSequence = u.c.lastObservedSequence
      BY <2>1 DEF Like, ToastMembers
    <2> HIDE DEF v, x
    <2>5. IsCopy(x)
      BY <1>3, <1>6, <2>2, <2>3 DEF IsCopy, Reading, IsHeard
    <2>6. Fair(v, ms)
      BY <1>4, <2>4, <2>5, LikeIsFair, WorldMembers
    <2>7. CopyIsNew(v.c, T)
      <3>1. v.c.copy = x /\ v.c.eventOwner = x.owner /\ v.c.lastObservedSequence = e.sequence
            /\ x.sequence = e.sequence /\ e.sequence \in Nat
        BY <1>3, <1>6, <2>3, <2>4 DEF Hears, IsHeard
      <3>2. New(x, T)
        <4>1. e.sequence = last + 1
          BY DEF last
        <4> QED
          BY <1>1, <1>2, <1>3, <1>6, <2>3, <4>1 DEF New
      <3> QED
        BY <3>1, <3>2 DEF CopyIsNew
    <2>8. Keeps(w, v, ms, T)
      BY <2>4, <2>6, <2>7 DEF Keeps, Sound, Like, Hears
    <2> QED
      BY <2>8 DEF v
  <1> QED
    BY <1>5, <1>6 DEF y


\* A client with a copy has heard its owner.
LEMMA CopyIsOwned ==
    ASSUME NEW w, NEW ms, NEW T, Sound(w, ms, T), w.c.copy.ready, NEW e,
           w.c.eventOwner \in {NoOwner, e.owner}
    PROVE  w.c.eventOwner = e.owner /\ w.c.copy.owner = e.owner
  <1>1. IsCopy(w.c.copy)
    BY WorldMembers DEF Sound
  <1>2. w.c.copy.owner.uuid # 0 /\ w.c.eventOwner = w.c.copy.owner
    BY <1>1 DEF IsCopy, Reading, Sound, CopyIsNew
  <1>3. w.c.eventOwner # NoOwner
    BY <1>2 DEF NoOwner
  <1> QED
    BY <1>2, <1>3

\* The number that was heard last comes again, with the value or without.
LEMMA RepeatedKeeps ==
    ASSUME IsSeq(calls), NEW w, NEW ms, NEW T, Sound(w, ms, T), NEW e, IsHeard(e),
           New(e, T) \/ e.kind = "event", w.c.eventOwner = e.owner, e.sequence = w.c.lastObservedSequence
    PROVE  Keeps(w, ObserveRepeatedNumber(w, e), ms, T)
  <1>1. \/ ObserveRepeatedNumber(w, e) = w \/ ObserveRepeatedNumber(w, e) = Reread(w)
        \/ /\ HasValue(e) /\ Continues(w, e)
           /\ ObserveRepeatedNumber(w, e) = Taken(w, e)
    BY Zenon DEF ObserveRepeatedNumber
  <1>2. Keeps(w, w, ms, T) /\ Keeps(w, Reread(w), ms, T) /\ Fair(w, ms)
    BY RereadKeeps DEF Keeps, Sound
  <1>3. ASSUME HasValue(e), Continues(w, e) PROVE Keeps(w, Taken(w, e), ms, T)
    <2>1. w.c.copy.ready /\ e.kind = "value" /\ New(e, T)
      BY <1>3 DEF HasValue, Continues
    <2>2. w.c.copy.owner = e.owner
      BY <2>1, CopyIsOwned
    <2> QED
      BY <1>2, <2>1, <2>2, TakenKeeps
  <1> QED
    BY <1>1, <1>2, <1>3

\* A new number: w is not changed yet but for the owner of the events.
LEMMA NewNumberKeeps ==
    ASSUME IsSeq(calls), NEW w, NEW ms, NEW T \in Nat, Sound(w, ms, T), NEW e, IsHeard(e),
           NewMessage(e, T), e.kind = "value" => New(e, T), w.c.eventOwner = e.owner
    PROVE  Keeps(w, ObserveNewNumber(w, e), ms, T)
  <1> DEFINE flag == w.c.refreshPending \/ w.c.requestInFlight
             heard == [w EXCEPT !.c.lastObservedSequence = e.sequence,
                                !.c.refreshPending = flag]
             moved == [heard EXCEPT !.c.copy.sequence = e.sequence]
             result == ObserveNewNumber(w, e)
  <1>1. DOMAIN w = {"r", "c", "calls"} /\ DOMAIN w.c = ToastMembers /\ Fair(w, ms)
    BY WorldMembers DEF Sound
  <1>2. flag \in BOOLEAN
    BY Zenon
  <1>3. result = IF IsGap(w, e) THEN Reread(heard)
                 ELSE IF HasValue(e)
                      THEN (IF Continues(w, e) THEN Taken(heard, e) ELSE Reread(heard))
                 ELSE IF AboutToast(e) THEN Reread(heard)
                 ELSE IF w.c.copy.ready /\ Matches(w, e.owner) THEN moved ELSE heard
    <2>1. [w EXCEPT !.c.lastObservedSequence = e.sequence,
                    !.c.refreshPending = @ \/ w.c.requestInFlight] = heard
      BY <1>1 DEF ToastMembers
    <2> QED
      BY <2>1, Zenon DEF ObserveNewNumber
  <1> HIDE DEF flag
  <1>4. Hears(w, heard, e)
    BY <1>1, <1>2 DEF Hears, Like, ToastMembers
  <1> HIDE DEF heard
  <1>5. Fair(heard, ms) /\ heard.c.pending = w.c.pending
    BY <1>1, <1>4, HearingIsFair DEF Hears, Like
  <1>6. Keeps(w, Reread(heard), ms, T)
    BY <1>5, RereadKeeps DEF Keeps
  <1>7. ASSUME HasValue(e), Continues(w, e) PROVE Keeps(w, Taken(heard, e), ms, T)
    <2>1. w.c.copy.ready /\ e.kind = "value"
      BY <1>7 DEF HasValue, Continues
    <2>2. w.c.copy.owner = e.owner
      BY <2>1, CopyIsOwned
    <2>3. heard.c.copy = w.c.copy /\ heard.c.eventOwner = e.owner
          /\ heard.c.lastObservedSequence = e.sequence
      BY <1>4 DEF Hears
    <2>4. heard.c.copy.ready /\ heard.c.copy.owner = e.owner /\ New(e, T)
      BY <2>1, <2>2, <2>3
    <2>5. Keeps(heard, Taken(heard, e), ms, T)
      BY <1>5, <2>1, <2>3, <2>4, TakenKeeps
    <2> QED
      BY <1>5, <2>5 DEF Keeps
  <1>8. ASSUME ~IsGap(w, e), ~AboutToast(e)
        PROVE  /\ Keeps(w, heard, ms, T)
               /\ w.c.copy.ready => Keeps(w, moved, ms, T)
    <2>1. e.sequence = w.c.lastObservedSequence + 1 /\ e.kind = "event" /\ e.subject # "toast"
      BY <1>8 DEF IsGap, AboutToast, HasValue, IsHeard
    <2> QED
      BY <1>4, <2>1, NextIsSound
  <1> HIDE DEF moved
  <1>9. \/ result = Reread(heard)
        \/ HasValue(e) /\ Continues(w, e) /\ result = Taken(heard, e)
        \/ ~IsGap(w, e) /\ ~AboutToast(e) /\ result = heard
        \/ ~IsGap(w, e) /\ ~AboutToast(e) /\ w.c.copy.ready /\ result = moved
    <2> HIDE DEF result
    <2> QED
      BY <1>3, Zenon
  <1> HIDE DEF result
  <1>10. Keeps(w, result, ms, T)
    BY <1>6, <1>7, <1>8, <1>9
  <1> QED
    BY <1>10 DEF result

LEMMA ObserveEventKeeps ==
    ASSUME IsSeq(calls), service.sequence \in Nat, NEW w, NEW ms, NEW T \in Nat, Sound(w, ms, T),
           NEW e, IsHeard(e), NewMessage(e, T), e.kind = "value" => New(e, T)
    PROVE  Keeps(w, ObserveEvent(w, e), ms, T)
  <1> DEFINE named == [w EXCEPT !.c.eventOwner = e.owner]
             other == [named EXCEPT !.c.lastObservedSequence = e.sequence]
             result == ObserveEvent(w, e)
  <1>1. /\ DOMAIN w = {"r", "c", "calls"} /\ DOMAIN w.c = ToastMembers /\ Fair(w, ms)
        /\ w.c.refreshPending \in BOOLEAN /\ w.c.lastObservedSequence \in Nat
    BY WorldMembers DEF Sound
  <1>2. /\ Like(w, named) /\ named.c.copy = w.c.copy /\ named.c.eventOwner = e.owner
        /\ named.c.lastObservedSequence = w.c.lastObservedSequence
    BY <1>1 DEF Like, ToastMembers
  <1>3. Hears(w, other, e)
    BY <1>1 DEF Hears, Like, ToastMembers
  <1>4. \/ result = Reread(other) \/ result = w
        \/ /\ w.c.eventOwner \in {NoOwner, e.owner} /\ ~(e.sequence < w.c.lastObservedSequence)
           /\ e.sequence = w.c.lastObservedSequence /\ result = ObserveRepeatedNumber(named, e)
        \/ /\ w.c.eventOwner \in {NoOwner, e.owner} /\ ~(e.sequence < w.c.lastObservedSequence)
           /\ result = ObserveNewNumber(named, e)
    BY Zenon DEF ObserveEvent
  <1> HIDE DEF named, other, result
  <1>5. Keeps(w, Reread(other), ms, T)
    <2>1. Fair(other, ms)
      BY <1>1, <1>3, HearingIsFair
    <2> QED
      BY <1>3, <2>1, RereadKeeps DEF Keeps, Hears, Like
  <1>6. ASSUME w.c.eventOwner \in {NoOwner, e.owner}, ~(e.sequence < w.c.lastObservedSequence)
        PROVE  Keeps(w, named, ms, T)
    <2>1. Signs(e.owner, w.c.lastObservedSequence)
      BY <1>1, <1>6 DEF IsHeard, Signs
    <2>2. Fair(named, ms)
      <3>1. IsCopy(named.c.copy) /\ named.c.eventOwner \in Owners
            /\ named.c.lastObservedSequence \in Nat
            /\ Signs(named.c.eventOwner, named.c.lastObservedSequence)
        BY <1>1, <1>2, <2>1, WorldMembers DEF IsHeard
      <3> QED
        BY <1>1, <1>2, <3>1, LikeIsFair
    <2>3. CopyIsNew(named.c, T)
      <3>1. w.c.copy.ready => w.c.eventOwner = e.owner
        BY <1>6, CopyIsOwned
      <3>2. CopyIsNew(w.c, T)
        BY DEF Sound
      <3> QED
        BY <1>2, <3>1, <3>2 DEF CopyIsNew
    <2> QED
      BY <1>2, <2>2, <2>3 DEF Keeps, Sound, Like
  <1>7. ASSUME Keeps(w, named, ms, T)
        PROVE  /\ Keeps(w, ObserveNewNumber(named, e), ms, T)
               /\ e.sequence = w.c.lastObservedSequence =>
                    Keeps(w, ObserveRepeatedNumber(named, e), ms, T)
    <2>1. Sound(named, ms, T) /\ named.c.pending = w.c.pending
      BY <1>7 DEF Keeps
    <2>2. Keeps(named, ObserveNewNumber(named, e), ms, T)
      BY <1>2, <2>1, NewNumberKeeps
    <2>3. New(e, T) \/ e.kind = "event"
      BY DEF IsHeard
    <2>4. e.sequence = w.c.lastObservedSequence =>
                Keeps(named, ObserveRepeatedNumber(named, e), ms, T)
      BY <1>2, <2>1, <2>3, RepeatedKeeps
    <2> QED
      BY <2>1, <2>2, <2>4 DEF Keeps
  <1>8. Keeps(w, w, ms, T)
    BY DEF Keeps
  <1>9. Keeps(w, result, ms, T)
    BY <1>4, <1>5, <1>6, <1>7, <1>8
  <1> QED
    BY <1>9 DEF result

-----------------------------------------------------------------------------
(* The client handles a message: w is the world before, and ms the         *)
(* messages that are left.                                                 *)

Takes(w, ms) ==
    Arrives("client") /\ w = World(readiness, <<>>) /\ ms = InboxAfter("client")

\* What becomes of the pending operation p when the client takes m.
Decides(m, p, q) ==
    \/ q = p
    \/ /\ q = NoOperation
       /\ m.kind = "reply" /\ ~m.error /\ m.call.method = "Set"
       /\ m.answer.code # "BACKEND_UNAVAILABLE"
Finishes(u, m, ms, T) == Sound(u, ms, T) /\ Decides(m, client.pending, u.c.pending)

LEMMA KeepingFinishes ==
    ASSUME NEW w, NEW u, NEW m, NEW ms, NEW T, w.c.pending = client.pending, Keeps(w, u, ms, T)
    PROVE  Finishes(u, m, ms, T)
  BY DEF Keeps, Finishes, Decides

LEMMA TakenMessage ==
    ASSUME ToastInv, NEW T \in Nat, Current(T), NEW w, NEW ms, Takes(w, ms)
    PROVE  /\ w.c = client /\ DOMAIN w = {"r", "c", "calls"} /\ w.r = readiness /\ w.calls = <<>>
           /\ IsSeq(calls) /\ service.sequence \in Nat /\ NewMessage(inbox[1], T)
           /\ inbox # <<>> /\ 1 \in DOMAIN inbox
           /\ IsTyped(inbox[1]) /\ "client" \in inbox[1].to
           /\ inbox[1].kind \in {"owner", "event", "value", "reply"}
           /\ inbox[1].kind \in {"event", "value"} => IsHeard(inbox[1])
           /\ CopyIsNew(client, T) /\ MessagesNew(ms, T) /\ MessagesSigned(ms)
  <1>1. CommonInv /\ Arrives("client") /\ MessagesNew(inbox, T) /\ CopyIsNew(client, T)
    BY DEF ToastInv, Takes, Current
  <1>2. MessagesNew(ms, T) /\ NewMessage(inbox[1], T) /\ MessagesSigned(ms)
    BY <1>1, LeftNew, ReadinessKeepsWaiting DEF Takes
  <1>3. inbox # <<>> /\ 1 \in DOMAIN inbox /\ IsTyped(inbox[1]) /\ "client" \in inbox[1].to
        /\ inbox[1].kind \in {"owner", "event", "value", "reply"}
    BY <1>1, InboxShrinks, MessageIsTyped
  <1>4. inbox[1].kind \in {"event", "value"} => IsHeard(inbox[1])
    BY <1>1, <1>3, MessagesAreKnown, MessageIsTyped DEF ReadingMessage, IsHeard
  <1>5. IsSeq(calls) /\ service.sequence \in Nat
    BY <1>1, QueuesAreSeqs, KnownService DEF CommonInv, ServiceInv
  <1> QED
    BY <1>1, <1>2, <1>3, <1>4, <1>5, WorldIs DEF Takes

\* A message that is none of the answers it waits for.
LEMMA TakesNews ==
    ASSUME ToastInv, NEW T \in Nat, Current(T), NEW w, NEW ms, Takes(w, ms),
           ~Mine(inbox[1], "client", client.ownerEpoch)
    PROVE  Sound(w, ms, T) /\ Keeps(w, w, ms, T)
  <1>1. Good(w, ms)
    BY NewsBegins DEF ToastInv, Takes
  <1> QED
    BY <1>1, TakenMessage DEF ToastInv, Sound, Fair, Keeps

\* An answer of the present owner: u waits for nothing.
Freed(u) ==
    /\ DOMAIN u = {"r", "c", "calls"} /\ u.r = readiness /\ u.calls = <<>>
    /\ DOMAIN u.c = ToastMembers /\ u.c.ownerEpoch = client.ownerEpoch
    /\ ~u.c.requestInFlight /\ {u.c.requestInFlight, u.c.refreshPending} \subseteq BOOLEAN
    /\ u.c.copy \in {client.copy, NoCopy} /\ u.c.eventOwner = client.eventOwner
    /\ u.c.lastObservedSequence = client.lastObservedSequence

LEMMA TakesAnswer ==
    ASSUME ToastInv, NEW T \in Nat, Current(T), NEW w, NEW ms, Takes(w, ms),
           inbox[1].kind = "reply", inbox[1].call.epoch = client.ownerEpoch,
           NEW u, Freed(u), u.c.pending = client.pending \/ ~inbox[1].error
    PROVE  Sound(u, ms, T)
  <1>1. IsObject(client) /\ IsToast(client) /\ CommonInv /\ CopyIsNew(client, T)
    BY TakenMessage DEF ToastInv
  <1>2. Mine(inbox[1], "client", client.ownerEpoch)
    <2>1. IsTyped(inbox[1]) /\ "client" \in inbox[1].to
      BY TakenMessage
    <2>2. IsReply(inbox[1])
      BY <2>1 DEF IsTyped, IsNews
    <2> QED
      BY <2>1, <2>2 DEF IsReply, Mine
  <1>3. IsCopy(u.c.copy)
    BY <1>1, CopyIsDropped DEF Freed, IsObject
  <1>4. IsWorld(u) /\ IsToast(u.c)
    BY <1>1, <1>3 DEF Freed, IsWorld, IsObject, Members, ToastMembers, IsToast
  <1>5. Good(u, ms)
    <2>1. u.r = readiness /\ u.calls = <<>> /\ u.c.ownerEpoch = client.ownerEpoch
          /\ ~u.c.requestInFlight
      BY DEF Freed
    <2> QED
      BY <1>1, <1>2, <1>4, <2>1, AnswerBegins DEF Takes
  <1>6. CopyIsNew(u.c, T)
    BY <1>1, CopyIsDropped DEF CopyIsNew, Freed
  <1> QED
    BY <1>4, <1>5, <1>6 DEF Sound, Fair

LEMMA SnapshotFinishes ==
    ASSUME ToastInv, NEW T \in Nat, Current(T), NEW w, NEW ms, Takes(w, ms), NEW m, m = inbox[1],
           m.kind = "reply", m.call.method = "Get"
    PROVE  Finishes(FinishSnapshot(w, m), m, ms, T)
  <1> DEFINE off == FALSE
             idle == [w EXCEPT !.c.requestInFlight = off]
             again == w.c.refreshPending
             bare == Drop(idle)
             filled == Copied(idle, m.answer)
             result == FinishSnapshot(w, m)
  <1>1. w.c = client /\ IsSeq(calls) /\ NewMessage(m, T) /\ 1 \in DOMAIN inbox
    BY TakenMessage
  <1>2. CASE m.call.epoch # client.ownerEpoch
    <2>1. ~Mine(inbox[1], "client", client.ownerEpoch)
      BY <1>2 DEF Mine
    <2>2. result = w
      BY <1>1, <1>2, Zenon DEF FinishSnapshot
    <2> HIDE DEF result
    <2>3. Keeps(w, result, ms, T)
      BY <2>1, <2>2, TakesNews
    <2> QED
      BY <1>1, <2>3, KeepingFinishes DEF result
  <1>3. CASE m.call.epoch = client.ownerEpoch
    <2>1. off \in BOOLEAN /\ ~off
      OBVIOUS
    <2> HIDE DEF off
    <2>2. Freed(idle) /\ idle.c.pending = client.pending
      <3>1. DOMAIN w = {"r", "c", "calls"} /\ w.r = readiness /\ w.calls = <<>>
        BY TakenMessage
      <3>2. DOMAIN client = ToastMembers /\ client.refreshPending \in BOOLEAN
        BY DEF ToastInv, IsToast, IsObject
      <3> QED
        BY <1>1, <2>1, <3>1, <3>2 DEF Freed, ToastMembers
    <2>3. \/ result = w /\ m.call.epoch # w.c.ownerEpoch
          \/ result = Resumed(bare, again) \/ result = RefreshReadiness(bare) \/ result = bare
          \/ result = Resumed(idle, again)
          \/ ~m.error /\ m.answer.code = "OK" /\ result = SubmitPendingMutation(filled)
      BY Zenon DEF FinishSnapshot, off
    <2> HIDE DEF idle, again, bare, filled
    <2>4. Sound(idle, ms, T)
      BY <1>3, <2>2, TakesAnswer
    <2>5. Sound(bare, ms, T) /\ bare.c.pending = client.pending
      BY <2>2, <2>4, DropIsSound DEF bare, Keeps, Sound
    <2>6. ASSUME ~m.error, m.answer.code = "OK"
          PROVE  Sound(filled, ms, T) /\ filled.c.pending = client.pending
      <3>1. IsRead(m)
        BY <2>6 DEF IsRead
      <3>2. /\ m.answer.owner \in Owners /\ m.answer.sequence \in Nat /\ m.answer.value \in Nat
            /\ m.answer.revision \in Nat /\ Reading(m.answer)
        BY <1>1, <3>1, MessagesAreKnown, MessageIsTyped DEF ToastInv, ReadingMessage
      <3>3. New(m.answer, T)
        BY <1>1, <3>1 DEF NewMessage
      <3>4. PICK a : a = m.answer
        OBVIOUS
      <3>5. Keeps(idle, Copied(idle, a), ms, T)
        BY <2>4, <3>2, <3>3, <3>4, CopiedKeeps DEF Sound
      <3> QED
        BY <2>2, <3>4, <3>5 DEF Keeps, filled
    <2>7. /\ Keeps(bare, Resumed(bare, again), ms, T) /\ Keeps(bare, RefreshReadiness(bare), ms, T)
          /\ Keeps(bare, bare, ms, T) /\ Keeps(idle, Resumed(idle, again), ms, T)
      BY <1>1, <2>4, <2>5, ResumedKeeps, ReadinessRefreshKeeps DEF Keeps
    <2>8. ~m.error /\ m.answer.code = "OK" => Keeps(filled, SubmitPendingMutation(filled), ms, T)
      BY <1>1, <2>6, SubmitPendingMutationKeeps
    <2> HIDE DEF result
    <2>9. Finishes(result, m, ms, T)
      BY <1>1, <1>3, <2>2, <2>3, <2>5, <2>6, <2>7, <2>8, KeepingFinishes
    <2> QED
      BY <2>9 DEF result
  <1> QED
    BY <1>2, <1>3


LEMMA MutationFinishes ==
    ASSUME ToastInv, NEW T \in Nat, Current(T), NEW w, NEW ms, Takes(w, ms), NEW m, m = inbox[1],
           m.kind = "reply", m.call.method = "Set"
    PROVE  Finishes(FinishMutation(w, m), m, ms, T)
  <1> DEFINE off == FALSE
             idle == [w EXCEPT !.c.requestInFlight = off, !.c.refreshPending = off]
             decided == [idle EXCEPT !.c.pending = NoOperation, !.c.copy = NoCopy]
             result == FinishMutation(w, m)
  <1>1. w.c = client /\ IsSeq(calls)
    BY TakenMessage
  <1>2. CASE m.call.epoch # client.ownerEpoch
    <2>1. ~Mine(inbox[1], "client", client.ownerEpoch)
      BY <1>2 DEF Mine
    <2>2. result = w
      BY <1>1, <1>2, Zenon DEF FinishMutation
    <2> HIDE DEF result
    <2>3. Keeps(w, result, ms, T)
      BY <2>1, <2>2, TakesNews
    <2> QED
      BY <1>1, <2>3, KeepingFinishes DEF result
  <1>3. CASE m.call.epoch = client.ownerEpoch
    <2>1. off \in BOOLEAN /\ ~off
      OBVIOUS
    <2> HIDE DEF off
    <2>2. DOMAIN w = {"r", "c", "calls"} /\ w.r = readiness /\ w.calls = <<>>
          /\ DOMAIN client = ToastMembers
      BY TakenMessage DEF ToastInv, IsToast
    <2>3. Freed(idle) /\ idle.c.pending = client.pending
      BY <1>1, <2>1, <2>2 DEF Freed, ToastMembers
    <2>4. Freed(decided) /\ decided.c.pending = NoOperation
      <3> HIDE DEF idle
      <3> QED
        BY <2>3 DEF Freed, ToastMembers
    <2>5. \/ result = w /\ m.call.epoch # w.c.ownerEpoch
          \/ result = RequestSnapshot(idle) \/ result = RefreshToast(idle)
          \/ ~Undecided(m) /\ result = RefreshToast(decided)
      BY Zenon DEF FinishMutation, off
    <2> HIDE DEF idle, decided
    <2>6. Sound(idle, ms, T)
      BY <1>3, <2>3, TakesAnswer
    <2>7. ~Undecided(m) => ~m.error /\ m.answer.code # "BACKEND_UNAVAILABLE"
      BY DEF Undecided
    <2>8. ~m.error => Sound(decided, ms, T)
      BY <1>3, <2>4, TakesAnswer
    <2>9. Keeps(idle, RequestSnapshot(idle), ms, T) /\ Keeps(idle, RefreshToast(idle), ms, T)
      BY <1>1, <2>6, RequestSnapshotKeeps, RefreshToastKeeps
    <2>10. ~m.error => Keeps(decided, RefreshToast(decided), ms, T)
      BY <1>1, <2>8, RefreshToastKeeps
    <2> HIDE DEF result
    <2>11. CASE result = RequestSnapshot(idle) \/ result = RefreshToast(idle)
      <3>1. Sound(result, ms, T) /\ result.c.pending = client.pending
        BY <2>3, <2>9, <2>11 DEF Keeps
      <3> QED
        BY <3>1 DEF Finishes, Decides, result
    <2>12. CASE ~Undecided(m) /\ result = RefreshToast(decided)
      <3>1. Sound(result, ms, T) /\ result.c.pending = NoOperation
        BY <2>4, <2>7, <2>10, <2>12 DEF Keeps
      <3> QED
        BY <2>7, <2>12, <3>1 DEF Finishes, Decides, result
    <2> QED
      BY <1>1, <1>3, <2>5, <2>11, <2>12
  <1> QED
    BY <1>2, <1>3

\* A change of owner voids everything but the change of the user.
LEMMA OwnerFinishes ==
    ASSUME ToastInv, NEW T \in Nat, Current(T), NEW w, NEW ms, Takes(w, ms), NEW m, m = inbox[1],
           m.kind = "owner", NEW alive
    PROVE  Finishes(OnOwnerChanged(w, alive), m, ms, T)
  <1> DEFINE fresh == [w EXCEPT !.c = ForgottenToast(w.c)]
             result == OnOwnerChanged(w, alive)
  <1>1. /\ w.c = client /\ IsSeq(calls) /\ DOMAIN w = {"r", "c", "calls"} /\ w.r = readiness
        /\ w.calls = <<>>
    BY TakenMessage
  <1>2. CommonInv /\ IsObject(client) /\ Arrives("client") /\ client.ownerEpoch \in Nat
    BY DEF ToastInv, Takes, IsObject
  <1>3. /\ DOMAIN fresh = {"r", "c", "calls"} /\ fresh.r = readiness /\ fresh.calls = <<>>
        /\ DOMAIN fresh.c = ToastMembers
        /\ fresh.c.ownerEpoch = client.ownerEpoch + 1 /\ fresh.c.pending = client.pending
        /\ fresh.c.eventOwner = NoOwner /\ fresh.c.lastObservedSequence = 0
        /\ fresh.c.copy = NoCopy
        /\ fresh.c.requestInFlight = FALSE /\ fresh.c.refreshPending = FALSE
    BY <1>1 DEF ForgottenToast, NoToast, ToastMembers
  <1>4. result = RefreshReadiness(fresh) \/ result = fresh
    BY Zenon DEF OnOwnerChanged
  <1> HIDE DEF fresh, result
  <1>5. ~fresh.c.requestInFlight /\ fresh.c.requestInFlight \in BOOLEAN
        /\ fresh.c.refreshPending \in BOOLEAN
    BY <1>3, Zenon
  <1>6. IsWorld(fresh) /\ IsToast(fresh.c)
    <2>1. IsCopy(fresh.c.copy) /\ fresh.c.ownerEpoch \in Nat
      BY <1>2, <1>3, CopyIsDropped
    <2>2. NoOwner \in Owners
      BY KnownService DEF ToastInv, CommonInv, ServiceInv
    <2> QED
      BY <1>3, <1>5, <2>1, <2>2 DEF IsWorld, IsObject, Members, ToastMembers, IsToast
  <1>7. Good(fresh, ms)
    <2>1. inbox[1].kind # "reply"
      OBVIOUS
    <2>2. ms = InboxAfter("client")
      BY DEF Takes
    <2> QED
      BY <1>2, <1>3, <1>5, <1>6, <2>1, <2>2, ForgettingBegins
  <1>8. Sound(fresh, ms, T)
    BY <1>3, <1>6, <1>7, CopyIsDropped DEF Sound, Fair, CopyIsNew
  <1>9. Keeps(fresh, RefreshReadiness(fresh), ms, T)
    BY <1>1, <1>8, ReadinessRefreshKeeps
  <1>10. Sound(result, ms, T) /\ result.c.pending = client.pending
    BY <1>3, <1>4, <1>8, <1>9 DEF Keeps
  <1> QED
    BY <1>10 DEF Finishes, Decides, result

LEMMA MessageFinishes ==
    ASSUME ToastInv, NEW T \in Nat, Current(T), NEW w, NEW ms, Takes(w, ms), NEW m, m = inbox[1]
    PROVE  Finishes(ToastOnMessage(w, m), m, ms, T)
  <1>1. /\ w.c = client /\ IsSeq(calls) /\ service.sequence \in Nat /\ NewMessage(m, T)
        /\ IsTyped(m) /\ m.kind \in {"owner", "event", "value", "reply"} /\ 1 \in DOMAIN inbox
    BY TakenMessage
  <1>2. CASE m.kind = "owner"
    BY <1>2, OwnerFinishes DEF ToastOnMessage
  <1>3. CASE m.kind \in {"event", "value"}
    <2>1. ToastOnMessage(w, m) = ObserveEvent(w, m)
      BY <1>3 DEF ToastOnMessage
    <2>2. Sound(w, ms, T)
      BY <1>3, TakesNews DEF Mine
    <2>3. IsHeard(m)
      BY <1>3, TakenMessage
    <2>4. m.kind = "value" => New(m, T)
      BY <1>1 DEF NewMessage, New
    <2>5. Keeps(w, ObserveEvent(w, m), ms, T)
      BY <1>1, <2>2, <2>3, <2>4, ObserveEventKeeps
    <2> QED
      BY <1>1, <2>1, <2>5, KeepingFinishes
  <1>4. CASE m.kind = "reply"
    <2>1. m.call.method \in {"GetAll", "Get", "Set"} /\ m.call.from = "client"
      <3>1. IsReply(m) /\ "client" \in m.to
        BY <1>1, <1>4, TakenMessage DEF IsTyped, IsNews
      <3> QED
        BY <3>1 DEF IsReply, CallOf
    <2>2. m.call.method # "GetAll"
      <3>1. IsReply(m)
        BY <1>1, <1>4 DEF IsTyped, IsNews
      <3> QED
        BY <2>1, <3>1 DEF IsReply, CallOf
    <2>3. CASE m.call.method = "Get"
      <3>1. ToastOnMessage(w, m) = FinishSnapshot(w, m)
        BY <1>4, <2>3 DEF ToastOnMessage
      <3> QED
        BY <1>4, <2>3, <3>1, SnapshotFinishes
    <2>4. CASE m.call.method = "Set"
      <3>1. ToastOnMessage(w, m) = FinishMutation(w, m)
        BY <1>4, <2>4 DEF ToastOnMessage
      <3> QED
        BY <1>4, <2>4, <3>1, MutationFinishes
    <2> QED
      BY <2>1, <2>2, <2>3, <2>4
  <1> QED
    BY <1>1, <1>2, <1>3, <1>4

-----------------------------------------------------------------------------
(* Every step keeps the invariant.                                         *)

LEMMA WorldEndsSound ==
    ASSUME ToastInv, NEW T \in Nat, T <= service.sequence, NEW u, NEW ms, Sound(u, ms, T),
           Becomes(u), inbox' = ms, MessagesSigned(ms), MessagesNew(ms, T), Outcomes',
           UNCHANGED <<service, persistedGeneration, spent, value, revision, log, kind>>
    PROVE  ToastInv'
  <1>1. BusKnown' /\ Started' = Started
    BY DEF ToastInv, CommonInv, ServiceInv, BusKnown, Started
  <1>2. CommonInv' /\ IsObject(client)'
    BY <1>1, WorldEnds DEF ToastInv, Sound, Fair
  <1>3. client' = u.c
    BY DEF Becomes
  <1>4. IsToast(client)'
    BY <1>1, <1>3 DEF Sound, Fair, IsToast, Signs
  <1>5. Current(T)'
    BY <1>3 DEF Current, MessagesNew, NewMessage, New, IsRead, Sound, CopyIsNew
  <1> QED
    BY <1>2, <1>4, <1>5 DEF ToastInv

LEMMA ToastTurnIsSafe == ASSUME ToastInv, ToastTurn PROVE ToastInv'
  <1>1. PICK w, ms, m : w = World(readiness, <<>>) /\ ms = InboxAfter("client") /\ m = inbox[1]
    OBVIOUS
  <1>2. PICK u : u = ToastOnMessage(w, m)
    OBVIOUS
  <1>3. PICK T \in Nat : Current(T)
    BY DEF ToastInv
  <1>4. /\ Takes(w, ms) /\ Becomes(u) /\ inbox' = ms
        /\ resolved' = IF client'.pending = client.pending THEN resolved
                       ELSE [resolved EXCEPT ![client.pending.op] = m.answer.code]
        /\ UNCHANGED <<service, persistedGeneration, spent, registerVars, kind, issued>>
    BY <1>1, <1>2 DEF ToastTurn, ClientHandles, Takes
  <1>5. Sound(u, ms, T) /\ Decides(m, client.pending, u.c.pending)
    BY <1>1, <1>2, <1>3, <1>4, MessageFinishes DEF Finishes
  <1>6. client'.pending = u.c.pending
    BY <1>4 DEF Becomes
  <1>7. Outcomes /\ UNCHANGED <<issued, value, revision, log, kind>>
    BY <1>4 DEF ToastInv, CommonInv, ServiceInv, registerVars
  <1>8. Outcomes'
    <2>1. CASE client'.pending = client.pending
      BY <1>4, <1>7, <2>1, OutcomesStay
    <2>2. CASE client'.pending # client.pending
      <3>1. /\ client'.pending = NoOperation /\ client.pending # NoOperation
            /\ m.kind = "reply" /\ ~m.error /\ m.call.method = "Set"
            /\ m.answer.code # "BACKEND_UNAVAILABLE"
        BY <1>5, <1>6, <2>2 DEF Decides
      <3>2. IsTyped(m) /\ "client" \in m.to /\ 1 \in DOMAIN inbox
        BY <1>1, <1>3, <1>4, TakenMessage
      <3>3. ASSUME ~Mine(m, "client", client.ownerEpoch) PROVE FALSE
        <4>1. IsReply(m)
          BY <3>1, <3>2 DEF IsTyped, IsNews
        <4>2. m.call.epoch # client.ownerEpoch
          BY <3>1, <3>2, <3>3, <4>1 DEF IsReply, Mine
        <4>3. u = FinishMutation(w, m) /\ w.c = client
          BY <1>1, <1>2, <3>1, WorldIs DEF ToastOnMessage
        <4>4. u = w
          BY <4>2, <4>3, Zenon DEF FinishMutation
        <4> QED
          BY <1>6, <2>2, <4>3, <4>4
      <3>4. TellsTruth(m, client.pending, log)
        BY <1>1, <3>1, <3>2, <3>3
           DEF ToastInv, CommonInv, ServiceInv, ClientAsks, Underway, AtMostOne, AnswersDecide
      <3>5. resolved' = [resolved EXCEPT ![client.pending.op] = m.answer.code]
        BY <1>4, <2>2
      <3> QED
        BY <1>7, <3>1, <3>4, <3>5, OperationIsDecided
    <2> QED
      BY <2>1, <2>2
  <1>9. MessagesSigned(ms) /\ MessagesNew(ms, T) /\ T <= service.sequence
    BY <1>3, <1>4, TakenMessage DEF Current
  <1> QED
    BY <1>3, <1>4, <1>5, <1>7, <1>8, <1>9, WorldEndsSound

LEMMA ReadinessChangeKeeps ==
    ASSUME IsSeq(calls), NEW w, NEW ms, NEW T, Sound(w, ms, T)
    PROVE  Keeps(w, OnReadinessChanged(w), ms, T)
  BY DropIsSound, RefreshToastKeeps DEF OnReadinessChanged, Sound, Keeps

LEMMA ReadinessTurnIsSafe == ASSUME ToastInv, ReadinessTurn PROVE ToastInv'
  <1>1. PICK ms, result : ms = InboxAfter("readiness") /\ result = OnMessage(readiness, inbox[1])
    OBVIOUS
  <1>2. PICK w : w = World(result.state, result.calls)
    OBVIOUS
  <1>3. PICK u : u = IF result.changed THEN OnReadinessChanged(w) ELSE w
    OBVIOUS
  <1>4. /\ Arrives("readiness") /\ Becomes(u) /\ inbox' = ms
        /\ UNCHANGED <<service, persistedGeneration, spent, registerVars, kind, issued, resolved>>
    BY <1>1, <1>2, <1>3 DEF ReadinessTurn, ReadinessHandles
  <1>5. PICK T \in Nat : Current(T)
    BY DEF ToastInv
  <1>6. w.c = client /\ IsSeq(calls)
    BY <1>2, WorldIs, QueuesAreSeqs DEF ToastInv, CommonInv, ServiceInv
  <1>7. Sound(w, ms, T)
    <2>1. Good(w, ms)
      BY <1>1, <1>2, <1>4, ReadinessBegins DEF ToastInv
    <2> QED
      BY <1>5, <1>6, <2>1 DEF Sound, Fair, ToastInv, Current
  <1>8. Sound(u, ms, T) /\ u.c.pending = client.pending
    BY <1>3, <1>6, <1>7, ReadinessChangeKeeps DEF Keeps
  <1>9. client'.pending = client.pending /\ UNCHANGED <<issued, value, revision, log, kind>>
    BY <1>4, <1>8 DEF Becomes, registerVars
  <1>10. Outcomes'
    BY <1>4, <1>9, OutcomesStay DEF ToastInv, CommonInv, ServiceInv
  <1>11. MessagesSigned(ms) /\ MessagesNew(ms, T) /\ T <= service.sequence
    BY <1>1, <1>4, <1>5, LeftMessages, LeftNew DEF ToastInv, Current
  <1> QED
    BY <1>4, <1>5, <1>8, <1>9, <1>10, <1>11, WorldEndsSound

\* The user asks for something new, or again for what is undecided.
LEMMA SetEnabledIsSafe == ASSUME ToastInv, NEW v \in {0, 1}, SetEnabled(v) PROVE ToastInv'
  <1>1. PICK w : w = World(readiness, <<>>)
    OBVIOUS
  <1>2. PICK asked : asked = [op |-> issued + 1, value |-> v, expected |-> client.copy.revision]
    OBVIOUS
  <1>3. PICK T \in Nat : Current(T)
    BY DEF ToastInv
  <1>4. /\ w.c = client /\ w.r = readiness /\ w.calls = <<>> /\ DOMAIN w = {"r", "c", "calls"}
        /\ Good(w, inbox)
    BY <1>1, WorldIs, IdleBegins DEF ToastInv
  <1>5. /\ CommonInv /\ IsObject(client) /\ IsToast(client) /\ DOMAIN client = ToastMembers
        /\ IsSeq(calls) /\ MessagesSigned(inbox) /\ MessagesNew(inbox, T)
        /\ CopyIsNew(client, T) /\ T <= service.sequence /\ Outcomes /\ spent.limits \in Limits
    BY <1>3, QueuesAreSeqs DEF ToastInv, CommonInv, ServiceInv, IsToast, Current, BusKnown
  <1>6. /\ ~client.requestInFlight
        /\ UNCHANGED <<service, persistedGeneration, inbox, spent, registerVars, kind, resolved>>
    BY DEF SetEnabled
  <1>7. UNCHANGED <<value, revision, log>>
    BY <1>6 DEF registerVars
  <1> DEFINE x == [w EXCEPT !.c.pending = asked]
  <1>8. CASE /\ client.pending = NoOperation /\ issued < spent.limits["operation"]
             /\ issued' = issued + 1 /\ Becomes(SubmitPendingMutation(x))
    <2>1. /\ DOMAIN x = {"r", "c", "calls"} /\ x.r = readiness /\ x.calls = <<>>
          /\ DOMAIN x.c = ToastMembers /\ x.c.pending = asked
          /\ \A other \in ToastMembers : other # "pending" => x.c[other] = client[other]
      BY <1>4, <1>5 DEF ToastMembers
    <2> HIDE DEF x
    <2>2. IsWorld(x) /\ IsToast(x.c) /\ CopyIsNew(x.c, T)
      BY <1>5, <2>1 DEF IsWorld, IsObject, Members, ToastMembers, IsToast, CopyIsNew
    <2>3. x.c.ownerEpoch = client.ownerEpoch /\ x.c.requestInFlight = client.requestInFlight
      BY <2>1 DEF ToastMembers
    <2>4. Good(x, inbox)
      BY <1>5, <1>6, <1>8, <2>1, <2>2, <2>3, OperationBeginsWell
    <2>5. Sound(x, inbox, T)
      BY <2>2, <2>4 DEF Sound, Fair
    <2>6. PICK u : u = SubmitPendingMutation(x)
      OBVIOUS
    <2>7. Sound(u, inbox, T) /\ u.c.pending = asked
      BY <1>5, <2>1, <2>5, <2>6, SubmitPendingMutationKeeps DEF Keeps
    <2>8. client'.pending = asked /\ Becomes(u) /\ issued' = issued + 1
      BY <1>8, <2>6, <2>7 DEF Becomes
    <2>9. v \in WrittenValues /\ client.copy.revision \in Nat
      BY <1>5 DEF WrittenValues, IsObject, IsCopy, Copies
    <2>10. PICK e \in Nat : e = client.copy.revision
      BY <2>9
    <2>11. client'.pending = [op |-> issued + 1, value |-> v, expected |-> e]
      BY <1>2, <2>8, <2>10
    <2>12. issued < spent.limits["operation"] /\ client.pending = NoOperation
           /\ UNCHANGED <<resolved, log, kind>>
      BY <1>6, <1>7, <1>8
    <2>13. Outcomes'
      BY <1>5, <2>8, <2>9, <2>11, <2>12, OperationIsIssued
    <2>14. UNCHANGED <<service, persistedGeneration, spent, value, revision, log, kind>>
           /\ inbox' = inbox
      BY <1>6, <1>7
    <2> QED
      BY <1>5, <2>7, <2>8, <2>13, <2>14, WorldEndsSound
  <1>9. CASE Becomes(SubmitPendingMutation(w)) /\ UNCHANGED issued
    <2>1. PICK u : u = SubmitPendingMutation(w)
      OBVIOUS
    <2>2. Sound(w, inbox, T)
      BY <1>4, <1>5 DEF Sound, Fair
    <2>3. Sound(u, inbox, T) /\ u.c.pending = client.pending /\ Becomes(u)
      BY <1>4, <1>5, <1>9, <2>1, <2>2, SubmitPendingMutationKeeps DEF Keeps
    <2>4. client'.pending = client.pending
      BY <2>3 DEF Becomes
    <2>5. UNCHANGED <<issued, resolved, log, kind>> /\ inbox' = inbox
          /\ UNCHANGED <<service, persistedGeneration, spent, value, revision, log, kind>>
      BY <1>6, <1>7, <1>9
    <2>6. Outcomes'
      BY <1>5, <2>4, <2>5, OutcomesStay
    <2> QED
      BY <1>5, <2>3, <2>5, <2>6, WorldEndsSound
  <1> QED
    BY <1>1, <1>2, <1>8, <1>9 DEF SetEnabled


LEMMA ToastBegins == ASSUME ClientInit PROVE ToastInv
  <1>1. /\ client.ownerEpoch = 0 /\ client.requestInFlight = FALSE
        /\ client.refreshPending = FALSE /\ client.pending = NoOperation
        /\ client.copy = NoCopy /\ client.eventOwner = NoOwner
        /\ client.lastObservedSequence = 0 /\ DOMAIN client = ToastMembers
    BY DEF ClientInit, NoToast, ToastMembers
  <1>2. client.requestInFlight \in BOOLEAN /\ ~client.requestInFlight
        /\ client.refreshPending \in BOOLEAN
    BY <1>1, Zenon
  <1>3. CommonInv
    <2>1. client.ownerEpoch \in Nat /\ client.pending = NoOperation
      BY <1>1
    <2>2. ServiceInit /\ kind \in {"toast", "settings", "notifications"}
      BY DEF ClientInit
    <2> QED
      BY <1>2, <2>1, <2>2, ServiceBegins
  <1>4. IsObject(client) /\ IsToast(client)
    <2>1. IsCopy(client.copy) /\ NoOwner \in Owners
      BY <1>1, <1>3, CopyIsDropped, KnownService DEF CommonInv, ServiceInv
    <2> QED
      BY <1>1, <1>2, <2>1 DEF IsObject, Members, ToastMembers, IsToast
  <1>5. inbox = <<>> /\ ~client.copy.ready
    BY <1>1, CopyIsDropped DEF ClientInit, ServiceInit, BusInit
  <1>6. Current(0)
    <2>1. 0 <= service.sequence
      BY <1>3, KnownService DEF CommonInv, ServiceInv
    <2> QED
      BY <1>5, <2>1 DEF Current, MessagesNew, CopyIsNew
  <1> QED
    BY <1>3, <1>4, <1>6 DEF ToastInv, ClientInit

LEMMA NothingChanges == ASSUME ToastInv, UNCHANGED clientVars PROVE ToastInv'
  <1>1. UNCHANGED <<service, inbox, spent, client, kind, value, revision>>
    BY DEF clientVars, busVars, registerVars, clientOnly
  <1>2. CommonInv' /\ Started' = Started
    BY NothingHappens DEF ToastInv
  <1>3. IsObject(client)' /\ IsToast(client)'
    BY <1>1, <1>2 DEF ToastInv, IsObject, IsCopy, Reading, Signs, IsToast
  <1>4. PICK T \in Nat : Current(T)
    BY DEF ToastInv
  <1>5. Current(T)'
    BY <1>1, <1>4 DEF Current, MessagesNew, NewMessage, New, IsRead, CopyIsNew
  <1> QED
    BY <1>1, <1>2, <1>3, <1>5 DEF ToastInv

\* The inductive invariant holds: whatever is lost, delayed or seen twice,
\* messages and the copy are current unless they are older than the last
\* change, and a copy that is older belongs to a client that is behind.
THEOREM ToastHolds == ClientSpec => []ToastInv
  <1>1. ClientInit => ToastInv
    BY ToastBegins
  <1>2. ASSUME ToastInv, [ClientNext]_clientVars PROVE ToastInv'
    <2>1. CASE ServiceTurn \/ EnvironmentTurn
      BY <1>2, <2>1, ServiceKeepsToast
    <2>2. CASE ReadinessTurn
      BY <1>2, <2>2, ReadinessTurnIsSafe
    <2>3. CASE ToastTurn
      BY <1>2, <2>3, ToastTurnIsSafe
    <2>4. CASE \E v \in {0, 1} : SetEnabled(v)
      BY <1>2, <2>4, SetEnabledIsSafe
    <2>5. CASE UNCHANGED clientVars
      BY <1>2, <2>5, NothingChanges
    <2> QED
      BY <1>2, <2>1, <2>2, <2>3, <2>4, <2>5 DEF ClientNext
  <1> QED
    BY <1>1, <1>2, PTL DEF ClientSpec
-----------------------------------------------------------------------------
(* What follows.                                                           *)

\* Neither the toast client nor the readiness client it owns ever waits for
\* an answer that cannot come, or asks again while one can: no timeout, late
\* answer, lost signal or restart between the two leaves it stuck.
THEOREM ToastRequests == ClientSpec => []RequestInvariant
  <1>1. ASSUME ToastInv PROVE RequestInvariant
    <2>1. TypeOK /\ OneRequestUnderway /\ OneClientRequestUnderway
      BY <1>1, TypesFollow, RequestsFollow DEF ToastInv
    <2>2. PreferenceTypeOK
      <3>1. Outcomes /\ RegisterKnown /\ IsObject(client)
        BY <1>1 DEF ToastInv, CommonInv, ServiceInv
      <3>2. client.copy \in Copies /\ {client.requestInFlight, client.refreshPending} \subseteq BOOLEAN
        BY <3>1 DEF IsObject, IsCopy
      <3>3. client.copy.ready => client.copy.owner # NoOwner
        BY <3>1 DEF IsObject, IsCopy, Reading, NoOwner
      <3>4. client.pending \in [op : Operations, value : Nat, expected : Nat] \cup {NoOperation}
        BY <3>1, PendingOperation
           DEF Outcomes, OperationsIssued, Operations, WrittenValues
      <3>5. value \in Nat /\ revision \in Nat /\ issued \in 0..MaxOperations
            /\ resolved \in [Operations -> {"PENDING", "OK", "STALE_REVISION", "CONFLICT", "IO_ERROR"}]
        BY <3>1 DEF RegisterKnown, StoredValues, Unset, Outcomes, OperationsIssued, OutcomesFollow
      <3> QED
        BY <3>2, <3>3, <3>4, <3>5 DEF PreferenceTypeOK, Copies
    <2>3. kind = "toast" /\ value \in {0, 1, Unset} /\ client.ownerEpoch \in Nat
          /\ client.lastObservedSequence \in Nat /\ client.eventOwner \in Owners
      BY <1>1 DEF ToastInv, CommonInv, ServiceInv, RegisterKnown, StoredValues, IsObject, IsToast
    <2> QED
      BY <2>1, <2>2, <2>3 DEF RequestInvariant, ClientTypeOK
  <1> QED
    BY <1>1, ToastHolds, PTL

\* A copy whose cursor names the last event of the running service shows the
\* stored preference: the sequence numbers alone tell the client when it may
\* believe what it has, whatever signals were lost, delayed or seen twice.
THEOREM ToastCursor == ClientSpec => []CursorIdentifiesToast
  <1>1. ASSUME ToastInv, client.copy.ready, client.copy.owner.uuid = service.owner.uuid,
               client.copy.sequence = service.sequence
        PROVE  client.copy.value = value /\ client.copy.revision = revision
    <2>1. PICK T \in Nat : T <= service.sequence /\ New(client.copy, T)
      BY <1>1 DEF ToastInv, Current, CopyIsNew
    <2>2. service.sequence \in Nat
      BY <1>1, KnownService DEF ToastInv, CommonInv, ServiceInv
    <2>3. client.copy.revision = revision
      BY <1>1, <2>1, <2>2 DEF New
    <2>4. Reading(client.copy)
      BY <1>1 DEF ToastInv, IsObject, IsCopy
    <2> QED
      BY <2>3, <2>4 DEF Reading
  <1>2. ToastInv => CursorIdentifiesToast
    BY <1>1 DEF CursorIdentifiesToast
  <1> QED
    BY <1>2, ToastHolds, PTL

\* What the user is told of a change of the preference is true and stays so,
\* and no attempt of a decided change is left that could act behind the
\* user's back: the timeouts, retries and restarts between the first attempt
\* and the decision make no difference.
THEOREM ToastDecisionsAreFinal == ClientSpec => []DecisionsAreFinal
  <1>1. ToastInv => DecisionsAreFinal
    BY DecisionsFollow DEF ToastInv, CommonInv, ServiceInv
  <1> QED
    BY <1>1, ToastHolds, PTL
=============================================================================
