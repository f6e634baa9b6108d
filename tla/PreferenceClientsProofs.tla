------------------------ MODULE PreferenceClientsProofs ------------------------
(***************************************************************************)
(* Proofs about the settings and the notifications client: what they wait  *)
(* for, what they report, and that no announced change is missed.  The     *)
(* limits may be any: any number of restarts, failures, timeouts, lost     *)
(* signals, changes of the user and of other clients.                      *)
(***************************************************************************)
EXTENDS PreferenceClients, PreferenceServiceProofs

-----------------------------------------------------------------------------
(* News about what is stored.                                              *)

\* What x says of the running service is current, or a later message,
\* behind the i-th of ms, brings what follows.
Told(x, i, ms) ==
    x.owner = service.owner =>
        \/ x.revision = revision
        \/ \E j \in DOMAIN ms : /\ j > i /\ ms[j].kind = "value"
                                /\ ms[j].owner = service.owner /\ ms[j].sequence > x.sequence
MessagesTold(ms) ==
    \A i \in DOMAIN ms : /\ ms[i].kind = "value" => Told(ms[i], i, ms)
                         /\ IsRead(ms[i]) => Told(ms[i].answer, i, ms)

\* A client that waits for an answer will replace its copy.
CopyTold(c, ms) == c.copy.ready => c.requestInFlight \/ Told(c.copy, 0, ms)

NothingLost == Without({"lost"})

LEMMA NoneLost == NothingLost <=> spent.count["lost"] = 0
  BY DEF NothingLost, Without

LEMMA SameTold ==
    ASSUME NEW x, NEW y, NEW i, NEW ms, Told(x, i, ms), y.owner = x.owner,
           y.revision = x.revision, y.sequence = x.sequence
    PROVE  Told(y, i, ms)
  BY DEF Told

\* A step of the service keeps a copy told, or is told itself.
LEMMA ToldStays ==
    ASSUME CommonInv, CommonInv', Step, NothingLost', NEW x, x.owner \in Owners,
           x.sequence \in Nat, x.revision \in Nat, Reading(x),
           NEW i \in Nat, i <= Len(inbox), Told(x, i, inbox)
    PROVE  Told(x, i, inbox)'
  <1> SUFFICES ASSUME x.owner = service'.owner
               PROVE  \/ x.revision = revision'
                      \/ \E j \in DOMAIN inbox' : /\ j > i /\ inbox'[j].kind = "value"
                                                  /\ inbox'[j].owner = service'.owner
                                                  /\ inbox'[j].sequence > x.sequence
    BY DEF Told
  <1>1. BusKnown /\ IsSeq(inbox) /\ x.owner.uuid \in Nat /\ x.owner.uuid # 0
        /\ x.owner.uuid <= Started /\ Started \in Nat /\ service.sequence \in Nat
    BY KnownService, QueuesAreSeqs DEF CommonInv, ServiceInv, Reading, Signs
  <1>2. ASSUME service' = service, revision' = revision, NEW N, Grows(N)
        PROVE  \/ x.revision = revision'
               \/ \E j \in DOMAIN inbox' : /\ j > i /\ inbox'[j].kind = "value"
                                           /\ inbox'[j].owner = service'.owner
                                           /\ inbox'[j].sequence > x.sequence
    BY <1>2 DEF Told, Grows
  <1>3. CASE Answers
    BY <1>2, <1>3 DEF Answers
  <1>4. CASE Publishes
    <2>1. service'.owner = service.owner /\ revision' = revision
      BY <1>4 DEF Publishes, Reading
    <2>2. PICK N : Grows(N)
      BY <1>4 DEF Publishes
    <2> QED
      BY <2>1, <2>2 DEF Told, Grows
  <1>5. CASE Turns
    BY <1>1, <1>5 DEF Turns
  <1>6. CASE Writes
    <2>1. x.owner = service.owner /\ x.sequence <= service.sequence
      BY <1>1, <1>6 DEF Writes, Reading, Signs
    <2>2. PICK n \in Nat :
            /\ service.sequence < n
            /\ \E N : Grows(N) /\ (\A m \in N : Announced(m, n))
                      /\ \E k \in DOMAIN inbox' : k \notin DOMAIN inbox /\ inbox'[k].kind = "value"
      BY <1>6 DEF Writes
    <2>3. PICK k \in DOMAIN inbox' : /\ k \notin DOMAIN inbox /\ inbox'[k].kind = "value"
                                     /\ Announced(inbox'[k], n)
      BY <2>2 DEF Grows
    <2>4. inbox'[k].owner = service'.owner /\ inbox'[k].sequence = n
      BY <1>6, <2>3 DEF Announced, Writes
    <2>5. k > i
      <3>1. DOMAIN inbox = 1..Len(inbox) /\ Len(inbox) \in Nat
        BY <1>1, SeqFacts
      <3>2. IsSeq(inbox')
        BY <1>6 DEF Writes, Grows
      <3>3. DOMAIN inbox' = 1..Len(inbox') /\ Len(inbox') \in Nat
        BY <3>2, SeqFacts
      <3> QED
        BY <2>3, <3>1, <3>3
    <2> QED
      BY <1>1, <2>1, <2>2, <2>3, <2>4, <2>5
  <1>7. CASE Loses
    BY <1>7, NoneLost DEF Loses, NothingLost, Without
  <1> QED
    BY <1>3, <1>4, <1>5, <1>6, <1>7 DEF Step

\* What a step sends is current.
LEMMA SentIsCurrent ==
    ASSUME CommonInv, Step, NEW m, NEW N, Grows(N), m \in N,
           \/ Answers /\ \A k \in N : Truthful(k)
           \/ Publishes /\ \E n \in Nat : \A k \in N : Published(k, n)
           \/ Turns /\ \A k \in N : k.kind = "owner" \/ (k.kind = "reply" /\ k.error)
           \/ Writes /\ \E n \in Nat : \A k \in N : Announced(k, n)
    PROVE  (m.kind = "value" => m.revision = revision') /\ (IsRead(m) => m.answer.revision = revision')
  BY DEF Answers, Truthful, Published, Announced, IsRead

-----------------------------------------------------------------------------
(* The clients, while they handle something.                               *)

PreferenceMembers ==
    {"ownerEpoch", "requestInFlight", "refreshPending", "retryScheduled", "copy", "pending"}
IsPreference(c) ==
    DOMAIN c = PreferenceMembers /\ c.ownerEpoch = 0 /\ c.retryScheduled \in BOOLEAN

\* The copy of a world that is Fair may have to go, or to be asked for.
Fair(w, ms) == Good(w, ms) /\ IsPreference(w.c)
Sound(w, ms) == Fair(w, ms) /\ (NothingLost => CopyTold(w.c, ms))

\* u is w but for one member of the client.
Changed(w, u, member, x) ==
    /\ DOMAIN u = DOMAIN w /\ u.r = w.r /\ u.calls = w.calls
    /\ DOMAIN u.c = DOMAIN w.c /\ u.c[member] = x
    /\ \A other \in DOMAIN w.c : other # member => u.c[other] = w.c[other]

LEMMA MembersChange ==
    ASSUME NEW w, NEW ms, Fair(w, ms)
    PROVE  /\ \A x : Changed(w, [w EXCEPT !.c.copy = x], "copy", x)
           /\ \A x : Changed(w, [w EXCEPT !.c.pending = x], "pending", x)
           /\ \A x : Changed(w, [w EXCEPT !.c.refreshPending = x], "refreshPending", x)
           /\ \A x : Changed(w, [w EXCEPT !.c.retryScheduled = x], "retryScheduled", x)
  <1>1. DOMAIN w = {"r", "c", "calls"} /\ DOMAIN w.c = PreferenceMembers
    BY DEF Fair, Good, IsWorld, IsPreference
  <1> QED
    BY <1>1 DEF Changed, PreferenceMembers

LEMMA CopyChanges ==
    ASSUME NEW w, NEW ms, Fair(w, ms), NEW x, IsCopy(x), NEW u, Changed(w, u, "copy", x)
    PROVE  /\ Fair(u, ms) /\ u.c.pending = w.c.pending
           /\ u.c.requestInFlight = w.c.requestInFlight /\ u.r = w.r
  <1>1. DOMAIN w = {"r", "c", "calls"} /\ DOMAIN w.c = PreferenceMembers /\ IsObject(w.c)
    BY DEF Fair, Good, IsWorld, IsPreference
  <1>2. IsObject(u.c) /\ IsPreference(u.c) /\ Quiet(w, u)
        /\ u.c.pending = w.c.pending /\ u.c.requestInFlight = w.c.requestInFlight /\ u.r = w.r
    BY <1>1 DEF Changed, PreferenceMembers, IsObject, Members, IsPreference, Quiet, Fair
  <1> QED
    BY <1>2, QuietIsGood DEF Fair

LEMMA UnreadyIsSound ==
    ASSUME NEW w, NEW ms, Fair(w, ms)
    PROVE  LET u == Unready(w)
           IN  /\ Sound(u, ms) /\ u.c.pending = w.c.pending
               /\ u.c.requestInFlight = w.c.requestInFlight /\ u.r = w.r
  <1> DEFINE x == [NoCopy EXCEPT !.owner = w.c.copy.owner]
             u == Unready(w)
  <1>1. IsCopy(x) /\ x.ready = FALSE
    BY CopyIsDropped DEF Fair, Good, IsWorld, IsObject, IsCopy, Copies
  <1>2. Changed(w, u, "copy", x)
    BY MembersChange DEF Unready
  <1>3. u.c.copy = x
    BY <1>2 DEF Changed
  <1> HIDE DEF x, u
  <1>4. /\ Fair(u, ms) /\ u.c.pending = w.c.pending
        /\ u.c.requestInFlight = w.c.requestInFlight /\ u.r = w.r
    BY <1>1, <1>2, CopyChanges
  <1>5. Sound(u, ms)
    BY <1>1, <1>3, <1>4 DEF Sound, CopyTold
  <1> QED
    BY <1>4, <1>5 DEF u

\* The identity of the copy is dropped too.
LEMMA ForgottenIsSound ==
    ASSUME NEW w, NEW ms, Fair(w, ms)
    PROVE  LET u == [w EXCEPT !.c.copy = NoCopy]
           IN  Sound(u, ms) /\ u.c.pending = w.c.pending
  <1> DEFINE u == [w EXCEPT !.c.copy = NoCopy]
  <1>1. Changed(w, u, "copy", NoCopy)
    BY MembersChange
  <1>2. u.c.copy = NoCopy
    BY <1>1 DEF Changed
  <1> HIDE DEF u
  <1>3. Fair(u, ms) /\ u.c.pending = w.c.pending
    BY <1>1, CopyIsDropped, CopyChanges
  <1>4. Sound(u, ms)
    BY <1>2, <1>3, CopyIsDropped DEF Sound, CopyTold
  <1> QED
    BY <1>3, <1>4 DEF u

\* A flag is set or cleared: w stays as it was.
LEMMA FlagsKeep ==
    ASSUME NEW w, NEW ms, Fair(w, ms), NEW b \in BOOLEAN, NEW u,
           NEW member \in {"refreshPending", "retryScheduled"}, Changed(w, u, member, b)
    PROVE  /\ Fair(u, ms) /\ (Sound(w, ms) => Sound(u, ms))
           /\ u.c.pending = w.c.pending /\ u.c.copy = w.c.copy
           /\ u.c.requestInFlight = w.c.requestInFlight /\ u.r = w.r
  <1>1. DOMAIN w = {"r", "c", "calls"} /\ DOMAIN w.c = PreferenceMembers /\ IsObject(w.c)
    BY DEF Fair, Good, IsWorld, IsPreference
  <1>3. IsObject(u.c) /\ IsPreference(u.c) /\ Quiet(w, u)
        /\ u.c.pending = w.c.pending /\ u.c.copy = w.c.copy
        /\ u.c.requestInFlight = w.c.requestInFlight /\ u.r = w.r
    BY <1>1 DEF Changed, PreferenceMembers, IsObject, Members, IsPreference, Quiet, Fair
  <1>4. Fair(u, ms)
    BY <1>3, QuietIsGood DEF Fair
  <1> QED
    BY <1>3, <1>4 DEF Sound, CopyTold

\* A client that waits for an answer will replace its copy.
LEMMA BusyIsSound ==
    ASSUME NEW w, NEW ms, Fair(w, ms), w.c.requestInFlight PROVE Sound(w, ms)
  BY DEF Sound, CopyTold

\* An idle client asks.
Asks(w, u, call) ==
    /\ DOMAIN u = {"r", "c", "calls"} /\ u.r = w.r /\ u.calls = Append(w.calls, call)
    /\ DOMAIN u.c = PreferenceMembers /\ u.c.requestInFlight
    /\ u.c.requestInFlight \in BOOLEAN
    /\ \A other \in DOMAIN w.c : other # "requestInFlight" => u.c[other] = w.c[other]

LEMMA WorldAsks ==
    ASSUME NEW w, NEW ms, Fair(w, ms), NEW call
    PROVE  Asks(w, [w EXCEPT !.c.requestInFlight = TRUE, !.calls = Append(@, call)], call)
  <1>1. DOMAIN w = {"r", "c", "calls"} /\ DOMAIN w.c = PreferenceMembers
    BY DEF Fair, Good, IsWorld, IsPreference
  <1> QED
    BY <1>1 DEF Asks, PreferenceMembers

LEMMA AskingIsSound ==
    ASSUME IsSeq(calls), NEW w, NEW ms, Fair(w, ms), ~w.c.requestInFlight, NEW call,
           call.method \in {"Get", "Set"}, call.from = "client", call.epoch = w.c.ownerEpoch,
           AttemptOf(call, w.c.pending), NEW u, Asks(w, u, call)
    PROVE  Sound(u, ms) /\ u.c.pending = w.c.pending
  <1>1. DOMAIN w = {"r", "c", "calls"} /\ DOMAIN w.c = PreferenceMembers /\ IsObject(w.c)
    BY DEF Fair, Good, IsWorld, IsPreference
  <1>3. IsObject(u.c) /\ IsPreference(u.c) /\ u.c.pending = w.c.pending
        /\ u.c.ownerEpoch = w.c.ownerEpoch
    BY <1>1 DEF Asks, PreferenceMembers, IsObject, Members, IsPreference, Fair
  <1>4. Good(u, ms)
    <2>1. Good(w, ms)
      BY DEF Fair
    <2>2. u.c.requestInFlight /\ DOMAIN u = {"r", "c", "calls"}
          /\ u.r = w.r /\ u.calls = Append(w.calls, call)
      BY DEF Asks
    <2> QED
      BY <1>3, <2>1, <2>2, RequestKeeps
  <1>5. Sound(u, ms)
    BY <1>3, <1>4, BusyIsSound DEF Asks, Fair
  <1> QED
    BY <1>3, <1>5

-----------------------------------------------------------------------------
(* What the handlers are built from.                                       *)

LEMMA CallsAreAttempts ==
    ASSUME NEW w, NEW ms, Fair(w, ms)
    PROVE  /\ LET call == GetCall(w.c)
              IN  call.method = "Get" /\ call.from = "client" /\ call.epoch = w.c.ownerEpoch
                  /\ AttemptOf(call, w.c.pending)
           /\ w.c.pending # NoOperation =>
              LET call == SetCall(w.c)
              IN  call.method = "Set" /\ call.from = "client" /\ call.epoch = w.c.ownerEpoch
                  /\ AttemptOf(call, w.c.pending)
  BY DEF GetCall, SetCall, AttemptOf

LEMMA ReadIsSound ==
    ASSUME IsSeq(calls), NEW w, NEW ms, Fair(w, ms), ~w.c.requestInFlight
    PROVE  LET u == [w EXCEPT !.c.requestInFlight = TRUE, !.calls = Append(@, GetCall(w.c))]
           IN  Sound(u, ms) /\ u.c.pending = w.c.pending
  <1> DEFINE call == GetCall(w.c)
  <1>1. call.method \in {"Get", "Set"} /\ call.from = "client" /\ call.epoch = w.c.ownerEpoch
        /\ AttemptOf(call, w.c.pending)
    BY CallsAreAttempts
  <1> DEFINE u == [w EXCEPT !.c.requestInFlight = TRUE, !.calls = Append(@, call)]
  <1>2. Asks(w, u, call)
    BY WorldAsks
  <1> HIDE DEF call, u
  <1>3. Sound(u, ms) /\ u.c.pending = w.c.pending
    BY <1>1, <1>2, AskingIsSound
  <1> QED
    BY <1>3 DEF call, u

LEMMA AttemptIsSound ==
    ASSUME IsSeq(calls), NEW w, NEW ms, Fair(w, ms), ~w.c.requestInFlight,
           NEW c, c.pending = w.c.pending, c.ownerEpoch = w.c.ownerEpoch,
           w.c.pending # NoOperation
    PROVE  LET u == [w EXCEPT !.c.requestInFlight = TRUE, !.calls = Append(@, SetCall(c))]
           IN  Sound(u, ms) /\ u.c.pending = w.c.pending
  <1> DEFINE call == SetCall(c)
  <1>1. call.method \in {"Get", "Set"} /\ call.from = "client" /\ call.epoch = w.c.ownerEpoch
        /\ AttemptOf(call, w.c.pending)
    BY DEF SetCall, AttemptOf
  <1> DEFINE u == [w EXCEPT !.c.requestInFlight = TRUE, !.calls = Append(@, call)]
  <1>2. Asks(w, u, call)
    BY WorldAsks
  <1> HIDE DEF call, u
  <1>3. Sound(u, ms) /\ u.c.pending = w.c.pending
    BY <1>1, <1>2, AskingIsSound
  <1> QED
    BY <1>3 DEF call, u

LEMMA ScheduledIsSound ==
    ASSUME NEW w, NEW ms, Sound(w, ms)
    PROVE  Sound(Scheduled(w), ms) /\ Scheduled(w).c.pending = w.c.pending
  <1> DEFINE b == TRUE
             u == [w EXCEPT !.c.retryScheduled = b]
  <1>1. u = Scheduled(w) /\ b \in BOOLEAN /\ Fair(w, ms)
    BY DEF Scheduled, Sound
  <1>2. Changed(w, u, "retryScheduled", b)
    BY <1>1, MembersChange
  <1> HIDE DEF u, b
  <1>3. Sound(u, ms) /\ u.c.pending = w.c.pending
    BY <1>1, <1>2, FlagsKeep
  <1> QED
    BY <1>1, <1>3

\* A request under way is answered first; this is remembered.
LEMMA PostponedIsSound ==
    ASSUME NEW w, NEW ms, Fair(w, ms), w.c.requestInFlight \/ Sound(w, ms)
    PROVE  LET u == [w EXCEPT !.c.refreshPending = TRUE]
           IN  Sound(u, ms) /\ u.c.pending = w.c.pending
  <1> DEFINE b == TRUE
             u == [w EXCEPT !.c.refreshPending = b]
  <1>1. b \in BOOLEAN /\ Sound(w, ms)
    BY BusyIsSound
  <1>2. Changed(w, u, "refreshPending", b)
    BY MembersChange
  <1> HIDE DEF u, b
  <1>3. Sound(u, ms) /\ u.c.pending = w.c.pending
    BY <1>1, <1>2, FlagsKeep
  <1> QED
    BY <1>3 DEF u, b

LEMMA ReadinessRefreshIsSound ==
    ASSUME IsSeq(calls), NEW w, NEW ms, Sound(w, ms)
    PROVE  LET u == RefreshReadiness(w) IN Sound(u, ms) /\ u.c.pending = w.c.pending
  <1> DEFINE u == RefreshReadiness(w)
  <1>1. Good(u, ms) /\ u.c = w.c
    BY RefreshKeeps DEF Sound, Fair
  <1> HIDE DEF u
  <1>2. Sound(u, ms) /\ u.c.pending = w.c.pending
    BY <1>1 DEF Sound, Fair
  <1> QED
    BY <1>2 DEF u

LEMMA RefreshSettingsIsSound ==
    ASSUME IsSeq(calls), NEW w, NEW ms, Fair(w, ms)
    PROVE  LET u == RefreshSettings(w) IN Sound(u, ms) /\ u.c.pending = w.c.pending
  <1>1. CASE ~IsReady(w.r)
    BY <1>1, UnreadyIsSound DEF RefreshSettings
  <1>2. CASE IsReady(w.r) /\ w.c.requestInFlight
    BY <1>2, PostponedIsSound DEF RefreshSettings
  <1>3. CASE IsReady(w.r) /\ ~w.c.requestInFlight
    BY <1>3, ReadIsSound DEF RefreshSettings
  <1> QED
    BY <1>1, <1>2, <1>3

\* The attempt is made once the copy is dropped.
LEMMA ChangeIsSent ==
    ASSUME IsSeq(calls), NEW w, NEW ms, Fair(w, ms), ~w.c.requestInFlight,
           w.c.pending # NoOperation
    PROVE  LET u == [Unready(w) EXCEPT !.c.requestInFlight = TRUE,
                                       !.calls = Append(@, SetCall(w.c))]
           IN  Sound(u, ms) /\ u.c.pending = w.c.pending
  <1> DEFINE x == Unready(w)
             c == w.c
  <1>1. Fair(x, ms) /\ x.c.pending = w.c.pending /\ x.c.requestInFlight = w.c.requestInFlight
    BY UnreadyIsSound DEF Sound
  <1>2. c.pending = x.c.pending /\ c.ownerEpoch = x.c.ownerEpoch
    BY <1>1 DEF Fair, IsPreference
  <1> HIDE DEF x, c
  <1>3. LET u == [x EXCEPT !.c.requestInFlight = TRUE, !.calls = Append(@, SetCall(c))]
        IN  Sound(u, ms) /\ u.c.pending = x.c.pending
    BY <1>1, <1>2, AttemptIsSound
  <1> QED
    BY <1>1, <1>3 DEF x, c

LEMMA SubmitPendingConsentIsSound ==
    ASSUME IsSeq(calls), NEW w, NEW ms, Sound(w, ms)
    PROVE  LET u == SubmitPendingConsent(w) IN Sound(u, ms) /\ u.c.pending = w.c.pending
  <1>1. Fair(w, ms)
    BY DEF Sound
  <1>2. CASE w.c.pending = NoOperation \/ w.c.requestInFlight
    BY <1>2 DEF SubmitPendingConsent
  <1>3. CASE ~(w.c.pending = NoOperation \/ w.c.requestInFlight) /\ ~CanUse(w)
    BY <1>1, <1>3, UnreadyIsSound DEF SubmitPendingConsent
  <1>4. CASE ~(w.c.pending = NoOperation \/ w.c.requestInFlight) /\ CanUse(w)
    BY <1>1, <1>4, ChangeIsSent DEF SubmitPendingConsent
  <1> QED
    BY <1>2, <1>3, <1>4

LEMMA RequestMutationIsSound ==
    ASSUME IsSeq(calls), NEW w, NEW ms, Sound(w, ms)
    PROVE  LET u == RequestMutation(w) IN Sound(u, ms) /\ u.c.pending = w.c.pending
  <1>1. SubmitPendingConsent(w) = RequestMutation(w)
    BY DEF SubmitPendingConsent, RequestMutation
  <1> QED
    BY <1>1, SubmitPendingConsentIsSound

LEMMA RequestListIsSound ==
    ASSUME IsSeq(calls), NEW w, NEW ms, Sound(w, ms)
    PROVE  LET u == RequestList(w) IN Sound(u, ms) /\ u.c.pending = w.c.pending
  <1> DEFINE x == Unready(w)
             call == GetCall(w.c)
  <1>1. Fair(w, ms)
    BY DEF Sound
  <1>2. Fair(x, ms) /\ x.c.pending = w.c.pending /\ x.c.requestInFlight = w.c.requestInFlight
    BY <1>1, UnreadyIsSound DEF Sound
  <1>3. call = GetCall(x.c)
    BY <1>1, <1>2 DEF GetCall, Fair, IsPreference
  <1>4. CASE w.c.requestInFlight \/ ~IsReady(w.r)
    BY <1>4 DEF RequestList
  <1>5. CASE ~(w.c.requestInFlight \/ ~IsReady(w.r))
    <2>1. RequestList(w) = [x EXCEPT !.c.requestInFlight = TRUE, !.calls = Append(@, call)]
      BY <1>5 DEF RequestList
    <2>2. ~x.c.requestInFlight
      BY <1>2, <1>5
    <2> HIDE DEF x, call
    <2>3. LET u == [x EXCEPT !.c.requestInFlight = TRUE, !.calls = Append(@, GetCall(x.c))]
          IN  Sound(u, ms) /\ u.c.pending = x.c.pending
      BY <1>2, <2>2, ReadIsSound
    <2> QED
      BY <1>2, <1>3, <2>1, <2>3
  <1> QED
    BY <1>4, <1>5

LEMMA RefreshListIsSound ==
    ASSUME IsSeq(calls), NEW w, NEW ms, Fair(w, ms)
    PROVE  LET u == RefreshList(w) IN Sound(u, ms) /\ u.c.pending = w.c.pending
  <1>1. CASE ~IsReady(w.r)
    BY <1>1, UnreadyIsSound DEF RefreshList
  <1>2. CASE IsReady(w.r) /\ w.c.requestInFlight
    BY <1>2, PostponedIsSound DEF RefreshList
  <1>3. CASE IsReady(w.r) /\ ~w.c.requestInFlight
    <2> DEFINE x == Unready(w)
               call == GetCall(w.c)
    <2>1. Fair(x, ms) /\ x.c.pending = w.c.pending /\ x.c.requestInFlight = w.c.requestInFlight
      BY UnreadyIsSound DEF Sound
    <2>2. call = GetCall(x.c)
      BY <2>1 DEF GetCall, Fair, IsPreference
    <2>3. RefreshList(w) = [x EXCEPT !.c.requestInFlight = TRUE, !.calls = Append(@, call)]
      BY <1>3 DEF RefreshList, RequestList
    <2> HIDE DEF x, call
    <2>4. LET u == [x EXCEPT !.c.requestInFlight = TRUE, !.calls = Append(@, GetCall(x.c))]
          IN  Sound(u, ms) /\ u.c.pending = x.c.pending
      BY <1>3, <2>1, ReadIsSound
    <2> QED
      BY <2>1, <2>2, <2>3, <2>4
  <1> QED
    BY <1>1, <1>2, <1>3

LEMMA MismatchedIsSound ==
    ASSUME IsSeq(calls), NEW w, NEW ms, Fair(w, ms)
    PROVE  LET u == Mismatched(w) IN Sound(u, ms) /\ u.c.pending = w.c.pending
  <1> DEFINE x == Unready(w)
             y == RefreshReadiness(x)
             z == Scheduled(y)
  <1>1. Sound(x, ms) /\ x.c.pending = w.c.pending
    BY UnreadyIsSound
  <1>2. Sound(y, ms) /\ y.c.pending = x.c.pending
    <2> HIDE DEF x
    <2> QED
      BY <1>1, ReadinessRefreshIsSound
  <1>3. Sound(z, ms) /\ z.c.pending = y.c.pending
    <2> HIDE DEF x, y
    <2> QED
      BY <1>2, ScheduledIsSound
  <1> HIDE DEF x, y, z
  <1>4. Sound(z, ms) /\ z.c.pending = w.c.pending
    BY <1>1, <1>2, <1>3
  <1> QED
    BY <1>4 DEF Mismatched, x, y, z


\* What an answer says becomes the copy.
LEMMA ShownIsSound ==
    ASSUME NEW w, NEW ms, Fair(w, ms), NEW a, a.owner \in Owners, a.sequence \in Nat,
           a.value \in Nat, a.revision \in Nat, Reading(a), NothingLost => Told(a, 0, ms)
    PROVE  Sound(Shown(w, a), ms) /\ Shown(w, a).c.pending = w.c.pending
  <1> DEFINE x == [ready |-> TRUE, owner |-> a.owner, sequence |-> a.sequence,
                   value |-> a.value, revision |-> a.revision]
             u == Shown(w, a)
  <1>1. IsCopy(x) /\ x.owner = a.owner /\ x.sequence = a.sequence /\ x.revision = a.revision
    BY DEF IsCopy, Copies, Reading
  <1>2. Changed(w, u, "copy", x)
    BY MembersChange DEF Shown
  <1>3. u.c.copy = x
    BY <1>2 DEF Changed
  <1> HIDE DEF x, u
  <1>4. Fair(u, ms) /\ u.c.pending = w.c.pending
    BY <1>1, <1>2, CopyChanges
  <1>5. NothingLost => Told(x, 0, ms)
    BY <1>1 DEF Told
  <1>6. Sound(u, ms)
    BY <1>3, <1>4, <1>5 DEF Sound, CopyTold
  <1> QED
    BY <1>4, <1>6 DEF u

\* So does what an announcement says that follows without a gap.
LEMMA TakenIsSound ==
    ASSUME NEW w, NEW ms, Fair(w, ms), w.c.copy.ready, NEW e, e.owner = w.c.copy.owner,
           e.sequence \in Nat, e.value \in Nat, e.revision \in Nat, Reading(e),
           NothingLost => Told(e, 0, ms)
    PROVE  Sound(TakenOver(w, e), ms) /\ TakenOver(w, e).c.pending = w.c.pending
  <1> DEFINE old == w.c.copy
             x == [old EXCEPT !.value = e.value, !.revision = e.revision, !.sequence = e.sequence]
             u == TakenOver(w, e)
  <1>1. old \in Copies
    BY DEF Fair, Good, IsWorld, IsObject, IsCopy
  <1>2. Changed(w, u, "copy", x)
    BY MembersChange DEF TakenOver
  <1>3. u.c.copy = x
    BY <1>2 DEF Changed
  <1> HIDE DEF u
  <1>4. x \in Copies /\ x.owner = e.owner /\ x.sequence = e.sequence /\ x.revision = e.revision
        /\ x.value = e.value
    <2> HIDE DEF old
    <2> QED
      BY <1>1 DEF Copies, old
  <1> HIDE DEF x
  <1>5. IsCopy(x)
    BY <1>4 DEF IsCopy, Reading
  <1>6. Fair(u, ms) /\ u.c.pending = w.c.pending
    BY <1>2, <1>5, CopyChanges
  <1>7. NothingLost => Told(x, 0, ms)
    BY <1>4 DEF Told
  <1>8. Sound(u, ms)
    BY <1>3, <1>6, <1>7 DEF Sound, CopyTold
  <1> QED
    BY <1>6, <1>8 DEF u
-----------------------------------------------------------------------------
(* The first message is handled: what is told stays so.                    *)

\* The message brings nothing that x does not have.
Passed(m, x) ==
    m.kind = "value" => m.sequence \in Nat /\ x.sequence \in Nat /\ m.sequence <= x.sequence

LEMMA TailTells ==
    ASSUME IsSeq(inbox), inbox # <<>>, NEW x, NEW i \in Nat
    PROVE  /\ Told(x, i + 1, inbox) => Told(x, i, Tail(inbox))
           /\ Told(x, 0, inbox) /\ Passed(inbox[1], x) => Told(x, 0, Tail(inbox))
  <1>1. DOMAIN Tail(inbox) = 1..(Len(inbox) - 1) /\ Len(inbox) \in Nat
        /\ DOMAIN inbox = 1..Len(inbox)
        /\ \A j \in DOMAIN Tail(inbox) : Tail(inbox)[j] = inbox[j + 1]
    BY SeqTail, SeqFacts
  <1>2. \A j \in DOMAIN inbox : j > 1 => j - 1 \in DOMAIN Tail(inbox)
                                         /\ Tail(inbox)[j - 1] = inbox[j]
    BY <1>1
  <1>3. ASSUME Told(x, i + 1, inbox) PROVE Told(x, i, Tail(inbox))
    <2> SUFFICES ASSUME x.owner = service.owner, x.revision # revision
                 PROVE  \E j \in DOMAIN Tail(inbox) :
                            /\ j > i /\ Tail(inbox)[j].kind = "value"
                            /\ Tail(inbox)[j].owner = service.owner
                            /\ Tail(inbox)[j].sequence > x.sequence
      BY DEF Told
    <2>1. PICK j \in DOMAIN inbox : j > i + 1 /\ inbox[j].kind = "value"
                                    /\ inbox[j].owner = service.owner
                                    /\ inbox[j].sequence > x.sequence
      BY <1>3 DEF Told
    <2>2. j - 1 \in DOMAIN Tail(inbox) /\ Tail(inbox)[j - 1] = inbox[j] /\ j - 1 > i
      BY <1>1, <1>2, <2>1
    <2> QED
      BY <2>1, <2>2
  <1>4. ASSUME Told(x, 0, inbox), Passed(inbox[1], x)
        PROVE  Told(x, 0, Tail(inbox))
    <2> SUFFICES ASSUME x.owner = service.owner, x.revision # revision
                 PROVE  \E j \in DOMAIN Tail(inbox) :
                            /\ j > 0 /\ Tail(inbox)[j].kind = "value"
                            /\ Tail(inbox)[j].owner = service.owner
                            /\ Tail(inbox)[j].sequence > x.sequence
      BY DEF Told
    <2>1. PICK j \in DOMAIN inbox : inbox[j].kind = "value"
                                    /\ inbox[j].owner = service.owner
                                    /\ inbox[j].sequence > x.sequence
      BY <1>4 DEF Told
    <2>2. j # 1
      BY <1>4, <2>1 DEF Passed
    <2>3. j - 1 \in DOMAIN Tail(inbox) /\ Tail(inbox)[j - 1] = inbox[j] /\ j - 1 > 0
      BY <1>1, <1>2, <2>2
    <2> QED
      BY <2>1, <2>3
  <1> QED
    BY <1>3, <1>4

\* A message that is no value is seen by one more listener.
LEMMA SeenTells ==
    ASSUME NEW ms, DOMAIN ms = DOMAIN inbox, \A j \in DOMAIN inbox : j # 1 => ms[j] = inbox[j],
           inbox[1].kind # "value", NEW x, NEW i
    PROVE  Told(x, i, inbox) => Told(x, i, ms)
  BY DEF Told

LEMMA LeftTold ==
    ASSUME CommonInv, NEW listener \in {"readiness", "client"}, Arrives(listener)
    PROVE  LET ms == InboxAfter(listener)
           IN  /\ MessagesTold(inbox) => MessagesTold(ms)
               /\ inbox[1].kind # "value" =>
                    \A x : Told(x, 0, inbox) => Told(x, 0, ms)
  <1> DEFINE ms == InboxAfter(listener)
  <1>1. inbox # <<>> /\ IsSeq(inbox) /\ 1 \in DOMAIN inbox /\ Shrunk(ms)
        /\ (inbox[1].kind \in {"value", "reply"} => ms = Tail(inbox))
    BY InboxShrinks, QueuesAreSeqs DEF CommonInv, ServiceInv
  <1>2. CASE ms = Tail(inbox)
    <2>1. ASSUME MessagesTold(inbox) PROVE MessagesTold(Tail(inbox))
      <3> SUFFICES ASSUME NEW i \in DOMAIN Tail(inbox)
                   PROVE  /\ Tail(inbox)[i].kind = "value" => Told(Tail(inbox)[i], i, Tail(inbox))
                          /\ IsRead(Tail(inbox)[i]) => Told(Tail(inbox)[i].answer, i, Tail(inbox))
        BY DEF MessagesTold
      <3>1. i \in Nat /\ i + 1 \in DOMAIN inbox /\ Tail(inbox)[i] = inbox[i + 1]
        BY <1>1, SeqTail, SeqFacts
      <3>2. /\ inbox[i + 1].kind = "value" => Told(inbox[i + 1], i + 1, inbox)
            /\ IsRead(inbox[i + 1]) => Told(inbox[i + 1].answer, i + 1, inbox)
        BY <2>1, <3>1 DEF MessagesTold
      <3>3. \A x : Told(x, i + 1, inbox) => Told(x, i, Tail(inbox))
        BY <1>1, <3>1, TailTells
      <3> QED
        BY <3>1, <3>2, <3>3
    <2>2. ASSUME inbox[1].kind # "value", NEW x, Told(x, 0, inbox)
          PROVE  Told(x, 0, Tail(inbox))
      BY <1>1, <2>2, TailTells DEF Passed
    <2> QED
      BY <1>2, <2>1, <2>2
  <1>3. ASSUME NEW m, ms = [inbox EXCEPT ![1] = m], SameNews(m, inbox[1])
        PROVE  /\ MessagesTold(inbox) => MessagesTold(ms)
               /\ \A x : Told(x, 0, inbox) => Told(x, 0, ms)
    <2>1. m.kind \in {"owner", "event"} /\ inbox[1].kind \in {"owner", "event"}
      BY <1>3 DEF SameNews
    <2>2. DOMAIN ms = DOMAIN inbox /\ ms[1] = m
          /\ \A j \in DOMAIN inbox : j # 1 => ms[j] = inbox[j]
      BY <1>1, <1>3, SeqExcept
    <2> HIDE DEF ms
    <2>3. \A x, i : Told(x, i, inbox) => Told(x, i, ms)
      BY <2>1, <2>2, SeenTells
    <2>4. MessagesTold(inbox) => MessagesTold(ms)
      BY <2>1, <2>2, <2>3 DEF MessagesTold, IsRead
    <2> QED
      BY <2>3, <2>4
  <1> QED
    BY <1>1, <1>2, <1>3 DEF Shrunk

-----------------------------------------------------------------------------
(* The service moves on: no news is missed.                                *)

\* Messages follow the others, and tell what is stored now.
LEMMA SentFollow ==
    ASSUME CommonInv, Step, NothingLost'
    PROVE  \E N : /\ Grows(N)
                  /\ \A m \in N : (m.kind = "value" => m.revision = revision')
                                  /\ (IsRead(m) => m.answer.revision = revision')
  <1>1. CASE Answers
    <2>1. PICK N : Grows(N) /\ \A m \in N : Truthful(m)
      BY <1>1 DEF Answers
    <2> QED
      BY <1>1, <2>1, SentIsCurrent
  <1>2. CASE Publishes
    <2>1. PICK n \in Nat : \E N : Grows(N) /\ \A m \in N : Published(m, n)
      BY <1>2 DEF Publishes
    <2> QED
      BY <1>2, <2>1, SentIsCurrent
  <1>3. CASE Turns
    <2>1. PICK N : Grows(N) /\ \A m \in N : m.kind = "owner" \/ (m.kind = "reply" /\ m.error)
      BY <1>3 DEF Turns
    <2> QED
      BY <1>3, <2>1, SentIsCurrent
  <1>4. CASE Writes
    <2>1. PICK n \in Nat : \E N : Grows(N) /\ \A m \in N : Announced(m, n)
      BY <1>4 DEF Writes
    <2> QED
      BY <1>4, <2>1, SentIsCurrent
  <1>5. CASE Loses
    BY <1>5, NoneLost DEF Loses, NothingLost, Without
  <1> QED
    BY <1>1, <1>2, <1>3, <1>4, <1>5 DEF Step

LEMMA MessagesStayTold ==
    ASSUME CommonInv, CommonInv', Step, NothingLost', MessagesTold(inbox)
    PROVE  MessagesTold(inbox)'
  <1>1. PICK N : /\ Grows(N)
                 /\ \A m \in N : (m.kind = "value" => m.revision = revision')
                                 /\ (IsRead(m) => m.answer.revision = revision')
    BY SentFollow
  <1>2. IsSeq(inbox) /\ \A i \in DOMAIN inbox : IsTyped(inbox[i])
    BY QueuesAreSeqs, MessagesAreTyped DEF CommonInv, ServiceInv
  <1>3. ASSUME NEW i \in DOMAIN inbox', NEW m, m = inbox'[i]
        PROVE  /\ m.kind = "value" => Told(m, i, inbox)'
               /\ IsRead(m) => Told(m.answer, i, inbox)'
    <2>1. CASE i \notin DOMAIN inbox
      <3>1. m \in N
        BY <1>1, <1>3, <2>1 DEF Grows
      <3> QED
        BY <1>1, <3>1 DEF Told
    <2>2. CASE i \in DOMAIN inbox
      <3>1. m = inbox[i] /\ i \in Nat /\ i <= Len(inbox)
        BY <1>1, <1>2, <1>3, <2>2, SeqFacts DEF Grows
      <3>2. IsTyped(m) /\ ReadingMessage(m)
        BY <1>2, <2>2, <3>1 DEF CommonInv, MessagesSigned
      <3>3. ASSUME m.kind = "value" PROVE Told(m, i, inbox)'
        <4>1. m.owner \in Owners /\ m.sequence \in Nat /\ m.revision \in Nat /\ Reading(m)
          BY <3>2, <3>3, MessageIsTyped DEF ReadingMessage
        <4>2. Told(m, i, inbox)
          BY <2>2, <3>1, <3>3 DEF MessagesTold
        <4> QED
          BY <3>1, <4>1, <4>2, ToldStays
      <3>4. ASSUME IsRead(m) PROVE Told(m.answer, i, inbox)'
        <4>1. m.answer.owner \in Owners /\ m.answer.sequence \in Nat
              /\ m.answer.revision \in Nat /\ Reading(m.answer)
          <5>1. m.kind = "reply" /\ ~m.error
            BY <3>4 DEF IsRead
          <5> QED
            BY <3>2, <3>4, <5>1, MessageIsTyped DEF ReadingMessage
        <4>2. Told(m.answer, i, inbox)
          BY <2>2, <3>1, <3>4 DEF MessagesTold
        <4> QED
          BY <3>1, <4>1, <4>2, ToldStays
      <3> QED
        BY <3>3, <3>4
    <2> QED
      BY <2>1, <2>2
  <1> QED
    BY <1>3 DEF MessagesTold, IsRead, Told

LEMMA CopyStaysTold ==
    ASSUME CommonInv, CommonInv', Step, NothingLost', IsObject(client), client' = client,
           CopyTold(client, inbox)
    PROVE  CopyTold(client, inbox)'
  <1> DEFINE x == client.copy
  <1>1. CASE ~x.ready \/ client.requestInFlight
    BY <1>1 DEF CopyTold
  <1>2. CASE x.ready /\ ~client.requestInFlight
    <2>1. Told(x, 0, inbox) /\ x \in Copies /\ Reading(x)
      BY <1>2 DEF CopyTold, IsObject, IsCopy
    <2>2. x.owner \in Owners /\ x.sequence \in Nat /\ x.revision \in Nat
      BY <2>1 DEF Copies
    <2>3. 0 \in Nat /\ 0 <= Len(inbox)
      BY QueuesAreSeqs, SeqFacts DEF CommonInv, ServiceInv
    <2>4. ASSUME NEW y, y = x PROVE Told(y, 0, inbox)'
      BY <2>1, <2>2, <2>3, <2>4, ToldStays
    <2> QED
      BY <2>4 DEF CopyTold, Told
  <1> QED
    BY <1>1, <1>2

-----------------------------------------------------------------------------
(* The clients handle a message.                                           *)

PreferencesInv ==
    /\ CommonInv /\ IsObject(client) /\ IsPreference(client)
    /\ kind \in {"settings", "notifications"}
    /\ NothingLost => MessagesTold(inbox) /\ CopyTold(client, inbox)

\* What a handler of a message m may do to the operation p that is pending.
Decides(m, p, q) ==
    \/ q = p
    \/ /\ q = NoOperation
       /\ m.kind = "reply" /\ ~m.error /\ m.call.method = "Set"
       /\ m.answer.code # "BACKEND_UNAVAILABLE"

\* A signal, and nothing that the client waits for.
LEMMA SignalBegins ==
    ASSUME PreferencesInv, Arrives("client"), inbox[1].kind # "reply"
    PROVE  /\ Fair(World(readiness, <<>>), InboxAfter("client"))
           /\ inbox[1].kind # "value" => Sound(World(readiness, <<>>), InboxAfter("client"))
  <1> DEFINE w == World(readiness, <<>>)
             ms == InboxAfter("client")
  <1>1. ~Mine(inbox[1], "client", client.ownerEpoch)
    BY DEF Mine
  <1>2. Good(w, ms)
    BY <1>1, NewsBegins DEF PreferencesInv
  <1>3. w.c = client
    BY WorldIs
  <1>4. Fair(w, ms)
    BY <1>2, <1>3 DEF Fair, PreferencesInv
  <1>5. ASSUME inbox[1].kind # "value", NothingLost PROVE CopyTold(client, ms)
    <2>1. \A x : Told(x, 0, inbox) => Told(x, 0, ms)
      BY <1>5, LeftTold DEF PreferencesInv
    <2> QED
      BY <1>5, <2>1 DEF PreferencesInv, CopyTold
  <1> QED
    BY <1>3, <1>4, <1>5 DEF Sound

LEMMA OwnerIsHandled ==
    ASSUME PreferencesInv, NEW w, NEW ms, Sound(w, ms), w.c = client, NEW alive
    PROVE  /\ Sound(OnSettingsOwnerChanged(w, alive), ms)
           /\ OnSettingsOwnerChanged(w, alive).c.pending = client.pending
           /\ Sound(OnNotificationsOwnerChanged(w, alive), ms)
           /\ OnNotificationsOwnerChanged(w, alive).c.pending = client.pending
  <1>1. IsSeq(calls) /\ Fair(w, ms)
    BY QueuesAreSeqs DEF PreferencesInv, CommonInv, ServiceInv, Sound
  <1> DEFINE x == [w EXCEPT !.c.copy = NoCopy]
             y == RefreshReadiness(x)
             z == Unready(w)
  <1>2. Sound(x, ms) /\ x.c.pending = w.c.pending
    BY <1>1, ForgottenIsSound
  <1>3. Sound(y, ms) /\ y.c.pending = x.c.pending
    <2> HIDE DEF x
    <2> QED
      BY <1>1, <1>2, ReadinessRefreshIsSound
  <1>4. Sound(RefreshSettings(y), ms) /\ RefreshSettings(y).c.pending = y.c.pending
    <2> HIDE DEF x, y
    <2> QED
      BY <1>1, <1>3, RefreshSettingsIsSound DEF Sound
  <1>5. Sound(Scheduled(z), ms) /\ Scheduled(z).c.pending = w.c.pending
    <2>1. Sound(z, ms) /\ z.c.pending = w.c.pending
      BY <1>1, UnreadyIsSound
    <2> HIDE DEF z
    <2> QED
      BY <2>1, ScheduledIsSound
  <1>6. /\ OnSettingsOwnerChanged(w, alive) = IF ~alive THEN Scheduled(z) ELSE RefreshSettings(y)
        /\ OnNotificationsOwnerChanged(w, alive) = IF alive THEN y ELSE x
    BY DEF OnSettingsOwnerChanged, OnNotificationsOwnerChanged, Disconnected
  <1> HIDE DEF x, y, z
  <1> QED
    BY <1>2, <1>3, <1>4, <1>5, <1>6

\* The announcement is current or followed by another one; so is a copy that
\* is as recent.
LEMMA ValueIsHandled ==
    ASSUME PreferencesInv, Arrives("client"), inbox[1].kind = "value",
           NEW w, NEW ms, w = World(readiness, <<>>), ms = InboxAfter("client")
    PROVE  /\ Sound(OnConsentChanged(w, inbox[1]), ms)
           /\ OnConsentChanged(w, inbox[1]).c.pending = client.pending
           /\ Sound(OnNotificationsChanged(w, inbox[1]), ms)
           /\ OnNotificationsChanged(w, inbox[1]).c.pending = client.pending
  <1> DEFINE e == inbox[1]
             copy == client.copy
             result == OnConsentChanged(w, e)
  <1>1. IsSeq(calls) /\ Fair(w, ms) /\ w.c = client
    BY QueuesAreSeqs, SignalBegins, WorldIs DEF PreferencesInv, CommonInv, ServiceInv
  <1>2. inbox # <<>> /\ 1 \in DOMAIN inbox /\ IsSeq(inbox) /\ IsTyped(e) /\ ms = Tail(inbox)
    BY InboxShrinks, QueuesAreSeqs DEF PreferencesInv, CommonInv, ServiceInv
  <1>3. e.owner \in Owners /\ e.sequence \in Nat /\ e.value \in Nat /\ e.revision \in Nat
        /\ Reading(e)
    BY <1>2, MessageIsTyped DEF PreferencesInv, CommonInv, MessagesSigned, ReadingMessage
  <1>4. NothingLost => Told(e, 0, ms)
    <2>1. NothingLost => Told(e, 1, inbox)
      BY <1>2 DEF PreferencesInv, MessagesTold
    <2>2. Told(e, 1, inbox) => Told(e, 0, Tail(inbox))
      <3>1. 0 + 1 = 1
        OBVIOUS
      <3>2. Told(e, 0 + 1, inbox) => Told(e, 0, Tail(inbox))
        BY <1>2, TailTells
      <3> QED
        BY <3>1, <3>2, Zenon
    <2> QED
      BY <1>2, <2>1, <2>2
  <1>5. Sound(Unready(w), ms) /\ Fair(Unready(w), ms) /\ Unready(w).c.pending = client.pending
    BY <1>1, UnreadyIsSound DEF Sound
  <1>6. Sound(RefreshSettings(Unready(w)), ms)
        /\ RefreshSettings(Unready(w)).c.pending = client.pending
    BY <1>1, <1>5, RefreshSettingsIsSound
  <1>7. Sound(result, ms) /\ result.c.pending = client.pending
    <2>1. CASE ~copy.ready \/ client.requestInFlight
      <3>1. client.requestInFlight \/ Sound(w, ms)
        BY <1>1, <2>1 DEF Sound, CopyTold
      <3> QED
        BY <1>1, <2>1, <3>1, PostponedIsSound DEF OnConsentChanged
    <2>2. CASE ~(~copy.ready \/ client.requestInFlight) /\ e.owner # copy.owner
      BY <1>1, <1>6, <2>2 DEF OnConsentChanged
    <2>3. CASE ~(~copy.ready \/ client.requestInFlight) /\ e.owner = copy.owner
               /\ e.sequence <= copy.sequence
      <3>1. copy.sequence \in Nat
        BY DEF PreferencesInv, IsObject, IsCopy, Copies
      <3>2. NothingLost => Told(copy, 0, ms)
        BY <1>2, <1>3, <2>3, <3>1, TailTells DEF PreferencesInv, CopyTold, Passed
      <3>3. Sound(w, ms)
        BY <1>1, <3>2 DEF Sound, CopyTold
      <3> QED
        BY <1>1, <2>3, <3>3 DEF OnConsentChanged
    <2>4. CASE ~(~copy.ready \/ client.requestInFlight) /\ e.owner = copy.owner
               /\ ~(e.sequence <= copy.sequence)
               /\ (e.sequence # copy.sequence + 1 \/ e.revision # copy.revision + 1)
      BY <1>1, <1>6, <2>4 DEF OnConsentChanged
    <2>5. CASE ~(~copy.ready \/ client.requestInFlight) /\ e.owner = copy.owner
               /\ ~(e.sequence <= copy.sequence)
               /\ ~(e.sequence # copy.sequence + 1 \/ e.revision # copy.revision + 1)
      <3>1. result = TakenOver(w, e)
        BY <1>1, <2>5 DEF OnConsentChanged
      <3>2. Sound(TakenOver(w, e), ms) /\ TakenOver(w, e).c.pending = w.c.pending
        BY <1>1, <1>3, <1>4, <2>5, TakenIsSound
      <3> QED
        BY <1>1, <3>1, <3>2
    <2> QED
      BY <2>1, <2>2, <2>3, <2>4, <2>5
  <1>8. /\ Sound(OnNotificationsChanged(w, e), ms)
        /\ OnNotificationsChanged(w, e).c.pending = client.pending
    BY <1>1, MismatchedIsSound, RefreshListIsSound DEF OnNotificationsChanged
  <1> QED
    BY <1>7, <1>8


\* Every answer is one that the client waits for, as it is in one epoch.
LEMMA ReplyIsMine ==
    ASSUME PreferencesInv, Arrives("client"), inbox[1].kind = "reply"
    PROVE  /\ Mine(inbox[1], "client", client.ownerEpoch)
           /\ IsReply(inbox[1]) /\ inbox[1].call.method \in {"Get", "Set"}
           /\ inbox # <<>> /\ 1 \in DOMAIN inbox /\ IsSeq(inbox) /\ IsSeq(calls)
           /\ InboxAfter("client") = Tail(inbox)
  <1>1. inbox # <<>> /\ 1 \in DOMAIN inbox /\ IsSeq(inbox) /\ IsSeq(calls)
        /\ InboxAfter("client") = Tail(inbox) /\ inbox[1].to = {"client"}
    BY InboxShrinks, QueuesAreSeqs DEF PreferencesInv, CommonInv, ServiceInv
  <1>2. IsMessage(inbox[1], "client", client.ownerEpoch)
    BY <1>1 DEF PreferencesInv, CommonInv, ServiceInv, ClientAsks, Underway, AtMostOne, Queued
  <1>3. IsReply(inbox[1])
    BY <1>2 DEF IsMessage, IsNews
  <1>4. inbox[1].call.from = "client"
    BY <1>1, <1>3 DEF IsReply
  <1>5. inbox[1].call.epoch = client.ownerEpoch
    BY <1>2, <1>4 DEF IsMessage, IsNews, PreferencesInv, IsPreference
  <1> QED
    BY <1>1, <1>3, <1>4, <1>5 DEF Mine, IsReply, CallOf

\* The client waits for nothing, and may take the answer for a decision.
LEMMA ReplyBegins ==
    ASSUME PreferencesInv, Arrives("client"), inbox[1].kind = "reply",
           NEW w, NEW ms, w = World(readiness, <<>>), ms = InboxAfter("client")
    PROVE  /\ Fair(Idle(w), ms) /\ Idle(w).c.pending = client.pending
           /\ ~inbox[1].error => /\ Fair(Decided(Idle(w)), ms)
                                 /\ Decided(Idle(w)).c.pending = NoOperation
  <1> DEFINE u == Idle(w)
             v == Decided(u)
             c == client
  <1>1. DOMAIN w = {"r", "c", "calls"} /\ w.r = readiness /\ w.c = client /\ w.calls = <<>>
    BY WorldIs
  <1>2. DOMAIN c = PreferenceMembers /\ IsObject(c) /\ IsPreference(c)
    BY DEF PreferencesInv, IsPreference
  <1> HIDE DEF c
  <1>3. /\ DOMAIN u = {"r", "c", "calls"} /\ u.r = readiness /\ u.calls = <<>>
        /\ DOMAIN u.c = PreferenceMembers /\ u.c.ownerEpoch = c.ownerEpoch
        /\ u.c.requestInFlight = FALSE /\ u.c.refreshPending = FALSE
        /\ u.c.retryScheduled = c.retryScheduled
        /\ u.c.copy = c.copy /\ u.c.pending = c.pending
    BY <1>1, <1>2 DEF Idle, PreferenceMembers, c
  <1>4. /\ DOMAIN v = {"r", "c", "calls"} /\ v.r = readiness /\ v.calls = <<>>
        /\ DOMAIN v.c = PreferenceMembers /\ v.c.ownerEpoch = c.ownerEpoch
        /\ v.c.requestInFlight = FALSE /\ v.c.refreshPending = FALSE
        /\ v.c.retryScheduled = c.retryScheduled
        /\ v.c.copy = c.copy /\ v.c.pending = NoOperation
    <2> HIDE DEF u
    <2> QED
      BY <1>3 DEF Decided, PreferenceMembers
  <1> HIDE DEF u, v
  <1>5. IsWorld(u) /\ IsPreference(u.c) /\ IsWorld(v) /\ IsPreference(v.c)
        /\ ~u.c.requestInFlight /\ ~v.c.requestInFlight
    BY <1>2, <1>3, <1>4 DEF IsWorld, IsObject, IsPreference, Members, PreferenceMembers
  <1>6. Mine(inbox[1], "client", client.ownerEpoch) /\ CommonInv
    BY ReplyIsMine DEF PreferencesInv
  <1>7. Good(u, ms)
    BY <1>3, <1>5, <1>6, AnswerBegins DEF c
  <1>8. ~inbox[1].error => Good(v, ms)
    BY <1>4, <1>5, <1>6, AnswerBegins DEF c
  <1> QED
    BY <1>3, <1>4, <1>5, <1>7, <1>8 DEF Fair, u, v, c

\* A read that was answered says what is current or will be replaced.
LEMMA ReadIsShown ==
    ASSUME PreferencesInv, Arrives("client"), NEW m, m = inbox[1], m.kind = "reply",
           m.call.method = "Get", ~m.error, m.answer.code = "OK",
           NEW w, NEW ms, w = World(readiness, <<>>), ms = InboxAfter("client")
    PROVE  Sound(Shown(Idle(w), m.answer), ms) /\ Shown(Idle(w), m.answer).c.pending = client.pending
  <1> DEFINE a == m.answer
             u == Idle(w)
  <1>1. IsReply(m) /\ inbox # <<>> /\ 1 \in DOMAIN inbox /\ IsSeq(inbox) /\ ms = Tail(inbox)
    BY ReplyIsMine
  <1>2. IsRead(m)
    BY DEF IsRead
  <1>3. a.owner \in Owners /\ a.sequence \in Nat /\ a.value \in Nat /\ a.revision \in Nat
        /\ Reading(a)
    BY <1>1, <1>2, MessageIsTyped
       DEF IsTyped, PreferencesInv, CommonInv, MessagesSigned, ReadingMessage
  <1>4. NothingLost => Told(a, 0, ms)
    <2>1. NothingLost => Told(a, 1, inbox)
      BY <1>1, <1>2 DEF PreferencesInv, MessagesTold
    <2>2. Told(a, 1, inbox) => Told(a, 0, Tail(inbox))
      <3>1. 0 + 1 = 1
        OBVIOUS
      <3>2. Told(a, 0 + 1, inbox) => Told(a, 0, Tail(inbox))
        BY <1>1, TailTells
      <3> QED
        BY <3>1, <3>2, Zenon
    <2> QED
      BY <1>1, <2>1, <2>2
  <1>5. Fair(u, ms) /\ u.c.pending = client.pending
    BY ReplyBegins
  <1> HIDE DEF u, a
  <1>6. Sound(Shown(u, a), ms) /\ Shown(u, a).c.pending = u.c.pending
    BY <1>3, <1>4, <1>5, ShownIsSound
  <1> QED
    BY <1>5, <1>6 DEF u, a

\* What handlers of a reply make of a client that waits for nothing.
LEMMA AfterReply ==
    ASSUME IsSeq(calls), NEW u, NEW ms, Fair(u, ms), NEW p, u.c.pending = p
    PROVE  /\ Sound(Unready(u), ms) /\ Unready(u).c.pending = p
           /\ Sound(Scheduled(Unready(u)), ms) /\ Scheduled(Unready(u)).c.pending = p
           /\ Sound(RefreshSettings(Unready(u)), ms) /\ RefreshSettings(Unready(u)).c.pending = p
           /\ Sound(RefreshReadiness(Unready(u)), ms) /\ RefreshReadiness(Unready(u)).c.pending = p
           /\ Sound(RequestList(Unready(u)), ms) /\ RequestList(Unready(u)).c.pending = p
           /\ Sound(RefreshList(Unready(u)), ms) /\ RefreshList(Unready(u)).c.pending = p
           /\ Sound(RefreshList(Scheduled(Unready(u))), ms)
           /\ RefreshList(Scheduled(Unready(u))).c.pending = p
           /\ Sound(Mismatched(u), ms) /\ Mismatched(u).c.pending = p
  <1> DEFINE x == Unready(u)
             y == Scheduled(x)
  <1>1. Sound(x, ms) /\ Fair(x, ms) /\ x.c.pending = p
    BY UnreadyIsSound DEF Sound
  <1>2. Sound(y, ms) /\ Fair(y, ms) /\ y.c.pending = p
    <2> HIDE DEF x
    <2> QED
      BY <1>1, ScheduledIsSound DEF Sound
  <1>3. Sound(Mismatched(u), ms) /\ Mismatched(u).c.pending = p
    BY MismatchedIsSound
  <1> HIDE DEF x, y
  <1>4. /\ Sound(RefreshSettings(x), ms) /\ RefreshSettings(x).c.pending = p
        /\ Sound(RefreshReadiness(x), ms) /\ RefreshReadiness(x).c.pending = p
    BY <1>1, RefreshSettingsIsSound, ReadinessRefreshIsSound
  <1>5. /\ Sound(RequestList(x), ms) /\ RequestList(x).c.pending = p
        /\ Sound(RefreshList(x), ms) /\ RefreshList(x).c.pending = p
        /\ Sound(RefreshList(y), ms) /\ RefreshList(y).c.pending = p
    BY <1>1, <1>2, RequestListIsSound, RefreshListIsSound
  <1> QED
    BY <1>1, <1>2, <1>3, <1>4, <1>5 DEF x, y


\* The four handlers of a reply, with what they may decide.
Finishes(u, m, ms) == Sound(u, ms) /\ Decides(m, client.pending, u.c.pending)

LEMMA ConsentReadFinishes ==
    ASSUME PreferencesInv, Arrives("client"), NEW m, m = inbox[1], m.kind = "reply",
           m.call.method = "Get",
           NEW w, NEW ms, w = World(readiness, <<>>), ms = InboxAfter("client")
    PROVE  Finishes(FinishConsentRead(w, m), m, ms)
  <1> DEFINE u == Idle(w)
             x == Shown(u, m.answer)
             result == FinishConsentRead(w, m)
  <1>1. IsSeq(calls) /\ Fair(u, ms) /\ u.c.pending = client.pending
    BY ReplyIsMine, ReplyBegins
  <1>2. CASE ~m.error /\ m.answer.code = "OK"
    <2>1. Sound(x, ms) /\ x.c.pending = client.pending
      BY <1>2, ReadIsShown
    <2> HIDE DEF u, x
    <2>2. Sound(SubmitPendingConsent(x), ms) /\ SubmitPendingConsent(x).c.pending = client.pending
      BY <1>1, <2>1, SubmitPendingConsentIsSound
    <2>3. \/ result = RefreshSettings(Unready(u)) \/ result = Unready(u)
          \/ result = RefreshReadiness(Unready(u)) \/ result = SubmitPendingConsent(x)
      BY <1>2, Zenon DEF FinishConsentRead, u, x
    <2> HIDE DEF result
    <2>4. Sound(result, ms) /\ result.c.pending = client.pending
      BY <1>1, <2>2, <2>3, AfterReply
    <2> QED
      BY <2>4 DEF Finishes, Decides, result
  <1>3. CASE ~(~m.error /\ m.answer.code = "OK")
    <2> HIDE DEF u, x
    <2>1. \/ result = RefreshSettings(Unready(u)) \/ result = Unready(u)
          \/ result = Scheduled(Unready(u))
      BY <1>3, Zenon DEF FinishConsentRead, Disconnected, u
    <2> HIDE DEF result
    <2>2. Sound(result, ms) /\ result.c.pending = client.pending
      BY <1>1, <2>1, AfterReply
    <2> QED
      BY <2>2 DEF Finishes, Decides, result
  <1> QED
    BY <1>2, <1>3

LEMMA ConsentWriteFinishes ==
    ASSUME PreferencesInv, Arrives("client"), NEW m, m = inbox[1], m.kind = "reply",
           m.call.method = "Set",
           NEW w, NEW ms, w = World(readiness, <<>>), ms = InboxAfter("client")
    PROVE  Finishes(FinishConsentWrite(w, m), m, ms)
  <1> DEFINE u == Idle(w)
             v == Decided(u)
             result == FinishConsentWrite(w, m)
  <1>1. IsSeq(calls) /\ Fair(u, ms) /\ u.c.pending = client.pending
    BY ReplyIsMine, ReplyBegins
  <1>2. ~m.error => Fair(v, ms) /\ v.c.pending = NoOperation
    BY ReplyBegins
  <1> HIDE DEF u, v
  <1>3. \/ result = RefreshSettings(Unready(u)) \/ result = Scheduled(Unready(u))
        \/ ~m.error /\ m.answer.code # "BACKEND_UNAVAILABLE" /\ result = RefreshSettings(Unready(v))
    <2>1. CASE m.error
      BY <2>1, Zenon DEF FinishConsentWrite, Disconnected, u
    <2>2. CASE ~m.error /\ Undecided(m)
      BY <2>2, Zenon DEF FinishConsentWrite, u
    <2>3. CASE ~m.error /\ ~Undecided(m)
      <3>1. m.answer.code # "BACKEND_UNAVAILABLE"
        BY <2>3 DEF Undecided
      <3> QED
        BY <2>3, <3>1, Zenon DEF FinishConsentWrite, u, v
    <2> QED
      BY <2>1, <2>2, <2>3
  <1> HIDE DEF result
  <1>4. /\ Sound(RefreshSettings(Unready(u)), ms)
        /\ RefreshSettings(Unready(u)).c.pending = client.pending
        /\ Sound(Scheduled(Unready(u)), ms) /\ Scheduled(Unready(u)).c.pending = client.pending
    BY <1>1, AfterReply
  <1>5. ~m.error => /\ Sound(RefreshSettings(Unready(v)), ms)
                    /\ RefreshSettings(Unready(v)).c.pending = NoOperation
    BY <1>1, <1>2, AfterReply
  <1> QED
    BY <1>3, <1>4, <1>5 DEF Finishes, Decides, result

LEMMA ListFinishes ==
    ASSUME PreferencesInv, Arrives("client"), NEW m, m = inbox[1], m.kind = "reply",
           m.call.method = "Get",
           NEW w, NEW ms, w = World(readiness, <<>>), ms = InboxAfter("client")
    PROVE  Finishes(FinishList(w, m), m, ms)
  <1> DEFINE u == Idle(w)
             x == Shown(u, m.answer)
             result == FinishList(w, m)
  <1>1. IsSeq(calls) /\ Fair(u, ms) /\ u.c.pending = client.pending
    BY ReplyIsMine, ReplyBegins
  <1>2. \/ result = RefreshList(Scheduled(Unready(u))) \/ result = Scheduled(Unready(u))
        \/ result = Unready(u) \/ result = RequestList(Unready(u)) \/ result = Mismatched(u)
        \/ ~m.error /\ m.answer.code = "OK" /\ result = RequestMutation(x)
    <2> HIDE DEF u, x
    <2>1. CASE m.error
      BY <2>1, Zenon DEF FinishList, Failed, u
    <2>2. CASE ~m.error /\ m.answer.code # "OK"
      BY <2>2, Zenon DEF FinishList, u
    <2>3. CASE ~m.error /\ m.answer.code = "OK"
      BY <2>3, Zenon DEF FinishList, u, x
    <2> QED
      BY <2>1, <2>2, <2>3
  <1>3. ~m.error /\ m.answer.code = "OK" => Sound(x, ms) /\ x.c.pending = client.pending
    BY ReadIsShown
  <1> HIDE DEF u, x
  <1>4. ~m.error /\ m.answer.code = "OK" =>
            Sound(RequestMutation(x), ms) /\ RequestMutation(x).c.pending = client.pending
    BY <1>1, <1>3, RequestMutationIsSound
  <1> HIDE DEF result
  <1>5. Sound(result, ms) /\ result.c.pending = client.pending
    BY <1>1, <1>2, <1>4, AfterReply
  <1> QED
    BY <1>5 DEF Finishes, Decides, result

\* An answer that is signed like the list is none of a service that is not
\* READY: that one leaves its answers unsigned.
LEMMA MarkReadFinishes ==
    ASSUME PreferencesInv, kind = "notifications",
           Arrives("client"), NEW m, m = inbox[1], m.kind = "reply", m.call.method = "Set",
           NEW w, NEW ms, w = World(readiness, <<>>), ms = InboxAfter("client")
    PROVE  Finishes(FinishMarkRead(w, m), m, ms)
  <1> DEFINE u == Idle(w)
             v == Decided(u)
             result == FinishMarkRead(w, m)
  <1>1. IsSeq(calls) /\ Fair(u, ms) /\ u.c.pending = client.pending
    BY ReplyIsMine, ReplyBegins
  <1>2. ~m.error => Fair(v, ms) /\ v.c.pending = NoOperation
    BY ReplyBegins
  <1>3. ~m.error /\ SignedAlike(w, m) => m.answer.code # "BACKEND_UNAVAILABLE"
    <2> SUFFICES ASSUME ~m.error, SignedAlike(w, m), m.answer.code = "BACKEND_UNAVAILABLE"
                 PROVE  FALSE
      OBVIOUS
    <2>1. w.r = readiness /\ w.c = client
      BY WorldIs
    <2>2. readiness.available /\ m.answer.owner = readiness.snapshot.owner
      BY <2>1 DEF SignedAlike, CanUse, Matches, IsReady
    <2>3. readiness.snapshot.owner.uuid # 0
      BY <2>2 DEF PreferencesInv, CommonInv, IsReadiness
    <2>4. SignedMessage(m)
      BY ReplyIsMine DEF PreferencesInv, CommonInv, MessagesSigned
    <2>5. m.answer.owner = NoOwner
      BY <2>4 DEF SignedMessage
    <2> QED
      BY <2>2, <2>3, <2>5 DEF NoOwner
  <1> HIDE DEF u, v
  <1>4. \/ result = RefreshList(Scheduled(Unready(u))) \/ result = Scheduled(Unready(u))
        \/ result = Unready(u) \/ result = Mismatched(u)
        \/ ~m.error /\ m.answer.code # "BACKEND_UNAVAILABLE" /\ result = RefreshList(Unready(v))
    <2>1. CASE m.error
      BY <2>1, Zenon DEF FinishMarkRead, Failed, u
    <2>2. CASE ~m.error
      BY <1>3, <2>2, Zenon DEF FinishMarkRead, u, v
    <2> QED
      BY <2>1, <2>2
  <1> HIDE DEF result
  <1>5. /\ Sound(RefreshList(Scheduled(Unready(u))), ms)
        /\ RefreshList(Scheduled(Unready(u))).c.pending = client.pending
        /\ Sound(Scheduled(Unready(u)), ms) /\ Scheduled(Unready(u)).c.pending = client.pending
        /\ Sound(Unready(u), ms) /\ Unready(u).c.pending = client.pending
        /\ Sound(Mismatched(u), ms) /\ Mismatched(u).c.pending = client.pending
    BY <1>1, AfterReply
  <1>6. ~m.error => /\ Sound(RefreshList(Unready(v)), ms)
                    /\ RefreshList(Unready(v)).c.pending = NoOperation
    BY <1>1, <1>2, AfterReply
  <1> QED
    BY <1>4, <1>5, <1>6 DEF Finishes, Decides, result

\* Whatever the message, the client ends well and decides at most what was
\* answered.
LEMMA MessageIsHandled ==
    ASSUME PreferencesInv, Arrives("client"), NEW w, NEW ms, w = World(readiness, <<>>),
           ms = InboxAfter("client")
    PROVE  Finishes(OnClientMessage(w, inbox[1]), inbox[1], ms)
  <1> DEFINE m == inbox[1]
  <1>1. m.kind \in {"owner", "event", "value", "reply"} /\ IsTyped(m) /\ "client" \in m.to
    BY InboxShrinks, MessageIsTyped DEF PreferencesInv
  <1>2. m.kind # "event"
    BY <1>1, ObserversAssumption DEF IsTyped, IsNews, IsReply
  <1>3. w.c = client
    BY WorldIs
  <1>4. CASE m.kind = "owner"
    <2>1. Sound(w, ms)
      BY <1>4, SignalBegins
    <2>2. OnClientMessage(w, m) = IF kind = "settings" THEN OnSettingsOwnerChanged(w, m.alive)
                                                     ELSE OnNotificationsOwnerChanged(w, m.alive)
      BY <1>4 DEF OnClientMessage, SettingsOnMessage, NotificationsOnMessage
    <2> QED
      BY <1>3, <2>1, <2>2, OwnerIsHandled DEF Finishes, Decides
  <1>5. CASE m.kind = "value"
    <2>1. OnClientMessage(w, m) = IF kind = "settings" THEN OnConsentChanged(w, m)
                                                     ELSE OnNotificationsChanged(w, m)
      BY <1>5 DEF OnClientMessage, SettingsOnMessage, NotificationsOnMessage
    <2> QED
      BY <1>5, <2>1, ValueIsHandled DEF Finishes, Decides
  <1>6. CASE m.kind = "reply" /\ m.call.method = "Get"
    <2>1. OnClientMessage(w, m) = IF kind = "settings" THEN FinishConsentRead(w, m)
                                                     ELSE FinishList(w, m)
      BY <1>6 DEF OnClientMessage, SettingsOnMessage, NotificationsOnMessage
    <2> QED
      BY <1>6, <2>1, ConsentReadFinishes, ListFinishes
  <1>7. CASE m.kind = "reply" /\ m.call.method = "Set"
    <2>1. OnClientMessage(w, m) = IF kind = "settings" THEN FinishConsentWrite(w, m)
                                                     ELSE FinishMarkRead(w, m)
      BY <1>7 DEF OnClientMessage, SettingsOnMessage, NotificationsOnMessage
    <2> QED
      BY <1>7, <2>1, ConsentWriteFinishes, MarkReadFinishes DEF PreferencesInv
  <1> QED
    BY <1>1, <1>2, <1>4, <1>5, <1>6, <1>7, ReplyIsMine

-----------------------------------------------------------------------------
(* Every step keeps the invariant.                                         *)

LEMMA WorldEndsSound ==
    ASSUME PreferencesInv, NEW u, NEW ms, Sound(u, ms), Becomes(u), inbox' = ms,
           MessagesSigned(ms), NothingLost => MessagesTold(ms),
           UNCHANGED <<service, persistedGeneration, value, revision, log, kind>>,
           BusKnown', Started' = Started, Outcomes', NothingLost' => NothingLost
    PROVE  PreferencesInv'
  <1>1. CommonInv' /\ IsObject(client)'
    BY WorldEnds DEF PreferencesInv, Sound, Fair
  <1>2. client' = u.c
    BY DEF Becomes
  <1>3. IsPreference(client)'
    BY <1>2 DEF Sound, Fair, IsPreference
  <1>4. ASSUME NothingLost' PROVE MessagesTold(inbox)' /\ CopyTold(client, inbox)'
    <2>1. MessagesTold(ms) /\ CopyTold(u.c, ms)
      BY <1>4 DEF Sound
    <2> QED
      BY <1>2, <2>1 DEF MessagesTold, CopyTold, Told, IsRead
  <1> QED
    BY <1>1, <1>3, <1>4 DEF PreferencesInv

\* A step of the client process leaves the service as it is.
LEMMA ServiceIsLeft ==
    ASSUME PreferencesInv, UNCHANGED <<service, persistedGeneration, spent>>
    PROVE  BusKnown' /\ Started' = Started /\ (NothingLost' => NothingLost)
  <1>1. BusKnown
    BY DEF PreferencesInv, CommonInv, ServiceInv
  <1> QED
    BY <1>1, NoneLost DEF BusKnown, Started, Alive, NothingLost, Without

LEMMA ClientTurnIsSafe == ASSUME PreferencesInv, ClientTurn PROVE PreferencesInv'
  <1>1. PICK w, ms, m : w = World(readiness, <<>>) /\ ms = InboxAfter("client") /\ m = inbox[1]
    OBVIOUS
  <1>2. PICK u : u = OnClientMessage(w, m)
    OBVIOUS
  <1>3. /\ Arrives("client") /\ Becomes(u) /\ inbox' = ms
        /\ resolved' = IF client'.pending = client.pending THEN resolved
                       ELSE [resolved EXCEPT ![client.pending.op] = m.answer.code]
        /\ UNCHANGED <<service, persistedGeneration, spent, registerVars, kind, issued>>
    BY <1>1, <1>2 DEF ClientTurn, ClientHandles
  <1>4. Sound(u, ms) /\ Decides(m, client.pending, u.c.pending)
    BY <1>1, <1>2, <1>3, MessageIsHandled DEF Finishes
  <1>5. client'.pending = u.c.pending
    BY <1>3 DEF Becomes
  <1>6. Outcomes /\ UNCHANGED <<issued, value, revision, log, kind>>
    BY <1>3 DEF PreferencesInv, CommonInv, ServiceInv, registerVars
  <1>7. Outcomes'
    <2>1. CASE client'.pending = client.pending
      BY <1>3, <1>6, <2>1, OutcomesStay
    <2>2. CASE client'.pending # client.pending
      <3>1. /\ client'.pending = NoOperation /\ client.pending # NoOperation
            /\ m.kind = "reply" /\ ~m.error /\ m.call.method = "Set"
            /\ m.answer.code # "BACKEND_UNAVAILABLE"
        BY <1>4, <1>5, <2>2 DEF Decides
      <3>2. Mine(m, "client", client.ownerEpoch) /\ 1 \in DOMAIN inbox
        BY <1>1, <1>3, <3>1, ReplyIsMine
      <3>3. TellsTruth(m, client.pending, log)
        BY <1>1, <3>1, <3>2
           DEF PreferencesInv, CommonInv, ServiceInv, ClientAsks, Underway, AtMostOne, AnswersDecide
      <3>4. resolved' = [resolved EXCEPT ![client.pending.op] = m.answer.code]
        BY <1>3, <2>2
      <3> QED
        BY <1>6, <3>1, <3>3, <3>4, OperationIsDecided
    <2> QED
      BY <2>1, <2>2
  <1>8. MessagesSigned(ms) /\ (NothingLost => MessagesTold(ms))
    BY <1>1, <1>3, ReadinessKeepsWaiting, LeftTold DEF PreferencesInv
  <1> QED
    BY <1>3, <1>4, <1>6, <1>7, <1>8, ServiceIsLeft, WorldEndsSound

LEMMA ReadinessChangeIsSound ==
    ASSUME IsSeq(calls), NEW w, NEW ms, Sound(w, ms)
    PROVE  Sound(OnReadinessChanged(w), ms) /\ OnReadinessChanged(w).c.pending = w.c.pending
  <1> DEFINE x == Unready(w)
  <1>1. Fair(w, ms)
    BY DEF Sound
  <1>2. Sound(x, ms) /\ Fair(x, ms) /\ x.c.pending = w.c.pending
    BY <1>1, UnreadyIsSound DEF Sound
  <1>3. Sound(RefreshSettings(w), ms) /\ RefreshSettings(w).c.pending = w.c.pending
    BY <1>1, RefreshSettingsIsSound
  <1>4. Sound(RefreshList(x), ms) /\ RefreshList(x).c.pending = w.c.pending
    <2> HIDE DEF x
    <2> QED
      BY <1>2, RefreshListIsSound
  <1> HIDE DEF x
  <1>5. \/ OnReadinessChanged(w) = x \/ OnReadinessChanged(w) = w
        \/ OnReadinessChanged(w) = RefreshSettings(w) \/ OnReadinessChanged(w) = RefreshList(x)
    BY Zenon DEF OnReadinessChanged, SettingsReadinessChanged, NotificationsReadinessChanged, x
  <1> QED
    BY <1>2, <1>3, <1>4, <1>5

LEMMA ReadinessTurnIsSafe == ASSUME PreferencesInv, ReadinessTurn PROVE PreferencesInv'
  <1>1. PICK ms, result : ms = InboxAfter("readiness") /\ result = OnMessage(readiness, inbox[1])
    OBVIOUS
  <1>2. PICK w : w = World(result.state, result.calls)
    OBVIOUS
  <1>3. PICK u : u = IF result.changed THEN OnReadinessChanged(w) ELSE w
    OBVIOUS
  <1>4. /\ Arrives("readiness") /\ Becomes(u) /\ inbox' = ms
        /\ UNCHANGED <<service, persistedGeneration, spent, registerVars, kind, issued, resolved>>
    BY <1>1, <1>2, <1>3 DEF ReadinessTurn, ReadinessHandles
  <1>5. IsSeq(calls) /\ inbox[1].kind # "value"
    <2>1. IsTyped(inbox[1]) /\ "readiness" \in inbox[1].to /\ IsSeq(calls)
      BY <1>4, InboxShrinks, QueuesAreSeqs DEF PreferencesInv, CommonInv, ServiceInv
    <2> QED
      BY <2>1 DEF IsTyped, IsNews, IsReply
  <1>6. w.c = client
    BY <1>2, WorldIs
  <1>7. Sound(w, ms)
    <2>1. Good(w, ms)
      BY <1>1, <1>2, <1>4, ReadinessBegins DEF PreferencesInv
    <2>2. NothingLost => CopyTold(client, ms)
      BY <1>1, <1>4, <1>5, LeftTold DEF PreferencesInv, CopyTold
    <2> QED
      BY <1>6, <2>1, <2>2 DEF Sound, Fair, PreferencesInv
  <1>8. Sound(u, ms) /\ u.c.pending = client.pending
    BY <1>3, <1>5, <1>6, <1>7, ReadinessChangeIsSound
  <1>9. client'.pending = client.pending /\ UNCHANGED <<issued, value, revision, log, kind>>
    BY <1>4, <1>8 DEF Becomes, registerVars
  <1>10. Outcomes'
    BY <1>4, <1>9, OutcomesStay DEF PreferencesInv, CommonInv, ServiceInv
  <1>11. MessagesSigned(ms) /\ (NothingLost => MessagesTold(ms))
    BY <1>1, <1>4, LeftMessages, LeftTold DEF PreferencesInv
  <1> QED
    BY <1>4, <1>8, <1>9, <1>10, <1>11, ServiceIsLeft, WorldEndsSound

\* The user or the timer acts, with the messages as they are.
LEMMA ActingBegins ==
    ASSUME PreferencesInv, NEW w, w = World(readiness, <<>>)
    PROVE  /\ Sound(w, inbox) /\ Fair(w, inbox) /\ w.c = client /\ IsSeq(calls)
           /\ MessagesSigned(inbox) /\ (NothingLost => MessagesTold(inbox))
  <1>1. Good(w, inbox) /\ w.c = client
    BY IdleBegins, WorldIs DEF PreferencesInv
  <1> QED
    BY <1>1, QueuesAreSeqs DEF PreferencesInv, CommonInv, ServiceInv, Sound, Fair

LEMMA TimerIsSafe == ASSUME PreferencesInv, TimerFires PROVE PreferencesInv'
  <1>1. PICK w : w = World(readiness, <<>>)
    OBVIOUS
  <1>2. PICK u : u = IF kind = "settings" THEN SettingsRetry(w) ELSE NotificationsRetry(w)
    OBVIOUS
  <1>3. /\ Becomes(u) /\ inbox' = inbox
        /\ UNCHANGED <<service, persistedGeneration, spent, registerVars, kind, issued, resolved>>
    BY <1>1, <1>2 DEF TimerFires
  <1>4. Sound(w, inbox) /\ Fair(w, inbox) /\ w.c = client /\ IsSeq(calls)
    BY <1>1, ActingBegins
  <1> DEFINE off == FALSE
             fired == [w EXCEPT !.c.retryScheduled = off]
  <1>5. Changed(w, fired, "retryScheduled", off) /\ off \in BOOLEAN
    BY <1>4, MembersChange
  <1>6. u = fired \/ u = RefreshSettings(fired) \/ u = RefreshList(fired)
    <2>1. CASE kind = "settings"
      BY <1>2, <2>1, Zenon DEF SettingsRetry
    <2>2. CASE kind # "settings"
      BY <1>2, <2>2, Zenon DEF NotificationsRetry
    <2> QED
      BY <2>1, <2>2
  <1> HIDE DEF off, fired
  <1>7. Sound(fired, inbox) /\ Fair(fired, inbox) /\ fired.c.pending = client.pending
    BY <1>4, <1>5, FlagsKeep DEF Sound
  <1>8. Sound(u, inbox) /\ u.c.pending = client.pending
    BY <1>4, <1>6, <1>7, RefreshSettingsIsSound, RefreshListIsSound
  <1>9. client'.pending = client.pending /\ UNCHANGED <<issued, value, revision, log, kind>>
    BY <1>3, <1>8 DEF Becomes, registerVars
  <1>10. Outcomes'
    BY <1>3, <1>9, OutcomesStay DEF PreferencesInv, CommonInv, ServiceInv
  <1>11. BusKnown' /\ Started' = Started /\ (NothingLost' => NothingLost)
    BY <1>3, ServiceIsLeft
  <1> QED
    BY <1>1, <1>3, <1>8, <1>9, <1>10, <1>11, ActingBegins, WorldEndsSound

LEMMA RefreshIsSafe == ASSUME PreferencesInv, UserRefreshes PROVE PreferencesInv'
  <1>1. PICK w : w = World(readiness, <<>>)
    OBVIOUS
  <1>2. PICK u : u = RefreshList(w)
    OBVIOUS
  <1>3. /\ Becomes(u) /\ inbox' = inbox /\ Spend("operation")
        /\ UNCHANGED <<service, persistedGeneration, registerVars, kind, issued, resolved>>
    BY <1>1, <1>2 DEF UserRefreshes
  <1>4. Fair(w, inbox) /\ w.c = client /\ IsSeq(calls)
    BY <1>1, ActingBegins
  <1>5. Sound(u, inbox) /\ u.c.pending = client.pending
    BY <1>2, <1>4, RefreshListIsSound
  <1>6. client'.pending = client.pending /\ UNCHANGED <<issued, value, revision, log, kind>>
    BY <1>3, <1>5 DEF Becomes, registerVars
  <1>7. Outcomes'
    BY <1>3, <1>6, OutcomesStay DEF PreferencesInv, CommonInv, ServiceInv
  <1>8. BusKnown /\ "operation" \in Spendable /\ "operation" # "start" /\ "lost" \in Spendable
    BY DEF PreferencesInv, CommonInv, ServiceInv, Spendable
  <1>9. BusKnown' /\ Started' = Started
    BY <1>3, <1>8, BusMoves
  <1>10. NothingLost' => NothingLost
    BY <1>3, <1>8, Spends DEF BusKnown, NothingLost, Without
  <1> QED
    BY <1>1, <1>3, <1>5, <1>6, <1>7, <1>9, <1>10, ActingBegins, WorldEndsSound


\* The user asks for something new: the copy it is based on is dropped, and
\* the first attempt leaves at once.
LEMMA ChangeBegins ==
    ASSUME PreferencesInv, client.copy.ready, ~client.requestInFlight,
           client.pending = NoOperation, NEW w, w = World(readiness, <<>>), NEW asked
    PROVE  LET u == [w EXCEPT !.c.pending = asked]
           IN  Sound(u, inbox) /\ u.c.pending = asked
  <1> DEFINE u == [w EXCEPT !.c.pending = asked]
  <1>1. Sound(w, inbox) /\ Fair(w, inbox) /\ w.c = client
    BY ActingBegins
  <1>2. w.r = readiness /\ w.calls = <<>> /\ DOMAIN w = {"r", "c", "calls"}
    BY WorldIs
  <1>3. Changed(w, u, "pending", asked)
    BY <1>1, MembersChange
  <1> HIDE DEF u
  <1>4. DOMAIN client = PreferenceMembers /\ IsObject(client)
    BY DEF PreferencesInv, IsPreference
  <1>5. /\ DOMAIN u = {"r", "c", "calls"} /\ u.r = readiness /\ u.calls = <<>>
        /\ DOMAIN u.c = PreferenceMembers /\ u.c.pending = asked
        /\ u.c.ownerEpoch = client.ownerEpoch /\ u.c.requestInFlight = client.requestInFlight
        /\ u.c.refreshPending = client.refreshPending /\ u.c.copy = client.copy
        /\ u.c.retryScheduled = client.retryScheduled
    BY <1>1, <1>2, <1>3, <1>4 DEF Changed, PreferenceMembers
  <1>6. IsWorld(u) /\ IsPreference(u.c)
    BY <1>4, <1>5 DEF IsWorld, IsObject, Members, PreferenceMembers, IsPreference, PreferencesInv
  <1>7. Good(u, inbox)
    BY <1>5, <1>6, OperationBeginsWell DEF PreferencesInv
  <1>8. Sound(u, inbox)
    BY <1>1, <1>5, <1>6, <1>7 DEF Sound, Fair, CopyTold
  <1> QED
    BY <1>5, <1>8 DEF u

LEMMA ChangeEnds ==
    ASSUME PreferencesInv, NEW u, Sound(u, inbox), Becomes(u), inbox' = inbox,
           client.pending = NoOperation, NEW v \in WrittenValues, NEW e \in Nat,
           u.c.pending = [op |-> issued + 1, value |-> v, expected |-> e],
           issued < spent.limits["operation"], issued' = issued + 1,
           UNCHANGED <<service, persistedGeneration, spent, registerVars, kind, resolved>>
    PROVE  PreferencesInv'
  <1>1. client'.pending = [op |-> issued + 1, value |-> v, expected |-> e]
    BY DEF Becomes
  <1>2. Outcomes /\ spent.limits \in Limits /\ UNCHANGED <<value, revision, log>>
    BY DEF PreferencesInv, CommonInv, ServiceInv, BusKnown, registerVars
  <1>3. Outcomes'
    BY <1>1, <1>2, OperationIsIssued
  <1>4. BusKnown' /\ Started' = Started /\ (NothingLost' => NothingLost)
    BY ServiceIsLeft
  <1>5. MessagesSigned(inbox) /\ (NothingLost => MessagesTold(inbox))
    BY DEF PreferencesInv, CommonInv
  <1> QED
    BY <1>2, <1>3, <1>4, <1>5, WorldEndsSound

LEMMA ConsentChangeIsSafe ==
    ASSUME PreferencesInv, kind = "settings", NEW v \in {0, 1}, SetProductTelemetryConsent(v)
    PROVE  PreferencesInv'
  <1>1. PICK w : w = World(readiness, <<>>)
    OBVIOUS
  <1>2. PICK asked : asked = [op |-> issued + 1, value |-> v, expected |-> client.copy.revision]
    OBVIOUS
  <1> DEFINE x == [w EXCEPT !.c.pending = asked]
  <1>3. PICK u : u = SubmitPendingConsent(x)
    OBVIOUS
  <1>4. /\ client.copy.ready /\ ~client.requestInFlight /\ client.pending = NoOperation
        /\ issued < spent.limits["operation"] /\ issued' = issued + 1
        /\ Becomes(u) /\ inbox' = inbox
        /\ UNCHANGED <<service, persistedGeneration, spent, registerVars, kind, resolved>>
    BY <1>1, <1>2, <1>3 DEF SetProductTelemetryConsent
  <1>5. Sound(x, inbox) /\ x.c.pending = asked /\ IsSeq(calls)
    BY <1>1, <1>4, ChangeBegins, ActingBegins
  <1> HIDE DEF x
  <1>6. Sound(u, inbox) /\ u.c.pending = asked
    BY <1>3, <1>5, SubmitPendingConsentIsSound
  <1>7. client.copy.revision \in Nat
    BY DEF PreferencesInv, IsObject, IsCopy, Copies
  <1>8. v \in WrittenValues
    BY DEF WrittenValues
  <1> QED
    BY <1>2, <1>4, <1>6, <1>7, <1>8, ChangeEnds

LEMMA MarkReadIsSafe ==
    ASSUME PreferencesInv, kind = "notifications", MarkRead PROVE PreferencesInv'
  <1>1. PICK w : w = World(readiness, <<>>)
    OBVIOUS
  <1>2. PICK v, e : v = client.copy.value - 1 /\ e = client.copy.revision
    OBVIOUS
  <1>3. PICK asked : asked = [op |-> issued + 1, value |-> v, expected |-> e]
    OBVIOUS
  <1> DEFINE x == [w EXCEPT !.c.pending = asked]
  <1>4. PICK u : u = RequestMutation(x)
    OBVIOUS
  <1>5. /\ client.copy.ready /\ ~client.requestInFlight /\ client.pending = NoOperation
        /\ client.copy.value > 0
        /\ issued < spent.limits["operation"] /\ issued' = issued + 1
        /\ Becomes(u) /\ inbox' = inbox
        /\ UNCHANGED <<service, persistedGeneration, spent, registerVars, kind, resolved>>
    BY <1>1, <1>2, <1>3, <1>4 DEF MarkRead
  <1>6. Sound(x, inbox) /\ x.c.pending = asked /\ IsSeq(calls)
    <2>1. client.copy.ready /\ ~client.requestInFlight /\ client.pending = NoOperation
      BY <1>5
    <2>2. IsSeq(calls)
      BY <1>1, ActingBegins
    <2> QED
      BY <1>1, <2>1, <2>2, ChangeBegins
  <1> HIDE DEF x
  <1>7. Sound(u, inbox) /\ u.c.pending = asked
    BY <1>4, <1>6, RequestMutationIsSound
  <1>8. client.copy.revision \in Nat /\ client.copy.value \in Nat
    BY DEF PreferencesInv, IsObject, IsCopy, Copies
  <1>9. v \in WrittenValues /\ e \in Nat
    BY <1>2, <1>5, <1>8 DEF WrittenValues
  <1> QED
    BY <1>3, <1>5, <1>7, <1>9, ChangeEnds

LEMMA ServiceKeepsPreferences ==
    ASSUME PreferencesInv, ServiceTurn \/ EnvironmentTurn PROVE PreferencesInv'
  <1>1. CommonInv' /\ Step
    BY CommonStays DEF PreferencesInv
  <1>2. client' = client /\ kind' = kind
    BY DEF ServiceTurn, EnvironmentTurn, clientOnly
  <1>3. IsObject(client)'
    BY <1>1, <1>2, ObjectStays DEF PreferencesInv
  <1>4. IsPreference(client)'
    BY <1>2 DEF PreferencesInv, IsPreference
  <1>5. ASSUME NothingLost' PROVE MessagesTold(inbox)' /\ CopyTold(client, inbox)'
    <2>1. spent'.count["lost"] = 0
      BY <1>5 DEF NothingLost, Without
    <2>2. NothingLost
      BY <1>1, <2>1, NoneLost DEF Step
    <2> QED
      BY <1>1, <1>2, <1>5, <2>2, MessagesStayTold, CopyStaysTold DEF PreferencesInv
  <1> QED
    BY <1>1, <1>2, <1>3, <1>4, <1>5 DEF PreferencesInv

LEMMA PreferencesBegin == ASSUME Init PROVE PreferencesInv
  <1>1. client.ownerEpoch = 0 /\ client.requestInFlight = FALSE /\ client.pending = NoOperation
        /\ client.copy = NoCopy /\ client.refreshPending = FALSE /\ client.retryScheduled = FALSE
        /\ DOMAIN client = PreferenceMembers
    BY DEF Init, NoSettings, PreferenceMembers
  <1>2. CommonInv
    <2>1. client.ownerEpoch \in Nat /\ client.pending = NoOperation
      BY <1>1
    <2>2. client.requestInFlight \in BOOLEAN /\ ~client.requestInFlight
      BY <1>1, Zenon
    <2>3. ServiceInit /\ kind \in {"toast", "settings", "notifications"}
      BY DEF Init
    <2> QED
      BY <2>1, <2>2, <2>3, ServiceBegins
  <1>3. IsObject(client) /\ IsPreference(client)
    <2>1. client.requestInFlight \in BOOLEAN /\ client.refreshPending \in BOOLEAN
          /\ client.retryScheduled \in BOOLEAN
      BY <1>1, Zenon
    <2>2. client.ownerEpoch = 0 /\ client.ownerEpoch \in Nat
      BY <1>1
    <2>3. IsCopy(client.copy)
      BY <1>1, CopyIsDropped
    <2>4. Members \subseteq DOMAIN client
      BY <1>1 DEF Members, PreferenceMembers
    <2>5. IsObject(client)
      BY <2>1, <2>2, <2>3, <2>4 DEF IsObject
    <2> QED
      BY <1>1, <2>1, <2>2, <2>5 DEF IsPreference
  <1>4. inbox = <<>> /\ ~client.copy.ready
    BY <1>1, CopyIsDropped DEF Init, ServiceInit, BusInit
  <1>5. MessagesTold(inbox) /\ CopyTold(client, inbox)
    BY <1>4 DEF MessagesTold, CopyTold
  <1> QED
    BY <1>2, <1>3, <1>5 DEF PreferencesInv, Init

LEMMA NothingChanges == ASSUME PreferencesInv, UNCHANGED clientVars PROVE PreferencesInv'
  <1>1. UNCHANGED <<service, inbox, spent, client, kind, value, revision>>
    BY DEF clientVars, busVars, registerVars, clientOnly
  <1>2. CommonInv' /\ Started' = Started
    BY NothingHappens DEF PreferencesInv
  <1>3. IsObject(client)' /\ IsPreference(client)'
    BY <1>1, <1>2 DEF PreferencesInv, IsObject, IsCopy, Reading, Signs, IsPreference
  <1>4. (NothingLost => MessagesTold(inbox) /\ CopyTold(client, inbox))'
    BY <1>1 DEF PreferencesInv, NothingLost, Without, MessagesTold, CopyTold, Told, IsRead
  <1> QED
    BY <1>1, <1>2, <1>3, <1>4 DEF PreferencesInv

\* The inductive invariant: the queues between the objects and the service,
\* what messages and copies say of the running service, what the operations
\* of the user came to, and, while no signal was lost, that every change
\* is on its way to a copy that does not show it.
THEOREM PreferencesHold == Spec => []PreferencesInv
  <1>1. Init => PreferencesInv
    BY PreferencesBegin
  <1>2. ASSUME PreferencesInv, [Next]_clientVars PROVE PreferencesInv'
    <2>1. CASE ServiceTurn \/ EnvironmentTurn
      BY <1>2, <2>1, ServiceKeepsPreferences
    <2>2. CASE ReadinessTurn
      BY <1>2, <2>2, ReadinessTurnIsSafe
    <2>3. CASE ClientTurn
      BY <1>2, <2>3, ClientTurnIsSafe
    <2>4. CASE TimerFires
      BY <1>2, <2>4, TimerIsSafe
    <2>5. CASE UserChanges
      BY <1>2, <2>5, ConsentChangeIsSafe, MarkReadIsSafe DEF UserChanges
    <2>6. CASE UserRefreshes
      BY <1>2, <2>6, RefreshIsSafe
    <2>7. CASE UNCHANGED clientVars
      BY <1>2, <2>7, NothingChanges
    <2> QED
      BY <1>2, <2>1, <2>2, <2>3, <2>4, <2>5, <2>6, <2>7 DEF Next
  <1> QED
    BY <1>1, <1>2, PTL DEF Spec
-----------------------------------------------------------------------------
(* What follows.                                                           *)

\* Neither the settings nor the notifications client, nor the readiness
\* client they own, ever waits for an answer that cannot come, or asks again
\* while one can.
THEOREM PreferenceRequests == Spec => []RequestInvariant
  <1>1. ASSUME PreferencesInv PROVE RequestInvariant
    <2>1. TypeOK /\ OneRequestUnderway /\ OneClientRequestUnderway
      BY <1>1, TypesFollow, RequestsFollow DEF PreferencesInv
    <2>2. PreferenceTypeOK
      <3>1. Outcomes /\ RegisterKnown /\ IsObject(client)
        BY <1>1 DEF PreferencesInv, CommonInv, ServiceInv
      <3>2. client.copy \in Copies /\ {client.requestInFlight, client.refreshPending} \subseteq BOOLEAN
        BY <3>1 DEF IsObject, IsCopy
      <3>3. client.copy.ready => client.copy.owner # NoOwner
        BY <3>1 DEF IsObject, IsCopy, Reading, NoOwner
      <3>4. client.pending \in [op : Operations, value : Nat, expected : Nat] \cup {NoOperation}
        BY <3>1, PendingOperation
           DEF Outcomes, OperationsIssued, Operations, WrittenValues
      <3>5. value \in Nat /\ revision \in Nat /\ issued \in 0..MaxOperations
            /\ resolved \in [Operations -> {"PENDING", "OK", "STALE_REVISION", "CONFLICT", "IO_ERROR"}]
        BY <3>1 DEF RegisterKnown, StoredValues, Unset, Outcomes, OperationsIssued, OutcomesFollow
      <3> QED
        BY <3>2, <3>3, <3>4, <3>5 DEF PreferenceTypeOK, Copies
    <2>3. kind \in {"settings", "notifications"} /\ client.retryScheduled \in BOOLEAN
      BY <1>1 DEF PreferencesInv, IsPreference
    <2> QED
      BY <2>1, <2>2, <2>3 DEF RequestInvariant, ClientTypeOK
  <1> QED
    BY <1>1, PreferencesHold, PTL

\* What a client shows as of a revision is what the service stored under
\* it, and with no signal lost it is the last one, unless the client waits
\* for an answer or the announcement is on its way: no change is missed.
THEOREM PreferenceCopies == Spec => []CopyIsStored
  <1>1. ASSUME PreferencesInv, client.copy.ready, Alive, client.copy.owner = service.owner
        PROVE  /\ client.copy.revision = revision => client.copy.value = value
               /\ \/ client.copy.revision = revision
                  \/ client.requestInFlight
                  \/ \E i \in DOMAIN inbox : inbox[i].kind = "value"
                  \/ ~Without({"lost"})
    <2>1. Reading(client.copy)
      BY <1>1 DEF PreferencesInv, IsObject, IsCopy
    <2>2. Without({"lost"}) => client.requestInFlight \/ Told(client.copy, 0, inbox)
      BY <1>1 DEF PreferencesInv, NothingLost, CopyTold
    <2> QED
      BY <1>1, <2>1, <2>2 DEF Reading, Told
  <1>2. PreferencesInv => CopyIsStored
    BY <1>1 DEF CopyIsStored
  <1> QED
    BY <1>2, PreferencesHold, PTL

\* What the user is told of a change of the consent or of the history is
\* true and stays so, and no attempt of a decided change is left.
THEOREM PreferenceDecisions == Spec => []DecisionsAreFinal
  <1>1. PreferencesInv => DecisionsAreFinal
    BY DecisionsFollow DEF PreferencesInv, CommonInv, ServiceInv
  <1> QED
    BY <1>1, PreferencesHold, PTL

\* The copy of the readiness client these two own identifies the service it
\* was read from, and never goes back in time.
THEOREM PreferenceReadiness == Spec => []ReadinessIsCurrent
  <1>1. PreferencesInv => ReadinessIsCurrent
    BY CurrentFollows DEF PreferencesInv
  <1> QED
    BY <1>1, PreferencesHold, PTL
=============================================================================
