--------------------------- MODULE PreferenceClients ---------------------------
(***************************************************************************)
(* The settings client or the notifications client of a process, on the    *)
(* bus with the readiness client it owns and the session service.          *)
(***************************************************************************)
EXTENDS NotificationsClient

\* Neither client hears EventPublished.
ASSUME ObserversAssumption == Observers = {"readiness"}

Init ==
    /\ kind \in {"settings", "notifications"}
    /\ client = NoSettings
    /\ ServiceInit

OnReadinessChanged(w) ==
    IF kind = "settings" THEN SettingsReadinessChanged(w) ELSE NotificationsReadinessChanged(w)

OnClientMessage(w, m) ==
    IF kind = "settings" THEN SettingsOnMessage(w, m) ELSE NotificationsOnMessage(w, m)

ReadinessTurn == ReadinessHandles(OnReadinessChanged)
ClientTurn == ClientHandles(OnClientMessage)

\* The retry timer of the client fires.
TimerFires ==
    LET w == World(readiness, <<>>)
    IN
    /\ client.retryScheduled
    /\ Becomes(IF kind = "settings" THEN SettingsRetry(w) ELSE NotificationsRetry(w))
    /\ UNCHANGED <<service, persistedGeneration, inbox, spent, registerVars, kind, issued,
                   resolved>>

\* The button of the notifications panel.
UserRefreshes ==
    /\ kind = "notifications"
    /\ Spend("operation")
    /\ Becomes(RefreshList(World(readiness, <<>>)))
    /\ UNCHANGED <<service, persistedGeneration, inbox, registerVars, kind, issued, resolved>>

UserChanges ==
    \/ kind = "settings" /\ \E v \in {0, 1} : SetProductTelemetryConsent(v)
    \/ kind = "notifications" /\ MarkRead

Next ==
    \/ ServiceTurn \/ EnvironmentTurn
    \/ ReadinessTurn \/ ClientTurn \/ TimerFires
    \/ UserChanges \/ UserRefreshes

Spec == Init /\ [][Next]_clientVars

\* The bus delivers and the service answers; the client's loop runs, and
\* with it the timer.
FairSpec ==
    /\ Spec
    /\ WF_clientVars(ServiceTurn)
    /\ WF_clientVars(ReadinessTurn) /\ WF_clientVars(ClientTurn)
    /\ WF_clientVars(TimerFires)
-----------------------------------------------------------------------------
ClientTypeOK ==
    /\ TypeOK /\ PreferenceTypeOK
    /\ kind \in {"settings", "notifications"}
    /\ client.retryScheduled \in BOOLEAN

\* Neither the client nor its readiness client ever waits for an answer that
\* cannot come, or asks again while one can.
RequestInvariant == ClientTypeOK /\ OneRequestUnderway /\ OneClientRequestUnderway

\* What is shown as of a revision is what the service stored under it, and
\* with no signal lost or on its way it is the last one: a change announced
\* while a request or a reconnection is under way is not missed.
CopyIsStored ==
    /\ client.copy.ready /\ Alive /\ client.copy.owner = service.owner
    => /\ client.copy.revision = revision => client.copy.value = value
       /\ \/ client.copy.revision = revision
          \/ client.requestInFlight
          \/ \E i \in DOMAIN inbox : inbox[i].kind = "value"
          \/ ~Without({"lost"})

\* What a client does not repair by itself: a lost signal, for the settings
\* client a failed read, and for the notifications client a readiness that
\* was dropped and came back the same (see EventuallyAvailable).
Unrepaired == IF kind = "settings" THEN {"lost", "failure"} ELSE {"lost", "timeout"}

\* Once a service stays READY and the readiness client shows it, a client
\* comes to show what is stored, with nothing undecided, whatever calls
\* timed out or failed and however often the service restarted before.
EventuallySettled ==
    /\ []Without(Unrepaired)
    /\ <>[](service.state = "READY" /\ Matches(World(readiness, <<>>), service.owner))
    => <>[](/\ client.copy.ready /\ client.copy.owner = service.owner
            /\ client.copy.value = value /\ client.copy.revision = revision
            /\ client.pending = NoOperation)

\* What the notifications client promises: under the same conditions it
\* shows the list again.
EventuallyAvailable ==
    /\ kind = "notifications"
    /\ <>[](service.state = "READY" /\ Matches(World(readiness, <<>>), service.owner))
    => <>[]client.copy.ready
=============================================================================
