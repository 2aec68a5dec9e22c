----------------------------- MODULE MqttClient -----------------------------
(***************************************************************************)
(* MqttClientService: the loop that connects to the broker, subscribes,    *)
(* and sleeps on a TaskCompletionSource until the connection is lost; the  *)
(* handler that completes it; and the shutdown.  The handler runs on a     *)
(* thread of the MQTT library, some time after the connection was lost,    *)
(* and completes whatever source the field holds by then.                  *)
(*                                                                         *)
(* Each await of the loop and each access to the field is a step.  The     *)
(* loop awaits the source that the field holds, since only the loop itself *)
(* replaces it.                                                            *)
(***************************************************************************)
EXTENDS Naturals, FiniteSets

CONSTANTS
    InitialDelay,   \* InitialReconnectDelaySeconds
    MaxDelay,       \* MaxReconnectDelaySeconds
    MaxEvents,      \* queued runs of the handler that are told apart; a bound
    Faults          \* what the surroundings may do in an execution: sets of FaultKind

FaultKind ==
    {"early",   \* the connection may be lost before the loop waits for that
     "timeout", \* SubscribeAsync may throw on a connection that lives on
     "stop"}    \* the host shuts down

ASSUME DelayAssumption == InitialDelay \in Nat /\ MaxDelay \in Nat
ASSUME EventsAssumption == MaxEvents \in Nat \ {0}
ASSUME FaultAssumption == Faults \subseteq SUBSET FaultKind

VARIABLES
    loop,       \* where ExecuteAsync stands
    signalled,  \* the source in _disconnectTcs is completed
    delay,      \* reconnectDelay, in seconds
    stop,       \* where StopAsync stands
    connected,  \* IsConnected of the MQTT client (external)
    subscribed, \* the broker has the subscriptions of this connection (external)
    events,     \* runs of HandleDisconnectedAsync that are queued (external)
    fault       \* which of Faults this execution has; it never changes

around == <<connected, subscribed, events, fault>>
vars == <<loop, signalled, delay, stop, around>>

LoopState ==
    {"top", "connecting", "subscribing", "subscribed", "waiting", "delaying", "ended"}
StopState == {"none", "called", "disconnected", "cancelled", "returned"}

Larger(a, b) == IF a >= b THEN a ELSE b
Smaller(a, b) == IF a <= b THEN a ELSE b

FirstDelay == Larger(1, InitialDelay)
LongestDelay == Larger(1, MaxDelay)

Cancelled == stop \in {"cancelled", "returned"}

Init ==
    /\ loop = "top"
    /\ signalled = FALSE
    /\ delay = FirstDelay
    /\ stop = "none"
    /\ connected = FALSE
    /\ subscribed = FALSE
    /\ events = 0
    /\ fault \in Faults

----------------------------------------------------------------------------
(* The MQTT client *)

\* A lost connection, a disconnection and a failed attempt to connect each queue
\* the handler.
Raise == events' = Smaller(events + 1, MaxEvents)

Lose == connected' = FALSE /\ subscribed' = FALSE /\ Raise /\ UNCHANGED fault

Drop ==
    /\ connected
    /\ "early" \in fault \/ loop \in {"waiting", "delaying", "top"}
    /\ Lose
    /\ UNCHANGED <<loop, signalled, delay, stop>>

\* Mutated: the handler looks at the connection before it completes the source.
HandleDisconnected_OnlyWhileUp ==
    /\ events > 0
    /\ events' = events - 1
    /\ signalled' = (signalled \/ connected)
    /\ UNCHANGED <<loop, delay, stop, connected, subscribed, fault>>

\* HandleDisconnectedAsync: TrySetResult on the source of the field.
HandleDisconnected ==
    /\ events > 0
    /\ events' = events - 1
    /\ signalled' = TRUE
    /\ UNCHANGED <<loop, delay, stop, connected, subscribed, fault>>

----------------------------------------------------------------------------
(* ExecuteAsync *)

Goes(from, to) == loop = from /\ loop' = to

\* The head of the loop.
Turn ==
    /\ Goes("top", IF Cancelled THEN "ended" ELSE IF connected THEN "waiting" ELSE "connecting")
    /\ UNCHANGED <<signalled, delay, stop, around>>

\* Mutated: the broker is trusted to remember the subscriptions.
Connect_Unsubscribed ==
    /\ Goes("connecting", "subscribed")
    /\ connected' = TRUE
    /\ UNCHANGED <<signalled, delay, stop, subscribed, events, fault>>

Connect ==
    /\ Goes("connecting", "subscribing")
    /\ connected' = TRUE
    /\ UNCHANGED <<signalled, delay, stop, subscribed, events, fault>>

ConnectFails ==
    /\ Goes("connecting", "delaying")
    /\ Raise
    /\ UNCHANGED <<signalled, delay, stop, connected, subscribed, fault>>

Subscribe ==
    /\ connected
    /\ Goes("subscribing", "subscribed")
    /\ subscribed' = TRUE
    /\ UNCHANGED <<signalled, delay, stop, connected, events, fault>>

SubscribeFails ==
    /\ ~connected \/ "timeout" \in fault
    /\ Goes("subscribing", "delaying")
    /\ UNCHANGED <<signalled, delay, stop, around>>

\* The backoff is reset, and the field gets a source that nothing has completed,
\* also when the connection is already lost again.
Renew ==
    /\ Goes("subscribed", "waiting")
    /\ delay' = FirstDelay
    /\ signalled' = FALSE
    /\ UNCHANGED <<stop, around>>

Wake ==
    /\ signalled
    /\ Goes("waiting", "top")
    /\ UNCHANGED <<signalled, delay, stop, around>>

\* Mutated: the delay is doubled and never capped.
DelayEnds_Uncapped ==
    /\ Goes("delaying", "top")
    /\ delay' = delay * 2
    /\ UNCHANGED <<signalled, stop, around>>

\* Task.Delay is over: the next delay is twice as long, up to the limit.
DelayEnds ==
    /\ Goes("delaying", "top")
    /\ delay' = Smaller(delay * 2, LongestDelay)
    /\ UNCHANGED <<signalled, stop, around>>

\* Mutated: the wait for a disconnection does not observe the token.
Cancel_NotWaiting ==
    /\ Cancelled
    /\ loop \in {"connecting", "subscribing", "delaying"}
    /\ loop' = "ended"
    /\ UNCHANGED <<signalled, delay, stop, around>>

\* An await observes the token and throws OperationCanceledException: break.
Cancel ==
    /\ Cancelled
    /\ loop \in {"connecting", "subscribing", "waiting", "delaying"}
    /\ loop' = "ended"
    /\ UNCHANGED <<signalled, delay, stop, around>>

Loop ==
    \/ Turn \/ Connect \/ ConnectFails \/ Subscribe \/ SubscribeFails
    \/ Renew \/ Wake \/ DelayEnds \/ Cancel

----------------------------------------------------------------------------
(* StopAsync *)

CallStop ==
    /\ "stop" \in fault
    /\ stop = "none" /\ stop' = "called"
    /\ UNCHANGED <<loop, signalled, delay, around>>

\* The client is disconnected if it is connected; an exception of that is ignored,
\* and leaves it disconnected.
Disconnect ==
    /\ stop = "called" /\ stop' = "disconnected"
    /\ IF connected THEN Lose ELSE UNCHANGED around
    /\ UNCHANGED <<loop, signalled, delay>>

\* base.StopAsync cancels the token, ...
CancelToken ==
    /\ stop = "disconnected" /\ stop' = "cancelled"
    /\ UNCHANGED <<loop, signalled, delay, around>>

\* ... and waits for ExecuteAsync.
ReturnFromStop ==
    /\ stop = "cancelled" /\ loop = "ended"
    /\ stop' = "returned"
    /\ UNCHANGED <<loop, signalled, delay, around>>

Shutdown == Disconnect \/ CancelToken \/ ReturnFromStop

Next == Loop \/ Drop \/ HandleDisconnected \/ CallStop \/ Shutdown

Spec == Init /\ [][Next]_vars

\* The loop and the shutdown run on, a queued handler runs, and a broker that is
\* asked again and again lets the client in.
Fairness ==
    /\ WF_vars(Loop)
    /\ WF_vars(HandleDisconnected)
    /\ WF_vars(Shutdown)
    /\ SF_vars(Connect)

FairSpec == Spec /\ Fairness

----------------------------------------------------------------------------
(* Properties *)

\* Every variable has its type, and the delay stays within the two options.
ClientTypeOK ==
    /\ loop \in LoopState
    /\ signalled \in BOOLEAN
    /\ delay \in 1..Larger(FirstDelay, LongestDelay)
    /\ stop \in StopState
    /\ connected \in BOOLEAN
    /\ subscribed \in BOOLEAN
    /\ events \in 0..MaxEvents
    /\ fault \in Faults

\* A loop that waits for a disconnection that has happened will be woken: its
\* source is completed, or a handler is queued that completes it, or the host is
\* stopping.  (If no connection is lost before the source is renewed.)
DropWakes ==
    loop = "waiting" /\ ~connected /\ "early" \notin fault
        => signalled \/ events > 0 \/ stop # "none"

\* No connection is lost before the loop waits, and no subscription fails on a
\* connection that lives on: the two situations in which the loop gives up.
Steady == {"early", "timeout"} \cap fault = {}

\* The service maintains "resilient MQTT connectivity" (MqttClientService): when
\* connections are no longer lost and nobody stops it, it is connected for good.
MaintainsConnection ==
    Steady /\ <>[][~Drop]_vars /\ [](stop = "none") => <>[]connected

\* It manages "resilient MQTT connection, subscriptions" (IMqttClientService): the
\* broker ends up with its subscriptions too.
MaintainsSubscriptions ==
    Steady /\ <>[][~Drop]_vars /\ [](stop = "none") => <>[]subscribed

\* A shutdown ends, wherever the loop stands and whatever the connection does.
StopEnds == stop = "called" ~> stop = "returned"
=============================================================================
