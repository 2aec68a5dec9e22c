-------------------------- MODULE MqttClientProofs --------------------------
(***************************************************************************)
(* Proofs about MqttClient for any delays and any number of queued         *)
(* handlers.                                                               *)
(***************************************************************************)
EXTENDS MqttClient, TLAPS

\* The first delay is one second at least and within the range of delays.
LEMMA FirstDelayType == FirstDelay \in 1..Larger(FirstDelay, LongestDelay)
  BY DelayAssumption DEF Larger, FirstDelay, LongestDelay

LEMMA TypeInit == Init => ClientTypeOK
  <1> SUFFICES ASSUME Init
               PROVE  ClientTypeOK
    OBVIOUS
  <1>1. delay \in 1..Larger(FirstDelay, LongestDelay)
    BY FirstDelayType DEF Init
  <1>2. events \in 0..MaxEvents
    BY EventsAssumption DEF Init
  <1>3. QED
    BY <1>1, <1>2 DEF Init, ClientTypeOK, LoopState, StopState

\* Queueing a handler keeps the number of queued handlers in its range.
LEMMA RaiseType ==
    ASSUME ClientTypeOK, Raise
    PROVE  events' \in 0..MaxEvents
  BY EventsAssumption DEF ClientTypeOK, Raise, Smaller

\* The delay after a failure is in range whatever the delay before it was.
LEMMA NextDelayType ==
    ASSUME ClientTypeOK
    PROVE  Smaller(delay * 2, LongestDelay) \in 1..Larger(FirstDelay, LongestDelay)
  BY DelayAssumption DEF ClientTypeOK, Smaller, Larger, FirstDelay, LongestDelay

LEMMA TypeNext == ClientTypeOK /\ [Next]_vars => ClientTypeOK'
  <1> SUFFICES ASSUME ClientTypeOK, [Next]_vars
               PROVE  ClientTypeOK'
    OBVIOUS
  <1> USE DEF ClientTypeOK, LoopState, StopState, Goes, around
  <1>1. CASE Loop
    <2>1. CASE Turn \/ Connect \/ Subscribe \/ SubscribeFails \/ Wake \/ Cancel
      BY <2>1 DEF Turn, Connect, Subscribe, SubscribeFails, Wake, Cancel
    <2>2. CASE ConnectFails
      BY <2>2, RaiseType DEF ConnectFails
    <2>3. CASE Renew
      BY <2>3, FirstDelayType DEF Renew
    <2>4. CASE DelayEnds
      BY <2>4, NextDelayType DEF DelayEnds
    <2>5. QED
      BY <1>1, <2>1, <2>2, <2>3, <2>4 DEF Loop
  <1>2. CASE Drop
    BY <1>2, RaiseType DEF Drop, Lose
  <1>3. CASE HandleDisconnected
    BY <1>3, EventsAssumption DEF HandleDisconnected
  <1>4. CASE CallStop
    BY <1>4 DEF CallStop
  <1>5. CASE Shutdown
    BY <1>5, RaiseType DEF Shutdown, Disconnect, CancelToken, ReturnFromStop, Lose
  <1>6. CASE UNCHANGED vars
    BY <1>6 DEF vars
  <1>7. QED
    BY <1>1, <1>2, <1>3, <1>4, <1>5, <1>6 DEF Next

\* Every variable keeps its type; in particular the delay never leaves the range
\* of the two options, whichever of them is the larger.
THEOREM ClientTypeCorrect == Spec => []ClientTypeOK
  BY TypeInit, TypeNext, PTL DEF Spec

----------------------------------------------------------------------------
(* A loop that waits is woken by a lost connection *)

\* Strengthening: until the source is renewed, the connection that was just made
\* is there, unless the host is stopping.
UpUntilRenewed ==
    loop \in {"subscribing", "subscribed"} /\ "early" \notin fault
        => connected \/ stop # "none"

WakeInvariant == UpUntilRenewed /\ DropWakes

LEMMA WakeNext ==
    ASSUME ClientTypeOK, WakeInvariant, [Next]_vars
    PROVE  WakeInvariant'
  <1> USE DEF WakeInvariant, UpUntilRenewed, DropWakes, Goes, around
  <1>1. CASE Loop
    <2>1. CASE Turn
      BY <2>1 DEF Turn
    <2>2. CASE Connect \/ ConnectFails
      BY <2>2 DEF Connect, ConnectFails
    <2>3. CASE Subscribe \/ SubscribeFails
      BY <2>3 DEF Subscribe, SubscribeFails
    <2>4. CASE Renew
      BY <2>4 DEF Renew
    <2>5. CASE Wake \/ DelayEnds \/ Cancel
      BY <2>5 DEF Wake, DelayEnds, Cancel
    <2>6. QED
      BY <1>1, <2>1, <2>2, <2>3, <2>4, <2>5 DEF Loop
  <1>2. CASE Drop
    <2>1. events' > 0
      BY <1>2, EventsAssumption DEF Drop, Lose, Raise, Smaller, ClientTypeOK
    <2>2. QED
      BY <1>2, <2>1 DEF Drop, Lose
  <1>3. CASE HandleDisconnected
    BY <1>3 DEF HandleDisconnected
  <1>4. CASE CallStop
    BY <1>4 DEF CallStop
  <1>5. CASE Shutdown
    BY <1>5 DEF Shutdown, Disconnect, CancelToken, ReturnFromStop
  <1>6. CASE UNCHANGED vars
    BY <1>6 DEF vars
  <1>7. QED
    BY <1>1, <1>2, <1>3, <1>4, <1>5, <1>6 DEF Next

\* A connection lost while the loop waits wakes it, if none is lost between
\* ConnectAsync and the renewal of the source: that window is the only way to
\* sleep through a disconnection, however late handlers run.
THEOREM WaitingLoopIsWoken == Spec => []DropWakes
  <1>1. Init => WakeInvariant
    BY DEF Init, WakeInvariant, UpUntilRenewed, DropWakes
  <1>2. ClientTypeOK /\ WakeInvariant /\ [Next]_vars => WakeInvariant'
    BY WakeNext
  <1>3. WakeInvariant => DropWakes
    BY DEF WakeInvariant
  <1>4. QED
    BY <1>1, <1>2, <1>3, ClientTypeCorrect, PTL DEF Spec
=============================================================================
