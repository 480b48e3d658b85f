------------------------------ MODULE PartsProofs ------------------------------
(***************************************************************************)
(* What holds of the parts MCLiveness runs side by side, for any number of *)
(* properties, knowledge bases, repositories, pods and calls.              *)
(*                                                                         *)
(* NotificationDispatch first.  Pacing is not inductive by itself: that a  *)
(* timer may send rests on the timer never being due before the interval   *)
(* is over, and the interval on being measured from the last publish or    *)
(* reconnect.                                                              *)
(*                                                                         *)
(* Then GitHubDiscovery: a client goes only as it may because what an      *)
(* App's listing does not show was not covered at some moment of it,       *)
(* whatever else was asked meanwhile.  UiStatus, and MiotDevice, whose     *)
(* calls keep out of each other's way by the chain they are made in.  Last *)
(* what IndexingLoopProofs proves, brought over to its part here.          *)
(***************************************************************************)
EXTENDS MCLiveness, FiniteSetTheorems, TLAPS

----------------------------------------------------------------------------
(* NotificationDispatch *)

\* What is left of the interval and what has gone by add up, and an armed timer is not
\* due before the interval is over.
Clock ==
  /\ wait + gap = Interval
  /\ timer # None => timer >= wait /\ queue # <<>>

\* What waits is the newest value of its property.
WaitingIsNewest == \A i \in DOMAIN queue : queue[i].value = latest[queue[i].property]

\* Nothing of the property's newest value is left to do for the queue.
Settled(k) ==
  \/ latest[k] = None
  \/ inflight[k] = latest[k]
  \/ inflight[k] = None /\ shown[k] = latest[k]
  \/ k \in refused

OthersSettled == link # "closed" => \A k \in Properties \ Waiting(queue) : Settled(k)

IInv == TypeOK /\ Clock /\ Paced /\ NeverStranded /\ WaitingIsNewest /\ OthersSettled

\* A queue in which a property waits once.
Proper(q) ==
  /\ q \in Seq(Notifications)
  /\ \A i, j \in DOMAIN q : q[i].property = q[j].property => i = j

\* Replacing in place or appending leaves one entry for the property: the new one.
LEMMA EnqueueProper ==
  ASSUME NEW m \in Notifications, Proper(queue)
  PROVE  /\ Proper(Enqueue(m))
         /\ Enqueue(m) # <<>>
         /\ Waiting(Enqueue(m)) = Waiting(queue) \cup {m.property}
         /\ \A i \in DOMAIN Enqueue(m) :
              \/ Enqueue(m)[i] = m
              \/ /\ Enqueue(m)[i].property # m.property
                 /\ i \in DOMAIN queue /\ Enqueue(m)[i] = queue[i]
<1>0. queue \in Seq(Notifications) /\ DOMAIN queue = 1..Len(queue) /\ Len(queue) \in Nat
  BY DEF Proper
<1>1. CASE m.property \in Waiting(queue)
  <2> DEFINE q == [i \in DOMAIN queue |-> IF queue[i].property = m.property THEN m ELSE queue[i]]
  <2>1. Enqueue(m) = q
    BY <1>1 DEF Enqueue
  <2>2. q \in Seq(Notifications) /\ DOMAIN q = DOMAIN queue
    BY <1>0
  <2>3. \A i \in DOMAIN queue : q[i].property = queue[i].property
    OBVIOUS
  <2>4. PICK i \in DOMAIN queue : queue[i].property = m.property
    BY <1>1 DEF Waiting
  <2>5. q # <<>>
    BY <1>0, <2>2, <2>4
  <2>6. Waiting(q) = Waiting(queue) \cup {m.property}
    BY <2>2, <2>3, <2>4 DEF Waiting
  <2>7. Proper(q)
    BY <2>2, <2>3 DEF Proper
  <2> QED
    BY <2>1, <2>2, <2>5, <2>6, <2>7
<1>2. CASE m.property \notin Waiting(queue)
  <2> DEFINE q == Append(queue, m)
  <2>1. Enqueue(m) = q
    BY <1>2 DEF Enqueue
  <2>2. q \in Seq(Notifications) /\ Len(q) = Len(queue) + 1 /\ DOMAIN q = 1..(Len(queue) + 1)
    BY <1>0
  <2>3. \A i \in DOMAIN queue : q[i] = queue[i] /\ q[i].property # m.property
    BY <1>0, <1>2 DEF Waiting
  <2>4. q[Len(queue) + 1] = m
    BY <1>0
  <2>5. \A i \in DOMAIN q : i \in DOMAIN queue \/ i = Len(queue) + 1
    BY <1>0, <2>2
  <2>6. Proper(q)
    BY <2>2, <2>3, <2>4, <2>5 DEF Proper
  <2>7. Waiting(q) = Waiting(queue) \cup {m.property}
    BY <1>0, <2>2, <2>3, <2>4, <2>5 DEF Waiting
  <2>8. q # <<>>
    BY <1>0, <2>2
  <2> QED
    BY <2>1, <2>3, <2>4, <2>5, <2>6, <2>7, <2>8
<1> QED
  BY <1>1, <1>2

\* Taking the head leaves every other property waiting, and that one no more.
LEMMA TailProper ==
  ASSUME NEW q, Proper(q), q # <<>>
  PROVE  /\ Head(q) \in Notifications
         /\ Proper(Tail(q))
         /\ Waiting(Tail(q)) = Waiting(q) \ {Head(q).property}
         /\ \A i \in DOMAIN Tail(q) : i + 1 \in DOMAIN q /\ Tail(q)[i] = q[i + 1]
         /\ 1 \in DOMAIN q /\ Head(q) = q[1]
<1>1. q \in Seq(Notifications) /\ Len(q) \in Nat \ {0} /\ DOMAIN q = 1..Len(q)
  BY DEF Proper
<1>2. Head(q) = q[1] /\ 1 \in DOMAIN q /\ Head(q) \in Notifications
  BY <1>1
<1>3. /\ Tail(q) \in Seq(Notifications) /\ DOMAIN Tail(q) = 1..(Len(q) - 1)
      /\ \A i \in DOMAIN Tail(q) : i + 1 \in DOMAIN q /\ Tail(q)[i] = q[i + 1]
  BY <1>1
<1>4. \A i \in DOMAIN q : i = 1 \/ (i - 1 \in DOMAIN Tail(q) /\ Tail(q)[i - 1] = q[i])
  BY <1>1, <1>3
<1>5. \A i \in DOMAIN q : i # 1 => q[i].property # Head(q).property
  BY <1>2 DEF Proper
<1>6. Waiting(Tail(q)) = Waiting(q) \ {Head(q).property}
  <2>1. ASSUME NEW i \in DOMAIN Tail(q)
        PROVE  Tail(q)[i].property \in Waiting(q) \ {Head(q).property}
    <3>1. i + 1 \in DOMAIN q /\ i + 1 # 1
      BY <1>1, <1>3
    <3> QED
      BY <1>3, <1>5, <3>1 DEF Waiting
  <2>2. ASSUME NEW i \in DOMAIN q, q[i].property # Head(q).property
        PROVE  q[i].property \in Waiting(Tail(q))
    BY <1>2, <1>4, <2>2 DEF Waiting
  <2> QED
    BY <2>1, <2>2 DEF Waiting
<1>7. Proper(Tail(q))
  <2> SUFFICES ASSUME NEW i \in DOMAIN Tail(q), NEW j \in DOMAIN Tail(q),
                      Tail(q)[i].property = Tail(q)[j].property
               PROVE  i = j
    BY <1>3 DEF Proper
  <2>1. i + 1 = j + 1
    BY <1>3 DEF Proper
  <2> QED
    BY <1>1, <1>3, <2>1
<1> QED
  BY <1>2, <1>3, <1>6, <1>7

----------------------------------------------------------------------------

\* Publishing the head of a proper queue once the interval is over keeps the invariant.
LEMMA PublishKeeps ==
  ASSUME IInv, NEW q, Proper(q), q # <<>>, Publish(q), Connected, wait = 0,
         link' = link, latest' \in [Properties -> Values \cup {None}],
         \A i \in DOMAIN q : q[i].value = latest'[q[i].property],
         \A k \in Properties \ Waiting(q) : Settled(k) /\ latest'[k] = latest[k]
  PROVE  IInv'
<1> USE DispatchAssumption
<1> DEFINE m == Head(q)
<1>1. /\ m \in Notifications /\ Proper(Tail(q))
      /\ Waiting(Tail(q)) = Waiting(q) \ {m.property}
      /\ \A i \in DOMAIN Tail(q) : i + 1 \in DOMAIN q /\ Tail(q)[i] = q[i + 1]
      /\ 1 \in DOMAIN q /\ m = q[1]
  BY TailProper
<1>2. /\ queue' = Tail(q) /\ wait' = Interval /\ gap' = 0
      /\ timer' = IF Tail(q) = <<>> THEN None ELSE Interval
      /\ early' = (early \/ gap < Interval)
      /\ Send(m)
  BY DEF Publish
<1>3. m.property \in Properties /\ m.value \in Values /\ latest'[m.property] = m.value
  BY <1>1 DEF Notifications
<1>4. /\ inflight' \in [Properties -> Values \cup {None}]
      /\ shown' \in [Properties -> Values \cup {None}]
      /\ refused' \in SUBSET Properties
      /\ faults' \in 0..MaxFaults
  <2>1. /\ inflight' \in [Properties -> Values \cup {None}]
        /\ refused' \in SUBSET Properties /\ faults' \in 0..MaxFaults
    <3>1. inflight \in [Properties -> Values \cup {None}] /\ refused \in SUBSET Properties /\ faults \in 0..MaxFaults
      BY DEF IInv, TypeOK
    <3>2. inflight' \in [Properties -> Values \cup {None}]
      BY <1>2, <1>3, <3>1 DEF Send
    <3>3. refused' \in SUBSET Properties
      BY <1>2, <1>3, <3>1 DEF Send
    <3>4. faults' \in 0..MaxFaults
      BY <1>2, <3>1 DEF Send
    <3> QED
      BY <3>2, <3>3, <3>4
  <2>2. ASSUME Arrive({m.property}, [k \in Properties |-> m.value])
        PROVE  shown' \in [Properties -> Values \cup {None}]
    <3>1. shown' = [k \in Properties |-> IF k \in {m.property} THEN m.value ELSE shown[k]]
      BY <2>2 DEF Arrive
    <3> QED
      BY <1>3, <3>1 DEF IInv, TypeOK
  <2>3. \/ Arrive({m.property}, [k \in Properties |-> m.value])
        \/ UNCHANGED shown
    BY <1>2 DEF Send
  <2> QED
    BY <2>1, <2>2, <2>3 DEF IInv, TypeOK
<1>5. gap = Interval
  BY DEF IInv, TypeOK, Clock
<1>6. early' \in BOOLEAN /\ ~early'
  BY <1>2, <1>5 DEF IInv, TypeOK, Paced
<1>7. TypeOK'
  BY <1>1, <1>2, <1>4, <1>6 DEF IInv, TypeOK, Proper
<1>8. Clock' /\ NeverStranded'
  BY <1>2 DEF Clock, NeverStranded
<1>9. WaitingIsNewest'
  BY <1>1, <1>2 DEF WaitingIsNewest
<1>10. Settled(m.property)'
  BY <1>2, <1>3 DEF Send, Arrive, Settled, IInv, TypeOK, Connected
<1>11. ASSUME NEW k \in Properties \ Waiting(q) PROVE k = m.property \/ Settled(k)'
  BY <1>2, <1>3 DEF Send, Arrive, Settled, IInv, TypeOK
<1>12. OthersSettled'
  <2> SUFFICES ASSUME NEW k \in Properties \ Waiting(Tail(q)) PROVE Settled(k)'
    BY <1>2 DEF OthersSettled, Waiting
  <2>1. k = m.property \/ k \in Properties \ Waiting(q)
    BY <1>1
  <2> QED
    BY <2>1, <1>10, <1>11
<1> QED
  BY <1>6, <1>7, <1>8, <1>9, <1>12 DEF IInv, Paced

\* receive and the scheduleNext it ends in, whichever of the three that turns out to do.
LEMMA ReceiveKeeps ==
  ASSUME IInv, NEW m \in Notifications, Receive(m)
  PROVE  IInv'
<1> USE DispatchAssumption
<1> DEFINE q == Enqueue(m)
<1>1. /\ Proper(q) /\ q # <<>> /\ Waiting(q) = Waiting(queue) \cup {m.property}
      /\ \A i \in DOMAIN q :
           \/ q[i] = m
           \/ q[i].property # m.property /\ i \in DOMAIN queue /\ q[i] = queue[i]
  BY EnqueueProper DEF IInv, TypeOK, Proper
<1>2. /\ latest' = [latest EXCEPT ![m.property] = m.value] /\ link' = link
      /\ m.property \in Properties /\ m.value \in Values
  BY DEF Receive, Notifications
<1>3. latest' \in [Properties -> Values \cup {None}]
  BY <1>2 DEF IInv, TypeOK
<1>4. \A i \in DOMAIN queue : queue[i].property \in Properties
  <2>1. queue \in Seq(Notifications)
    BY DEF IInv, TypeOK
  <2>2. \A i \in DOMAIN queue : queue[i] \in Notifications
    BY <2>1
  <2> QED
    BY <2>2 DEF Notifications
<1>5. \A i \in DOMAIN q : q[i].value = latest'[q[i].property]
  <2> SUFFICES ASSUME NEW i \in DOMAIN q PROVE q[i].value = latest'[q[i].property]
    OBVIOUS
  <2>1. CASE q[i] = m
    BY <1>2, <2>1 DEF IInv, TypeOK
  <2>2. CASE q[i].property # m.property /\ i \in DOMAIN queue /\ q[i] = queue[i]
    <3>1. latest'[queue[i].property] = latest[queue[i].property]
      BY <1>2, <1>4, <2>2 DEF IInv, TypeOK
    <3> QED
      BY <2>2, <3>1 DEF IInv, WaitingIsNewest
  <2> QED
    BY <1>1, <2>1, <2>2
<1>6. \A k \in Properties \ Waiting(q) : latest'[k] = latest[k]
  BY <1>1, <1>2 DEF IInv, TypeOK
<1>7. link # "closed" => \A k \in Properties \ Waiting(q) : Settled(k)
  BY <1>1 DEF IInv, OthersSettled
<1>8. ASSUME queue' = q, UNCHANGED <<wait, brokerVars, gap, early>>,
             \/ timer' = timer /\ (timer # None \/ (wait = 0 /\ ~Connected))
             \/ timer' = wait /\ wait > 0
      PROVE  IInv'
  <2>1. TypeOK'
    BY <1>1, <1>2, <1>3, <1>8 DEF IInv, TypeOK, Proper, brokerVars
  <2>2. Clock' /\ Paced' /\ NeverStranded'
    BY <1>1, <1>2, <1>8 DEF IInv, TypeOK, Clock, Paced, NeverStranded, Connected
  <2>3. WaitingIsNewest'
    BY <1>5, <1>8 DEF WaitingIsNewest
  <2>4. OthersSettled'
    BY <1>2, <1>6, <1>7, <1>8 DEF OthersSettled, Settled, brokerVars, Waiting
  <2> QED
    BY <2>1, <2>2, <2>3, <2>4 DEF IInv
<1>9. Schedule(q)
  BY DEF Receive
<1>10. CASE timer = None /\ wait = 0 /\ Connected
  <2>1. Publish(q)
    BY <1>1, <1>9, <1>10 DEF Schedule
  <2> QED
    BY <1>1, <1>2, <1>3, <1>5, <1>6, <1>7, <1>10, <2>1, PublishKeeps DEF Connected
<1>11. CASE ~(timer = None /\ wait = 0 /\ Connected)
  BY <1>1, <1>8, <1>9, <1>11 DEF Schedule, IInv, TypeOK
<1> QED
  BY <1>10, <1>11

\* A due timer finds the interval over.
LEMMA TimerKeeps == IInv /\ TimerFires => IInv'
<1> USE DispatchAssumption
<1> SUFFICES ASSUME IInv, TimerFires PROVE IInv'
  OBVIOUS
<1>1. timer = 0 /\ wait = 0 /\ queue # <<>> /\ UNCHANGED <<link, latest>>
  BY DEF TimerFires, IInv, TypeOK, Clock
<1>2. Proper(queue)
  BY DEF IInv, TypeOK, Proper
<1>3. CASE Connected
  <2>1. Publish(queue)
    BY <1>3 DEF TimerFires
  <2>2. \A k \in Properties \ Waiting(queue) : Settled(k)
    BY <1>3 DEF IInv, OthersSettled, Connected
  <2> QED
    BY <1>1, <1>2, <1>3, <2>1, <2>2, PublishKeeps DEF IInv, WaitingIsNewest, TypeOK
<1>4. CASE ~Connected
  <2>1. timer' = None /\ UNCHANGED <<queue, wait, brokerVars, gap, early, link, latest>>
    BY <1>1, <1>4 DEF TimerFires
  <2>2. TypeOK'
    BY <2>1 DEF IInv, TypeOK, brokerVars
  <2>3. Clock' /\ Paced' /\ NeverStranded'
    BY <1>4, <2>1 DEF IInv, Clock, Paced, NeverStranded, Connected
  <2>4. WaitingIsNewest' /\ OthersSettled'
    BY <2>1 DEF IInv, WaitingIsNewest, OthersSettled, Settled, brokerVars, Waiting
  <2> QED
    BY <2>2, <2>3, <2>4 DEF IInv
<1> QED
  BY <1>3, <1>4

\* The countdown and what has gone by move together.
LEMMA TickKeeps == IInv /\ Tick => IInv'
<1> USE DispatchAssumption
<1> SUFFICES ASSUME IInv, Tick PROVE IInv'
  OBVIOUS
<1>1. TypeOK'
  BY DEF IInv, TypeOK, Tick, brokerVars
<1>2. Clock' /\ Paced' /\ NeverStranded'
  BY DEF IInv, TypeOK, Clock, Paced, NeverStranded, Tick, Connected
<1>3. WaitingIsNewest' /\ OthersSettled'
  BY DEF IInv, WaitingIsNewest, OthersSettled, Settled, Tick, Waiting, brokerVars
<1> QED
  BY <1>1, <1>2, <1>3 DEF IInv

\* Losing the connection, silently or not, touches nothing else; a reconnect starts a new
\* interval and gives the broker what it had not acknowledged; destroying drops the queue.
LEMMA LinkKeeps == IInv /\ (GoSilent \/ Disconnect \/ Reconnect \/ Destroy) => IInv'
<1> USE DispatchAssumption
<1>1. ASSUME IInv, GoSilent \/ Disconnect PROVE IInv'
  <2>1. link' \in {"silent", "down"} /\ Connected /\ UNCHANGED <<queueVars, brokerVars, latest, gap, early>>
    BY <1>1 DEF GoSilent, Disconnect, Connected
  <2>2. TypeOK'
    BY <1>1, <2>1 DEF IInv, TypeOK, queueVars, brokerVars
  <2>3. Clock' /\ Paced' /\ NeverStranded'
    BY <1>1, <2>1 DEF IInv, Clock, Paced, NeverStranded, queueVars
  <2>4. WaitingIsNewest' /\ OthersSettled'
    BY <1>1, <2>1 DEF IInv, WaitingIsNewest, OthersSettled, Settled, queueVars, brokerVars, Waiting, Connected
  <2> QED
    BY <2>2, <2>3, <2>4 DEF IInv
<1>2. ASSUME IInv, Reconnect PROVE IInv'
  <2> DEFINE unacknowledged == {k \in Properties : inflight[k] # None}
  <2>1. /\ link = "down" /\ link' = "up" /\ Arrive(unacknowledged, inflight)
        /\ inflight' = [k \in Properties |-> None]
        /\ wait' = Interval /\ gap' = 0
        /\ timer' = IF queue = <<>> THEN None ELSE Interval
        /\ UNCHANGED <<queue, refused, faults, latest, early>>
    BY <1>2 DEF Reconnect
  <2>2. shown' = [k \in Properties |-> IF inflight[k] # None THEN inflight[k] ELSE shown[k]]
    BY <2>1 DEF Arrive
  <2>4. TypeOK'
    BY <1>2, <2>1, <2>2 DEF IInv, TypeOK
  <2>5. Clock' /\ Paced' /\ NeverStranded'
    BY <1>2, <2>1 DEF IInv, Clock, Paced, NeverStranded
  <2>6. WaitingIsNewest'
    BY <1>2, <2>1 DEF IInv, WaitingIsNewest
  <2>7. OthersSettled'
    BY <1>2, <2>1, <2>2 DEF IInv, OthersSettled, Settled, Waiting
  <2> QED
    BY <2>4, <2>5, <2>6, <2>7 DEF IInv
<1>3. ASSUME IInv, Destroy PROVE IInv'
  <2>1. TypeOK'
    BY <1>3 DEF IInv, TypeOK, Destroy, brokerVars
  <2>2. Clock' /\ Paced' /\ NeverStranded' /\ WaitingIsNewest' /\ OthersSettled'
    BY <1>3 DEF IInv, Clock, Paced, NeverStranded, WaitingIsNewest, OthersSettled, Destroy
  <2> QED
    BY <2>1, <2>2 DEF IInv
<1> QED
  BY <1>1, <1>2, <1>3

\* The invariant holds in every state of every behaviour.
LEMMA Invariance == Spec => []IInv
<1>1. Init => IInv
  <2> SUFFICES ASSUME Init PROVE IInv
    OBVIOUS
  <2>1. queue \in Seq(Notifications) /\ DOMAIN queue = {}
    BY DEF Init
  <2>2. TypeOK
    <3>1. \A i, j \in DOMAIN queue : queue[i].property = queue[j].property => i = j
      BY <2>1
    <3>2. /\ inflight \in [Properties -> Values \cup {None}]
          /\ latest \in [Properties -> Values \cup {None}]
          /\ shown \in [Properties -> Values \cup {None}]
          /\ refused \in SUBSET Properties
      BY DEF Init
    <3>3. /\ timer \in 0..Interval \cup {None} /\ wait \in 0..Interval
          /\ gap \in 0..Interval /\ faults \in 0..MaxFaults
      BY DispatchAssumption DEF Init
    <3>4. link \in {"up", "silent", "down", "closed"} /\ early \in BOOLEAN
      BY DEF Init
    <3> QED
      BY <2>1, <3>1, <3>2, <3>3, <3>4 DEF TypeOK
  <2>3. Clock /\ Paced /\ NeverStranded
    BY DispatchAssumption DEF Init, Clock, Paced, NeverStranded
  <2>4. WaitingIsNewest /\ OthersSettled
    BY <2>1 DEF Init, WaitingIsNewest, OthersSettled, Settled
  <2> QED
    BY <2>2, <2>3, <2>4 DEF IInv
<1>2. IInv /\ [Next]_vars => IInv'
  <2>1. ASSUME IInv, UNCHANGED vars PROVE IInv'
    BY <2>1 DEF vars, queueVars, brokerVars, IInv, TypeOK, Clock, Paced, NeverStranded,
                WaitingIsNewest, OthersSettled, Settled, Connected, Waiting
  <2> QED
    BY <2>1, ReceiveKeeps, TimerKeeps, TickKeeps, LinkKeeps DEF Next
<1> QED
  BY <1>1, <1>2, PTL DEF Spec

\* The queue, the timer and the history of the broker hold what the code can put there, and
\* no property waits twice.
THEOREM TypeCorrect == Spec => []TypeOK
  BY Invariance, PTL DEF IInv

\* Whatever publishes, an interval has passed since the last publish and the last reconnect.
THEOREM PublishesPaced == Spec => []Paced
  BY Invariance, PTL DEF IInv

\* A connected client with something to send has a timer armed.
THEOREM QueueNeverStranded == Spec => []NeverStranded
  BY Invariance, PTL DEF IInv

\* The newest value of each property waits, is unacknowledged or is what the broker has.
THEOREM NewestValueSurvives == Spec => []NewestSurvives
<1>1. IInv => NewestSurvives
  <2> SUFFICES ASSUME IInv, link # "closed", NEW k \in Properties, latest[k] # None
               PROVE  \/ \E i \in DOMAIN queue : queue[i] = [property |-> k, value |-> latest[k]]
                      \/ k \notin Waiting(queue) /\ inflight[k] = latest[k]
                      \/ k \notin Waiting(queue) /\ inflight[k] = None /\ shown[k] = latest[k]
                      \/ k \in refused
    BY DEF NewestSurvives
  <2>1. CASE k \in Waiting(queue)
    <3>1. PICK i \in DOMAIN queue : queue[i].property = k
      BY <2>1 DEF Waiting
    <3>2. queue[i] \in Notifications /\ queue[i].value = latest[k]
      BY <3>1 DEF IInv, TypeOK, WaitingIsNewest
    <3>3. queue[i] = [property |-> k, value |-> latest[k]]
      BY <3>1, <3>2 DEF Notifications
    <3> QED
      BY <3>3
  <2>2. CASE k \notin Waiting(queue)
    BY <2>2 DEF IInv, OthersSettled, Settled
  <2> QED
    BY <2>1, <2>2
<1> QED
  BY <1>1, Invariance, PTL

----------------------------------------------------------------------------
(* GitHubDiscovery: a client goes only when its repository did *)

GhStages == {"idle", "asked", "listed", "refused", "found", "failed"}
GhPromises == [at : GhStages, key : GitHub!Keys \cup {None}, secret : Nat, seen : SUBSET Repositories,
               stale : SUBSET Repositories, repository : Repositories \cup {None}]
GhClients == [credential : GitHub!Credentials, secret : Nat]
GhAsks == [at : {"idle", "awaiting", "calling"}, kind : {"run", "file"}, promise : Discoveries \cup {None},
           repository : Repositories \cup {None}, client : GhClients \cup {None}, last : {"none", "ok", "failed"}]

\* A promise past its start has a key, one that found has a repository.
PromiseLawful(q) ==
  /\ q.at \in {"asked", "listed", "refused"} => q.key \in GitHub!Keys
  /\ q.at = "found" => q.repository \in Repositories

\* What waits waits for a promise, what calls calls a repository.
AskLawful(q) ==
  /\ q.at = "awaiting" <=> q.promise # None
  /\ q.at = "calling" => q.repository \in Repositories

GhTypes ==
  /\ sourced \in [KnowledgeBases -> GitHub!Keys]
  /\ remembered \in [GitHub!Keys -> Discoveries \cup {None}]
  /\ promises \in [Discoveries -> GhPromises]
  /\ apps \in [Apps -> (0 .. MaxChanges) \cup {None}]
  /\ clients \in [Repositories -> GhClients \cup {None}]
  /\ asks \in [KnowledgeBases -> GhAsks]
  /\ covered \in [GitHub!Credentials -> SUBSET Repositories]
  /\ secret \in [GitHub!Credentials -> Nat]
  /\ changes \in 0 .. MaxChanges
  /\ \A c \in GitHub!Credentials : secret[c] <= changes

GhLawful ==
  /\ \A d \in Discoveries : PromiseLawful(promises[d])
  /\ \A kb \in KnowledgeBases : AskLawful(asks[kb])

\* What an App's listing does not show was not covered at some moment of it.
ListingFair(q, cover) ==
  q.at = "listed" /\ q.key[1] \in Apps =>
    \A r \in Repositories \ q.seen : r \notin cover[q.key[1]] \/ r \in q.stale

ListingsFair == \A d \in Discoveries : ListingFair(promises[d], covered)

GhInv == GhTypes /\ GhLawful /\ ListingsFair

\* What a key is made of.
LEMMA KeyParts == ASSUME NEW k \in GitHub!Keys PROVE k[1] \in GitHub!Credentials
BY DEF GitHub!Keys

\* Nothing is remembered or asked at first.
LEMMA GhInit == GitHub!Init => GhInv
<1> SUFFICES ASSUME GitHub!Init PROVE GhInv
  OBVIOUS
<1>1. GitHub!NoPromise \in GhPromises /\ GitHub!NoPromise.at = "idle"
  BY DEF GitHub!NoPromise, GhPromises, GhStages
<1>2. GitHub!Idle \in GhAsks /\ GitHub!Idle.at = "idle" /\ GitHub!Idle.promise = None
  BY DEF GitHub!Idle, GhAsks
<1>3. GhTypes
  BY <1>1, <1>2, PartsAssumption DEF GitHub!Init, GitHub!GitHubAssumption, GhTypes
<1>4. GhLawful /\ ListingsFair
  BY <1>1, <1>2 DEF GitHub!Init, GhLawful, PromiseLawful, AskLawful, ListingsFair, ListingFair
<1> QED
  BY <1>3, <1>4 DEF GhInv

\* A step of one promise or of one call, and what it leaves alone.
LEMMA GhPut ==
  ASSUME GhInv,
         \/ promises' = promises
         \/ \E d \in Discoveries, q \in GhPromises :
              /\ promises' = [promises EXCEPT ![d] = q]
              /\ PromiseLawful(q) /\ ListingFair(q, covered),
         \/ asks' = asks
         \/ \E kb \in KnowledgeBases, q \in GhAsks : asks' = [asks EXCEPT ![kb] = q] /\ AskLawful(q),
         remembered' \in [GitHub!Keys -> Discoveries \cup {None}],
         apps' \in [Apps -> (0 .. MaxChanges) \cup {None}],
         clients' \in [Repositories -> GhClients \cup {None}],
         changes' \in 0 .. MaxChanges, changes' >= changes,
         UNCHANGED <<sourced, covered, secret>>
  PROVE  GhInv'
<1>1. /\ promises' \in [Discoveries -> GhPromises]
      /\ \A d \in Discoveries : PromiseLawful(promises'[d]) /\ ListingFair(promises'[d], covered)
  <2>1. CASE promises' = promises
    BY <2>1 DEF GhInv, GhTypes, GhLawful, ListingsFair
  <2>2. ASSUME NEW d \in Discoveries, NEW q \in GhPromises, promises' = [promises EXCEPT ![d] = q],
               PromiseLawful(q), ListingFair(q, covered)
        PROVE  /\ promises' \in [Discoveries -> GhPromises]
               /\ \A e \in Discoveries : PromiseLawful(promises'[e]) /\ ListingFair(promises'[e], covered)
    <3>1. /\ promises' \in [Discoveries -> GhPromises]
          /\ \A e \in Discoveries : promises'[e] = IF e = d THEN q ELSE promises[e]
      BY <2>2 DEF GhInv, GhTypes
    <3> QED
      BY <2>2, <3>1 DEF GhInv, GhLawful, ListingsFair
  <2> QED
    BY <2>1, <2>2
<1>2. asks' \in [KnowledgeBases -> GhAsks] /\ \A kb \in KnowledgeBases : AskLawful(asks'[kb])
  <2>1. CASE asks' = asks
    BY <2>1 DEF GhInv, GhTypes, GhLawful
  <2>2. ASSUME NEW kb \in KnowledgeBases, NEW q \in GhAsks, asks' = [asks EXCEPT ![kb] = q], AskLawful(q)
        PROVE  asks' \in [KnowledgeBases -> GhAsks] /\ \A k \in KnowledgeBases : AskLawful(asks'[k])
    <3>1. /\ asks' \in [KnowledgeBases -> GhAsks]
          /\ \A k \in KnowledgeBases : asks'[k] = IF k = kb THEN q ELSE asks[k]
      BY <2>2 DEF GhInv, GhTypes
    <3> QED
      BY <2>2, <3>1 DEF GhInv, GhLawful
  <2> QED
    BY <2>1, <2>2
<1>3. GhTypes'
  <2>1. \A c \in GitHub!Credentials : secret[c] \in Nat /\ secret[c] <= changes
    BY DEF GhInv, GhTypes
  <2>2. changes \in Nat /\ changes' \in Nat
    BY DEF GhInv, GhTypes
  <2>3. \A c \in GitHub!Credentials : secret'[c] <= changes'
    BY <2>1, <2>2
  <2> QED
    BY <1>1, <1>2, <2>3 DEF GhInv, GhTypes
<1>4. GhLawful' /\ ListingsFair'
  BY <1>1, <1>2 DEF GhLawful, ListingsFair
<1> QED
  BY <1>3, <1>4 DEF GhInv

\* repository: a promise remembered, or a new one that reads its credential's secret.
LEMMA GhAsk == ASSUME GhInv, NEW kb \in KnowledgeBases, GitHub!Ask(kb) PROVE GhInv' /\ clients' = clients
<1>1. PICK kind \in {"run", "file"}, d \in Discoveries :
        /\ asks' = [asks EXCEPT ![kb] = [@ EXCEPT !.at = "awaiting", !.kind = kind, !.promise = d]]
        /\ \/ UNCHANGED <<remembered, promises, apps>>
           \/ /\ remembered' = [remembered EXCEPT ![GitHub!Key(kb)] = d]
              /\ promises' = [promises EXCEPT ![d] =
                   [GitHub!NoPromise EXCEPT !.at = "asked", !.key = GitHub!Key(kb),
                                            !.secret = GitHub!SecretRead(GitHub!Key(kb)[1])]]
              /\ GitHub!GetApp(GitHub!Key(kb)[1])
  BY DEF GitHub!Ask
<1>2. UNCHANGED <<sourced, clients, covered, secret, changes>>
  BY DEF GitHub!Ask
<1> DEFINE ask == [asks[kb] EXCEPT !.at = "awaiting", !.kind = kind, !.promise = d]
<1>3. ask \in GhAsks /\ AskLawful(ask)
  <2>1. asks[kb] \in GhAsks /\ d # None
    BY PartsAssumption DEF GhInv, GhTypes, GitHub!GitHubAssumption
  <2> QED
    BY <2>1 DEF GhAsks, AskLawful
<1>4. asks' = [asks EXCEPT ![kb] = ask]
  BY <1>1
<1> HIDE DEF ask
<1>5. GitHub!Key(kb) \in GitHub!Keys /\ GitHub!Key(kb)[1] \in GitHub!Credentials
  <2>1. GitHub!Key(kb) \in GitHub!Keys
    BY DEF GitHub!Key, GhInv, GhTypes
  <2> QED
    BY <2>1, KeyParts
<1> DEFINE s == GitHub!SecretRead(GitHub!Key(kb)[1])
<1>6. s \in (0 .. MaxChanges) \cup {None} /\ s # None
  <2>1. \A c \in GitHub!Credentials : secret[c] \in Nat /\ secret[c] <= changes
    BY DEF GhInv, GhTypes
  <2>2. \A c \in GitHub!Credentials : secret[c] \in 0 .. MaxChanges
    BY <2>1, PartsAssumption DEF GhInv, GhTypes, GitHub!GitHubAssumption
  <2>3. \A c \in Apps : apps[c] # None => apps[c] \in 0 .. MaxChanges
    BY DEF GhInv, GhTypes
  <2>4. None \notin 0 .. MaxChanges
    BY DispatchAssumption
  <2> QED
    BY <1>5, <2>2, <2>3, <2>4 DEF GitHub!SecretRead
<1>7. apps' \in [Apps -> (0 .. MaxChanges) \cup {None}]
  <2>1. apps' = apps \/ \E c \in Apps : apps' = [apps EXCEPT ![c] = s]
    BY <1>1 DEF GitHub!GetApp, s
  <2> QED
    BY <1>6, <2>1 DEF GhInv, GhTypes
<1>8. s \in Nat
  BY <1>6
<1> HIDE DEF s
<1> DEFINE q == [GitHub!NoPromise EXCEPT !.at = "asked", !.key = GitHub!Key(kb), !.secret = s]
<1>9. q \in GhPromises /\ q.at = "asked" /\ q.key = GitHub!Key(kb)
  BY <1>5, <1>8 DEF GitHub!NoPromise, GhPromises, GhStages
<1>10. PromiseLawful(q) /\ ListingFair(q, covered)
  BY <1>5, <1>9 DEF PromiseLawful, ListingFair
<1>11. promises' = promises \/ promises' = [promises EXCEPT ![d] = q]
  BY <1>1 DEF s
<1> HIDE DEF q
<1>12. remembered' \in [GitHub!Keys -> Discoveries \cup {None}]
  BY <1>1, <1>5 DEF GhInv, GhTypes
<1>13. clients' \in [Repositories -> GhClients \cup {None}] /\ changes' \in 0 .. MaxChanges /\ changes' >= changes
  BY <1>2 DEF GhInv, GhTypes
<1> QED
  BY <1>2, <1>3, <1>4, <1>7, <1>9, <1>10, <1>11, <1>12, <1>13, GhPut

\* GitHub answers a listing: what is covered now is what is seen.
LEMMA GhLists == ASSUME GhInv, NEW d \in Discoveries, GitHub!GitHubLists(d) PROVE GhInv' /\ clients' = clients
<1>1. promises[d] \in GhPromises /\ promises[d].key \in GitHub!Keys /\ promises[d].at = "asked"
  BY DEF GitHub!GitHubLists, GhInv, GhTypes, GhLawful, PromiseLawful
<1>2. promises[d].key[1] \in GitHub!Credentials
  BY <1>1, KeyParts
<1> DEFINE listed == [promises[d] EXCEPT !.at = "listed", !.seen = GitHub!Listing(promises[d].key)]
           refusedNow == [promises[d] EXCEPT !.at = "refused"]
<1>3. promises' \in {[promises EXCEPT ![d] = listed], [promises EXCEPT ![d] = refusedNow]}
  <2>1. [promises EXCEPT ![d].at = "listed", ![d].seen = GitHub!Listing(promises[d].key)] = [promises EXCEPT ![d] = listed]
    BY DEF GhInv, GhTypes, GhPromises
  <2>2. [promises EXCEPT ![d].at = "refused"] = [promises EXCEPT ![d] = refusedNow]
    OBVIOUS
  <2> QED
    BY <2>1, <2>2 DEF GitHub!GitHubLists
<1>4. GitHub!Listing(promises[d].key) \subseteq covered[promises[d].key[1]] /\ covered[promises[d].key[1]] \subseteq Repositories
  BY <1>2 DEF GitHub!Listing, GhInv, GhTypes
<1>5. promises[d].key[1] \in Apps => GitHub!Listing(promises[d].key) = covered[promises[d].key[1]]
  BY DEF GitHub!Listing
<1>6. listed \in GhPromises /\ PromiseLawful(listed) /\ ListingFair(listed, covered)
  <2>1. /\ listed \in GhPromises /\ listed.at = "listed" /\ listed.key = promises[d].key
        /\ listed.seen = GitHub!Listing(promises[d].key)
    BY <1>1, <1>4 DEF GhPromises, GhStages
  <2> HIDE DEF listed
  <2> QED
    BY <1>1, <1>5, <2>1 DEF PromiseLawful, ListingFair
<1>7. refusedNow \in GhPromises /\ PromiseLawful(refusedNow) /\ ListingFair(refusedNow, covered)
  BY <1>1 DEF GhPromises, GhStages, PromiseLawful, ListingFair
<1>8. UNCHANGED <<sourced, remembered, apps, clients, asks, covered, secret>>
  BY DEF GitHub!GitHubLists
<1>9. changes' \in 0 .. MaxChanges /\ changes' >= changes
  BY PartsAssumption DEF GitHub!GitHubLists, GhInv, GhTypes, GitHub!GitHubAssumption
<1>10. /\ remembered' \in [GitHub!Keys -> Discoveries \cup {None}]
       /\ apps' \in [Apps -> (0 .. MaxChanges) \cup {None}]
       /\ clients' \in [Repositories -> GhClients \cup {None}]
  BY <1>8 DEF GhInv, GhTypes
<1>11. \E q \in GhPromises : promises' = [promises EXCEPT ![d] = q] /\ PromiseLawful(q) /\ ListingFair(q, covered)
  <2> HIDE DEF listed, refusedNow
  <2> QED
    BY <1>3, <1>6, <1>7
<1> HIDE DEF listed, refusedNow
<1> QED
  BY <1>8, <1>9, <1>10, <1>11, GhPut


\* The rest of discover: clients of what is seen, and an App's client of what is not goes.
LEMMA GhDiscovered ==
  ASSUME GhInv, NEW d \in Discoveries, GitHub!Discovered(d)
  PROVE  GhInv' /\ GitHub!ForgottenWhenListed
<1>1. promises[d] \in GhPromises /\ promises[d].at \in {"listed", "refused"} /\ promises[d].key \in GitHub!Keys
  BY DEF GitHub!Discovered, GhInv, GhTypes, GhLawful, PromiseLawful
<1>2. promises[d].key[1] \in GitHub!Credentials
  BY <1>1, KeyParts
<1> DEFINE failed == [promises[d] EXCEPT !.at = "failed", !.seen = {}, !.stale = {}]
<1>3. failed \in GhPromises /\ PromiseLawful(failed) /\ ListingFair(failed, covered)
  BY <1>1 DEF GhPromises, GhStages, PromiseLawful, ListingFair
<1>4. GitHub!Fails(d) => promises' = [promises EXCEPT ![d] = failed]
  <2>1. [promises EXCEPT ![d].at = "failed", ![d].seen = {}, ![d].stale = {}] = [promises EXCEPT ![d] = failed]
    BY DEF GhInv, GhTypes, GhPromises
  <2> QED
    BY <2>1 DEF GitHub!Fails
<1>5. GitHub!Fails(d) => remembered' \in [GitHub!Keys -> Discoveries \cup {None}]
  BY <1>1 DEF GitHub!Fails, GhInv, GhTypes
<1>6. ASSUME NEW r \in Repositories
      PROVE  LET found == [promises[d] EXCEPT !.at = "found", !.repository = r, !.seen = {}, !.stale = {}]
             IN  found \in GhPromises /\ PromiseLawful(found) /\ ListingFair(found, covered)
  BY <1>1 DEF GhPromises, GhStages, PromiseLawful, ListingFair
<1>7. \E q \in GhPromises : promises' = [promises EXCEPT ![d] = q] /\ PromiseLawful(q) /\ ListingFair(q, covered)
  <2>1. CASE GitHub!Fails(d)
    <3> HIDE DEF failed
    <3> QED
      BY <1>3, <1>4, <2>1
  <2>2. ASSUME NEW r \in GitHub!Pick(promises[d].key, promises[d].seen),
               promises' = [promises EXCEPT ![d] = [@ EXCEPT !.at = "found", !.repository = r, !.seen = {}, !.stale = {}]]
        PROVE  \E q \in GhPromises : promises' = [promises EXCEPT ![d] = q] /\ PromiseLawful(q) /\ ListingFair(q, covered)
    <3>1. r \in Repositories
      BY <1>1 DEF GitHub!Pick, GhPromises
    <3> DEFINE found == [promises[d] EXCEPT !.at = "found", !.repository = r, !.seen = {}, !.stale = {}]
    <3>2. promises' = [promises EXCEPT ![d] = found] /\ found \in GhPromises /\ PromiseLawful(found) /\ ListingFair(found, covered)
      BY <1>6, <2>2, <3>1
    <3> HIDE DEF found
    <3> QED
      BY <3>2
  <2> QED
    BY <2>1, <2>2 DEF GitHub!Discovered
<1>8. remembered' \in [GitHub!Keys -> Discoveries \cup {None}]
  BY <1>5 DEF GitHub!Discovered, GhInv, GhTypes
<1>9. UNCHANGED <<sourced, apps, asks, covered, secret, changes>>
  BY DEF GitHub!Discovered
<1>10. clients' = clients \/ (promises[d].at = "listed" /\ clients' = GitHub!Kept(d))
  BY DEF GitHub!Discovered
<1>11. [credential |-> promises[d].key[1], secret |-> promises[d].secret] \in GhClients
  BY <1>1, <1>2 DEF GhPromises, GhClients
<1>12. clients' \in [Repositories -> GhClients \cup {None}]
  <2>1. CASE clients' = clients
    BY <2>1 DEF GhInv, GhTypes
  <2>2. CASE clients' = GitHub!Kept(d)
    BY <1>11, <2>2 DEF GitHub!Kept, GhInv, GhTypes
  <2> QED
    BY <1>10, <2>1, <2>2
<1>13. apps' \in [Apps -> (0 .. MaxChanges) \cup {None}] /\ changes' \in 0 .. MaxChanges /\ changes' >= changes
  BY <1>9 DEF GhInv, GhTypes
<1> HIDE DEF failed
<1>14. GhInv'
  BY <1>7, <1>8, <1>9, <1>12, <1>13, GhPut
<1>15. ASSUME NEW r \in Repositories, clients[r] # None, clients'[r] = None
       PROVE  /\ r \notin covered[clients[r].credential] \/ \E e \in Discoveries : r \in promises[e].stale
              /\ \E e \in Discoveries : promises[e].at = "listed" /\ promises[e].key[1] = clients[r].credential
  <2>1. promises[d].at = "listed" /\ clients' = GitHub!Kept(d)
    BY <1>10, <1>15
  <2>2. r \notin promises[d].seen
    <3>1. None \notin GhClients
      BY PartsAssumption DEF GitHub!GitHubAssumption, GhClients
    <3> QED
      BY <1>11, <1>15, <2>1, <3>1 DEF GitHub!Kept
  <2>3. promises[d].key[1] \in Apps /\ clients[r].credential = promises[d].key[1]
    BY <1>15, <2>1, <2>2 DEF GitHub!Kept
  <2>4. r \notin covered[promises[d].key[1]] \/ r \in promises[d].stale
    BY <2>1, <2>2, <2>3 DEF GhInv, ListingsFair, ListingFair
  <2> QED
    BY <2>1, <2>3, <2>4
<1> QED
  BY <1>14, <1>15 DEF GitHub!ForgottenWhenListed

\* The run or the read is over, or fails and forgets, or calls.
LEMMA GhEnds ==
  ASSUME GhInv, NEW kb \in KnowledgeBases,
         \/ \E how \in {"ok", "failed"} : GitHub!Over(kb, how)
         \/ \E r \in Repositories : GitHub!Call(kb, r),
         remembered' = remembered \/ GitHub!Forget(kb),
         UNCHANGED <<sourced, promises, apps, clients, covered, secret, changes>>
  PROVE  GhInv'
<1>1. asks[kb] \in GhAsks
  BY DEF GhInv, GhTypes
<1>2. ASSUME NEW how \in {"ok", "failed"}, GitHub!Over(kb, how)
      PROVE  \E q \in GhAsks : asks' = [asks EXCEPT ![kb] = q] /\ AskLawful(q)
  <2> DEFINE over == [GitHub!Idle EXCEPT !.last = how]
  <2>1. over \in GhAsks /\ AskLawful(over)
    BY DEF GitHub!Idle, GhAsks, AskLawful
  <2>2. asks' = [asks EXCEPT ![kb] = over]
    BY <1>2 DEF GitHub!Over
  <2> HIDE DEF over
  <2> QED
    BY <2>1, <2>2
<1>3. ASSUME NEW r \in Repositories, GitHub!Call(kb, r)
      PROVE  \E q \in GhAsks : asks' = [asks EXCEPT ![kb] = q] /\ AskLawful(q)
  <2>1. CASE clients[r] = None
    BY <1>2, <1>3, <2>1 DEF GitHub!Call, GitHub!Fail
  <2>2. CASE clients[r] # None
    <3> DEFINE calling == [asks[kb] EXCEPT !.at = "calling", !.promise = None, !.repository = r, !.client = clients[r]]
    <3>1. clients[r] \in GhClients
      BY <2>2 DEF GhInv, GhTypes
    <3>2. calling \in GhAsks /\ AskLawful(calling)
      BY <1>1, <3>1 DEF GhAsks, AskLawful
    <3>3. asks' = [asks EXCEPT ![kb] = calling]
      BY <1>3, <2>2 DEF GitHub!Call
    <3> HIDE DEF calling
    <3> QED
      BY <3>2, <3>3
  <2> QED
    BY <2>1, <2>2
<1>4. \E q \in GhAsks : asks' = [asks EXCEPT ![kb] = q] /\ AskLawful(q)
  BY <1>2, <1>3
<1>5. remembered' \in [GitHub!Keys -> Discoveries \cup {None}]
  BY DEF GitHub!Forget, GhInv, GhTypes
<1>6. /\ apps' \in [Apps -> (0 .. MaxChanges) \cup {None}]
      /\ clients' \in [Repositories -> GhClients \cup {None}]
      /\ changes' \in 0 .. MaxChanges /\ changes' >= changes
  BY DEF GhInv, GhTypes
<1> QED
  BY <1>4, <1>5, <1>6, GhPut

\* The promise of repository settles for one that awaits it.
LEMMA GhResume == ASSUME GhInv, NEW kb \in KnowledgeBases, GitHub!Resume(kb) PROVE GhInv' /\ clients' = clients
<1>1. /\ asks[kb].at = "awaiting"
      /\ \/ GitHub!Fail(kb)
         \/ promises[asks[kb].promise].at = "found" /\ GitHub!Call(kb, promises[asks[kb].promise].repository)
      /\ UNCHANGED <<sourced, promises, apps, clients, covered, secret, changes>>
  BY DEF GitHub!Resume
<1>2. asks[kb].promise \in Discoveries
  BY <1>1 DEF GhInv, GhTypes, GhLawful, AskLawful, GhAsks
<1>3. CASE GitHub!Fail(kb)
  BY <1>1, <1>3, GhEnds DEF GitHub!Fail
<1>4. CASE promises[asks[kb].promise].at = "found" /\ GitHub!Call(kb, promises[asks[kb].promise].repository)
  <2>1. promises[asks[kb].promise].repository \in Repositories
    BY <1>2, <1>4 DEF GhInv, GhLawful, PromiseLawful
  <2>2. remembered' = remembered \/ GitHub!Forget(kb)
    BY <1>4 DEF GitHub!Call, GitHub!Fail
  <2> QED
    BY <1>1, <1>4, <2>1, <2>2, GhEnds
<1> QED
  BY <1>1, <1>3, <1>4

\* GitHub answers the call.
LEMMA GhAnswered == ASSUME GhInv, NEW kb \in KnowledgeBases, GitHub!Answered(kb) PROVE GhInv' /\ clients' = clients
<1>1. /\ asks[kb].at = "calling"
      /\ \/ GitHub!Over(kb, "ok") /\ UNCHANGED remembered
         \/ GitHub!Call(kb, asks[kb].repository)
         \/ GitHub!Fail(kb)
      /\ UNCHANGED <<sourced, promises, apps, clients, covered, secret, changes>>
  BY DEF GitHub!Answered
<1>2. asks[kb].repository \in Repositories
  BY <1>1 DEF GhInv, GhLawful, AskLawful
<1>3. remembered' = remembered \/ GitHub!Forget(kb)
  BY <1>1 DEF GitHub!Call, GitHub!Fail
<1>4. \/ \E how \in {"ok", "failed"} : GitHub!Over(kb, how)
      \/ \E r \in Repositories : GitHub!Call(kb, r)
  BY <1>1, <1>2 DEF GitHub!Fail
<1> QED
  BY <1>1, <1>3, <1>4, GhEnds


\* An installation changes under a listing: what it may have read before is stale.
LEMMA GhCovers ==
  ASSUME GhInv, NEW c \in GitHub!Credentials, GitHub!CoverageChanges(c)
  PROVE  GhInv' /\ clients' = clients
<1>1. /\ changes < MaxChanges /\ changes' = changes + 1
      /\ UNCHANGED <<sourced, remembered, apps, clients, asks, secret>>
      /\ promises' = [d \in Discoveries |->
           IF promises[d].at \in {"asked", "listed"} /\ promises[d].key[1] = c
             THEN [promises[d] EXCEPT !.stale = @ \cup ((covered[c] \ covered'[c]) \cup (covered'[c] \ covered[c]))]
             ELSE promises[d]]
  BY DEF GitHub!CoverageChanges
<1>2. PICK cover \in SUBSET Repositories : covered' = [covered EXCEPT ![c] = cover]
  BY DEF GitHub!CoverageChanges
<1>3. /\ covered' \in [GitHub!Credentials -> SUBSET Repositories]
      /\ \A b \in GitHub!Credentials : b # c => covered'[b] = covered[b]
  BY <1>2 DEF GhInv, GhTypes
<1>4. ASSUME NEW d \in Discoveries
      PROVE  promises'[d] \in GhPromises /\ PromiseLawful(promises'[d]) /\ ListingFair(promises'[d], covered')
  <2>1. promises[d] \in GhPromises /\ PromiseLawful(promises[d]) /\ ListingFair(promises[d], covered)
    BY DEF GhInv, GhTypes, GhLawful, ListingsFair
  <2>2. CASE promises[d].at \in {"asked", "listed"} /\ promises[d].key[1] = c
    <3> DEFINE changed == (covered[c] \ covered'[c]) \cup (covered'[c] \ covered[c])
               q == [promises[d] EXCEPT !.stale = @ \cup changed]
    <3>1. changed \subseteq Repositories
      BY <1>3 DEF GhInv, GhTypes
    <3>2. /\ q \in GhPromises /\ q.at = promises[d].at /\ q.key = promises[d].key /\ q.seen = promises[d].seen
          /\ q.repository = promises[d].repository /\ q.stale = promises[d].stale \cup changed
      <4> HIDE DEF changed
      <4> QED
        BY <2>1, <3>1 DEF GhPromises
    <3>3. promises'[d] = q
      BY <1>1, <2>2
    <3> HIDE DEF q
    <3> QED
      BY <2>1, <2>2, <3>2, <3>3 DEF PromiseLawful, ListingFair
  <2>3. CASE ~(promises[d].at \in {"asked", "listed"} /\ promises[d].key[1] = c)
    <3>1. promises'[d] = promises[d]
      BY <1>1, <2>3
    <3>2. promises[d].at = "listed" => covered'[promises[d].key[1]] = covered[promises[d].key[1]]
      <4>1. promises[d].at = "listed" => promises[d].key[1] \in GitHub!Credentials /\ promises[d].key[1] # c
        BY <2>1, <2>3, KeyParts DEF PromiseLawful
      <4> QED
        BY <1>3, <4>1
    <3> QED
      BY <2>1, <3>1, <3>2 DEF ListingFair
  <2> QED
    BY <2>2, <2>3
<1>5. promises' \in [Discoveries -> GhPromises]
  BY <1>1, <1>4
<1>6. changes' \in 0 .. MaxChanges /\ \A b \in GitHub!Credentials : secret[b] <= changes'
  <2>1. \A b \in GitHub!Credentials : secret[b] \in Nat /\ secret[b] <= changes
    BY DEF GhInv, GhTypes
  <2>2. changes \in 0 .. MaxChanges /\ MaxChanges \in Nat
    BY PartsAssumption DEF GhInv, GhTypes, GitHub!GitHubAssumption
  <2> QED
    BY <1>1, <2>1, <2>2
<1>7. GhTypes'
  BY <1>1, <1>3, <1>5, <1>6 DEF GhInv, GhTypes
<1>8. GhLawful' /\ ListingsFair'
  BY <1>1, <1>4 DEF GhInv, GhLawful, ListingsFair
<1> QED
  BY <1>1, <1>7, <1>8 DEF GhInv

\* A mounted secret is replaced: nothing that was read changes.
LEMMA GhRotates ==
  ASSUME GhInv, NEW c \in GitHub!Credentials, GitHub!Rotate(c)
  PROVE  GhInv' /\ clients' = clients
<1>1. /\ changes < MaxChanges /\ changes' = changes + 1 /\ secret' = [secret EXCEPT ![c] = @ + 1]
      /\ UNCHANGED <<sourced, remembered, promises, apps, clients, asks, covered>>
  BY DEF GitHub!Rotate
<1>2. changes \in 0 .. MaxChanges /\ MaxChanges \in Nat
  BY PartsAssumption DEF GhInv, GhTypes, GitHub!GitHubAssumption
<1>3. secret \in [GitHub!Credentials -> Nat] /\ \A b \in GitHub!Credentials : secret[b] <= changes
  BY DEF GhInv, GhTypes
<1>4. secret' \in [GitHub!Credentials -> Nat] /\ \A b \in GitHub!Credentials : secret'[b] <= changes'
  BY <1>1, <1>2, <1>3
<1>5. GhTypes'
  BY <1>1, <1>2, <1>4 DEF GhInv, GhTypes
<1> QED
  BY <1>1, <1>5 DEF GhInv, GhLawful, ListingsFair

\* A step of the part keeps what holds of it, and takes no client away that it may not.
LEMMA GhStep ==
  ASSUME GhInv, [GitHub!Next]_(GitHub!vars)
  PROVE  GhInv' /\ GitHub!ForgottenWhenListed
<1>1. clients' = clients => GitHub!ForgottenWhenListed
  BY DEF GitHub!ForgottenWhenListed
<1>2. CASE UNCHANGED GitHub!vars
  BY <1>1, <1>2 DEF GitHub!vars, GhInv, GhTypes, GhLawful, ListingsFair
<1>3. CASE GitHub!Next
  BY <1>1, <1>3, GhAsk, GhResume, GhAnswered, GhLists, GhDiscovered, GhCovers, GhRotates DEF GitHub!Next
<1> QED
  BY <1>2, <1>3

\* The part's variables hold what GitHubRepositoryService and GitHubEndpoint can put in them.
LEMMA GhTyped == GhInv => GitHub!TypeOK
<1> SUFFICES ASSUME GhInv PROVE GitHub!TypeOK
  OBVIOUS
<1>1. \A d \in Discoveries : promises[d] \in GhPromises /\ PromiseLawful(promises[d])
  BY DEF GhInv, GhTypes, GhLawful
<1>2. \A kb \in KnowledgeBases : asks[kb] \in GhAsks /\ AskLawful(asks[kb])
  BY DEF GhInv, GhTypes, GhLawful
<1>3. \A r \in Repositories : clients[r] # None => clients[r].credential \in GitHub!Credentials
  BY DEF GhInv, GhTypes, GhClients
<1> QED
  BY <1>1, <1>2, <1>3 DEF GhInv, GhTypes, PromiseLawful, AskLawful, GhPromises, GhStages, GhAsks, GitHub!TypeOK


----------------------------------------------------------------------------
(* UiStatus: what the rendered page, the probe and the requests hold *)

Pages == [name : {"list", "detail", "create"}, load : {"loading", "loaded", "failed"},
          error : BOOLEAN, busy : BOOLEAN, held : BOOLEAN, blamed : BOOLEAN, late : BOOLEAN]
PageRequests == [stage : {"free", "sent", "reading", "refused", "rejected", "wrong"},
                 what : {"load", "update", "remove", "create"}, mine : BOOLEAN]
Probes == [stage : {"none", "waiting", "asking"}, delay : 0 .. 1]

\* What a request can be and become.
LEMMA RequestsTyped ==
  /\ Ui!Free \in PageRequests
  /\ \A what \in {"load", "update", "remove", "create"}, q \in 1 .. 2 : Ui!Send(q, what) \in PageRequests
  /\ \A name \in {"list", "detail", "create"} : Ui!Mounted(name) \in Pages
  /\ Ui!NoProbe \in Probes
BY DEF Ui!Free, Ui!Send, Ui!Mounted, Ui!NoProbe, PageRequests, Pages, Probes

\* A page that loads or has loaded, that is busy or not, and that is told too late, is a page.
LEMMA PageChanges ==
  ASSUME NEW p \in Pages, NEW load \in {"loading", "loaded", "failed"}, NEW e \in BOOLEAN, NEW b \in BOOLEAN,
         NEW held \in BOOLEAN, NEW late \in BOOLEAN
  PROVE  /\ [p EXCEPT !.load = load, !.error = e] \in Pages
         /\ [p EXCEPT !.load = load, !.error = e, !.blamed = b, !.late = late] \in Pages
         /\ [p EXCEPT !.load = load, !.error = e, !.held = held, !.blamed = b] \in Pages
         /\ [p EXCEPT !.busy = b, !.error = e] \in Pages
         /\ [p EXCEPT !.late = late] \in Pages
BY DEF Pages

\* A page told of a recovery that is too late for it is a page.
LEMMA LateTyped == ASSUME NEW p \in Pages PROVE Ui!TooLate(p) \in Pages
<1>1. (p.late \/ Ui!Unshown) \in BOOLEAN
  OBVIOUS
<1>2. Ui!TooLate(p) = [p EXCEPT !.late = (p.late \/ Ui!Unshown)]
  BY DEF Ui!TooLate
<1> QED
  BY <1>1, <1>2, PageChanges

\* The client, or the probe, sets the status: it stays one of the four, and the page a page.
LEMMA StatusSet ==
  ASSUME page \in Pages, NEW value \in Ui!Statuses, Ui!SetStatus(value)
  PROVE  wanted' \in Ui!Statuses /\ page' \in Pages
<1>1. Ui!TooLate(page) \in Pages
  BY LateTyped
<1>2. (Ui!TooLate(page).late \/ page.blamed) \in BOOLEAN
  OBVIOUS
<1>3. [Ui!TooLate(page) EXCEPT !.late = (Ui!TooLate(page).late \/ page.blamed)] \in Pages
  BY <1>1, <1>2, PageChanges
<1>4. page' = page \/ page' = [Ui!TooLate(page) EXCEPT !.late = (Ui!TooLate(page).late \/ page.blamed)]
  BY DEF Ui!SetStatus
<1> QED
  BY <1>3, <1>4 DEF Ui!SetStatus

\* A load is sent on a free request.
LEMMA LoadTyped ==
  ASSUME NEW p \in Pages, NEW q \in 1 .. 2, NEW rs \in [1 .. 2 -> PageRequests], Ui!LoadInto(p, q, rs)
  PROVE  page' \in Pages /\ request' \in [1 .. 2 -> PageRequests]
<1>1. /\ page' = [p EXCEPT !.load = "loading", !.error = FALSE, !.blamed = FALSE, !.late = FALSE]
      /\ request' = [rs EXCEPT ![q] = Ui!Send(q, "load")]
  BY DEF Ui!LoadInto
<1>2. page' \in Pages
  BY <1>1, PageChanges
<1>3. Ui!Send(q, "load") \in PageRequests
  BY RequestsTyped
<1> QED
  BY <1>1, <1>2, <1>3

\* What a page had under way is no longer its own once it is left or loads again.
LEMMA CancelledTyped ==
  ASSUME request \in [1 .. 2 -> PageRequests], NEW name
  PROVE  Ui!Cancelled(name) \in [1 .. 2 -> PageRequests]
<1>1. \A q \in 1 .. 2 : [request[q] EXCEPT !.mine = FALSE] \in PageRequests
  BY DEF PageRequests
<1> QED
  BY <1>1 DEF Ui!Cancelled

\* The page a route renders is a page.
LEMMA MovedTyped ==
  ASSUME page \in Pages, NEW name \in {"list", "detail", "create"}
  PROVE  Ui!Moved(name) \in Pages
BY RequestsTyped DEF Ui!Moved

\* The part's variables hold what useApiStatus and the pages can put in them.
LEMMA UiInit == Ui!Init => Ui!TypeOK
<1> SUFFICES ASSUME Ui!Init PROVE Ui!TypeOK
  OBVIOUS
<1>1. PICK name \in {"list", "detail", "create"}, q \in 1 .. 2 :
        /\ page = Ui!Mounted(name)
        /\ request = [r \in 1 .. 2 |-> IF r = q /\ name # "create" THEN [stage |-> "sent", what |-> "load", mine |-> TRUE]
                                       ELSE Ui!Free]
  BY DEF Ui!Init
<1>2. page \in Pages /\ request \in [1 .. 2 -> PageRequests] /\ probe \in Probes
  BY <1>1, RequestsTyped DEF Ui!Init, PageRequests
<1> QED
  BY <1>2 DEF Ui!Init, Ui!TypeOK, Ui!Statuses, Pages, PageRequests, Probes

\* The steps that change what is shown or under way leave the status alone.
LEMMA UiShows ==
  ASSUME Ui!TypeOK, page' \in Pages, request' \in [1 .. 2 -> PageRequests],
         UNCHANGED <<status, wanted, offlineRef, probe>>
  PROVE  Ui!TypeOK'
BY DEF Ui!TypeOK, Pages, PageRequests

\* The steps of the status leave what is under way alone.
LEMMA UiRates ==
  ASSUME Ui!TypeOK, {status', wanted'} \subseteq Ui!Statuses, offlineRef' \in Ui!Statuses \cup {None}, probe' \in Probes,
         page' \in Pages, UNCHANGED request
  PROVE  Ui!TypeOK'
BY DEF Ui!TypeOK, Pages, Probes

LEMMA UiSteps == ASSUME Ui!TypeOK, [Ui!Next]_(Ui!vars) PROVE Ui!TypeOK'
<1>1. page \in Pages /\ request \in [1 .. 2 -> PageRequests] /\ probe \in Probes
  BY DEF Ui!TypeOK, Pages, PageRequests, Probes
<1>2. status \in Ui!Statuses /\ wanted \in Ui!Statuses /\ offlineRef \in Ui!Statuses \cup {None}
  BY DEF Ui!TypeOK
<1>3. CASE UNCHANGED Ui!vars
  BY <1>3 DEF Ui!vars, Ui!TypeOK
<1>4. ASSUME NEW q \in 1 .. 2, Ui!Answered(q) PROVE Ui!TypeOK'
  <2>1. PICK how \in Ui!Outcomes :
          /\ Ui!Report(how)
          /\ request' = [request EXCEPT ![q].stage = CASE how = "success" -> "reading"
                                                       [] how = "network" -> "rejected"
                                                       [] how = "client-error" -> "wrong"
                                                       [] OTHER -> "refused"]
    BY <1>4 DEF Ui!Answered
  <2>2. how \in {"success", "client-error", "unauthorized", "server-error", "network"}
    BY DEF Ui!Outcomes
  <2>3. Ui!StatusForOutcome(how) \in Ui!Statuses
    BY <2>2 DEF Ui!StatusForOutcome, Ui!Statuses
  <2>4. wanted' \in Ui!Statuses /\ page' \in Pages /\ offlineRef' = None
    BY <1>1, <2>1, <2>3, StatusSet DEF Ui!Report
  <2>5. \A stage \in {"reading", "rejected", "wrong", "refused"} : [request[q] EXCEPT !.stage = stage] \in PageRequests
    BY <1>1 DEF PageRequests
  <2>6. request' \in [1 .. 2 -> PageRequests]
    <3>1. \E stage \in {"reading", "rejected", "wrong", "refused"} : request' = [request EXCEPT ![q] = [request[q] EXCEPT !.stage = stage]]
      BY <2>1
    <3> QED
      BY <1>1, <2>5, <3>1
  <2>7. UNCHANGED <<status, probe>>
    BY <1>4 DEF Ui!Answered
  <2> QED
    BY <1>1, <1>2, <2>4, <2>6, <2>7 DEF Ui!TypeOK, Pages, PageRequests, Probes
<1>5. ASSUME NEW q \in 1 .. 2, Ui!LoadEnds(q) \/ Ui!Breaks(q) \/ Ui!UpdateEnds(q) \/ Ui!FormFails(q) PROVE Ui!TypeOK'
  <2>1. request' = [request EXCEPT ![q] = Ui!Free] /\ UNCHANGED <<status, wanted, offlineRef, probe>>
    BY <1>5 DEF Ui!LoadEnds, Ui!Breaks, Ui!UpdateEnds, Ui!FormFails
  <2>2. request' \in [1 .. 2 -> PageRequests]
    BY <1>1, <2>1, RequestsTyped
  <2>3. Ui!Outcome(q) \subseteq {"failed", "loaded"}
    BY DEF Ui!Outcome
  <2>4. page' \in Pages
    <3>1. CASE Ui!LoadEnds(q)
      <4> DEFINE Ended(end) == [page EXCEPT !.load = end, !.error = (end = "failed"),
                                            !.held = (page.held \/ (end = "loaded" /\ page.name = "detail")),
                                            !.blamed = (request[q].stage \in {"refused", "rejected"})]
      <4>1. PICK end \in Ui!Outcome(q) : page' = page \/ page' = Ended(end)
        BY <3>1 DEF Ui!LoadEnds
      <4>2. Ended(end) \in Pages
        <5>1. /\ end \in {"loading", "loaded", "failed"} /\ (end = "failed") \in BOOLEAN
              /\ (page.held \/ (end = "loaded" /\ page.name = "detail")) \in BOOLEAN
              /\ (request[q].stage \in {"refused", "rejected"}) \in BOOLEAN
          BY <2>3
        <5> QED
          BY <1>1, <5>1, PageChanges
      <4> QED
        BY <1>1, <4>1, <4>2
    <3>2. CASE Ui!Breaks(q)
      <4>1. \/ page' = page \/ page' = [page EXCEPT !.load = "failed", !.error = TRUE]
            \/ page' = [page EXCEPT !.busy = FALSE, !.error = TRUE]
        BY <3>2 DEF Ui!Breaks
      <4> QED
        BY <1>1, <4>1, PageChanges
    <3>3. CASE Ui!UpdateEnds(q)
      <4>1. PICK end \in Ui!Outcome(q) : page' = page \/ page' = [page EXCEPT !.busy = FALSE, !.error = end = "failed"]
        BY <3>3 DEF Ui!UpdateEnds
      <4>2. [page EXCEPT !.busy = FALSE, !.error = end = "failed"] \in Pages
        <5>1. (end = "failed") \in BOOLEAN
          OBVIOUS
        <5> QED
          BY <1>1, <5>1, PageChanges
      <4> QED
        BY <1>1, <4>1, <4>2
    <3>4. CASE Ui!FormFails(q)
      <4>1. page' = page \/ page' = [page EXCEPT !.busy = FALSE, !.error = TRUE]
        BY <3>4 DEF Ui!FormFails
      <4> QED
        BY <1>1, <4>1, PageChanges
    <3> QED
      BY <1>5, <3>1, <3>2, <3>3, <3>4
  <2> QED
    BY <2>1, <2>2, <2>4, UiShows
<1>6. ASSUME NEW q \in 1 .. 2, Ui!FormNavigates(q) PROVE Ui!TypeOK'
  <2> DEFINE to == Ui!Destination(q)
  <2>1. to \in {"list", "detail", "create"}
    BY DEF Ui!Destination
  <2>2. CASE request' = [request EXCEPT ![q] = Ui!Free] /\ UNCHANGED page
    <3>1. page' \in Pages /\ request' \in [1 .. 2 -> PageRequests]
      BY <1>1, <2>2, RequestsTyped
    <3> QED
      BY <1>6, <3>1, UiShows DEF Ui!FormNavigates
  <2>3. ASSUME NEW r \in 1 .. 2, Ui!LoadInto(Ui!Moved(to), r, [Ui!Cancelled(to) EXCEPT ![q] = Ui!Free])
        PROVE  Ui!TypeOK'
    <3>1. [Ui!Cancelled(to) EXCEPT ![q] = Ui!Free] \in [1 .. 2 -> PageRequests]
      BY <1>1, CancelledTyped, RequestsTyped
    <3>2. Ui!Moved(to) \in Pages
      BY <1>1, <2>1, MovedTyped
    <3>3. page' \in Pages /\ request' \in [1 .. 2 -> PageRequests]
      BY <2>3, <3>1, <3>2, LoadTyped
    <3> QED
      BY <1>6, <3>3, UiShows DEF Ui!FormNavigates
  <2> QED
    BY <1>6, <2>2, <2>3 DEF Ui!FormNavigates
<1>7. CASE Ui!Render
  <2>1. Ui!ProbeEffect(wanted) \in Probes
    BY DEF Ui!ProbeEffect, Ui!NoProbe, Probes
  <2> QED
    BY <1>1, <1>2, <1>7, <2>1, UiRates DEF Ui!Render
<1>8. CASE Ui!Recovery
  <2>1. \/ page' = Ui!TooLate(page) /\ UNCHANGED request
        \/ \E q \in 1 .. 2 : Ui!LoadInto(page, q, Ui!Cancelled(page.name))
    BY <1>8 DEF Ui!Recovery
  <2>2. page' \in Pages /\ request' \in [1 .. 2 -> PageRequests]
    BY <1>1, <2>1, LateTyped, CancelledTyped, LoadTyped
  <2> QED
    BY <1>8, <2>2, UiShows DEF Ui!Recovery
<1>9. CASE Ui!ProbeFires \/ Ui!ProbeAnswers
  <2>1. /\ [probe EXCEPT !.stage = "asking"] \in Probes
        /\ [stage |-> "waiting", delay |-> IF probe.delay < 1 THEN probe.delay + 1 ELSE probe.delay] \in Probes
    BY <1>1 DEF Probes
  <2>2. probe' \in Probes
    BY <1>1, <1>9, <2>1, RequestsTyped DEF Ui!ProbeFires, Ui!ProbeAnswers
  <2>3. wanted' \in Ui!Statuses /\ page' \in Pages
    <3>1. "ok" \in Ui!Statuses
      BY DEF Ui!Statuses
    <3>2. UNCHANGED <<wanted, page>> \/ Ui!SetStatus("ok")
      BY <1>9 DEF Ui!ProbeFires, Ui!ProbeAnswers
    <3> QED
      BY <1>1, <1>2, <3>1, <3>2, StatusSet
  <2>4. UNCHANGED <<status, offlineRef, request>>
    BY <1>9 DEF Ui!ProbeFires, Ui!ProbeAnswers
  <2> QED
    BY <1>2, <2>2, <2>3, <2>4, UiRates
<1>10. CASE Ui!GoOffline \/ Ui!GoOnline
  <2>1. "unreachable" \in Ui!Statuses
    BY DEF Ui!Statuses
  <2>2. \/ UNCHANGED <<wanted, page>> \/ Ui!SetStatus("unreachable")
        \/ offlineRef # None /\ Ui!SetStatus(offlineRef)
    BY <1>10 DEF Ui!GoOffline, Ui!GoOnline
  <2>3. wanted' \in Ui!Statuses /\ page' \in Pages
    BY <1>1, <1>2, <2>1, <2>2, StatusSet
  <2>4. offlineRef' \in Ui!Statuses \cup {None} /\ UNCHANGED <<status, probe, request>>
    BY <1>2, <1>10 DEF Ui!GoOffline, Ui!GoOnline
  <2> QED
    BY <1>1, <1>2, <2>3, <2>4, UiRates
<1>11. CASE Ui!Trouble \/ Ui!Mended \/ Ui!Switch
  BY <1>1, <1>2, <1>11, UiRates DEF Ui!Trouble, Ui!Mended, Ui!Switch
<1>12. ASSUME NEW name \in {"list", "detail", "create"}, Ui!Visit(name) PROVE Ui!TypeOK'
  <2>1. Ui!Moved(name) \in Pages
    BY <1>1, MovedTyped
  <2>2. \/ page' = Ui!Moved(name) /\ request' = Ui!Cancelled(name)
        \/ \E q \in 1 .. 2 : Ui!LoadInto(Ui!Moved(name), q, Ui!Cancelled(name))
    BY <1>12 DEF Ui!Visit, Ui!Mount
  <2>3. page' \in Pages /\ request' \in [1 .. 2 -> PageRequests]
    BY <1>1, <2>1, <2>2, CancelledTyped, LoadTyped
  <2> QED
    BY <1>12, <2>3, UiShows DEF Ui!Visit
<1>13. ASSUME NEW q \in 1 .. 2, NEW what \in {"update", "remove", "create"}, Ui!Submit(q, what) PROVE Ui!TypeOK'
  <2>1. /\ request' = [request EXCEPT ![q] = Ui!Send(q, what)]
        /\ page' = [page EXCEPT !.busy = TRUE, !.error = FALSE]
        /\ UNCHANGED <<status, wanted, offlineRef, probe>>
    BY <1>13 DEF Ui!Submit
  <2>2. Ui!Send(q, what) \in PageRequests
    BY RequestsTyped
  <2>3. page' \in Pages
    BY <1>1, <2>1, PageChanges
  <2> QED
    BY <1>1, <2>1, <2>2, <2>3, UiShows
<1> QED
  BY <1>3, <1>4, <1>5, <1>6, <1>7, <1>8, <1>9, <1>10, <1>11, <1>12, <1>13 DEF Ui!Next

----------------------------------------------------------------------------
(* MiotDevice: what runWithStamp promises of a call *)

DevActive == {"load", "hello", "send", "wait", "persist"}

\* What a call has done by the stage it is at: an attempt with the reading there is, or behind a
\* handshake, and one more behind a handshake.
DevStory(k) ==
  /\ k.at \in {"idle", "queued", "load"} => k.attempts = 0 /\ ~k.retry /\ ~k.fresh
  /\ k.at = "hello" => k.fresh /\ k.attempts = (IF k.retry THEN 1 ELSE 0)
  /\ k.at \in {"send", "wait", "persist"} => k.attempts = (IF k.retry THEN 2 ELSE 1) /\ (k.retry => k.fresh)
  /\ k.at \in {"send", "wait"} => k.left > 0
  /\ k.at = "failed" => (k.stampRefreshed <=> k.attempts = 2)
  /\ k.at # "failed" => ~k.stampRefreshed
  /\ k.wire # "none" => k.at = "wait"

\* A call of one packet: executed at most once in each attempt, answered at most once.
DevSingle(k, n) ==
  /\ n <= k.attempts
  /\ k.at = "send" \/ k.wire = "out" => n < k.attempts
  /\ k.at \in {"send", "wait"} => k.left = 1
  /\ k.at \in {"persist", "done"} \/ k.oks = 0
  /\ k.oks <= 1

\* A call's part of the invariant.
DevLawful(c, k, n) == k \in Device!CallStates /\ DevStory(k) /\ n \in Nat /\ (c \notin Bulk => DevSingle(k, n))

\* The chain: whoever has begun has only settled calls before it.
DevLined ==
  /\ line \in Seq(Calls)
  /\ \A i \in DOMAIN line : ~Device!At(line[i], "idle")
  /\ \A c \in Calls : ~Device!At(c, "idle") => \E i \in DOMAIN line : line[i] = c
  /\ \A i, j \in DOMAIN line : line[i] = line[j] => i = j
DevSerial == \A i, j \in DOMAIN line : i < j /\ ~Device!At(line[j], "queued") => Device!Settled(line[i])

\* A call between handshake and answer has a reading.
DevRead == \A c \in Calls : Device!At(c, "send") \/ Device!At(c, "wait") => clock # "none"

DevRest ==
  /\ clock \in Device!Clocks /\ store \in Device!Clocks /\ known \in BOOLEAN
  /\ discovery \in {"idle", "hello", "persist"}
  /\ devFaults \in 0..DeviceFaults

DevShape == call = [c \in Calls |-> call[c]] /\ executed = [c \in Calls |-> executed[c]]

DevIInv ==
  /\ DevShape /\ \A c \in Calls : DevLawful(c, call[c], executed[c])
  /\ DevLined /\ DevSerial /\ DevRead /\ DevRest

----------------------------------------------------------------------------
(* One call at a time *)

\* Two calls are never both under way.
LEMMA DevOneActive ==
  ASSUME DevIInv, NEW c \in Calls, NEW d \in Calls, call[c].at \in DevActive, call[d].at \in DevActive
  PROVE  c = d
<1>1. PICK i \in DOMAIN line : line[i] = c
  BY DEF DevIInv, DevLined, Device!At, DevActive
<1>2. PICK j \in DOMAIN line : line[j] = d
  BY DEF DevIInv, DevLined, Device!At, DevActive
<1>3. i \in Nat /\ j \in Nat
  BY DEF DevIInv, DevLined
<1>4. ~Device!Settled(c) /\ ~Device!Settled(d) /\ ~Device!At(c, "queued") /\ ~Device!At(d, "queued")
  BY DEF Device!Settled, Device!At, DevActive
<1>5. ~(i < j) /\ ~(j < i)
  BY <1>1, <1>2, <1>4 DEF DevIInv, DevSerial
<1> QED
  BY <1>1, <1>2, <1>3, <1>5

\* A step of one call, past being made: what it must bring.
LEMMA DevCallStep ==
  ASSUME DevIInv, NEW c \in Calls, NEW k, NEW n,
         call' = [call EXCEPT ![c] = k], executed' = [executed EXCEPT ![c] = n],
         DevLawful(c, k, n), UNCHANGED line, DevRest',
         ~Device!At(c, "idle"), k.at # "idle", k.at = "queued" => Device!At(c, "queued"),
         Device!At(c, "queued") => Device!ReachedBy(c), ~Device!Settled(c),
         k.at \in {"send", "wait"} => clock' # "none",
         clock' = "none" => clock = "none" \/ call[c].at \in DevActive
  PROVE  DevIInv'
<1>1. /\ call'[c] = k /\ executed'[c] = n
      /\ \A d \in Calls \ {c} : call'[d] = call[d] /\ executed'[d] = executed[d]
  BY DEF DevIInv, DevShape
<1>2. DevShape'
  BY DEF DevIInv, DevShape
<1>3. \A d \in Calls : DevLawful(d, call'[d], executed'[d])
  BY <1>1 DEF DevIInv
<1>4. \A d \in Calls : Device!At(d, "idle")' <=> Device!At(d, "idle")
  BY <1>1 DEF Device!At
<1>5. line' = line /\ line \in Seq(Calls) /\ \A i \in DOMAIN line : line[i] \in Calls
  BY DEF DevIInv, DevLined
<1>6. DevLined'
  BY <1>4, <1>5 DEF DevIInv, DevLined
<1>7. DevSerial'
  <2> SUFFICES ASSUME NEW i \in DOMAIN line, NEW j \in DOMAIN line, i < j, ~Device!At(line[j], "queued")'
               PROVE  Device!Settled(line[i])'
    BY <1>5 DEF DevSerial
  <2>1. line[i] \in Calls /\ line[j] \in Calls
    BY <1>5
  <2>2. Device!Settled(line[i])
    <3>1. CASE line[j] = c /\ Device!At(c, "queued")
      BY <3>1 DEF Device!ReachedBy
    <3>2. CASE ~Device!At(line[j], "queued")
      BY <3>2 DEF DevIInv, DevSerial
    <3>3. line[j] # c => ~Device!At(line[j], "queued")
      BY <1>1, <2>1 DEF Device!At
    <3> QED
      BY <3>1, <3>2, <3>3
  <2>3. line[i] # c
    BY <2>2
  <2> QED
    BY <1>1, <2>1, <2>2, <2>3 DEF Device!Settled
<1>8. DevRead'
  <2> SUFFICES ASSUME NEW d \in Calls, Device!At(d, "send")' \/ Device!At(d, "wait")' PROVE clock' # "none"
    BY DEF DevRead
  <2>1. CASE d = c
    BY <1>1, <2>1 DEF Device!At
  <2>2. CASE d # c
    <3>1. Device!At(d, "send") \/ Device!At(d, "wait")
      BY <1>1, <2>2 DEF Device!At
    <3>2. clock # "none" /\ call[d].at \in DevActive
      BY <3>1 DEF DevIInv, DevRead, Device!At, DevActive
    <3>3. call[c].at \notin DevActive
      BY <2>2, <3>2, DevOneActive
    <3> QED
      BY <3>2, <3>3
  <2> QED
    BY <2>1, <2>2
<1> QED
  BY <1>2, <1>3, <1>6, <1>7, <1>8 DEF DevIInv

----------------------------------------------------------------------------
(* What an attempt makes of a call *)

\* The packets of a call are one or more.
LEMMA DevPacketsTyped ==
  ASSUME Device!DeviceAssumption, NEW c \in Calls
  PROVE  Device!Packets(c) \in Nat \ {0} /\ (c \notin Bulk => Device!Packets(c) = 1)
BY DEF Device!DeviceAssumption, Device!Packets

\* A call at another stage of the same attempt.
LEMMA DevGoesLawful ==
  ASSUME NEW c \in Calls, NEW k, NEW n, DevLawful(c, k, n)
  PROVE  /\ k.at \in {"queued", "load", "hello"} => DevLawful(c, [k EXCEPT !.at = "failed"], n)
         /\ k.at = "queued" => DevLawful(c, [k EXCEPT !.at = "load"], n)
         /\ k.at = "idle" => DevLawful(c, [k EXCEPT !.at = "queued"], n)
         /\ k.at = "persist" => DevLawful(c, [k EXCEPT !.at = "done"], n)
BY DEF DevLawful, Device!CallStates, Device!Stages, DevStory, DevSingle

\* Begin: behind a handshake, or at once with the reading there is.
LEMMA DevBeginLawful ==
  ASSUME Device!DeviceAssumption, NEW c \in Calls, NEW k, NEW n, DevLawful(c, k, n), k.at \in {"queued", "load", "hello"}
  PROVE  /\ k.at # "hello" => DevLawful(c, [k EXCEPT !.at = "hello", !.fresh = TRUE], n)
         /\ DevLawful(c, [k EXCEPT !.at = "send", !.left = Device!Packets(c), !.attempts = @ + 1], n)
<1> DEFINE m == Device!Packets(c)
<1>1. m \in Nat /\ m > 0 /\ (c \notin Bulk => m = 1)
  BY DevPacketsTyped
<1> HIDE DEF m
<1>2. k \in Device!CallStates /\ DevStory(k) /\ n \in Nat /\ (c \notin Bulk => DevSingle(k, n))
  BY DEF DevLawful
<1>3. ASSUME k.at # "hello" PROVE DevLawful(c, [k EXCEPT !.at = "hello", !.fresh = TRUE], n)
  BY <1>2, <1>3 DEF DevLawful, Device!CallStates, Device!Stages, DevStory, DevSingle
<1> DEFINE r == [k EXCEPT !.at = "send", !.left = m, !.attempts = @ + 1]
<1>4. k.attempts \in {0, 1}
  BY <1>2 DEF Device!CallStates, DevStory
<1>5. /\ r \in Device!CallStates /\ r.at = "send" /\ r.left = m /\ r.attempts = k.attempts + 1
      /\ r.retry = k.retry /\ r.fresh = k.fresh /\ r.stampRefreshed = k.stampRefreshed
      /\ r.wire = k.wire /\ r.oks = k.oks
  <2>1. k.attempts + 1 \in 0..2
    BY <1>4
  <2>2. \A a \in 0..2 : [k EXCEPT !.at = "send", !.left = m, !.attempts = a] \in Device!CallStates
    BY <1>1, <1>2 DEF Device!CallStates, Device!Stages
  <2>3. r \in Device!CallStates
    BY <2>1, <2>2
  <2>4. r.at = "send" /\ r.left = m /\ r.attempts = k.attempts + 1
    BY <1>2 DEF Device!CallStates
  <2>5. /\ r.retry = k.retry /\ r.fresh = k.fresh /\ r.stampRefreshed = k.stampRefreshed
        /\ r.wire = k.wire /\ r.oks = k.oks
    BY <1>2, Zenon DEF Device!CallStates
  <2> QED
    BY <2>3, <2>4, <2>5
<1> HIDE DEF r
<1>6. DevStory(r)
  BY <1>1, <1>2, <1>5 DEF DevStory
<1>7. c \notin Bulk => DevSingle(r, n)
  BY <1>1, <1>2, <1>4, <1>5 DEF DevSingle
<1>8. DevLawful(c, r, n)
  BY <1>2, <1>5, <1>6, <1>7 DEF DevLawful
<1> QED
  BY <1>3, <1>8 DEF r, m

\* The exchange: sent, executed or refused by the device.
LEMMA DevWireLawful ==
  ASSUME NEW c \in Calls, NEW k, NEW n, DevLawful(c, k, n)
  PROVE  /\ k.at = "send" => DevLawful(c, [k EXCEPT !.at = "wait", !.wire = "out"], n)
         /\ k.wire = "out" => DevLawful(c, [k EXCEPT !.wire = "ok"], n + 1)
         /\ k.wire = "out" => DevLawful(c, [k EXCEPT !.wire = "refused"], n)
<1>1. k \in Device!CallStates /\ DevStory(k) /\ n \in Nat /\ (c \notin Bulk => DevSingle(k, n))
  BY DEF DevLawful
<1>2. ASSUME k.at = "send" PROVE DevLawful(c, [k EXCEPT !.at = "wait", !.wire = "out"], n)
  <2> DEFINE r == [k EXCEPT !.at = "wait", !.wire = "out"]
  <2>1. /\ r \in Device!CallStates /\ r.at = "wait" /\ r.wire = "out" /\ r.left = k.left /\ r.attempts = k.attempts
        /\ r.retry = k.retry /\ r.fresh = k.fresh /\ r.stampRefreshed = k.stampRefreshed /\ r.oks = k.oks
    <3>1. r \in Device!CallStates
      BY <1>1, Zenon DEF Device!CallStates, Device!Stages
    <3>2. /\ r.at = "wait" /\ r.wire = "out" /\ r.left = k.left /\ r.attempts = k.attempts
          /\ r.retry = k.retry /\ r.fresh = k.fresh /\ r.stampRefreshed = k.stampRefreshed /\ r.oks = k.oks
      BY <1>1, Zenon DEF Device!CallStates
    <3> QED
      BY <3>1, <3>2
  <2> HIDE DEF r
  <2>2. DevStory(r)
    BY <1>1, <1>2, <2>1 DEF DevStory
  <2>3. c \notin Bulk => DevSingle(r, n)
    BY <1>1, <1>2, <2>1 DEF DevSingle
  <2>4. DevLawful(c, r, n)
    BY <1>1, <2>1, <2>2, <2>3 DEF DevLawful
  <2> QED
    BY <2>4 DEF r
<1>3. ASSUME k.wire = "out", NEW wire \in {"ok", "refused"}, NEW m \in {n, n + 1}, wire = "ok" \/ m = n
      PROVE  DevLawful(c, [k EXCEPT !.wire = wire], m)
  <2> DEFINE r == [k EXCEPT !.wire = wire]
  <2>1. r \in Device!CallStates
    BY <1>1, Zenon DEF Device!CallStates
  <2>2. /\ r.at = k.at /\ r.wire = wire /\ r.left = k.left /\ r.attempts = k.attempts
        /\ r.retry = k.retry /\ r.fresh = k.fresh /\ r.stampRefreshed = k.stampRefreshed /\ r.oks = k.oks
    BY <1>1, Zenon DEF Device!CallStates
  <2> HIDE DEF r
  <2>3. k.at = "wait" /\ wire # "none" /\ wire # "out"
    BY <1>1, <1>3 DEF DevStory
  <2>4. DevStory(r)
    BY <1>1, <2>2, <2>3 DEF DevStory
  <2>5. c \notin Bulk => DevSingle(r, m)
    BY <1>1, <1>3, <2>2, <2>3 DEF DevSingle, Device!CallStates
  <2>6. m \in Nat
    BY <1>1
  <2>7. DevLawful(c, r, m)
    BY <2>1, <2>4, <2>5, <2>6 DEF DevLawful
  <2> QED
    BY <2>7 DEF r
<1> QED
  BY <1>2, <1>3

\* The attempt is over: once more behind a handshake, or failed.
LEMMA DevFailLawful ==
  ASSUME NEW c \in Calls, NEW k, NEW n, DevLawful(c, k, n), k.at = "wait"
  PROVE  /\ k.fresh => DevLawful(c, [k EXCEPT !.at = "failed", !.wire = "none", !.stampRefreshed = k.retry], n)
         /\ ~k.fresh => DevLawful(c, [k EXCEPT !.at = "hello", !.wire = "none", !.fresh = TRUE, !.retry = TRUE], n)
<1>1. k \in Device!CallStates /\ DevStory(k) /\ n \in Nat /\ (c \notin Bulk => DevSingle(k, n))
  BY DEF DevLawful
<1>2. DevLawful(c, [k EXCEPT !.at = "failed", !.wire = "none", !.stampRefreshed = k.retry], n)
  <2> DEFINE r == [k EXCEPT !.at = "failed", !.wire = "none", !.stampRefreshed = k.retry]
  <2>1. k.retry \in BOOLEAN
    BY <1>1 DEF Device!CallStates
  <2>2. /\ r \in Device!CallStates /\ r.at = "failed" /\ r.wire = "none" /\ r.left = k.left /\ r.attempts = k.attempts
        /\ r.retry = k.retry /\ r.fresh = k.fresh /\ r.stampRefreshed = k.retry /\ r.oks = k.oks
    <3>1. r \in Device!CallStates
      BY <1>1, <2>1, Zenon DEF Device!CallStates, Device!Stages
    <3>2. /\ r.at = "failed" /\ r.wire = "none" /\ r.left = k.left /\ r.attempts = k.attempts
          /\ r.retry = k.retry /\ r.fresh = k.fresh /\ r.stampRefreshed = k.retry /\ r.oks = k.oks
      BY <1>1, <2>1, Zenon DEF Device!CallStates
    <3> QED
      BY <3>1, <3>2
  <2> HIDE DEF r
  <2>3. DevStory(r)
    BY <1>1, <2>1, <2>2 DEF DevStory
  <2>4. c \notin Bulk => DevSingle(r, n)
    BY <1>1, <2>2 DEF DevSingle
  <2>5. DevLawful(c, r, n)
    BY <1>1, <2>2, <2>3, <2>4 DEF DevLawful
  <2> QED
    BY <2>5 DEF r
<1>3. ASSUME ~k.fresh
      PROVE  DevLawful(c, [k EXCEPT !.at = "hello", !.wire = "none", !.fresh = TRUE, !.retry = TRUE], n)
  <2> DEFINE r == [k EXCEPT !.at = "hello", !.wire = "none", !.fresh = TRUE, !.retry = TRUE]
  <2>1. ~k.retry /\ k.attempts = 1 /\ ~k.stampRefreshed
    BY <1>1, <1>3 DEF DevStory
  <2>2. /\ r \in Device!CallStates /\ r.at = "hello" /\ r.wire = "none" /\ r.left = k.left /\ r.attempts = k.attempts
        /\ r.retry = TRUE /\ r.fresh = TRUE /\ r.stampRefreshed = k.stampRefreshed /\ r.oks = k.oks
    <3>1. r \in Device!CallStates
      BY <1>1, Zenon DEF Device!CallStates, Device!Stages
    <3>2. /\ r.at = "hello" /\ r.wire = "none" /\ r.left = k.left /\ r.attempts = k.attempts
          /\ r.retry = TRUE /\ r.fresh = TRUE /\ r.stampRefreshed = k.stampRefreshed /\ r.oks = k.oks
      BY <1>1, Zenon DEF Device!CallStates
    <3> QED
      BY <3>1, <3>2
  <2> HIDE DEF r
  <2>3. DevStory(r)
    BY <2>1, <2>2 DEF DevStory
  <2>4. c \notin Bulk => DevSingle(r, n)
    BY <1>1, <2>2 DEF DevSingle
  <2>5. DevLawful(c, r, n)
    BY <1>1, <2>2, <2>3, <2>4 DEF DevLawful
  <2> QED
    BY <2>5 DEF r
<1> QED
  BY <1>2, <1>3

\* An answer: the next packet, or none left.
LEMMA DevAnsweredLawful ==
  ASSUME NEW c \in Calls, NEW k, NEW n, DevLawful(c, k, n), k.at = "wait"
  PROVE  DevLawful(c, [k EXCEPT !.wire = "none", !.left = @ - 1, !.oks = IF c \in Bulk THEN @ ELSE @ + 1,
                             !.at = IF k.left > 1 THEN "send" ELSE "persist"], n)
<1> DEFINE r == [k EXCEPT !.wire = "none", !.left = @ - 1, !.oks = IF c \in Bulk THEN @ ELSE @ + 1,
                          !.at = IF k.left > 1 THEN "send" ELSE "persist"]
<1>1. k \in Device!CallStates /\ DevStory(k) /\ n \in Nat /\ (c \notin Bulk => DevSingle(k, n))
  BY DEF DevLawful
<1>2. k.left \in Nat /\ k.left > 0 /\ k.oks \in Nat
  BY <1>1 DEF Device!CallStates, DevStory
<1>3. /\ r.at = (IF k.left > 1 THEN "send" ELSE "persist")
      /\ r.left = k.left - 1 /\ r.attempts = k.attempts /\ r.wire = "none"
      /\ r.retry = k.retry /\ r.fresh = k.fresh /\ r.stampRefreshed = k.stampRefreshed
      /\ r.oks = (IF c \in Bulk THEN k.oks ELSE k.oks + 1)
  BY <1>1 DEF Device!CallStates
<1>4. r \in Device!CallStates
  <2>1. k.left - 1 \in Nat /\ (IF c \in Bulk THEN k.oks ELSE k.oks + 1) \in Nat
    BY <1>2
  <2>2. (IF k.left > 1 THEN "send" ELSE "persist") \in Device!Stages
    BY DEF Device!Stages
  <2>3. \A m, o \in Nat : \A at \in Device!Stages : [k EXCEPT !.wire = "none", !.left = m, !.oks = o, !.at = at] \in Device!CallStates
    BY <1>1, Zenon DEF Device!CallStates
  <2> QED
    BY <2>1, <2>2, <2>3
<1> HIDE DEF r
<1>5. DevStory(r)
  BY <1>1, <1>2, <1>3 DEF DevStory
<1>6. c \notin Bulk => DevSingle(r, n)
  BY <1>1, <1>2, <1>3 DEF DevSingle
<1>7. DevLawful(c, r, n)
  BY <1>1, <1>4, <1>5, <1>6 DEF DevLawful
<1> QED
  BY <1>7 DEF r

----------------------------------------------------------------------------
(* Steps *)

\* A call that is made waits at the end of the chain.
LEMMA DevMakeInv == ASSUME DevIInv, NEW c \in Calls, Device!Make(c) PROVE DevIInv'
<1>1. /\ Device!At(c, "idle") /\ line' = Append(line, c) /\ call' = [call EXCEPT ![c] = [call[c] EXCEPT !.at = "queued"]]
      /\ UNCHANGED <<clock, store, known, discovery, executed, devFaults>>
  BY DEF Device!Make, Device!Goes
<1> DEFINE k == [call[c] EXCEPT !.at = "queued"]
<1>2. DevLawful(c, k, executed[c])
  BY <1>1, DevGoesLawful DEF DevIInv, Device!At
<1>3. k.at = "queued"
  BY DEF DevIInv, DevLawful, Device!CallStates
<1> HIDE DEF k
<1>4. call'[c] = k /\ \A d \in Calls \ {c} : call'[d] = call[d]
  BY <1>1 DEF DevIInv, DevShape, k
<1>5. DevShape' /\ DevRest'
  BY <1>1 DEF DevIInv, DevShape, DevRest
<1>6. \A d \in Calls : DevLawful(d, call'[d], executed'[d])
  BY <1>1, <1>2, <1>4 DEF DevIInv
<1>7. /\ line \in Seq(Calls) /\ line' \in Seq(Calls) /\ Len(line) \in Nat
      /\ DOMAIN line = 1..Len(line) /\ DOMAIN line' = 1..(Len(line) + 1)
      /\ line'[Len(line) + 1] = c /\ \A i \in DOMAIN line : line'[i] = line[i] /\ line[i] \in Calls
  BY <1>1 DEF DevIInv, DevLined
<1>8. \A i \in DOMAIN line : line[i] # c
  BY <1>1 DEF DevIInv, DevLined
<1>9. \A i \in DOMAIN line' : i \in DOMAIN line \/ i = Len(line) + 1
  BY <1>7
<1>10. Device!At(c, "queued")' /\ \A d \in Calls \ {c} : \A stage : Device!At(d, stage)' <=> Device!At(d, stage)
  BY <1>3, <1>4 DEF Device!At
<1>11. DevLined'
  <2>1. \A i \in DOMAIN line' : ~Device!At(line[i], "idle")'
    <3> TAKE i \in DOMAIN line'
    <3>1. CASE i = Len(line) + 1
      BY <1>3, <1>4, <1>7, <3>1 DEF Device!At
    <3>2. CASE i \in DOMAIN line
      BY <1>7, <1>8, <1>10, <3>2 DEF DevIInv, DevLined
    <3> QED
      BY <1>9, <3>1, <3>2
  <2>2. \A d \in Calls : ~Device!At(d, "idle")' => \E i \in DOMAIN line' : line'[i] = d
    <3> TAKE d \in Calls
    <3> HAVE ~Device!At(d, "idle")'
    <3>1. CASE d = c
      BY <1>7, <3>1
    <3>2. CASE d # c
      <4>1. PICK i \in DOMAIN line : line[i] = d
        BY <1>10, <3>2 DEF DevIInv, DevLined
      <4>2. i \in DOMAIN line' /\ line'[i] = d
        BY <1>7, <4>1
      <4> QED
        BY <4>2
    <3> QED
      BY <3>1, <3>2
  <2>3. \A i, j \in DOMAIN line' : line'[i] = line'[j] => i = j
    <3> TAKE i, j \in DOMAIN line'
    <3> HAVE line'[i] = line'[j]
    <3>1. CASE i \in DOMAIN line /\ j \in DOMAIN line
      BY <1>7, <3>1 DEF DevIInv, DevLined
    <3>2. CASE i = Len(line) + 1 \/ j = Len(line) + 1
      BY <1>7, <1>8, <1>9, <3>2
    <3> QED
      BY <1>9, <3>1, <3>2
  <2> QED
    BY <1>7, <2>1, <2>2, <2>3 DEF DevLined
<1>12. DevSerial'
  <2> SUFFICES ASSUME NEW i \in DOMAIN line', NEW j \in DOMAIN line', i < j, ~Device!At(line[j], "queued")'
               PROVE  Device!Settled(line[i])'
    BY DEF DevSerial
  <2>1. j # Len(line) + 1
    BY <1>7, <1>10
  <2>2. i \in DOMAIN line /\ j \in DOMAIN line
    BY <1>7, <1>9, <2>1
  <2>3. ~Device!At(line[j], "queued")
    BY <1>7, <1>8, <1>10, <2>2
  <2>4. Device!Settled(line[i])
    BY <2>2, <2>3 DEF DevIInv, DevSerial
  <2> QED
    BY <1>4, <1>7, <1>8, <2>2, <2>4 DEF Device!Settled
<1>13. DevRead'
  BY <1>1, <1>3, <1>4 DEF DevIInv, DevRead, Device!At
<1> QED
  BY <1>5, <1>6, <1>11, <1>12, <1>13 DEF DevIInv

\* The device has executed no more packets of the call.
LEMMA DevSameExecuted ==
  ASSUME DevIInv, NEW c \in Calls, UNCHANGED executed
  PROVE  executed' = [executed EXCEPT ![c] = executed[c]]
BY DEF DevIInv, DevShape

\* What every step of a call starts from.
LEMMA DevCallFacts ==
  ASSUME DevIInv, NEW c \in Calls
  PROVE  /\ DevLawful(c, call[c], executed[c]) /\ call[c] \in Device!CallStates /\ DevStory(call[c])
         /\ clock \in Device!Clocks /\ store \in Device!Clocks /\ known \in BOOLEAN
         /\ discovery \in {"idle", "hello", "persist"} /\ devFaults \in 0..DeviceFaults
BY DEF DevIInv, DevLawful, DevRest

\* A fault is counted.
LEMMA DevFaultTyped == ASSUME Device!DeviceAssumption, DevIInv, Device!Fault PROVE devFaults' \in 0..DeviceFaults
BY DEF Device!DeviceAssumption, Device!Fault, DevIInv, DevRest

\* A call whose turn it is: without the device's id it fails, with a stored reading to restore it
\* asks the store, else it begins.
LEMMA DevStartInv == ASSUME Device!DeviceAssumption, DevIInv, NEW c \in Calls, Device!Start(c) PROVE DevIInv'
<1>1. /\ call[c].at = "queued" /\ Device!ReachedBy(c) /\ UNCHANGED <<line, clock, store, known, discovery, executed, devFaults>>
  BY DEF Device!Start, Device!At
<1>2. DevRest' /\ executed' = [executed EXCEPT ![c] = executed[c]]
  BY <1>1, DevSameExecuted DEF DevIInv, DevRest
<1>3. ASSUME NEW k, DevLawful(c, k, executed[c]), call' = [call EXCEPT ![c] = k],
             k.at \in {"failed", "load", "hello", "send"}, k.at = "send" => clock # "none"
      PROVE  DevIInv'
  BY <1>1, <1>2, <1>3, DevCallStep DEF Device!At, Device!Settled
<1>4. CASE Device!Goes(c, "failed")
  <2>1. DevLawful(c, [call[c] EXCEPT !.at = "failed"], executed[c])
    BY <1>1, DevCallFacts, DevGoesLawful
  <2>2. [call[c] EXCEPT !.at = "failed"].at = "failed"
    BY DevCallFacts DEF Device!CallStates
  <2> QED
    BY <1>3, <1>4, <2>1, <2>2 DEF Device!Goes
<1>5. CASE Device!Goes(c, "load")
  <2>1. DevLawful(c, [call[c] EXCEPT !.at = "load"], executed[c])
    BY <1>1, DevCallFacts, DevGoesLawful
  <2>2. [call[c] EXCEPT !.at = "load"].at = "load"
    BY DevCallFacts DEF Device!CallStates
  <2> QED
    BY <1>3, <1>5, <2>1, <2>2 DEF Device!Goes
<1>6. CASE Device!Begin(c, clock)
  <2>1. CASE clock = "none"
    <3> DEFINE k == [call[c] EXCEPT !.at = "hello", !.fresh = TRUE]
    <3>1. call' = [call EXCEPT ![c] = k]
      BY <1>6, <2>1 DEF Device!Begin
    <3>2. DevLawful(c, k, executed[c])
      BY <1>1, DevCallFacts, DevBeginLawful
    <3>3. k.at = "hello"
      BY DevCallFacts DEF Device!CallStates
    <3> HIDE DEF k
    <3> QED
      BY <1>3, <3>1, <3>2, <3>3
  <2>2. CASE clock # "none"
    <3> DEFINE k == [call[c] EXCEPT !.at = "send", !.left = Device!Packets(c), !.attempts = @ + 1]
    <3>1. call' = [call EXCEPT ![c] = k]
      BY <1>6, <2>2 DEF Device!Begin
    <3>2. DevLawful(c, k, executed[c])
      BY <1>1, DevCallFacts, DevBeginLawful
    <3>3. k.at = "send"
      BY DevCallFacts DEF Device!CallStates
    <3> HIDE DEF k
    <3> QED
      BY <1>3, <2>2, <3>1, <3>2, <3>3
  <2> QED
    BY <2>1, <2>2
<1> QED
  BY <1>4, <1>5, <1>6 DEF Device!Start

\* The store's reading, or its failure.
LEMMA DevLoadInv == ASSUME Device!DeviceAssumption, DevIInv, NEW c \in Calls, Device!Load(c) PROVE DevIInv'
<1>1. call[c].at = "load" /\ UNCHANGED <<line, store, known, discovery, executed>>
  BY DEF Device!Load, Device!At
<1>2. executed' = [executed EXCEPT ![c] = executed[c]]
  BY <1>1, DevSameExecuted
<1>3. ASSUME NEW k, DevLawful(c, k, executed[c]), call' = [call EXCEPT ![c] = k], DevRest',
             k.at \in {"failed", "hello", "send"}, k.at = "send" => clock' # "none"
      PROVE  DevIInv'
  BY <1>1, <1>2, <1>3, DevCallStep DEF Device!At, Device!Settled, DevActive
<1> DEFINE reading == IF store = "none" THEN clock ELSE store
<1>4. CASE clock' = reading /\ Device!Begin(c, reading) /\ UNCHANGED devFaults
  <2>1. reading \in Device!Clocks
    BY DevCallFacts
  <2>2. DevRest'
    BY <1>1, <1>4, <2>1, DevCallFacts DEF DevRest
  <2> HIDE DEF reading
  <2>3. CASE reading = "none"
    <3> DEFINE k == [call[c] EXCEPT !.at = "hello", !.fresh = TRUE]
    <3>1. call' = [call EXCEPT ![c] = k]
      BY <1>4, <2>3 DEF Device!Begin
    <3>2. DevLawful(c, k, executed[c])
      BY <1>1, DevCallFacts, DevBeginLawful
    <3>3. k.at = "hello"
      BY DevCallFacts DEF Device!CallStates
    <3> HIDE DEF k
    <3> QED
      BY <1>3, <2>2, <3>1, <3>2, <3>3
  <2>4. CASE reading # "none"
    <3> DEFINE k == [call[c] EXCEPT !.at = "send", !.left = Device!Packets(c), !.attempts = @ + 1]
    <3>1. call' = [call EXCEPT ![c] = k]
      BY <1>4, <2>4 DEF Device!Begin
    <3>2. DevLawful(c, k, executed[c])
      BY <1>1, DevCallFacts, DevBeginLawful
    <3>3. k.at = "send"
      BY DevCallFacts DEF Device!CallStates
    <3> HIDE DEF k
    <3> QED
      BY <1>3, <1>4, <2>2, <2>4, <3>1, <3>2, <3>3
  <2> QED
    BY <2>3, <2>4
<1>5. CASE Device!Fault /\ Device!Goes(c, "failed") /\ UNCHANGED clock
  <2>1. DevLawful(c, [call[c] EXCEPT !.at = "failed"], executed[c])
    BY <1>1, DevCallFacts, DevGoesLawful
  <2>2. [call[c] EXCEPT !.at = "failed"].at = "failed"
    BY DevCallFacts DEF Device!CallStates
  <2>3. DevRest'
    BY <1>1, <1>5, DevCallFacts, DevFaultTyped DEF DevRest
  <2> QED
    BY <1>3, <1>5, <2>1, <2>2, <2>3 DEF Device!Goes
<1> QED
  BY <1>4, <1>5 DEF Device!Load

\* The handshake is answered, or is not.
LEMMA DevHelloInv ==
  ASSUME Device!DeviceAssumption, DevIInv, NEW c \in Calls, Device!HelloAnswered(c) \/ Device!HelloTimesOut(c)
  PROVE  DevIInv'
<1>1. call[c].at = "hello" /\ UNCHANGED <<line, store, known, discovery, executed, devFaults>>
  BY DEF Device!HelloAnswered, Device!HelloTimesOut, Device!At
<1>2. executed' = [executed EXCEPT ![c] = executed[c]]
  BY <1>1, DevSameExecuted
<1>3. CASE Device!HelloAnswered(c)
  <2> DEFINE k == [call[c] EXCEPT !.at = "send", !.left = Device!Packets(c), !.attempts = @ + 1]
  <2>1. call' = [call EXCEPT ![c] = k] /\ clock' = "right"
    BY <1>3 DEF Device!HelloAnswered
  <2>2. DevLawful(c, k, executed[c])
    BY <1>1, DevCallFacts, DevBeginLawful
  <2>3. k.at = "send"
    BY DevCallFacts DEF Device!CallStates
  <2>4. DevRest'
    BY <1>1, <2>1, DevCallFacts DEF DevRest, Device!Clocks
  <2> HIDE DEF k
  <2> QED
    BY <1>1, <1>2, <2>1, <2>2, <2>3, <2>4, DevCallStep DEF Device!At, Device!Settled
<1>4. CASE Device!HelloTimesOut(c)
  <2> DEFINE k == [call[c] EXCEPT !.at = "failed"]
  <2>1. call' = [call EXCEPT ![c] = k] /\ UNCHANGED clock
    BY <1>4 DEF Device!HelloTimesOut, Device!Goes
  <2>2. DevLawful(c, k, executed[c])
    BY <1>1, DevCallFacts, DevGoesLawful
  <2>3. k.at = "failed"
    BY DevCallFacts DEF Device!CallStates
  <2>4. DevRest'
    BY <1>1, <2>1, DevCallFacts DEF DevRest
  <2> HIDE DEF k
  <2> QED
    BY <1>1, <1>2, <2>1, <2>2, <2>3, <2>4, DevCallStep DEF Device!At, Device!Settled
<1> QED
  BY <1>3, <1>4

\* A packet goes out with a stamp.
LEMMA DevSendInv == ASSUME DevIInv, NEW c \in Calls, Device!Send(c) PROVE DevIInv'
<1> DEFINE k == [call[c] EXCEPT !.at = "wait", !.wire = "out"]
<1>1. /\ call[c].at = "send" /\ clock # "none" /\ call' = [call EXCEPT ![c] = k]
      /\ UNCHANGED <<line, clock, store, known, discovery, executed, devFaults>>
  BY DEF Device!Send, Device!At
<1>2. executed' = [executed EXCEPT ![c] = executed[c]]
  BY <1>1, DevSameExecuted
<1>3. DevLawful(c, k, executed[c])
  BY <1>1, DevCallFacts, DevWireLawful
<1>4. k.at = "wait"
  BY DevCallFacts DEF Device!CallStates
<1>5. DevRest'
  BY <1>1, DevCallFacts DEF DevRest
<1> HIDE DEF k
<1> QED
  BY <1>1, <1>2, <1>3, <1>4, <1>5, DevCallStep DEF Device!At, Device!Settled

\* No answer, or a refusal.
LEMMA DevFailInv == ASSUME DevIInv, NEW c \in Calls, Device!TimesOut(c) \/ Device!Refused(c) PROVE DevIInv'
<1>1. /\ call[c].at = "wait" /\ Device!Fail(c) /\ UNCHANGED <<line, store, known, discovery, executed, devFaults>>
  BY DEF Device!TimesOut, Device!Refused, Device!At
<1>2. executed' = [executed EXCEPT ![c] = executed[c]]
  BY <1>1, DevSameExecuted
<1>3. CASE call[c].fresh
  <2> DEFINE k == [call[c] EXCEPT !.at = "failed", !.wire = "none", !.stampRefreshed = call[c].retry]
  <2>1. call' = [call EXCEPT ![c] = k] /\ UNCHANGED clock
    BY <1>1, <1>3 DEF Device!Fail
  <2>2. DevLawful(c, k, executed[c])
    BY <1>1, <1>3, DevCallFacts, DevFailLawful
  <2>3. k.at = "failed"
    BY DevCallFacts DEF Device!CallStates
  <2>4. DevRest'
    BY <1>1, <2>1, DevCallFacts DEF DevRest
  <2> HIDE DEF k
  <2> QED
    BY <1>1, <1>2, <2>1, <2>2, <2>3, <2>4, DevCallStep DEF Device!At, Device!Settled
<1>4. CASE ~call[c].fresh
  <2> DEFINE k == [call[c] EXCEPT !.at = "hello", !.wire = "none", !.fresh = TRUE, !.retry = TRUE]
  <2>1. call' = [call EXCEPT ![c] = k] /\ clock' = "none"
    BY <1>1, <1>4 DEF Device!Fail
  <2>2. DevLawful(c, k, executed[c])
    BY <1>1, <1>4, DevCallFacts, DevFailLawful
  <2>3. k.at = "hello"
    BY DevCallFacts DEF Device!CallStates
  <2>4. DevRest'
    BY <1>1, <2>1, DevCallFacts DEF DevRest, Device!Clocks
  <2> HIDE DEF k
  <2> QED
    BY <1>1, <1>2, <2>1, <2>2, <2>3, <2>4, DevCallStep DEF Device!At, Device!Settled, DevActive
<1> QED
  BY <1>3, <1>4

\* An answer, after which the next packet is sent or none is left.
LEMMA DevAnsweredInv == ASSUME DevIInv, NEW c \in Calls, Device!Answered(c) PROVE DevIInv'
<1> DEFINE k == [call[c] EXCEPT !.wire = "none", !.left = @ - 1, !.oks = IF c \in Bulk THEN @ ELSE @ + 1,
                                !.at = IF call[c].left > 1 THEN "send" ELSE "persist"]
<1>1. /\ call[c].at = "wait" /\ call' = [call EXCEPT ![c] = k]
      /\ UNCHANGED <<line, clock, store, known, discovery, executed, devFaults>>
  BY DEF Device!Answered, Device!At
<1>2. executed' = [executed EXCEPT ![c] = executed[c]]
  BY <1>1, DevSameExecuted
<1>3. DevLawful(c, k, executed[c])
  BY <1>1, DevCallFacts, DevAnsweredLawful
<1>4. k.at \in {"send", "persist"}
  BY DevCallFacts DEF Device!CallStates
<1>5. DevRest' /\ clock # "none"
  BY <1>1, DevCallFacts DEF DevRest, DevIInv, DevRead, Device!At
<1> HIDE DEF k
<1> QED
  BY <1>1, <1>2, <1>3, <1>4, <1>5, DevCallStep DEF Device!At, Device!Settled

\* The stamp is stored or is not: the call has succeeded.
LEMMA DevPersistInv == ASSUME Device!DeviceAssumption, DevIInv, NEW c \in Calls, Device!Persist(c) PROVE DevIInv'
<1> DEFINE k == [call[c] EXCEPT !.at = "done"]
<1>1. /\ call[c].at = "persist" /\ call' = [call EXCEPT ![c] = k]
      /\ UNCHANGED <<line, clock, known, discovery, executed>>
  BY DEF Device!Persist, Device!At, Device!Goes
<1>2. executed' = [executed EXCEPT ![c] = executed[c]]
  BY <1>1, DevSameExecuted
<1>3. DevLawful(c, k, executed[c])
  BY <1>1, DevCallFacts, DevGoesLawful
<1>4. k.at = "done"
  BY DevCallFacts DEF Device!CallStates
<1>5. store' \in {store, clock} /\ devFaults' \in 0..DeviceFaults
  <2>1. CASE UNCHANGED devFaults /\ store' = (IF HasStore /\ clock # "none" THEN clock ELSE store)
    BY <2>1, DevCallFacts
  <2>2. CASE Device!Fault /\ UNCHANGED store
    BY <2>2, DevFaultTyped
  <2> QED
    BY <2>1, <2>2 DEF Device!Persist
<1>6. DevRest'
  BY <1>1, <1>5, DevCallFacts DEF DevRest
<1> HIDE DEF k
<1> QED
  BY <1>1, <1>2, <1>3, <1>4, <1>6, DevCallStep DEF Device!At, Device!Settled

\* The device executes a packet, or refuses it.
LEMMA DevWireInv == ASSUME DevIInv, NEW c \in Calls, Device!Execute(c) \/ Device!Refuse(c) PROVE DevIInv'
<1>1. /\ call[c].wire = "out" /\ UNCHANGED <<line, clock, store, known, discovery, devFaults>>
  BY DEF Device!Execute, Device!Refuse
<1>2. call[c].at = "wait" /\ clock # "none"
  BY <1>1, DevCallFacts DEF DevStory, DevIInv, DevRead, Device!At
<1>3. DevRest'
  BY <1>1, DevCallFacts DEF DevRest
<1>4. ASSUME NEW wire \in {"ok", "refused"}, NEW n, DevLawful(c, [call[c] EXCEPT !.wire = wire], n),
             call' = [call EXCEPT ![c].wire = wire], executed' = [executed EXCEPT ![c] = n]
      PROVE  DevIInv'
  <2> DEFINE k == [call[c] EXCEPT !.wire = wire]
  <2>1. call' = [call EXCEPT ![c] = k]
    BY <1>4
  <2>2. k.at = "wait"
    BY <1>2, DevCallFacts DEF Device!CallStates
  <2>3. DevLawful(c, k, n)
    BY <1>4
  <2> HIDE DEF k
  <2> QED
    BY <1>1, <1>2, <1>3, <1>4, <2>1, <2>2, <2>3, DevCallStep DEF Device!At, Device!Settled
<1>5. CASE Device!Execute(c)
  <2>1. DevLawful(c, [call[c] EXCEPT !.wire = "ok"], executed[c] + 1)
    BY <1>1, DevCallFacts, DevWireLawful
  <2>2. call' = [call EXCEPT ![c].wire = "ok"] /\ executed' = [executed EXCEPT ![c] = executed[c] + 1]
    BY <1>5 DEF Device!Execute
  <2> QED
    BY <1>4, <2>1, <2>2
<1>6. CASE Device!Refuse(c)
  <2>1. DevLawful(c, [call[c] EXCEPT !.wire = "refused"], executed[c])
    BY <1>1, DevCallFacts, DevWireLawful
  <2>2. call' = [call EXCEPT ![c].wire = "refused"] /\ executed' = [executed EXCEPT ![c] = executed[c]]
    BY <1>6, DevSameExecuted DEF Device!Refuse
  <2> QED
    BY <1>4, <2>1, <2>2
<1> QED
  BY <1>5, <1>6

\* Reboots, discoveries and seeds change no call, and none drops the reading.
LEMMA DevAroundInv ==
  ASSUME Device!DeviceAssumption, DevIInv, Device!Reboot \/ Device!Seed \/ Device!Discover \/ Device!Discovered \/ Device!DiscoverEnds
  PROVE  DevIInv'
<1>1. UNCHANGED <<line, call, executed>>
  BY DEF Device!Reboot, Device!Seed, Device!Discover, Device!Discovered, Device!DiscoverEnds
<1>2. DevShape' /\ DevLined' /\ DevSerial' /\ \A c \in Calls : DevLawful(c, call'[c], executed'[c])
  BY <1>1 DEF DevIInv, DevShape, DevLined, DevSerial, Device!At, Device!Settled
<1>3. DevRest
  BY DEF DevIInv
<1>4. DevRest' /\ (clock' = "none" => clock = "none")
  <2>1. CASE Device!Reboot
    BY <1>3, <2>1, DevFaultTyped DEF Device!Reboot, DevRest, Device!Outdated, Device!Clocks
  <2>2. CASE Device!Seed
    BY <1>3, <2>2, DevFaultTyped DEF Device!Seed, DevRest, Device!Clocks
  <2>3. CASE Device!Discover
    BY <1>3, <2>3 DEF Device!Discover, DevRest
  <2>4. CASE Device!Discovered
    BY <1>3, <2>4 DEF Device!Discovered, DevRest, Device!Clocks
  <2>5. CASE Device!DiscoverEnds
    BY <1>3, <2>5 DEF Device!DiscoverEnds, DevRest
  <2> QED
    BY <2>1, <2>2, <2>3, <2>4, <2>5
<1>5. DevRead'
  BY <1>1, <1>4 DEF DevIInv, DevRead, Device!At
<1> QED
  BY <1>2, <1>4, <1>5 DEF DevIInv

----------------------------------------------------------------------------
\* A client no call has been made of.
LEMMA DevInitInv == ASSUME Device!DeviceAssumption PROVE Device!Init => DevIInv
<1> SUFFICES ASSUME Device!Init PROVE DevIInv
  OBVIOUS
<1>1. /\ Device!NoCall \in Device!CallStates /\ Device!NoCall.at = "idle" /\ Device!NoCall.wire = "none" /\ Device!NoCall.attempts = 0
      /\ ~Device!NoCall.retry /\ ~Device!NoCall.fresh /\ ~Device!NoCall.stampRefreshed /\ Device!NoCall.oks = 0
  BY DEF Device!NoCall, Device!CallStates, Device!Stages
<1>2. DevStory(Device!NoCall) /\ DevSingle(Device!NoCall, 0)
  BY <1>1 DEF DevStory, DevSingle
<1>3. DevShape /\ \A c \in Calls : call[c] = Device!NoCall /\ executed[c] = 0
  BY DEF Device!Init, DevShape
<1>4. \A c \in Calls : DevLawful(c, call[c], executed[c])
  <2>1. 0 \in Nat /\ \A c \in Calls : DevLawful(c, Device!NoCall, 0)
    BY <1>1, <1>2 DEF DevLawful
  <2> QED
    BY <1>3, <2>1
<1>5. line = <<>> /\ DOMAIN line = {} /\ line \in Seq(Calls)
  BY DEF Device!Init
<1>6. DevLined /\ DevSerial
  BY <1>1, <1>3, <1>5 DEF DevLined, DevSerial, Device!At
<1>7. DevRead
  BY <1>1, <1>3 DEF DevRead, Device!At
<1>8. DevRest
  BY DEF Device!Init, DevRest, Device!Clocks, Device!DeviceAssumption
<1> QED
  BY <1>3, <1>4, <1>6, <1>7, <1>8 DEF DevIInv

\* Every step of the calls, the device and the client keeps the invariant.
LEMMA DevStepInv == ASSUME Device!DeviceAssumption PROVE DevIInv /\ [Device!Next]_(Device!vars) => DevIInv'
<1> SUFFICES ASSUME DevIInv, [Device!Next]_(Device!vars) PROVE DevIInv'
  OBVIOUS
<1>1. CASE UNCHANGED Device!vars
  BY <1>1 DEF Device!vars, DevIInv, DevShape, DevLined, DevSerial, DevRead, DevRest, Device!At, Device!Settled
<1>2. ASSUME NEW c \in Calls, Device!Make(c) \/ Device!Step(c) \/ Device!Execute(c) \/ Device!Refuse(c) PROVE DevIInv'
  BY <1>2, DevMakeInv, DevStartInv, DevLoadInv, DevHelloInv, DevSendInv, DevFailInv, DevAnsweredInv, DevPersistInv, DevWireInv DEF Device!Step
<1>3. CASE Device!Reboot \/ Device!Seed \/ Device!Discover \/ Device!Discovered \/ Device!DiscoverEnds
  BY <1>3, DevAroundInv
<1> QED
  BY <1>1, <1>2, <1>3 DEF Device!Next

\* What the invariant says of the client.
LEMMA DevHoldsOf == DevIInv => Device!TypeOK /\ Device!AtMostTwice /\ Device!SendsInSync /\ Device!RefreshedMeansRetried
<1> SUFFICES ASSUME DevIInv PROVE Device!TypeOK /\ Device!AtMostTwice /\ Device!SendsInSync /\ Device!RefreshedMeansRetried
  OBVIOUS
<1>1. Device!TypeOK
  BY DEF DevIInv, DevShape, DevLawful, DevLined, DevRest, Device!TypeOK
<1>2. Device!AtMostTwice
  <2> SUFFICES ASSUME NEW c \in Calls \ Bulk
               PROVE  /\ executed[c] <= 2
                      /\ call[c].oks <= 1
                      /\ call[c].oks = 1 => Device!At(c, "persist") \/ Device!At(c, "done")
    BY DEF Device!AtMostTwice
  <2>1. call[c] \in Device!CallStates /\ DevSingle(call[c], executed[c]) /\ executed[c] \in Nat
    BY DEF DevIInv, DevLawful
  <2>2. call[c].attempts \in 0..2
    BY <2>1 DEF Device!CallStates
  <2> QED
    BY <2>1, <2>2 DEF DevSingle, Device!At
<1>3. Device!SendsInSync
  BY DEF DevIInv, DevRead, Device!SendsInSync
<1>4. Device!RefreshedMeansRetried
  BY DEF DevIInv, DevLawful, DevStory, Device!RefreshedMeansRetried, Device!At
<1> QED
  BY <1>1, <1>2, <1>3, <1>4

\* The client keeps to the invariant.
LEMMA DevInvariance == ASSUME Device!DeviceAssumption PROVE Device!Spec => []DevIInv
<1>1. Device!Init => DevIInv
  BY DevInitInv
<1>2. DevIInv /\ [Device!Next]_(Device!vars) => DevIInv'
  BY DevStepInv
<1> QED
  BY <1>1, <1>2, PTL DEF Device!Spec

\* Every variable of the client holds what MiotDevice can put in it; no call makes a third attempt.
THEOREM DeviceTypeCorrect == ASSUME Device!DeviceAssumption PROVE Device!Spec => []Device!TypeOK
BY DevInvariance, DevHoldsOf, PTL

\* A command is executed at most twice, whatever is lost, and never again once it was answered.
THEOREM CommandsAtMostTwice == ASSUME Device!DeviceAssumption PROVE Device!Spec => []Device!AtMostTwice
BY DevInvariance, DevHoldsOf, PTL

\* The chain keeps every call from another's re-handshake: none finds the clock unread when it sends.
THEOREM CallsInSync == ASSUME Device!DeviceAssumption PROVE Device!Spec => []Device!SendsInSync
BY DevInvariance, DevHoldsOf, PTL

\* MiotError.stampRefreshed says that a failed call had been sent twice.
THEOREM ErrorsSayRetried == ASSUME Device!DeviceAssumption PROVE Device!Spec => []Device!RefreshedMeansRetried
BY DevInvariance, DevHoldsOf, PTL

----------------------------------------------------------------------------
(* IndexingLoop: what its own module proves, of the part here *)

LoopTheorems == INSTANCE IndexingLoopProofs WITH
  KnowledgeBases <- {k1}, Callers <- {1}, Enabled <- TRUE, MaxFaults <- 1, timer <- loopTimer,
  early <- loopEarly, faults <- loopFaults

\* What IndexingLoop assumes of its constants holds of those it has here.
LEMMA LoopAssumed == LoopTheorems!LoopAssumption
BY PartsAssumption DEF LoopTheorems!LoopAssumption

\* The part of the composition and the module's own are the same.
LEMMA LoopWords ==
  /\ Loop!vars = LoopTheorems!vars
  /\ Loop!Idle = LoopTheorems!Idle /\ Loop!NoRequest = LoopTheorems!NoRequest
  /\ Loop!Scheduled = LoopTheorems!Scheduled
  /\ Loop!TypeOK <=> LoopTheorems!TypeOK
BY DEF Loop!vars, Loop!podVars, Loop!history, LoopTheorems!vars, LoopTheorems!podVars, LoopTheorems!history,
       Loop!Idle, LoopTheorems!Idle, Loop!NoRequest, LoopTheorems!NoRequest, Loop!Scheduled, LoopTheorems!Scheduled,
       Loop!TypeOK, LoopTheorems!TypeOK, Loop!Requests, LoopTheorems!Requests, Loop!RunStates, LoopTheorems!RunStates,
       Loop!Answers, LoopTheorems!Answers, Loop!Outcomes, LoopTheorems!Outcomes

\* They start alike.
LEMMA LoopInitSame == Loop!Init => LoopTheorems!Init
BY LoopWords DEF Loop!Init, LoopTheorems!Init

\* Their helpers are the same.
LEMMA LoopRuns ==
  ASSUME NEW p
  PROVE  /\ Loop!Active(p) = LoopTheorems!Active(p) /\ Loop!Free(p) = LoopTheorems!Free(p)
         /\ Loop!Stopped(p) = LoopTheorems!Stopped(p) /\ Loop!Serves(p) = LoopTheorems!Serves(p)
         /\ Loop!Refused(p) = LoopTheorems!Refused(p) /\ Loop!Reborn(p) = LoopTheorems!Reborn(p)
         /\ \A q, l : Loop!Fresh(q, l) = LoopTheorems!Fresh(q, l)
         /\ \A q, r : Loop!Merge(q, r) = LoopTheorems!Merge(q, r)
<1>1. /\ Loop!Active(p) = LoopTheorems!Active(p)
      /\ Loop!Stopped(p) = LoopTheorems!Stopped(p) /\ Loop!Serves(p) = LoopTheorems!Serves(p)
      /\ Loop!Reborn(p) = LoopTheorems!Reborn(p)
  BY LoopWords DEF Loop!Active, LoopTheorems!Active, Loop!Stopped, LoopTheorems!Stopped, Loop!Serves, LoopTheorems!Serves,
     Loop!Reborn, LoopTheorems!Reborn
<1>2. Loop!Free(p) = LoopTheorems!Free(p) /\ Loop!Refused(p) = LoopTheorems!Refused(p)
  BY <1>1 DEF Loop!Free, LoopTheorems!Free, Loop!Refused, LoopTheorems!Refused
<1>3. /\ \A q, l : Loop!Fresh(q, l) = LoopTheorems!Fresh(q, l)
      /\ \A q, r : Loop!Merge(q, r) = LoopTheorems!Merge(q, r)
  BY LoopWords DEF Loop!Fresh, LoopTheorems!Fresh, Loop!Merge, LoopTheorems!Merge
<1> QED
  BY <1>1, <1>2, <1>3

\* A step of a pod here is one there.
LEMMA LoopPodSame ==
  ASSUME NEW p \in Pods
  PROVE  /\ Loop!Ready(p) => LoopTheorems!Ready(p)
         /\ Loop!TimerFires(p) => LoopTheorems!TimerFires(p)
         /\ Loop!Destroy(p) => LoopTheorems!Destroy(p)
         /\ Loop!Close(p) => LoopTheorems!Close(p)
         /\ Loop!Replace(p) => LoopTheorems!Replace(p)
         /\ Loop!Crash(p) => LoopTheorems!Crash(p)
         /\ Loop!Trigger(p, 1) => LoopTheorems!Trigger(p, 1)
<1>1. /\ Loop!Ready(p) => LoopTheorems!Ready(p)
      /\ Loop!Destroy(p) => LoopTheorems!Destroy(p)
      /\ Loop!Close(p) => LoopTheorems!Close(p)
      /\ Loop!Replace(p) => LoopTheorems!Replace(p)
      /\ Loop!Crash(p) => LoopTheorems!Crash(p)
  BY LoopRuns DEF Loop!Ready, LoopTheorems!Ready, Loop!Destroy, LoopTheorems!Destroy, Loop!Close, LoopTheorems!Close,
     Loop!Replace, LoopTheorems!Replace, Loop!Crash, LoopTheorems!Crash, Loop!history, LoopTheorems!history
<1>2. Loop!TimerFires(p) => LoopTheorems!TimerFires(p)
  BY DEF Loop!TimerFires, LoopTheorems!TimerFires, Loop!Launch, LoopTheorems!Launch, Loop!Free, LoopTheorems!Free,
         Loop!Fresh, LoopTheorems!Fresh, Loop!Active, LoopTheorems!Active, Loop!Idle, LoopTheorems!Idle,
         Loop!NoRequest, LoopTheorems!NoRequest, Loop!Scheduled, LoopTheorems!Scheduled,
         Loop!history, LoopTheorems!history
<1>3. Loop!Trigger(p, 1) => LoopTheorems!Trigger(p, 1)
  BY DEF Loop!Trigger, LoopTheorems!Trigger, Loop!Serves, LoopTheorems!Serves, Loop!Queue, LoopTheorems!Queue,
         Loop!CutIn, LoopTheorems!CutIn, Loop!Launch, LoopTheorems!Launch, Loop!Free, LoopTheorems!Free,
         Loop!Merge, LoopTheorems!Merge, Loop!Fresh, LoopTheorems!Fresh, Loop!Active, LoopTheorems!Active,
         Loop!Idle, LoopTheorems!Idle, Loop!NoRequest, LoopTheorems!NoRequest
<1> QED
  BY <1>1, <1>2, <1>3

\* A run ends alike.
LEMMA LoopSettleSame ==
  ASSUME NEW p \in Pods, NEW s \in Slots
  PROVE  /\ Loop!Settle(p, s) => LoopTheorems!Settle(p, s)
         /\ \A how : Loop!Tell(p, s, how) => LoopTheorems!Tell(p, s, how)
         /\ \A at : Loop!Move(p, s, at) => LoopTheorems!Move(p, s, at)
         /\ \A how : Loop!RecordRunEnd(p, s, how) => LoopTheorems!RecordRunEnd(p, s, how)
<1>1. Loop!Settle(p, s) => LoopTheorems!Settle(p, s)
  BY LoopRuns, LoopWords DEF Loop!Settle, LoopTheorems!Settle, Loop!Awaited, LoopTheorems!Awaited
<1>2. \A how : Loop!Tell(p, s, how) => LoopTheorems!Tell(p, s, how)
  BY DEF Loop!Tell, LoopTheorems!Tell
<1>3. \A at : Loop!Move(p, s, at) => LoopTheorems!Move(p, s, at)
  BY DEF Loop!Move, LoopTheorems!Move
<1>4. \A how : Loop!RecordRunEnd(p, s, how) => LoopTheorems!RecordRunEnd(p, s, how)
  BY LoopRuns DEF Loop!RecordRunEnd, LoopTheorems!RecordRunEnd
<1> QED
  BY <1>1, <1>2, <1>3, <1>4

\* A step of a run here is one there.
LEMMA LoopRunSame ==
  ASSUME NEW p \in Pods, NEW s \in Slots
  PROVE  Loop!RunStep(p, s) => LoopTheorems!RunStep(p, s)
<1>1. Loop!TakeLock(p, s) => LoopTheorems!TakeLock(p, s)
  BY LoopRuns, LoopSettleSame DEF Loop!TakeLock, LoopTheorems!TakeLock
<1>2. Loop!Skip(p, s) => LoopTheorems!Skip(p, s)
  BY LoopRuns, LoopSettleSame DEF Loop!Skip, LoopTheorems!Skip, Loop!history, LoopTheorems!history
<1>3. Loop!NoDatabase(p, s) => LoopTheorems!NoDatabase(p, s)
  BY LoopRuns, LoopSettleSame DEF Loop!NoDatabase, LoopTheorems!NoDatabase, Loop!history, LoopTheorems!history
<1>4. Loop!NextKnowledgeBase(p, s) => LoopTheorems!NextKnowledgeBase(p, s)
  BY LoopRuns, LoopSettleSame DEF Loop!NextKnowledgeBase, LoopTheorems!NextKnowledgeBase, Loop!history, LoopTheorems!history
<1>5. Loop!NoRunRecord(p, s) => LoopTheorems!NoRunRecord(p, s)
  BY LoopRuns, LoopSettleSame DEF Loop!NoRunRecord, LoopTheorems!NoRunRecord, Loop!history, LoopTheorems!history
<1>6. Loop!Indexed(p, s) => LoopTheorems!Indexed(p, s)
  BY LoopRuns DEF Loop!Indexed, LoopTheorems!Indexed, Loop!history, LoopTheorems!history
<1>7. Loop!Failed(p, s) => LoopTheorems!Failed(p, s)
  BY LoopRuns, LoopSettleSame DEF Loop!Failed, LoopTheorems!Failed, Loop!history, LoopTheorems!history
<1>8. Loop!Interrupted(p, s) => LoopTheorems!Interrupted(p, s)
  BY LoopRuns, LoopSettleSame DEF Loop!Interrupted, LoopTheorems!Interrupted, Loop!history, LoopTheorems!history
<1>9. Loop!Unlock(p, s) => LoopTheorems!Unlock(p, s)
  BY LoopRuns, LoopSettleSame DEF Loop!Unlock, LoopTheorems!Unlock, Loop!history, LoopTheorems!history
<1> QED
  BY <1>1, <1>2, <1>3, <1>4, <1>5, <1>6, <1>7, <1>8, <1>9 DEF Loop!RunStep, LoopTheorems!RunStep

----------------------------------------------------------------------------
(* The composition *)

\* A step of the composition is one of the part it is of.
LEMMA HostSteps ==
  ASSUME [HostNext]_hostVars
  PROVE  /\ part' = part
         /\ part = "GitHubDiscovery" => [GitHub!Next]_(GitHub!vars)
         /\ part = "UiStatus" => [Ui!Next]_(Ui!vars)
         /\ part = "IndexingLoop" => [LoopTheorems!Next]_(LoopTheorems!vars)
         /\ part = "MiotDevice" => [Device!Next]_(Device!vars)
<1>1. CASE UNCHANGED hostVars
  <2>1. UNCHANGED <<part, ghVars, loopVars, devVars, uiVars>>
    BY <1>1 DEF hostVars
  <2> QED
    BY <1>1, <2>1 DEF ghVars, loopVars, devVars, uiVars, GitHub!vars, Ui!vars, LoopTheorems!vars, LoopTheorems!podVars,
                      LoopTheorems!history, Device!vars
<1>2. CASE HostNext
  <2>1. part' = part
    BY <1>2 DEF HostNext, DispatchOnly, GitHubOnly, LoopOnly, PolledOnly, DeviceOnly, UiOnly
  <2>2. ASSUME part = "GitHubDiscovery" PROVE GitHub!Next
    BY <1>2, <2>2 DEF HostNext, GitHub!Next, GitHub!Credentials, DispatchOnly, GitHubOnly, LoopOnly, PolledOnly, DeviceOnly, UiOnly
  <2>3. ASSUME part = "UiStatus" PROVE Ui!Next
    BY <1>2, <2>3 DEF HostNext, Ui!Next, DispatchOnly, GitHubOnly, LoopOnly, PolledOnly, DeviceOnly, UiOnly
  <2>4. ASSUME part = "IndexingLoop" PROVE LoopTheorems!Next
    <3>1. \/ \E p \in Pods : \/ Loop!Ready(p) \/ Loop!TimerFires(p) \/ Loop!Destroy(p) \/ Loop!Close(p)
                             \/ Loop!Replace(p) \/ Loop!Crash(p) \/ Loop!Trigger(p, 1)
          \/ \E p \in Pods, s \in Slots : Loop!RunStep(p, s)
      BY <1>2, <2>4 DEF HostNext, Loop!RunStep, DispatchOnly, GitHubOnly, LoopOnly, PolledOnly, DeviceOnly, UiOnly
    <3> QED
      BY <3>1, LoopPodSame, LoopRunSame DEF LoopTheorems!Next
  <2>5. ASSUME part = "MiotDevice" PROVE Device!Next
    <3>1. \/ \E c \in Calls : Device!Make(c) \/ Device!Step(c) \/ Device!Execute(c) \/ Device!Refuse(c)
          \/ Device!Reboot \/ Device!Seed \/ Device!Discover \/ Device!Discovered \/ Device!DiscoverEnds
      BY <1>2, <2>5 DEF HostNext, Device!Step, DispatchOnly, GitHubOnly, LoopOnly, PolledOnly, DeviceOnly, UiOnly
    <3> QED
      BY <3>1 DEF Device!Next
  <2> QED
    BY <2>1, <2>2, <2>3, <2>4, <2>5
<1> QED
  BY <1>1, <1>2

\* GitHubEndpoint in the composition: a client goes only with a listing of its own credential that lacks its
\* repository, however many discoveries are under way and whenever a secret rotates.
THEOREM HostClientKept == HostSpec => ClientKept
<1> DEFINE Inv == part = "GitHubDiscovery" => GhInv
<1>1. HostInit => Inv
  <2> SUFFICES ASSUME HostInit, part = "GitHubDiscovery" PROVE GhInv
    OBVIOUS
  <2>1. GitHub!Init
    BY DEF HostInit
  <2> QED
    BY <2>1, GhInit
<1>2. Inv /\ [HostNext]_hostVars => Inv'
  BY HostSteps, GhStep
<1>3. Inv /\ [HostNext]_hostVars => [part = "GitHubDiscovery" => GitHub!ForgottenWhenListed]_hostVars
  BY HostSteps, GhStep
<1> HIDE DEF Inv
<1> QED
  BY <1>1, <1>2, <1>3, PTL DEF HostSpec, ClientKept

\* What each module proves by itself, of its part: a command is executed at most twice, no call sends without a
\* reading, an error says whether its call was sent again; the parts' variables keep their types.
THEOREM HostPartsSound == HostSpec => []PartsSound
<1> DEFINE Inv ==
  /\ part = "GitHubDiscovery" => GhInv
  /\ part = "UiStatus" => Ui!TypeOK
  /\ part = "IndexingLoop" => LoopTheorems!IInv
  /\ part = "MiotDevice" => DevIInv
<1>1. HostInit => Inv
  <2> SUFFICES ASSUME HostInit PROVE Inv
    OBVIOUS
  <2>1. /\ part = "GitHubDiscovery" => GitHub!Init
        /\ part = "UiStatus" => Ui!Init
        /\ part = "IndexingLoop" => Loop!Init
        /\ part = "MiotDevice" => Device!Init
    BY DEF HostInit
  <2>2. LoopTheorems!Init => LoopTheorems!IInv
    BY LoopAssumed, LoopTheorems!InitInv
  <2>3. Device!Init => DevIInv
    BY PartsAssumption, DevInitInv
  <2> QED
    BY <2>1, <2>2, <2>3, GhInit, UiInit, LoopInitSame
<1>2. Inv /\ [HostNext]_hostVars => Inv'
  <2> SUFFICES ASSUME Inv, [HostNext]_hostVars PROVE Inv'
    OBVIOUS
  <2>1. LoopTheorems!IInv /\ [LoopTheorems!Next]_(LoopTheorems!vars) => LoopTheorems!IInv'
    BY LoopAssumed, LoopTheorems!StepInv
  <2>2. DevIInv /\ [Device!Next]_(Device!vars) => DevIInv'
    BY PartsAssumption, DevStepInv
  <2> QED
    BY <2>1, <2>2, HostSteps, GhStep, UiSteps
<1>3. Inv => PartsSound
  <2>1. LoopTheorems!IInv => LoopTheorems!TypeOK
    BY DEF LoopTheorems!IInv
  <2>2. DevIInv => /\ Device!TypeOK /\ Device!AtMostTwice
                   /\ Device!SendsInSync /\ Device!RefreshedMeansRetried
    BY DevHoldsOf
  <2> QED
    BY <2>1, <2>2, GhTyped, LoopWords DEF PartsSound
<1> HIDE DEF Inv
<1> QED
  BY <1>1, <1>2, <1>3, PTL DEF HostSpec
=============================================================================
