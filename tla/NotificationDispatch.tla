------------------------- MODULE NotificationDispatch -------------------------
(***************************************************************************)
(* NotificationDispatchService of miot-bridge-api: every observed property *)
(* value leaves through one queue, at least publishIntervalMs apart, so    *)
(* that a subscriber which only ever processes the newest message (the     *)
(* Loxone Miniserver) misses none.                                         *)
(*                                                                         *)
(* Time is relative: the armed timer counts down to its deadline, `wait`   *)
(* is what is left of lastPublishAt + interval - Date.now().  A timer may  *)
(* fire late, never early.                                                 *)
(***************************************************************************)
EXTENDS Naturals, Sequences

CONSTANTS Properties,   \* (device, property) pairs that are observed
          Values,       \* values one may have
          None,         \* no value, no timer
          Interval,     \* publishIntervalMs, in ticks; 0 would turn pacing off
          MaxFaults     \* bound: refused publishes

ASSUME DispatchAssumption ==
  /\ None \notin Values /\ None \notin Nat
  /\ Interval \in Nat \ {0}
  /\ MaxFaults \in Nat

VARIABLES queue,     \* notifications waiting for their turn
          timer,     \* ticks until the armed timer is due, None when none is
          wait,      \* ticks until the next publish may leave, 0 when it may now
          link,      \* "up"; "silent": lost, unnoticed by the client; "down"; "closed"
          inflight,  \* per property: published and not acknowledged
          latest,    \* history variable: the value last observed
          shown,     \* history variable: the value the broker has last been given
          refused,   \* history variable: properties whose newest publish failed
          gap,       \* history variable: ticks since a publish or reconnect, up to Interval
          early,     \* history variable: a publish left before its time
          faults     \* bound on faults

queueVars == <<queue, timer, wait>>
brokerVars == <<inflight, shown, refused, faults>>
vars == <<queueVars, link, brokerVars, latest, gap, early>>

Notifications == [property : Properties, value : Values]
Waiting(q) == {q[i].property : i \in DOMAIN q}

Init ==
  /\ queue = <<>> /\ timer = None /\ wait = 0
  /\ link = "up"
  /\ inflight = [k \in Properties |-> None]
  /\ latest = [k \in Properties |-> None]
  /\ shown = [k \in Properties |-> None]
  /\ refused = {}
  /\ gap = Interval
  /\ early = FALSE
  /\ faults = 0

----------------------------------------------------------------------------
(* mqtt.js, as the service uses it *)

\* client.connected: a connection that is lost but not yet missed still counts.
Connected == link \in {"up", "silent"}

\* The broker is given messages for the properties S.
Arrive(S, value) == shown' = [k \in Properties |-> IF k \in S THEN value[k] ELSE shown[k]]

\* publishAsync at QoS 1: acknowledged, held by the client until it is, or refused, which
\* sendMqtt only logs.
Send(m) ==
  \/ /\ link = "up"
     /\ Arrive({m.property}, [k \in Properties |-> m.value])
     /\ inflight' = [inflight EXCEPT ![m.property] = None]
     /\ refused' = refused \ {m.property}
     /\ UNCHANGED faults
  \/ /\ link = "silent"
     /\ inflight' = [inflight EXCEPT ![m.property] = m.value]
     /\ refused' = refused \ {m.property}
     /\ UNCHANGED <<shown, faults>>
  \/ /\ faults < MaxFaults
     /\ faults' = faults + 1
     /\ refused' = refused \cup {m.property}
     /\ UNCHANGED <<inflight, shown>>

----------------------------------------------------------------------------
(* The queue *)

\* publishNext with a message to send, and the scheduleNext that ends it.
Publish(q) ==
  /\ Send(Head(q))
  /\ queue' = Tail(q)
  /\ wait' = Interval
  /\ timer' = IF Tail(q) = <<>> THEN None ELSE Interval
  /\ gap' = 0
  /\ early' = (early \/ gap < Interval)

\* scheduleNext, over the queue as it has become: nothing to do, wait out the interval,
\* or publish now.  Offline, publishNext leaves everything to the reconnect.
Schedule(q) ==
  \/ /\ timer # None \/ q = <<>> \/ (wait = 0 /\ ~Connected)
     /\ queue' = q
     /\ UNCHANGED <<timer, wait, brokerVars, gap, early>>
  \/ /\ timer = None /\ q # <<>> /\ wait > 0
     /\ queue' = q
     /\ timer' = wait
     /\ UNCHANGED <<wait, brokerVars, gap, early>>
  \/ /\ timer = None /\ q # <<>> /\ wait = 0
     /\ Connected
     /\ Publish(q)

\* MUTANT: a replaced value loses its place.
EnqueueLast(m) == Append(SelectSeq(queue, LAMBDA other : other.property # m.property), m)

\* MUTANT: the value already waiting is the one that is sent.
EnqueueOnce(m) == IF m.property \in Waiting(queue) THEN queue ELSE Append(queue, m)

\* enqueue: a property already waiting has its value replaced in place.
Enqueue(m) ==
  IF m.property \in Waiting(queue)
    THEN [i \in DOMAIN queue |-> IF queue[i].property = m.property THEN m ELSE queue[i]]
    ELSE Append(queue, m)

\* receive, from the poller or a direct call; a service already destroyed takes it too.
Receive(m) ==
  /\ latest' = [latest EXCEPT ![m.property] = m.value]
  /\ Schedule(Enqueue(m))
  /\ UNCHANGED link

\* publishNext as the timer's callback; a timer is only ever armed for a queue that holds
\* something.
TimerFires ==
  /\ timer = 0
  /\ \/ Connected /\ Publish(queue)
     \/ /\ ~Connected
        /\ timer' = None
        /\ UNCHANGED <<queue, wait, brokerVars, gap, early>>
  /\ UNCHANGED <<link, latest>>

\* One tick of the clock.
Tick ==
  /\ timer' = IF timer \in {None, 0} THEN timer ELSE timer - 1
  /\ wait' = IF wait = 0 THEN 0 ELSE wait - 1
  /\ gap' = IF gap = Interval THEN gap ELSE gap + 1
  /\ UNCHANGED <<queue, link, brokerVars, latest, early>>

----------------------------------------------------------------------------
(* The connection *)

\* It goes silent: the client publishes on and hears nothing.
GoSilent == link = "up" /\ link' = "silent" /\ UNCHANGED <<queueVars, brokerVars, latest, gap, early>>

\* The client notices that the connection is gone.
Disconnect == Connected /\ link' = "down" /\ UNCHANGED <<queueVars, brokerVars, latest, gap, early>>

\* MUTANT: a timer armed before the connection was lost stays armed.
ReconnectKeepingTimer ==
  LET unacknowledged == {k \in Properties : inflight[k] # None}
  IN  /\ link = "down"
      /\ link' = "up"
      /\ Arrive(unacknowledged, inflight)
      /\ inflight' = [k \in Properties |-> None]
      /\ wait' = Interval
      /\ timer' = IF timer # None THEN timer ELSE IF queue = <<>> THEN None ELSE Interval
      /\ gap' = 0
      /\ UNCHANGED <<queue, refused, faults, latest, early>>

\* MUTANT: the reconnect leaves scheduling to the next value received.
ReconnectUnscheduled ==
  LET unacknowledged == {k \in Properties : inflight[k] # None}
  IN  /\ link = "down"
      /\ link' = "up"
      /\ Arrive(unacknowledged, inflight)
      /\ inflight' = [k \in Properties |-> None]
      /\ wait' = Interval
      /\ timer' = None
      /\ gap' = 0
      /\ UNCHANGED <<queue, refused, faults, latest, early>>

\* Connected again: mqtt.js resends what was never acknowledged, and onReconnect makes
\* the queue wait a full interval.
Reconnect ==
  LET unacknowledged == {k \in Properties : inflight[k] # None}
  IN  /\ link = "down"
      /\ link' = "up"
      /\ Arrive(unacknowledged, inflight)
      /\ inflight' = [k \in Properties |-> None]
      /\ wait' = Interval
      /\ timer' = IF queue = <<>> THEN None ELSE Interval
      /\ gap' = 0
      /\ UNCHANGED <<queue, refused, faults, latest, early>>

\* $onDestroy, of the service and of the client: what waits is dropped.
Destroy ==
  /\ link # "closed"
  /\ link' = "closed"
  /\ queue' = <<>>
  /\ timer' = None
  /\ UNCHANGED <<wait, brokerVars, latest, gap, early>>

Next ==
  \/ \E m \in Notifications : Receive(m)
  \/ TimerFires \/ Tick
  \/ GoSilent \/ Disconnect \/ Reconnect \/ Destroy

\* Time passes and a due timer fires.
Fairness == WF_vars(TimerFires) /\ WF_vars(Tick)

Spec == Init /\ [][Next]_vars
FairSpec == Spec /\ Fairness

----------------------------------------------------------------------------
(* Properties *)

\* Every variable holds what the code can put in it; a property waits at most once, which
\* bounds the queue by the number of properties.
TypeOK ==
  /\ queue \in Seq(Notifications)
  /\ \A i, j \in DOMAIN queue : queue[i].property = queue[j].property => i = j
  /\ timer \in 0..Interval \cup {None}
  /\ wait \in 0..Interval
  /\ link \in {"up", "silent", "down", "closed"}
  /\ inflight \in [Properties -> Values \cup {None}]
  /\ latest \in [Properties -> Values \cup {None}]
  /\ shown \in [Properties -> Values \cup {None}]
  /\ refused \in SUBSET Properties
  /\ gap \in 0..Interval
  /\ early \in BOOLEAN
  /\ faults \in 0..MaxFaults

\* No publish leaves less than an interval after the one before it, or after a reconnect,
\* whichever of receive, the timer and the reconnect sent it (README: "one at a time, at
\* least publishIntervalMs apart").
Paced == ~early

\* While the client is connected something is armed for whatever waits: no order of
\* receive, timer, disconnect and reconnect leaves the queue stranded.
NeverStranded == Connected /\ queue # <<>> => timer # None

\* The newest value observed is never lost on the way: it waits, is unacknowledged, or is
\* what the broker was last given, unless the broker refused it.
NewestSurvives ==
  link # "closed" => \A k \in Properties : latest[k] # None =>
    \/ \E i \in DOMAIN queue : queue[i] = [property |-> k, value |-> latest[k]]
    \/ k \notin Waiting(queue) /\ inflight[k] = latest[k]
    \/ k \notin Waiting(queue) /\ inflight[k] = None /\ shown[k] = latest[k]
    \/ k \in refused

\* While the connection stays, a property that waits gets its turn, however often it and
\* the others are observed meanwhile.
NoStarvation ==
  \A k \in Properties : <>[](link = "up") => []<>(k \notin Waiting(queue))
=============================================================================
