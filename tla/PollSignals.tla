----------------------------- MODULE PollSignals -----------------------------
(***************************************************************************)
(* What miot-bridge-api tells of itself while it polls: the spans and the  *)
(* job, call and property metrics that @radoslavirha/otel records around   *)
(* the poller's ticks, the reads in them, the notifications they lead to   *)
(* (published later, by another timer) and inbound MQTT commands.          *)
(*                                                                         *)
(* A span's name here is what it stands for, so that no two are mixed up.  *)
(* A context is what AsyncLocalStorage hands on: the current span and      *)
(* whether tracing is suppressed.                                          *)
(***************************************************************************)
EXTENDS Naturals, FiniteSets

CONSTANTS Devices,     \* devices with subscriptions
          Messages,    \* inbound commands
          MaxTicks,    \* bound on the ticks
          MaxErrors,   \* polling.maxErrorCount
          SkipCycles,  \* polling.errorSkipCycles
          None

VARIABLES sdk,      \* "off", "on", "flushing" or "stopped"
          spans,    \* each name: the span, or None
          metric,   \* each thing that is counted: how often, as what
          timer,    \* the poller's timer: None, or the context it inherits (kept when it has fired)
          tick,     \* the tick under way
          traced,   \* each tick: is it traced
          errors, skip,        \* back-off by device
          queue,    \* each device: the waiting value's tick and context, or None
          pubTimer, \* the dispatcher's timer: None or the context it inherits
          message,  \* each message: "new", "handled", "done"
          carrier,  \* ... and whether its packet carried a trace
          stopped

poll == <<timer, tick, traced, errors, skip, stopped>>
dispatch == <<queue, pubTimer>>
inbound == <<message, carrier>>
vars == <<sdk, spans, metric, poll, dispatch, inbound>>

Ticks == 1 .. MaxTicks
Runs == {<<"tick", n>>: n \in Ticks} \cup {<<"load", 0>>}
Reads == {<<"device", n, d>>: n \in Ticks, d \in Devices}
Calls == {<<"call", n, d>>: n \in Ticks, d \in Devices}
Published == {<<"publish", n, d>>: n \in Ticks, d \in Devices}
Handled == {<<"message", m>>: m \in Messages}
Replies == {<<"reply", m>>: m \in Messages}
Names == Runs \cup Reads \cup Calls \cup Published \cup Handled \cup Replies

Sender == <<"sender", 0>>  \* the span an inbound packet was published in
Empty == [span |-> None, suppressed |-> FALSE]
Contexts == [span: Names \cup {None, Sender}, suppressed: BOOLEAN]
Spans == [parent: Names \cup {None, Sender}, error: BOOLEAN, ends: Nat, trace: Names \cup {Sender}]
Waiting == [n: Ticks, ctx: Contexts]
Nothing == [times |-> 0, outcome |-> None]
Refusals == {<<"refused", n, d>>: n \in Ticks, d \in Devices}
Unresolved == {<<"unresolved", n, d>>: n \in Ticks, d \in Devices}
Skips == {<<"skip", n>>: n \in Ticks}

Init ==
    /\ sdk \in {"off", "on"}
    /\ spans = [s \in Names |-> None]
    /\ metric = [k \in Runs \cup Reads \cup Calls \cup Refusals \cup Unresolved \cup Skips |-> Nothing]
    /\ timer = None
    /\ tick = [n |-> 0, at |-> "loading", ctx |-> Empty, todo |-> {}, device |-> None]
    /\ traced = [n \in Ticks |-> FALSE]
    /\ errors = [d \in Devices |-> 0] /\ skip = [d \in Devices |-> 0]
    /\ queue = [d \in Devices |-> None] /\ pubTimer = None
    /\ message = [m \in Messages |-> "new"]
    /\ carrier \in [Messages -> BOOLEAN]
    /\ stopped = FALSE

TypeOK ==
    /\ sdk \in {"off", "on", "flushing", "stopped"}
    /\ \A s \in Names: spans[s] = None \/ spans[s].ends \in 0 .. 1
    /\ timer \in Contexts \cup {None} /\ pubTimer \in Contexts \cup {None}
    /\ tick.at \in {"loading", "idle", "due", "next", "reading", "calling", "settling", "dead"}
    /\ errors \in [Devices -> 0 .. MaxErrors] /\ skip \in [Devices -> 0 .. SkipCycles]

-----------------------------------------------------------------------------
(* spanTracing.  Under suppression the tracer hands out a span that is not *)
(* recorded, and so it does without an SDK.                                *)
Recording(ctx) == sdk # "off" /\ ~ctx.suppressed

TraceOf(parent) ==
    CASE parent = None -> None
      [] parent = Sender -> Sender
      [] parent \in Names -> IF spans[parent] = None THEN None ELSE spans[parent].trace

Started(name, ctx, root) ==
    LET parent == IF root THEN None ELSE ctx.span
        trace == TraceOf(parent)
    IN IF Recording(ctx)
         THEN [spans EXCEPT ![name] = [parent |-> parent, error |-> FALSE, ends |-> 0,
                                       trace |-> IF trace = None THEN name ELSE trace]]
         ELSE spans

(* The context inside of withSpan. *)
Inside(name, ctx) == IF Recording(ctx) THEN [ctx EXCEPT !.span = name] ELSE ctx

(* A root that is sampled out runs suppressed, and with no span current. *)
SuppressedContext == [span |-> None, suppressed |-> TRUE]

(* endOnSettle *)
Ended(store, name, error) ==
    IF store[name] = None THEN store
    ELSE [store EXCEPT ![name].ends = @ + 1, ![name].error = @ \/ error]

(* The instruments are those of the provider that is registered now. *)
Instruments == sdk = "on"
Recorded(store, key, outcome) ==
    IF Instruments THEN [store EXCEPT ![key] = [times |-> @.times + 1, outcome |-> outcome]] ELSE store

-----------------------------------------------------------------------------
(* start(): the subscriptions are loaded as a job of its own; when that    *)
(* throws the boot fails.  The timer is armed after its span has closed.   *)
Load(ok) ==
    /\ tick.at = "loading"
    /\ spans' = Ended(Started(<<"load", 0>>, Empty, TRUE), <<"load", 0>>, ~ok)
    /\ metric' = Recorded(metric, <<"load", 0>>, IF ok THEN "success" ELSE "failure")
    /\ timer' = IF ok THEN Empty ELSE None
    /\ tick' = [tick EXCEPT !.at = IF ok THEN "idle" ELSE "dead"]
    /\ UNCHANGED <<sdk, traced, errors, skip, stopped, dispatch, inbound>>

(* tick(): fired, the timer is still there for stop() to clear. *)
TimerFires ==
    /\ timer # None /\ tick.at = "idle" /\ tick.n < MaxTicks
    /\ tick' = [tick EXCEPT !.n = @ + 1, !.at = "due", !.ctx = timer]
    /\ UNCHANGED <<sdk, spans, metric, timer, traced, errors, skip, stopped, dispatch, inbound>>

(* mutant: the next tick is armed whether the poller was stopped or not *)
RearmedAlways == Empty
(* The finally of tick(): the context is again the one the timer fired in. *)
Rearmed == timer

dueDevices == {d \in Devices: skip[d] = 0}
CountDown == skip' = [d \in Devices |-> IF skip[d] > 0 THEN skip[d] - 1 ELSE 0]

(* Nothing is due: no span, and a skip that is counted. *)
NothingDue ==
    /\ tick.at = "due" /\ dueDevices = {}
    /\ CountDown
    /\ metric' = Recorded(metric, <<"skip", tick.n>>, "nothing_due")
    /\ timer' = Rearmed
    /\ tick' = [tick EXCEPT !.at = "idle", !.ctx = Empty]
    /\ UNCHANGED <<sdk, spans, traced, errors, stopped, dispatch, inbound>>

(* shouldTrace: always with a device that was failing, else when the trace *)
(* interval has passed.                                                    *)
failingCount == Cardinality({d \in dueDevices: errors[d] > 0})
shouldTrace == IF failingCount > 0 THEN {TRUE} ELSE BOOLEAN

(* runJob around the tick. *)
pollDueDevices ==
    /\ tick.at = "due" /\ dueDevices # {}
    /\ CountDown
    /\ \E yes \in shouldTrace:
         LET run == <<"tick", tick.n>>
         IN /\ traced' = [traced EXCEPT ![tick.n] = yes]
            /\ spans' = IF yes THEN Started(run, tick.ctx, TRUE) ELSE spans
            /\ tick' = [tick EXCEPT !.at = "next", !.todo = dueDevices,
                                    !.ctx = IF yes THEN Inside(run, @) ELSE SuppressedContext]
    /\ UNCHANGED <<sdk, metric, timer, errors, stopped, dispatch, inbound>>

(* pollDevice: a span of its own around the read. *)
pollDevice(d) ==
    /\ tick.at = "next" /\ d \in tick.todo
    /\ spans' = Started(<<"device", tick.n, d>>, tick.ctx, FALSE)
    /\ tick' = [tick EXCEPT !.at = "reading", !.device = d, !.todo = @ \ {d}]
    /\ UNCHANGED <<sdk, metric, timer, traced, errors, skip, stopped, dispatch, inbound>>

Read == <<"device", tick.n, tick.device>>
Call == <<"call", tick.n, tick.device>>
ReadContext == Inside(Read, tick.ctx)

-----------------------------------------------------------------------------
(* readDevice, when all went well: an item that succeeded. *)
ReadEnds(store, counted) ==
    /\ spans' = Ended(store, Read, FALSE)
    /\ metric' = Recorded(counted, Read, "success")
    /\ errors' = [errors EXCEPT ![tick.device] = 0]
    /\ tick' = [tick EXCEPT !.at = "next", !.device = None]
    /\ UNCHANGED <<sdk, timer, traced, skip, stopped, inbound>>

(* ... and when it did not: swallowed, the span marked, an item that       *)
(* failed, and the device backed off after MaxErrors in a row.             *)
ReadFails(store, counted) ==
    /\ spans' = Ended(store, Read, TRUE)
    /\ metric' = Recorded(counted, Read, "failure")
    /\ IF errors[tick.device] + 1 >= MaxErrors
         THEN /\ errors' = [errors EXCEPT ![tick.device] = 0]
              /\ skip' = [skip EXCEPT ![tick.device] = SkipCycles]
         ELSE errors' = [errors EXCEPT ![tick.device] = @ + 1] /\ UNCHANGED skip
    /\ tick' = [tick EXCEPT !.at = "next", !.device = None]
    /\ UNCHANGED <<sdk, timer, traced, stopped, dispatch, inbound>>

(* The device is not in storage, or storage cannot be asked. *)
NotRead == tick.at = "reading" /\ ReadFails(spans, metric)

(* No key resolves against the spec: counted, and nothing is called. *)
NoKeyResolves ==
    /\ tick.at = "reading"
    /\ ReadEnds(spans, Recorded(metric, <<"unresolved", tick.n, tick.device>>, "get_properties"))
    /\ UNCHANGED dispatch

(* withMiotCallSpan *)
CallBegins ==
    /\ tick.at = "reading"
    /\ spans' = Started(Call, ReadContext, FALSE)
    /\ tick' = [tick EXCEPT !.at = "calling"]
    /\ UNCHANGED <<sdk, metric, timer, traced, errors, skip, stopped, dispatch, inbound>>

CallFails ==
    /\ tick.at = "calling"
    /\ ReadFails(Ended(spans, Call, TRUE), Recorded(metric, Call, "error"))

(* A bulk read succeeds although the device refused a property of it. *)
PropertyRefused ==
    /\ tick.at = "calling"
    /\ ReadEnds(Ended(spans, Call, FALSE),
                Recorded(Recorded(metric, Call, "ok"), <<"refused", tick.n, tick.device>>, "code"))
    /\ UNCHANGED dispatch

Unchanged ==
    /\ tick.at = "calling"
    /\ ReadEnds(Ended(spans, Call, FALSE), Recorded(metric, Call, "ok"))
    /\ UNCHANGED dispatch

(* enqueue(): the value waits with the context of the read that saw it, in *)
(* the place of an older one; a timer is armed when there is none.         *)
Changed ==
    /\ tick.at = "calling"
    /\ ReadEnds(Ended(spans, Call, FALSE), Recorded(metric, Call, "ok"))
    /\ queue' = [queue EXCEPT ![tick.device] = [n |-> tick.n, ctx |-> ReadContext]]
    /\ pubTimer' = IF pubTimer = None THEN ReadContext ELSE pubTimer

(* mutant: only a run whose body succeeded is recorded *)
SettlesSampled(ok) ==
    /\ tick.at = "next" /\ tick.todo = {}
    /\ LET run == <<"tick", tick.n>>
       IN /\ spans' = Ended(spans, run, FALSE)
          /\ metric' = IF traced[tick.n] THEN Recorded(metric, run, "success") ELSE metric
    /\ timer' = Rearmed
    /\ tick' = [tick EXCEPT !.at = "idle", !.ctx = Empty]
    /\ UNCHANGED <<sdk, traced, errors, skip, stopped, dispatch, inbound>>

(* recordOnSettle: the run's duration is recorded, traced or not.          *)
Settles(ok) ==
    /\ tick.at = "next" /\ tick.todo = {}
    /\ LET run == <<"tick", tick.n>>
       IN /\ spans' = Ended(spans, run, ~ok)
          /\ metric' = Recorded(metric, run, IF ok THEN "success" ELSE "failure")
    /\ timer' = Rearmed
    /\ tick' = [tick EXCEPT !.at = "idle", !.ctx = Empty]
    /\ UNCHANGED <<sdk, traced, errors, skip, stopped, dispatch, inbound>>

-----------------------------------------------------------------------------
(* publishNext: the value's own context is restored; the timer's is that   *)
(* of whatever armed it.                                                   *)
(* mutant: the publish runs in the timer's context *)
RestoredNot(waiting) == pubTimer
Restored(waiting) == waiting.ctx

publishNext(d) ==
    /\ pubTimer # None /\ queue[d] # None
    /\ spans' = Started(<<"publish", queue[d].n, d>>, Restored(queue[d]), FALSE)
    /\ queue' = [queue EXCEPT ![d] = None]
    /\ pubTimer' = IF \E e \in Devices \ {d}: queue[e] # None THEN pubTimer ELSE None
    /\ UNCHANGED <<sdk, metric, poll, inbound>>

(* Not connected: nothing is sent, and nothing armed until the reconnect.  *)
Offline ==
    /\ pubTimer # None
    /\ pubTimer' = None
    /\ UNCHANGED <<sdk, spans, metric, poll, queue, inbound>>

Reconnect ==
    /\ pubTimer = None /\ \E d \in Devices: queue[d] # None
    /\ pubTimer' = Empty
    /\ UNCHANGED <<sdk, spans, metric, poll, queue, inbound>>

(* The broker acknowledges, or the failure is marked and not rethrown. *)
Sent(name, error) ==
    /\ spans[name] # None /\ spans[name].ends = 0
    /\ spans' = Ended(spans, name, error)
    /\ UNCHANGED <<sdk, metric, poll, dispatch, inbound>>

-----------------------------------------------------------------------------
(* withMqttConsumeSpan: only a traceparent that was sent makes a parent.   *)
ParentOf(m) == IF carrier[m] THEN [Empty EXCEPT !.span = Sender] ELSE Empty

Consume(m) ==
    /\ message[m] = "new"
    /\ spans' = Started(<<"message", m>>, ParentOf(m), ~carrier[m])
    /\ message' = [message EXCEPT ![m] = "handled"]
    /\ UNCHANGED <<sdk, metric, poll, dispatch, carrier>>

(* The response is published inside of the message's span. *)
Respond(m) ==
    /\ message[m] = "handled"
    /\ spans' = Ended(Ended(Started(<<"reply", m>>, Inside(<<"message", m>>, ParentOf(m)), FALSE),
                            <<"reply", m>>, FALSE), <<"message", m>>, FALSE)
    /\ message' = [message EXCEPT ![m] = "done"]
    /\ UNCHANGED <<sdk, metric, poll, dispatch, carrier>>

-----------------------------------------------------------------------------
(* stop() *)
Stop ==
    /\ ~stopped /\ tick.at \notin {"loading", "dead"}
    /\ stopped' = TRUE
    /\ timer' = None
    /\ queue' = [d \in Devices |-> None] /\ pubTimer' = None
    /\ UNCHANGED <<sdk, spans, metric, tick, traced, errors, skip, inbound>>

(* OpenTelemetryService.shutdown: after the platform has stopped, once.    *)
Shutdown ==
    /\ stopped /\ sdk = "on"
    /\ sdk' = "flushing"
    /\ UNCHANGED <<spans, metric, poll, dispatch, inbound>>

(* The flush ends, fails, or its time is up. *)
FlushEnds ==
    /\ sdk = "flushing"
    /\ sdk' = "stopped"
    /\ UNCHANGED <<spans, metric, poll, dispatch, inbound>>

Next ==
    \/ \E ok \in BOOLEAN: Load(ok)
    \/ TimerFires \/ NothingDue \/ pollDueDevices
    \/ \E d \in Devices: pollDevice(d)
    \/ NotRead \/ NoKeyResolves \/ CallBegins \/ CallFails
    \/ PropertyRefused \/ Unchanged \/ Changed
    \/ Settles(TRUE)
    \/ \E d \in Devices: publishNext(d)
    \/ Offline \/ Reconnect
    \/ \E name \in Published, error \in BOOLEAN: Sent(name, error)
    \/ \E m \in Messages: Consume(m) \/ Respond(m)
    \/ Stop \/ Shutdown \/ FlushEnds

Spec == Init /\ [][Next]_vars

-----------------------------------------------------------------------------
(* No span stands alone: what has no parent is a run of the poller or a    *)
(* message, so that no trace is made of a single call, and none is chained *)
(* onto another tick's.                                                    *)
Rooted ==
    \A s \in Names: spans[s] # None =>
      /\ spans[s].parent = None => s \in Runs \cup Handled
      /\ s \in Runs => spans[s].parent = None
      /\ s \in Handled => (spans[s].parent = Sender) = carrier[s[2]]

(* "The span must join the read that observed the value, and a read the    *)
(* poller sampled out must stay untraced" (NotificationDispatchService     *)
(* lines 173-174): a publish belongs to the trace of the tick whose value  *)
(* it sends, whatever other tick armed the timer that sends it.            *)
JoinsItsRead ==
    \A n \in Ticks, d \in Devices: spans[<<"publish", n, d>>] # None
      => traced[n] /\ spans[<<"publish", n, d>>].trace = <<"tick", n>>

(* Metrics are never sampled: what is over is recorded exactly once,       *)
(* traced or not, with the outcome of its own, and a call has its item.    *)
Finished(n) == n < tick.n \/ (n = tick.n /\ tick.at = "idle")
Metered ==
    sdk = "on" => \A n \in Ticks: Finished(n) =>
      /\ metric[<<"tick", n>>].times + metric[<<"skip", n>>].times = 1
      /\ \A d \in Devices:
           /\ metric[<<"call", n, d>>].outcome = "error" => metric[<<"device", n, d>>].outcome = "failure"
           /\ spans[<<"device", n, d>>] # None =>
                spans[<<"device", n, d>>].error = (metric[<<"device", n, d>>].outcome = "failure")
           /\ metric[<<"device", n, d>>].times <= metric[<<"tick", n>>].times

(* A poller that was stopped polls no more: stop() during a tick's await   *)
(* keeps its finally from arming another.                                  *)
StaysStopped == stopped /\ tick.at = "idle" => timer = None

SignalsSound == Rooted /\ JoinsItsRead /\ Metered /\ StaysStopped
================================================================================
