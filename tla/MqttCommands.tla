------------------------------ MODULE MqttCommands ------------------------------
(***************************************************************************)
(* Commands of miot-bridge-api: the MQTT client's start and reconnections,  *)
(* the listener's subscription, each message from its delivery to its       *)
(* response, the same command over REST, and the one record every call      *)
(* leaves in the metrics.                                                   *)
(*                                                                         *)
(* The session is clean: what the broker has for us is lost with the        *)
(* connection.  QoS 1 delivers at least once: a publisher that misses its   *)
(* acknowledgement publishes the same again, and the listener cannot tell   *)
(* the copies apart.  DeviceRegistry has the client of a device, MiotSpec   *)
(* what a command resolves to, MiotDevice the call.                         *)
(***************************************************************************)
EXTENDS Naturals, FiniteSets

CONSTANTS Messages,       \* what is published, copy by copy, and REST commands
          StartupErrors,  \* MAX_STARTUP_ERRORS
          ReplaysRetained,\* the broker ignores rh: 2
          MaxDrops        \* bound: lost connections

VARIABLES mqtt,       \* the provider's client
          listener,   \* MqttListenerService: its handlers on the client and its subscription
          message,    \* message -> what it is and how far it is
          calls,      \* history: message -> calls to the device it led to
          records,    \* history: message -> what miot.client.call.duration holds of it
          drops

vars == <<mqtt, listener, message, calls, records, drops>>

NoMessage == [at |-> "none", retain |-> FALSE, rest |-> FALSE, what |-> "none", reply |-> "none", notified |-> FALSE]

Init ==
  /\ mqtt \in {[at |-> s, connected |-> FALSE, bootstrapped |-> FALSE, errors |-> 0] : s \in {"disabled", "up"}}
  /\ listener = [started |-> FALSE, handlers |-> 0, asking |-> FALSE, subscribed |-> FALSE, refused |-> FALSE]
  /\ message = [m \in Messages |-> NoMessage]
  /\ calls = [m \in Messages |-> 0]
  /\ records = [m \in Messages |-> 0]
  /\ drops = 0

Goes(m, stage) == message' = [message EXCEPT ![m].at = stage]

----------------------------------------------------------------------------
(* MqttClientProvider *)

\* MUTANT: the message handler is added where the subscription is renewed.
ListenWithHandler(l) ==
  IF l.started THEN [l EXCEPT !.asking = TRUE, !.refused = FALSE, !.handlers = @ + 1] ELSE l

\* Every connect renews the subscription, once the listener has started.
Listen(l) == IF l.started THEN [l EXCEPT !.asking = TRUE, !.refused = FALSE] ELSE l

\* The first connect resolves the bootstrap promise.
Connect ==
  /\ mqtt.at = "up" /\ ~mqtt.connected
  /\ mqtt' = [mqtt EXCEPT !.connected = TRUE, !.bootstrapped = TRUE]
  /\ listener' = Listen(listener)
  /\ UNCHANGED <<message, calls, records, drops>>

\* Errors count until the first connect only: the last of them ends the client.
ConnectError ==
  /\ mqtt.at = "up" /\ ~mqtt.connected /\ ~mqtt.bootstrapped
  /\ mqtt' = [mqtt EXCEPT !.errors = @ + 1, !.at = IF mqtt.errors + 1 >= StartupErrors THEN "failed" ELSE @]
  /\ UNCHANGED <<listener, message, calls, records, drops>>

Drop ==
  /\ mqtt.connected /\ drops < MaxDrops
  /\ drops' = drops + 1
  /\ mqtt' = [mqtt EXCEPT !.connected = FALSE]
  /\ listener' = [listener EXCEPT !.asking = FALSE, !.subscribed = FALSE, !.refused = FALSE]
  /\ UNCHANGED <<message, calls, records>>

\* endAsync.
End ==
  /\ mqtt.at = "up" /\ mqtt.bootstrapped
  /\ mqtt' = [mqtt EXCEPT !.at = "ended", !.connected = FALSE]
  /\ listener' = [listener EXCEPT !.asking = FALSE, !.subscribed = FALSE]
  /\ UNCHANGED <<message, calls, records, drops>>

----------------------------------------------------------------------------
(* MqttListenerService *)

\* $onInit, once the client is there: one handler, and a subscription now, for the connect that made the
\* client has gone by; without a connection it is asked for at the next.
Start ==
  /\ ~listener.started /\ mqtt.bootstrapped /\ mqtt.at = "up"
  /\ listener' = [listener EXCEPT !.started = TRUE, !.handlers = 1, !.asking = mqtt.connected]
  /\ UNCHANGED <<mqtt, message, calls, records, drops>>

\* The broker's answer; one that ignores rh: 2 sends what it retained.
Subscribed ==
  /\ listener.asking
  /\ \/ /\ listener' = [listener EXCEPT !.asking = FALSE, !.subscribed = TRUE]
        /\ message' = [m \in Messages |->
                         IF ReplaysRetained /\ message[m].retain /\ message[m].at \in {"lost", "answered", "ignored"}
                         THEN [message[m] EXCEPT !.at = "replayed"] ELSE message[m]]
     \/ /\ listener' = [listener EXCEPT !.asking = FALSE, !.refused = ~listener.subscribed]
        /\ UNCHANGED message
  /\ UNCHANGED <<mqtt, calls, records, drops>>

\* What a message on a device's command topic holds; "foreign" is any other topic.
Contents == {"command", "unresolved", "unknown device", "malformed", "invalid", "empty", "foreign"}

\* The topic of a command, or none.
CommandTopic(what) == what # "foreign"

\* Someone publishes: delivered to the subscription, if there is one.
Publish(m) ==
  /\ message[m].at = "none"
  /\ \E retain \in BOOLEAN, what \in Contents :
       message' = [message EXCEPT ![m] =
                     [at |-> IF listener.subscribed /\ CommandTopic(what) THEN "delivered" ELSE "lost",
                      retain |-> retain, rest |-> FALSE, what |-> what, reply |-> "none", notified |-> FALSE]]
  /\ UNCHANGED <<mqtt, listener, calls, records, drops>>

\* QoS 1: the copy of a message whose publisher missed the acknowledgement, at any time after it.
Redeliver(m, of) ==
  /\ message[m].at = "none" /\ message[of].at # "none" /\ ~message[of].rest
  /\ message' = [message EXCEPT ![m] =
                    [message[of] EXCEPT !.at = IF listener.subscribed /\ CommandTopic(message[of].what) THEN "delivered" ELSE "lost",
                                        !.reply = "none", !.notified = FALSE]]
  /\ UNCHANGED <<mqtt, listener, calls, records, drops>>

\* MUTANT: what the broker retained is run like any other message.
DeliverReplayed(m) ==
  /\ message[m].at \in {"delivered", "replayed"}
  /\ Goes(m, IF message[m].what = "empty" THEN "ignored" ELSE "taken")
  /\ UNCHANGED <<mqtt, listener, calls, records, drops>>

\* 'message': a replay is ignored; every handler on the client takes the rest, an empty one to no effect.
Deliver(m) ==
  /\ message[m].at \in {"delivered", "replayed"}
  /\ Goes(m, IF message[m].at = "replayed" \/ message[m].what = "empty" THEN "ignored" ELSE "taken")
  /\ UNCHANGED <<mqtt, listener, calls, records, drops>>

\* handleMessage: what does not parse or validate is answered with the error.
Parse(m) ==
  /\ message[m].at = "taken"
  /\ message' = [message EXCEPT ![m] = IF @.what \in {"malformed", "invalid"}
                                       THEN [@ EXCEPT !.at = "responding", !.reply = "error"]
                                       ELSE [@ EXCEPT !.at = "resolving"]]
  /\ UNCHANGED <<mqtt, listener, calls, records, drops>>

\* CommandHandler: a command by REST.
Request(m) ==
  /\ message[m].at = "none"
  /\ \E what \in {"command", "unresolved", "unknown device"} :
       message' = [message EXCEPT ![m] = [NoMessage EXCEPT !.rest = TRUE, !.what = what, !.at = "resolving"]]
  /\ UNCHANGED <<mqtt, listener, calls, records, drops>>

----------------------------------------------------------------------------
(* DeviceCommandService.execute *)

\* What the sender is told; a REST command is told at once.
Reply(m, reply, notified) ==
  message' = [message EXCEPT ![m] = [@ EXCEPT !.reply = reply, !.notified = notified,
                                              !.at = IF message[m].rest THEN "answered" ELSE "responding"]]

\* The device, its overrides or its specification cannot be read: answered as any error is, and neither
\* called nor recorded.
StorageFails(m) ==
  /\ message[m].at = "resolving"
  /\ Reply(m, "unavailable", FALSE)
  /\ UNCHANGED <<mqtt, listener, calls, records, drops>>

\* The document is not there: no call, nothing recorded.
NotFound(m) ==
  /\ message[m].at = "resolving" /\ message[m].what = "unknown device"
  /\ Reply(m, "error", FALSE)
  /\ UNCHANGED <<mqtt, listener, calls, records, drops>>

\* resolveOrRecordRejection: refused before anything is sent, recorded as rejected locally.
Reject(m) ==
  /\ message[m].at = "resolving" /\ message[m].what = "unresolved"
  /\ Reply(m, "error", FALSE)
  /\ records' = [records EXCEPT ![m] = @ + 1]
  /\ UNCHANGED <<mqtt, listener, calls, drops>>

\* As many calls as handlers took the message.
Send(m) ==
  /\ message[m].at = "resolving" /\ message[m].what = "command"
  /\ Goes(m, "calling")
  /\ calls' = [calls EXCEPT ![m] = @ + (IF message[m].rest THEN 1 ELSE listener.handlers)]
  /\ UNCHANGED <<mqtt, listener, records, drops>>

\* withMiotCallSpan: recorded as it went; a value read or written is handed to the dispatcher, an action's
\* answer has none.
Answered(m) ==
  /\ message[m].at = "calling"
  /\ \E operation \in {"GetProperty", "SetProperty", "Action"} :
       Reply(m, IF operation = "GetProperty" THEN "value" ELSE "blank", operation # "Action")
  /\ records' = [records EXCEPT ![m] = @ + 1]
  /\ UNCHANGED <<mqtt, listener, calls, drops>>

\* The device refuses or does not answer: recorded with its error.
Fails(m) ==
  /\ message[m].at = "calling"
  /\ Reply(m, "error", FALSE)
  /\ records' = [records EXCEPT ![m] = @ + 1]
  /\ UNCHANGED <<mqtt, listener, calls, drops>>

\* publishResponse: waits for a connection; a client that has ended only logs.
Respond(m) ==
  /\ message[m].at = "responding"
  /\ mqtt.connected \/ mqtt.at = "ended"
  /\ Goes(m, IF mqtt.connected THEN "answered" ELSE "undelivered")
  /\ UNCHANGED <<mqtt, listener, calls, records, drops>>

Next ==
  \/ Connect \/ ConnectError \/ Drop \/ End
  \/ Start \/ Subscribed
  \/ \E m \in Messages : Publish(m) \/ Deliver(m) \/ Parse(m) \/ Request(m)
  \/ \E m, of \in Messages : Redeliver(m, of)
  \/ \E m \in Messages : StorageFails(m) \/ NotFound(m) \/ Reject(m) \/ Send(m) \/ Answered(m) \/ Fails(m) \/ Respond(m)

Spec == Init /\ [][Next]_vars

----------------------------------------------------------------------------
(* Properties *)

\* However often the connection is lost and whatever the broker replays, each copy of a command it
\* delivers reaches the device by one call at most ("running one would actuate the device again on every
\* start and reconnect").
CalledOnce == \A m \in Messages : calls[m] <= 1

\* What was answered was called if it resolved - a copy that QoS 1 delivers again as well - and left one
\* record, whether it was refused here, by the device or not at all; an unknown device and a storage that
\* fails leave neither.  Only a command that was called may have told the dispatcher.
RecordedOnce ==
  \A m \in Messages : message[m].reply # "none" =>
    /\ message[m].reply = "unavailable" => calls[m] = 0 /\ records[m] = 0
    /\ message[m].reply # "unavailable" =>
         /\ calls[m] = (IF message[m].what = "command" THEN 1 ELSE 0)
         /\ records[m] = (IF message[m].what \in {"command", "unresolved"} THEN 1 ELSE 0)
    /\ message[m].notified => calls[m] = 1 /\ message[m].reply # "error"

\* A connected, started bridge listens, or has been refused: no reconnect leaves it healthy and deaf.
Listening ==
  mqtt.connected /\ listener.started => listener.subscribed \/ listener.asking \/ listener.refused

\* A client that has been connected once is ended by nothing but the shutdown.
ClientKept == mqtt.bootstrapped => mqtt.at \in {"up", "ended"}

CommandsOnce == CalledOnce /\ RecordedOnce /\ Listening /\ ClientKept
=============================================================================
