---------------------------- MODULE MCMiotBridge ------------------------------
(***************************************************************************)
(* The parts of miot-bridge-api and the device clock it sends with one by  *)
(* one, for TLC: a behaviour is one of the part it starts with, and the    *)
(* other parts' variables stand still.                                     *)
(***************************************************************************)
EXTENDS DeviceClock, Sequences

CONSTANTS \* DeviceRegistry
          Requests, Ids, Addresses,
          \* MqttCommands and PollSignals
          Messages, PolledMessages, Devices,
          \* MiotExchange
          Codes,
          \* The code's settings, and the bounds on what recurs
          StartupErrors, ReplaysRetained, MaxErrors, SkipCycles,
          MaxMoves, MaxDrops, MaxTicks, MaxOverrides, MaxReads

VARIABLES part,
          host, call, socket, clock, outcome, exMetric, told, sent, exMoves,
          address, documents, client, regRequest, regMoves, late, overlapped,
          mqtt, listener, mqttMessage, calls, records, drops,
          stored, overrides, keyRequest, read, warned, reads,
          sdk, spans, sigMetric, timer, tick, traced, errors, skip, queue, pubTimer,
          sigMessage, carrier, stopped

\* Specs of two services: a switch or a fan, whose properties may repeat a type, of every constraint.
Number(n) == <<"number", n>>
Mode == <<"mode">>
Switch == <<"switch">>
Property(type, iid, constraint) ==
  [iid |-> iid, type |-> type, constraint |-> constraint,
   access |-> IF type = Mode THEN {"read", "write", "notify"} ELSE {"notify"}]
Service(type, iid, properties, actions) ==
  [iid |-> iid, type |-> type, properties |-> properties, actions |-> actions]
TwoServices(type, u, properties) ==
  <<Service(Switch, 2, properties, <<[iid |-> 1, type |-> <<"start">>, in |-> {2}]>>), Service(type, 3, <<u>>, <<>>)>>
RangeConstraint == [kind |-> "range", min |-> 0, max |-> 4, step |-> 2]
NoConstraint == [kind |-> "none"]
Constraint(type, ranged) ==
  IF ranged THEN IF type = Mode THEN RangeConstraint ELSE [kind |-> "bool"]
  ELSE IF type = Mode THEN [kind |-> "list", values |-> {Number(1)}] ELSE NoConstraint

\* A device whose types spell each other's keys: "switch-2", and in it "mode-1", beside two of "switch" and "mode".
Spelling ==
  <<Service(Switch, 2, <<Property(Mode, 1, NoConstraint), Property(Mode, 2, RangeConstraint)>>, <<>>),
    Service(Switch, 3, <<Property(Mode, 1, NoConstraint)>>, <<>>),
    Service(<<"switch", 2>>, 4, <<Property(<<"mode", 1>>, 1, RangeConstraint)>>, <<>>)>>

SpecsTried ==
  {LET first == Property(v, 1, Constraint(v, ranged))
   IN  TwoServices(type, first, IF w = <<>> THEN <<first>> ELSE <<first, Property(w, 2, Constraint(w, ranged))>>) :
     type \in {Switch, <<"fan">>}, v \in {Mode, <<"level">>}, w \in {Mode, <<>>}, ranged \in BOOLEAN}
  \cup {Spelling}
OverrideTried(key, siid, piid, values) ==
  [key |-> key, siid |-> siid, piid |-> piid, access |-> {"Write"}, values |-> values]
OverridesTried ==
  {OverrideTried(Mode, 2, 9, {Number(3)}), OverrideTried(Mode, 2, 8, {}), OverrideTried(<<"turbo">>, 7, 9, {})}

Datagram == INSTANCE MiotExchange WITH
  metric <- exMetric, moves <- exMoves

Registry == INSTANCE DeviceRegistry WITH
  request <- regRequest, moves <- regMoves

Mqtt == INSTANCE MqttCommands WITH
  message <- mqttMessage

Keys == INSTANCE MiotSpec WITH
  Specs <- SpecsTried, Overrides <- OverridesTried,
  Values <- {Number(1), Number(2), <<"boolean", 1>>},
  request <- keyRequest

Signals == INSTANCE PollSignals WITH
  Messages <- PolledMessages,
  metric <- sigMetric, message <- sigMessage

exVars == <<host, call, socket, clock, outcome, exMetric, told, sent, exMoves>>
regVars == <<address, documents, client, regRequest, regMoves, late, overlapped>>
mqttVars == <<mqtt, listener, mqttMessage, calls, records, drops>>
keyVars == <<stored, overrides, keyRequest, read, warned, reads>>
sigVars == <<sdk, spans, sigMetric, timer, tick, traced, errors, skip, queue, pubTimer,
              sigMessage, carrier, stopped>>
hostVars == <<part, vars, exVars, regVars, mqttVars, keyVars, sigVars>>

\* What is no value of a part is none of what it keeps.
ASSUME BridgeAssumption ==
  /\ None \notin Datagram!Bodies \cup Datagram!MiotErrors
  /\ None \notin Signals!Names \cup {Signals!Sender} \cup Signals!Spans \cup Signals!Waiting \cup {Signals!Empty}
  /\ None \notin {"error", "failure"}
  /\ MaxTicks \in Nat

\* A variable of a part that is not the behaviour's.
Off == "off"
ClockOff ==
  /\ now = 0 /\ back = 0 /\ forth = 0 /\ gain = 0 /\ loss = 0 /\ dev = 0 /\ reading = None
  /\ saved = None /\ wire = None /\ flight = 0 /\ latency = 0
DatagramOff ==
  /\ host = Off /\ call = Off /\ socket = Off /\ clock = Off /\ outcome = Off /\ exMetric = Off
  /\ told = Off /\ sent = Off /\ exMoves = Off
RegistryOff ==
  /\ address = Off /\ documents = Off /\ client = Off /\ regRequest = Off /\ regMoves = Off
  /\ late = Off /\ overlapped = Off
MqttOff ==
  /\ mqtt = Off /\ listener = Off /\ mqttMessage = Off /\ calls = Off /\ records = Off
  /\ drops = Off
KeysOff ==
  /\ stored = Off /\ overrides = Off /\ keyRequest = Off /\ read = Off /\ warned = Off
  /\ reads = Off
SignalsOff ==
  /\ sdk = Off /\ spans = Off /\ sigMetric = Off /\ timer = Off /\ tick = Off /\ traced = Off
  /\ errors = Off /\ skip = Off /\ queue = Off /\ pubTimer = Off /\ sigMessage = Off
  /\ carrier = Off /\ stopped = Off

ClockOnly ==
  /\ part = "DeviceClock"
  /\ UNCHANGED <<part, exVars, regVars, mqttVars, keyVars, sigVars>>
DatagramOnly ==
  /\ part = "MiotExchange"
  /\ UNCHANGED <<part, vars, regVars, mqttVars, keyVars, sigVars>>
RegistryOnly ==
  /\ part = "DeviceRegistry"
  /\ UNCHANGED <<part, vars, exVars, mqttVars, keyVars, sigVars>>
MqttOnly == part = "MqttCommands" /\ UNCHANGED <<part, vars, exVars, regVars, keyVars, sigVars>>
KeysOnly == part = "MiotSpec" /\ UNCHANGED <<part, vars, exVars, regVars, mqttVars, sigVars>>
SignalsOnly ==
  /\ part = "PollSignals"
  /\ UNCHANGED <<part, vars, exVars, regVars, mqttVars, keyVars>>

HostInit ==
  \/ part = "DeviceClock" /\ Init /\ DatagramOff /\ RegistryOff /\ MqttOff /\ KeysOff
     /\ SignalsOff
  \/ part = "MiotExchange" /\ Datagram!Init
     /\ ClockOff /\ RegistryOff /\ MqttOff /\ KeysOff /\ SignalsOff
  \/ part = "DeviceRegistry" /\ Registry!Init
     /\ ClockOff /\ DatagramOff /\ MqttOff /\ KeysOff /\ SignalsOff
  \/ part = "MqttCommands" /\ Mqtt!Init
     /\ ClockOff /\ DatagramOff /\ RegistryOff /\ KeysOff /\ SignalsOff
  \/ part = "MiotSpec" /\ Keys!Init
     /\ ClockOff /\ DatagramOff /\ RegistryOff /\ MqttOff /\ SignalsOff
  \/ part = "PollSignals" /\ Signals!Init
     /\ ClockOff /\ DatagramOff /\ RegistryOff /\ MqttOff /\ KeysOff

HostNext ==
  \/ ClockOnly /\ Tick
  \/ ClockOnly /\ DeviceGains
  \/ ClockOnly /\ LocalGains
  \/ ClockOnly /\ WallSetBack
  \/ ClockOnly /\ WallSetForward
  \/ ClockOnly /\ Hello
  \/ ClockOnly /\ Send
  \/ ClockOnly /\ Answer
  \/ ClockOnly /\ Welcomed
  \/ ClockOnly /\ Observe
  \/ ClockOnly /\ GiveUp
  \/ ClockOnly /\ Snapshot
  \/ ClockOnly /\ Restore
  \/ DatagramOnly /\ \E method \in Datagram!Methods : Datagram!Begin(method)
  \/ DatagramOnly /\ Datagram!TimerFires
  \/ DatagramOnly /\ Datagram!SocketFails
  \/ DatagramOnly /\ \E d \in Datagram!Datagrams : Datagram!Hello(d)
  \/ DatagramOnly /\ \E d \in Datagram!Datagrams : Datagram!Command(d)
  \/ DatagramOnly /\ \E body \in Datagram!Bodies : Datagram!Answer(body)
  \/ DatagramOnly /\ \E what \in {"empty", "garbled"} : Datagram!Stray(Datagram!Body(what))
  \/ DatagramOnly /\ \E to \in {"ours", "other", None} : Datagram!LeaseMoves(to)
  \/ RegistryOnly /\ \E r \in Requests : Registry!Register(r)
  \/ RegistryOnly /\ \E r \in Requests : Registry!Handshake(r)
  \/ RegistryOnly /\ \E r \in Requests : Registry!LatestInstance(r)
  \/ RegistryOnly /\ \E r \in Requests : Registry!Discover(r)
  \/ RegistryOnly /\ \E r \in Requests : Registry!Check(r)
  \/ RegistryOnly /\ \E r \in Requests : Registry!Create(r)
  \/ RegistryOnly /\ \E r \in Requests : Registry!DeleteBegin(r)
  \/ RegistryOnly /\ \E r \in Requests : Registry!ClearNotifications(r)
  \/ RegistryOnly /\ \E r \in Requests : Registry!DeleteDocument(r)
  \/ RegistryOnly /\ \E r \in Requests : Registry!Remove(r)
  \/ RegistryOnly /\ \E r \in Requests : Registry!RefuseAtOnce(r)
  \/ RegistryOnly /\ \E r \in Requests : Registry!Begin(r)
  \/ RegistryOnly /\ \E r \in Requests : Registry!RefuseRaw(r)
  \/ RegistryOnly /\ \E r \in Requests : Registry!GetOrCreate(r)
  \/ RegistryOnly /\ \E r \in Requests : Registry!Called(r)
  \/ RegistryOnly /\ \E r \in Requests : Registry!Again(r)
  \/ RegistryOnly /\ Registry!Move
  \/ MqttOnly /\ Mqtt!Connect
  \/ MqttOnly /\ Mqtt!ConnectError
  \/ MqttOnly /\ Mqtt!Drop
  \/ MqttOnly /\ Mqtt!End
  \/ MqttOnly /\ Mqtt!Start
  \/ MqttOnly /\ Mqtt!Subscribed
  \/ MqttOnly /\ \E m \in Messages : Mqtt!Publish(m)
  \/ MqttOnly /\ \E m, of \in Messages : Mqtt!Redeliver(m, of)
  \/ MqttOnly /\ \E m \in Messages : Mqtt!Deliver(m)
  \/ MqttOnly /\ \E m \in Messages : Mqtt!Parse(m)
  \/ MqttOnly /\ \E m \in Messages : Mqtt!Request(m)
  \/ MqttOnly /\ \E m \in Messages : Mqtt!StorageFails(m)
  \/ MqttOnly /\ \E m \in Messages : Mqtt!NotFound(m)
  \/ MqttOnly /\ \E m \in Messages : Mqtt!Reject(m)
  \/ MqttOnly /\ \E m \in Messages : Mqtt!Send(m)
  \/ MqttOnly /\ \E m \in Messages : Mqtt!Answered(m)
  \/ MqttOnly /\ \E m \in Messages : Mqtt!Fails(m)
  \/ MqttOnly /\ \E m \in Messages : Mqtt!Respond(m)
  \/ KeysOnly /\ Keys!CreateOverride
  \/ KeysOnly /\ Keys!DeleteOverride
  \/ KeysOnly /\ Keys!Store
  \/ KeysOnly /\ Keys!Begin
  \/ KeysOnly /\ Keys!Command
  \/ KeysOnly /\ Keys!CommandEnds
  \/ KeysOnly /\ Keys!ReadBegin
  \/ KeysOnly /\ Keys!ReadMap
  \/ KeysOnly /\ Keys!ReadEnds
  \/ SignalsOnly /\ \E ok \in BOOLEAN : Signals!Load(ok)
  \/ SignalsOnly /\ Signals!TimerFires
  \/ SignalsOnly /\ Signals!NothingDue
  \/ SignalsOnly /\ Signals!pollDueDevices
  \/ SignalsOnly /\ \E d \in Devices : Signals!pollDevice(d)
  \/ SignalsOnly /\ Signals!NotRead
  \/ SignalsOnly /\ Signals!NoKeyResolves
  \/ SignalsOnly /\ Signals!CallBegins
  \/ SignalsOnly /\ Signals!CallFails
  \/ SignalsOnly /\ Signals!PropertyRefused
  \/ SignalsOnly /\ Signals!Unchanged
  \/ SignalsOnly /\ Signals!Changed
  \/ SignalsOnly /\ Signals!Settles(TRUE)
  \/ SignalsOnly /\ \E d \in Devices : Signals!publishNext(d)
  \/ SignalsOnly /\ Signals!Offline
  \/ SignalsOnly /\ Signals!Reconnect
  \/ SignalsOnly /\ \E name \in Signals!Published, error \in BOOLEAN : Signals!Sent(name, error)
  \/ SignalsOnly /\ \E m \in PolledMessages : Signals!Consume(m)
  \/ SignalsOnly /\ \E m \in PolledMessages : Signals!Respond(m)
  \/ SignalsOnly /\ Signals!Stop
  \/ SignalsOnly /\ Signals!Shutdown
  \/ SignalsOnly /\ Signals!FlushEnds

HostSpec == HostInit /\ [][HostNext]_hostVars

-----------------------------------------------------------------------------
(* Properties *)

\* MiotClient and MiotDevice: a call's failure names what happened to it, for one exchange and its one
\* repetition after the stamp was refreshed.
FailureSaysWhy == part = "MiotExchange" => Datagram!FailureSaysWhy

\* MiotDeviceRegistry and DevicePostHandler: the pool's client is of a stored device unless its call had read
\* the document before, and a device has one document unless two registrations overlap.
RegistryAgrees == part = "DeviceRegistry" => Registry!RegistryAgrees

\* MqttListenerService: each copy the broker delivers is one command, recorded once, whatever reconnects.
CommandsOnce == part = "MqttCommands" => Mqtt!CommandsOnce

\* MiotSpecSimplifier and DeviceCommandService: a key keeps its property, and what is sent is what it meant.
CommandMeansProperty == part = "MiotSpec" => Keys!CommandMeansProperty

\* The poller's and the dispatcher's spans and metrics: every publish in its read's trace, every run counted once.
SignalsSound == part = "PollSignals" => Signals!SignalsSound
=============================================================================
