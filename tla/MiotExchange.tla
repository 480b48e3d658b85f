---------------------------- MODULE MiotExchange ----------------------------
(***************************************************************************)
(* One call of packages/miot-device down to its datagrams: the socket each *)
(* exchange opens, whatever comes first on it (an answer, the timer, an    *)
(* error, a failing send), the packet's checksum, and the MiotError that   *)
(* reaches the span and the metrics of miot-bridge-api after a retry.      *)
(* Encryption is what it is for: a body and its header are the device's    *)
(* own if and only if it holds the token.  The address is a DHCP lease,    *)
(* which another device may have got.  MiotDevice has the calls' order.    *)
(***************************************************************************)
EXTENDS Naturals

CONSTANTS Codes,     \* status codes a device refuses with
          None,
          MaxMoves   \* bound: times the lease moves

VARIABLES host,      \* external: who has the address: "ours", "other" or None
          call,      \* the call: its method, where it is, whether the handshake was a retry's
          socket,    \* the exchange's socket and timer, and the datagrams on their way to it
          clock,     \* whose clock the reading is: None, "ours", "other"
          outcome,   \* None until the call settles
          metric,    \* what withMiotCallSpan recorded
          told,      \* history: the answer of our device that ended the last exchange, or None
          sent,      \* history: command packets of the call
          moves

vars == <<host, call, socket, clock, outcome, metric, told, sent, moves>>

Single == {"get_properties", "set_properties"}
Methods == Single \cup {"action", "bulk"}

\* What a device may answer a command: the body's JSON, or no body at all.
Body(what) == [what |-> what, code |-> None]
Refusal(position, code) == [what |-> position, code |-> code]
Bodies == {Body(w) : w \in {"value", "empty", "garbled", "no_item"}}
            \cup {Refusal(p, c) : p \in {"error", "item"}, c \in Codes}
Closed == [open |-> FALSE, timer |-> FALSE, settled |-> TRUE, arriving |-> {}]
Opened == [open |-> TRUE, timer |-> TRUE, settled |-> FALSE, arriving |-> {}]
Error(kind, code) == [kind |-> kind, code |-> code, stampRefreshed |-> FALSE]
Done == Error("none", None)
MiotErrors ==
  [kind : {"timeout", "transport_error", "device_error"}, code : Codes \cup {None}, stampRefreshed : BOOLEAN]
NoMetric == [calls |-> 0, errorType |-> None, rejections |-> 0]

Init ==
  /\ host \in {"ours", "other"}
  /\ call = [method |-> None, at |-> "idle", fresh |-> FALSE, retried |-> FALSE]
  /\ socket = Closed
  /\ clock \in {None, "ours"}
  /\ outcome = None /\ metric = NoMetric
  /\ told = None /\ sent = 0 /\ moves = 0

-----------------------------------------------------------------------------
(* MiotError *)
TransportError == Error("transport_error", None)
PropertyError(code) == Error("device_error", code)

\* MUTANT: the retry's failure is wrapped as a new one.
AfterStampRefreshAnew(error) == [TransportError EXCEPT !.stampRefreshed = TRUE]
AfterStampRefresh(error) == [error EXCEPT !.stampRefreshed = TRUE]

\* What the span and the metrics of the bridge are told of a failure.
miotErrorType(error) == error.kind
Recorded(error) ==
  [calls |-> metric.calls + 1,
   errorType |-> IF error = None THEN None ELSE miotErrorType(error),
   rejections |-> metric.rejections +
     IF error # None /\ call.method \in Single /\ error.kind = "device_error" THEN 1 ELSE 0]

-----------------------------------------------------------------------------
(* OutgoingPacket: a command is stamped from the clock and needs the token; a hello is neither. *)
Begin(method) ==
  /\ call.at = "idle"
  /\ call' = [method |-> method, at |-> IF clock = None THEN "hello" ELSE "command",
              fresh |-> clock = None, retried |-> FALSE]
  /\ socket' = Opened
  /\ sent' = IF clock = None THEN 0 ELSE 1
  /\ UNCHANGED <<host, clock, outcome, metric, told, moves>>

Ends(result, error) ==
  /\ call' = [call EXCEPT !.at = "done"]
  /\ outcome' = result
  /\ metric' = Recorded(error)
  /\ socket' = Closed

\* The attempt failed: behind a cached reading it is made again behind a handshake.
AttemptFails(error) ==
  IF ~call.fresh
  THEN /\ call' = [call EXCEPT !.at = "hello", !.fresh = TRUE, !.retried = TRUE]
       /\ socket' = Opened
       /\ clock' = None
       /\ UNCHANGED <<outcome, metric>>
  ELSE LET failure == IF call.retried THEN AfterStampRefresh(error) ELSE error
       IN Ends(failure, failure) /\ UNCHANGED clock

\* The handshake's own failure is thrown as it is.
ExchangeFails(error) ==
  IF call.at = "hello" THEN Ends(error, error) /\ UNCHANGED clock ELSE AttemptFails(error)

\* The first event settles the promise, stops the timer and closes the socket.
TimerFires ==
  /\ socket.timer
  /\ told' = None
  /\ ExchangeFails(Error("timeout", None))
  /\ UNCHANGED <<host, sent, moves>>

SocketFails ==
  /\ ~socket.settled
  /\ told' = None
  /\ ExchangeFails(TransportError)
  /\ UNCHANGED <<host, sent, moves>>

-----------------------------------------------------------------------------
(* IncomingPacket *)
Genuine(datagram) == datagram.from = "ours"

\* parseHello: whoever has the address is believed; a packet without the magic number is not.
Hello(datagram) ==
  /\ call.at = "hello" /\ datagram \in socket.arriving
  /\ told' = None
  /\ IF datagram.body.what = "garbled"
     THEN ExchangeFails(TransportError) /\ UNCHANGED sent
     ELSE /\ clock' = datagram.from
          /\ call' = [call EXCEPT !.at = "command"]
          /\ socket' = Opened
          /\ sent' = sent + 1
          /\ UNCHANGED <<outcome, metric>>
  /\ UNCHANGED <<host, moves>>

\* Without a body nothing is verified and nothing read; with one, the checksum comes first.
Unreadable(datagram) ==
  datagram.body.what = "empty" \/ ~Genuine(datagram) \/ datagram.body.what = "garbled"

Refused(method, body) ==
  \/ body.what = "error"
  \/ method \in Single /\ body.what = "no_item"
  \/ method # "bulk" /\ body.what = "item"

Command(datagram) ==
  /\ call.at = "command" /\ datagram \in socket.arriving
  /\ told' = IF Genuine(datagram) THEN datagram.body ELSE None
  /\ IF Unreadable(datagram) THEN AttemptFails(TransportError)
     ELSE IF Refused(call.method, datagram.body) THEN AttemptFails(PropertyError(datagram.body.code))
     ELSE Ends(Done, None) /\ UNCHANGED clock
  /\ UNCHANGED <<host, sent, moves>>

-----------------------------------------------------------------------------
(* The network: who has the address answers a hello; only ours reads a command.  An answer that   *)
(* arrives twice finds the socket closed.                                                          *)
Answer(body) ==
  /\ socket.open /\ host # None /\ ~\E d \in socket.arriving : d.from = host
  /\ call.at = "hello" => body.what = "value"
  /\ call.at = "command" => host = "ours" /\ clock = "ours"
  /\ socket' = [socket EXCEPT !.arriving = @ \cup {[from |-> host, body |-> body]}]
  /\ UNCHANGED <<host, call, clock, outcome, metric, told, sent, moves>>

\* A datagram that is nobody's answer, or one that was damaged.
Stray(body) ==
  /\ socket.open
  /\ socket' = [socket EXCEPT !.arriving = @ \cup {[from |-> "other", body |-> body]}]
  /\ UNCHANGED <<host, call, clock, outcome, metric, told, sent, moves>>

LeaseMoves(to) ==
  /\ moves < MaxMoves /\ to # host
  /\ host' = to /\ moves' = moves + 1
  /\ UNCHANGED <<call, socket, clock, outcome, metric, told, sent>>

Datagrams == [from : {"ours", "other"}, body : Bodies]

Next ==
  \/ \E method \in Methods : Begin(method)
  \/ TimerFires \/ SocketFails
  \/ \E d \in Datagrams : Hello(d)
  \/ \E d \in Datagrams : Command(d)
  \/ \E body \in Bodies : Answer(body)
  \/ \E what \in {"empty", "garbled"} : Stray(Body(what))
  \/ \E to \in {"ours", "other", None} : LeaseMoves(to)

Spec == Init /\ [][Next]_vars

-----------------------------------------------------------------------------
(* "that code is the only thing that ever says why it said no" (MiotError, *)
(* line 6): whatever was lost, damaged, retried or answered by a stranger, *)
(* a settled call blames the device if and only if its last exchange was   *)
(* ended by the device's own refusal, with that code; stampRefreshed says  *)
(* if it was sent twice; a success is the device's; the metrics agree; and *)
(* no socket and no timer outlives the call.                               *)
FailureSaysWhy ==
  call.at = "done" =>
    /\ ~socket.open /\ ~socket.timer /\ metric.calls = 1
    /\ IF outcome = Done
       THEN told # None /\ ~Refused(call.method, told) /\ metric.errorType = None
       ELSE LET refused == told # None /\ Refused(call.method, told)
            IN /\ (outcome.kind = "device_error") <=> refused
               /\ outcome.code = IF refused THEN told.code ELSE None
               /\ metric.rejections = IF refused /\ call.method \in Single THEN 1 ELSE 0
               /\ outcome.stampRefreshed <=> sent = 2

TypeOK ==
  /\ call.at \in {"idle", "hello", "command", "done"}
  /\ clock \in {None, "ours", "other"} /\ host \in {None, "ours", "other"}
  /\ socket.open => socket.timer /\ ~socket.settled
  /\ sent \in 0 .. 2
=============================================================================
