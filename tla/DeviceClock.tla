---------------------------- MODULE DeviceClock ----------------------------
(***************************************************************************)
(* DeviceClock of packages/miot-device: the estimate of a miIO device's    *)
(* uptime from which every packet takes its stamp, seen against the        *)
(* device's own clock.  Time is counted in units, Unit of them a second,   *)
(* so that the two clocks tick at different phases and an answer may be    *)
(* under way for less than a second.  Exchanges do not overlap: the queue  *)
(* of MiotDevice keeps them apart.  A reboot is MiotDevice's concern.      *)
(***************************************************************************)
EXTENDS Integers

CONSTANTS Unit,       \* time units per second
          None,       \* no reading, nothing on the wire
          MaxTime,    \* bound: local time
          MaxGain,    \* bound: how far the device's clock gains on the local one
          MaxLoss,    \* bound: how far the local clock gains on the device's
          MaxBack,    \* bound: how far the wall clock is set back
          MaxForth    \* bound: how far it is set forward

VARIABLES now,      \* performance.now()
          back,     \* how far Date.now() has been set back
          forth,    \* how far it has been set forward
          dev,      \* the device's uptime, in units
          gain,     \* history: how much the device gained on the local clock
          loss,     \* history: how much the local clock gained on the device
          reading,  \* DeviceClock.reading
          saved,    \* a StampState held elsewhere
          wire,     \* the exchange under way
          flight,   \* history variable: how long its answer has been under way
          latency   \* history variable: the longest an answer that was used had been

wireVars == <<wire, flight, latency>>
skewVars == <<back, forth, gain, loss>>
vars == <<now, dev, skewVars, reading, saved, wireVars>>

Reading == [stamp : Nat, at : Int, updatedAt : Int]
StampState == [stamp : Nat, updatedAt : Int]
Exchange == [kind : {"hello", "welcome", "packet", "answer"}, stamp : Nat]

ASSUME ClockAssumption ==
  /\ Unit \in Nat \ {0}
  /\ None \notin Reading \cup StampState \cup Exchange
  /\ MaxTime \in Nat /\ MaxGain \in Nat /\ MaxLoss \in Nat
  /\ MaxBack \in Nat /\ MaxForth \in Nat

AtLeast0(n) == IF n < 0 THEN 0 ELSE n
\* Date.now(): never 0, however far it is set back.
Wall == now + 1 + MaxBack + forth - back
Seconds == dev \div Unit

\* MUTANT: the reading's own second.
NextStampBare == reading.stamp + (AtLeast0(now - reading.at) \div Unit)

\* next(): the stamp of a packet sent now.
NextStamp == reading.stamp + (AtLeast0(now - reading.at) \div Unit) + 1

\* sync().
Sync(stamp) == reading' = [stamp |-> stamp, at |-> now, updatedAt |-> Wall]

Init ==
  /\ now = 0 /\ back = 0 /\ forth = 0 /\ gain = 0 /\ loss = 0
  /\ dev \in 0..(2 * Unit - 1)
  /\ reading = None
  /\ saved \in {None, [stamp |-> 0, updatedAt |-> 0]}
  /\ wire = None /\ flight = 0 /\ latency = 0

----------------------------------------------------------------------------

\* An answer that is under way stays so.
Flies == flight' = IF wire # None /\ wire.kind \in {"welcome", "answer"} THEN flight + 1 ELSE flight

Tick ==
  /\ now < MaxTime
  /\ now' = now + 1 /\ dev' = dev + 1
  /\ Flies
  /\ UNCHANGED <<skewVars, reading, saved, wire, latency>>

\* Local time runs slow against the device's.
DeviceGains ==
  /\ gain < MaxGain
  /\ gain' = gain + 1 /\ dev' = dev + 1
  /\ UNCHANGED <<now, back, forth, loss, reading, saved, wireVars>>

\* Local time runs fast against the device's.
LocalGains ==
  /\ now < MaxTime /\ loss < MaxLoss
  /\ loss' = loss + 1 /\ now' = now + 1
  /\ Flies
  /\ UNCHANGED <<back, forth, gain, dev, reading, saved, wire, latency>>

WallSetBack ==
  /\ back < MaxBack
  /\ back' = back + 1
  /\ UNCHANGED <<now, forth, dev, gain, loss, reading, saved, wireVars>>

WallSetForward ==
  /\ forth < MaxForth
  /\ forth' = forth + 1
  /\ UNCHANGED <<now, back, dev, gain, loss, reading, saved, wireVars>>

----------------------------------------------------------------------------
(* Exchanges *)

Hello ==
  /\ wire = None
  /\ wire' = [kind |-> "hello", stamp |-> 0]
  /\ UNCHANGED <<now, dev, skewVars, reading, saved, flight, latency>>

Send ==
  /\ wire = None /\ reading # None
  /\ wire' = [kind |-> "packet", stamp |-> NextStamp]
  /\ UNCHANGED <<now, dev, skewVars, reading, saved, flight, latency>>

\* The device reports its clock; the header of an answer may echo the packet's stamp instead.
\* A packet behind its clock it drops.
Answer ==
  /\ wire # None
  /\ \/ /\ wire.kind = "hello"
        /\ wire' = [kind |-> "welcome", stamp |-> Seconds]
     \/ /\ wire.kind = "packet" /\ wire.stamp >= Seconds
        /\ \E h \in {Seconds, wire.stamp} : wire' = [kind |-> "answer", stamp |-> h]
  /\ UNCHANGED <<now, dev, skewVars, reading, saved, flight, latency>>

\* The answer is in; how long it took is noted.
Arrived ==
  /\ wire' = None /\ flight' = 0
  /\ latency' = IF flight > latency THEN flight ELSE latency

Welcomed ==
  /\ wire # None /\ wire.kind = "welcome"
  /\ Sync(wire.stamp)
  /\ Arrived
  /\ UNCHANGED <<now, dev, skewVars, saved>>

\* MUTANT: a stamp equal to what would be sent is taken as well.
ObserveEcho ==
  /\ wire # None /\ wire.kind = "answer"
  /\ IF wire.stamp >= NextStamp THEN Sync(wire.stamp) ELSE UNCHANGED reading
  /\ Arrived
  /\ UNCHANGED <<now, dev, skewVars, saved>>

\* observe(): only a stamp ahead of what would be sent is taken.
Observe ==
  /\ wire # None /\ wire.kind = "answer"
  /\ IF wire.stamp > NextStamp THEN Sync(wire.stamp) ELSE UNCHANGED reading
  /\ Arrived
  /\ UNCHANGED <<now, dev, skewVars, saved>>

\* The exchange times out: a command's failure drops the reading, a handshake had none to use.
GiveUp ==
  /\ wire # None
  /\ wire' = None /\ flight' = 0
  /\ reading' = None
  /\ UNCHANGED <<now, dev, skewVars, saved, latency>>

----------------------------------------------------------------------------
(* StampState *)

Snapshot ==
  /\ reading # None
  /\ saved' = [stamp |-> reading.stamp, updatedAt |-> reading.updatedAt]
  /\ UNCHANGED <<now, dev, skewVars, reading, wireVars>>

\* restore(): aged by the wall clock; without a time it is ignored.
Restore ==
  /\ wire = None
  /\ saved # None /\ saved.updatedAt > 0
  /\ reading' = [stamp |-> saved.stamp, at |-> now - AtLeast0(Wall - saved.updatedAt), updatedAt |-> saved.updatedAt]
  /\ UNCHANGED <<now, dev, skewVars, saved, wireVars>>

Next ==
  \/ Tick \/ DeviceGains \/ LocalGains \/ WallSetBack \/ WallSetForward
  \/ Hello \/ Send \/ Answer \/ Welcomed \/ Observe \/ GiveUp
  \/ Snapshot \/ Restore

Spec == Init /\ [][Next]_vars

----------------------------------------------------------------------------
(* Properties *)

\* Every variable holds what the code can put in it; no reading lies in the future.
TypeOK ==
  /\ now \in Nat /\ dev \in Nat /\ gain \in Nat /\ loss \in Nat
  /\ back \in 0..MaxBack /\ forth \in Nat
  /\ reading \in Reading \cup {None}
  /\ reading # None => reading.at <= now
  /\ saved \in StampState \cup {None}
  /\ wire \in Exchange \cup {None}
  /\ flight \in Nat /\ latency \in Nat
  /\ wire # None /\ wire.kind \in {"packet", "answer"} => reading # None

\* The estimate never runs away from the device, whatever answers echo, however late they come
\* (observe: "re-basing on an echo would push the estimate one second further ahead on every call").
\* A packet is stamped at most one second ahead of what the device would show had it kept up with
\* the local clock and with the wall clock a restored reading is aged by; without a fast local clock
\* and a wall clock set forward, at most one second ahead of what it shows.
AheadBounded == reading # None => NextStamp <= ((dev + loss + forth) \div Unit) + 1

\* The other way round: a packet falls behind the device only by what the estimate cannot
\* know - how long an answer was under way, what the device gained, how far the wall clock
\* under a restored reading was set back - and by less than a second besides.  Without
\* these the + 1 of next() makes it Seconds <= NextStamp.
LagBounded ==
  reading # None => dev <= NextStamp * Unit + (Unit - 2) + latency + gain + back

\* Both bounds: next(), after any handshakes, echoes, restarts and clocks that drift or are set.
EstimateBounded == AheadBounded /\ LagBounded

\* DeviceClock: "the + 1 keeps the packet from ever being behind" the device's clock - here asked
\* only as long as every answer used was under way for less than a second.
NeverBehind == reading # None /\ latency < Unit => NextStamp >= Seconds
=============================================================================
