-------------------------- MODULE MiotBridgeProofs --------------------------
(***************************************************************************)
(* The promises of miot-bridge-api's parts and of the device clock, for    *)
(* every value of their constants, first of each part by itself and then   *)
(* of the composition MCMiotBridge.                                        *)
(*                                                                         *)
(* DeviceClock: what a reading says of the device at this moment, stamp    *)
(* plus age, is past the device by no more than the local clock gained and *)
(* the wall clock was set forward; taken in units that is an inductive     *)
(* invariant, and the whole seconds follow.  So it is below: latency, the  *)
(* device's gain and setting back of the wall clock.                       *)
(*                                                                         *)
(* DeviceRegistry: a client that disagrees with what is stored belongs to  *)
(* a request that is about to mend it.  MiotExchange: what is known while  *)
(* datagrams still arrive, of one send and of the repetition behind it.    *)
(* MqttCommands: a message is in one place on its way.  PollSignals: the   *)
(* context that each callback runs in, and the span it may open there.     *)
(* MiotSpec: a device numbers its members, so a key has one of them, and   *)
(* what was sent is what the map it was resolved by says of it.            *)
(***************************************************************************)
EXTENDS MCMiotBridge, FiniteSetTheorems, TLAPS

----------------------------------------------------------------------------
(* Whole seconds *)

\* The defining facts of whole seconds.
LEMMA DivFacts ==
  ASSUME NEW n \in Nat
  PROVE  /\ n \div Unit \in Nat
         /\ Unit * (n \div Unit) <= n
         /\ n < Unit * (n \div Unit) + Unit
  BY SMT, ClockAssumption

\* A multiple of a second that has passed is one of the seconds counted.
LEMMA DivAtLeast ==
  ASSUME NEW q \in Nat, NEW n \in Nat, q * Unit <= n
  PROVE  q <= n \div Unit
<1> DEFINE d == n \div Unit
<1>1. d \in Nat /\ n < Unit * d + Unit
  BY DivFacts
<1>2. Unit \in Nat \ {0}
  BY ClockAssumption
<1>3. SUFFICES ASSUME d < q PROVE FALSE
  BY <1>1
<1> HIDE DEF d
<1>4. d + 1 <= q
  BY <1>1, <1>3
<1>5. (d + 1) * Unit <= q * Unit
  BY <1>1, <1>2, <1>4, SMT
<1>6. (d + 1) * Unit = Unit * d + Unit
  BY <1>1, <1>2, SMT
<1> QED
  BY <1>1, <1>2, <1>5, <1>6, SMT

----------------------------------------------------------------------------
(* The inductive invariant *)

\* A reading taken at the device's stamp and grown by its age has not passed the device, but for what
\* the local clock gained on it.
InStep == reading # None => reading.stamp * Unit + (now - reading.at) <= dev + loss + forth

\* Nor has a reading aged by the wall clock, but for what that clock was set forward.
Aged(s) == s.updatedAt > 0 => /\ s.stamp * Unit <= dev
                              /\ s.stamp * Unit + (Wall - s.updatedAt) <= dev + loss + forth

\* What is on the wire is the device's own clock or at most what would be sent now.
WireInStep ==
  wire # None /\ wire.kind # "hello" =>
    \/ wire.stamp * Unit <= dev
    \/ wire.kind # "welcome" /\ wire.stamp <= NextStamp

ClockInv ==
  /\ TypeOK
  /\ InStep
  /\ reading # None => Aged(reading)
  /\ saved # None => Aged(saved)
  /\ WireInStep

\* A stamp is a number, and the one of a later moment is no smaller.
LEMMA NextStampGrows ==
  ASSUME NEW s \in Nat, NEW a \in Int, NEW n \in Int, a <= n
  PROVE  /\ s + (AtLeast0(n - a) \div Unit) + 1 \in Nat
         /\ s + (AtLeast0(n - a) \div Unit) + 1 <= s + (AtLeast0(n + 1 - a) \div Unit) + 1
<1>1. /\ AtLeast0(n - a) = n - a /\ n - a \in Nat
      /\ AtLeast0(n + 1 - a) = n + 1 - a /\ n + 1 - a \in Nat
  BY DEF AtLeast0
<1>2. /\ (n - a) \div Unit \in Nat
      /\ Unit * ((n - a) \div Unit) <= n - a
  BY <1>1, DivFacts
<1>3. (n + 1 - a) \div Unit \in Nat
  BY <1>1, DivFacts
<1>4. ((n - a) \div Unit) * Unit <= n + 1 - a
  BY <1>1, <1>2, ClockAssumption, SMT
<1>5. (n - a) \div Unit <= (n + 1 - a) \div Unit
  BY <1>1, <1>2, <1>4, DivAtLeast
<1> QED
  BY <1>1, <1>2, <1>3, <1>5

LEMMA ClockInitInv == Init => ClockInv
  BY ClockAssumption, SMT
  DEF Init, ClockInv, TypeOK, InStep, Aged, WireInStep, StampState, Reading, Exchange, Wall

\* When the device's clock, with what it is behind, gains no less than the other, what held of the
\* difference holds.
LEMMA Shift ==
  ASSUME NEW m \in Int, NEW a \in Int, NEW t \in Int, NEW u \in Int, NEW d \in Int, NEW e \in Int,
         m + (t - a) <= d, u + d <= t + e
  PROVE  m + (u - a) <= e
  OBVIOUS

\* The wall clock keeps up no better: what it is set forward counts on the other side as well.
LEMMA WallShift ==
  ASSUME NEW t \in Int, NEW u \in Int, NEW b \in Int, NEW c \in Int, NEW f \in Int, NEW g \in Int,
         NEW d \in Int, NEW e \in Int, NEW k \in Int, u + d <= t + e, b <= c
  PROVE  (u + 1 + k + g - c) + (d + f) <= (t + 1 + k + f - b) + (e + g)
  OBVIOUS

\* What the device is behind is one sum, with what the wall clock was set forward or without.
LEMMA BehindShift ==
  ASSUME NEW t \in Int, NEW u \in Int, NEW d \in Int, NEW e \in Int, NEW k \in Int, NEW l \in Int,
         NEW f \in Int, NEW g \in Int, u + d + k <= t + e + l, f <= g
  PROVE  /\ u + (d + k) <= t + (e + l)
         /\ u + (d + k + f) <= t + (e + l + g)
  OBVIOUS

\* The parts of IInv that speak of one reading or one exchange, when neither changes while
\* both clocks go on.
LEMMA ClocksAdvance ==
  ASSUME ClockInv, UNCHANGED <<reading, saved, wire>>,
         now' \in Nat, back' \in 0..MaxBack, forth' \in Nat, dev' \in Nat, gain' \in Nat, loss' \in Nat,
         flight' \in Nat, latency' \in Nat,
         now' \in {now, now + 1}, dev <= dev', now' + dev + loss <= now + dev' + loss',
         back <= back', forth <= forth'
  PROVE  ClockInv'
<1>0. /\ now \in Nat /\ dev \in Nat /\ back \in Nat /\ forth \in Nat /\ loss \in Nat
      /\ back' \in Nat /\ MaxBack \in Nat /\ Unit \in Nat
  BY ClockAssumption DEF ClockInv, TypeOK
<1>1. TypeOK'
  BY DEF ClockInv, TypeOK, Reading
<1> DEFINE low == dev + loss
           up == dev' + loss'
<1>d. /\ low \in Int /\ up \in Int /\ low + forth \in Int /\ up + forth' \in Int
      /\ low + forth = dev + loss + forth /\ up + forth' = dev' + loss' + forth'
      /\ now' + low <= now + up /\ now' + (low + forth) <= now + (up + forth')
  <2>1. /\ now \in Int /\ dev \in Int /\ loss \in Int /\ forth \in Int
        /\ now' \in Int /\ dev' \in Int /\ loss' \in Int /\ forth' \in Int
    BY <1>0
  <2>2. now' + (dev + loss) <= now + (dev' + loss')
    BY <2>1, BehindShift
  <2>3. now' + (dev + loss + forth) <= now + (dev' + loss' + forth')
    BY <2>1, BehindShift
  <2>4. /\ dev + loss \in Int /\ dev' + loss' \in Int
        /\ dev + loss + forth \in Int /\ dev' + loss' + forth' \in Int
    BY <2>1
  <2> QED
    BY <2>2, <2>3, <2>4
<1> HIDE DEF low, up
<1>2. InStep'
  <2> SUFFICES ASSUME reading # None
               PROVE reading.stamp * Unit + (now' - reading.at) <= dev' + loss' + forth'
    BY DEF InStep
  <2>1. /\ reading.stamp * Unit + (now - reading.at) <= low + forth
        /\ reading.stamp \in Nat /\ reading.at \in Int
    BY <1>d DEF ClockInv, TypeOK, InStep, Reading
  <2>2. reading.stamp * Unit \in Int
    BY <1>0, <2>1
  <2>3. now' \in Int /\ now \in Int
    BY <1>0
  <2>4. reading.stamp * Unit + (now' - reading.at) <= up + forth'
    BY <1>d, <2>1, <2>2, <2>3, Shift
  <2> QED
    BY <1>d, <2>4
<1>3. ASSUME NEW s, s.stamp \in Nat, s.updatedAt \in Int, Aged(s)
      PROVE  Aged(s)'
  <2> DEFINE m == s.stamp * Unit
             u == s.updatedAt
             w == now + 1 + MaxBack + forth - back
             x == now' + 1 + MaxBack + forth' - back'
  <2> SUFFICES ASSUME s.updatedAt > 0
               PROVE  m <= dev' /\ m + (x - u) <= dev' + loss' + forth'
    BY DEF Aged, Wall
  <2>1. m <= dev /\ m + (w - u) <= dev + loss + forth
    BY <1>3 DEF Aged, Wall
  <2>2. m \in Int /\ u \in Int /\ w \in Int /\ x \in Int
    BY <1>0, <1>3
  <2>3. x + (low + forth) <= w + (up + forth')
    <3>1. /\ now \in Int /\ back \in Int /\ forth \in Int /\ MaxBack \in Int
          /\ now' \in Int /\ back' \in Int /\ forth' \in Int
      BY <1>0
    <3>2. (now' + 1 + MaxBack + forth' - back') + (low + forth)
            <= (now + 1 + MaxBack + forth - back) + (up + forth')
      BY <1>d, <3>1, WallShift
    <3> QED
      BY <3>2
  <2> HIDE DEF m, u, w, x
  <2>4. m + (x - u) <= up + forth'
    BY <1>d, <2>1, <2>2, <2>3, Shift
  <2>5. m <= dev'
    BY <1>0, <2>1, <2>2
  <2>6. m + (x - u) <= dev' + loss' + forth'
    BY <1>d, <2>4, Zenon
  <2> QED
    BY <2>5, <2>6
<1>4. (reading # None => Aged(reading))'
  BY <1>3 DEF ClockInv, TypeOK, Reading, Aged, Wall
<1>5. (saved # None => Aged(saved))'
  BY <1>3 DEF ClockInv, TypeOK, StampState, Aged, Wall
<1>6. WireInStep'
  <2> SUFFICES ASSUME wire # None, wire.kind # "hello"
               PROVE  \/ wire.stamp * Unit <= dev'
                      \/ wire.kind # "welcome" /\ wire.stamp <= NextStamp'
    BY DEF WireInStep
  <2>1. wire.stamp \in Nat /\ dev \in Nat /\ now \in Nat
    BY DEF ClockInv, TypeOK, Exchange
  <2>2. CASE wire.stamp * Unit <= dev
    BY <1>0, <2>1, <2>2
  <2>3. CASE wire.kind # "welcome" /\ wire.stamp <= NextStamp
    <3>1. reading # None /\ reading.stamp \in Nat /\ reading.at \in Int /\ reading.at <= now
      BY <2>3 DEF ClockInv, TypeOK, Reading, Exchange
    <3>2. NextStamp \in Nat /\ NextStamp' \in Nat /\ NextStamp <= NextStamp'
      <4>1. CASE now' = now
        BY <2>1, <3>1, <4>1, NextStampGrows DEF NextStamp
      <4>2. CASE now' = now + 1
        <5>1. now + 1 \in Int /\ reading.at <= now + 1
          BY <2>1, <3>1
        <5>2. reading.stamp + (AtLeast0(now + 1 - reading.at) \div Unit) + 1 \in Nat
          BY <3>1, <5>1, NextStampGrows
        <5> QED
          BY <2>1, <3>1, <4>2, <5>2, NextStampGrows DEF NextStamp
      <4> QED
        BY <4>1, <4>2
    <3> QED
      BY <2>1, <2>3, <3>2
  <2> QED
    BY <2>2, <2>3 DEF ClockInv, WireInStep
<1> QED
  BY <1>1, <1>2, <1>4, <1>5, <1>6 DEF ClockInv

\* A reading taken now at a stamp the device has passed is in step.
LEMMA ClockSyncInv ==
  ASSUME ClockInv, NEW stamp \in Nat, stamp * Unit <= dev, Sync(stamp), Arrived,
         UNCHANGED <<now, dev, skewVars, saved>>
  PROVE  ClockInv'
<1> USE DEF skewVars
<1>1. /\ reading' = [stamp |-> stamp, at |-> now, updatedAt |-> Wall]
      /\ now \in Nat /\ back \in Nat /\ forth \in Nat /\ loss \in Nat /\ dev \in Nat /\ Wall \in Int
      /\ stamp * Unit \in Int
  BY ClockAssumption DEF Sync, ClockInv, TypeOK, Wall
<1>2. reading' \in Reading /\ reading' # None
  BY <1>1, ClockAssumption DEF Reading
<1>3. TypeOK'
  BY <1>1, <1>2 DEF ClockInv, TypeOK, Arrived
<1>4. InStep'
  BY <1>1 DEF InStep
<1>5. Aged(reading)' /\ (saved # None => Aged(saved))'
  BY <1>1 DEF ClockInv, Aged, Wall
<1> QED
  BY <1>3, <1>4, <1>5 DEF ClockInv, WireInStep, Arrived

----------------------------------------------------------------------------
(* The step *)

LEMMA ClockNextInv == ClockInv /\ [Next]_vars => ClockInv'
<1> SUFFICES ASSUME ClockInv, [Next]_vars PROVE ClockInv'
  OBVIOUS
<1> USE ClockAssumption
<1> USE DEF wireVars, skewVars
<1>0. /\ now \in Nat /\ back \in 0..MaxBack /\ back \in Nat /\ forth \in Nat /\ dev \in Nat
      /\ gain \in Nat /\ loss \in Nat /\ flight \in Nat /\ latency \in Nat /\ MaxBack \in Nat
  BY DEF ClockInv, TypeOK
<1>1. CASE Tick
  BY <1>0, <1>1, ClocksAdvance DEF Tick, Flies
<1>2. CASE DeviceGains
  BY <1>0, <1>2, ClocksAdvance DEF DeviceGains
<1>3. CASE WallSetBack
  BY <1>0, <1>3, ClocksAdvance DEF WallSetBack
<1>13. CASE WallSetForward
  BY <1>0, <1>13, ClocksAdvance DEF WallSetForward
<1>14. CASE LocalGains
  BY <1>0, <1>14, ClocksAdvance DEF LocalGains, Flies
<1>4. CASE UNCHANGED vars
  BY <1>0, <1>4, ClocksAdvance DEF vars
<1>5. CASE Hello
  <2>1. wire' = [kind |-> "hello", stamp |-> 0] /\ wire' \in Exchange
    BY <1>5 DEF Hello, Exchange
  <2> QED
    BY <1>5, <2>1 DEF Hello, ClockInv, TypeOK, InStep, Aged, Wall, WireInStep
<1>6. CASE Send
  <2>1. reading # None /\ reading.stamp \in Nat /\ reading.at \in Int /\ reading.at <= now
    BY <1>6 DEF Send, ClockInv, TypeOK, Reading
  <2>2. NextStamp \in Nat
    BY <1>0, <2>1, NextStampGrows DEF NextStamp
  <2>3. wire' = [kind |-> "packet", stamp |-> NextStamp] /\ wire' \in Exchange /\ wire' # None
    BY <1>6, <2>2 DEF Send, Exchange
  <2>4. NextStamp' = NextStamp
    BY <1>6 DEF Send, NextStamp
  <2>5. WireInStep'
    BY <2>2, <2>3, <2>4 DEF WireInStep
  <2>6. TypeOK'
    BY <1>6, <2>1, <2>3 DEF Send, ClockInv, TypeOK
  <2> QED
    BY <1>6, <2>5, <2>6 DEF Send, ClockInv, InStep, Aged, Wall
<1>7. CASE Answer
  <2>1. Seconds \in Nat /\ Seconds * Unit <= dev
    BY <1>0, DivFacts DEF Seconds
  <2>2. wire # None /\ wire \in Exchange
    BY <1>7 DEF Answer, ClockInv, TypeOK
  <2>3. PICK k \in {"welcome", "answer"}, h \in {Seconds, wire.stamp} :
          /\ wire' = [kind |-> k, stamp |-> h]
          /\ k = "welcome" => h = Seconds
          /\ k = "answer" => wire.kind = "packet"
    BY <1>7 DEF Answer
  <2>4. wire' \in Exchange /\ wire' # None
    BY <2>1, <2>2, <2>3 DEF Exchange
  <2>5. UNCHANGED <<now, dev, skewVars, reading, saved, flight, latency>> /\ NextStamp' = NextStamp
    BY <1>7 DEF Answer, NextStamp
  <2>6. WireInStep'
    <3>1. CASE h = Seconds
      BY <2>1, <2>3, <2>5, <3>1 DEF WireInStep
    <3>2. CASE h = wire.stamp /\ k = "answer"
      BY <2>2, <2>3, <2>5, <3>2 DEF ClockInv, WireInStep
    <3> QED
      BY <2>3, <3>1, <3>2
  <2>7. TypeOK'
    <3>1. wire'.kind = k /\ (k = "answer" => reading # None)
      BY <2>2, <2>3 DEF ClockInv, TypeOK
    <3>2. wire' # None /\ wire'.kind \in {"packet", "answer"} => reading # None
      BY <3>1
    <3> QED
      BY <2>4, <2>5, <3>2 DEF ClockInv, TypeOK
  <2> QED
    BY <2>5, <2>6, <2>7 DEF ClockInv, InStep, Aged, Wall
<1>8. CASE Welcomed
  <2>1. wire.stamp \in Nat /\ wire.stamp * Unit <= dev
    BY <1>8 DEF Welcomed, ClockInv, TypeOK, Exchange, WireInStep
  <2> QED
    BY <1>8, <2>1, ClockSyncInv DEF Welcomed
<1>9. CASE Observe
  <2>1. wire.stamp \in Nat
    BY <1>9 DEF Observe, ClockInv, TypeOK, Exchange
  <2>2. CASE wire.stamp > NextStamp
    <3>1. reading # None /\ reading.stamp \in Nat /\ reading.at \in Int /\ reading.at <= now
      BY <1>9 DEF Observe, ClockInv, TypeOK, Reading
    <3>2. NextStamp \in Nat
      BY <1>0, <3>1, NextStampGrows DEF NextStamp
    <3>3. wire.stamp * Unit <= dev
      BY <1>9, <2>1, <2>2, <3>2 DEF Observe, ClockInv, WireInStep
    <3> QED
      BY <1>9, <2>1, <2>2, <3>3, ClockSyncInv DEF Observe
  <2>3. CASE ~(wire.stamp > NextStamp)
    <3>1. /\ UNCHANGED <<now, dev, skewVars, reading, saved>> /\ wire' = None
          /\ flight' \in Nat /\ latency' \in Nat
      BY <1>0, <1>9, <2>3 DEF Observe, Arrived
    <3> QED
      BY <3>1 DEF ClockInv, TypeOK, InStep, Aged, Wall, WireInStep
  <2> QED
    BY <2>2, <2>3
<1>10. CASE GiveUp
  BY <1>10 DEF GiveUp, ClockInv, TypeOK, InStep, Aged, Wall, WireInStep
<1>11. CASE Snapshot
  <2>1. reading \in Reading /\ saved' = [stamp |-> reading.stamp, updatedAt |-> reading.updatedAt]
    BY <1>11 DEF Snapshot, ClockInv, TypeOK
  <2>2. saved' \in StampState
    BY <2>1 DEF Reading, StampState
  <2>3. Aged(saved)'
    BY <1>11, <2>1 DEF Snapshot, ClockInv, Aged, Wall
  <2> QED
    BY <1>11, <2>2, <2>3 DEF Snapshot, ClockInv, TypeOK, InStep, Aged, Wall, WireInStep, NextStamp
<1>12. CASE Restore
  <2>1. /\ saved # None /\ saved.stamp \in Nat /\ saved.updatedAt \in Int /\ saved.updatedAt > 0
        /\ wire = None /\ UNCHANGED <<now, dev, skewVars, saved, wireVars>>
        /\ Aged(saved)
    BY <1>12 DEF Restore, ClockInv, TypeOK, StampState
  <2> DEFINE age == AtLeast0(Wall - saved.updatedAt)
             m == saved.stamp * Unit
  <2>2. /\ age \in Nat /\ m \in Int /\ Wall - saved.updatedAt \in Int
        /\ m + age <= dev + loss + forth
    <3>1. m \in Int /\ Wall - saved.updatedAt \in Int
      BY <1>0, <2>1 DEF Wall
    <3>2. m <= dev /\ m + (Wall - saved.updatedAt) <= dev + loss + forth
      BY <2>1 DEF Aged
    <3> HIDE DEF m
    <3> QED
      BY <1>0, <3>1, <3>2 DEF AtLeast0
  <2>3. reading' = [stamp |-> saved.stamp, at |-> now - age, updatedAt |-> saved.updatedAt]
    BY <1>12 DEF Restore
  <2> HIDE DEF age
  <2>4. reading' \in Reading /\ reading' # None /\ reading'.at <= now
    BY <1>0, <2>1, <2>2, <2>3 DEF Reading
  <2>5. reading'.stamp * Unit + (now - reading'.at) <= dev + loss + forth
    <3>1. reading'.stamp * Unit = m /\ now - reading'.at = age
      BY <1>0, <2>2, <2>3
    <3> QED
      BY <2>2, <3>1
  <2>6. Aged(reading)' /\ Aged(saved)'
    BY <2>1, <2>3 DEF Aged, Wall
  <2> QED
    BY <2>1, <2>4, <2>5, <2>6 DEF ClockInv, TypeOK, InStep, WireInStep
<1> QED
  BY <1>1, <1>2, <1>3, <1>4, <1>5, <1>6, <1>7, <1>8, <1>9, <1>10, <1>11, <1>12, <1>13, <1>14 DEF Next

\* In step by units, the whole seconds cannot be more than one ahead.
LEMMA ClockInvAhead == ClockInv => AheadBounded
<1> DEFINE past == dev + loss + forth
<1> SUFFICES ASSUME ClockInv, reading # None PROVE NextStamp <= (past \div Unit) + 1
  BY DEF AheadBounded
<1> USE ClockAssumption
<1> DEFINE age == now - reading.at
           q == reading.stamp + (age \div Unit)
<1>1. /\ reading.stamp \in Nat /\ reading.at \in Int /\ now \in Nat /\ past \in Nat
      /\ age \in Nat /\ AtLeast0(now - reading.at) = age
      /\ reading.stamp * Unit + age <= past
  BY DEF ClockInv, TypeOK, InStep, Reading, AtLeast0
<1> HIDE DEF past
<1>2. /\ age \div Unit \in Nat
      /\ Unit * (age \div Unit) <= age
  BY <1>1, DivFacts
<1>3. q \in Nat /\ q * Unit <= past
  BY <1>1, <1>2, SMT
<1>4. q <= past \div Unit
  BY <1>1, <1>3, DivAtLeast
<1>5. NextStamp = q + 1
  BY <1>1 DEF NextStamp
<1>6. past \div Unit \in Nat
  BY <1>1, DivFacts
<1> QED
  BY <1>3, <1>4, <1>5, <1>6

----------------------------------------------------------------------------
(***************************************************************************)
(* The other bound.  The device is past what a reading says of it by less  *)
(* than a second, plus what the reading cannot know: how long its answer   *)
(* was under way, what the device gained, how far the wall clock went back.*)
(***************************************************************************)

Lag(stamp, age) == dev <= stamp * Unit + (Unit - 1) + age + latency + gain + back

ReadingLag == reading # None => Lag(reading.stamp, now - reading.at)
WallLag(s) == s.updatedAt > 0 => Lag(s.stamp, Wall - s.updatedAt)
WireLag == wire # None /\ wire.kind = "welcome" => dev <= wire.stamp * Unit + (Unit - 1) + flight + gain
Unanswered == wire # None /\ wire.kind \in {"hello", "packet"} => flight = 0

LagInv ==
  /\ ReadingLag
  /\ reading # None => WallLag(reading)
  /\ saved # None => WallLag(saved)
  /\ WireLag
  /\ Unanswered
  /\ wire = None => flight = 0

\* What is whole of an age is at least the age less a second.
LEMMA LagInSeconds ==
  ASSUME NEW s \in Nat, NEW age \in Nat
  PROVE  s * Unit + (Unit - 1) + age <= (s + (age \div Unit) + 1) * Unit + (Unit - 2)
<1> DEFINE d == age \div Unit
<1>1. d \in Nat /\ age < Unit * d + Unit
  BY DivFacts
<1>2. Unit \in Nat
  BY ClockAssumption
<1> HIDE DEF d
<1>3. (s + d + 1) * Unit = s * Unit + Unit * d + Unit /\ s * Unit \in Int /\ Unit * d \in Int
  BY <1>1, <1>2, SMT
<1> QED
  BY <1>1, <1>2, <1>3 DEF d

\* ReadingLag is LagBounded, in units.
LEMMA LagOfNext == ClockInv /\ ReadingLag => LagBounded
<1> SUFFICES ASSUME ClockInv, ReadingLag, reading # None
             PROVE  dev <= NextStamp * Unit + (Unit - 2) + latency + gain + back
  BY DEF LagBounded
<1> DEFINE age == now - reading.at
<1>1. /\ reading.stamp \in Nat /\ age \in Nat /\ AtLeast0(now - reading.at) = age
      /\ dev \in Nat /\ latency \in Nat /\ gain \in Nat /\ back \in Nat /\ Unit \in Nat
  BY ClockAssumption DEF ClockInv, TypeOK, Reading, AtLeast0
<1>2. dev <= reading.stamp * Unit + (Unit - 1) + age + latency + gain + back
  BY DEF ReadingLag, Lag
<1>3. NextStamp = reading.stamp + (age \div Unit) + 1
  BY <1>1 DEF NextStamp
<1> HIDE DEF age
<1>4. reading.stamp * Unit + (Unit - 1) + age <= NextStamp * Unit + (Unit - 2)
  BY <1>1, <1>3, LagInSeconds
<1>5. age \div Unit \in Nat
  BY <1>1, DivFacts
<1>6. reading.stamp * Unit \in Int /\ NextStamp * Unit \in Int
  BY <1>1, <1>3, <1>5, SMT
<1> QED
  BY <1>1, <1>2, <1>4, <1>6

\* The bound after the clocks have gone on: of a reading aged by the local clock, of one aged
\* by the wall clock, of an answer under way, and after a longer latency was seen.
LEMMA LocalSum ==
  ASSUME NEW m \in Int, NEW r \in Int, NEW l \in Int, NEW d \in Int, NEW e \in Int, NEW n \in Int,
         NEW o \in Int, NEW g \in Int, NEW h \in Int, NEW b \in Int, NEW c \in Int,
         d <= m + (n - r) + l + g + b, e + n + g <= d + o + h, b <= c
  PROVE  e <= m + (o - r) + l + h + c
  OBVIOUS

LEMMA WallGains ==
  ASSUME NEW d \in Int, NEW e \in Int, NEW n \in Int, NEW o \in Int, NEW g \in Int, NEW h \in Int,
         NEW b \in Int, NEW c \in Int, NEW k \in Int, NEW f \in Int, NEW j \in Int,
         e + n + g <= d + o + h, f <= j
  PROVE  e + (n + 1 + k + f - b) + (g + b) <= d + (o + 1 + k + j - c) + (h + c)
  OBVIOUS

LEMMA WallAges ==
  ASSUME NEW m \in Int, NEW r \in Int, NEW l \in Int, NEW w \in Int, NEW x \in Int,
         NEW d \in Int, NEW e \in Int, NEW g \in Int, NEW h \in Int, e + w + g <= d + x + h
  PROVE  e + (m + (w - r) + l) + g <= d + (m + (x - r) + l) + h
  OBVIOUS

LEMMA WallSum ==
  ASSUME NEW y \in Int, NEW z \in Int, NEW d \in Int, NEW e \in Int, NEW g \in Int, NEW h \in Int,
         d <= y + g, e + y + g <= d + z + h
  PROVE  e <= z + h
  OBVIOUS

LEMMA WireSum ==
  ASSUME NEW m \in Int, NEW d \in Int, NEW e \in Int, NEW f \in Int, NEW p \in Int,
         NEW g \in Int, NEW h \in Int, d <= m + f + g, e + f + g <= d + p + h
  PROVE  e <= m + p + h
  OBVIOUS

LEMMA LatencySum ==
  ASSUME NEW m \in Int, NEW a \in Int, NEW d \in Int, NEW l \in Int, NEW k \in Int,
         NEW g \in Int, NEW b \in Int, d <= m + a + l + g + b, l <= k
  PROVE  d <= m + a + k + g + b
  OBVIOUS

LEMMA FlightSum ==
  ASSUME NEW m \in Int, NEW d \in Int, NEW f \in Int, NEW k \in Int, NEW g \in Int, NEW b \in Nat,
         d <= m + f + g, f <= k
  PROVE  d <= m + k + g + b
  OBVIOUS

LEMMA AheadSum ==
  ASSUME NEW m \in Int, NEW k \in Int, NEW u \in Int, NEW d \in Int, NEW l \in Int, NEW j \in Int,
         NEW g \in Int, NEW b \in Int, m <= k, d <= m + (u - 2) + l + g + b, l <= j
  PROVE  d <= k + (u - 1) + j + g + b
  OBVIOUS

\* The clocks going on, the device by no more than the local time and the gain tell.
LEMMA ClocksLag ==
  ASSUME ClockInv, ClockInv', LagInv, UNCHANGED <<reading, saved, wire, latency>>,
         dev' + now + gain <= dev + now' + gain', back <= back', forth <= forth',
         wire # None /\ wire.kind = "welcome" => dev' + flight + gain <= dev + flight' + gain',
         wire = None \/ wire.kind \in {"hello", "packet"} => flight' = flight
  PROVE  LagInv'
<1>0. /\ now \in Int /\ back \in Int /\ dev \in Int /\ gain \in Int /\ flight \in Int /\ latency \in Int
      /\ now' \in Int /\ back' \in Int /\ dev' \in Int /\ gain' \in Int /\ flight' \in Int
      /\ forth \in Int /\ forth' \in Int /\ MaxBack \in Int /\ Unit \in Int
  BY ClockAssumption DEF ClockInv, TypeOK
<1>1. ReadingLag'
  <2> SUFFICES ASSUME reading # None
               PROVE  dev' <= reading.stamp * Unit + (Unit - 1) + (now' - reading.at) + latency + gain' + back'
    BY DEF ReadingLag, Lag
  <2> DEFINE m == reading.stamp * Unit + (Unit - 1)
  <2>1. reading.stamp \in Int /\ reading.at \in Int
    BY DEF ClockInv, TypeOK, Reading
  <2>2. m \in Int
    BY <1>0, <2>1
  <2>3. dev <= m + (now - reading.at) + latency + gain + back
    BY DEF LagInv, ReadingLag, Lag
  <2> HIDE DEF m
  <2>4. dev' <= m + (now' - reading.at) + latency + gain' + back'
    BY <1>0, <2>1, <2>2, <2>3, LocalSum
  <2> QED
    BY <2>4 DEF m
<1>2. ASSUME NEW s, s.stamp \in Int, s.updatedAt \in Int, WallLag(s) PROVE WallLag(s)'
  <2> SUFFICES ASSUME s.updatedAt > 0
               PROVE  dev' <= s.stamp * Unit + (Unit - 1) + ((now' + 1 + MaxBack + forth' - back') - s.updatedAt) + latency + gain' + back'
    BY DEF WallLag, Lag, Wall
  <2> DEFINE m == s.stamp * Unit + (Unit - 1)
             a == s.updatedAt
  <2>1. m \in Int /\ a \in Int
    BY <1>0, <1>2
  <2>2. dev <= m + ((now + 1 + MaxBack + forth - back) - a) + latency + gain + back
    BY <1>2 DEF WallLag, Lag, Wall
  <2> HIDE DEF m, a
  <2>3. dev' <= m + ((now' + 1 + MaxBack + forth' - back') - a) + latency + gain' + back'
    <3> DEFINE w == now + 1 + MaxBack + forth - back
               x == now' + 1 + MaxBack + forth' - back'
    <3>1. w \in Int /\ x \in Int
      BY <1>0
    <3>2. dev' + w + (gain + back) <= dev + x + (gain' + back')
      BY <1>0, WallGains
    <3> HIDE DEF w, x
    <3> DEFINE y == m + (w - a) + latency
               z == m + (x - a) + latency
               g == gain + back
               h == gain' + back'
    <3>3. y \in Int /\ z \in Int /\ g \in Int /\ h \in Int
      BY <1>0, <2>1, <3>1
    <3>4. dev' + y + g <= dev + z + h
      BY <1>0, <2>1, <3>1, <3>2, <3>3, WallAges
    <3>5. dev <= y + g
      BY <1>0, <2>2, <3>3 DEF w
    <3> HIDE DEF y, z, g, h
    <3>6. dev' <= z + h
      BY <1>0, <3>3, <3>4, <3>5, WallSum
    <3>7. z + h = z + gain' + back'
      BY <1>0, <3>3 DEF h
    <3> QED
      BY <3>6, <3>7 DEF x, z
  <2> QED
    BY <2>3 DEF m, a
<1>3. (reading # None => WallLag(reading))'
  <2> SUFFICES ASSUME reading # None PROVE WallLag(reading)'
    OBVIOUS
  <2>1. reading.stamp \in Int /\ reading.updatedAt \in Int /\ WallLag(reading)
    BY DEF LagInv, ClockInv, TypeOK, Reading
  <2> QED
    BY <1>2, <2>1 DEF WallLag, Lag, Wall
<1>4. (saved # None => WallLag(saved))'
  <2> SUFFICES ASSUME saved # None PROVE WallLag(saved)'
    OBVIOUS
  <2>1. saved.stamp \in Int /\ saved.updatedAt \in Int /\ WallLag(saved)
    BY DEF LagInv, ClockInv, TypeOK, StampState
  <2> QED
    BY <1>2, <2>1 DEF WallLag, Lag, Wall
<1>5. WireLag'
  <2> SUFFICES ASSUME wire # None, wire.kind = "welcome"
               PROVE  dev' <= wire.stamp * Unit + (Unit - 1) + flight' + gain'
    BY DEF WireLag
  <2> DEFINE m == wire.stamp * Unit + (Unit - 1)
  <2>1. m \in Int
    BY <1>0 DEF ClockInv, TypeOK, Exchange
  <2>2. dev <= m + flight + gain
    BY DEF LagInv, WireLag
  <2> HIDE DEF m
  <2>3. dev' <= m + flight' + gain'
    BY <1>0, <2>1, <2>2, WireSum
  <2> QED
    BY <2>3 DEF m
<1>6. Unanswered' /\ (wire = None => flight = 0)'
  BY DEF LagInv, Unanswered
<1> QED
  BY <1>1, <1>3, <1>4, <1>5, <1>6 DEF LagInv

\* A reading taken now, of a stamp whose second lies no further back than its answer was
\* under way.
LEMMA SyncLag ==
  ASSUME ClockInv, ClockInv', LagInv, NEW stamp \in Nat, Sync(stamp), Arrived,
         UNCHANGED <<now, dev, skewVars, saved>>,
         dev <= stamp * Unit + (Unit - 1) + latency' + gain + back
  PROVE  LagInv'
<1> USE DEF skewVars
<1>0. /\ now \in Int /\ back \in Int /\ dev \in Int /\ gain \in Int /\ latency \in Int /\ latency' \in Int
      /\ forth \in Int /\ MaxBack \in Int /\ Unit \in Int /\ latency <= latency'
  BY ClockAssumption DEF ClockInv, TypeOK, Arrived
<1>1. reading' = [stamp |-> stamp, at |-> now, updatedAt |-> Wall] /\ wire' = None /\ flight' = 0
  BY DEF Sync, Arrived
<1>2. ReadingLag' /\ WallLag(reading)'
  <2>1. now - now = 0 /\ Wall - Wall = 0
    BY <1>0 DEF Wall
  <2> DEFINE m == stamp * Unit + (Unit - 1)
  <2>2. m \in Int /\ m + 0 = m
    BY <1>0
  <2>3. dev <= m + 0 + latency' + gain + back
    BY <2>2
  <2> QED
    BY <1>1, <2>1, <2>3 DEF ReadingLag, WallLag, Lag, Wall, m
<1>3. (saved # None => WallLag(saved))'
  <2> SUFFICES ASSUME saved # None, saved.updatedAt > 0
               PROVE  dev <= saved.stamp * Unit + (Unit - 1) + (Wall - saved.updatedAt) + latency' + gain + back
    BY DEF WallLag, Lag, Wall
  <2> DEFINE m == saved.stamp * Unit + (Unit - 1)
             age == Wall - saved.updatedAt
  <2>1. m \in Int /\ age \in Int
    BY <1>0 DEF ClockInv, TypeOK, StampState, Wall
  <2>2. dev <= m + age + latency + gain + back
    BY DEF LagInv, WallLag, Lag
  <2> HIDE DEF m, age
  <2>3. dev <= m + age + latency' + gain + back
    BY <1>0, <2>1, <2>2, LatencySum
  <2> QED
    BY <2>3 DEF m, age
<1> QED
  BY <1>1, <1>2, <1>3 DEF LagInv, WireLag, Unanswered

LEMMA ClockLagInit == Init => LagInv
<1> SUFFICES ASSUME Init PROVE LagInv
  OBVIOUS
<1>1. reading = None /\ wire = None /\ flight = 0 /\ (saved # None => saved.updatedAt = 0)
  BY ClockAssumption DEF Init
<1> QED
  BY <1>1 DEF LagInv, ReadingLag, WallLag, WireLag, Unanswered

LEMMA ClockLagStep == ClockInv /\ ClockInv' /\ LagInv /\ [Next]_vars => LagInv'
<1> SUFFICES ASSUME ClockInv, ClockInv', LagInv, [Next]_vars PROVE LagInv'
  OBVIOUS
<1> USE DEF wireVars, skewVars
<1>0. /\ now \in Int /\ back \in Int /\ dev \in Int /\ latency \in Int /\ flight \in Int /\ gain \in Int
      /\ now \in Nat /\ dev \in Nat /\ gain \in Nat /\ flight \in Nat /\ latency \in Nat
      /\ back \in Nat /\ forth \in Nat /\ forth \in Int /\ loss \in Nat /\ Unit \in Nat \ {0}
      /\ MaxBack \in Int
  BY ClockAssumption DEF ClockInv, TypeOK
<1>1. CASE Tick
  BY <1>0, <1>1, ClocksLag DEF Tick, Flies
<1>2. CASE DeviceGains
  BY <1>0, <1>2, ClocksLag DEF DeviceGains
<1>3. CASE WallSetBack
  BY <1>0, <1>3, ClocksLag DEF WallSetBack
<1>12. CASE WallSetForward
  BY <1>0, <1>12, ClocksLag DEF WallSetForward
<1>13. CASE LocalGains
  BY <1>0, <1>13, ClocksLag DEF LocalGains, Flies
<1>4. CASE UNCHANGED vars
  BY <1>0, <1>4, ClocksLag DEF vars
<1>5. CASE Hello \/ Send
  <2>1. /\ wire = None /\ wire'.kind \in {"hello", "packet"}
        /\ UNCHANGED <<now, dev, skewVars, reading, saved, flight, latency>>
    BY <1>5 DEF Hello, Send
  <2>2. flight' = 0
    BY <2>1 DEF LagInv
  <2> QED
    BY <2>1, <2>2 DEF LagInv, ReadingLag, WallLag, Lag, Wall, WireLag, Unanswered
<1>6. CASE Answer
  <2>1. /\ wire # None /\ wire.kind \in {"hello", "packet"} /\ wire' # None
        /\ wire'.kind \in {"welcome", "answer"}
        /\ wire'.kind = "welcome" => wire'.stamp = Seconds
        /\ UNCHANGED <<now, dev, skewVars, reading, saved, flight, latency>>
    <3>1. wire # None /\ UNCHANGED <<now, dev, skewVars, reading, saved, flight, latency>>
      BY <1>6 DEF Answer
    <3>2. PICK k \in {"welcome", "answer"}, h \in {Seconds, wire.stamp} :
            /\ wire' = [kind |-> k, stamp |-> h]
            /\ wire.kind \in {"hello", "packet"}
            /\ k = "welcome" => h = Seconds
      BY <1>6 DEF Answer
    <3>3. wire' \in Exchange
      BY <1>0, <3>1, <3>2, DivFacts DEF Exchange, Seconds, ClockInv, TypeOK
    <3> QED
      BY <3>1, <3>2, <3>3, ClockAssumption
  <2>2. flight' = 0
    BY <2>1 DEF LagInv, Unanswered
  <2>3. dev <= Seconds * Unit + (Unit - 1)
    <3>1. Seconds \in Nat /\ dev < Unit * Seconds + Unit
      BY <1>0, DivFacts DEF Seconds
    <3>2. Unit * Seconds = Seconds * Unit /\ Seconds * Unit \in Int
      BY <1>0, <3>1
    <3> QED
      BY <1>0, <3>1, <3>2
  <2>4. WireLag'
    <3> DEFINE m == Seconds * Unit + (Unit - 1)
    <3>1. m \in Int
      BY <1>0, DivFacts DEF Seconds
    <3> HIDE DEF m
    <3>2. dev <= m + 0 + gain
      BY <1>0, <2>3, <3>1 DEF m
    <3> QED
      BY <2>1, <2>2, <3>2 DEF WireLag, m
  <2> QED
    BY <2>1, <2>2, <2>4 DEF LagInv, ReadingLag, WallLag, Lag, Wall, Unanswered
<1>7. CASE Welcomed
  <2>1. wire.stamp \in Nat /\ dev <= wire.stamp * Unit + (Unit - 1) + flight + gain
    BY <1>7 DEF Welcomed, ClockInv, TypeOK, Exchange, LagInv, WireLag
  <2>2. latency' \in Int /\ flight <= latency'
    BY <1>0, <1>7 DEF Welcomed, Arrived
  <2> DEFINE m == wire.stamp * Unit + (Unit - 1)
  <2>3. m \in Int /\ dev <= m + flight + gain
    BY <1>0, <2>1
  <2> HIDE DEF m
  <2>4. dev <= m + latency' + gain + back
    BY <1>0, <2>2, <2>3, FlightSum
  <2> QED
    BY <1>7, <2>1, <2>4, SyncLag DEF Welcomed, m
<1>8. CASE Observe
  <2>1. wire.stamp \in Nat /\ reading # None
    BY <1>8 DEF Observe, ClockInv, TypeOK, Exchange
  <2>2. latency' \in Int /\ latency <= latency' /\ Unit \in Int
    BY <1>0, <1>8 DEF Observe, Arrived
  <2>3. CASE wire.stamp > NextStamp
    <3>1. NextStamp \in Nat
      BY <1>0, <2>1, NextStampGrows DEF NextStamp, ClockInv, TypeOK, Reading
    <3>2. dev <= NextStamp * Unit + (Unit - 2) + latency + gain + back
      BY <2>1, LagOfNext DEF LagInv, LagBounded
    <3>3. NextStamp * Unit <= wire.stamp * Unit
      <4> HIDE DEF NextStamp
      <4> QED
        BY <1>0, <2>1, <2>3, <3>1, SMT
    <3>4. dev <= wire.stamp * Unit + (Unit - 1) + latency' + gain + back
      <4> DEFINE m == NextStamp * Unit
                 k == wire.stamp * Unit
      <4>1. m \in Int /\ k \in Int
        BY <1>0, <2>1, <3>1
      <4> HIDE DEF m, k
      <4>2. m <= k /\ dev <= m + (Unit - 2) + latency + gain + back
        BY <3>2, <3>3 DEF m, k
      <4>3. dev <= k + (Unit - 1) + latency' + gain + back
        BY <1>0, <2>2, <4>1, <4>2, AheadSum
      <4> QED
        BY <4>3 DEF k
    <3> QED
      BY <1>8, <2>1, <2>3, <3>4, SyncLag DEF Observe
  <2>4. CASE ~(wire.stamp > NextStamp)
    <3>1. /\ UNCHANGED <<now, dev, skewVars, reading, saved>>
          /\ wire' = None /\ flight' = 0
      BY <1>8, <2>4 DEF Observe, Arrived
    <3>2. ASSUME NEW s \in Int, NEW a \in Int, Lag(s, a) PROVE Lag(s, a)'
      <4> DEFINE m == s * Unit + (Unit - 1)
      <4>1. m \in Int /\ dev <= m + a + latency + gain + back
        BY <1>0, <3>2 DEF Lag
      <4>3. a \in Int /\ dev \in Int /\ latency \in Int /\ gain \in Int /\ back \in Int
        BY <1>0, <3>2
      <4> HIDE DEF m
      <4>2. dev <= m + a + latency' + gain + back
        BY <2>2, <4>1, <4>3, LatencySum
      <4> QED
        BY <3>1, <4>2 DEF Lag, m
    <3>3. Wall \in Int /\ Wall' = Wall
      BY <1>0, <3>1 DEF Wall
    <3>4. ReadingLag'
      <4>1. reading.stamp \in Int /\ now - reading.at \in Int /\ Lag(reading.stamp, now - reading.at)
        BY <1>0, <2>1 DEF LagInv, ReadingLag, ClockInv, TypeOK, Reading
      <4>2. Lag(reading.stamp, now - reading.at)'
        BY <3>1, <3>2, <4>1 DEF Lag
      <4> QED
        BY <4>2 DEF ReadingLag
    <3>5. ASSUME NEW s, s.stamp \in Int, s.updatedAt \in Int, WallLag(s) PROVE WallLag(s)'
      <4> SUFFICES ASSUME s.updatedAt > 0 PROVE Lag(s.stamp, Wall - s.updatedAt)'
        BY DEF WallLag
      <4>1. Wall - s.updatedAt \in Int /\ Lag(s.stamp, Wall - s.updatedAt)
        BY <3>3, <3>5 DEF WallLag
      <4> QED
        BY <3>1, <3>2, <3>3, <3>5, <4>1 DEF Lag
    <3>6. WallLag(reading)' /\ (saved # None => WallLag(saved))'
      BY <2>1, <3>1, <3>3, <3>5 DEF LagInv, WallLag, Lag, ClockInv, TypeOK, Reading, StampState
    <3> QED
      BY <3>1, <3>4, <3>6 DEF LagInv, WireLag, Unanswered
  <2> QED
    BY <2>3, <2>4
<1>9. CASE GiveUp
  BY <1>9 DEF GiveUp, LagInv, ReadingLag, WallLag, Lag, Wall, WireLag, Unanswered
<1>10. CASE Snapshot
  <2>1. saved' = [stamp |-> reading.stamp, updatedAt |-> reading.updatedAt] /\ reading # None
    BY <1>10 DEF Snapshot
  <2>2. WallLag(saved)'
    BY <1>10, <2>1 DEF Snapshot, LagInv, WallLag, Lag, Wall
  <2> QED
    BY <1>10, <2>2 DEF Snapshot, LagInv, ReadingLag, WallLag, Lag, Wall, WireLag, Unanswered
<1>11. CASE Restore
  <2> DEFINE age == AtLeast0(Wall - saved.updatedAt)
             m == saved.stamp * Unit + (Unit - 1)
             w == Wall - saved.updatedAt
  <2>1. /\ saved # None /\ saved.updatedAt > 0 /\ saved.stamp \in Nat /\ saved.updatedAt \in Int
        /\ UNCHANGED <<now, dev, skewVars, saved, wireVars>>
        /\ reading' = [stamp |-> saved.stamp, at |-> now - age, updatedAt |-> saved.updatedAt]
    BY <1>11 DEF Restore, ClockInv, TypeOK, StampState
  <2>2. m \in Int /\ w \in Int /\ dev <= m + w + latency + gain + back
    BY <1>0, <2>1 DEF LagInv, WallLag, Lag, Wall
  <2>3. age \in Int /\ w <= age
    BY <2>2 DEF AtLeast0
  <2>4. now - (now - age) = age
    BY <1>0, <2>3
  <2> HIDE DEF age, m, w
  <2>5. dev <= m + age + latency + gain + back
    BY <1>0, <2>2, <2>3
  <2>6. ReadingLag'
    BY <2>1, <2>4, <2>5 DEF ReadingLag, Lag, m
  <2>7. WallLag(reading)' /\ WallLag(saved)'
    BY <2>1 DEF LagInv, WallLag, Lag, Wall
  <2> QED
    BY <2>1, <2>6, <2>7 DEF LagInv, WireLag, Unanswered
<1> QED
  BY <1>1, <1>2, <1>3, <1>4, <1>5, <1>6, <1>7, <1>8, <1>9, <1>10, <1>11, <1>12, <1>13 DEF Next

----------------------------------------------------------------------------
(* Theorems *)

\* DeviceClock keeps to its types: no reading is taken in the future, and a packet is only
\* ever sent with one.
THEOREM ClockTypeCorrect == Spec => []TypeOK
<1>1. ClockInv => TypeOK
  BY DEF ClockInv
<1> QED
  BY <1>1, ClockInitInv, ClockNextInv, PTL DEF Spec

\* next(), observe() and restore(): the stamp of a packet is at most one second ahead of the
\* device, but for what the local clock gained on it and the wall clock was set forward, and
\* behind it by no more than latency, the device's gain and the setting back of the wall clock
\* with less than a second - for every latency, however long the device echoes.
THEOREM StampBounded == Spec => []EstimateBounded
<1>1. ClockInv /\ LagInv => EstimateBounded
  BY ClockInvAhead, LagOfNext DEF LagInv, EstimateBounded
<1> QED
  BY <1>1, ClockInitInv, ClockNextInv, ClockLagInit, ClockLagStep, PTL DEF Spec

-----------------------------------------------------------------------------
(***************************************************************************)
(* DeviceRegistry: for any number of requests, documents and addresses.    *)
(***************************************************************************)

\* Where a request of each kind may be.
RegistryStages == {"idle", "handshake", "spec", "check", "create", "notifications", "document", "client", "read",
           "calling", "done"}
RegistryResults == {"none", "timeout", "refused", "discovered", "conflict", "created", "notfound", "error", "deleted",
            "answered"}
RegistryRequestStates == [kind : Registry!Kinds \cup {"none"}, at : RegistryStages, id : Ids \cup {None},
                  address : Addresses \cup {None}, result : RegistryResults]

RegistryTypeInv ==
  /\ address \in Addresses
  /\ documents \in [Ids -> Addresses \cup {None}]
  /\ client \in [id : Ids \cup {None}, address : Addresses \cup {None}] \cup {None}
  /\ regRequest \in [Requests -> RegistryRequestStates]
  /\ regMoves \in Nat /\ late \in BOOLEAN /\ overlapped \in BOOLEAN

\* Registrations past the check and documents are at most one together, until two overlap.
RegistryOneOf ==
  /\ \A i, j \in Registry!Stored : i = j
  /\ \A q, r \in Requests : Registry!At(q, "register", "create") /\ Registry!At(r, "register", "create") => q = r
  /\ \A q \in Requests : Registry!At(q, "register", "create") => Registry!Stored = {}

RegistryInv == RegistryTypeInv /\ Registry!ClientOfDocument /\ (~overlapped => RegistryOneOf)

\* A handler's step leaves its request one of the records the handlers keep.
LEMMA RegistryStageTyped ==
  ASSUME RegistryTypeInv, NEW r \in Requests, NEW stage \in RegistryStages, NEW result \in RegistryResults
  PROVE  /\ Registry!Goes(r, stage) => regRequest' \in [Requests -> RegistryRequestStates]
         /\ Registry!Ends(r, result) => regRequest' \in [Requests -> RegistryRequestStates]
<1>1. /\ [regRequest[r] EXCEPT !.at = stage] \in RegistryRequestStates
      /\ [regRequest[r] EXCEPT !.at = "done", !.result = result] \in RegistryRequestStates
  BY DEF RegistryTypeInv, RegistryRequestStates, RegistryStages
<1> QED
  BY <1>1 DEF RegistryTypeInv, Registry!Goes, Registry!Ends

\* A request that stays out of a deletion's last step and of "create" disturbs nothing.
LEMMA RegistryHarmless ==
  ASSUME RegistryInv, NEW r \in Requests, regRequest' \in [Requests -> RegistryRequestStates],
         UNCHANGED <<documents, client, late, overlapped>>, address' \in Addresses, regMoves' \in Nat,
         \A q \in Requests \ {r} : regRequest'[q] = regRequest[q],
         Registry!At(r, "delete", "client") => Registry!At(r, "delete", "client")',
         Registry!At(r, "register", "create")' => Registry!At(r, "register", "create")
  PROVE  RegistryInv'
<1>1. RegistryTypeInv'
  BY DEF RegistryInv, RegistryTypeInv
<1>2. Registry!Stored' = Registry!Stored
  BY DEF Registry!Stored
<1>3. \A q \in Requests : Registry!At(q, "delete", "client") => Registry!At(q, "delete", "client")'
  BY DEF Registry!At
<1>4. \A q \in Requests : Registry!At(q, "register", "create")' => Registry!At(q, "register", "create")
  BY DEF Registry!At
<1>5. Registry!ClientOfDocument'
  BY <1>2, <1>3 DEF RegistryInv, Registry!ClientOfDocument
<1>6. (~overlapped => RegistryOneOf)'
  BY <1>2, <1>4 DEF RegistryInv, RegistryOneOf
<1> QED
  BY <1>1, <1>5, <1>6 DEF RegistryInv

\* A fresh process has no document, no client and no request.
LEMMA RegistryInitInv == Registry!Init => RegistryInv
<1> SUFFICES ASSUME Registry!Init PROVE RegistryInv
  OBVIOUS
<1>1. Registry!NoRequest \in RegistryRequestStates
  BY DEF Registry!NoRequest, RegistryRequestStates, RegistryStages, RegistryResults
<1>2. RegistryTypeInv
  BY <1>1 DEF Registry!Init, RegistryTypeInv
<1>3. Registry!ClientOfDocument
  BY DEF Registry!Init, Registry!ClientOfDocument
<1>4. Registry!Stored = {}
  BY DEF Registry!Init, Registry!Stored
<1>5. \A q \in Requests : ~Registry!At(q, "register", "create")
  BY DEF Registry!Init, Registry!At, Registry!NoRequest
<1> QED
  BY <1>2, <1>3, <1>4, <1>5 DEF RegistryInv, RegistryOneOf

----------------------------------------------------------------------------
\* A request that begins: registration, deletion and call handlers start from a fresh record.
LEMMA RegistryStartInv ==
  ASSUME RegistryInv, NEW r \in Requests,
         Registry!Register(r) \/ Registry!DeleteBegin(r) \/ Registry!RefuseAtOnce(r) \/ Registry!Begin(r) \/ Registry!Again(r)
  PROVE  RegistryInv'
<1>1. UNCHANGED <<address, documents, client, regMoves, late, overlapped>>
  BY DEF Registry!Register, Registry!DeleteBegin, Registry!RefuseAtOnce, Registry!Begin, Registry!Again
<1>2. \A q \in Requests \ {r} : regRequest'[q] = regRequest[q]
  BY DEF Registry!Register, Registry!DeleteBegin, Registry!RefuseAtOnce, Registry!Begin, Registry!Again, RegistryInv, RegistryTypeInv
<1>3. DOMAIN regRequest' = Requests /\ regRequest' = [q \in Requests |-> regRequest'[q]]
  BY DEF Registry!Register, Registry!DeleteBegin, Registry!RefuseAtOnce, Registry!Begin, Registry!Again, RegistryInv, RegistryTypeInv
<1> DEFINE Fresh == regRequest'[r] \in RegistryRequestStates /\ regRequest'[r].at # "create"
<1>4. Fresh
  <2> regRequest \in [Requests -> RegistryRequestStates]
    BY DEF RegistryInv, RegistryTypeInv
  <2>1. CASE Registry!Register(r)
    <3>1. PICK a \in Addresses :
            regRequest' = [regRequest EXCEPT ![r] = [Registry!NoRequest EXCEPT !.kind = "register", !.at = "handshake", !.address = a]]
      BY <2>1 DEF Registry!Register
    <3>2. regRequest'[r] = [kind |-> "register", at |-> "handshake", id |-> None, address |-> a, result |-> "none"]
      BY <3>1 DEF Registry!NoRequest
    <3> QED
      BY <3>2 DEF RegistryRequestStates, RegistryStages, RegistryResults, Registry!Kinds
  <2>2. CASE Registry!DeleteBegin(r)
    <3>1. PICK i \in Ids : LET found == Registry!FindById(i)
                           IN  regRequest' = [regRequest EXCEPT ![r] = [Registry!NoRequest EXCEPT !.kind = "delete", !.id = i,
                                 !.at = IF found = None THEN "done" ELSE "notifications",
                                 !.result = IF found = None THEN "notfound" ELSE "none"]]
      BY <2>2 DEF Registry!DeleteBegin
    <3>2. regRequest'[r] = [kind |-> "delete", id |-> i, address |-> None,
                         at |-> IF Registry!FindById(i) = None THEN "done" ELSE "notifications",
                         result |-> IF Registry!FindById(i) = None THEN "notfound" ELSE "none"]
      BY <3>1 DEF Registry!NoRequest
    <3> QED
      BY <3>2 DEF RegistryRequestStates, RegistryStages, RegistryResults, Registry!Kinds
  <2>3. CASE Registry!RefuseAtOnce(r)
    <3>1. regRequest'[r] = [kind |-> "raw", at |-> "done", id |-> None, address |-> None, result |-> "refused"]
      BY <2>3 DEF Registry!RefuseAtOnce, Registry!NoRequest
    <3> QED
      BY <3>1 DEF RegistryRequestStates, RegistryStages, RegistryResults, Registry!Kinds
  <2>4. CASE Registry!Begin(r)
    <3>1. PICK i \in Registry!FindByDeviceId \cup {Registry!FindById(j) : j \in Ids} :
            regRequest' = [regRequest EXCEPT ![r] = IF i = None THEN [Registry!NoRequest EXCEPT !.kind = "raw", !.at = "done", !.result = "notfound"]
                                         ELSE [Registry!NoRequest EXCEPT !.kind = "raw", !.at = "read", !.id = i, !.address = documents[i]]]
      BY <2>4 DEF Registry!Begin
    <3>2. CASE i = None
      <4>1. regRequest'[r] = [kind |-> "raw", at |-> "done", id |-> None, address |-> None, result |-> "notfound"]
        BY <3>1, <3>2 DEF Registry!NoRequest
      <4> QED
        BY <4>1 DEF RegistryRequestStates, RegistryStages, RegistryResults, Registry!Kinds
    <3>3. CASE i # None
      <4>1. i \in Ids
        BY <3>3 DEF Registry!FindByDeviceId, Registry!FindById, Registry!Stored
      <4>2. documents[i] \in Addresses \cup {None}
        BY <4>1 DEF RegistryInv, RegistryTypeInv
      <4>3. regRequest'[r] = [kind |-> "raw", at |-> "read", id |-> i, address |-> documents[i], result |-> "none"]
        BY <3>1, <3>3 DEF Registry!NoRequest
      <4> QED
        BY <4>1, <4>2, <4>3 DEF RegistryRequestStates, RegistryStages, RegistryResults, Registry!Kinds
    <3> QED
      BY <3>2, <3>3
  <2>5. CASE Registry!Again(r)
    <3>1. regRequest'[r] = [kind |-> "none", at |-> "idle", id |-> None, address |-> None, result |-> "none"]
      BY <2>5 DEF Registry!Again, Registry!NoRequest
    <3> QED
      BY <3>1 DEF RegistryRequestStates, RegistryStages, RegistryResults
  <2> QED
    BY <2>1, <2>2, <2>3, <2>4, <2>5
<1>5. regRequest' \in [Requests -> RegistryRequestStates]
  <2>1. \A q \in Requests : regRequest'[q] \in RegistryRequestStates
    BY <1>2, <1>4 DEF RegistryInv, RegistryTypeInv
  <2> QED
    BY <1>3, <2>1
<1>6. ~Registry!At(r, "delete", "client")
  BY DEF Registry!Register, Registry!DeleteBegin, Registry!RefuseAtOnce, Registry!Begin, Registry!Again, Registry!At
<1>7. ~Registry!At(r, "register", "create")'
  BY <1>4 DEF Registry!At
<1> QED
  BY <1>1, <1>2, <1>5, <1>6, <1>7, RegistryHarmless DEF RegistryInv, RegistryTypeInv

\* The handlers' steps that write neither a document nor the client, nor pass the check.
LEMMA RegistryQuietInv ==
  ASSUME RegistryInv, NEW r \in Requests,
         \/ Registry!Handshake(r) \/ Registry!LatestInstance(r) \/ Registry!Discover(r) \/ Registry!ClearNotifications(r) \/ Registry!RefuseRaw(r) \/ Registry!Called(r)
  PROVE  RegistryInv'
<1>1. UNCHANGED <<address, documents, client, regMoves, late, overlapped>>
  BY DEF Registry!Handshake, Registry!LatestInstance, Registry!Discover, Registry!ClearNotifications, Registry!RefuseRaw, Registry!Called
<1>2. ~Registry!At(r, "delete", "client")
  BY DEF Registry!Handshake, Registry!LatestInstance, Registry!Discover, Registry!ClearNotifications, Registry!RefuseRaw, Registry!Called, Registry!At
<1>3. \/ \E stage \in RegistryStages \ {"create"} : Registry!Goes(r, stage)
      \/ \E result \in RegistryResults : Registry!Ends(r, result)
  <2>1. CASE Registry!Handshake(r)
    <3>1. Registry!Goes(r, "spec") \/ Registry!Ends(r, "timeout")
      BY <2>1 DEF Registry!Handshake
    <3> QED
      BY <3>1 DEF RegistryStages, RegistryResults
  <2>2. CASE Registry!LatestInstance(r)
    <3>1. Registry!Goes(r, "check") \/ Registry!Ends(r, "refused")
      BY <2>2 DEF Registry!LatestInstance
    <3> QED
      BY <3>1 DEF RegistryStages, RegistryResults
  <2>3. CASE Registry!Discover(r)
    <3>1. Registry!Ends(r, "discovered")
      BY <2>3 DEF Registry!Discover
    <3> QED
      BY <3>1 DEF RegistryResults
  <2>4. CASE Registry!ClearNotifications(r)
    <3>1. Registry!Goes(r, "document") \/ Registry!Ends(r, "error")
      BY <2>4 DEF Registry!ClearNotifications
    <3> QED
      BY <3>1 DEF RegistryStages, RegistryResults
  <2>5. CASE Registry!RefuseRaw(r)
    <3>1. Registry!Ends(r, "refused")
      BY <2>5 DEF Registry!RefuseRaw
    <3> QED
      BY <3>1 DEF RegistryResults
  <2>6. CASE Registry!Called(r)
    <3>1. Registry!Ends(r, "answered") \/ Registry!Ends(r, "timeout")
      BY <2>6 DEF Registry!Called
    <3> QED
      BY <3>1 DEF RegistryResults
  <2> QED
    BY <2>1, <2>2, <2>3, <2>4, <2>5, <2>6
<1>4. regRequest' \in [Requests -> RegistryRequestStates]
  <2>1. "done" \in RegistryStages /\ "none" \in RegistryResults
    BY DEF RegistryStages, RegistryResults
  <2> QED
    BY <1>3, <2>1, RegistryStageTyped DEF RegistryInv
<1>5. \A q \in Requests \ {r} : regRequest'[q] = regRequest[q]
  BY <1>3 DEF Registry!Goes, Registry!Ends, RegistryInv, RegistryTypeInv
<1>6. regRequest'[r].at # "create"
  <2>1. regRequest \in [Requests -> RegistryRequestStates]
    BY DEF RegistryInv, RegistryTypeInv
  <2>2. ASSUME NEW stage \in RegistryStages \ {"create"}, Registry!Goes(r, stage) PROVE regRequest'[r].at = stage
    BY <2>1, <2>2 DEF Registry!Goes, RegistryRequestStates
  <2>3. ASSUME NEW result \in RegistryResults, Registry!Ends(r, result) PROVE regRequest'[r].at = "done"
    BY <2>1, <2>3 DEF Registry!Ends, RegistryRequestStates
  <2> QED
    BY <1>3, <2>2, <2>3
<1>7. ~Registry!At(r, "register", "create")'
  BY <1>6 DEF Registry!At
<1> QED
  BY <1>1, <1>2, <1>4, <1>5, <1>7, RegistryHarmless DEF RegistryInv, RegistryTypeInv

\* The 409 check: who passes it beside another past it is an overlap.
LEMMA RegistryCheckInv ==
  ASSUME RegistryInv, NEW r \in Requests, Registry!Check(r)
  PROVE  RegistryInv'
<1>1. Registry!At(r, "register", "check") /\ UNCHANGED <<address, documents, client, regMoves, late>>
  BY DEF Registry!Check
<1>2. Registry!Stored' = Registry!Stored
  BY <1>1 DEF Registry!Stored
<1>3. CASE Registry!Stored # {}
  <2>1. Registry!Ends(r, "conflict") /\ UNCHANGED overlapped
    BY <1>3 DEF Registry!Check
  <2>2. regRequest' \in [Requests -> RegistryRequestStates]
    BY <2>1, RegistryStageTyped DEF RegistryInv, RegistryStages, RegistryResults
  <2>3. regRequest'[r].at = "done" /\ \A q \in Requests \ {r} : regRequest'[q] = regRequest[q]
    BY <2>1 DEF Registry!Ends, RegistryInv, RegistryTypeInv, RegistryRequestStates
  <2>4. ~Registry!At(r, "register", "create")' /\ ~Registry!At(r, "delete", "client")
    BY <1>1, <2>3 DEF Registry!At
  <2> QED
    BY <1>1, <2>1, <2>2, <2>3, <2>4, RegistryHarmless DEF RegistryInv, RegistryTypeInv
<1>4. CASE Registry!Stored = {}
  <2>1. Registry!Goes(r, "create") /\ overlapped' = (overlapped \/ \E q \in Requests : Registry!At(q, "register", "create"))
    BY <1>4 DEF Registry!Check
  <2>2. regRequest' \in [Requests -> RegistryRequestStates]
    BY <2>1, RegistryStageTyped DEF RegistryInv, RegistryStages, RegistryResults
  <2>3. \A q \in Requests \ {r} : regRequest'[q] = regRequest[q]
    BY <2>1 DEF Registry!Goes, RegistryInv, RegistryTypeInv
  <2>4. overlapped' \in BOOLEAN
    BY <2>1 DEF RegistryInv, RegistryTypeInv
  <2>5. RegistryTypeInv'
    BY <1>1, <2>2, <2>4 DEF RegistryInv, RegistryTypeInv
  <2>6. \A q \in Requests : Registry!At(q, "delete", "client") => Registry!At(q, "delete", "client")'
    BY <1>1, <2>3 DEF Registry!At
  <2>7. Registry!ClientOfDocument'
    BY <1>1, <1>2, <2>6 DEF RegistryInv, Registry!ClientOfDocument
  <2>8. ASSUME ~overlapped' PROVE RegistryOneOf'
    <3>1. \A q \in Requests : ~Registry!At(q, "register", "create")
      BY <2>1, <2>8
    <3>2. \A q \in Requests : Registry!At(q, "register", "create")' => q = r
      BY <2>3, <3>1 DEF Registry!At
    <3> QED
      BY <1>2, <1>4, <3>2 DEF RegistryOneOf
  <2> QED
    BY <2>5, <2>7, <2>8 DEF RegistryInv
<1> QED
  BY <1>3, <1>4

\* The insert: alone past the check, it is the only document.
LEMMA RegistryCreateInv ==
  ASSUME RegistryInv, NEW r \in Requests, Registry!Create(r)
  PROVE  RegistryInv'
<1>1. /\ Registry!At(r, "register", "create") /\ Registry!Ends(r, "created")
      /\ UNCHANGED <<address, client, regMoves, late, overlapped>>
  BY DEF Registry!Create
<1>2. PICK i \in Ids \ Registry!Stored : documents' = [documents EXCEPT ![i] = regRequest[r].address]
  BY DEF Registry!Create
<1>3. regRequest' \in [Requests -> RegistryRequestStates] /\ regRequest[r].address \in Addresses \cup {None}
  BY <1>1, RegistryStageTyped DEF RegistryInv, RegistryTypeInv, RegistryRequestStates, RegistryStages, RegistryResults
<1>4. /\ regRequest'[r].at = "done"
      /\ \A q \in Requests \ {r} : regRequest'[q] = regRequest[q]
  BY <1>1 DEF Registry!Ends, RegistryInv, RegistryTypeInv, RegistryRequestStates
<1>5. RegistryTypeInv'
  BY <1>1, <1>2, <1>3 DEF RegistryInv, RegistryTypeInv
<1>6. Registry!Stored \subseteq Registry!Stored' /\ Registry!Stored' \subseteq Registry!Stored \cup {i}
  BY <1>2 DEF Registry!Stored, RegistryInv, RegistryTypeInv
<1>7. \A q \in Requests : Registry!At(q, "delete", "client") => Registry!At(q, "delete", "client")'
  BY <1>1, <1>4 DEF Registry!At
<1>8. Registry!ClientOfDocument'
  BY <1>1, <1>6, <1>7 DEF RegistryInv, Registry!ClientOfDocument
<1>9. ASSUME ~overlapped' PROVE RegistryOneOf'
  <2>1. RegistryOneOf
    BY <1>1, <1>9 DEF RegistryInv
  <2>2. Registry!Stored = {} /\ \A q \in Requests : Registry!At(q, "register", "create") => q = r
    BY <1>1, <2>1 DEF RegistryOneOf
  <2>3. \A q \in Requests : ~Registry!At(q, "register", "create")'
    BY <1>4, <2>2 DEF Registry!At
  <2> QED
    BY <1>6, <2>2, <2>3 DEF RegistryOneOf
<1> QED
  BY <1>5, <1>8, <1>9 DEF RegistryInv

\* deleteById: a client of the document that goes is about to be removed by this very request.
LEMMA RegistryDeleteDocumentInv ==
  ASSUME RegistryInv, NEW r \in Requests, Registry!DeleteDocument(r)
  PROVE  RegistryInv'
<1>1. Registry!At(r, "delete", "document") /\ UNCHANGED <<address, client, regMoves, late, overlapped>>
  BY DEF Registry!DeleteDocument
<1>2. CASE UNCHANGED documents /\ Registry!Ends(r, "error")
  <2>1. regRequest' \in [Requests -> RegistryRequestStates]
    BY <1>2, RegistryStageTyped DEF RegistryInv, RegistryStages, RegistryResults
  <2>2. regRequest'[r].at = "done" /\ \A q \in Requests \ {r} : regRequest'[q] = regRequest[q]
    BY <1>2 DEF Registry!Ends, RegistryInv, RegistryTypeInv, RegistryRequestStates
  <2>3. ~Registry!At(r, "register", "create")' /\ ~Registry!At(r, "delete", "client")
    BY <1>1, <2>2 DEF Registry!At
  <2> QED
    BY <1>1, <1>2, <2>1, <2>2, <2>3, RegistryHarmless DEF RegistryInv, RegistryTypeInv
<1>3. CASE documents' = [documents EXCEPT ![regRequest[r].id] = None] /\ Registry!Goes(r, "client")
  <2>1. regRequest' \in [Requests -> RegistryRequestStates]
    BY <1>3, RegistryStageTyped DEF RegistryInv, RegistryStages, RegistryResults
  <2>2. /\ regRequest'[r] = [regRequest[r] EXCEPT !.at = "client"]
        /\ \A q \in Requests \ {r} : regRequest'[q] = regRequest[q]
    BY <1>3 DEF Registry!Goes, RegistryInv, RegistryTypeInv
  <2>3. Registry!At(r, "delete", "client")' /\ ~Registry!At(r, "register", "create")'
    BY <1>1, <2>2 DEF Registry!At, RegistryInv, RegistryTypeInv, RegistryRequestStates
  <2>4. RegistryTypeInv'
    BY <1>1, <1>3, <2>1 DEF RegistryInv, RegistryTypeInv
  <2>5. Registry!Stored' \subseteq Registry!Stored
    BY <1>3 DEF Registry!Stored, RegistryInv, RegistryTypeInv
  <2>6. Registry!ClientOfDocument'
    BY <2>3 DEF Registry!ClientOfDocument
  <2>7. \A q \in Requests : Registry!At(q, "register", "create")' => Registry!At(q, "register", "create")
    BY <2>2, <2>3 DEF Registry!At
  <2>8. (~overlapped => RegistryOneOf)'
    BY <1>1, <2>5, <2>7 DEF RegistryInv, RegistryOneOf
  <2> QED
    BY <2>4, <2>6, <2>8 DEF RegistryInv
<1> QED
  BY <1>2, <1>3 DEF Registry!DeleteDocument

\* remove: whatever the client was built from, there is none.
LEMMA RegistryRemoveInv ==
  ASSUME RegistryInv, NEW r \in Requests, Registry!Remove(r)
  PROVE  RegistryInv'
<1>1. /\ Registry!At(r, "delete", "client") /\ client' = None /\ Registry!Ends(r, "deleted")
      /\ UNCHANGED <<address, documents, regMoves, late, overlapped>>
  BY DEF Registry!Remove
<1>2. regRequest' \in [Requests -> RegistryRequestStates]
  BY <1>1, RegistryStageTyped DEF RegistryInv, RegistryStages, RegistryResults
<1>3. regRequest'[r].at = "done" /\ \A q \in Requests \ {r} : regRequest'[q] = regRequest[q]
  BY <1>1 DEF Registry!Ends, RegistryInv, RegistryTypeInv, RegistryRequestStates
<1>4. RegistryTypeInv'
  BY <1>1, <1>2 DEF RegistryInv, RegistryTypeInv
<1>5. Registry!Stored' = Registry!Stored
  BY <1>1 DEF Registry!Stored
<1>6. \A q \in Requests : Registry!At(q, "register", "create")' => Registry!At(q, "register", "create")
  BY <1>3 DEF Registry!At
<1>7. (~overlapped => RegistryOneOf)'
  BY <1>1, <1>5, <1>6 DEF RegistryInv, RegistryOneOf
<1>8. Registry!ClientOfDocument'
  BY <1>1 DEF Registry!ClientOfDocument
<1> QED
  BY <1>4, <1>7, <1>8 DEF RegistryInv

\* getOrCreate: the client there is stays as it is; a new one is of a stored document, or late.
LEMMA RegistryGetOrCreateInv ==
  ASSUME RegistryInv, NEW r \in Requests, Registry!GetOrCreate(r)
  PROVE  RegistryInv'
<1> DEFINE made == [id |-> regRequest[r].id, address |-> regRequest[r].address]
<1>1. /\ Registry!At(r, "raw", "read") /\ UNCHANGED <<address, documents, regMoves, overlapped>>
      /\ client' = IF client = None THEN made ELSE client
      /\ late' = IF client = None THEN regRequest[r].id \notin Registry!Stored ELSE late
      /\ regRequest' = [regRequest EXCEPT ![r].at = "calling", ![r].address = client'.address]
  BY DEF Registry!GetOrCreate
<1>2. regRequest[r] \in RegistryRequestStates
  BY DEF RegistryInv, RegistryTypeInv
<1>3. made \in [id : Ids \cup {None}, address : Addresses \cup {None}]
  BY <1>2 DEF RegistryRequestStates
<1>4. client' \in [id : Ids \cup {None}, address : Addresses \cup {None}]
  BY <1>1, <1>3 DEF RegistryInv, RegistryTypeInv
<1>5. client'.address \in Addresses \cup {None}
  BY <1>4
<1>6. /\ regRequest'[r] = [regRequest[r] EXCEPT !.at = "calling", !.address = client'.address]
      /\ \A q \in Requests \ {r} : regRequest'[q] = regRequest[q]
  BY <1>1 DEF RegistryInv, RegistryTypeInv
<1>7. regRequest'[r] \in RegistryRequestStates
  BY <1>2, <1>5, <1>6 DEF RegistryRequestStates, RegistryStages
<1>8. regRequest' \in [Requests -> RegistryRequestStates]
  BY <1>1, <1>6, <1>7 DEF RegistryInv, RegistryTypeInv
<1>9. late' \in BOOLEAN
  BY <1>1 DEF RegistryInv, RegistryTypeInv
<1>10. RegistryTypeInv'
  BY <1>1, <1>4, <1>8, <1>9 DEF RegistryInv, RegistryTypeInv
<1>11. Registry!Stored' = Registry!Stored
  BY <1>1 DEF Registry!Stored
<1>12. \A q \in Requests : Registry!At(q, "delete", "client") => Registry!At(q, "delete", "client")'
  BY <1>1, <1>6 DEF Registry!At
<1>13. regRequest'[r].at = "calling"
  BY <1>2, <1>6 DEF RegistryRequestStates
<1>14. \A q \in Requests : Registry!At(q, "register", "create")' => Registry!At(q, "register", "create")
  BY <1>6, <1>13 DEF Registry!At
<1>15. (~overlapped => RegistryOneOf)'
  BY <1>1, <1>11, <1>14 DEF RegistryInv, RegistryOneOf
<1>16. CASE client = None
  <2>1. client'.id = regRequest[r].id /\ late' = (regRequest[r].id \notin Registry!Stored)
    BY <1>1, <1>16
  <2> QED
    BY <1>10, <1>11, <1>15, <2>1 DEF RegistryInv, Registry!ClientOfDocument
<1>17. CASE client # None
  <2>1. Registry!ClientOfDocument'
    BY <1>1, <1>11, <1>12, <1>17 DEF RegistryInv, Registry!ClientOfDocument
  <2> QED
    BY <1>10, <1>15, <2>1 DEF RegistryInv
<1> QED
  BY <1>16, <1>17

\* Another address on the LAN changes what answers, not what is stored.
LEMMA RegistryMoveInv ==
  ASSUME RegistryInv, Registry!Move
  PROVE  RegistryInv'
<1>1. UNCHANGED <<documents, client, regRequest, late, overlapped>> /\ address' \in Addresses /\ regMoves' \in Nat
  BY DEF Registry!Move, RegistryInv, RegistryTypeInv
<1>2. Registry!Stored' = Registry!Stored
  BY <1>1 DEF Registry!Stored
<1>3. \A q \in Requests : \A k \in Registry!Kinds, s \in RegistryStages : Registry!At(q, k, s)' <=> Registry!At(q, k, s)
  BY <1>1 DEF Registry!At
<1> QED
  BY <1>1, <1>2, <1>3 DEF RegistryInv, RegistryTypeInv, Registry!ClientOfDocument, RegistryOneOf, Registry!At

\* Every step of every handler keeps the invariant.
LEMMA RegistryStepInv == RegistryInv /\ [Registry!Next]_Registry!vars => RegistryInv'
<1> SUFFICES ASSUME RegistryInv, [Registry!Next]_Registry!vars PROVE RegistryInv'
  OBVIOUS
<1>1. CASE UNCHANGED Registry!vars
  BY <1>1 DEF Registry!vars, RegistryInv, RegistryTypeInv, Registry!ClientOfDocument, RegistryOneOf, Registry!Stored, Registry!At
<1>2. CASE Registry!Move
  BY <1>2, RegistryMoveInv
<1>3. ASSUME NEW r \in Requests,
             Registry!Register(r) \/ Registry!Handshake(r) \/ Registry!LatestInstance(r) \/ Registry!Discover(r) \/ Registry!Check(r) \/ Registry!Create(r)
      PROVE  RegistryInv'
  BY <1>3, RegistryStartInv, RegistryQuietInv, RegistryCheckInv, RegistryCreateInv
<1>4. ASSUME NEW r \in Requests,
             Registry!DeleteBegin(r) \/ Registry!ClearNotifications(r) \/ Registry!DeleteDocument(r) \/ Registry!Remove(r)
      PROVE  RegistryInv'
  BY <1>4, RegistryStartInv, RegistryQuietInv, RegistryDeleteDocumentInv, RegistryRemoveInv
<1>5. ASSUME NEW r \in Requests,
             Registry!RefuseAtOnce(r) \/ Registry!Begin(r) \/ Registry!RefuseRaw(r) \/ Registry!GetOrCreate(r) \/ Registry!Called(r) \/ Registry!Again(r)
      PROVE  RegistryInv'
  BY <1>5, RegistryStartInv, RegistryQuietInv, RegistryGetOrCreateInv
<1> QED
  BY <1>1, <1>2, <1>3, <1>4, <1>5 DEF Registry!Next

\* Two documents of one device come only of overlapping registrations.
LEMMA RegistryOneDocumentHolds == RegistryInv => Registry!OneDocument
<1> SUFFICES ASSUME RegistryInv, ~overlapped PROVE ~(Cardinality(Registry!Stored) > 1)
  BY DEF Registry!OneDocument, Registry!Cardinality, Cardinality
<1>1. \A i, j \in Registry!Stored : i = j
  BY DEF RegistryInv, RegistryOneOf
<1>2. CASE Registry!Stored = {}
  BY <1>2, FS_EmptySet
<1>3. CASE Registry!Stored # {}
  <2>1. PICK i \in Registry!Stored : Registry!Stored = {i}
    BY <1>1, <1>3
  <2>2. Cardinality(Registry!Stored) = 1
    BY <2>1, FS_Singleton
  <2> QED
    BY <2>2
<1> QED
  BY <1>2, <1>3

\* Documents, the client and every request are what MiotDeviceRegistry and the handlers keep.
THEOREM RegistryTypeCorrect == Registry!Spec => []RegistryTypeInv
<1>1. RegistryInv => RegistryTypeInv
  BY DEF RegistryInv
<1> QED
  BY <1>1, RegistryInitInv, RegistryStepInv, PTL DEF Registry!Spec

\* Whatever requests interleave, a client of a deleted document is about to be removed or was built
\* from a copy read before the deletion, and a second document takes overlapping registrations.
THEOREM RegistryStaysTrue == Registry!Spec => []Registry!RegistryAgrees
<1>1. RegistryInv => Registry!RegistryAgrees
  BY RegistryOneDocumentHolds DEF RegistryInv, Registry!RegistryAgrees
<1> QED
  BY <1>1, RegistryInitInv, RegistryStepInv, PTL DEF Registry!Spec
-----------------------------------------------------------------------------
(***************************************************************************)
(* MiotExchange: a call goes from a hello to a command and, once, back; it *)
(* settles from a state in which its socket is open and nothing of it has  *)
(* been recorded, and the number of commands sent tells if it was retried. *)
(***************************************************************************)
CallStates ==
  [method : Datagram!Methods \cup {None}, at : {"idle", "hello", "command", "done"},
   fresh : BOOLEAN, retried : BOOLEAN]
UnderWay == call.at \in {"hello", "command"}

ExchangeInv ==
  /\ call \in CallStates
  /\ call.retried => call.fresh
  /\ ~UnderWay => socket = Datagram!Closed
  /\ call.at # "done" => exMetric = Datagram!NoMetric
  /\ UnderWay => call.method \in Datagram!Methods
  /\ call.at = "hello" => call.fresh /\ sent = (IF call.retried THEN 1 ELSE 0)
  /\ call.at = "command" => sent = (IF call.retried THEN 2 ELSE 1)
  /\ Datagram!FailureSaysWhy

\* What the device said, if it refused.
Refusing(method, body) == body # None /\ Datagram!Refused(method, body)
Codeof(method, body) == IF Refusing(method, body) THEN body.code ELSE None

LEMMA ExchangeInit == Datagram!Init => ExchangeInv
  BY DEF Datagram!Init, ExchangeInv, CallStates, UnderWay, Datagram!FailureSaysWhy

\* The call settles with an error of its last exchange: recorded once, the socket closed.
LEMMA FailureSettles ==
  ASSUME ExchangeInv, UnderWay, NEW error \in Datagram!MiotErrors,
         error.kind = "device_error" <=> Refusing(call.method, told'),
         error.code = Codeof(call.method, told'),
         error.stampRefreshed <=> sent' = 2,
         Datagram!Ends(error, error)
  PROVE  ExchangeInv'
<1>1. /\ call' = [call EXCEPT !.at = "done"] /\ outcome' = error /\ socket' = Datagram!Closed
      /\ exMetric' = Datagram!Recorded(error)
  BY DEF Datagram!Ends
<1>2. call \in CallStates /\ exMetric = Datagram!NoMetric
  BY DEF ExchangeInv, UnderWay
<1>3. /\ call' \in CallStates /\ call'.at = "done" /\ call'.method = call.method
      /\ call'.retried = call.retried /\ call'.fresh = call.fresh
  BY <1>1, <1>2 DEF CallStates
<1>4. error # None
  BY BridgeAssumption
<1>5. exMetric' = [calls |-> 1, errorType |-> error.kind,
                   rejections |-> IF call.method \in Datagram!Single /\ error.kind = "device_error" THEN 1 ELSE 0]
  BY <1>1, <1>2, <1>4 DEF Datagram!Recorded, Datagram!NoMetric, Datagram!miotErrorType
<1>6. outcome' # Datagram!Done
  BY <1>1 DEF Datagram!Done, Datagram!Error, Datagram!MiotErrors
<1>7. Datagram!FailureSaysWhy'
  BY <1>1, <1>3, <1>5, <1>6 DEF Datagram!FailureSaysWhy, Datagram!Closed, Refusing, Codeof, Datagram!Refused
<1> QED
  BY <1>1, <1>3, <1>7 DEF ExchangeInv, UnderWay

\* An attempt that fails is made once more, behind a handshake, or its failure says that it was.
LEMMA AttemptFailsInv ==
  ASSUME ExchangeInv, call.at = "command", NEW error \in Datagram!MiotErrors, ~error.stampRefreshed, sent' = sent,
         error.kind = "device_error" <=> Refusing(call.method, told'),
         error.code = Codeof(call.method, told'),
         Datagram!AttemptFails(error)
  PROVE  ExchangeInv'
<1>1. call \in CallStates /\ UnderWay
  BY DEF ExchangeInv, UnderWay
<1>2. CASE ~call.fresh
  <2>1. /\ call' = [call EXCEPT !.at = "hello", !.fresh = TRUE, !.retried = TRUE]
        /\ UNCHANGED <<outcome, exMetric>>
    BY <1>2 DEF Datagram!AttemptFails
  <2>2. /\ call' \in CallStates /\ call'.at = "hello" /\ call'.fresh /\ call'.retried
        /\ call'.method = call.method
    BY <1>1, <2>1 DEF CallStates
  <2>3. sent = 1
    BY <1>2 DEF ExchangeInv
  <2> QED
    BY <1>1, <2>1, <2>2, <2>3 DEF ExchangeInv, UnderWay, Datagram!FailureSaysWhy
<1>3. CASE call.fresh /\ call.retried
  <2> DEFINE failure == Datagram!AfterStampRefresh(error)
  <2>1. Datagram!Ends(failure, failure)
    BY <1>3 DEF Datagram!AttemptFails
  <2>2. /\ failure \in Datagram!MiotErrors /\ failure.kind = error.kind /\ failure.code = error.code
        /\ failure.stampRefreshed
    BY DEF Datagram!AfterStampRefresh, Datagram!MiotErrors
  <2>3. sent' = 2
    BY <1>3 DEF ExchangeInv
  <2> HIDE DEF failure
  <2> QED
    BY <1>1, <2>1, <2>2, <2>3, FailureSettles
<1>4. CASE call.fresh /\ ~call.retried
  <2>1. Datagram!Ends(error, error)
    BY <1>4 DEF Datagram!AttemptFails
  <2>2. sent' = 1
    BY <1>4 DEF ExchangeInv
  <2> QED
    BY <1>1, <2>1, <2>2, FailureSettles
<1> QED
  BY <1>2, <1>3, <1>4

\* A handshake's failure is the call's own; nobody has refused anything yet.
LEMMA ExchangeFailsInv ==
  ASSUME ExchangeInv, UnderWay, NEW kind \in {"timeout", "transport_error"}, told' = None, sent' = sent,
         Datagram!ExchangeFails(Datagram!Error(kind, None))
  PROVE  ExchangeInv'
<1> DEFINE error == Datagram!Error(kind, None)
<1>1. /\ error \in Datagram!MiotErrors /\ ~error.stampRefreshed /\ error.kind # "device_error"
      /\ error.code = None
  BY DEF Datagram!Error, Datagram!MiotErrors
<1>2. ~Refusing(call.method, told') /\ Codeof(call.method, told') = None
  BY DEF Refusing, Codeof
<1>3. Datagram!ExchangeFails(error)
  OBVIOUS
<1> HIDE DEF error
<1>4. CASE call.at = "hello"
  <2>1. Datagram!Ends(error, error)
    BY <1>3, <1>4 DEF Datagram!ExchangeFails
  <2>2. sent' # 2
    BY <1>4 DEF ExchangeInv
  <2> QED
    BY <1>1, <1>2, <2>1, <2>2, FailureSettles
<1>5. CASE call.at = "command"
  <2>1. Datagram!AttemptFails(error)
    BY <1>3, <1>5 DEF Datagram!ExchangeFails
  <2> QED
    BY <1>1, <1>2, <1>5, <2>1, AttemptFailsInv
<1> QED
  BY <1>4, <1>5 DEF UnderWay

\* The answer to a hello is believed; one without the magic number fails the handshake.
LEMMA HelloInv ==
  ASSUME ExchangeInv, NEW d \in Datagram!Datagrams, Datagram!Hello(d)
  PROVE  ExchangeInv'
<1>1. call.at = "hello" /\ told' = None /\ call \in CallStates
  BY DEF Datagram!Hello, ExchangeInv
<1>2. CASE d.body.what = "garbled"
  <2>1. Datagram!ExchangeFails(Datagram!Error("transport_error", None)) /\ sent' = sent
    BY <1>2 DEF Datagram!Hello, Datagram!TransportError
  <2> QED
    BY <1>1, <2>1, ExchangeFailsInv DEF UnderWay
<1>3. CASE d.body.what # "garbled"
  <2>1. /\ call' = [call EXCEPT !.at = "command"] /\ sent' = sent + 1
        /\ UNCHANGED <<outcome, exMetric>>
    BY <1>3 DEF Datagram!Hello
  <2>2. /\ call' \in CallStates /\ call'.at = "command" /\ call'.method = call.method
        /\ call'.retried = call.retried /\ call'.fresh = call.fresh
    BY <1>1, <2>1 DEF CallStates
  <2> QED
    BY <1>1, <2>1, <2>2 DEF ExchangeInv, UnderWay, Datagram!FailureSaysWhy
<1> QED
  BY <1>2, <1>3

\* The answer to a command: the device's own refusal, its own value, or what nobody can read.
LEMMA CommandInv ==
  ASSUME ExchangeInv, NEW d \in Datagram!Datagrams, Datagram!Command(d)
  PROVE  ExchangeInv'
<1>1. /\ call.at = "command" /\ call \in CallStates /\ UnderWay /\ sent' = sent
      /\ told' = IF Datagram!Genuine(d) THEN d.body ELSE None
      /\ d.body \in Datagram!Bodies
  BY DEF Datagram!Command, Datagram!Datagrams, ExchangeInv, UnderWay
<1>2. d.body # None /\ d.body.code \in Codes \cup {None}
  BY <1>1, BridgeAssumption DEF Datagram!Bodies, Datagram!Body, Datagram!Refusal
<1>3. CASE Datagram!Unreadable(d)
  <2> DEFINE error == Datagram!TransportError
  <2>1. /\ error \in Datagram!MiotErrors /\ ~error.stampRefreshed /\ error.kind # "device_error"
        /\ error.code = None
    BY DEF Datagram!TransportError, Datagram!Error, Datagram!MiotErrors
  <2>2. Datagram!AttemptFails(error)
    BY <1>3 DEF Datagram!Command
  <2>3. ~Refusing(call.method, told') /\ Codeof(call.method, told') = None
    BY <1>1, <1>3 DEF Refusing, Codeof, Datagram!Refused, Datagram!Unreadable
  <2> HIDE DEF error
  <2> QED
    BY <1>1, <2>1, <2>2, <2>3, AttemptFailsInv
<1>4. CASE ~Datagram!Unreadable(d) /\ Datagram!Refused(call.method, d.body)
  <2> DEFINE error == Datagram!PropertyError(d.body.code)
  <2>1. /\ error \in Datagram!MiotErrors /\ ~error.stampRefreshed /\ error.kind = "device_error"
        /\ error.code = d.body.code
    BY <1>2 DEF Datagram!PropertyError, Datagram!Error, Datagram!MiotErrors
  <2>2. Datagram!AttemptFails(error)
    BY <1>4 DEF Datagram!Command
  <2>3. Refusing(call.method, told') /\ Codeof(call.method, told') = d.body.code
    BY <1>1, <1>2, <1>4 DEF Refusing, Codeof, Datagram!Unreadable
  <2> HIDE DEF error
  <2> QED
    BY <1>1, <2>1, <2>2, <2>3, AttemptFailsInv
<1>5. CASE ~Datagram!Unreadable(d) /\ ~Datagram!Refused(call.method, d.body)
  <2>1. Datagram!Ends(Datagram!Done, None) /\ told' = d.body
    BY <1>1, <1>5 DEF Datagram!Command, Datagram!Unreadable
  <2>2. /\ call' = [call EXCEPT !.at = "done"] /\ outcome' = Datagram!Done /\ socket' = Datagram!Closed
        /\ exMetric' = [calls |-> 1, errorType |-> None, rejections |-> 0]
    BY <1>1, <2>1 DEF Datagram!Ends, Datagram!Recorded, Datagram!NoMetric, ExchangeInv
  <2>3. /\ call' \in CallStates /\ call'.at = "done" /\ call'.method = call.method
        /\ call'.retried = call.retried /\ call'.fresh = call.fresh
    BY <1>1, <2>2 DEF CallStates
  <2>4. Datagram!FailureSaysWhy'
    BY <1>2, <1>5, <2>1, <2>2, <2>3 DEF Datagram!FailureSaysWhy, Datagram!Closed, Datagram!Refused
  <2> QED
    BY <2>2, <2>3, <2>4 DEF ExchangeInv, UnderWay
<1> QED
  BY <1>3, <1>4, <1>5 DEF Datagram!Command

\* A call begins; its first packet is a command only behind a cached reading.
LEMMA BeginInv ==
  ASSUME ExchangeInv, NEW method \in Datagram!Methods, Datagram!Begin(method)
  PROVE  ExchangeInv'
<1>1. /\ call' = [method |-> method, at |-> IF clock = None THEN "hello" ELSE "command",
                  fresh |-> clock = None, retried |-> FALSE]
      /\ sent' = (IF clock = None THEN 0 ELSE 1) /\ UNCHANGED exMetric /\ call.at = "idle"
  BY DEF Datagram!Begin
<1>2. call' \in CallStates
  BY <1>1 DEF CallStates
<1> QED
  BY <1>1, <1>2 DEF ExchangeInv, UnderWay, Datagram!FailureSaysWhy

\* Datagrams on their way to an open socket, and the lease, are no part of the call.
LEMMA NetworkInv ==
  ASSUME ExchangeInv, UNCHANGED <<call, outcome, exMetric, told, sent>>,
         UnderWay \/ UNCHANGED socket
  PROVE  ExchangeInv'
  BY DEF ExchangeInv, UnderWay, Datagram!FailureSaysWhy, Datagram!Refused, CallStates

LEMMA ExchangeStep == ExchangeInv /\ [Datagram!Next]_Datagram!vars => ExchangeInv'
<1> SUFFICES ASSUME ExchangeInv, [Datagram!Next]_Datagram!vars PROVE ExchangeInv'
  OBVIOUS
<1>0. socket.timer \/ ~socket.settled \/ socket.open => UnderWay
  BY DEF ExchangeInv, Datagram!Closed
<1>1. CASE \E method \in Datagram!Methods : Datagram!Begin(method)
  BY <1>1, BeginInv
<1>2. CASE Datagram!TimerFires
  BY <1>0, <1>2, ExchangeFailsInv DEF Datagram!TimerFires
<1>3. CASE Datagram!SocketFails
  BY <1>0, <1>3, ExchangeFailsInv DEF Datagram!SocketFails, Datagram!TransportError
<1>4. CASE \E d \in Datagram!Datagrams : Datagram!Hello(d)
  BY <1>4, HelloInv
<1>5. CASE \E d \in Datagram!Datagrams : Datagram!Command(d)
  BY <1>5, CommandInv
<1>6. CASE \E body \in Datagram!Bodies : Datagram!Answer(body)
  BY <1>0, <1>6, NetworkInv DEF Datagram!Answer
<1>7. CASE \E what \in {"empty", "garbled"} : Datagram!Stray(Datagram!Body(what))
  BY <1>0, <1>7, NetworkInv DEF Datagram!Stray
<1>8. CASE \E to \in {"ours", "other", None} : Datagram!LeaseMoves(to)
  BY <1>8, NetworkInv DEF Datagram!LeaseMoves
<1>9. CASE UNCHANGED Datagram!vars
  BY <1>9, NetworkInv DEF Datagram!vars
<1> QED
  BY <1>1, <1>2, <1>3, <1>4, <1>5, <1>6, <1>7, <1>8, <1>9 DEF Datagram!Next

-----------------------------------------------------------------------------
(***************************************************************************)
(* MqttCommands: a message that was not by REST is on its way to a call    *)
(* only once the listener has started, and it starts with one handler.     *)
(***************************************************************************)
MqttStates ==
  [at : {"disabled", "up", "failed", "ended"}, connected : BOOLEAN, bootstrapped : BOOLEAN, errors : Nat]
ListenerStates ==
  [started : BOOLEAN, handlers : Nat, asking : BOOLEAN, subscribed : BOOLEAN, refused : BOOLEAN]
CommandStates ==
  [at : {"none", "lost", "delivered", "replayed", "ignored", "taken", "resolving", "calling", "responding",
         "answered", "undelivered"},
   retain : BOOLEAN, rest : BOOLEAN, what : Mqtt!Contents \cup {"none"},
   reply : {"none", "error", "unavailable", "value", "blank"}, notified : BOOLEAN]

MqttTypeInv ==
  /\ mqtt \in MqttStates /\ listener \in ListenerStates
  /\ mqttMessage \in [Messages -> CommandStates]
  /\ calls \in [Messages -> Nat] /\ records \in [Messages -> Nat]

\* A message in a state, with the calls it led to and the records of it.
OneCommand(o, c, n, started) ==
  /\ o.at \in {"none", "lost", "delivered", "taken", "resolving"} => c = 0 /\ n = 0 /\ o.reply = "none"
  /\ o.at = "calling" => c = 1 /\ n = 0 /\ o.reply = "none" /\ o.what = "command"
  /\ o.at \in {"delivered", "taken", "resolving"} /\ ~o.rest => started
  /\ c <= 1
  /\ o.reply = "none" => ~o.notified
  /\ o.reply # "none" =>
       /\ o.reply = "unavailable" => c = 0 /\ n = 0
       /\ o.reply # "unavailable" =>
            /\ c = (IF o.what = "command" THEN 1 ELSE 0)
            /\ n = (IF o.what \in {"command", "unresolved"} THEN 1 ELSE 0)
       /\ o.notified => c = 1 /\ o.reply # "error"

\* The listener has one handler from its start on, and asks for nothing before it.
OneHandler ==
  /\ listener.handlers = (IF listener.started THEN 1 ELSE 0)
  /\ listener.asking \/ listener.subscribed => listener.started

MqttInv ==
  /\ MqttTypeInv /\ OneHandler /\ Mqtt!Listening /\ Mqtt!ClientKept
  /\ \A m \in Messages : OneCommand(mqttMessage[m], calls[m], records[m], listener.started)

LEMMA MqttInit == Mqtt!Init => MqttInv
<1> SUFFICES ASSUME Mqtt!Init PROVE MqttInv
  OBVIOUS
<1>1. Mqtt!NoMessage \in CommandStates
  BY DEF Mqtt!NoMessage, CommandStates
<1>2. MqttTypeInv
  <2>1. PICK s \in {"disabled", "up"} : mqtt = [at |-> s, connected |-> FALSE, bootstrapped |-> FALSE, errors |-> 0]
    BY DEF Mqtt!Init
  <2>2. mqtt \in MqttStates
    BY <2>1 DEF MqttStates
  <2>3. listener \in ListenerStates
    BY DEF Mqtt!Init, ListenerStates
  <2> QED
    BY <1>1, <2>2, <2>3 DEF Mqtt!Init, MqttTypeInv
<1>3. OneHandler /\ Mqtt!Listening /\ Mqtt!ClientKept
  BY DEF Mqtt!Init, OneHandler, Mqtt!Listening, Mqtt!ClientKept
<1>4. \A m \in Messages : OneCommand(mqttMessage[m], calls[m], records[m], listener.started)
  BY DEF Mqtt!Init, Mqtt!NoMessage, OneCommand
<1> QED
  BY <1>2, <1>3, <1>4 DEF MqttInv

\* The client and the listener, with the messages as they are.
LEMMA ConnectionInv ==
  ASSUME MqttInv, UNCHANGED <<mqttMessage, calls, records>>,
         mqtt' \in MqttStates, listener' \in ListenerStates,
         listener.started => listener'.started,
         OneHandler', Mqtt!Listening', Mqtt!ClientKept'
  PROVE  MqttInv'
<1>1. MqttTypeInv'
  BY DEF MqttInv, MqttTypeInv
<1>2. \A m \in Messages : OneCommand(mqttMessage'[m], calls'[m], records'[m], listener'.started)
  BY DEF MqttInv, OneCommand
<1> QED
  BY <1>1, <1>2 DEF MqttInv

LEMMA ClientStep ==
  ASSUME MqttInv, Mqtt!Connect \/ Mqtt!ConnectError \/ Mqtt!Drop \/ Mqtt!End \/ Mqtt!Start
  PROVE  MqttInv'
<1>0. mqtt \in MqttStates /\ listener \in ListenerStates /\ OneHandler /\ Mqtt!Listening /\ Mqtt!ClientKept
  BY DEF MqttInv, MqttTypeInv
<1>1. CASE Mqtt!Connect
  <2>1. /\ mqtt' = [mqtt EXCEPT !.connected = TRUE, !.bootstrapped = TRUE] /\ mqtt.at = "up"
        /\ listener' = IF listener.started THEN [listener EXCEPT !.asking = TRUE, !.refused = FALSE] ELSE listener
        /\ UNCHANGED <<mqttMessage, calls, records>>
    BY <1>1 DEF Mqtt!Connect, Mqtt!Listen
  <2>2. mqtt' \in MqttStates /\ listener' \in ListenerStates
    BY <1>0, <2>1 DEF MqttStates, ListenerStates
  <2>3. OneHandler' /\ Mqtt!Listening' /\ Mqtt!ClientKept' /\ (listener.started => listener'.started)
    BY <1>0, <2>1 DEF OneHandler, Mqtt!Listening, Mqtt!ClientKept, MqttStates, ListenerStates
  <2> QED
    BY <2>1, <2>2, <2>3, ConnectionInv
<1>2. CASE Mqtt!ConnectError
  <2>1. /\ mqtt' = [mqtt EXCEPT !.errors = @ + 1, !.at = IF mqtt.errors + 1 >= StartupErrors THEN "failed" ELSE @]
        /\ ~mqtt.connected /\ ~mqtt.bootstrapped
        /\ UNCHANGED <<listener, mqttMessage, calls, records>>
    BY <1>2 DEF Mqtt!ConnectError
  <2>2. mqtt' \in MqttStates
    <3>1. mqtt.errors + 1 \in Nat
      BY <1>0 DEF MqttStates
    <3>2. mqtt' = [mqtt EXCEPT !.errors = mqtt.errors + 1, !.at = "failed"] \/ mqtt' = [mqtt EXCEPT !.errors = mqtt.errors + 1]
      BY <1>0, <2>1 DEF MqttStates
    <3> HIDE <2>1
    <3> QED
      BY <1>0, <3>1, <3>2 DEF MqttStates
  <2>3. OneHandler' /\ Mqtt!Listening' /\ Mqtt!ClientKept'
    BY <1>0, <2>1 DEF OneHandler, Mqtt!Listening, Mqtt!ClientKept, MqttStates, ListenerStates
  <2> QED
    BY <1>0, <2>1, <2>2, <2>3, ConnectionInv
<1>3. CASE Mqtt!Drop
  <2>1. /\ mqtt' = [mqtt EXCEPT !.connected = FALSE]
        /\ listener' = [listener EXCEPT !.asking = FALSE, !.subscribed = FALSE, !.refused = FALSE]
        /\ UNCHANGED <<mqttMessage, calls, records>>
    BY <1>3 DEF Mqtt!Drop
  <2>2. mqtt' \in MqttStates /\ listener' \in ListenerStates
    BY <1>0, <2>1 DEF MqttStates, ListenerStates
  <2>3. OneHandler' /\ Mqtt!Listening' /\ Mqtt!ClientKept' /\ (listener.started => listener'.started)
    BY <1>0, <2>1 DEF OneHandler, Mqtt!Listening, Mqtt!ClientKept, MqttStates, ListenerStates
  <2> QED
    BY <2>1, <2>2, <2>3, ConnectionInv
<1>4. CASE Mqtt!End
  <2>1. /\ mqtt' = [mqtt EXCEPT !.at = "ended", !.connected = FALSE]
        /\ listener' = [listener EXCEPT !.asking = FALSE, !.subscribed = FALSE]
        /\ UNCHANGED <<mqttMessage, calls, records>>
    BY <1>4 DEF Mqtt!End
  <2>2. mqtt' \in MqttStates /\ listener' \in ListenerStates
    BY <1>0, <2>1 DEF MqttStates, ListenerStates
  <2>3. OneHandler' /\ Mqtt!Listening' /\ Mqtt!ClientKept' /\ (listener.started => listener'.started)
    BY <1>0, <2>1 DEF OneHandler, Mqtt!Listening, Mqtt!ClientKept, MqttStates, ListenerStates
  <2> QED
    BY <2>1, <2>2, <2>3, ConnectionInv
<1>5. CASE Mqtt!Start
  <2>1. /\ listener' = [listener EXCEPT !.started = TRUE, !.handlers = 1, !.asking = mqtt.connected]
        /\ UNCHANGED <<mqtt, mqttMessage, calls, records>>
    BY <1>5 DEF Mqtt!Start
  <2>2. listener' \in ListenerStates
    BY <1>0, <2>1 DEF MqttStates, ListenerStates
  <2>3. OneHandler' /\ Mqtt!Listening' /\ Mqtt!ClientKept' /\ (listener.started => listener'.started)
    BY <1>0, <2>1 DEF OneHandler, Mqtt!Listening, Mqtt!ClientKept, MqttStates, ListenerStates
  <2> QED
    BY <1>0, <2>1, <2>2, <2>3, ConnectionInv
<1> QED
  BY <1>1, <1>2, <1>3, <1>4, <1>5

\* The broker's answer: what it replays has led to its calls, if any, and leads to no more.
LEMMA SubscribedInv ==
  ASSUME MqttInv, Mqtt!Subscribed
  PROVE  MqttInv'
<1>0. /\ mqtt \in MqttStates /\ listener \in ListenerStates /\ OneHandler /\ Mqtt!Listening /\ Mqtt!ClientKept
      /\ UNCHANGED <<mqtt, calls, records>> /\ listener.asking
  BY DEF MqttInv, MqttTypeInv, Mqtt!Subscribed
<1>1. \/ listener' = [listener EXCEPT !.asking = FALSE, !.subscribed = TRUE]
      \/ listener' = [listener EXCEPT !.asking = FALSE, !.refused = ~listener.subscribed]
  BY DEF Mqtt!Subscribed
<1>2. listener' \in ListenerStates /\ OneHandler' /\ Mqtt!Listening' /\ Mqtt!ClientKept'
      /\ listener'.started = listener.started
  BY <1>0, <1>1 DEF ListenerStates, OneHandler, Mqtt!Listening, Mqtt!ClientKept
<1>3. /\ mqttMessage' \in [Messages -> CommandStates]
      /\ \A m \in Messages : OneCommand(mqttMessage'[m], calls[m], records[m], listener.started)
  <2>1. CASE UNCHANGED mqttMessage
    BY <2>1 DEF MqttInv, MqttTypeInv
  <2>2. CASE mqttMessage' = [m \in Messages |->
               IF /\ ReplaysRetained /\ mqttMessage[m].retain
                  /\ mqttMessage[m].at \in {"lost", "answered", "ignored"}
               THEN [mqttMessage[m] EXCEPT !.at = "replayed"] ELSE mqttMessage[m]]
    <3> SUFFICES ASSUME NEW m \in Messages
                 PROVE  /\ mqttMessage'[m] \in CommandStates
                        /\ OneCommand(mqttMessage'[m], calls[m], records[m], listener.started)
      BY <2>2
    <3>1. /\ mqttMessage[m] \in CommandStates
          /\ OneCommand(mqttMessage[m], calls[m], records[m], listener.started)
      BY DEF MqttInv, MqttTypeInv
    <3>2. mqttMessage'[m] = mqttMessage[m] \/ mqttMessage'[m] = [mqttMessage[m] EXCEPT !.at = "replayed"]
      BY <2>2
    <3>3. CASE mqttMessage'[m] = mqttMessage[m]
      BY <3>1, <3>3
    <3>4. CASE mqttMessage'[m] = [mqttMessage[m] EXCEPT !.at = "replayed"]
      BY <3>1, <3>4 DEF CommandStates, OneCommand
    <3> QED
      BY <3>2, <3>3, <3>4
  <2> QED
    BY <2>1, <2>2 DEF Mqtt!Subscribed
<1> QED
  BY <1>0, <1>2, <1>3 DEF MqttInv, MqttTypeInv

\* A step of one message.
LEMMA MessageInv ==
  ASSUME MqttInv, NEW m \in Messages, NEW o \in CommandStates, NEW c \in Nat, NEW n \in Nat,
         UNCHANGED <<mqtt, listener>>,
         mqttMessage' = [mqttMessage EXCEPT ![m] = o],
         calls' = [calls EXCEPT ![m] = c] \/ (calls' = calls /\ c = calls[m]),
         records' = [records EXCEPT ![m] = n] \/ (records' = records /\ n = records[m]),
         OneCommand(o, c, n, listener.started)
  PROVE  MqttInv'
<1>1. MqttTypeInv'
  BY DEF MqttInv, MqttTypeInv
<1>2. /\ mqttMessage'[m] = o /\ calls'[m] = c /\ records'[m] = n
      /\ \A q \in Messages \ {m} : mqttMessage'[q] = mqttMessage[q] /\ calls'[q] = calls[q] /\ records'[q] = records[q]
  BY DEF MqttInv, MqttTypeInv
<1>3. OneHandler' /\ Mqtt!Listening' /\ Mqtt!ClientKept'
  BY DEF MqttInv, OneHandler, Mqtt!Listening, Mqtt!ClientKept
<1>4. \A q \in Messages : OneCommand(mqttMessage'[q], calls'[q], records'[q], listener'.started)
  BY <1>2 DEF MqttInv
<1> QED
  BY <1>1, <1>3, <1>4 DEF MqttInv

\* From its publication to the end of its parsing, and by REST.
LEMMA InboundInv ==
  ASSUME MqttInv, NEW m \in Messages,
         \/ Mqtt!Publish(m) \/ Mqtt!Deliver(m) \/ Mqtt!Parse(m) \/ Mqtt!Request(m)
         \/ \E of \in Messages : Mqtt!Redeliver(m, of)
  PROVE  MqttInv'
<1> DEFINE old == mqttMessage[m]
<1>0. /\ old \in CommandStates /\ calls[m] \in Nat /\ records[m] \in Nat /\ OneHandler
      /\ OneCommand(old, calls[m], records[m], listener.started)
  BY DEF MqttInv, MqttTypeInv
<1>1. UNCHANGED <<mqtt, listener, calls, records>>
  BY DEF Mqtt!Publish, Mqtt!Deliver, Mqtt!Parse, Mqtt!Request, Mqtt!Redeliver
<1>2. ASSUME NEW o \in CommandStates, mqttMessage' = [mqttMessage EXCEPT ![m] = o],
             OneCommand(o, calls[m], records[m], listener.started)
      PROVE  MqttInv'
  BY <1>0, <1>1, <1>2, MessageInv
<1>3. CASE Mqtt!Publish(m)
  <2>1. PICK retain \in BOOLEAN, what \in Mqtt!Contents :
          mqttMessage' = [mqttMessage EXCEPT ![m] =
             [at |-> IF listener.subscribed /\ Mqtt!CommandTopic(what) THEN "delivered" ELSE "lost",
              retain |-> retain, rest |-> FALSE, what |-> what, reply |-> "none", notified |-> FALSE]]
    BY <1>3 DEF Mqtt!Publish
  <2> DEFINE stage == IF listener.subscribed /\ Mqtt!CommandTopic(what) THEN "delivered" ELSE "lost"
             o == [at |-> stage, retain |-> retain, rest |-> FALSE, what |-> what, reply |-> "none",
                   notified |-> FALSE]
  <2>6. stage = "lost" \/ (stage = "delivered" /\ listener.subscribed)
    OBVIOUS
  <2>2. mqttMessage' = [mqttMessage EXCEPT ![m] = o]
    BY <2>1
  <2> HIDE DEF stage
  <2>3. o \in CommandStates
    BY <2>6 DEF CommandStates
  <2>4. old.at = "none"
    BY <1>3 DEF Mqtt!Publish
  <2>5. OneCommand(o, calls[m], records[m], listener.started)
    BY <1>0, <2>4, <2>6 DEF OneCommand, OneHandler
  <2> HIDE DEF o
  <2> QED
    BY <1>2, <2>2, <2>3, <2>5
<1>4. CASE Mqtt!Deliver(m)
  <2> DEFINE o == [old EXCEPT !.at = IF old.at = "replayed" \/ old.what = "empty" THEN "ignored" ELSE "taken"]
  <2>1. mqttMessage' = [mqttMessage EXCEPT ![m] = o] /\ old.at \in {"delivered", "replayed"}
    BY <1>4 DEF Mqtt!Deliver, Mqtt!Goes
  <2>2. o \in CommandStates
    BY <1>0 DEF CommandStates
  <2>3. OneCommand(o, calls[m], records[m], listener.started)
    BY <1>0, <2>1 DEF OneCommand, CommandStates
  <2> HIDE DEF o
  <2> QED
    BY <1>2, <2>1, <2>2, <2>3
<1>5. CASE Mqtt!Parse(m)
  <2> DEFINE o == IF old.what \in {"malformed", "invalid"}
                  THEN [old EXCEPT !.at = "responding", !.reply = "error"] ELSE [old EXCEPT !.at = "resolving"]
  <2>1. mqttMessage' = [mqttMessage EXCEPT ![m] = o] /\ old.at = "taken"
    BY <1>5 DEF Mqtt!Parse
  <2>2. o \in CommandStates
    BY <1>0 DEF CommandStates
  <2>3. old.notified = FALSE
    BY <1>0, <2>1 DEF OneCommand, CommandStates
  <2>4. OneCommand(o, calls[m], records[m], listener.started)
    BY <1>0, <2>1, <2>3 DEF OneCommand, CommandStates
  <2> HIDE DEF o
  <2> QED
    BY <1>2, <2>1, <2>2, <2>4
<1>6. CASE Mqtt!Request(m)
  <2>1. PICK what \in {"command", "unresolved", "unknown device"} :
          mqttMessage' = [mqttMessage EXCEPT ![m] =
             [Mqtt!NoMessage EXCEPT !.rest = TRUE, !.what = what, !.at = "resolving"]]
    BY <1>6 DEF Mqtt!Request
  <2> DEFINE o == [at |-> "resolving", retain |-> FALSE, rest |-> TRUE, what |-> what, reply |-> "none",
                   notified |-> FALSE]
  <2>2. mqttMessage' = [mqttMessage EXCEPT ![m] = o] /\ old.at = "none"
    BY <1>6, <2>1 DEF Mqtt!NoMessage, Mqtt!Request
  <2>3. o \in CommandStates
    BY DEF CommandStates, Mqtt!Contents
  <2>4. OneCommand(o, calls[m], records[m], listener.started)
    BY <1>0, <2>2 DEF OneCommand
  <2> HIDE DEF o
  <2> QED
    BY <1>2, <2>2, <2>3, <2>4
<1>7. CASE \E of \in Messages : Mqtt!Redeliver(m, of)
  <2>1. PICK of \in Messages : Mqtt!Redeliver(m, of)
    BY <1>7
  <2> DEFINE stage == IF listener.subscribed /\ Mqtt!CommandTopic(mqttMessage[of].what) THEN "delivered" ELSE "lost"
             o == [mqttMessage[of] EXCEPT !.at = stage, !.reply = "none", !.notified = FALSE]
  <2>2. mqttMessage' = [mqttMessage EXCEPT ![m] = o] /\ old.at = "none"
    BY <2>1 DEF Mqtt!Redeliver
  <2>3. stage = "lost" \/ (stage = "delivered" /\ listener.subscribed)
    OBVIOUS
  <2>4. mqttMessage[of] \in CommandStates
    BY DEF MqttInv, MqttTypeInv
  <2> HIDE DEF stage
  <2>5. o \in CommandStates /\ o.at = stage /\ o.reply = "none" /\ o.notified = FALSE
    BY <2>3, <2>4 DEF CommandStates
  <2> HIDE DEF o
  <2>6. OneCommand(o, calls[m], records[m], listener.started)
    BY <1>0, <2>2, <2>3, <2>5 DEF OneCommand, OneHandler
  <2> QED
    BY <1>2, <2>2, <2>5, <2>6
<1> QED
  BY <1>3, <1>4, <1>5, <1>6, <1>7

\* DeviceCommandService.execute, and the response.
LEMMA ExecuteInv ==
  ASSUME MqttInv, NEW m \in Messages,
         \/ Mqtt!StorageFails(m) \/ Mqtt!NotFound(m) \/ Mqtt!Reject(m) \/ Mqtt!Send(m)
         \/ Mqtt!Answered(m) \/ Mqtt!Fails(m) \/ Mqtt!Respond(m)
  PROVE  MqttInv'
<1> DEFINE old == mqttMessage[m]
           replied(reply, notified) ==
             [old EXCEPT !.reply = reply, !.notified = notified,
                         !.at = IF old.rest THEN "answered" ELSE "responding"]
<1>0. /\ old \in CommandStates /\ calls[m] \in Nat /\ records[m] \in Nat /\ OneHandler
      /\ OneCommand(old, calls[m], records[m], listener.started)
  BY DEF MqttInv, MqttTypeInv
<1>1. UNCHANGED <<mqtt, listener>>
  BY DEF Mqtt!StorageFails, Mqtt!NotFound, Mqtt!Reject, Mqtt!Send, Mqtt!Answered, Mqtt!Fails, Mqtt!Respond
<1>2. ASSUME NEW reply \in {"error", "unavailable", "value", "blank"}, NEW notified \in BOOLEAN,
             Mqtt!Reply(m, reply, notified)
      PROVE  /\ mqttMessage' = [mqttMessage EXCEPT ![m] = replied(reply, notified)]
             /\ replied(reply, notified) \in CommandStates
             /\ replied(reply, notified).at \in {"answered", "responding"}
             /\ replied(reply, notified).reply = reply /\ replied(reply, notified).notified = notified
             /\ replied(reply, notified).what = old.what
  <2>1. mqttMessage' = [mqttMessage EXCEPT ![m] = replied(reply, notified)]
    BY <1>2 DEF Mqtt!Reply
  <2> QED
    BY <1>0, <2>1 DEF CommandStates
<1>3. CASE Mqtt!NotFound(m)
  <2> DEFINE o == replied("error", FALSE)
  <2>1. /\ old.at = "resolving" /\ old.what = "unknown device" /\ Mqtt!Reply(m, "error", FALSE)
        /\ UNCHANGED <<calls, records>>
    BY <1>3 DEF Mqtt!NotFound
  <2>2. /\ mqttMessage' = [mqttMessage EXCEPT ![m] = o] /\ o \in CommandStates /\ o.what = "unknown device"
        /\ o.at \in {"answered", "responding"} /\ o.reply = "error" /\ o.notified = FALSE
    BY <1>2, <2>1
  <2> HIDE DEF o
  <2>3. OneCommand(o, calls[m], records[m], listener.started)
    BY <1>0, <2>1, <2>2 DEF OneCommand
  <2> QED
    BY <1>0, <1>1, <2>1, <2>2, <2>3, MessageInv
<1>8. CASE Mqtt!StorageFails(m)
  <2> DEFINE o == replied("unavailable", FALSE)
  <2>1. /\ old.at = "resolving" /\ Mqtt!Reply(m, "unavailable", FALSE)
        /\ UNCHANGED <<calls, records>>
    BY <1>8 DEF Mqtt!StorageFails
  <2>2. /\ mqttMessage' = [mqttMessage EXCEPT ![m] = o] /\ o \in CommandStates
        /\ o.at \in {"answered", "responding"} /\ o.reply = "unavailable" /\ o.notified = FALSE
    BY <1>2, <2>1
  <2> HIDE DEF o
  <2>3. OneCommand(o, calls[m], records[m], listener.started)
    BY <1>0, <2>1, <2>2 DEF OneCommand
  <2> QED
    BY <1>0, <1>1, <2>1, <2>2, <2>3, MessageInv
<1>4. CASE Mqtt!Reject(m) \/ Mqtt!Fails(m)
  <2> DEFINE o == replied("error", FALSE)
  <2>1. /\ \/ old.at = "resolving" /\ old.what = "unresolved"
           \/ old.at = "calling"
        /\ Mqtt!Reply(m, "error", FALSE)
        /\ records' = [records EXCEPT ![m] = records[m] + 1] /\ UNCHANGED calls
    BY <1>0, <1>4 DEF Mqtt!Reject, Mqtt!Fails, MqttInv, MqttTypeInv
  <2>2. /\ mqttMessage' = [mqttMessage EXCEPT ![m] = o] /\ o \in CommandStates /\ o.what = old.what
        /\ o.at \in {"answered", "responding"} /\ o.reply = "error" /\ o.notified = FALSE
    BY <1>2, <2>1
  <2> HIDE DEF o
  <2>3. OneCommand(o, calls[m], records[m] + 1, listener.started) /\ records[m] + 1 \in Nat
    BY <1>0, <2>1, <2>2 DEF OneCommand
  <2> QED
    BY <1>0, <1>1, <2>1, <2>2, <2>3, MessageInv
<1>5. CASE Mqtt!Send(m)
  <2> DEFINE o == [old EXCEPT !.at = "calling"]
             c == IF old.rest THEN 1 ELSE listener.handlers
  <2>1. /\ old.at = "resolving" /\ old.what = "command"
        /\ mqttMessage' = [mqttMessage EXCEPT ![m] = o]
        /\ calls' = [calls EXCEPT ![m] = calls[m] + c] /\ UNCHANGED records
    BY <1>5 DEF Mqtt!Send, Mqtt!Goes, MqttInv, MqttTypeInv
  <2>2. o \in CommandStates /\ o.at = "calling" /\ o.what = "command" /\ o.reply = old.reply
        /\ o.notified = old.notified
    BY <1>0, <2>1 DEF CommandStates
  <2>3. calls[m] = 0 /\ records[m] = 0 /\ old.reply = "none" /\ ~old.notified /\ calls[m] + c = 1
    BY <1>0, <2>1 DEF OneCommand, OneHandler
  <2> HIDE DEF o, c
  <2>4. OneCommand(o, 1, records[m], listener.started)
    BY <2>2, <2>3 DEF OneCommand
  <2> QED
    BY <1>0, <1>1, <2>1, <2>2, <2>3, <2>4, MessageInv
<1>6. CASE Mqtt!Answered(m)
  <2>1. /\ old.at = "calling" /\ records' = [records EXCEPT ![m] = records[m] + 1] /\ UNCHANGED calls
        /\ \E reply \in {"value", "blank"}, notified \in BOOLEAN : Mqtt!Reply(m, reply, notified)
    BY <1>6 DEF Mqtt!Answered, MqttInv, MqttTypeInv
  <2>2. PICK reply \in {"value", "blank"}, notified \in BOOLEAN : Mqtt!Reply(m, reply, notified)
    BY <2>1
  <2> DEFINE o == replied(reply, notified)
  <2> HIDE DEF o, replied
  <2>3. /\ mqttMessage' = [mqttMessage EXCEPT ![m] = o] /\ o \in CommandStates /\ o.what = old.what
        /\ o.at \in {"answered", "responding"} /\ o.reply \in {"value", "blank"}
    BY <1>2, <2>2 DEF o
  <2>4. OneCommand(o, calls[m], records[m] + 1, listener.started) /\ records[m] + 1 \in Nat
    BY <1>0, <2>1, <2>3 DEF OneCommand
  <2> QED
    BY <1>0, <1>1, <2>1, <2>3, <2>4, MessageInv
<1>7. CASE Mqtt!Respond(m)
  <2> DEFINE o == [old EXCEPT !.at = IF mqtt.connected THEN "answered" ELSE "undelivered"]
  <2>1. /\ old.at = "responding" /\ mqttMessage' = [mqttMessage EXCEPT ![m] = o]
        /\ UNCHANGED <<calls, records>>
    BY <1>7 DEF Mqtt!Respond, Mqtt!Goes
  <2>2. o \in CommandStates /\ OneCommand(o, calls[m], records[m], listener.started)
    BY <1>0, <2>1 DEF CommandStates, OneCommand
  <2> HIDE DEF o
  <2> QED
    BY <1>0, <1>1, <2>1, <2>2, MessageInv
<1> QED
  BY <1>3, <1>4, <1>5, <1>6, <1>7, <1>8

LEMMA MqttStep == MqttInv /\ [Mqtt!Next]_Mqtt!vars => MqttInv'
<1> SUFFICES ASSUME MqttInv, [Mqtt!Next]_Mqtt!vars PROVE MqttInv'
  OBVIOUS
<1>1. CASE Mqtt!Connect \/ Mqtt!ConnectError \/ Mqtt!Drop \/ Mqtt!End \/ Mqtt!Start
  BY <1>1, ClientStep
<1>2. CASE Mqtt!Subscribed
  BY <1>2, SubscribedInv
<1>3. CASE \E m \in Messages : Mqtt!Publish(m) \/ Mqtt!Deliver(m) \/ Mqtt!Parse(m) \/ Mqtt!Request(m)
  BY <1>3, InboundInv
<1>6. CASE \E m, of \in Messages : Mqtt!Redeliver(m, of)
  BY <1>6, InboundInv
<1>4. CASE \E m \in Messages : \/ Mqtt!StorageFails(m) \/ Mqtt!NotFound(m) \/ Mqtt!Reject(m) \/ Mqtt!Send(m)
                               \/ Mqtt!Answered(m) \/ Mqtt!Fails(m) \/ Mqtt!Respond(m)
  BY <1>4, ExecuteInv
<1>5. CASE UNCHANGED Mqtt!vars
  BY <1>5 DEF Mqtt!vars, MqttInv, MqttTypeInv, OneHandler, OneCommand, Mqtt!Listening, Mqtt!ClientKept
<1> QED
  BY <1>1, <1>2, <1>3, <1>4, <1>5, <1>6 DEF Mqtt!Next

LEMMA MqttHolds == MqttInv => Mqtt!CommandsOnce
  BY DEF MqttInv, OneCommand, Mqtt!CommandsOnce, Mqtt!CalledOnce, Mqtt!RecordedOnce

-----------------------------------------------------------------------------
(***************************************************************************)
(* PollSignals: a span that was started keeps its parent and its trace,    *)
(* what waits to be published carries the context of its own read, and of  *)
(* each read at most one outcome is counted, that of its span.             *)
(***************************************************************************)
RunOf(n) == <<"tick", n>>
SkipOf(n) == <<"skip", n>>
ReadOf(n, d) == <<"device", n, d>>
CallOf(n, d) == <<"call", n, d>>
PublishOf(n, d) == <<"publish", n, d>>
MessageOf(m) == <<"message", m>>
ReplyOf(m) == <<"reply", m>>
Loading == <<"load", 0>>
Counted ==
  Signals!Runs \cup Signals!Reads \cup Signals!Calls \cup Signals!Refusals \cup Signals!Unresolved \cup Signals!Skips
Outcomes == {None, "success", "failure", "nothing_due", "get_properties", "error", "ok", "code"}
Counts == [times : Nat, outcome : Outcomes]
TickStates ==
  [n : 0 .. MaxTicks, at : {"loading", "idle", "due", "next", "reading", "calling", "dead"},
   ctx : Signals!Contexts, todo : SUBSET Devices, device : Devices \cup {None}]

SignalTypes ==
  /\ sdk \in {"off", "on", "flushing", "stopped"}
  /\ spans \in [Signals!Names -> Signals!Spans \cup {None}]
  /\ sigMetric \in [Counted -> Counts]
  /\ timer \in {None, Signals!Empty}
  /\ tick \in TickStates
  /\ traced \in [Signals!Ticks -> BOOLEAN]
  /\ queue \in [Devices -> Signals!Waiting \cup {None}]
  /\ carrier \in [PolledMessages -> BOOLEAN]

Polling == tick.at \in {"next", "reading", "calling"}
InHand == tick.at \in {"reading", "calling"}
\* A tick that has decided if it is traced, and one that is traced to an SDK.
Begun(n) == n < tick.n \/ (n = tick.n /\ tick.at # "due")
TracedTo(n) == traced[n] /\ sdk # "off"

\* The context inside of a tick, and inside of a read of it.
RunContext(n) ==
  IF ~traced[n] THEN [span |-> None, suppressed |-> TRUE]
  ELSE IF sdk = "off" THEN Signals!Empty ELSE [span |-> RunOf(n), suppressed |-> FALSE]
ReadContextOf(n, d) == IF TracedTo(n) THEN [span |-> ReadOf(n, d), suppressed |-> FALSE] ELSE RunContext(n)

\* What a span's name says of its parent and its trace.
Lawful(s, parent, trace) ==
  /\ sdk # "off"
  /\ s \in Signals!Runs => parent = None /\ trace = s
  /\ \A m \in PolledMessages : s = MessageOf(m) => parent = (IF carrier[m] THEN Signals!Sender ELSE None)
  /\ s \notin Signals!Runs \cup Signals!Handled => parent # None
  /\ \A n \in Signals!Ticks, d \in Devices :
       s = ReadOf(n, d) \/ s = PublishOf(n, d) => Begun(n) /\ traced[n] /\ trace = RunOf(n)
LawfulSpans(store) == \A s \in Signals!Names : store[s] # None => Lawful(s, store[s].parent, store[s].trace)

ContextInv ==
  /\ ~Polling => tick.ctx = Signals!Empty
  /\ Polling => tick.ctx = RunContext(tick.n) /\ (TracedTo(tick.n) => spans[RunOf(tick.n)] # None)
  /\ InHand => tick.device \in Devices /\ (TracedTo(tick.n) => spans[ReadOf(tick.n, tick.device)] # None)
  /\ Polling \/ tick.at = "due" => tick.n \in Signals!Ticks
  /\ tick.at = "loading" => tick.n = 0
QueuedAs(item, d) ==
  item # None =>
    /\ Begun(item.n) /\ item.ctx = ReadContextOf(item.n, d)
    /\ TracedTo(item.n) => spans[ReadOf(item.n, d)] # None
QueueInv == \A d \in Devices : QueuedAs(queue[d], d)
StopInv == stopped => timer = None /\ tick.at # "loading"

\* The counts of one read: one outcome at most, none while it is not over, and its span's.
ReadCounts(n, d) ==
  /\ sigMetric[ReadOf(n, d)].times <= 1
  /\ sigMetric[ReadOf(n, d)].times = 0 =>
       /\ sigMetric[ReadOf(n, d)].outcome = None /\ sigMetric[CallOf(n, d)].outcome # "error"
       /\ spans[ReadOf(n, d)] # None => ~spans[ReadOf(n, d)].error
  /\ sigMetric[CallOf(n, d)].outcome = "error" => sigMetric[ReadOf(n, d)].outcome = "failure"
  /\ spans[ReadOf(n, d)] # None =>
       (spans[ReadOf(n, d)].error <=> sigMetric[ReadOf(n, d)].outcome = "failure")
  /\ ~Begun(n) => sigMetric[ReadOf(n, d)].times = 0
  /\ Signals!Finished(n) => sigMetric[ReadOf(n, d)].times <= sigMetric[RunOf(n)].times
TickCounts(n) ==
  sigMetric[RunOf(n)].times + sigMetric[SkipOf(n)].times = (IF Signals!Finished(n) THEN 1 ELSE 0)
MetricInv ==
  sdk = "on" =>
    /\ \A n \in Signals!Ticks : TickCounts(n) /\ \A d \in Devices : ReadCounts(n, d)
    /\ Polling => \A d \in tick.todo : sigMetric[ReadOf(tick.n, d)].times = 0
    /\ InHand => tick.device \notin tick.todo /\ sigMetric[ReadOf(tick.n, tick.device)].times = 0

SignalsInv ==
  SignalTypes /\ LawfulSpans(spans) /\ ContextInv /\ QueueInv /\ StopInv /\ MetricInv

\* Names of different things are different names.
LEMMA NameKinds ==
  ASSUME NEW n \in Signals!Ticks, NEW d \in Devices
  PROVE  /\ RunOf(n) \in Signals!Runs
         /\ ReadOf(n, d) \in Signals!Reads /\ CallOf(n, d) \in Signals!Calls
         /\ PublishOf(n, d) \in Signals!Published
         /\ SkipOf(n) \in Signals!Skips
  BY DEF RunOf, ReadOf, CallOf, PublishOf, SkipOf, Signals!Runs, Signals!Reads,
         Signals!Calls, Signals!Published, Signals!Skips

LEMMA MessageNames ==
  ASSUME NEW m \in PolledMessages
  PROVE  MessageOf(m) \in Signals!Handled /\ ReplyOf(m) \in Signals!Replies
  BY DEF MessageOf, ReplyOf, Signals!Handled, Signals!Replies

LEMMA InNames ==
  /\ Signals!Runs \subseteq Signals!Names /\ Signals!Reads \subseteq Signals!Names
  /\ Signals!Calls \subseteq Signals!Names /\ Signals!Published \subseteq Signals!Names
  /\ Signals!Handled \subseteq Signals!Names /\ Signals!Replies \subseteq Signals!Names
  /\ Loading \in Signals!Runs
  BY DEF Signals!Names, Loading, Signals!Runs

LEMMA KindsApart ==
  /\ Signals!Runs \cap Signals!Reads = {} /\ Signals!Runs \cap Signals!Calls = {}
  /\ Signals!Runs \cap Signals!Published = {} /\ Signals!Runs \cap Signals!Handled = {}
  /\ Signals!Runs \cap Signals!Replies = {}
  /\ Signals!Reads \cap Signals!Calls = {} /\ Signals!Reads \cap Signals!Published = {}
  /\ Signals!Reads \cap Signals!Handled = {} /\ Signals!Reads \cap Signals!Replies = {}
  /\ Signals!Calls \cap Signals!Published = {} /\ Signals!Calls \cap Signals!Handled = {}
  /\ Signals!Published \cap Signals!Handled = {} /\ Signals!Published \cap Signals!Replies = {}
  /\ Signals!Handled \cap Signals!Replies = {}
<1>1. \A s \in Signals!Runs : s[1] \in {"tick", "load"}
  BY DEF Signals!Runs
<1>2. \A s \in Signals!Reads : s[1] = "device"
  BY DEF Signals!Reads
<1>3. \A s \in Signals!Calls : s[1] = "call"
  BY DEF Signals!Calls
<1>4. \A s \in Signals!Published : s[1] = "publish"
  BY DEF Signals!Published
<1>5. \A s \in Signals!Handled : s[1] = "message"
  BY DEF Signals!Handled
<1>6. \A s \in Signals!Replies : s[1] = "reply"
  BY DEF Signals!Replies
<1> QED
  BY <1>1, <1>2, <1>3, <1>4, <1>5, <1>6

\* withSpan: the span's parent is the context's, unless it is a root; its trace the parent's, if it has one.
LEMMA StartedSpan ==
  ASSUME SignalTypes, NEW name \in Signals!Names, NEW ctx \in Signals!Contexts, NEW root \in BOOLEAN
  PROVE  LET parent == IF root THEN None ELSE ctx.span
             store == Signals!Started(name, ctx, root)
         IN  /\ ~Signals!Recording(ctx) => store = spans
             /\ Signals!Recording(ctx) =>
                  /\ store \in [Signals!Names -> Signals!Spans \cup {None}]
                  /\ \A s \in Signals!Names : s # name => store[s] = spans[s]
                  /\ store[name] # None /\ store[name].parent = parent /\ store[name].error = FALSE
                  /\ store[name].trace =
                       IF Signals!TraceOf(parent) = None THEN name ELSE Signals!TraceOf(parent)
<1> DEFINE parent == IF root THEN None ELSE ctx.span
           trace == IF Signals!TraceOf(parent) = None THEN name ELSE Signals!TraceOf(parent)
           span == [parent |-> parent, error |-> FALSE, ends |-> 0, trace |-> trace]
           store == Signals!Started(name, ctx, root)
<1>1. /\ ~Signals!Recording(ctx) => store = spans
      /\ Signals!Recording(ctx) => store = [spans EXCEPT ![name] = span]
  BY DEF Signals!Started
<1>2. parent \in Signals!Names \cup {None, Signals!Sender}
  BY DEF Signals!Contexts
<1> HIDE DEF parent
<1>3. Signals!TraceOf(parent) \in Signals!Names \cup {None, Signals!Sender}
  <2>1. None \notin Signals!Names /\ None # Signals!Sender
    BY BridgeAssumption
  <2>2. CASE parent = None
    BY <2>1, <2>2 DEF Signals!TraceOf
  <2>3. CASE parent = Signals!Sender
    <3>1. Signals!Sender \notin Signals!Names
      <4>1. \A s \in Signals!Names : s[1] # "sender"
        BY DEF Signals!Names, Signals!Runs, Signals!Reads, Signals!Calls, Signals!Published, Signals!Handled,
               Signals!Replies
      <4> QED
        BY <4>1 DEF Signals!Sender
    <3> QED
      BY <2>1, <2>3, <3>1 DEF Signals!TraceOf
  <2>4. CASE parent \in Signals!Names /\ parent # None /\ parent # Signals!Sender
    <3>1. Signals!TraceOf(parent) = IF spans[parent] = None THEN None ELSE spans[parent].trace
      BY <2>4 DEF Signals!TraceOf
    <3>2. spans[parent] # None => spans[parent] \in Signals!Spans
      BY <2>4 DEF SignalTypes
    <3> QED
      BY <3>1, <3>2 DEF Signals!Spans
  <2> QED
    BY <1>2, <2>2, <2>3, <2>4
<1>4. trace \in Signals!Names \cup {Signals!Sender}
  BY <1>3
<1> HIDE DEF trace
<1>5. span \in Signals!Spans
  BY <1>2, <1>4 DEF Signals!Spans
<1>6. span # None
  BY <1>5, BridgeAssumption
<1>7. span.parent = parent /\ span.error = FALSE /\ span.trace = trace
  OBVIOUS
<1> HIDE DEF span
<1>8. Signals!Recording(ctx) =>
        /\ store \in [Signals!Names -> Signals!Spans \cup {None}]
        /\ \A s \in Signals!Names : s # name => store[s] = spans[s]
        /\ store[name] = span
  BY <1>1, <1>5 DEF SignalTypes
<1> HIDE DEF store
<1> QED
  BY <1>1, <1>6, <1>7, <1>8 DEF store, trace, parent

EndedAs(span, error) == [span EXCEPT !.ends = span.ends + 1, !.error = error]

LEMMA EndedRecord ==
  ASSUME NEW o \in Signals!Spans, NEW error \in BOOLEAN
  PROVE  EndedAs(o, error) \in Signals!Spans
<1>1. o.ends + 1 \in Nat
  BY DEF Signals!Spans
<1>2. ASSUME NEW k \in Nat PROVE [o EXCEPT !.ends = k, !.error = error] \in Signals!Spans
  BY DEF Signals!Spans
<1> QED
  BY <1>1, <1>2 DEF EndedAs

LEMMA EndedFields ==
  ASSUME NEW o \in Signals!Spans, NEW error
  PROVE  /\ EndedAs(o, error).parent = o.parent /\ EndedAs(o, error).trace = o.trace
         /\ EndedAs(o, error).error = error
  BY DEF Signals!Spans, EndedAs

\* endOnSettle: a span keeps its parent and its trace.
LEMMA EndedSpan ==
  ASSUME NEW store \in [Signals!Names -> Signals!Spans \cup {None}], NEW name \in Signals!Names,
         NEW error \in BOOLEAN
  PROVE  LET ended == Signals!Ended(store, name, error)
         IN  /\ ended \in [Signals!Names -> Signals!Spans \cup {None}]
             /\ \A s \in Signals!Names :
                  /\ s # name => ended[s] = store[s]
                  /\ ended[s] # None <=> store[s] # None
                  /\ store[s] # None => ended[s].parent = store[s].parent /\ ended[s].trace = store[s].trace
             /\ store[name] # None => (ended[name].error <=> store[name].error \/ error)
<1> DEFINE ended == Signals!Ended(store, name, error)
           flag == store[name].error \/ error
           span == EndedAs(store[name], flag)
<1>1. CASE store[name] = None
  <2>1. ended = store
    BY <1>1 DEF Signals!Ended
  <2> QED
    BY <1>1, <2>1
<1>2. CASE store[name] # None
  <2>1. ended = [store EXCEPT ![name] = span]
    BY <1>2 DEF Signals!Ended, EndedAs
  <2>2. store[name] \in Signals!Spans
    BY <1>2
  <2>6. flag \in BOOLEAN
    OBVIOUS
  <2> HIDE DEF flag
  <2>3. /\ span \in Signals!Spans /\ span.parent = store[name].parent /\ span.trace = store[name].trace
        /\ span.error = flag
    BY <2>2, <2>6, EndedRecord, EndedFields
  <2>4. span # None
    BY <2>3, BridgeAssumption
  <2> HIDE DEF span
  <2>5. /\ ended \in [Signals!Names -> Signals!Spans \cup {None}] /\ ended[name] = span
        /\ \A s \in Signals!Names : s # name => ended[s] = store[s]
    BY <2>1, <2>3
  <2> HIDE DEF ended
  <2>7. ended[name].error <=> store[name].error \/ error
    BY <2>3, <2>5 DEF flag
  <2> QED
    BY <1>2, <2>3, <2>4, <2>5, <2>7 DEF ended
<1> QED
  BY <1>1, <1>2

\* The instruments count while there is a provider.
LEMMA RecordedCount ==
  ASSUME NEW store \in [Counted -> Counts], NEW key \in Counted, NEW ended \in Outcomes
  PROVE  LET counted == Signals!Recorded(store, key, ended)
         IN  /\ counted \in [Counted -> Counts]
             /\ \A k \in Counted : k # key => counted[k] = store[k]
             /\ sdk = "on" => counted[key].times = store[key].times + 1 /\ counted[key].outcome = ended
<1> DEFINE counted == Signals!Recorded(store, key, ended)
           count == [times |-> store[key].times + 1, outcome |-> ended]
<1>1. CASE sdk = "on"
  <2>1. counted = [store EXCEPT ![key] = count]
    BY <1>1 DEF Signals!Recorded, Signals!Instruments
  <2>2. store[key] \in Counts
    OBVIOUS
  <2>3. count \in Counts /\ count.times = store[key].times + 1 /\ count.outcome = ended
    BY <2>2 DEF Counts
  <2> HIDE DEF count
  <2> QED
    BY <2>1, <2>3
<1>2. CASE sdk # "on"
  <2>1. counted = store
    BY <1>2 DEF Signals!Recorded, Signals!Instruments
  <2> QED
    BY <1>2, <2>1
<1> QED
  BY <1>1, <1>2

Kept(store) == \A s \in Signals!Names : spans[s] # None => store[s] # None

\* A span that starts as its name says.
LEMMA LawfulStart ==
  ASSUME SignalTypes, LawfulSpans(spans), NEW name \in Signals!Names, NEW ctx \in Signals!Contexts,
         NEW root \in BOOLEAN,
         LET parent == IF root THEN None ELSE ctx.span
             trace == Signals!TraceOf(parent)
         IN  Signals!Recording(ctx) => Lawful(name, parent, IF trace = None THEN name ELSE trace)
  PROVE  LET store == Signals!Started(name, ctx, root)
         IN  /\ store \in [Signals!Names -> Signals!Spans \cup {None}] /\ LawfulSpans(store) /\ Kept(store)
             /\ \A s \in Signals!Names : s # name => store[s] = spans[s]
             /\ Signals!Recording(ctx) => store[name] # None /\ store[name].error = FALSE
<1> DEFINE store == Signals!Started(name, ctx, root)
<1>1. CASE ~Signals!Recording(ctx)
  BY <1>1, StartedSpan, ZenonT(60) DEF SignalTypes, Kept
<1>2. CASE Signals!Recording(ctx)
  <2>1. /\ store \in [Signals!Names -> Signals!Spans \cup {None}]
        /\ \A s \in Signals!Names : s # name => store[s] = spans[s]
        /\ store[name] # None /\ store[name].error = FALSE
        /\ Lawful(name, store[name].parent, store[name].trace)
    BY <1>2, StartedSpan, ZenonT(60)
  <2> HIDE DEF store
  <2>2. LawfulSpans(store)
    BY <2>1 DEF LawfulSpans
  <2> QED
    BY <2>1, <2>2 DEF store, Kept
<1> QED
  BY <1>1, <1>2

LEMMA LawfulEnd ==
  ASSUME NEW store \in [Signals!Names -> Signals!Spans \cup {None}], LawfulSpans(store),
         NEW name \in Signals!Names, NEW error \in BOOLEAN
  PROVE  LawfulSpans(Signals!Ended(store, name, error))
<1> DEFINE ended == Signals!Ended(store, name, error)
<1>1. \A s \in Signals!Names :
        /\ ended[s] # None <=> store[s] # None
        /\ store[s] # None => ended[s].parent = store[s].parent /\ ended[s].trace = store[s].trace
  BY EndedSpan
<1> HIDE DEF ended
<1>2. LawfulSpans(ended)
  BY <1>1 DEF LawfulSpans
<1> QED
  BY <1>2 DEF ended

\* What is lawful stays so while ticks only begin.
LEMMA LawfulCarries ==
  ASSUME LawfulSpans(spans'), UNCHANGED carrier, sdk # "off" => sdk' # "off",
         \A n \in Signals!Ticks : Begun(n) => Begun(n)' /\ traced'[n] = traced[n]
  PROVE  LawfulSpans(spans)'
<1> SUFFICES ASSUME NEW s \in Signals!Names, spans'[s] # None
             PROVE  Lawful(s, spans[s].parent, spans[s].trace)'
  BY DEF LawfulSpans
<1>1. Lawful(s, spans'[s].parent, spans'[s].trace)
  BY DEF LawfulSpans
<1> QED
  BY <1>1 DEF Lawful

LEMMA ContextsCarry ==
  ASSUME NEW n \in Signals!Ticks, NEW d \in Devices, traced'[n] = traced[n], sdk' = "off" <=> sdk = "off"
  PROVE  /\ RunContext(n)' = RunContext(n) /\ (TracedTo(n)' <=> TracedTo(n))
         /\ ReadContextOf(n, d)' = ReadContextOf(n, d)
  BY DEF ReadContextOf, RunContext, TracedTo, Signals!Empty, RunOf, ReadOf

LEMMA QueuedCarries ==
  ASSUME NEW item \in Signals!Waiting \cup {None}, NEW d \in Devices, QueuedAs(item, d),
         sdk' = "off" <=> sdk = "off", Kept(spans'),
         \A n \in Signals!Ticks : Begun(n) => Begun(n)' /\ traced'[n] = traced[n]
  PROVE  QueuedAs(item, d)'
<1> SUFFICES ASSUME item # None
             PROVE  /\ Begun(item.n)' /\ item.ctx = ReadContextOf(item.n, d)'
                    /\ TracedTo(item.n)' => spans'[ReadOf(item.n, d)] # None
  BY DEF QueuedAs
<1>1. item.n \in Signals!Ticks
  BY DEF Signals!Waiting
<1>2. Begun(item.n) /\ item.ctx = ReadContextOf(item.n, d) /\ (TracedTo(item.n) => spans[ReadOf(item.n, d)] # None)
  BY DEF QueuedAs
<1>3. Begun(item.n)' /\ traced'[item.n] = traced[item.n]
  BY <1>1, <1>2
<1>4. ReadContextOf(item.n, d)' = ReadContextOf(item.n, d) /\ (TracedTo(item.n)' <=> TracedTo(item.n))
  BY <1>1, <1>3, ContextsCarry
<1>5. ReadOf(item.n, d) \in Signals!Names
  BY <1>1, InNames DEF ReadOf, Signals!Reads
<1> QED
  BY <1>2, <1>3, <1>4, <1>5 DEF Kept

\* Steps outside of the ticks: no read's span or count changes, and what waits goes or stays.
LEMMA OutsideTicks ==
  ASSUME SignalsInv, UNCHANGED <<sigMetric, tick, traced, carrier>>,
         spans' \in [Signals!Names -> Signals!Spans \cup {None}], LawfulSpans(spans'), Kept(spans'),
         \A s \in Signals!Reads : spans'[s] = spans[s],
         sdk' \in {"off", "on", "flushing", "stopped"}, sdk' = "off" <=> sdk = "off", sdk' = "on" => sdk = "on",
         timer' \in {None, Signals!Empty},
         stopped' => timer' = None /\ (stopped \/ tick.at # "loading"),
         queue' \in [Devices -> Signals!Waiting \cup {None}],
         \A d \in Devices : queue'[d] = queue[d] \/ queue'[d] = None
  PROVE  SignalsInv'
<1>1. SignalTypes'
  BY DEF SignalsInv, SignalTypes
<1>2. \A n : Begun(n)' <=> Begun(n)
  BY DEF Begun
<1>3. LawfulSpans(spans)'
  BY <1>2, LawfulCarries
<1>4. (\A n \in Signals!Ticks : RunOf(n) \in Signals!Names)
      /\ \A n \in Signals!Ticks, d \in Devices : ReadOf(n, d) \in Signals!Reads /\ ReadOf(n, d) \in Signals!Names
  BY NameKinds, InNames DEF RunOf, ReadOf, Signals!Runs, Signals!Reads
<1>5. ContextInv'
  <2>1. Polling' = Polling /\ InHand' = InHand
    BY DEF Polling, InHand
  <2>2. \A n \in Signals!Ticks : RunContext(n)' = RunContext(n) /\ (TracedTo(n)' <=> TracedTo(n))
    BY DEF RunContext, TracedTo, Signals!Empty, RunOf
  <2> QED
    BY <1>4, <2>1, <2>2 DEF SignalsInv, ContextInv, Kept, Polling, InHand
<1>6. QueueInv'
  <2> SUFFICES ASSUME NEW d \in Devices PROVE QueuedAs(queue[d], d)'
    BY DEF QueueInv
  <2>1. CASE queue'[d] = None
    BY <2>1 DEF QueuedAs
  <2>2. CASE queue'[d] = queue[d]
    <3> DEFINE item == queue[d]
    <3>1. item \in Signals!Waiting \cup {None} /\ QueuedAs(item, d)
      BY DEF SignalsInv, SignalTypes, QueueInv
    <3>2. ASSUME NEW o \in Signals!Waiting \cup {None}, QueuedAs(o, d) PROVE QueuedAs(o, d)'
      BY <1>2, <3>2, QueuedCarries
    <3> QED
      BY <2>2, <3>1, <3>2 DEF QueuedAs
  <2> QED
    BY <2>1, <2>2
<1>7. StopInv'
  BY DEF SignalsInv, StopInv
<1>8. MetricInv'
  <2> SUFFICES ASSUME sdk' = "on" PROVE MetricInv'
    BY DEF MetricInv
  <2>1. MetricInv /\ sdk = "on"
    BY DEF SignalsInv
  <2>2. \A n \in Signals!Ticks : TickCounts(n)'
    BY <2>1 DEF MetricInv, TickCounts, Signals!Finished
  <2>3. ASSUME NEW n \in Signals!Ticks, NEW d \in Devices PROVE ReadCounts(n, d)'
    <3>1. ReadCounts(n, d) /\ spans'[ReadOf(n, d)] = spans[ReadOf(n, d)]
      BY <1>4, <2>1 DEF MetricInv
    <3> QED
      BY <1>2, <3>1 DEF ReadCounts, Signals!Finished
  <2> QED
    BY <2>1, <2>2, <2>3 DEF MetricInv, Polling, InHand
<1> QED
  BY <1>1, <1>3, <1>5, <1>6, <1>7, <1>8 DEF SignalsInv

\* Spans that start as their names say: runs, reads and publishes, calls and replies, messages.
LEMMA LawfulRun ==
  ASSUME sdk # "off", NEW s \in Signals!Runs
  PROVE  Lawful(s, None, s)
<1>1. \A m \in PolledMessages : s # MessageOf(m)
  BY KindsApart DEF MessageOf, Signals!Handled
<1>2. \A n \in Signals!Ticks, d \in Devices : s # ReadOf(n, d) /\ s # PublishOf(n, d)
  BY KindsApart DEF ReadOf, PublishOf, Signals!Reads, Signals!Published
<1> QED
  BY <1>1, <1>2 DEF Lawful

LEMMA LawfulRead ==
  ASSUME sdk # "off", NEW n \in Signals!Ticks, NEW d \in Devices, Begun(n), traced[n], NEW parent \in Signals!Names
  PROVE  Lawful(ReadOf(n, d), parent, RunOf(n)) /\ Lawful(PublishOf(n, d), parent, RunOf(n))
<1>1. parent # None
  BY BridgeAssumption
<1>2. ReadOf(n, d) \in Signals!Reads /\ PublishOf(n, d) \in Signals!Published
  BY DEF ReadOf, PublishOf, Signals!Reads, Signals!Published
<1>3. \A m \in PolledMessages : MessageOf(m) \in Signals!Handled
  BY DEF MessageOf, Signals!Handled
<1>4. \A k \in Signals!Ticks, e \in Devices :
        /\ ReadOf(k, e) \in Signals!Reads /\ PublishOf(k, e) \in Signals!Published
        /\ ReadOf(n, d) = ReadOf(k, e) => n = k
        /\ PublishOf(n, d) = PublishOf(k, e) => n = k
  BY DEF ReadOf, PublishOf, Signals!Reads, Signals!Published
<1> QED
  BY <1>1, <1>2, <1>3, <1>4, KindsApart DEF Lawful

LEMMA LawfulChild ==
  ASSUME sdk # "off", NEW s \in Signals!Calls \cup Signals!Replies, NEW parent \in Signals!Names, NEW trace
  PROVE  Lawful(s, parent, trace)
<1>1. parent # None
  BY BridgeAssumption
<1>2. \A m \in PolledMessages : MessageOf(m) \in Signals!Handled
  BY DEF MessageOf, Signals!Handled
<1>3. \A k \in Signals!Ticks, e \in Devices : ReadOf(k, e) \in Signals!Reads /\ PublishOf(k, e) \in Signals!Published
  BY DEF ReadOf, PublishOf, Signals!Reads, Signals!Published
<1> QED
  BY <1>1, <1>2, <1>3, KindsApart DEF Lawful

LEMMA LawfulMessage ==
  ASSUME sdk # "off", NEW m \in PolledMessages, NEW trace
  PROVE  Lawful(MessageOf(m), IF carrier[m] THEN Signals!Sender ELSE None, trace)
<1>1. MessageOf(m) \in Signals!Handled /\ \A o \in PolledMessages : MessageOf(m) = MessageOf(o) => m = o
  BY DEF MessageOf, Signals!Handled
<1>3. \A k \in Signals!Ticks, e \in Devices : ReadOf(k, e) \in Signals!Reads /\ PublishOf(k, e) \in Signals!Published
  BY DEF ReadOf, PublishOf, Signals!Reads, Signals!Published
<1> QED
  BY <1>1, <1>3, KindsApart DEF Lawful

\* The trace of a read that was started is its tick's.
LEMMA ReadTrace ==
  ASSUME SignalTypes, LawfulSpans(spans), NEW n \in Signals!Ticks, NEW d \in Devices
  PROVE  /\ spans[ReadOf(n, d)] # None => Signals!TraceOf(ReadOf(n, d)) = RunOf(n)
         /\ spans[RunOf(n)] # None => Signals!TraceOf(RunOf(n)) = RunOf(n)
         /\ RunOf(n) # None
<1>1. ReadOf(n, d) \in Signals!Names /\ RunOf(n) \in Signals!Names /\ RunOf(n) \in Signals!Runs
  BY NameKinds, InNames
<1>2. None \notin Signals!Names /\ Signals!Sender \notin Signals!Names
  <2>1. \A s \in Signals!Names : s[1] # "sender"
    BY DEF Signals!Names, Signals!Runs, Signals!Reads, Signals!Calls, Signals!Published, Signals!Handled,
           Signals!Replies
  <2> QED
    BY <2>1, BridgeAssumption DEF Signals!Sender
<1>3. spans[ReadOf(n, d)] # None => spans[ReadOf(n, d)].trace = RunOf(n)
  BY <1>1 DEF LawfulSpans, Lawful
<1>4. spans[RunOf(n)] # None => spans[RunOf(n)].trace = RunOf(n)
  BY <1>1 DEF LawfulSpans, Lawful
<1>5. \A s \in Signals!Names : Signals!TraceOf(s) = IF spans[s] = None THEN None ELSE spans[s].trace
  BY <1>2 DEF Signals!TraceOf
<1> QED
  BY <1>1, <1>2, <1>3, <1>4, <1>5

\* publishNext: the value's own context joins the publish to the read that saw it.
LEMMA PublishInv ==
  ASSUME SignalsInv, NEW d \in Devices, Signals!publishNext(d)
  PROVE  SignalsInv'
<1> DEFINE n == queue[d].n
           ctx == queue[d].ctx
           name == PublishOf(n, d)
<1>1. /\ queue[d] # None /\ queue' = [queue EXCEPT ![d] = None]
      /\ spans' = Signals!Started(name, ctx, FALSE)
      /\ UNCHANGED <<sdk, sigMetric, timer, tick, traced, carrier, stopped>>
  BY DEF Signals!publishNext, Signals!Restored, Signals!poll, Signals!inbound, PublishOf
<1>2. queue[d] \in Signals!Waiting /\ n \in Signals!Ticks /\ ctx \in Signals!Contexts
  BY <1>1 DEF SignalsInv, SignalTypes, Signals!Waiting
<1>3. Begun(n) /\ ctx = ReadContextOf(n, d) /\ (TracedTo(n) => spans[ReadOf(n, d)] # None)
  BY <1>1 DEF SignalsInv, QueueInv, QueuedAs
<1>4. name \in Signals!Published /\ name \in Signals!Names /\ ReadOf(n, d) \in Signals!Names
  BY <1>2, NameKinds, InNames DEF ReadOf, PublishOf, Signals!Reads, Signals!Published
<1>5. SignalTypes /\ LawfulSpans(spans)
  BY DEF SignalsInv
<1>6. ASSUME Signals!Recording(ctx)
      PROVE  LET trace == Signals!TraceOf(ctx.span)
             IN  Lawful(name, ctx.span, IF trace = None THEN name ELSE trace)
  <2>1. sdk # "off" /\ ~ctx.suppressed
    BY <1>6 DEF Signals!Recording
  <2>2. TracedTo(n) /\ ctx.span = ReadOf(n, d)
    BY <1>3, <2>1 DEF ReadContextOf, TracedTo, RunContext
  <2>3. Signals!TraceOf(ctx.span) = RunOf(n) /\ RunOf(n) # None
    BY <1>2, <1>3, <1>5, <2>2, ReadTrace
  <2>4. Lawful(name, ReadOf(n, d), RunOf(n))
    BY <1>2, <1>3, <1>4, <2>1, <2>2, LawfulRead DEF TracedTo
  <2> QED
    BY <2>2, <2>3, <2>4
<1> HIDE DEF n, ctx, name
<1>7. /\ spans' \in [Signals!Names -> Signals!Spans \cup {None}] /\ LawfulSpans(spans') /\ Kept(spans')
      /\ \A s \in Signals!Names : s # name => spans'[s] = spans[s]
  BY <1>1, <1>2, <1>4, <1>5, <1>6, LawfulStart
<1>8. \A s \in Signals!Reads : spans'[s] = spans[s]
  BY <1>4, <1>7, KindsApart, InNames
<1>9. /\ queue' \in [Devices -> Signals!Waiting \cup {None}]
      /\ \A e \in Devices : queue'[e] = queue[e] \/ queue'[e] = None
  BY <1>1, <1>5 DEF SignalTypes
<1> QED
  BY <1>1, <1>5, <1>7, <1>8, <1>9, OutsideTicks DEF SignalTypes, SignalsInv, StopInv

LEMMA EndsElsewhere ==
  ASSUME SignalsInv, NEW store \in [Signals!Names -> Signals!Spans \cup {None}], LawfulSpans(store), Kept(store),
         NEW name \in Signals!Names, NEW error \in BOOLEAN
  PROVE  LET ended == Signals!Ended(store, name, error)
         IN  /\ ended \in [Signals!Names -> Signals!Spans \cup {None}] /\ LawfulSpans(ended) /\ Kept(ended)
             /\ \A s \in Signals!Names : s # name => ended[s] = store[s]
<1> DEFINE ended == Signals!Ended(store, name, error)
<1>1. /\ ended \in [Signals!Names -> Signals!Spans \cup {None}]
      /\ \A s \in Signals!Names : (s # name => ended[s] = store[s]) /\ (ended[s] # None <=> store[s] # None)
  BY EndedSpan
<1>2. LawfulSpans(ended)
  BY LawfulEnd
<1> HIDE DEF ended
<1> QED
  BY <1>1, <1>2 DEF ended, Kept

LEMMA SentInv ==
  ASSUME SignalsInv, NEW name \in Signals!Published, NEW error \in BOOLEAN, Signals!Sent(name, error)
  PROVE  SignalsInv'
<1>1. spans' = Signals!Ended(spans, name, error)
      /\ UNCHANGED <<sdk, sigMetric, timer, tick, traced, queue, carrier, stopped>>
  BY DEF Signals!Sent, Signals!poll, Signals!dispatch, Signals!inbound
<1>2. SignalTypes /\ LawfulSpans(spans) /\ Kept(spans) /\ name \in Signals!Names
  BY InNames DEF SignalsInv, Kept
<1>3. /\ spans' \in [Signals!Names -> Signals!Spans \cup {None}] /\ LawfulSpans(spans') /\ Kept(spans')
      /\ \A s \in Signals!Names : s # name => spans'[s] = spans[s]
  BY <1>1, <1>2, EndsElsewhere DEF SignalTypes
<1>4. \A s \in Signals!Reads : spans'[s] = spans[s]
  BY <1>3, KindsApart, InNames
<1> QED
  BY <1>1, <1>2, <1>3, <1>4, OutsideTicks DEF SignalTypes, SignalsInv, StopInv

LEMMA ParentContext ==
  ASSUME SignalTypes, NEW m \in PolledMessages
  PROVE  LET ctx == Signals!ParentOf(m)
         IN  /\ ctx \in Signals!Contexts /\ ctx.suppressed = FALSE
             /\ ctx.span = IF carrier[m] THEN Signals!Sender ELSE None
  BY DEF Signals!ParentOf, Signals!Contexts, Signals!Empty

LEMMA ConsumeInv ==
  ASSUME SignalsInv, NEW m \in PolledMessages, Signals!Consume(m)
  PROVE  SignalsInv'
<1> DEFINE ctx == Signals!ParentOf(m)
           root == ~carrier[m]
           name == MessageOf(m)
<1>1. spans' = Signals!Started(name, ctx, root)
      /\ UNCHANGED <<sdk, sigMetric, timer, tick, traced, queue, carrier, stopped>>
  BY DEF Signals!Consume, Signals!poll, Signals!dispatch, MessageOf
<1>2. SignalTypes /\ LawfulSpans(spans) /\ name \in Signals!Handled /\ name \in Signals!Names
  BY MessageNames, InNames DEF SignalsInv
<1>3. ctx \in Signals!Contexts /\ ctx.span = (IF carrier[m] THEN Signals!Sender ELSE None) /\ root \in BOOLEAN
  BY <1>2, ParentContext
<1>4. ASSUME Signals!Recording(ctx)
      PROVE  LET parent == IF root THEN None ELSE ctx.span
                 trace == Signals!TraceOf(parent)
             IN  Lawful(name, parent, IF trace = None THEN name ELSE trace)
  BY <1>3, <1>4, LawfulMessage DEF Signals!Recording
<1> HIDE DEF ctx, root, name
<1>5. /\ spans' \in [Signals!Names -> Signals!Spans \cup {None}] /\ LawfulSpans(spans') /\ Kept(spans')
      /\ \A s \in Signals!Names : s # name => spans'[s] = spans[s]
  BY <1>1, <1>2, <1>3, <1>4, LawfulStart, ZenonT(60)
<1>6. \A s \in Signals!Reads : spans'[s] = spans[s]
  BY <1>2, <1>5, KindsApart, InNames
<1> QED
  BY <1>1, <1>2, <1>5, <1>6, OutsideTicks DEF SignalTypes, SignalsInv, StopInv

LEMMA RespondInv ==
  ASSUME SignalsInv, NEW m \in PolledMessages, Signals!Respond(m)
  PROVE  SignalsInv'
<1> DEFINE ctx == Signals!Inside(MessageOf(m), Signals!ParentOf(m))
           reply == ReplyOf(m)
           started == Signals!Started(reply, ctx, FALSE)
           replied == Signals!Ended(started, reply, FALSE)
<1>1. spans' = Signals!Ended(replied, MessageOf(m), FALSE)
      /\ UNCHANGED <<sdk, sigMetric, timer, tick, traced, queue, carrier, stopped>>
  BY DEF Signals!Respond, Signals!poll, Signals!dispatch, MessageOf, ReplyOf
<1>2. /\ SignalTypes /\ LawfulSpans(spans)
      /\ reply \in Signals!Replies /\ reply \in Signals!Names
      /\ MessageOf(m) \in Signals!Handled /\ MessageOf(m) \in Signals!Names
  BY MessageNames, InNames DEF SignalsInv
<1>3. /\ ctx \in Signals!Contexts
      /\ Signals!Recording(ctx) => sdk # "off" /\ ctx.span = MessageOf(m)
  <2> DEFINE from == Signals!ParentOf(m)
  <2>1. from \in Signals!Contexts /\ from.suppressed = FALSE
    BY <1>2, ParentContext
  <2> HIDE DEF from
  <2>2. ctx = IF Signals!Recording(from) THEN [from EXCEPT !.span = MessageOf(m)] ELSE from
    BY DEF Signals!Inside, from
  <2> QED
    BY <1>2, <2>1, <2>2 DEF Signals!Recording, Signals!Contexts
<1> HIDE DEF ctx
<1>4. ASSUME Signals!Recording(ctx)
      PROVE  LET trace == Signals!TraceOf(ctx.span)
             IN  Lawful(reply, ctx.span, IF trace = None THEN reply ELSE trace)
  BY <1>2, <1>3, <1>4, LawfulChild
<1> HIDE DEF reply
<1>5. /\ started \in [Signals!Names -> Signals!Spans \cup {None}] /\ LawfulSpans(started) /\ Kept(started)
      /\ \A s \in Signals!Names : s # reply => started[s] = spans[s]
  BY <1>2, <1>3, <1>4, LawfulStart
<1> HIDE DEF started
<1>6. /\ replied \in [Signals!Names -> Signals!Spans \cup {None}] /\ LawfulSpans(replied) /\ Kept(replied)
      /\ \A s \in Signals!Names : s # reply => replied[s] = started[s]
  BY <1>2, <1>5, EndsElsewhere
<1> HIDE DEF replied
<1>7. /\ spans' \in [Signals!Names -> Signals!Spans \cup {None}] /\ LawfulSpans(spans') /\ Kept(spans')
      /\ \A s \in Signals!Names : s # MessageOf(m) => spans'[s] = replied[s]
  BY <1>1, <1>2, <1>6, EndsElsewhere
<1>8. \A s \in Signals!Reads : spans'[s] = spans[s]
  BY <1>2, <1>5, <1>6, <1>7, KindsApart, InNames
<1> QED
  BY <1>1, <1>2, <1>7, <1>8, OutsideTicks DEF SignalTypes, SignalsInv, StopInv

\* The steps that start and end no span.
LEMMA QuietInv ==
  ASSUME SignalsInv,
         \/ Signals!Offline \/ Signals!Reconnect \/ Signals!Stop \/ Signals!Shutdown \/ Signals!FlushEnds
  PROVE  SignalsInv'
<1>1. UNCHANGED <<spans, sigMetric, tick, traced, carrier>>
  BY DEF Signals!Offline, Signals!Reconnect, Signals!Stop, Signals!Shutdown, Signals!FlushEnds, Signals!poll,
         Signals!dispatch, Signals!inbound
<1>2. SignalTypes /\ LawfulSpans(spans) /\ Kept(spans)
  BY DEF SignalsInv, Kept
<1>3. /\ sdk' \in {"off", "on", "flushing", "stopped"} /\ (sdk' = "off" <=> sdk = "off")
      /\ sdk' = "on" => sdk = "on"
  BY <1>2 DEF SignalTypes, Signals!Offline, Signals!Reconnect, Signals!Stop, Signals!Shutdown, Signals!FlushEnds
<1>4. /\ queue' \in [Devices -> Signals!Waiting \cup {None}]
      /\ \A d \in Devices : queue'[d] = queue[d] \/ queue'[d] = None
  <2>1. queue' = queue \/ queue' = [d \in Devices |-> None]
    BY DEF Signals!Offline, Signals!Reconnect, Signals!Stop, Signals!Shutdown, Signals!FlushEnds, Signals!dispatch
  <2> QED
    BY <1>2, <2>1 DEF SignalTypes
<1>5. /\ timer' \in {None, Signals!Empty}
      /\ stopped' => timer' = None /\ (stopped \/ tick.at # "loading")
  BY <1>2 DEF SignalTypes, SignalsInv, StopInv, Signals!Offline, Signals!Reconnect, Signals!Stop, Signals!Shutdown,
              Signals!FlushEnds, Signals!poll
<1> QED
  BY <1>1, <1>2, <1>3, <1>4, <1>5, OutsideTicks DEF SignalTypes

\* Steps of a tick: what is left to show of them is the context and the counts.
LEMMA TickStep ==
  ASSUME SignalsInv, UNCHANGED <<sdk, carrier, stopped>>, tick' \in TickStates, timer' \in {None, Signals!Empty},
         stopped => timer' = None /\ tick'.at # "loading",
         spans' \in [Signals!Names -> Signals!Spans \cup {None}], LawfulSpans(spans'), Kept(spans'),
         sigMetric' \in [Counted -> Counts], traced' \in [Signals!Ticks -> BOOLEAN],
         \A n \in Signals!Ticks : Begun(n) => Begun(n)' /\ traced'[n] = traced[n],
         queue' \in [Devices -> Signals!Waiting \cup {None}],
         \A d \in Devices : queue'[d] = queue[d] \/ QueuedAs(queue[d], d)',
         ContextInv', MetricInv'
  PROVE  SignalsInv'
<1>1. SignalTypes'
  BY DEF SignalsInv, SignalTypes
<1>2. LawfulSpans(spans)'
  BY LawfulCarries
<1>3. QueueInv'
  <2> SUFFICES ASSUME NEW d \in Devices, queue'[d] = queue[d] PROVE QueuedAs(queue[d], d)'
    BY DEF QueueInv
  <2> DEFINE item == queue[d]
  <2>1. item \in Signals!Waiting \cup {None} /\ QueuedAs(item, d)
    BY DEF SignalsInv, SignalTypes, QueueInv
  <2>2. ASSUME NEW o \in Signals!Waiting \cup {None}, QueuedAs(o, d) PROVE QueuedAs(o, d)'
    BY <2>2, QueuedCarries
  <2> QED
    BY <2>1, <2>2 DEF QueuedAs
<1>4. StopInv'
  BY DEF StopInv
<1> QED
  BY <1>1, <1>2, <1>3, <1>4 DEF SignalsInv

LEMMA CountNames ==
  ASSUME NEW n \in Signals!Ticks, NEW d \in Devices
  PROVE  /\ RunOf(n) \in Counted /\ SkipOf(n) \in Counted /\ Loading \in Counted
         /\ ReadOf(n, d) \in Counted /\ CallOf(n, d) \in Counted
         /\ <<"refused", n, d>> \in Counted /\ <<"unresolved", n, d>> \in Counted
  BY NameKinds, InNames DEF Counted, Signals!Refusals, Signals!Unresolved

\* Keys of different counts are different, whatever they are of.
LEMMA CountsApart ==
  ASSUME NEW n, NEW k, NEW d, NEW e
  PROVE  /\ RunOf(n) # SkipOf(k) /\ RunOf(n) # ReadOf(k, e) /\ RunOf(n) # CallOf(k, e)
         /\ SkipOf(n) # ReadOf(k, e) /\ SkipOf(n) # CallOf(k, e) /\ ReadOf(n, d) # CallOf(k, e)
         /\ Loading # RunOf(n) /\ Loading # SkipOf(n) /\ Loading # ReadOf(n, d) /\ Loading # CallOf(n, d)
         /\ <<"refused", n, d>> \notin {RunOf(k), SkipOf(k), ReadOf(k, e), CallOf(k, e)}
         /\ <<"unresolved", n, d>> \notin {RunOf(k), SkipOf(k), ReadOf(k, e), CallOf(k, e)}
         /\ ReadOf(n, d) = ReadOf(k, e) => n = k /\ d = e
         /\ CallOf(n, d) = CallOf(k, e) => n = k /\ d = e
         /\ RunOf(n) = RunOf(k) => n = k
         /\ SkipOf(n) = SkipOf(k) => n = k
  BY DEF RunOf, SkipOf, ReadOf, CallOf, Loading

LEMMA ReadCountsCarry ==
  ASSUME NEW n, NEW d, ReadCounts(n, d), sigMetric'[ReadOf(n, d)] = sigMetric[ReadOf(n, d)],
         sigMetric'[CallOf(n, d)] = sigMetric[CallOf(n, d)], spans'[ReadOf(n, d)] = spans[ReadOf(n, d)],
         Begun(n) => Begun(n)',
         Signals!Finished(n)' => sigMetric'[ReadOf(n, d)].times <= sigMetric'[RunOf(n)].times
  PROVE  ReadCounts(n, d)'
  BY DEF ReadCounts

\* The context inside of a read that is under way.
LEMMA ContextOfRead ==
  ASSUME SignalTypes, ContextInv, InHand
  PROVE  /\ tick.n \in Signals!Ticks /\ tick.device \in Devices
         /\ Signals!ReadContext = ReadContextOf(tick.n, tick.device)
         /\ Signals!ReadContext \in Signals!Contexts
         /\ Signals!Recording(Signals!ReadContext) =>
              sdk # "off" /\ Signals!ReadContext.span = ReadOf(tick.n, tick.device)
<1> DEFINE n == tick.n
           d == tick.device
<1>0. \A c, x, y, b : c = [span |-> x, suppressed |-> b] => [c EXCEPT !.span = y] = [span |-> y, suppressed |-> b]
  OBVIOUS
<1>1. n \in Signals!Ticks /\ d \in Devices /\ tick.ctx = RunContext(n) /\ traced[n] \in BOOLEAN
  BY DEF ContextInv, InHand, Polling, SignalTypes
<1>2. Signals!Read = ReadOf(n, d) /\ ReadOf(n, d) \in Signals!Names /\ RunOf(n) \in Signals!Names
  BY <1>1, NameKinds, InNames DEF Signals!Read, ReadOf
<1>3. Signals!ReadContext = Signals!Inside(ReadOf(n, d), RunContext(n))
  BY <1>1, <1>2 DEF Signals!ReadContext
<1> HIDE DEF n, d
<1>4. CASE TracedTo(n)
  <2>1. RunContext(n) = [span |-> RunOf(n), suppressed |-> FALSE] /\ sdk # "off"
    BY <1>4 DEF RunContext, TracedTo
  <2>2. Signals!ReadContext = [span |-> ReadOf(n, d), suppressed |-> FALSE]
    <3>1. Signals!Recording(RunContext(n))
      BY <2>1 DEF Signals!Recording
    <3>2. Signals!ReadContext = [RunContext(n) EXCEPT !.span = ReadOf(n, d)]
      BY <1>3, <3>1 DEF Signals!Inside
    <3>3. PICK b : b = FALSE
      OBVIOUS
    <3>4. RunContext(n) = [span |-> RunOf(n), suppressed |-> b]
      BY <2>1, <3>3, Zenon
    <3>5. Signals!ReadContext = [span |-> ReadOf(n, d), suppressed |-> b]
      BY <1>0, <3>2, <3>4
    <3> QED
      BY <3>3, <3>5, Zenon
  <2> QED
    BY <1>1, <1>2, <1>4, <2>1, <2>2 DEF ReadContextOf, Signals!Contexts, n, d
<1>5. CASE ~TracedTo(n)
  <2>1. ~Signals!Recording(RunContext(n)) /\ RunContext(n) \in Signals!Contexts
    BY <1>1, <1>5 DEF RunContext, TracedTo, Signals!Recording, Signals!Empty, Signals!Contexts
  <2>2. Signals!ReadContext = RunContext(n)
    BY <1>3, <2>1 DEF Signals!Inside
  <2> QED
    BY <1>1, <1>5, <2>1, <2>2 DEF ReadContextOf, n, d
<1> QED
  BY <1>4, <1>5

\* readDevice is over: an item of the tick, with its span's outcome.
LEMMA ReadOver ==
  ASSUME SignalsInv, InHand, NEW n, NEW d, n = tick.n, d = tick.device, NEW error \in BOOLEAN,
         NEW store \in [Signals!Names -> Signals!Spans \cup {None}], LawfulSpans(store), Kept(store),
         \A s \in Signals!Reads : store[s] = spans[s],
         NEW counted \in [Counted -> Counts],
         \A k \in Signals!Ticks : counted[RunOf(k)] = sigMetric[RunOf(k)] /\ counted[SkipOf(k)] = sigMetric[SkipOf(k)],
         \A k \in Signals!Ticks, e \in Devices :
            /\ counted[ReadOf(k, e)] = sigMetric[ReadOf(k, e)]
            /\ \/ counted[CallOf(k, e)] = sigMetric[CallOf(k, e)]
               \/ k = n /\ e = d /\ (counted[CallOf(k, e)].outcome = "error" => error),
         spans' = Signals!Ended(store, Signals!Read, error),
         sigMetric' = Signals!Recorded(counted, Signals!Read, IF error THEN "failure" ELSE "success"),
         tick' = [tick EXCEPT !.at = "next", !.device = None],
         UNCHANGED <<sdk, timer, traced, carrier, stopped>>,
         queue' \in [Devices -> Signals!Waiting \cup {None}],
         \A e \in Devices : queue'[e] = queue[e] \/ (e = d /\ queue'[e] = [n |-> n, ctx |-> Signals!ReadContext])
  PROVE  SignalsInv'
<1> DEFINE item == ReadOf(n, d)
<1>1. SignalTypes /\ LawfulSpans(spans) /\ ContextInv
  BY DEF SignalsInv
<1>2. /\ n \in Signals!Ticks /\ d \in Devices /\ Signals!ReadContext = ReadContextOf(n, d)
      /\ Signals!ReadContext \in Signals!Contexts
  BY <1>1, ContextOfRead
<1>3. item = Signals!Read /\ item \in Signals!Reads /\ item \in Signals!Names /\ item \in Counted
  BY <1>2, NameKinds, CountNames, InNames DEF Signals!Read, ReadOf
<1>4. /\ spans' \in [Signals!Names -> Signals!Spans \cup {None}] /\ LawfulSpans(spans') /\ Kept(spans')
      /\ \A s \in Signals!Names : s # item => spans'[s] = store[s]
      /\ spans'[item] # None <=> store[item] # None
      /\ store[item] # None => (spans'[item].error <=> store[item].error \/ error)
  BY <1>3, EndsElsewhere, EndedSpan
<1>5. /\ sigMetric' \in [Counted -> Counts]
      /\ \A k \in Counted : k # item => sigMetric'[k] = counted[k]
      /\ sdk = "on" => /\ sigMetric'[item].times = counted[item].times + 1
                       /\ sigMetric'[item].outcome = IF error THEN "failure" ELSE "success"
  <2>1. (IF error THEN "failure" ELSE "success") \in Outcomes
    BY DEF Outcomes
  <2> QED
    BY <1>3, <2>1, RecordedCount
<1>6. /\ tick' \in TickStates /\ tick'.n = n /\ tick'.at = "next" /\ tick'.todo = tick.todo /\ tick'.ctx = tick.ctx
      /\ Polling /\ Polling' /\ ~InHand'
  BY <1>1 DEF SignalTypes, TickStates, Polling, InHand
<1>7. \A k : (Begun(k)' <=> Begun(k)) /\ (Signals!Finished(k)' <=> Signals!Finished(k))
  BY <1>6 DEF Begun, Signals!Finished, InHand
<1>8. ~Signals!Finished(n) /\ Begun(n)
  <2>1. tick.n \in Nat
    BY <1>1 DEF SignalTypes, TickStates
  <2> QED
    BY <2>1 DEF Begun, Signals!Finished, InHand
<1>9. ContextInv'
  <2>1. RunContext(n)' = RunContext(n) /\ (TracedTo(n)' <=> TracedTo(n))
    BY <1>6 DEF RunContext, TracedTo, Signals!Empty, RunOf
  <2>2. RunOf(n) \in Signals!Names
    BY <1>2, NameKinds, InNames
  <2> QED
    BY <1>1, <1>2, <1>4, <1>6, <2>1, <2>2 DEF ContextInv, Kept
<1>10. \A e \in Devices : queue'[e] = queue[e] \/ QueuedAs(queue[e], e)'
  <2> SUFFICES ASSUME queue'[d] = [n |-> n, ctx |-> ReadContextOf(n, d)] PROVE QueuedAs(queue[d], d)'
    BY <1>2
  <2>1. queue'[d].n = n /\ queue'[d].ctx = ReadContextOf(n, d)
    OBVIOUS
  <2>2. ReadContextOf(n, d)' = ReadContextOf(n, d) /\ (TracedTo(n)' <=> TracedTo(n))
    BY <1>2, ContextsCarry
  <2>3. TracedTo(n) => spans'[item] # None
    BY <1>1, <1>3, <1>4 DEF ContextInv, Kept
  <2>4. Begun(n)'
    BY <1>7, <1>8
  <2> QED
    BY <2>1, <2>2, <2>3, <2>4 DEF QueuedAs
<1>11. MetricInv'
  <2> SUFFICES ASSUME sdk = "on" PROVE MetricInv'
    BY DEF MetricInv
  <2>1. MetricInv
    BY DEF SignalsInv
  <2>2. ASSUME NEW k \in Signals!Ticks
        PROVE  /\ sigMetric'[RunOf(k)] = sigMetric[RunOf(k)] /\ sigMetric'[SkipOf(k)] = sigMetric[SkipOf(k)]
               /\ TickCounts(k)'
    <3>1. RunOf(k) \in Counted /\ SkipOf(k) \in Counted /\ RunOf(k) # item /\ SkipOf(k) # item
      BY <1>2, CountNames DEF RunOf, SkipOf, ReadOf
    <3>2. sigMetric'[RunOf(k)] = sigMetric[RunOf(k)] /\ sigMetric'[SkipOf(k)] = sigMetric[SkipOf(k)]
      BY <1>5, <3>1
    <3> QED
      BY <1>7, <2>1, <3>2 DEF MetricInv, TickCounts
  <2>3. ASSUME NEW k \in Signals!Ticks, NEW e \in Devices, k # n \/ e # d
        PROVE  ReadCounts(k, e)' /\ sigMetric'[ReadOf(k, e)] = sigMetric[ReadOf(k, e)]
    <3>1. ReadOf(k, e) # item /\ CallOf(k, e) # item
      BY <2>3, CountsApart
    <3>2. ReadOf(k, e) \in Counted /\ CallOf(k, e) \in Counted /\ ReadOf(k, e) \in Signals!Reads
          /\ ReadOf(k, e) \in Signals!Names
      BY CountNames, NameKinds, InNames
    <3>3. sigMetric'[ReadOf(k, e)] = sigMetric[ReadOf(k, e)] /\ sigMetric'[CallOf(k, e)] = sigMetric[CallOf(k, e)]
          /\ spans'[ReadOf(k, e)] = spans[ReadOf(k, e)]
      BY <1>4, <1>5, <2>3, <3>1, <3>2
    <3>4. ReadCounts(k, e)
      BY <2>1 DEF MetricInv
    <3>5. Signals!Finished(k)' => sigMetric'[ReadOf(k, e)].times <= sigMetric'[RunOf(k)].times
      BY <1>7, <2>2, <3>3, <3>4 DEF ReadCounts
    <3> QED
      BY <1>7, <3>3, <3>4, <3>5, ReadCountsCarry
  <2>4. ReadCounts(n, d)'
    <3>1. ReadCounts(n, d) /\ sigMetric[item].times = 0
      BY <1>2, <2>1 DEF MetricInv
    <3>2. sigMetric'[item].times = 1 /\ sigMetric'[item].outcome = (IF error THEN "failure" ELSE "success")
      BY <1>2, <1>5, <3>1
    <3>3. store[item] = spans[item] /\ (spans[item] # None => ~spans[item].error)
      BY <1>3, <3>1 DEF ReadCounts
    <3>4. CallOf(n, d) \in Counted /\ CallOf(n, d) # item
      BY <1>2, CountNames DEF CallOf, ReadOf
    <3>5. sigMetric'[CallOf(n, d)].outcome = "error" => error
      BY <1>2, <1>5, <3>1, <3>4 DEF ReadCounts
    <3>6. spans'[item] # None => (spans'[item].error <=> error)
      BY <1>4, <3>3
    <3> HIDE DEF item
    <3> QED
      BY <1>7, <1>8, <3>2, <3>5, <3>6 DEF ReadCounts, item
  <2>5. \A e \in tick.todo : e \in Devices /\ e # d /\ sigMetric[ReadOf(n, e)].times = 0
    BY <1>1, <1>6, <2>1 DEF MetricInv, SignalTypes, TickStates
  <2> QED
    BY <1>2, <1>6, <2>2, <2>3, <2>4, <2>5 DEF MetricInv
<1> HIDE DEF item
<1>12. timer' \in {None, Signals!Empty} /\ traced' \in [Signals!Ticks -> BOOLEAN]
       /\ (stopped => timer' = None /\ tick'.at # "loading")
  BY <1>1, <1>6 DEF SignalTypes, SignalsInv, StopInv
<1> QED
  BY <1>4, <1>5, <1>6, <1>7, <1>9, <1>10, <1>11, <1>12, TickStep

LEMMA StoredAlike ==
  ASSUME SignalsInv
  PROVE  /\ spans \in [Signals!Names -> Signals!Spans \cup {None}] /\ LawfulSpans(spans) /\ Kept(spans)
         /\ sigMetric \in [Counted -> Counts] /\ queue \in [Devices -> Signals!Waiting \cup {None}]
         /\ traced \in [Signals!Ticks -> BOOLEAN] /\ timer \in {None, Signals!Empty} /\ tick \in TickStates
         /\ tick.n \in 0 .. MaxTicks
  BY DEF SignalsInv, SignalTypes, Kept, TickStates

\* What is counted beside of a read that is under way.
LEMMA CountedBeside ==
  ASSUME NEW metric \in [Counted -> Counts], NEW n \in Signals!Ticks, NEW d \in Devices,
         NEW key, key = CallOf(n, d) \/ key = <<"refused", n, d>> \/ key = <<"unresolved", n, d>>,
         NEW ended \in Outcomes
  PROVE  LET counted == Signals!Recorded(metric, key, ended)
         IN  /\ counted \in [Counted -> Counts]
             /\ \A k \in Signals!Ticks : counted[RunOf(k)] = metric[RunOf(k)] /\ counted[SkipOf(k)] = metric[SkipOf(k)]
             /\ \A k \in Signals!Ticks, e \in Devices :
                  /\ counted[ReadOf(k, e)] = metric[ReadOf(k, e)]
                  /\ \/ counted[CallOf(k, e)] = metric[CallOf(k, e)]
                     \/ k = n /\ e = d /\ key = CallOf(n, d) /\ counted[CallOf(k, e)].outcome = ended
<1> DEFINE counted == Signals!Recorded(metric, key, ended)
<1>1. key \in Counted
  BY CountNames
<1>2. counted \in [Counted -> Counts] /\ \A k \in Counted : k # key => counted[k] = metric[k]
  BY <1>1, RecordedCount
<1>3. key = CallOf(n, d) => counted[key].outcome = ended \/ counted[key] = metric[key]
  <2>1. sdk # "on" => counted = metric
    BY DEF Signals!Recorded, Signals!Instruments
  <2> QED
    BY <1>1, <2>1, RecordedCount
<1> HIDE DEF counted
<1>4. ASSUME NEW k \in Signals!Ticks PROVE counted[RunOf(k)] = metric[RunOf(k)] /\ counted[SkipOf(k)] = metric[SkipOf(k)]
  <2>1. RunOf(k) # key /\ SkipOf(k) # key
    BY DEF RunOf, SkipOf, CallOf
  <2> QED
    BY <1>2, <2>1, CountNames
<1>5. ASSUME NEW k \in Signals!Ticks, NEW e \in Devices
      PROVE  /\ counted[ReadOf(k, e)] = metric[ReadOf(k, e)]
             /\ \/ counted[CallOf(k, e)] = metric[CallOf(k, e)]
                \/ k = n /\ e = d /\ key = CallOf(n, d) /\ counted[CallOf(k, e)].outcome = ended
  <2>1. ReadOf(k, e) # key
    BY DEF ReadOf, CallOf
  <2>2. CallOf(k, e) = key => k = n /\ e = d /\ key = CallOf(n, d)
    BY DEF CallOf
  <2>3. ReadOf(k, e) \in Counted /\ CallOf(k, e) \in Counted
    BY CountNames
  <2> QED
    BY <1>2, <1>3, <2>1, <2>2, <2>3
<1> QED
  BY <1>2, <1>4, <1>5 DEF counted

LEMMA NotReadInv ==
  ASSUME SignalsInv, Signals!NotRead
  PROVE  SignalsInv'
<1>1. InHand
  BY DEF Signals!NotRead, InHand
<1>2. /\ spans' = Signals!Ended(spans, Signals!Read, TRUE)
      /\ sigMetric' = Signals!Recorded(sigMetric, Signals!Read, "failure")
      /\ tick' = [tick EXCEPT !.at = "next", !.device = None]
      /\ UNCHANGED <<sdk, timer, traced, carrier, stopped, queue>>
  BY DEF Signals!NotRead, Signals!ReadFails, Signals!dispatch, Signals!inbound
<1> QED
  BY <1>1, <1>2, StoredAlike, ReadOver

LEMMA NoKeyResolvesInv ==
  ASSUME SignalsInv, Signals!NoKeyResolves
  PROVE  SignalsInv'
<1> DEFINE counted == Signals!Recorded(sigMetric, <<"unresolved", tick.n, tick.device>>, "get_properties")
<1>1. InHand /\ tick.n \in Signals!Ticks /\ tick.device \in Devices
  BY DEF Signals!NoKeyResolves, InHand, SignalsInv, ContextInv, Polling
<1>2. /\ spans' = Signals!Ended(spans, Signals!Read, FALSE)
      /\ sigMetric' = Signals!Recorded(counted, Signals!Read, "success")
      /\ tick' = [tick EXCEPT !.at = "next", !.device = None]
      /\ UNCHANGED <<sdk, timer, traced, carrier, stopped, queue>>
  BY DEF Signals!NoKeyResolves, Signals!ReadEnds, Signals!dispatch, Signals!inbound
<1>3. <<"unresolved", tick.n, tick.device>> # CallOf(tick.n, tick.device) /\ "get_properties" \in Outcomes
  BY DEF CallOf, Outcomes
<1>4. /\ counted \in [Counted -> Counts]
      /\ \A k \in Signals!Ticks : counted[RunOf(k)] = sigMetric[RunOf(k)] /\ counted[SkipOf(k)] = sigMetric[SkipOf(k)]
      /\ \A k \in Signals!Ticks, e \in Devices :
            counted[ReadOf(k, e)] = sigMetric[ReadOf(k, e)] /\ counted[CallOf(k, e)] = sigMetric[CallOf(k, e)]
  BY <1>1, <1>3, StoredAlike, CountedBeside
<1> HIDE DEF counted
<1>5. /\ spans \in [Signals!Names -> Signals!Spans \cup {None}] /\ LawfulSpans(spans) /\ Kept(spans)
      /\ queue' \in [Devices -> Signals!Waiting \cup {None}] /\ \A e \in Devices : queue'[e] = queue[e]
  BY <1>2, StoredAlike
<1>6. PICK error \in BOOLEAN : error = FALSE
  OBVIOUS
<1>7. /\ spans' = Signals!Ended(spans, Signals!Read, error)
      /\ sigMetric' = Signals!Recorded(counted, Signals!Read, IF error THEN "failure" ELSE "success")
  BY <1>2, <1>6
<1>8. \A k \in Signals!Ticks, e \in Devices :
        /\ counted[ReadOf(k, e)] = sigMetric[ReadOf(k, e)]
        /\ \/ counted[CallOf(k, e)] = sigMetric[CallOf(k, e)]
           \/ k = tick.n /\ e = tick.device /\ (counted[CallOf(k, e)].outcome = "error" => error)
  BY <1>4
<1>9. /\ tick' = [tick EXCEPT !.at = "next", !.device = None] /\ UNCHANGED <<sdk, timer, traced, carrier, stopped>>
      /\ counted \in [Counted -> Counts]
      /\ \A k \in Signals!Ticks : counted[RunOf(k)] = sigMetric[RunOf(k)] /\ counted[SkipOf(k)] = sigMetric[SkipOf(k)]
  BY <1>2, <1>4
<1> QED
  BY <1>1, <1>5, <1>7, <1>8, <1>9, ReadOver

\* A call that was made: its span ended in the read's, and its own outcome counted.
LEMMA CallOver ==
  ASSUME SignalsInv, tick.at = "calling", NEW error \in BOOLEAN,
         NEW counted \in [Counted -> Counts],
         \A k \in Signals!Ticks : counted[RunOf(k)] = sigMetric[RunOf(k)] /\ counted[SkipOf(k)] = sigMetric[SkipOf(k)],
         \A k \in Signals!Ticks, e \in Devices :
            /\ counted[ReadOf(k, e)] = sigMetric[ReadOf(k, e)]
            /\ \/ counted[CallOf(k, e)] = sigMetric[CallOf(k, e)]
               \/ k = tick.n /\ e = tick.device /\ (counted[CallOf(k, e)].outcome = "error" => error),
         spans' = Signals!Ended(Signals!Ended(spans, Signals!Call, error), Signals!Read, error),
         sigMetric' = Signals!Recorded(counted, Signals!Read, IF error THEN "failure" ELSE "success"),
         tick' = [tick EXCEPT !.at = "next", !.device = None],
         UNCHANGED <<sdk, timer, traced, carrier, stopped>>,
         \/ UNCHANGED queue
         \/ queue' = [queue EXCEPT ![tick.device] = [n |-> tick.n, ctx |-> Signals!ReadContext]]
  PROVE  SignalsInv'
<1> DEFINE store == Signals!Ended(spans, Signals!Call, error)
           item == [n |-> tick.n, ctx |-> Signals!ReadContext]
<1>1. InHand /\ SignalTypes /\ ContextInv
  BY DEF InHand, SignalsInv
<1>2. tick.n \in Signals!Ticks /\ tick.device \in Devices /\ Signals!ReadContext \in Signals!Contexts
  BY <1>1, ContextOfRead
<1>3. Signals!Call \in Signals!Calls /\ Signals!Call \in Signals!Names
  BY <1>2, InNames DEF Signals!Call, Signals!Calls
<1>4. /\ store \in [Signals!Names -> Signals!Spans \cup {None}] /\ LawfulSpans(store) /\ Kept(store)
      /\ \A s \in Signals!Names : s # Signals!Call => store[s] = spans[s]
  BY <1>3, StoredAlike, EndsElsewhere
<1>5. \A s \in Signals!Reads : store[s] = spans[s]
  BY <1>3, <1>4, KindsApart, InNames
<1> HIDE DEF store
<1>6. item \in Signals!Waiting
  BY <1>2 DEF Signals!Waiting
<1> HIDE DEF item
<1>7. queue' \in [Devices -> Signals!Waiting \cup {None}]
      /\ \A e \in Devices : queue'[e] = queue[e] \/ (e = tick.device /\ queue'[e] = item)
  BY <1>2, <1>6, StoredAlike DEF item
<1> QED
  BY <1>1, <1>4, <1>5, <1>7, ReadOver DEF store, item

LEMMA CallFailsInv ==
  ASSUME SignalsInv, Signals!CallFails
  PROVE  SignalsInv'
<1> DEFINE counted == Signals!Recorded(sigMetric, CallOf(tick.n, tick.device), "error")
<1>1. tick.at = "calling" /\ tick.n \in Signals!Ticks /\ tick.device \in Devices
  BY DEF Signals!CallFails, InHand, SignalsInv, ContextInv, Polling
<1>2. /\ spans' = Signals!Ended(Signals!Ended(spans, Signals!Call, TRUE), Signals!Read, TRUE)
      /\ sigMetric' = Signals!Recorded(counted, Signals!Read, "failure")
      /\ tick' = [tick EXCEPT !.at = "next", !.device = None]
      /\ UNCHANGED <<sdk, timer, traced, carrier, stopped, queue>>
  BY DEF Signals!CallFails, Signals!ReadFails, Signals!dispatch, Signals!inbound, Signals!Call, CallOf
<1>3. /\ counted \in [Counted -> Counts]
      /\ \A k \in Signals!Ticks : counted[RunOf(k)] = sigMetric[RunOf(k)] /\ counted[SkipOf(k)] = sigMetric[SkipOf(k)]
      /\ \A k \in Signals!Ticks, e \in Devices :
            /\ counted[ReadOf(k, e)] = sigMetric[ReadOf(k, e)]
            /\ \/ counted[CallOf(k, e)] = sigMetric[CallOf(k, e)]
               \/ k = tick.n /\ e = tick.device /\ counted[CallOf(k, e)].outcome = "error"
  <2>1. "error" \in Outcomes
    BY DEF Outcomes
  <2>2. sigMetric \in [Counted -> Counts]
    BY StoredAlike
  <2> QED
    BY <1>1, <2>1, <2>2, CountedBeside, SMTT(30)
<1> HIDE DEF counted
<1> QED
  BY <1>1, <1>2, <1>3, CallOver

LEMMA CallSucceedsInv ==
  ASSUME SignalsInv, Signals!PropertyRefused \/ Signals!Unchanged \/ Signals!Changed
  PROVE  SignalsInv'
<1> DEFINE called == Signals!Recorded(sigMetric, CallOf(tick.n, tick.device), "ok")
           refused == Signals!Recorded(called, <<"refused", tick.n, tick.device>>, "code")
<1>1. tick.at = "calling" /\ tick.n \in Signals!Ticks /\ tick.device \in Devices
  BY DEF Signals!PropertyRefused, Signals!Unchanged, Signals!Changed, InHand, SignalsInv, ContextInv, Polling
<1>2. /\ spans' = Signals!Ended(Signals!Ended(spans, Signals!Call, FALSE), Signals!Read, FALSE)
      /\ \/ sigMetric' = Signals!Recorded(called, Signals!Read, "success")
         \/ sigMetric' = Signals!Recorded(refused, Signals!Read, "success")
      /\ tick' = [tick EXCEPT !.at = "next", !.device = None]
      /\ UNCHANGED <<sdk, timer, traced, carrier, stopped>>
      /\ \/ UNCHANGED queue
         \/ queue' = [queue EXCEPT ![tick.device] = [n |-> tick.n, ctx |-> Signals!ReadContext]]
  BY DEF Signals!PropertyRefused, Signals!Unchanged, Signals!Changed, Signals!ReadEnds, Signals!dispatch,
         Signals!inbound, Signals!Call, CallOf
<1>3. "ok" \in Outcomes /\ "code" \in Outcomes
  BY DEF Outcomes
<1>4. /\ called \in [Counted -> Counts]
      /\ \A k \in Signals!Ticks : called[RunOf(k)] = sigMetric[RunOf(k)] /\ called[SkipOf(k)] = sigMetric[SkipOf(k)]
      /\ \A k \in Signals!Ticks, e \in Devices :
            /\ called[ReadOf(k, e)] = sigMetric[ReadOf(k, e)]
            /\ \/ called[CallOf(k, e)] = sigMetric[CallOf(k, e)]
               \/ k = tick.n /\ e = tick.device /\ called[CallOf(k, e)].outcome # "error"
  <2>1. sigMetric \in [Counted -> Counts]
    BY StoredAlike
  <2> QED
    BY <1>1, <1>3, <2>1, CountedBeside, SMTT(30)
<1> HIDE DEF called
<1>5. <<"refused", tick.n, tick.device>> # CallOf(tick.n, tick.device)
  BY DEF CallOf
<1>6. /\ refused \in [Counted -> Counts]
      /\ \A k \in Signals!Ticks : refused[RunOf(k)] = called[RunOf(k)] /\ refused[SkipOf(k)] = called[SkipOf(k)]
      /\ \A k \in Signals!Ticks, e \in Devices :
            refused[ReadOf(k, e)] = called[ReadOf(k, e)] /\ refused[CallOf(k, e)] = called[CallOf(k, e)]
  BY <1>1, <1>3, <1>4, <1>5, CountedBeside
<1> HIDE DEF refused
<1>7. CASE sigMetric' = Signals!Recorded(called, Signals!Read, "success")
  BY <1>1, <1>2, <1>4, <1>7, CallOver
<1>8. CASE sigMetric' = Signals!Recorded(refused, Signals!Read, "success")
  <2>1. /\ \A k \in Signals!Ticks : refused[RunOf(k)] = sigMetric[RunOf(k)] /\ refused[SkipOf(k)] = sigMetric[SkipOf(k)]
        /\ \A k \in Signals!Ticks, e \in Devices :
            /\ refused[ReadOf(k, e)] = sigMetric[ReadOf(k, e)]
            /\ \/ refused[CallOf(k, e)] = sigMetric[CallOf(k, e)]
               \/ k = tick.n /\ e = tick.device /\ refused[CallOf(k, e)].outcome # "error"
    BY <1>4, <1>6
  <2> QED
    BY <1>1, <1>2, <1>6, <1>8, <2>1, CallOver, ZenonT(60)
<1> QED
  BY <1>2, <1>7, <1>8

\* A step that starts or ends no read and counts no read or call.
LEMMA CountsElsewhere ==
  ASSUME SignalsInv, UNCHANGED sdk, NEW key \in Counted, NEW ended \in Outcomes,
         key = Loading \/ key \in Signals!Skips \/ \E n \in Signals!Ticks : key = RunOf(n),
         sigMetric' = Signals!Recorded(sigMetric, key, ended),
         \A s \in Signals!Reads : spans'[s] = spans[s]
  PROVE  /\ sigMetric' \in [Counted -> Counts]
         /\ \A k \in Counted : k # key => sigMetric'[k] = sigMetric[k]
         /\ sdk = "on" => sigMetric'[key].times = sigMetric[key].times + 1
         /\ \A k \in Signals!Ticks, e \in Devices :
               /\ sigMetric'[ReadOf(k, e)] = sigMetric[ReadOf(k, e)] /\ sigMetric'[CallOf(k, e)] = sigMetric[CallOf(k, e)]
               /\ spans'[ReadOf(k, e)] = spans[ReadOf(k, e)]
<1>1. /\ sigMetric' \in [Counted -> Counts]
      /\ \A k \in Counted : k # key => sigMetric'[k] = sigMetric[k]
      /\ sdk = "on" => sigMetric'[key].times = sigMetric[key].times + 1
  BY StoredAlike, RecordedCount
<1>2. ASSUME NEW k \in Signals!Ticks, NEW e \in Devices PROVE ReadOf(k, e) # key /\ CallOf(k, e) # key
  <2>1. CASE key = Loading
    BY <2>1 DEF Loading, ReadOf, CallOf
  <2>2. CASE key \in Signals!Skips
    BY <2>2 DEF Signals!Skips, ReadOf, CallOf
  <2>3. CASE \E n \in Signals!Ticks : key = RunOf(n)
    BY <2>3 DEF RunOf, ReadOf, CallOf
  <2> QED
    BY <2>1, <2>2, <2>3
<1> QED
  BY <1>1, <1>2, CountNames, NameKinds

LEMMA LoadInv ==
  ASSUME SignalsInv, NEW ok \in BOOLEAN, Signals!Load(ok)
  PROVE  SignalsInv'
<1> DEFINE started == Signals!Started(Loading, Signals!Empty, TRUE)
<1>1. /\ tick.at = "loading" /\ spans' = Signals!Ended(started, Loading, ~ok)
      /\ sigMetric' = Signals!Recorded(sigMetric, Loading, IF ok THEN "success" ELSE "failure")
      /\ timer' = (IF ok THEN Signals!Empty ELSE None)
      /\ tick' = [tick EXCEPT !.at = IF ok THEN "idle" ELSE "dead"]
      /\ UNCHANGED <<sdk, traced, queue, carrier, stopped>>
  BY DEF Signals!Load, Signals!dispatch, Signals!inbound, Loading
<1>2. /\ SignalTypes /\ LawfulSpans(spans) /\ ~stopped /\ tick.n = 0 /\ tick.ctx = Signals!Empty
      /\ Signals!Empty \in Signals!Contexts
      /\ Loading \in Signals!Runs /\ Loading \in Signals!Names /\ Loading \in Counted
  BY <1>1, InNames DEF SignalsInv, StopInv, ContextInv, Polling, Signals!Empty, Signals!Contexts, Counted
<1>3. Signals!Recording(Signals!Empty) =>
        Lawful(Loading, None, IF Signals!TraceOf(None) = None THEN Loading ELSE Signals!TraceOf(None))
  <2>1. Signals!TraceOf(None) = None
    BY BridgeAssumption DEF Signals!TraceOf
  <2> QED
    BY <1>2, <2>1, LawfulRun DEF Signals!Recording
<1>4. /\ started \in [Signals!Names -> Signals!Spans \cup {None}] /\ LawfulSpans(started) /\ Kept(started)
      /\ \A s \in Signals!Names : s # Loading => started[s] = spans[s]
  BY <1>2, <1>3, LawfulStart
<1> HIDE DEF started
<1>5. /\ spans' \in [Signals!Names -> Signals!Spans \cup {None}] /\ LawfulSpans(spans') /\ Kept(spans')
      /\ \A s \in Signals!Names : s # Loading => spans'[s] = started[s]
  BY <1>1, <1>2, <1>4, EndsElsewhere
<1>6. \A s \in Signals!Reads : spans'[s] = spans[s]
  BY <1>2, <1>4, <1>5, KindsApart, InNames
<1>7. (IF ok THEN "success" ELSE "failure") \in Outcomes
  BY DEF Outcomes
<1>8. /\ sigMetric' \in [Counted -> Counts]
      /\ \A k \in Counted : k # Loading => sigMetric'[k] = sigMetric[k]
      /\ \A k \in Signals!Ticks, e \in Devices :
            /\ sigMetric'[ReadOf(k, e)] = sigMetric[ReadOf(k, e)] /\ sigMetric'[CallOf(k, e)] = sigMetric[CallOf(k, e)]
            /\ spans'[ReadOf(k, e)] = spans[ReadOf(k, e)]
  BY <1>1, <1>2, <1>6, <1>7, CountsElsewhere
<1>9. /\ tick' \in TickStates /\ tick'.n = 0 /\ tick'.ctx = Signals!Empty /\ tick'.at \in {"idle", "dead"}
      /\ ~Polling' /\ ~InHand'
  BY <1>1, <1>2 DEF SignalTypes, TickStates, Polling, InHand
<1>10. \A k \in Signals!Ticks : /\ (Begun(k)' <=> Begun(k)) /\ (Signals!Finished(k)' <=> Signals!Finished(k))
  BY <1>1, <1>2, <1>9, BridgeAssumption DEF Begun, Signals!Finished, Signals!Ticks
<1>11. ContextInv'
  BY <1>9 DEF ContextInv, Polling, InHand
<1>12. MetricInv'
  <2> SUFFICES ASSUME sdk = "on" PROVE MetricInv'
    BY <1>1 DEF MetricInv
  <2>1. MetricInv
    BY DEF SignalsInv
  <2>2. ASSUME NEW k \in Signals!Ticks PROVE TickCounts(k)' /\ sigMetric'[RunOf(k)] = sigMetric[RunOf(k)]
    <3>1. RunOf(k) \in Counted /\ SkipOf(k) \in Counted /\ RunOf(k) # Loading /\ SkipOf(k) # Loading
      <4>1. RunOf(k) \in Signals!Runs /\ SkipOf(k) \in Signals!Skips
        BY DEF RunOf, SkipOf, Signals!Runs, Signals!Skips
      <4> QED
        BY <4>1 DEF Counted, RunOf, SkipOf, Loading
    <3> QED
      BY <1>8, <1>10, <2>1, <3>1 DEF MetricInv, TickCounts
  <2>3. ASSUME NEW k \in Signals!Ticks, NEW e \in Devices PROVE ReadCounts(k, e)'
    BY <1>8, <1>10, <2>1, <2>2, ReadCountsCarry DEF MetricInv, ReadCounts
  <2> QED
    BY <1>9, <2>2, <2>3 DEF MetricInv
<1>13. timer' \in {None, Signals!Empty} /\ traced' \in [Signals!Ticks -> BOOLEAN]
       /\ queue' \in [Devices -> Signals!Waiting \cup {None}] /\ (stopped => timer' = None /\ tick'.at # "loading")
  BY <1>1, <1>2, <1>9 DEF SignalTypes
<1> QED
  BY <1>1, <1>5, <1>8, <1>9, <1>10, <1>11, <1>12, <1>13, TickStep

LEMMA TimerFiresInv ==
  ASSUME SignalsInv, Signals!TimerFires
  PROVE  SignalsInv'
<1>1. /\ tick.at = "idle" /\ tick.n < MaxTicks /\ timer = Signals!Empty
      /\ tick' = [tick EXCEPT !.n = tick.n + 1, !.at = "due", !.ctx = timer]
      /\ UNCHANGED <<sdk, spans, sigMetric, timer, traced, queue, carrier, stopped>>
  BY StoredAlike DEF Signals!TimerFires, Signals!dispatch, Signals!inbound
<1>2. tick.n + 1 \in 0 .. MaxTicks /\ tick.n + 1 \in Signals!Ticks
  BY <1>1, StoredAlike, BridgeAssumption DEF Signals!Ticks
<1>3. /\ tick' \in TickStates /\ tick'.n = tick.n + 1 /\ tick'.at = "due" /\ tick'.ctx = Signals!Empty
      /\ ~Polling' /\ ~InHand'
  <2>2. Signals!Empty \in Signals!Contexts
    BY DEF Signals!Empty, Signals!Contexts
  <2>3. tick \in TickStates
    BY StoredAlike
  <2>4. PICK k \in 0 .. MaxTicks : k = tick.n + 1
    BY <1>2
  <2>5. tick' = [tick EXCEPT !.n = k, !.at = "due", !.ctx = Signals!Empty]
    BY <1>1, <2>4
  <2>6. tick' \in TickStates /\ tick'.n = k /\ tick'.at = "due" /\ tick'.ctx = Signals!Empty
    BY <2>2, <2>3, <2>5 DEF TickStates
  <2> QED
    BY <2>4, <2>6 DEF Polling, InHand
<1>4. \A k \in Signals!Ticks : /\ (Begun(k)' <=> Begun(k)) /\ (Signals!Finished(k)' <=> Signals!Finished(k))
  <2>1. tick.n \in Nat /\ \A k \in Signals!Ticks : k \in Nat
    BY StoredAlike, BridgeAssumption DEF Signals!Ticks
  <2> QED
    BY <1>1, <1>3, <2>1 DEF Begun, Signals!Finished
<1>5. ContextInv'
  BY <1>2, <1>3 DEF ContextInv, Polling, InHand
<1>6. MetricInv'
  <2> SUFFICES ASSUME sdk = "on" PROVE MetricInv'
    BY <1>1 DEF MetricInv
  <2>1. MetricInv
    BY DEF SignalsInv
  <2>2. ASSUME NEW k \in Signals!Ticks PROVE TickCounts(k)'
    BY <1>1, <1>4, <2>1 DEF MetricInv, TickCounts
  <2>3. ASSUME NEW k \in Signals!Ticks, NEW e \in Devices PROVE ReadCounts(k, e)'
    BY <1>1, <1>4, <2>1, ReadCountsCarry DEF MetricInv, ReadCounts
  <2> QED
    BY <1>3, <2>2, <2>3 DEF MetricInv
<1>7. stopped => timer' = None /\ tick'.at # "loading"
  BY <1>1, <1>3 DEF SignalsInv, StopInv
<1> QED
  BY <1>1, <1>3, <1>4, <1>5, <1>6, <1>7, StoredAlike, TickStep

LEMMA NothingDueInv ==
  ASSUME SignalsInv, Signals!NothingDue
  PROVE  SignalsInv'
<1>1. /\ tick.at = "due"
      /\ sigMetric' = Signals!Recorded(sigMetric, SkipOf(tick.n), "nothing_due")
      /\ tick' = [tick EXCEPT !.at = "idle", !.ctx = Signals!Empty]
      /\ UNCHANGED <<sdk, spans, timer, traced, queue, carrier, stopped>>
  BY DEF Signals!NothingDue, Signals!Rearmed, Signals!dispatch, Signals!inbound, SkipOf
<1>2. tick.n \in Signals!Ticks /\ tick.n \in Nat /\ \A k \in Signals!Ticks : k \in Nat
  BY <1>1, StoredAlike, BridgeAssumption DEF Signals!Ticks, SignalsInv, ContextInv
<1>3. /\ tick' \in TickStates /\ tick'.n = tick.n /\ tick'.at = "idle" /\ tick'.ctx = Signals!Empty
      /\ ~Polling' /\ ~InHand'
  <2>1. \A o \in TickStates, c \in Signals!Contexts :
          LET made == [o EXCEPT !.at = "idle", !.ctx = c]
          IN  made \in TickStates /\ made.n = o.n /\ made.at = "idle" /\ made.ctx = c
    BY DEF TickStates
  <2>2. Signals!Empty \in Signals!Contexts
    BY DEF Signals!Empty, Signals!Contexts
  <2> QED
    BY <1>1, <2>1, <2>2, StoredAlike DEF Polling, InHand
<1>4. SkipOf(tick.n) \in Signals!Skips /\ SkipOf(tick.n) \in Counted /\ "nothing_due" \in Outcomes
  BY <1>2 DEF SkipOf, Signals!Skips, Counted, Outcomes
<1>5. /\ sigMetric' \in [Counted -> Counts]
      /\ \A k \in Counted : k # SkipOf(tick.n) => sigMetric'[k] = sigMetric[k]
      /\ sdk = "on" => sigMetric'[SkipOf(tick.n)].times = sigMetric[SkipOf(tick.n)].times + 1
      /\ \A k \in Signals!Ticks, e \in Devices :
            /\ sigMetric'[ReadOf(k, e)] = sigMetric[ReadOf(k, e)] /\ sigMetric'[CallOf(k, e)] = sigMetric[CallOf(k, e)]
            /\ spans'[ReadOf(k, e)] = spans[ReadOf(k, e)]
  BY <1>1, <1>4, CountsElsewhere
<1>6. /\ ~Begun(tick.n) /\ ~Signals!Finished(tick.n) /\ Begun(tick.n)' /\ Signals!Finished(tick.n)'
      /\ \A k \in Signals!Ticks : k # tick.n =>
            /\ (Begun(k)' <=> Begun(k)) /\ (Signals!Finished(k)' <=> Signals!Finished(k))
  BY <1>1, <1>2, <1>3 DEF Begun, Signals!Finished
<1>7. ContextInv'
  BY <1>3 DEF ContextInv, Polling, InHand
<1>8. MetricInv'
  <2> SUFFICES ASSUME sdk = "on" PROVE MetricInv'
    BY <1>1 DEF MetricInv
  <2>1. MetricInv
    BY DEF SignalsInv
  <2>2. ASSUME NEW k \in Signals!Ticks PROVE TickCounts(k)' /\ sigMetric'[RunOf(k)] = sigMetric[RunOf(k)]
    <3>1. /\ RunOf(k) \in Counted /\ SkipOf(k) \in Counted /\ RunOf(k) # SkipOf(tick.n)
          /\ SkipOf(k) = SkipOf(tick.n) => k = tick.n
      <4>1. RunOf(k) \in Signals!Runs /\ SkipOf(k) \in Signals!Skips
        BY DEF RunOf, SkipOf, Signals!Runs, Signals!Skips
      <4> QED
        BY <4>1 DEF Counted, RunOf, SkipOf
    <3>2. sigMetric[RunOf(k)] \in Counts /\ sigMetric[SkipOf(k)] \in Counts
      BY <3>1, StoredAlike
    <3>3. CASE k = tick.n
      <4>1. sigMetric[RunOf(k)].times + sigMetric[SkipOf(k)].times = 0
        BY <1>6, <2>1, <3>3 DEF MetricInv, TickCounts
      <4>2. sigMetric'[RunOf(k)] = sigMetric[RunOf(k)]
            /\ sigMetric'[SkipOf(k)].times = sigMetric[SkipOf(k)].times + 1
        BY <1>5, <3>1, <3>3
      <4>3. sigMetric[RunOf(k)].times \in Nat /\ sigMetric[SkipOf(k)].times \in Nat
        BY <3>2 DEF Counts
      <4>4. Signals!Finished(k)'
        BY <1>3, <1>6, <3>3
      <4> QED
        BY <4>1, <4>2, <4>3, <4>4 DEF TickCounts
    <3>4. CASE k # tick.n
      BY <1>5, <1>6, <2>1, <3>1, <3>4 DEF MetricInv, TickCounts
    <3> QED
      BY <3>3, <3>4
  <2>3. ASSUME NEW k \in Signals!Ticks, NEW e \in Devices PROVE ReadCounts(k, e)'
    <3>1. ReadCounts(k, e) /\ (Begun(k) => Begun(k)')
      BY <1>6, <2>1 DEF MetricInv
    <3>2. Signals!Finished(k)' => sigMetric'[ReadOf(k, e)].times <= sigMetric'[RunOf(k)].times
      <4>1. RunOf(k) \in Counted
        BY CountNames
      <4>2. sigMetric[RunOf(k)].times \in Nat
        BY <4>1, StoredAlike DEF Counts
      <4> QED
        BY <1>5, <1>6, <2>2, <3>1, <4>2 DEF ReadCounts
    <3> QED
      BY <1>5, <3>1, <3>2, ReadCountsCarry
  <2> QED
    BY <1>3, <2>2, <2>3 DEF MetricInv
<1>9. stopped => timer' = None /\ tick'.at # "loading"
  BY <1>1, <1>3 DEF SignalsInv, StopInv
<1>10. \A k \in Signals!Ticks : Begun(k) => Begun(k)'
  BY <1>6
<1> QED
  BY <1>1, <1>3, <1>5, <1>7, <1>8, <1>9, <1>10, StoredAlike, TickStep

\* shouldTrace decides once for the tick, and a tick that is sampled out runs suppressed.
LEMMA DueDevicesInv ==
  ASSUME SignalsInv, Signals!pollDueDevices
  PROVE  SignalsInv'
<1>0. PICK n : n = tick.n
  OBVIOUS
<1>1. PICK yes \in BOOLEAN :
        /\ n = tick.n /\ tick.at = "due"
        /\ traced' = [traced EXCEPT ![n] = yes]
        /\ spans' = IF yes THEN Signals!Started(RunOf(n), tick.ctx, TRUE) ELSE spans
        /\ tick' = [tick EXCEPT !.at = "next", !.todo = Signals!dueDevices,
                                !.ctx = IF yes THEN Signals!Inside(RunOf(n), @) ELSE Signals!SuppressedContext]
        /\ UNCHANGED <<sdk, sigMetric, timer, queue, carrier, stopped>>
  <2>1. Signals!shouldTrace \subseteq BOOLEAN
    BY DEF Signals!shouldTrace
  <2>2. PICK yes \in Signals!shouldTrace :
          /\ traced' = [traced EXCEPT ![tick.n] = yes]
          /\ spans' = IF yes THEN Signals!Started(RunOf(tick.n), tick.ctx, TRUE) ELSE spans
          /\ tick' = [tick EXCEPT !.at = "next", !.todo = Signals!dueDevices,
                                  !.ctx = IF yes THEN Signals!Inside(RunOf(tick.n), @) ELSE Signals!SuppressedContext]
    BY Zenon DEF Signals!pollDueDevices, RunOf
  <2>3. tick.at = "due" /\ UNCHANGED <<sdk, sigMetric, timer, queue, carrier, stopped>>
    BY DEF Signals!pollDueDevices, Signals!dispatch, Signals!inbound
  <2> QED
    BY <1>0, <2>1, <2>2, <2>3
<1>2. /\ SignalTypes /\ LawfulSpans(spans) /\ tick.ctx = Signals!Empty /\ Signals!Empty \in Signals!Contexts
      /\ n \in Signals!Ticks /\ RunOf(n) \in Signals!Runs /\ RunOf(n) \in Signals!Names
      /\ Signals!dueDevices \in SUBSET Devices
  BY <1>1, InNames DEF SignalsInv, ContextInv, Polling, Signals!Empty, Signals!Contexts, RunOf, Signals!Runs,
                       Signals!dueDevices
<1>3. Signals!Recording(Signals!Empty) =>
        Lawful(RunOf(n), None, IF Signals!TraceOf(None) = None THEN RunOf(n) ELSE Signals!TraceOf(None))
  <2>1. Signals!TraceOf(None) = None
    BY BridgeAssumption DEF Signals!TraceOf
  <2> QED
    BY <1>2, <2>1, LawfulRun DEF Signals!Recording
<1>4. /\ spans' \in [Signals!Names -> Signals!Spans \cup {None}] /\ LawfulSpans(spans') /\ Kept(spans')
      /\ \A s \in Signals!Names : s # RunOf(n) => spans'[s] = spans[s]
      /\ yes /\ sdk # "off" => spans'[RunOf(n)] # None
  <2>1. CASE yes
    <3> DEFINE started == Signals!Started(RunOf(n), Signals!Empty, TRUE)
    <3>1. /\ started \in [Signals!Names -> Signals!Spans \cup {None}] /\ LawfulSpans(started) /\ Kept(started)
          /\ \A s \in Signals!Names : s # RunOf(n) => started[s] = spans[s]
          /\ Signals!Recording(Signals!Empty) => started[RunOf(n)] # None
      BY <1>2, <1>3, LawfulStart
    <3>2. spans' = started
      BY <1>1, <1>2, <2>1
    <3>3. sdk # "off" => Signals!Recording(Signals!Empty)
      BY DEF Signals!Recording, Signals!Empty
    <3> HIDE DEF started
    <3> QED
      BY <3>1, <3>2, <3>3
  <2>2. CASE ~yes
    BY <1>1, <2>2, StoredAlike
  <2> QED
    BY <2>1, <2>2
<1>5. \A s \in Signals!Reads : spans'[s] = spans[s]
  BY <1>2, <1>4, KindsApart, InNames
<1>6. traced'[n] = yes /\ traced' \in [Signals!Ticks -> BOOLEAN]
      /\ \A k \in Signals!Ticks : k # n => traced'[k] = traced[k]
  BY <1>1, <1>2 DEF SignalTypes
<1>7. RunContext(n)' = (IF yes THEN Signals!Inside(RunOf(n), Signals!Empty)
                        ELSE Signals!SuppressedContext)
      /\ RunContext(n)' \in Signals!Contexts
  <2>0. \A c, x, y, b : c = [span |-> x, suppressed |-> b] =>
           [c EXCEPT !.span = y] = [span |-> y, suppressed |-> b]
    OBVIOUS
  <2>1. CASE yes /\ sdk # "off"
    <3>1. RunContext(n)' = [span |-> RunOf(n), suppressed |-> FALSE]
      BY <1>1, <1>6, <2>1 DEF RunContext, RunOf
    <3>2. Signals!Recording(Signals!Empty) /\ Signals!Empty = [span |-> None, suppressed |-> FALSE]
      BY <2>1 DEF Signals!Recording, Signals!Empty
    <3>3. PICK b : b = FALSE
      OBVIOUS
    <3>4. Signals!Empty = [span |-> None, suppressed |-> b]
      BY <3>2, <3>3, Zenon
    <3>5. Signals!Inside(RunOf(n), Signals!Empty) = [Signals!Empty EXCEPT !.span = RunOf(n)]
      BY <3>2 DEF Signals!Inside
    <3>6. Signals!Inside(RunOf(n), Signals!Empty) = [span |-> RunOf(n), suppressed |-> b]
      BY <2>0, <3>4, <3>5
    <3>7. Signals!Inside(RunOf(n), Signals!Empty) = [span |-> RunOf(n), suppressed |-> FALSE]
      BY <3>3, <3>6, Zenon
    <3> QED
      BY <1>2, <2>1, <3>1, <3>7 DEF Signals!Contexts
  <2>2. CASE yes /\ sdk = "off"
    BY <1>1, <1>2, <1>6, <2>2 DEF RunContext, Signals!Inside, Signals!Recording, Signals!Empty
  <2>3. CASE ~yes
    BY <1>6, <2>3 DEF RunContext, Signals!SuppressedContext, Signals!Contexts
  <2> QED
    BY <2>1, <2>2, <2>3
<1>8. /\ tick' \in TickStates /\ tick'.n = n /\ tick'.at = "next" /\ tick'.todo \subseteq Devices
      /\ tick'.ctx = RunContext(n)' /\ Polling' /\ ~InHand'
  <2>1. PICK ctx \in Signals!Contexts : ctx = RunContext(n)'
    BY <1>7
  <2>2. tick' = [tick EXCEPT !.at = "next", !.todo = Signals!dueDevices, !.ctx = ctx]
    BY <1>1, <1>2, <1>7, <2>1
  <2>3. tick' \in TickStates /\ tick'.n = n /\ tick'.at = "next" /\ tick'.todo \subseteq Devices /\ tick'.ctx = ctx
    BY <1>1, <1>2, <2>2, StoredAlike DEF TickStates
  <2> QED
    BY <2>1, <2>3 DEF Polling, InHand
<1>9. /\ n \in Nat /\ ~Begun(n) /\ ~Signals!Finished(n) /\ Begun(n)' /\ ~Signals!Finished(n)'
      /\ \A k \in Signals!Ticks : k # n => /\ (Begun(k)' <=> Begun(k))
                                           /\ (Signals!Finished(k)' <=> Signals!Finished(k))
  <2>1. n \in Nat /\ \A k \in Signals!Ticks : k \in Nat
    BY <1>2, BridgeAssumption DEF Signals!Ticks
  <2> QED
    BY <1>1, <1>8, <2>1 DEF Begun, Signals!Finished
<1>10. ContextInv'
  <2>1. TracedTo(n)' => spans'[RunOf(n)] # None
    BY <1>1, <1>4, <1>6 DEF TracedTo
  <2> QED
    BY <1>2, <1>8, <2>1 DEF ContextInv, Polling, InHand
<1>11. MetricInv'
  <2> SUFFICES ASSUME sdk = "on" PROVE MetricInv'
    BY <1>1 DEF MetricInv
  <2>1. MetricInv
    BY DEF SignalsInv
  <2>2. ASSUME NEW k \in Signals!Ticks PROVE TickCounts(k)'
    BY <1>1, <1>9, <2>1 DEF MetricInv, TickCounts
  <2>3. ASSUME NEW k \in Signals!Ticks, NEW e \in Devices PROVE ReadCounts(k, e)'
    <3>1. ReadCounts(k, e) /\ (Begun(k) => Begun(k)') /\ (Signals!Finished(k)' => Signals!Finished(k))
      BY <1>9, <2>1 DEF MetricInv
    <3>2. spans'[ReadOf(k, e)] = spans[ReadOf(k, e)]
      BY <1>5, NameKinds
    <3> QED
      BY <1>1, <3>1, <3>2, ReadCountsCarry DEF ReadCounts
  <2>4. \A e \in Devices : sigMetric'[ReadOf(n, e)].times = 0
    BY <1>1, <1>2, <1>9, <2>1 DEF MetricInv, ReadCounts
  <2> QED
    BY <1>8, <2>2, <2>3, <2>4 DEF MetricInv
<1>12. \A k \in Signals!Ticks : Begun(k) => Begun(k)' /\ traced'[k] = traced[k]
  BY <1>6, <1>9
<1>13. stopped => timer' = None /\ tick'.at # "loading"
  BY <1>1, <1>8 DEF SignalsInv, StopInv
<1> QED
  BY <1>1, <1>4, <1>6, <1>8, <1>10, <1>11, <1>12, <1>13, StoredAlike, TickStep

\* A span started in the tick under way, and nothing counted.
LEMMA TickContext ==
  ASSUME SignalsInv, Polling
  PROVE  /\ tick.n \in Signals!Ticks /\ tick.ctx = RunContext(tick.n) /\ tick.ctx \in Signals!Contexts
         /\ Begun(tick.n) /\ ~Signals!Finished(tick.n)
         /\ Signals!Recording(tick.ctx) =>
              /\ TracedTo(tick.n) /\ tick.ctx.span = RunOf(tick.n)
              /\ Signals!TraceOf(RunOf(tick.n)) = RunOf(tick.n) /\ RunOf(tick.n) # None
<1>1. /\ tick.n \in Signals!Ticks /\ tick.n \in Nat /\ tick.ctx = RunContext(tick.n) /\ SignalTypes /\ LawfulSpans(spans)
      /\ TracedTo(tick.n) => spans[RunOf(tick.n)] # None
  BY BridgeAssumption DEF SignalsInv, ContextInv, Signals!Ticks
<1>2. tick.ctx \in Signals!Contexts /\ traced[tick.n] \in BOOLEAN
  BY <1>1 DEF SignalTypes, TickStates
<1>3. Begun(tick.n) /\ ~Signals!Finished(tick.n)
  BY <1>1 DEF Begun, Signals!Finished, Polling
<1>4. Signals!Recording(tick.ctx) => TracedTo(tick.n) /\ tick.ctx.span = RunOf(tick.n)
  BY <1>1, <1>2 DEF Signals!Recording, TracedTo, RunContext
<1>5. spans[RunOf(tick.n)] # None => Signals!TraceOf(RunOf(tick.n)) = RunOf(tick.n)
  <2>1. RunOf(tick.n) \in Signals!Runs /\ RunOf(tick.n) \in Signals!Names
    BY <1>1, InNames DEF RunOf, Signals!Runs
  <2>2. None \notin Signals!Names /\ Signals!Sender # RunOf(tick.n)
    BY BridgeAssumption DEF Signals!Sender, RunOf
  <2>3. spans[RunOf(tick.n)] # None => spans[RunOf(tick.n)].trace = RunOf(tick.n)
    BY <1>1, <2>1 DEF LawfulSpans, Lawful
  <2> QED
    BY <2>1, <2>2, <2>3 DEF Signals!TraceOf
<1>6. RunOf(tick.n) # None
  BY <1>1, InNames, BridgeAssumption DEF RunOf, Signals!Runs
<1> QED
  BY <1>1, <1>2, <1>3, <1>4, <1>5, <1>6

\* The counts of a read that has just begun.
LEMMA FreshCounts ==
  ASSUME NEW n, NEW d, UNCHANGED sigMetric, sigMetric[ReadOf(n, d)].times = 0,
         sigMetric[ReadOf(n, d)].outcome = None, sigMetric[CallOf(n, d)].outcome # "error",
         Signals!Finished(n)' => sigMetric[ReadOf(n, d)].times <= sigMetric[RunOf(n)].times,
         ~spans'[ReadOf(n, d)].error
  PROVE  ReadCounts(n, d)'
<1>1. None # "failure"
  BY BridgeAssumption
<1> QED
  BY <1>1 DEF ReadCounts

\* Steps of the tick under way that start a span and count nothing.
LEMMA SpanInTick ==
  ASSUME SignalsInv, Polling, NEW name \in Signals!Reads \cup Signals!Calls, NEW ctx \in Signals!Contexts,
         spans' = Signals!Started(name, ctx, FALSE),
         Signals!Recording(ctx) =>
           LET trace == Signals!TraceOf(ctx.span) IN Lawful(name, ctx.span, IF trace = None THEN name ELSE trace),
         tick' \in TickStates, tick'.n = tick.n, tick'.ctx = tick.ctx, InHand', tick'.device \in Devices,
         UNCHANGED <<sdk, sigMetric, timer, traced, queue, carrier, stopped>>,
         TracedTo(tick.n) => spans'[ReadOf(tick.n, tick'.device)] # None,
         tick'.todo \subseteq tick.todo,
         sdk = "on" => /\ tick'.device \notin tick'.todo
                       /\ sigMetric[ReadOf(tick.n, tick'.device)].times = 0
                       /\ name \in Signals!Reads => name = ReadOf(tick.n, tick'.device)
  PROVE  SignalsInv'
<1>1. SignalTypes /\ LawfulSpans(spans) /\ name \in Signals!Names
  BY InNames DEF SignalsInv
<1>2. /\ spans' \in [Signals!Names -> Signals!Spans \cup {None}] /\ LawfulSpans(spans') /\ Kept(spans')
      /\ \A s \in Signals!Names : s # name => spans'[s] = spans[s]
      /\ Signals!Recording(ctx) => spans'[name] # None /\ spans'[name].error = FALSE
      /\ ~Signals!Recording(ctx) => spans' = spans
  <2> DEFINE store == Signals!Started(name, ctx, FALSE)
  <2>1. /\ store \in [Signals!Names -> Signals!Spans \cup {None}] /\ LawfulSpans(store) /\ Kept(store)
        /\ \A s \in Signals!Names : s # name => store[s] = spans[s]
        /\ Signals!Recording(ctx) => store[name] # None /\ store[name].error = FALSE
    BY <1>1, LawfulStart
  <2>2. ~Signals!Recording(ctx) => store = spans
    BY DEF Signals!Started
  <2> HIDE DEF store
  <2> QED
    BY <2>1, <2>2 DEF store
<1>3. PICK n \in Signals!Ticks : n = tick.n /\ tick.ctx = RunContext(n)
  BY TickContext
<1>4. Polling' /\ tick'.at \in {"reading", "calling"} /\ tick'.n = n
  BY <1>3 DEF Polling, InHand
<1>5. \A k : (Begun(k)' <=> Begun(k)) /\ (Signals!Finished(k)' <=> Signals!Finished(k))
  BY <1>3, <1>4 DEF Begun, Signals!Finished, Polling
<1>6. ContextInv'
  <2>1. RunContext(n)' = RunContext(n) /\ (TracedTo(n)' <=> TracedTo(n))
    BY DEF RunContext, TracedTo, Signals!Empty, RunOf
  <2>2. RunOf(n) \in Signals!Names /\ (TracedTo(n) => spans[RunOf(n)] # None)
    BY <1>3, InNames DEF SignalsInv, ContextInv, RunOf, Signals!Runs
  <2>3. TracedTo(n)' => spans'[RunOf(n)] # None /\ spans'[ReadOf(n, tick'.device)] # None
    BY <1>2, <1>3, <2>1, <2>2 DEF Kept
  <2> QED
    BY <1>3, <1>4, <2>1, <2>3 DEF ContextInv
<1>7. MetricInv'
  <2> SUFFICES ASSUME sdk = "on" PROVE MetricInv'
    BY DEF MetricInv
  <2>1. MetricInv
    BY DEF SignalsInv
  <2>2. ASSUME NEW k \in Signals!Ticks PROVE TickCounts(k)'
    BY <1>5, <2>1 DEF MetricInv, TickCounts
  <2>3. ASSUME NEW k \in Signals!Ticks, NEW e \in Devices PROVE ReadCounts(k, e)'
    <3>1. ReadCounts(k, e) /\ ReadOf(k, e) \in Signals!Names
      BY <2>1, NameKinds, InNames DEF MetricInv
    <3>2. CASE ReadOf(k, e) # name
      BY <1>2, <1>5, <3>1, <3>2, ReadCountsCarry DEF ReadCounts
    <3>3. CASE ReadOf(k, e) = name
      <4>1. name = ReadOf(n, tick'.device) /\ sigMetric[name].times = 0
        BY <1>3, <3>3, NameKinds
      <4>2. CASE Signals!Recording(ctx)
        <5>1. sigMetric[ReadOf(k, e)].outcome = None /\ sigMetric[CallOf(k, e)].outcome # "error"
              /\ sigMetric[ReadOf(k, e)].times = 0 /\ (~Begun(k)' => ~Begun(k))
              /\ (Signals!Finished(k)' => sigMetric[ReadOf(k, e)].times <= sigMetric[RunOf(k)].times)
          BY <1>5, <3>1, <3>3, <4>1 DEF ReadCounts
        <5>2. ~spans'[ReadOf(k, e)].error
          BY <1>2, <3>3, <4>2
        <5> QED
          BY <5>1, <5>2, FreshCounts
      <4>3. CASE ~Signals!Recording(ctx)
        BY <1>2, <1>5, <3>1, <4>3, ReadCountsCarry DEF ReadCounts
      <4> QED
        BY <4>2, <4>3
    <3> QED
      BY <3>2, <3>3
  <2>4. \A e \in tick'.todo : sigMetric[ReadOf(n, e)].times = 0
    BY <1>3, <2>1 DEF MetricInv
  <2> QED
    BY <1>3, <1>4, <2>2, <2>3, <2>4 DEF MetricInv
<1>8. stopped => timer' = None /\ tick'.at # "loading"
  BY <1>4 DEF SignalsInv, StopInv
<1> QED
  BY <1>2, <1>5, <1>6, <1>7, <1>8, StoredAlike, TickStep

LEMMA PollDeviceInv ==
  ASSUME SignalsInv, NEW d \in Devices, Signals!pollDevice(d)
  PROVE  SignalsInv'
<1>1. /\ tick.at = "next" /\ d \in tick.todo
      /\ spans' = Signals!Started(ReadOf(tick.n, d), tick.ctx, FALSE)
      /\ tick' = [tick EXCEPT !.at = "reading", !.device = d, !.todo = @ \ {d}]
      /\ UNCHANGED <<sdk, sigMetric, timer, traced, queue, carrier, stopped>>
  BY DEF Signals!pollDevice, Signals!dispatch, Signals!inbound, ReadOf
<1>2. Polling /\ tick.n \in Signals!Ticks /\ tick.ctx \in Signals!Contexts /\ Begun(tick.n)
  BY <1>1, TickContext DEF Polling
<1>3. ReadOf(tick.n, d) \in Signals!Reads
  BY <1>2, NameKinds
<1>4. Signals!Recording(tick.ctx) =>
        LET trace == Signals!TraceOf(tick.ctx.span)
        IN  Lawful(ReadOf(tick.n, d), tick.ctx.span, IF trace = None THEN ReadOf(tick.n, d) ELSE trace)
  <2> SUFFICES ASSUME Signals!Recording(tick.ctx)
               PROVE  Lawful(ReadOf(tick.n, d), RunOf(tick.n), RunOf(tick.n))
    BY <1>2, TickContext
  <2>1. sdk # "off" /\ traced[tick.n] /\ RunOf(tick.n) \in Signals!Names
    BY <1>2, TickContext, InNames DEF TracedTo, RunOf, Signals!Runs
  <2> QED
    BY <1>2, <2>1, LawfulRead
<1>5. /\ tick' \in TickStates /\ tick'.n = tick.n /\ tick'.ctx = tick.ctx /\ tick'.at = "reading" /\ InHand'
      /\ tick'.device = d /\ tick'.todo = tick.todo \ {d}
  BY <1>1, StoredAlike DEF TickStates, InHand
<1>6. TracedTo(tick.n) => spans'[ReadOf(tick.n, d)] # None
  <2> SUFFICES ASSUME TracedTo(tick.n) PROVE spans'[ReadOf(tick.n, d)] # None
    OBVIOUS
  <2>1. Signals!Recording(tick.ctx)
    BY <1>2, TickContext DEF Signals!Recording, TracedTo, RunContext
  <2>2. ReadOf(tick.n, d) \in Signals!Names /\ SignalTypes
    BY <1>3, InNames DEF SignalsInv
  <2> QED
    BY <1>1, <1>2, <2>1, <2>2, StartedSpan
<1>7. sdk = "on" => sigMetric[ReadOf(tick.n, d)].times = 0
  BY <1>1, <1>2 DEF SignalsInv, MetricInv
<1> QED
  BY <1>1, <1>2, <1>3, <1>4, <1>5, <1>6, <1>7, SpanInTick

LEMMA CallBeginsInv ==
  ASSUME SignalsInv, Signals!CallBegins
  PROVE  SignalsInv'
<1>1. /\ tick.at = "reading"
      /\ spans' = Signals!Started(Signals!Call, Signals!ReadContext, FALSE)
      /\ tick' = [tick EXCEPT !.at = "calling"]
      /\ UNCHANGED <<sdk, sigMetric, timer, traced, queue, carrier, stopped>>
  BY DEF Signals!CallBegins, Signals!dispatch, Signals!inbound
<1>2. Polling /\ InHand /\ SignalTypes /\ ContextInv /\ LawfulSpans(spans)
  BY <1>1 DEF SignalsInv, Polling, InHand
<1>3. /\ tick.n \in Signals!Ticks /\ tick.device \in Devices /\ Signals!ReadContext \in Signals!Contexts
      /\ Signals!Recording(Signals!ReadContext) =>
           sdk # "off" /\ Signals!ReadContext.span = ReadOf(tick.n, tick.device)
  BY <1>2, ContextOfRead
<1>4. /\ Signals!Call \in Signals!Calls /\ Signals!Call \notin Signals!Reads /\ Signals!Call \in Signals!Names
      /\ ReadOf(tick.n, tick.device) \in Signals!Reads /\ ReadOf(tick.n, tick.device) \in Signals!Names
  BY <1>3, NameKinds, InNames, KindsApart DEF Signals!Call, CallOf
<1>5. Signals!Recording(Signals!ReadContext) =>
        LET trace == Signals!TraceOf(Signals!ReadContext.span)
        IN  Lawful(Signals!Call, Signals!ReadContext.span, IF trace = None THEN Signals!Call ELSE trace)
  BY <1>3, <1>4, LawfulChild
<1>6. /\ tick' \in TickStates /\ tick'.n = tick.n /\ tick'.ctx = tick.ctx /\ tick'.at = "calling" /\ InHand'
      /\ tick'.device = tick.device /\ tick'.todo = tick.todo
  BY <1>1, StoredAlike DEF TickStates, InHand
<1>7. TracedTo(tick.n) => spans'[ReadOf(tick.n, tick.device)] # None
  <2>1. TracedTo(tick.n) => spans[ReadOf(tick.n, tick.device)] # None
    BY <1>2 DEF ContextInv
  <2>2. spans'[ReadOf(tick.n, tick.device)] = spans[ReadOf(tick.n, tick.device)]
    BY <1>1, <1>2, <1>3, <1>4, StartedSpan, ZenonT(60)
  <2> QED
    BY <2>1, <2>2
<1>8. sdk = "on" => tick.device \notin tick.todo /\ sigMetric[ReadOf(tick.n, tick.device)].times = 0
  BY <1>2 DEF SignalsInv, MetricInv
<1> QED
  BY <1>1, <1>2, <1>3, <1>4, <1>5, <1>6, <1>7, <1>8, SpanInTick

LEMMA SettlesInv ==
  ASSUME SignalsInv, Signals!Settles(TRUE)
  PROVE  SignalsInv'
<1>1. PICK n : n = tick.n
  OBVIOUS
<1>2. /\ tick.at = "next" /\ tick.todo = {}
      /\ spans' = Signals!Ended(spans, RunOf(n), ~TRUE)
      /\ sigMetric' = Signals!Recorded(sigMetric, RunOf(n), "success")
      /\ tick' = [tick EXCEPT !.at = "idle", !.ctx = Signals!Empty]
      /\ UNCHANGED <<sdk, timer, traced, queue, carrier, stopped>>
  BY <1>1 DEF Signals!Settles, Signals!Rearmed, Signals!dispatch, Signals!inbound, RunOf
<1>3. n \in Signals!Ticks /\ n \in Nat /\ \A k \in Signals!Ticks : k \in Nat
  BY <1>1, <1>2, BridgeAssumption DEF Signals!Ticks, SignalsInv, ContextInv, Polling
<1>4. RunOf(n) \in Signals!Runs /\ RunOf(n) \in Signals!Names /\ RunOf(n) \in Counted /\ "success" \in Outcomes
  BY <1>3, InNames DEF RunOf, Signals!Runs, Counted, Outcomes
<1>5. /\ spans' \in [Signals!Names -> Signals!Spans \cup {None}] /\ LawfulSpans(spans') /\ Kept(spans')
      /\ \A s \in Signals!Names : s # RunOf(n) => spans'[s] = spans[s]
  <2>1. PICK error \in BOOLEAN : error = ~TRUE
    OBVIOUS
  <2>2. spans' = Signals!Ended(spans, RunOf(n), error)
    BY <1>2, <2>1
  <2> QED
    BY <1>4, <2>2, StoredAlike, EndsElsewhere
<1>6. \A s \in Signals!Reads : spans'[s] = spans[s]
  BY <1>4, <1>5, KindsApart, InNames
<1>7. /\ sigMetric' \in [Counted -> Counts]
      /\ \A k \in Counted : k # RunOf(n) => sigMetric'[k] = sigMetric[k]
      /\ sdk = "on" => sigMetric'[RunOf(n)].times = sigMetric[RunOf(n)].times + 1
      /\ \A k \in Signals!Ticks, e \in Devices :
            /\ sigMetric'[ReadOf(k, e)] = sigMetric[ReadOf(k, e)] /\ sigMetric'[CallOf(k, e)] = sigMetric[CallOf(k, e)]
            /\ spans'[ReadOf(k, e)] = spans[ReadOf(k, e)]
  <2>1. \E k \in Signals!Ticks : RunOf(n) = RunOf(k)
    BY <1>3
  <2> QED
    BY <1>2, <1>4, <1>6, <2>1, CountsElsewhere
<1>8. /\ tick' \in TickStates /\ tick'.n = n /\ tick'.at = "idle" /\ tick'.ctx = Signals!Empty
      /\ ~Polling' /\ ~InHand'
  <2>1. \A o \in TickStates, c \in Signals!Contexts :
          LET made == [o EXCEPT !.at = "idle", !.ctx = c]
          IN  made \in TickStates /\ made.n = o.n /\ made.at = "idle" /\ made.ctx = c
    BY DEF TickStates
  <2>2. Signals!Empty \in Signals!Contexts
    BY DEF Signals!Empty, Signals!Contexts
  <2> QED
    BY <1>1, <1>2, <2>1, <2>2, StoredAlike DEF Polling, InHand
<1>9. /\ ~Signals!Finished(n) /\ Signals!Finished(n)'
      /\ \A k \in Signals!Ticks : Begun(k)' <=> Begun(k)
      /\ \A k \in Signals!Ticks : k # n => (Signals!Finished(k)' <=> Signals!Finished(k))
  BY <1>1, <1>2, <1>3, <1>8 DEF Begun, Signals!Finished
<1>10. ContextInv'
  BY <1>8 DEF ContextInv, Polling, InHand
<1>11. MetricInv'
  <2> SUFFICES ASSUME sdk = "on" PROVE MetricInv'
    BY <1>2 DEF MetricInv
  <2>1. MetricInv
    BY DEF SignalsInv
  <2>2. ASSUME NEW k \in Signals!Ticks
        PROVE  /\ TickCounts(k)'
               /\ k # n => sigMetric'[RunOf(k)] = sigMetric[RunOf(k)]
               /\ k = n => sigMetric'[RunOf(k)].times = 1
    <3>1. /\ RunOf(k) \in Counted /\ SkipOf(k) \in Counted /\ SkipOf(k) # RunOf(n)
          /\ RunOf(k) = RunOf(n) => k = n
      <4>1. RunOf(k) \in Signals!Runs /\ SkipOf(k) \in Signals!Skips
        BY DEF RunOf, SkipOf, Signals!Runs, Signals!Skips
      <4> QED
        BY <4>1 DEF Counted, RunOf, SkipOf
    <3>2. sigMetric[RunOf(k)].times \in Nat /\ sigMetric[SkipOf(k)].times \in Nat
      BY <3>1, StoredAlike DEF Counts
    <3>3. CASE k = n
      <4>1. sigMetric[RunOf(k)].times + sigMetric[SkipOf(k)].times = 0
        BY <1>9, <2>1, <3>3 DEF MetricInv, TickCounts
      <4>2. sigMetric'[SkipOf(k)] = sigMetric[SkipOf(k)]
            /\ sigMetric'[RunOf(k)].times = sigMetric[RunOf(k)].times + 1
        BY <1>7, <3>1, <3>3
      <4>3. Signals!Finished(k)'
        BY <1>9, <3>3
      <4> QED
        BY <3>2, <3>3, <4>1, <4>2, <4>3 DEF TickCounts
    <3>4. CASE k # n
      BY <1>7, <1>9, <2>1, <3>1, <3>4 DEF MetricInv, TickCounts
    <3> QED
      BY <3>3, <3>4
  <2>3. ASSUME NEW k \in Signals!Ticks, NEW e \in Devices PROVE ReadCounts(k, e)'
    <3>1. ReadCounts(k, e)
      BY <2>1 DEF MetricInv
    <3>2. Signals!Finished(k)' => sigMetric'[ReadOf(k, e)].times <= sigMetric'[RunOf(k)].times
      BY <1>7, <1>9, <2>2, <3>1 DEF ReadCounts
    <3> QED
      BY <1>7, <1>9, <3>1, <3>2, ReadCountsCarry
  <2> QED
    BY <1>8, <2>2, <2>3 DEF MetricInv
<1>12. stopped => timer' = None /\ tick'.at # "loading"
  BY <1>2, <1>8 DEF SignalsInv, StopInv
<1> QED
  BY <1>2, <1>5, <1>7, <1>8, <1>9, <1>10, <1>11, <1>12, StoredAlike, TickStep

LEMMA SignalsInit == Signals!Init => SignalsInv
<1> SUFFICES ASSUME Signals!Init PROVE SignalsInv
  OBVIOUS
<1>1. /\ sdk \in {"off", "on"} /\ spans = [s \in Signals!Names |-> None]
      /\ sigMetric = [k \in Counted |-> Signals!Nothing] /\ timer = None
      /\ tick = [n |-> 0, at |-> "loading", ctx |-> Signals!Empty, todo |-> {}, device |-> None]
      /\ traced = [n \in Signals!Ticks |-> FALSE] /\ queue = [d \in Devices |-> None]
      /\ carrier \in [PolledMessages -> BOOLEAN] /\ stopped = FALSE
  BY DEF Signals!Init, Counted
<1>2. Signals!Nothing \in Counts /\ Signals!Nothing.times = 0 /\ Signals!Nothing.outcome = None
  BY DEF Signals!Nothing, Counts, Outcomes
<1>3. SignalTypes
  <2>1. Signals!Empty \in Signals!Contexts
    BY DEF Signals!Empty, Signals!Contexts
  <2>2. tick \in TickStates
    BY <1>1, <2>1, BridgeAssumption DEF TickStates
  <2> QED
    BY <1>1, <1>2, <2>2 DEF SignalTypes
<1>4. LawfulSpans(spans)
  BY <1>1 DEF LawfulSpans
<1>5. tick.n = 0 /\ tick.at = "loading" /\ tick.ctx = Signals!Empty /\ ~Polling /\ ~InHand
  BY <1>1 DEF Polling, InHand
<1>6. ContextInv
  BY <1>5 DEF ContextInv, Polling, InHand
<1>7. QueueInv
  BY <1>1 DEF QueueInv, QueuedAs
<1>8. StopInv
  BY <1>1 DEF StopInv
<1>9. MetricInv
  <2>1. \A k \in Signals!Ticks : ~Signals!Finished(k) /\ ~Begun(k)
    BY <1>5, BridgeAssumption DEF Signals!Ticks, Signals!Finished, Begun
  <2>2. \A k \in Counted : sigMetric[k].times = 0 /\ sigMetric[k].outcome = None
    BY <1>1, <1>2
  <2>3. ASSUME NEW k \in Signals!Ticks PROVE TickCounts(k)
    <3>1. RunOf(k) \in Counted /\ SkipOf(k) \in Counted
      BY DEF RunOf, SkipOf, Counted, Signals!Runs, Signals!Skips
    <3> QED
      BY <2>1, <2>2, <3>1 DEF TickCounts
  <2>4. ASSUME NEW k \in Signals!Ticks, NEW e \in Devices PROVE ReadCounts(k, e)
    <3>1. ReadOf(k, e) \in Counted /\ CallOf(k, e) \in Counted /\ ReadOf(k, e) \in Signals!Names
      BY CountNames, NameKinds, InNames
    <3>2. spans[ReadOf(k, e)] = None
      BY <1>1, <3>1
    <3> QED
      BY <2>1, <2>2, <3>1, <3>2, BridgeAssumption DEF ReadCounts
  <2> QED
    BY <1>5, <2>3, <2>4 DEF MetricInv
<1> QED
  BY <1>3, <1>4, <1>6, <1>7, <1>8, <1>9 DEF SignalsInv

LEMMA SignalsStep == SignalsInv /\ [Signals!Next]_Signals!vars => SignalsInv'
<1> SUFFICES ASSUME SignalsInv, [Signals!Next]_Signals!vars PROVE SignalsInv'
  OBVIOUS
<1>1. CASE UNCHANGED Signals!vars
  <2>1. UNCHANGED <<sdk, spans, sigMetric, timer, tick, traced, queue, carrier, stopped>>
    BY <1>1 DEF Signals!vars, Signals!poll, Signals!dispatch, Signals!inbound
  <2> QED
    BY <2>1, StoredAlike, OutsideTicks DEF SignalsInv, SignalTypes, StopInv
<1>2. CASE Signals!Next
  BY <1>2, LoadInv, TimerFiresInv, NothingDueInv, DueDevicesInv, PollDeviceInv, NotReadInv, NoKeyResolvesInv,
     CallBeginsInv, CallFailsInv, CallSucceedsInv, SettlesInv, PublishInv, QuietInv, SentInv, ConsumeInv, RespondInv
     DEF Signals!Next
<1> QED
  BY <1>1, <1>2

LEMMA SignalsHold == SignalsInv => Signals!SignalsSound
<1> SUFFICES ASSUME SignalsInv PROVE Signals!SignalsSound
  OBVIOUS
<1>1. Signals!Rooted
  <2> SUFFICES ASSUME NEW s \in Signals!Names, spans[s] # None
               PROVE  /\ spans[s].parent = None => s \in Signals!Runs \cup Signals!Handled
                      /\ s \in Signals!Runs => spans[s].parent = None
                      /\ s \in Signals!Handled => (spans[s].parent = Signals!Sender) = carrier[s[2]]
    BY Zenon DEF Signals!Rooted
  <2>1. Lawful(s, spans[s].parent, spans[s].trace)
    BY DEF SignalsInv, LawfulSpans
  <2>2. s \in Signals!Handled => \E m \in PolledMessages : s = MessageOf(m) /\ s[2] = m
    BY DEF Signals!Handled, MessageOf
  <2>3. None # Signals!Sender
    BY BridgeAssumption
  <2>4. carrier \in [PolledMessages -> BOOLEAN]
    BY DEF SignalsInv, SignalTypes
  <2>5. ASSUME s \in Signals!Handled PROVE (spans[s].parent = Signals!Sender) = carrier[s[2]]
    <3>1. PICK m \in PolledMessages : s = MessageOf(m) /\ s[2] = m
      BY <2>2, <2>5
    <3>2. carrier[m] \in BOOLEAN
      BY <2>4
    <3>3. spans[s].parent = Signals!Sender <=> carrier[m]
      BY <2>1, <2>3, <3>1 DEF Lawful
    <3>4. (spans[s].parent = Signals!Sender) = carrier[m]
      BY <3>2, <3>3
    <3> QED
      BY <3>1, <3>4
  <2>6. /\ spans[s].parent = None => s \in Signals!Runs \cup Signals!Handled
        /\ s \in Signals!Runs => spans[s].parent = None
    BY <2>1 DEF Lawful
  <2> QED
    BY <2>5, <2>6
<1>2. Signals!JoinsItsRead
  <2> SUFFICES ASSUME NEW n \in Signals!Ticks, NEW d \in Devices, spans[PublishOf(n, d)] # None
               PROVE  traced[n] /\ spans[PublishOf(n, d)].trace = RunOf(n)
    BY DEF Signals!JoinsItsRead, PublishOf, RunOf
  <2>1. PublishOf(n, d) \in Signals!Names
    BY NameKinds, InNames
  <2> QED
    BY <2>1 DEF SignalsInv, LawfulSpans, Lawful
<1>3. Signals!Metered
  <2> SUFFICES ASSUME sdk = "on", NEW n \in Signals!Ticks, Signals!Finished(n)
               PROVE  /\ sigMetric[RunOf(n)].times + sigMetric[SkipOf(n)].times = 1
                      /\ \A d \in Devices :
                           /\ sigMetric[CallOf(n, d)].outcome = "error" => sigMetric[ReadOf(n, d)].outcome = "failure"
                           /\ spans[ReadOf(n, d)] # None =>
                                spans[ReadOf(n, d)].error = (sigMetric[ReadOf(n, d)].outcome = "failure")
                           /\ sigMetric[ReadOf(n, d)].times <= sigMetric[RunOf(n)].times
    BY DEF Signals!Metered, RunOf, SkipOf, CallOf, ReadOf
  <2>1. TickCounts(n) /\ \A d \in Devices : ReadCounts(n, d)
    BY DEF SignalsInv, MetricInv
  <2>2. ASSUME NEW d \in Devices, spans[ReadOf(n, d)] # None
        PROVE  spans[ReadOf(n, d)].error = (sigMetric[ReadOf(n, d)].outcome = "failure")
    <3>1. spans[ReadOf(n, d)].error \in BOOLEAN
      <4>1. spans[ReadOf(n, d)] \in Signals!Spans
        BY <2>2, NameKinds, InNames, StoredAlike
      <4> QED
        BY <4>1 DEF Signals!Spans
    <3>2. spans[ReadOf(n, d)].error <=> sigMetric[ReadOf(n, d)].outcome = "failure"
      BY <2>1, <2>2 DEF ReadCounts
    <3> QED
      BY <3>1, <3>2
  <2> QED
    BY <2>1, <2>2 DEF TickCounts, ReadCounts
<1>4. Signals!StaysStopped
  BY DEF Signals!StaysStopped, SignalsInv, StopInv
<1> QED
  BY <1>1, <1>2, <1>3, <1>4 DEF Signals!SignalsSound

----------------------------------------------------------------------------
(***************************************************************************)
(* MiotSpec: a device numbers its services and a service its properties,   *)
(* so a key has one member, and the map one published entry for it, unless *)
(* a type spells the key of another.                                       *)
(***************************************************************************)

\* What the types tried are made of.
TypeParts == {"mode", "switch", "fan", "level"} \cup Nat

\* As a device publishes them: a type and an iid for each, and no iid twice.
Numbered(members) ==
  /\ \A j \in DOMAIN members : "iid" \in DOMAIN members[j] /\ "type" \in DOMAIN members[j]
  /\ \A j \in DOMAIN members : members[j].type \in Seq(TypeParts) /\ members[j].iid \in Nat
  /\ \A j, k \in DOMAIN members : members[j].iid = members[k].iid => j = k
KeysLawful(spec) == Numbered(spec) /\ \A i \in DOMAIN spec : Numbered(spec[i].properties)

\* A number behind a type is told from the type and from another number.
LEMMA AppendTells ==
  ASSUME NEW s \in Seq(TypeParts), NEW u \in Seq(TypeParts), NEW m \in Nat, NEW n \in Nat,
         Append(s, m) = Append(u, n)
  PROVE  m = n
<1>1. m \in TypeParts /\ n \in TypeParts
  BY DEF TypeParts
<1> HIDE DEF TypeParts
<1>2. /\ Len(Append(s, m)) = Len(s) + 1 /\ Append(s, m)[Len(s) + 1] = m
      /\ Len(Append(u, n)) = Len(u) + 1 /\ Append(u, n)[Len(u) + 1] = n
      /\ Len(s) \in Nat /\ Len(u) \in Nat
  BY <1>1
<1>3. Len(s) = Len(u)
  BY <1>2
<1> QED
  BY <1>2, <1>3

\* The key of a service, and of a property in its service, is its own unless it is spelt by another.
LEMMA MemberKeysDiffer ==
  ASSUME NEW members, NEW i \in DOMAIN members, NEW k \in DOMAIN members, Numbered(members),
         ~Keys!Spelt(members, i), Keys!MemberKey(members, i) = Keys!MemberKey(members, k)
  PROVE  i = k
<1> DEFINE Repeated(n) == \E m \in DOMAIN members : m # n /\ members[m].type = members[n].type
<1>1. \A n \in DOMAIN members :
        Keys!MemberKey(members, n) = IF Repeated(n) THEN Append(members[n].type, members[n].iid) ELSE members[n].type
  BY DEF Keys!MemberKey
<1>2. CASE Repeated(i) /\ Repeated(k)
  <2>1. Append(members[i].type, members[i].iid) = Append(members[k].type, members[k].iid)
    BY <1>1, <1>2
  <2>2. /\ members[i].type \in Seq(TypeParts) /\ members[k].type \in Seq(TypeParts)
        /\ members[i].iid \in Nat /\ members[k].iid \in Nat
    BY DEF Numbered
  <2>3. members[i].iid = members[k].iid
    BY <2>1, <2>2, AppendTells
  <2> QED
    BY <2>3 DEF Numbered
<1>3. CASE ~Repeated(i) /\ ~Repeated(k)
  <2>1. members[i].type = members[k].type
    BY <1>1, <1>3
  <2> QED
    BY <1>3, <2>1
<1>4. CASE Repeated(i) /\ ~Repeated(k)
  <2>1. Append(members[i].type, members[i].iid) = members[k].type
    BY <1>1, <1>4
  <2> QED
    BY <2>1 DEF Keys!Spelt, Keys!Spells
<1>5. CASE ~Repeated(i) /\ Repeated(k)
  <2>1. members[i].type = Append(members[k].type, members[k].iid)
    BY <1>1, <1>5
  <2> QED
    BY <2>1 DEF Keys!Spelt, Keys!Spells
<1> QED
  BY <1>2, <1>3, <1>4, <1>5

\* A key nobody spells has one published member.
LEMMA OneMember ==
  ASSUME NEW spec, NEW m \in Keys!Members(spec), NEW n \in Keys!Members(spec), KeysLawful(spec),
         ~Keys!Spelt(spec, m[1]), ~Keys!Spelt(spec[m[1]].properties, m[2]),
         Keys!KeyOf(spec, m) = Keys!KeyOf(spec, n)
  PROVE  m = n
<1>1. /\ m[1] \in DOMAIN spec /\ m[2] \in DOMAIN spec[m[1]].properties /\ m = <<m[1], m[2]>>
      /\ n[1] \in DOMAIN spec /\ n[2] \in DOMAIN spec[n[1]].properties /\ n = <<n[1], n[2]>>
  BY DEF Keys!Members
<1> DEFINE i == m[1]
           j == m[2]
           k == n[1]
           l == n[2]
<1>2. /\ Keys!MemberKey(spec, i) = Keys!MemberKey(spec, k)
      /\ Keys!MemberKey(spec[i].properties, j) = Keys!MemberKey(spec[k].properties, l)
  BY DEF Keys!KeyOf, Keys!ServiceKey
<1>3. i = k
  BY <1>1, <1>2, MemberKeysDiffer DEF KeysLawful
<1>4. Numbered(spec[i].properties)
  BY <1>1 DEF KeysLawful
<1>5. j = l
  BY <1>1, <1>2, <1>3, <1>4, MemberKeysDiffer
<1> QED
  BY <1>1, <1>3, <1>5

\* The entry of a published member.
EntryOf(spec, m) ==
  Keys!Entry("spec", spec[m[1]].iid, spec[m[1]].properties[m[2]].iid,
             spec[m[1]].properties[m[2]].access, spec[m[1]].properties[m[2]].constraint)

\* Each member's key is published, and what is published is the entry of a member of that key.
LEMMA PublishedEntry ==
  ASSUME NEW spec
  PROVE  /\ \A m \in Keys!Members(spec) : Keys!KeyOf(spec, m) \in DOMAIN Keys!Published(spec)
         /\ \A k \in DOMAIN Keys!Published(spec) :
              \E m \in Keys!Members(spec) : Keys!KeyOf(spec, m) = k /\ Keys!Published(spec)[k] = EntryOf(spec, m)
<1> DEFINE Chosen(k) == CHOOSE m \in Keys!Members(spec) : Keys!KeyOf(spec, m) = k
           keys == {Keys!KeyOf(spec, m) : m \in Keys!Members(spec)}
<1>1. Keys!Published(spec) = [k \in keys |-> EntryOf(spec, Chosen(k))]
  BY DEF Keys!Published, EntryOf
<1>2. \A m \in Keys!Members(spec) : Keys!KeyOf(spec, m) \in keys
  OBVIOUS
<1>3. \A k \in keys : Chosen(k) \in Keys!Members(spec) /\ Keys!KeyOf(spec, Chosen(k)) = k
  OBVIOUS
<1> HIDE DEF Chosen, keys
<1> QED
  BY <1>1, <1>2, <1>3

\* On top of a map, overrides take no key away, and what is not one of them is as it was.
LEMMA OverriddenEntry ==
  ASSUME NEW spec, NEW base, NEW list
  PROVE  /\ DOMAIN base \subseteq DOMAIN Keys!Overridden(spec, base, list)
         /\ \A k \in DOMAIN Keys!Overridden(spec, base, list) :
              \/ Keys!Overridden(spec, base, list)[k].source = "override"
              \/ k \in DOMAIN base /\ Keys!Overridden(spec, base, list)[k] = base[k]
<1> DEFINE placed == {n \in DOMAIN list : Keys!Places(spec, list[n]) # {}}
           key(n) == <<Keys!ServiceKey(spec, CHOOSE i \in Keys!Places(spec, list[n]) : TRUE), list[n].key>>
           last(k) == list[CHOOSE n \in placed : key(n) = k /\ \A m \in placed : key(m) = k => m <= n]
           ours(k) == Keys!Entry("override", last(k).siid, last(k).piid, last(k).access, [kind |-> "list", values |-> last(k).values])
           all == DOMAIN base \cup {key(n) : n \in placed}
<1>1. Keys!Overridden(spec, base, list) =
        [k \in all |-> IF \E n \in placed : key(n) = k THEN ours(k) ELSE base[k]]
  BY DEF Keys!Overridden
<1>2. \A k : ours(k).source = "override"
  BY DEF Keys!Entry
<1>3. \A k \in all : (\E n \in placed : key(n) = k) \/ k \in DOMAIN base
  OBVIOUS
<1>4. DOMAIN base \subseteq all
  OBVIOUS
<1> HIDE DEF placed, key, ours, all
<1> QED
  BY <1>1, <1>2, <1>3, <1>4

\* Of the overrides of one key the last says what the key means.
LEMMA LastOverride ==
  ASSUME NEW spec, NEW base, NEW list, DOMAIN list \subseteq Nat,
         NEW n \in DOMAIN list, Keys!Places(spec, list[n]) # {},
         \A later \in DOMAIN list : later > n => list[later].key # list[n].key
  PROVE  \E i \in Keys!Places(spec, list[n]) :
           Keys!Overridden(spec, base, list)[<<Keys!ServiceKey(spec, i), list[n].key>>] =
             Keys!Entry("override", list[n].siid, list[n].piid, list[n].access, [kind |-> "list", values |-> list[n].values])
<1> DEFINE placed == {m \in DOMAIN list : Keys!Places(spec, list[m]) # {}}
           place(m) == CHOOSE i \in Keys!Places(spec, list[m]) : TRUE
           key(m) == <<Keys!ServiceKey(spec, place(m)), list[m].key>>
           latest(k) == CHOOSE m \in placed : key(m) = k /\ \A o \in placed : key(o) = k => o <= m
           ours(o) == Keys!Entry("override", o.siid, o.piid, o.access, [kind |-> "list", values |-> o.values])
           all == DOMAIN base \cup {key(m) : m \in placed}
<1>1. Keys!Overridden(spec, base, list) =
        [k \in all |-> IF \E m \in placed : key(m) = k THEN ours(list[latest(k)]) ELSE base[k]]
  BY DEF Keys!Overridden
<1>2. n \in placed /\ placed \subseteq Nat /\ placed \subseteq DOMAIN list
  OBVIOUS
<1>3. key(n) \in all /\ place(n) \in Keys!Places(spec, list[n])
  BY <1>2
<1>4. \A m \in placed : key(m) = key(n) => list[m].key = list[n].key
  OBVIOUS
<1> HIDE DEF placed, place
<1>5. \A m \in placed : key(m) = key(n) => m <= n
  BY <1>2, <1>4
<1> DEFINE q == key(n)
<1>6. \A m \in placed : (key(m) = q /\ \A o \in placed : key(o) = q => o <= m) <=> m = n
  BY <1>2, <1>5
<1> HIDE DEF key, q
<1>7. latest(q) = n
  BY <1>2, <1>6
<1> HIDE DEF latest, ours, all
<1>8. Keys!Overridden(spec, base, list)[q] = ours(list[n])
  BY <1>1, <1>2, <1>3, <1>7 DEF q
<1> QED
  BY <1>3, <1>8 DEF q, key, ours

\* What the map says of a key, whatever is stored on top of the spec: the published entry of a member of that
\* key, or an override.
LEMMA MapSays ==
  ASSUME NEW spec, NEW list, NEW k \in DOMAIN Keys!Simplified(spec, list)
  PROVE  \/ Keys!Simplified(spec, list)[k].source = "override"
         \/ \E m \in Keys!Members(spec) :
              Keys!KeyOf(spec, m) = k /\ Keys!Simplified(spec, list)[k] = EntryOf(spec, m)
<1>1. \/ Keys!Simplified(spec, list)[k].source = "override"
      \/ k \in DOMAIN Keys!Published(spec) /\ Keys!Simplified(spec, list)[k] = Keys!Published(spec)[k]
  BY OverriddenEntry DEF Keys!Simplified
<1> QED
  BY <1>1, PublishedEntry

\* A stored spec stays a lawful one as it is used, and as it is stored again.
LEMMA MappedLawful ==
  ASSUME NEW spec, NEW access, KeysLawful(spec)
  PROVE  KeysLawful(Keys!MapServices(spec, access))
<1> DEFINE mapped == Keys!MapServices(spec, access)
<1>1. /\ DOMAIN mapped = DOMAIN spec
      /\ \A i \in DOMAIN spec :
           /\ "iid" \in DOMAIN mapped[i] /\ "type" \in DOMAIN mapped[i]
           /\ mapped[i].iid = spec[i].iid /\ mapped[i].type = spec[i].type
           /\ DOMAIN mapped[i].properties = DOMAIN spec[i].properties
  BY DEF Keys!MapServices
<1>2. ASSUME NEW i \in DOMAIN spec, NEW j \in DOMAIN spec[i].properties
      PROVE  /\ "iid" \in DOMAIN mapped[i].properties[j] /\ "type" \in DOMAIN mapped[i].properties[j]
             /\ mapped[i].properties[j].iid = spec[i].properties[j].iid
             /\ mapped[i].properties[j].type = spec[i].properties[j].type
  <2>1. mapped[i].properties[j] = [spec[i].properties[j] EXCEPT !.access = {access[a] : a \in @}]
    BY DEF Keys!MapServices
  <2>2. "iid" \in DOMAIN spec[i].properties[j] /\ "type" \in DOMAIN spec[i].properties[j]
    BY DEF KeysLawful, Numbered
  <2> HIDE DEF mapped
  <2> QED
    BY <2>1, <2>2
<1> HIDE DEF mapped
<1>3. Numbered(mapped)
  BY <1>1 DEF KeysLawful, Numbered
<1>4. ASSUME NEW i \in DOMAIN mapped PROVE Numbered(mapped[i].properties)
  <2>1. i \in DOMAIN spec /\ Numbered(spec[i].properties)
    BY <1>1 DEF KeysLawful
  <2> QED
    BY <1>1, <1>2, <2>1 DEF Numbered
<1> QED
  BY <1>3, <1>4 DEF KeysLawful, mapped

----------------------------------------------------------------------------
(* The machine *)

\* A request is a record of its three fields, and holds nothing before it is resolved.
RequestKept ==
  keyRequest = [at |-> keyRequest.at, seen |-> keyRequest.seen, entry |-> keyRequest.entry]

KeysInv ==
  /\ KeysLawful(stored)
  /\ overrides \in Seq(OverridesTried)
  /\ RequestKept
  /\ Keys!SentAsSpecified
  /\ IsFiniteSet(read.keys)
  /\ warned \in Seq(Keys!ToSet(warned))
  /\ Keys!WarnedOnce

\* The spec as the program uses it is lawful when the stored one is.
LEMMA DeviceLawful ==
  ASSUME KeysLawful(stored)
  PROVE  KeysLawful(Keys!Device)
  BY MappedLawful DEF Keys!Device, Keys!MapDTOToModel

\* Then each published property nobody spells keeps its key, whatever overrides there are.
LEMMA AddressableHolds ==
  ASSUME KeysLawful(stored)
  PROVE  Keys!Addressable
<1> DEFINE device == Keys!Device
           map == Keys!Simplified(device, overrides)
<1>1. KeysLawful(device)
  BY DeviceLawful
<1>2. SUFFICES ASSUME NEW m \in Keys!Members(device), map[Keys!KeyOf(device, m)].source = "spec",
                      ~Keys!Spelt(device, m[1]), ~Keys!Spelt(device[m[1]].properties, m[2])
               PROVE  /\ map[Keys!KeyOf(device, m)].siid = device[m[1]].iid
                      /\ map[Keys!KeyOf(device, m)].piid = device[m[1]].properties[m[2]].iid
  BY DEF Keys!Addressable, Keys!Show
<1> DEFINE k == Keys!KeyOf(device, m)
<1> HIDE DEF device
<1>3. k \in DOMAIN map
  BY PublishedEntry, OverriddenEntry DEF Keys!Simplified
<1>4. map[k].source # "override"
  BY <1>2
<1> HIDE DEF map
<1>5. PICK n \in Keys!Members(device) : Keys!KeyOf(device, n) = k /\ map[k] = EntryOf(device, n)
  BY <1>3, <1>4, MapSays DEF map
<1>6. n = m
  BY <1>1, <1>2, <1>5, OneMember
<1> QED
  BY <1>5, <1>6 DEF EntryOf, Keys!Entry

\* And the newest override of a key says what it means.
LEMMA NewestRulesHolds ==
  ASSUME overrides \in Seq(OverridesTried)
  PROVE  Keys!NewestRules
<1> DEFINE device == Keys!Device
<1>1. DOMAIN overrides \subseteq Nat
  OBVIOUS
<1>2. SUFFICES ASSUME NEW n \in DOMAIN overrides, Keys!Places(device, overrides[n]) # {},
                      \A later \in DOMAIN overrides : later > n => overrides[later].key # overrides[n].key
               PROVE  \E i \in Keys!Places(device, overrides[n]) :
                        Keys!Show[<<Keys!ServiceKey(device, i), overrides[n].key>>] =
                          Keys!Entry("override", overrides[n].siid, overrides[n].piid, overrides[n].access,
                                     [kind |-> "list", values |-> overrides[n].values])
  BY DEF Keys!NewestRules
<1>3. Keys!Show = Keys!Overridden(device, Keys!Published(device), overrides)
  BY DEF Keys!Show, Keys!Simplified
<1> HIDE DEF device
<1> QED
  BY <1>1, <1>2, <1>3, LastOverride

\* The types tried are types.
LEMMA TypesTried ==
  /\ Mode \in Seq(TypeParts) /\ Switch \in Seq(TypeParts) /\ <<"fan">> \in Seq(TypeParts) /\ <<"level">> \in Seq(TypeParts)
  /\ <<"switch", 2>> \in Seq(TypeParts) /\ <<"mode", 1>> \in Seq(TypeParts)
<1>1. /\ "mode" \in TypeParts /\ "switch" \in TypeParts /\ "fan" \in TypeParts /\ "level" \in TypeParts
      /\ 1 \in TypeParts /\ 2 \in TypeParts
  <2>1. 1 \in Nat /\ 2 \in Nat
    OBVIOUS
  <2> QED
    BY <2>1, Zenon DEF TypeParts
<1> HIDE DEF TypeParts
<1>2. \A x \in TypeParts : <<x>> \in Seq(TypeParts)
  OBVIOUS
<1>3. \A x, y \in TypeParts : <<x, y>> \in Seq(TypeParts)
  OBVIOUS
<1> QED
  BY <1>1, <1>2, <1>3 DEF Mode, Switch

\* What a property tried is.
LEMMA PropertyTried ==
  ASSUME NEW type, NEW iid, NEW constraint
  PROVE  /\ "iid" \in DOMAIN Property(type, iid, constraint) /\ "type" \in DOMAIN Property(type, iid, constraint)
         /\ Property(type, iid, constraint).type = type /\ Property(type, iid, constraint).iid = iid
  BY DEF Property

\* A list of one or two of them is numbered.
LEMMA NumberedTried ==
  ASSUME NEW v \in Seq(TypeParts), NEW w \in Seq(TypeParts), NEW c, NEW d
  PROVE  /\ Numbered(<<Property(v, 1, c)>>)
         /\ Numbered(<<Property(v, 1, c), Property(w, 2, d)>>)
<1> DEFINE p == Property(v, 1, c)
           q == Property(w, 2, d)
<1>1. "iid" \in DOMAIN p /\ "type" \in DOMAIN p /\ p.type = v /\ p.iid = 1
  BY PropertyTried
<1>2. "iid" \in DOMAIN q /\ "type" \in DOMAIN q /\ q.type = w /\ q.iid = 2
  BY PropertyTried
<1> HIDE DEF p, q
<1>3. Numbered(<<p>>)
  BY <1>1 DEF Numbered
<1>4. Numbered(<<p, q>>)
  BY <1>1, <1>2 DEF Numbered
<1> QED
  BY <1>3, <1>4 DEF p, q

\* So are two services, and three.
LEMMA ServicesTried ==
  ASSUME NEW s \in Seq(TypeParts), NEW u \in Seq(TypeParts), NEW v \in Seq(TypeParts), NEW p, NEW q, NEW r, NEW a,
         Numbered(p), Numbered(q), Numbered(r)
  PROVE  /\ KeysLawful(<<Service(s, 2, p, a), Service(u, 3, q, <<>>)>>)
         /\ KeysLawful(<<Service(s, 2, p, a), Service(u, 3, q, <<>>), Service(v, 4, r, <<>>)>>)
<1> DEFINE x == Service(s, 2, p, a)
           y == Service(u, 3, q, <<>>)
           z == Service(v, 4, r, <<>>)
<1>1. "iid" \in DOMAIN x /\ "type" \in DOMAIN x /\ x.type = s /\ x.iid = 2 /\ x.properties = p
  BY DEF Service
<1>2. "iid" \in DOMAIN y /\ "type" \in DOMAIN y /\ y.type = u /\ y.iid = 3 /\ y.properties = q
  BY DEF Service
<1>3. "iid" \in DOMAIN z /\ "type" \in DOMAIN z /\ z.type = v /\ z.iid = 4 /\ z.properties = r
  BY DEF Service
<1> HIDE DEF x, y, z
<1>4. Numbered(<<x, y>>) /\ Numbered(<<x, y, z>>)
  BY <1>1, <1>2, <1>3 DEF Numbered
<1>5. /\ \A i \in DOMAIN <<x, y>> : Numbered(<<x, y>>[i].properties)
      /\ \A i \in DOMAIN <<x, y, z>> : Numbered(<<x, y, z>>[i].properties)
  BY <1>1, <1>2, <1>3
<1> QED
  BY <1>4, <1>5 DEF KeysLawful, x, y, z

\* Each of the specs tried is lawful.
LEMMA SpecsLawful ==
  ASSUME NEW spec \in SpecsTried
  PROVE  KeysLawful(spec)
<1> DEFINE Listed(v, w, ranged) ==
             IF w = <<>> THEN <<Property(v, 1, Constraint(v, ranged))>>
             ELSE <<Property(v, 1, Constraint(v, ranged)), Property(w, 2, Constraint(w, ranged))>>
           Tried(type, v, w, ranged) == TwoServices(type, Property(v, 1, Constraint(v, ranged)), Listed(v, w, ranged))
<1>1. ASSUME NEW type \in {Switch, <<"fan">>}, NEW v \in {Mode, <<"level">>}, NEW w \in {Mode, <<>>}, NEW ranged \in BOOLEAN
      PROVE  KeysLawful(Tried(type, v, w, ranged))
  <2>1. Switch \in Seq(TypeParts) /\ type \in Seq(TypeParts) /\ v \in Seq(TypeParts) /\ (w = <<>> \/ w \in Seq(TypeParts))
    BY TypesTried
  <2>2. Numbered(Listed(v, w, ranged))
    <3>1. CASE w = <<>>
      BY <2>1, <3>1, NumberedTried
    <3>2. CASE w # <<>>
      BY <2>1, <3>2, NumberedTried
    <3> QED
      BY <3>1, <3>2
  <2>3. Numbered(<<Property(v, 1, Constraint(v, ranged))>>)
    BY <2>1, NumberedTried
  <2> HIDE DEF Listed
  <2> QED
    BY <2>1, <2>2, <2>3, ServicesTried DEF TwoServices
<1>2. KeysLawful(Spelling)
  <2>1. /\ Numbered(<<Property(Mode, 1, NoConstraint), Property(Mode, 2, RangeConstraint)>>)
        /\ Numbered(<<Property(Mode, 1, NoConstraint)>>)
        /\ Numbered(<<Property(<<"mode", 1>>, 1, RangeConstraint)>>)
    BY TypesTried, NumberedTried
  <2> QED
    BY <2>1, TypesTried, ServicesTried DEF Spelling
<1>3. SpecsTried =
        {Tried(type, v, w, ranged) :
           type \in {Switch, <<"fan">>}, v \in {Mode, <<"level">>}, w \in {Mode, <<>>}, ranged \in BOOLEAN} \cup {Spelling}
  BY DEF SpecsTried
<1> HIDE DEF Tried
<1> QED
  BY <1>1, <1>2, <1>3

LEMMA KeysInit == Keys!Init => KeysInv
<1> SUFFICES ASSUME Keys!Init PROVE KeysInv
  OBVIOUS
<1>1. /\ stored \in SpecsTried /\ warned = <<>> /\ read = [at |-> "idle", keys |-> {}]
      /\ keyRequest = [at |-> "idle", seen |-> <<>>, entry |-> {}]
  BY DEF Keys!Init, Keys!NoRequest, Keys!NoRead
<1>2. KeysLawful(stored)
  BY <1>1, SpecsLawful
<1>3. IsFiniteSet(read.keys)
  BY <1>1, FS_EmptySet
<1>4. warned \in Seq(Keys!ToSet(warned)) /\ Keys!WarnedOnce
  BY <1>1 DEF Keys!ToSet, Keys!WarnedOnce
<1>5. overrides \in Seq(OverridesTried)
  BY DEF Keys!Init
<1> QED
  BY <1>1, <1>2, <1>3, <1>4, <1>5 DEF KeysInv, RequestKept, Keys!SentAsSpecified

\* A finite set as a sequence: each element of it once.
LEMMA SetAsSequence ==
  ASSUME NEW S, IsFiniteSet(S)
  PROVE  /\ Keys!SetToSeq(S) \in [1 .. Cardinality(S) -> S]
         /\ \A i, j \in 1 .. Cardinality(S) : Keys!SetToSeq(S)[i] = Keys!SetToSeq(S)[j] => i = j
<1>1. PICK f \in Bijection(1 .. Cardinality(S), S) : TRUE
  BY FS_CardinalityType DEF ExistsBijection
<1>2. f \in [1 .. Cardinality(S) -> S] /\ \A a, b \in DOMAIN f : f[a] = f[b] => a = b
  BY <1>1 DEF Bijection, Injection, IsInjective
<1>3. \E g \in [1 .. Cardinality(S) -> S] : Keys!IsInjective(g)
  BY <1>2 DEF Keys!IsInjective
<1>4. /\ Keys!SetToSeq(S) \in [1 .. Cardinality(S) -> S]
      /\ Keys!IsInjective(Keys!SetToSeq(S))
  <2>1. Keys!Cardinality(S) = Cardinality(S)
    BY DEF Keys!Cardinality, Cardinality
  <2> QED
    BY <1>3, <2>1 DEF Keys!SetToSeq
<1> DEFINE g == Keys!SetToSeq(S)
<1> HIDE DEF g
<1>5. g \in [1 .. Cardinality(S) -> S] /\ \A a, b \in DOMAIN g : g[a] = g[b] => a = b
  BY <1>4 DEF Keys!IsInjective, g
<1>6. /\ g \in [1 .. Cardinality(S) -> S]
      /\ \A i, j \in 1 .. Cardinality(S) : g[i] = g[j] => i = j
  BY <1>5
<1> QED
  BY <1>6 DEF g

\* Appending what is not there yet, each once, leaves each once.
LEMMA WarnedAppend ==
  ASSUME NEW s, NEW S, s \in Seq(Keys!ToSet(s)), \A i, j \in DOMAIN s : s[i] = s[j] => i = j,
         IsFiniteSet(S), \A i \in DOMAIN s : s[i] \notin S
  PROVE  /\ s \o Keys!SetToSeq(S) \in Seq(Keys!ToSet(s \o Keys!SetToSeq(S)))
         /\ \A i, j \in DOMAIN (s \o Keys!SetToSeq(S)) :
              (s \o Keys!SetToSeq(S))[i] = (s \o Keys!SetToSeq(S))[j] => i = j
<1> DEFINE t == Keys!SetToSeq(S)
           c == Cardinality(S)
           r == s \o t
<1>1. c \in Nat /\ t \in [1 .. c -> S] /\ \A i, j \in 1 .. c : t[i] = t[j] => i = j
  BY SetAsSequence, FS_CardinalityType
<1> HIDE DEF t, c
<1> DEFINE D == Keys!ToSet(s) \cup S
<1>2. s \in Seq(D) /\ t \in Seq(D) /\ Len(t) = c /\ DOMAIN s = 1 .. Len(s) /\ Len(s) \in Nat
  <2>1. s \in Seq(D)
    OBVIOUS
  <2>2. t \in Seq(S) /\ Len(t) = c
    BY <1>1
  <2> QED
    BY <2>1, <2>2
<1>3. /\ r \in Seq(D) /\ Len(r) = Len(s) + c
      /\ \A i \in 1 .. Len(r) : r[i] = IF i <= Len(s) THEN s[i] ELSE t[i - Len(s)]
  <2> HIDE DEF D
  <2> QED
    BY <1>1, <1>2
<1>4. DOMAIN r = 1 .. Len(r) /\ Len(r) \in Nat
  <2> HIDE DEF D, r
  <2> QED
    BY <1>3
<1> HIDE DEF D, r
<1>5. r \in Seq(Keys!ToSet(r))
  <2>1. \A i \in 1 .. Len(r) : r[i] \in Keys!ToSet(r)
    BY <1>4 DEF Keys!ToSet
  <2>2. r = [i \in 1 .. Len(r) |-> r[i]]
    BY <1>3
  <2> QED
    BY <1>4, <2>1, <2>2
<1>6. ASSUME NEW i \in DOMAIN r, NEW j \in DOMAIN r, r[i] = r[j]
      PROVE  i = j
  <2>1. i \in 1 .. Len(s) + c /\ j \in 1 .. Len(s) + c
    BY <1>3, <1>4
  <2>2. CASE i <= Len(s) /\ j <= Len(s)
    BY <1>2, <1>3, <1>4, <1>6, <2>1, <2>2
  <2>3. CASE i > Len(s) /\ j > Len(s)
    <3>1. i - Len(s) \in 1 .. c /\ j - Len(s) \in 1 .. c /\ t[i - Len(s)] = t[j - Len(s)]
      BY <1>1, <1>2, <1>3, <1>4, <1>6, <2>1, <2>3
    <3> QED
      BY <1>1, <1>2, <2>1, <3>1
  <2>4. CASE i <= Len(s) /\ j > Len(s)
    <3>1. j - Len(s) \in 1 .. c /\ s[i] = t[j - Len(s)] /\ i \in DOMAIN s
      BY <1>1, <1>2, <1>3, <1>4, <1>6, <2>1, <2>4
    <3> QED
      BY <1>1, <3>1
  <2>5. CASE i > Len(s) /\ j <= Len(s)
    <3>1. i - Len(s) \in 1 .. c /\ s[j] = t[i - Len(s)] /\ j \in DOMAIN s
      BY <1>1, <1>2, <1>3, <1>4, <1>6, <2>1, <2>5
    <3> QED
      BY <1>1, <3>1
  <2> QED
    BY <1>1, <1>2, <2>1, <2>2, <2>3, <2>4, <2>5
<1> QED
  BY <1>5, <1>6 DEF r, t

\* What is sent says its key's entry, and a published one the member of it.
LEMMA CommandKeeps ==
  ASSUME KeysInv, Keys!Command
  PROVE  Keys!SentAsSpecified'
<1>2. PICK command \in Keys!Commands :
        LET found == Keys!Resolve(command, Keys!Simplified(Keys!Device, keyRequest.seen))
        IN  keyRequest' = [keyRequest EXCEPT !.at = IF ~Keys!Mappable(Keys!Device) THEN "error" ELSE IF found = {} THEN "refused" ELSE "sent",
                             !.entry = IF ~Keys!Mappable(Keys!Device) \/ found = {} THEN {}
                                       ELSE {[key |-> command.key, operation |-> command.operation, value |-> command.value, entry |-> e] : e \in found}]
  BY DEF Keys!Command
<1> DEFINE device == Keys!Device
           map == Keys!Simplified(device, keyRequest.seen)
           found == Keys!Resolve(command, map)
           sending == {[key |-> command.key, operation |-> command.operation, value |-> command.value, entry |-> e] : e \in found}
           at == IF ~Keys!Mappable(device) THEN "error" ELSE IF found = {} THEN "refused" ELSE "sent"
           entry == IF ~Keys!Mappable(device) \/ found = {} THEN {} ELSE sending
<1>3. keyRequest' = [keyRequest EXCEPT !.at = at, !.entry = entry]
  BY <1>2
<1>4. device' = device /\ stored' = stored
  BY DEF Keys!Command, Keys!Device
<1>5. entry \subseteq sending
  OBVIOUS
<1>6. ASSUME NEW e \in found
      PROVE  /\ command.key \in DOMAIN map /\ e = map[command.key]
             /\ command.operation = "SetProperty" => "Write" \in e.access /\ Keys!ValidValue(command.value, e.constraint)
  <2>1. command.key \in DOMAIN map
    BY <1>6 DEF Keys!Resolve
  <2>2. e = map[command.key]
    BY <1>6, <2>1 DEF Keys!Resolve
  <2>3. ASSUME command.operation = "SetProperty"
        PROVE  "Write" \in e.access /\ Keys!ValidValue(command.value, e.constraint)
    <3>1. found = {x \in {map[command.key]} : "Write" \in x.access /\ Keys!ValidValue(command.value, x.constraint)}
      BY <2>1, <2>3 DEF Keys!Resolve
    <3> QED
      BY <1>6, <3>1
  <2> QED
    BY <2>1, <2>2, <2>3
<1> HIDE DEF map, found, at, entry
<1>7. keyRequest'.entry = entry /\ keyRequest'.seen = keyRequest.seen
  BY <1>3 DEF KeysInv, RequestKept
<1> DEFINE Allowed(c, m) ==
             c.operation = "SetProperty" =>
               /\ "Write" \in device[m[1]].properties[m[2]].access
               /\ Keys!ValidValue(c.value, device[m[1]].properties[m[2]].constraint)
<1>8. ASSUME NEW c \in entry
      PROVE  /\ c.entry = map[c.key]
             /\ c.entry.source = "spec" =>
                  \E m \in Keys!Members(device) :
                    /\ Keys!KeyOf(device, m) = c.key
                    /\ device[m[1]].iid = c.entry.siid
                    /\ device[m[1]].properties[m[2]].iid = c.entry.piid
                    /\ Allowed(c, m)
  <2>1. PICK e \in found : c = [key |-> command.key, operation |-> command.operation, value |-> command.value, entry |-> e]
    BY <1>5
  <2>2. c.key = command.key /\ c.operation = command.operation /\ c.value = command.value /\ c.entry = e
    BY <2>1
  <2>3. SUFFICES ASSUME e.source = "spec"
                 PROVE  \E m \in Keys!Members(device) :
                          /\ Keys!KeyOf(device, m) = c.key
                          /\ device[m[1]].iid = e.siid
                          /\ device[m[1]].properties[m[2]].iid = e.piid
                          /\ Allowed(c, m)
    BY <1>6, <2>2
  <2>4. PICK m \in Keys!Members(device) : Keys!KeyOf(device, m) = command.key /\ e = EntryOf(device, m)
    BY <1>6, <2>3, MapSays DEF map
  <2>5. /\ e.siid = device[m[1]].iid /\ e.piid = device[m[1]].properties[m[2]].iid
        /\ e.access = device[m[1]].properties[m[2]].access
        /\ e.constraint = device[m[1]].properties[m[2]].constraint
    BY <2>4 DEF EntryOf, Keys!Entry
  <2>6. Allowed(c, m)
    BY <1>6, <2>2, <2>5
  <2> QED
    BY <2>2, <2>4, <2>5, <2>6
<1> HIDE DEF device
<1> QED
  BY <1>4, <1>7, <1>8 DEF Keys!SentAsSpecified, map, device

\* Every step keeps the invariant.
LEMMA KeysStep == KeysInv /\ [Keys!Next]_Keys!vars => KeysInv'
<1> SUFFICES ASSUME KeysInv, [Keys!Next]_Keys!vars PROVE KeysInv'
  OBVIOUS
<1>0. /\ KeysLawful(stored) /\ overrides \in Seq(OverridesTried) /\ RequestKept /\ Keys!SentAsSpecified /\ IsFiniteSet(read.keys)
      /\ warned \in Seq(Keys!ToSet(warned)) /\ Keys!WarnedOnce
  BY DEF KeysInv
<1> USE DEF KeysInv
<1>1. ASSUME UNCHANGED <<stored, keyRequest>>
      PROVE  KeysLawful(stored)' /\ RequestKept' /\ Keys!SentAsSpecified'
  BY <1>0, <1>1 DEF RequestKept, Keys!SentAsSpecified, Keys!Device
<1>2. ASSUME UNCHANGED warned
      PROVE  warned' \in Seq(Keys!ToSet(warned')) /\ Keys!WarnedOnce'
  BY <1>0, <1>2 DEF Keys!WarnedOnce
<1>3. ASSUME UNCHANGED read
      PROVE  IsFiniteSet(read'.keys)
  BY <1>0, <1>3
<1>4. CASE Keys!CreateOverride
  <2>1. overrides' \in Seq(OverridesTried)
    BY <1>0, <1>4 DEF Keys!CreateOverride
  <2> QED
    BY <1>1, <1>2, <1>3, <1>4, <2>1 DEF Keys!CreateOverride
<1>5. CASE Keys!DeleteOverride
  <2>1. PICK i \in DOMAIN overrides : overrides' = Keys!RemoveAt(overrides, i)
    BY <1>5 DEF Keys!DeleteOverride
  <2>2. SubSeq(overrides, 1, i - 1) \in Seq(OverridesTried) /\ SubSeq(overrides, i + 1, Len(overrides)) \in Seq(OverridesTried)
    <3>1. i \in 1 .. Len(overrides) /\ Len(overrides) \in Nat
      BY <1>0
    <3>2. \A k \in 1 .. Len(overrides) : overrides[k] \in OverridesTried
      BY <1>0
    <3> QED
      BY <1>0, <3>1, <3>2
  <2>3. overrides' \in Seq(OverridesTried)
    BY <2>1, <2>2 DEF Keys!RemoveAt
  <2> QED
    BY <1>1, <1>2, <1>3, <1>5, <2>3 DEF Keys!DeleteOverride
<1>6. CASE Keys!Store
  <2>1. KeysLawful(stored)'
    BY <1>0, <1>6, DeviceLawful, MappedLawful DEF Keys!Store, Keys!MapModelToDTO
  <2>2. keyRequest' = keyRequest /\ keyRequest.at = "idle" /\ UNCHANGED <<overrides, read, warned>>
    BY <1>6 DEF Keys!Store
  <2>3. RequestKept' /\ Keys!SentAsSpecified'
    BY <1>0, <2>2 DEF RequestKept, Keys!SentAsSpecified
  <2> QED
    BY <1>0, <1>2, <1>3, <2>1, <2>2, <2>3
<1>7. CASE Keys!Begin
  <2>1. keyRequest' = [at |-> "overrides", seen |-> overrides, entry |-> {}] /\ UNCHANGED <<stored, overrides, read, warned>>
    BY <1>7 DEF Keys!Begin, Keys!NoRequest
  <2>2. RequestKept' /\ Keys!SentAsSpecified'
    BY <2>1 DEF RequestKept, Keys!SentAsSpecified
  <2> QED
    BY <1>0, <1>2, <1>3, <2>1, <2>2
<1>8. CASE Keys!Command
  <2>1. UNCHANGED <<stored, overrides, read, warned>>
    BY <1>8 DEF Keys!Command
  <2>2. RequestKept'
    <3>1. PICK a, e : keyRequest' = [keyRequest EXCEPT !.at = a, !.entry = e]
      BY <1>8 DEF Keys!Command
    <3> QED
      BY <1>0, <3>1 DEF RequestKept
  <2> QED
    BY <1>0, <1>2, <1>3, <1>8, <2>1, <2>2, CommandKeeps
<1>9. CASE Keys!CommandEnds
  <2>1. keyRequest' = [at |-> "idle", seen |-> <<>>, entry |-> {}] /\ UNCHANGED <<stored, overrides, read, warned>>
    BY <1>9 DEF Keys!CommandEnds, Keys!NoRequest
  <2>2. RequestKept' /\ Keys!SentAsSpecified'
    BY <2>1 DEF RequestKept, Keys!SentAsSpecified
  <2> QED
    BY <1>0, <1>2, <1>3, <2>1, <2>2
<1>10. CASE Keys!ReadBegin
  <2>1. PICK k \in DOMAIN Keys!Show : read' = [at |-> "overrides", keys |-> {k}]
    BY <1>10 DEF Keys!ReadBegin
  <2>2. IsFiniteSet(read'.keys)
    BY <2>1, FS_Singleton
  <2> QED
    BY <1>0, <1>1, <1>2, <1>10, <2>2 DEF Keys!ReadBegin
<1>11. CASE Keys!ReadMap
  <2> DEFINE unresolved == read.keys \ DOMAIN Keys!Simplified(Keys!Device, overrides)
             fresh == {k \in unresolved : \A i \in DOMAIN warned : warned[i] # k}
  <2>1. /\ warned' = warned \o Keys!SetToSeq(fresh)
        /\ read' = IF read.keys \subseteq unresolved THEN Keys!NoRead ELSE [at |-> "asked", keys |-> read.keys \ unresolved]
        /\ UNCHANGED <<stored, overrides, keyRequest>>
    BY <1>11 DEF Keys!ReadMap, Keys!Unreported
  <2>2. unresolved \in SUBSET read.keys /\ fresh \in SUBSET read.keys
    OBVIOUS
  <2>3. IsFiniteSet(fresh) /\ \A i \in DOMAIN warned : warned[i] \notin fresh
    BY <1>0, <2>2, FS_Subset
  <2> HIDE DEF unresolved, fresh
  <2>4. IsFiniteSet(read'.keys)
    <3>1. IsFiniteSet(read.keys \ unresolved)
      BY <1>0, FS_Difference
    <3>2. IsFiniteSet({})
      BY FS_EmptySet
    <3> QED
      BY <2>1, <3>1, <3>2 DEF Keys!NoRead
  <2>5. warned' \in Seq(Keys!ToSet(warned')) /\ Keys!WarnedOnce'
    BY <1>0, <2>1, <2>3, WarnedAppend DEF Keys!WarnedOnce
  <2> QED
    BY <1>0, <1>1, <2>1, <2>4, <2>5
<1>12. CASE Keys!ReadEnds
  <2>1. IsFiniteSet(read'.keys)
    BY <1>12, FS_EmptySet DEF Keys!ReadEnds, Keys!NoRead
  <2> QED
    BY <1>0, <1>1, <1>2, <1>12, <2>1 DEF Keys!ReadEnds
<1>13. CASE UNCHANGED Keys!vars
  BY <1>0, <1>1, <1>2, <1>3, <1>13 DEF Keys!vars
<1> QED
  BY <1>4, <1>5, <1>6, <1>7, <1>8, <1>9, <1>10, <1>11, <1>12, <1>13 DEF Keys!Next

LEMMA KeysHold == KeysInv => Keys!CommandMeansProperty
  BY AddressableHolds, NewestRulesHolds DEF KeysInv, Keys!CommandMeansProperty

-----------------------------------------------------------------------------
(***************************************************************************)
(* The composition: what a step of the host is to the part it is a step of.*)
(***************************************************************************)

\* A behaviour is one of the part it starts with.
LEMMA HostSteps ==
  ASSUME [HostNext]_hostVars
  PROVE  /\ part' = part
         /\ part = "DeviceClock" => [Next]_vars
         /\ part = "DeviceRegistry" => [Registry!Next]_Registry!vars
         /\ part = "MiotExchange" => [Datagram!Next]_Datagram!vars
         /\ part = "MqttCommands" => [Mqtt!Next]_Mqtt!vars
         /\ part = "PollSignals" => [Signals!Next]_Signals!vars
         /\ part = "MiotSpec" => [Keys!Next]_Keys!vars
<1>1. CASE UNCHANGED hostVars
  BY <1>1 DEF hostVars, vars, regVars, Registry!vars, exVars, Datagram!vars, mqttVars, Mqtt!vars, sigVars, Signals!vars,
              keyVars, Keys!vars,
              Signals!poll, Signals!dispatch, Signals!inbound
<1>2. CASE HostNext
  <2>1. part' = part
    BY <1>2 DEF HostNext, ClockOnly, DatagramOnly, RegistryOnly, MqttOnly, KeysOnly, SignalsOnly
  <2>2. ASSUME part = "DeviceClock" PROVE Next
    BY <1>2, <2>2 DEF HostNext, Next, ClockOnly, DatagramOnly, RegistryOnly, MqttOnly, KeysOnly, SignalsOnly
  <2>3. ASSUME part = "DeviceRegistry" PROVE Registry!Next
    BY <1>2, <2>3 DEF HostNext, Registry!Next, ClockOnly, DatagramOnly, RegistryOnly, MqttOnly, KeysOnly, SignalsOnly
  <2>4. ASSUME part = "MiotExchange" PROVE Datagram!Next
    BY <1>2, <2>4 DEF HostNext, Datagram!Next, ClockOnly, DatagramOnly, RegistryOnly, MqttOnly, KeysOnly, SignalsOnly
  <2>5. ASSUME part = "MqttCommands" PROVE Mqtt!Next
    BY <1>2, <2>5 DEF HostNext, Mqtt!Next, ClockOnly, DatagramOnly, RegistryOnly, MqttOnly, KeysOnly, SignalsOnly
  <2>6. ASSUME part = "PollSignals" PROVE Signals!Next
    BY <1>2, <2>6 DEF HostNext, Signals!Next, ClockOnly, DatagramOnly, RegistryOnly, MqttOnly, KeysOnly, SignalsOnly
  <2>7. ASSUME part = "MiotSpec" PROVE Keys!Next
    BY <1>2, <2>7 DEF HostNext, Keys!Next, ClockOnly, DatagramOnly, RegistryOnly, MqttOnly, KeysOnly, SignalsOnly
  <2> QED
    BY <2>1, <2>2, <2>3, <2>4, <2>5, <2>6, <2>7
<1> QED
  BY <1>1, <1>2

\* MiotDeviceRegistry and DevicePostHandler in the composition: whatever requests interleave, the pool's
\* client is of a stored device, about to go, or was read for before the deletion.
THEOREM HostRegistryAgrees == HostSpec => []RegistryAgrees
<1> DEFINE Inv == part = "DeviceRegistry" => RegistryInv
<1>1. HostInit => Inv
  <2> SUFFICES ASSUME HostInit, part = "DeviceRegistry" PROVE RegistryInv
    OBVIOUS
  <2>1. Registry!Init
    BY DEF HostInit
  <2> QED
    BY <2>1, RegistryInitInv
<1>2. Inv /\ [HostNext]_hostVars => Inv'
  BY HostSteps, RegistryStepInv
<1>3. Inv => RegistryAgrees
  BY RegistryOneDocumentHolds DEF RegistryInv, RegistryAgrees, Registry!RegistryAgrees
<1> HIDE DEF Inv
<1> QED
  BY <1>1, <1>2, <1>3, PTL DEF HostSpec

\* MiotClient and MiotDevice in the composition: a settled call blames the device if and only if the device's
\* own answer, the last of the call, refused it, with that answer's code, and says if it was sent twice.
THEOREM HostFailureSaysWhy == HostSpec => []FailureSaysWhy
<1> DEFINE Inv == part = "MiotExchange" => ExchangeInv
<1>1. HostInit => Inv
  <2> SUFFICES ASSUME HostInit, part = "MiotExchange" PROVE ExchangeInv
    OBVIOUS
  <2>1. Datagram!Init
    BY DEF HostInit
  <2> QED
    BY <2>1, ExchangeInit
<1>2. Inv /\ [HostNext]_hostVars => Inv'
  BY HostSteps, ExchangeStep
<1>3. Inv => FailureSaysWhy
  BY DEF ExchangeInv, FailureSaysWhy
<1> HIDE DEF Inv
<1> QED
  BY <1>1, <1>2, <1>3, PTL DEF HostSpec

\* MqttListenerService in the composition: however often the connection drops, whatever the broker
\* replays and however many copies of a message it delivers, each copy is one command, called and recorded
\* once unless the storage fails under it, and a connected bridge listens or was refused.
THEOREM HostCommandsOnce == HostSpec => []CommandsOnce
<1> DEFINE Inv == part = "MqttCommands" => MqttInv
<1>1. HostInit => Inv
  <2> SUFFICES ASSUME HostInit, part = "MqttCommands" PROVE MqttInv
    OBVIOUS
  <2>1. Mqtt!Init
    BY DEF HostInit
  <2> QED
    BY <2>1, MqttInit
<1>2. Inv /\ [HostNext]_hostVars => Inv'
  BY HostSteps, MqttStep
<1>3. Inv => CommandsOnce
  BY MqttHolds DEF CommandsOnce
<1> HIDE DEF Inv
<1> QED
  BY <1>1, <1>2, <1>3, PTL DEF HostSpec

\* spanTracing, runJob and NotificationDispatchService in the composition: whatever tick's timer sends it, a
\* publish is in the trace of the read that saw its value; and what is over is counted once, sampled or not.
THEOREM HostSignalsSound == HostSpec => []SignalsSound
<1> DEFINE Inv == part = "PollSignals" => SignalsInv
<1>1. HostInit => Inv
  <2> SUFFICES ASSUME HostInit, part = "PollSignals" PROVE SignalsInv
    OBVIOUS
  <2>1. Signals!Init
    BY DEF HostInit
  <2> QED
    BY <2>1, SignalsInit
<1>2. Inv /\ [HostNext]_hostVars => Inv'
  BY HostSteps, SignalsStep
<1>3. Inv => SignalsSound
  BY SignalsHold DEF SignalsSound
<1> HIDE DEF Inv
<1> QED
  BY <1>1, <1>2, <1>3, PTL DEF HostSpec

\* SimplifiedMiotSpecV2Mapper and DeviceCommandService in the composition: whatever overrides come and go, a
\* published property keeps a key of its own, what is sent is what its key meant, and a lost key is reported once.
THEOREM HostCommandMeansProperty == HostSpec => []CommandMeansProperty
<1> DEFINE Inv == part = "MiotSpec" => KeysInv
<1>1. HostInit => Inv
  <2> SUFFICES ASSUME HostInit, part = "MiotSpec" PROVE KeysInv
    OBVIOUS
  <2>1. Keys!Init
    BY DEF HostInit
  <2> QED
    BY <2>1, KeysInit
<1>2. Inv /\ [HostNext]_hostVars => Inv'
  BY HostSteps, KeysStep
<1>3. Inv => CommandMeansProperty
  BY KeysHold DEF CommandMeansProperty
<1> HIDE DEF Inv
<1> QED
  BY <1>1, <1>2, <1>3, PTL DEF HostSpec
=============================================================================
