----------------------------- MODULE MiotDevice -----------------------------
(***************************************************************************)
(* MiotDevice and MiotTransport of packages/miot-device: the calls of one  *)
(* client instance, serialised by a chain of promises, each of which sends *)
(* its packets with stamps from the shared DeviceClock and, when that      *)
(* fails, re-handshakes and sends once more.  Of the clock only this is    *)
(* kept: whether there is a reading, and whether the device has rebooted   *)
(* since (DeviceClock has the rest).  UDP: anything sent may be lost, and  *)
(* every exchange has a socket of its own, so a late answer is not seen.   *)
(***************************************************************************)
EXTENDS Naturals, Sequences

CONSTANTS Calls,      \* getProperty, setProperty, callAction and getProperties made
          Bulk,       \* those that are getProperties
          BulkSize,   \* its packets
          HasStore,   \* options.stampStore is given
          MaxFaults   \* bound: reboots, failing store calls and seeds

DeviceAssumption ==
  /\ Bulk \subseteq Calls
  /\ BulkSize \in Nat \ {0}
  /\ HasStore \in BOOLEAN
  /\ MaxFaults \in Nat

VARIABLES line,       \* the calls in the order they were made: the promise chain
          call,       \* per call: where it is and what it has done
          clock,      \* the reading: none, of this boot of the device, or of an earlier one
          store,      \* the reading in the stamp store
          known,      \* _deviceId is set
          discovery,  \* discover(), which does not queue
          executed,   \* how often the device executed a packet of the call
          faults      \* bound on faults

vars == <<line, call, clock, store, known, discovery, executed, faults>>

Clocks == {"none", "right", "wrong"}
Stages == {"idle", "queued", "load", "hello", "send", "wait", "persist", "done", "failed"}
CallStates ==
  [at : Stages, retry : BOOLEAN, fresh : BOOLEAN, left : Nat, attempts : 0..2,
   wire : {"none", "out", "ok", "refused"}, oks : Nat, stampRefreshed : BOOLEAN]

NoCall == [at |-> "idle", retry |-> FALSE, fresh |-> FALSE, left |-> 0, attempts |-> 0,
           wire |-> "none", oks |-> 0, stampRefreshed |-> FALSE]

Packets(c) == IF c \in Bulk THEN BulkSize ELSE 1

Init ==
  /\ line = <<>>
  /\ call = [c \in Calls |-> NoCall]
  /\ clock = "none"
  /\ store \in IF HasStore THEN {"none", "right", "wrong"} ELSE {"none"}
  /\ known \in BOOLEAN
  /\ discovery = "idle"
  /\ executed = [c \in Calls |-> 0]
  /\ faults = 0

At(c, stage) == call[c].at = stage
Settled(c) == call[c].at \in {"done", "failed"}
Goes(c, stage) == call' = [call EXCEPT ![c].at = stage]
Fault == faults < MaxFaults /\ faults' = faults + 1

\* MUTANT: the chain goes on only after a success.
SucceededBefore(c) == \A i, j \in DOMAIN line : line[j] = c /\ i < j => At(line[i], "done")

\* The chain: a call runs when the ones made before it have settled, whichever way.
ReachedBy(c) == \A i, j \in DOMAIN line : line[j] = c /\ i < j => Settled(line[i])

----------------------------------------------------------------------------
(* A call *)

Make(c) ==
  /\ At(c, "idle")
  /\ line' = Append(line, c)
  /\ Goes(c, "queued")
  /\ UNCHANGED <<clock, store, known, discovery, executed, faults>>

\* Sends with the reading there is, or handshakes first.
Begin(c, reading) ==
  call' = [call EXCEPT ![c] =
             IF reading = "none"
             THEN [call[c] EXCEPT !.at = "hello", !.fresh = TRUE]
             ELSE [call[c] EXCEPT !.at = "send", !.left = Packets(c), !.attempts = @ + 1]]

\* MUTANT: a call does not wait for the others.
StartAtOnce(c) ==
  /\ At(c, "queued")
  /\ IF ~known THEN Goes(c, "failed")
     ELSE IF HasStore /\ clock = "none" THEN Goes(c, "load")
     ELSE Begin(c, clock)
  /\ UNCHANGED <<line, clock, store, known, discovery, executed, faults>>

\* runWithStampExclusive up to its first await.
Start(c) ==
  /\ At(c, "queued") /\ ReachedBy(c)
  /\ IF ~known THEN Goes(c, "failed")
     ELSE IF HasStore /\ clock = "none" THEN Goes(c, "load")
     ELSE Begin(c, clock)
  /\ UNCHANGED <<line, clock, store, known, discovery, executed, faults>>

\* What the store holds is restored; if it fails so does the call.
Load(c) ==
  /\ At(c, "load")
  /\ \/ LET reading == IF store = "none" THEN clock ELSE store
        IN  /\ clock' = reading
            /\ Begin(c, reading)
            /\ UNCHANGED faults
     \/ Fault /\ Goes(c, "failed") /\ UNCHANGED clock
  /\ UNCHANGED <<line, store, known, discovery, executed>>

HelloAnswered(c) ==
  /\ At(c, "hello")
  /\ clock' = "right"
  /\ call' = [call EXCEPT ![c] = [call[c] EXCEPT !.at = "send", !.left = Packets(c), !.attempts = @ + 1]]
  /\ UNCHANGED <<line, store, known, discovery, executed, faults>>

\* MUTANT: the failure is said to have come after the retry.
HelloTimesOutFlagged(c) ==
  /\ At(c, "hello")
  /\ call' = [call EXCEPT ![c] = [call[c] EXCEPT !.at = "failed", !.stampRefreshed = call[c].retry]]
  /\ UNCHANGED <<line, clock, store, known, discovery, executed, faults>>

\* The handshake's error is thrown as it is.
HelloTimesOut(c) ==
  /\ At(c, "hello")
  /\ Goes(c, "failed")
  /\ UNCHANGED <<line, clock, store, known, discovery, executed, faults>>

\* clock.next() and the packet: without a reading it throws.
Send(c) ==
  /\ At(c, "send")
  /\ clock # "none"
  /\ call' = [call EXCEPT ![c] = [call[c] EXCEPT !.at = "wait", !.wire = "out"]]
  /\ UNCHANGED <<line, clock, store, known, discovery, executed, faults>>

\* MUTANT: every failure is retried.
FailRetrying(c) ==
  /\ clock' = "none"
  /\ call' = [call EXCEPT ![c] = [call[c] EXCEPT !.at = "hello", !.wire = "none", !.fresh = TRUE, !.retry = TRUE]]

\* The attempt is over: with a cached reading it is dropped and the call tried again behind a
\* handshake; after a handshake the call fails.
Fail(c) ==
  IF call[c].fresh
  THEN /\ call' = [call EXCEPT ![c] = [call[c] EXCEPT !.at = "failed", !.wire = "none",
                                                      !.stampRefreshed = call[c].retry]]
       /\ UNCHANGED clock
  ELSE /\ clock' = "none"
       /\ call' = [call EXCEPT ![c] = [call[c] EXCEPT !.at = "hello", !.wire = "none",
                                                      !.fresh = TRUE, !.retry = TRUE]]

\* No answer in MIOT_TIMEOUT_MS, an answer that does not parse, or a socket error.
TimesOut(c) ==
  /\ At(c, "wait")
  /\ Fail(c)
  /\ UNCHANGED <<line, store, known, discovery, executed, faults>>

Refused(c) ==
  /\ At(c, "wait") /\ call[c].wire = "refused"
  /\ Fail(c)
  /\ UNCHANGED <<line, store, known, discovery, executed, faults>>

Answered(c) ==
  /\ At(c, "wait") /\ call[c].wire = "ok"
  /\ call' = [call EXCEPT ![c] = [call[c] EXCEPT !.wire = "none", !.left = @ - 1,
                                                 !.oks = IF c \in Bulk THEN @ ELSE @ + 1,
                                                 !.at = IF call[c].left > 1 THEN "send" ELSE "persist"]]
  /\ UNCHANGED <<line, clock, store, known, discovery, executed, faults>>

\* MUTANT: a store that fails is a failure of the call.
PersistUnsafely(c) ==
  /\ At(c, "persist")
  /\ \/ Goes(c, "done") /\ store' = (IF HasStore /\ clock # "none" THEN clock ELSE store) /\ UNCHANGED <<clock, faults>>
     \/ HasStore /\ Fault /\ Fail(c) /\ UNCHANGED store
  /\ UNCHANGED <<line, known, discovery, executed>>

\* persistStampSafely: whether the store took it or not, the call has succeeded.
Persist(c) ==
  /\ At(c, "persist")
  /\ Goes(c, "done")
  /\ \/ store' = (IF HasStore /\ clock # "none" THEN clock ELSE store) /\ UNCHANGED faults
     \/ HasStore /\ Fault /\ UNCHANGED store
  /\ UNCHANGED <<line, clock, known, discovery, executed>>

----------------------------------------------------------------------------
(* The device *)

\* It executes a packet stamped with its clock, and drops one of an earlier boot.
Execute(c) ==
  /\ call[c].wire = "out" /\ clock # "wrong"
  /\ executed' = [executed EXCEPT ![c] = @ + 1]
  /\ call' = [call EXCEPT ![c].wire = "ok"]
  /\ UNCHANGED <<line, clock, store, known, discovery, faults>>

Refuse(c) ==
  /\ call[c].wire = "out" /\ clock # "wrong"
  /\ call' = [call EXCEPT ![c].wire = "refused"]
  /\ UNCHANGED <<line, clock, store, known, discovery, executed, faults>>

Outdated(reading) == IF reading = "right" THEN "wrong" ELSE reading

Reboot ==
  /\ Fault
  /\ clock' = Outdated(clock)
  /\ store' = Outdated(store)
  /\ UNCHANGED <<line, call, known, discovery, executed>>

----------------------------------------------------------------------------
(* discover(), connect() and setStampState() *)

Discover ==
  /\ discovery = "idle"
  /\ discovery' = "hello"
  /\ UNCHANGED <<line, call, clock, store, known, executed, faults>>

Discovered ==
  /\ discovery = "hello"
  /\ known' = TRUE
  /\ clock' = "right"
  /\ discovery' = "persist"
  /\ UNCHANGED <<line, call, store, executed, faults>>

\* It ends: the store took the reading or failed, or the handshake went unanswered.
DiscoverEnds ==
  /\ discovery # "idle"
  /\ discovery' = "idle"
  /\ \/ /\ discovery = "persist"
        /\ store' = IF HasStore /\ clock # "none" THEN clock ELSE store
     \/ UNCHANGED store
  /\ UNCHANGED <<line, call, clock, known, executed, faults>>

Seed ==
  /\ Fault
  /\ clock' \in {"right", "wrong"}
  /\ UNCHANGED <<line, call, store, known, discovery, executed>>

Step(c) ==
  \/ Start(c) \/ Load(c)
  \/ HelloAnswered(c) \/ HelloTimesOut(c)
  \/ Send(c) \/ TimesOut(c) \/ Refused(c) \/ Answered(c)
  \/ Persist(c)

Next ==
  \/ \E c \in Calls : Make(c) \/ Step(c) \/ Execute(c) \/ Refuse(c)
  \/ Reboot \/ Seed
  \/ Discover \/ Discovered \/ DiscoverEnds

Spec == Init /\ [][Next]_vars

\* What has been begun goes on: every exchange has its timer, every store call ends.
FairSpec == Spec /\ \A c \in Calls : WF_vars(Step(c))

----------------------------------------------------------------------------
(* Properties *)

\* Every variable holds what the code can put in it; no call makes a third attempt.
TypeOK ==
  /\ line \in Seq(Calls)
  /\ call \in [Calls -> CallStates]
  /\ clock \in Clocks /\ store \in Clocks
  /\ known \in BOOLEAN
  /\ discovery \in {"idle", "hello", "persist"}
  /\ executed \in [Calls -> Nat]
  /\ faults \in 0..MaxFaults

\* runWithStamp serialises because "a failure resets the shared clock and re-handshakes, which
\* a concurrent call would see half-way through": no call finds the clock unread when it sends.
SendsInSync == \A c \in Calls : At(c, "send") => clock # "none"

\* A command the device has answered for is not sent again, even if the store then fails
\* (persistStampSafely: it "would re-send a non-idempotent command"); a lost answer costs one
\* more execution and never two.
AtMostTwice ==
  \A c \in Calls \ Bulk :
    /\ executed[c] <= 2
    /\ call[c].oks <= 1
    /\ call[c].oks = 1 => At(c, "persist") \/ At(c, "done")

\* MiotError.stampRefreshed is set exactly when the call had been sent twice.
RefreshedMeansRetried ==
  \A c \in Calls : At(c, "failed") => (call[c].stampRefreshed <=> call[c].attempts = 2)

\* Every call settles, whatever the device, the network and the calls before it do.
CallsSettle == \A c \in Calls : At(c, "queued") ~> Settled(c)
=============================================================================
