------------------------------ MODULE ServiceHealth ------------------------------
(***************************************************************************)
(* One process as its probes and its signals see it: HealthRegistry (single *)
(* flight, a deadline for each check, results reused for a while),          *)
(* HealthController, and the handler that shuts the platform down.          *)
(*                                                                         *)
(* Time is counted in ticks.  A timer fires no later than the tick it is    *)
(* due at.                                                                  *)
(***************************************************************************)
EXTENDS Naturals, FiniteSets

CONSTANTS Services,     \* the services looked at: domain of Registered
          Probes,
          CheckTimeout, CacheTtl,
          DrainDelay,
          HardDeadline, \* 0: off
          MaxTime, MaxFaults   \* bounds: ticks; dependencies that change, hang or crash the process

VARIABLES service,     \* which one the process is
          now,
          dependency,  \* check -> its dependency: "up", "absent" (not configured, not called yet), "between"
                       \* (connecting, breaker half open), "down", "stuck"
          flight,      \* the evaluation in flight
          cached,      \* the last one
          probe,       \* probe -> what it asked and was told
          shutdown,    \* createShutdownHandler's run
          crashed,     \* an error reached the process's last handlers
          teardowns,   \* history: calls of platform.stop
          faults

vars == <<service, now, dependency, flight, cached, probe, shutdown, crashed, teardowns, faults>>

\* The checks each service registers.
Registered == [knowledge_base_api |-> {"postgres", "upstream"}, knowledge_base_mcp |-> {"upstream"},
               interactive_map_feeder_api |-> {"upstream"}, miot_bridge_api |-> {"mongodb", "mqtt"},
               qr_manager_api |-> {"mongodb"}]

Checks == Registered[service]

\* critical: a database or the broker; never a third party's API.
Critical == Checks \ {"upstream"}

NoFlight == [on |-> FALSE, at |-> 0, result |-> [c \in Checks |-> "none"], read |-> [c \in Checks |-> 0]]
NoCache == [has |-> FALSE, at |-> 0, result |-> [c \in Checks |-> "none"], read |-> [c \in Checks |-> 0]]
NoProbe == [at |-> "none", kind |-> "none", since |-> 0, code |-> 0, fresh |-> TRUE]

Init ==
  /\ service \in Services
  /\ now = 0
  /\ dependency = [c \in Checks |-> IF c = "upstream" THEN "absent" ELSE "up"]
  /\ flight = NoFlight /\ cached = NoCache
  /\ probe = [p \in Probes |-> NoProbe]
  /\ shutdown = [at |-> "up", since |-> 0]
  /\ crashed = FALSE /\ teardowns = 0 /\ faults = 0

----------------------------------------------------------------------------
(* Checks *)

\* A round trip to the database.
PostgresCheck(state) == IF state = "up" THEN "pass" ELSE "fail"

\* The connection's state, read; never configured is no failure.
MongoCheck(state) == IF state \in {"up", "absent"} THEN "pass" ELSE "fail"

\* The client's connected, read; disabled is no failure.
MqttCheck(state) == IF state \in {"up", "absent"} THEN "pass" ELSE "fail"

\* Half open is a warning, open a failure.
BreakerCheck(state) == CASE state = "up" -> "pass" [] state = "between" -> "warn" [] OTHER -> "fail"

\* Any breaker that is not closed is a warning, never a failure; no breaker yet is no evidence.
UpstreamCheck(state) == IF state = "absent" \/ BreakerCheck(state) = "pass" THEN "pass" ELSE "warn"

Result(c) == CASE c = "postgres" -> PostgresCheck(dependency[c]) [] c = "mongodb" -> MongoCheck(dependency[c])
               [] c = "mqtt" -> MqttCheck(dependency[c]) [] OTHER -> UpstreamCheck(dependency[c])

\* isReady, rollUp
IsReady(result) == \A c \in Critical : result[c] # "fail"

RollUp(result) ==
  IF ~IsReady(result) THEN "fail" ELSE IF \A c \in Checks : result[c] = "pass" THEN "pass" ELSE "warn"

\* HealthController: 503 for what is not ready, or a report that fails.
Code(kind, result) == IF kind = "ready" THEN (IF IsReady(result) THEN 200 ELSE 503)
                      ELSE IF RollUp(result) = "fail" THEN 503 ELSE 200

\* fresh is history: what is told was seen at most a flight and a window before it was asked for.
Told(asked, from) ==
  [NoProbe EXCEPT !.at = "told", !.code = Code(asked.kind, from.result),
                  !.fresh = \A c \in Checks : from.read[c] + CheckTimeout + CacheTtl >= asked.since]

----------------------------------------------------------------------------
(* HealthRegistry *)

\* MUTANT: a result is reused however old it is.
ReusableForEver == cached.has

\* Younger than the window.
Reusable == cached.has /\ now - cached.at < CacheTtl

\* A probe: liveness consults nothing; a draining process is not ready and evaluates nothing; else the
\* result is reused, the evaluation in flight joined, or one started.
Probe(p) ==
  /\ probe[p].at # "asking" /\ shutdown.at \in {"up", "draining"} /\ ~crashed
  /\ \E kind \in {"live", "ready", "detail"} :
       LET asked == [NoProbe EXCEPT !.kind = kind, !.since = now]
       IN  CASE kind = "live" ->
                  /\ probe' = [probe EXCEPT ![p] = [NoProbe EXCEPT !.at = "told", !.code = 200]]
                  /\ UNCHANGED flight
             [] kind # "live" /\ shutdown.at = "draining" ->
                  /\ probe' = [probe EXCEPT ![p] = [NoProbe EXCEPT !.at = "told", !.code = 503]]
                  /\ UNCHANGED flight
             [] kind # "live" /\ shutdown.at # "draining" /\ Reusable ->
                  /\ probe' = [probe EXCEPT ![p] = Told(asked, cached)]
                  /\ UNCHANGED flight
             [] OTHER ->
                  /\ probe' = [probe EXCEPT ![p] = [asked EXCEPT !.at = "asking"]]
                  /\ flight' = IF flight.on THEN flight ELSE [NoFlight EXCEPT !.on = TRUE, !.at = now]
  /\ UNCHANGED <<service, crashed, now, dependency, cached, shutdown, teardowns, faults>>

\* One check settles; the checks run concurrently.
CheckSettles(c) ==
  /\ flight.on /\ flight.result[c] = "none" /\ dependency[c] # "stuck"
  /\ flight' = [flight EXCEPT !.result[c] = Result(c), !.read[c] = now]
  /\ UNCHANGED <<service, crashed, now, dependency, cached, probe, shutdown, teardowns, faults>>

\* All have: the result is kept from now on, and told to everyone who waits for it.
FlightEnds ==
  /\ flight.on /\ \A c \in Checks : flight.result[c] # "none"
  /\ cached' = [has |-> TRUE, at |-> now, result |-> flight.result, read |-> flight.read]
  /\ probe' = [p \in Probes |-> IF probe[p].at = "asking" THEN Told(probe[p], flight) ELSE probe[p]]
  /\ flight' = NoFlight
  /\ UNCHANGED <<service, crashed, now, dependency, shutdown, teardowns, faults>>

\* MUTANT: a check has no deadline.
NeverExpired(f, t) == f

\* runOne: what has not settled by its deadline fails.
Expired(f, t) ==
  IF f.on /\ t - f.at >= CheckTimeout
    THEN [f EXCEPT !.result = [c \in Checks |-> IF f.result[c] = "none" THEN "fail" ELSE f.result[c]],
                   !.read = [c \in Checks |-> IF f.result[c] = "none" THEN t ELSE f.read[c]]]
    ELSE f

----------------------------------------------------------------------------
(* Shutdown *)

\* MUTANT: every signal starts a shutdown.
NotExited == shutdown.at # "exited"

\* The re-entry guard.
NotBegun == shutdown.at = "up"

\* SIGTERM and its like: readiness fails from here on.
Signal ==
  /\ NotBegun
  /\ shutdown' = [at |-> "draining", since |-> now]
  /\ UNCHANGED <<service, crashed, now, dependency, flight, cached, probe, teardowns, faults>>

\* platform.stop: the injector is destroyed, the listeners close; who still waits is cut off.
Teardown ==
  /\ probe' = [p \in Probes |-> IF probe[p].at = "asking" THEN [NoProbe EXCEPT !.at = "cut"] ELSE probe[p]]
  /\ flight' = NoFlight
  /\ teardowns' = teardowns + 1

\* The drain is over.
Stop ==
  /\ shutdown.at = "draining" /\ now - shutdown.since >= DrainDelay
  /\ shutdown' = [shutdown EXCEPT !.at = "stopping"]
  /\ Teardown
  /\ UNCHANGED <<service, crashed, now, dependency, cached, faults>>

\* Stopped: telemetry is flushed, the deadline is cleared.  A stuck dependency holds stop() up.
Stopped ==
  /\ shutdown.at = "stopping" /\ \A c \in Checks : dependency[c] # "stuck"
  /\ shutdown' = [shutdown EXCEPT !.at = "stopped"]
  /\ UNCHANGED <<service, crashed, now, dependency, flight, cached, probe, teardowns, faults>>

\* An error nobody caught, a rejected shutdown among them (it clears its deadline): index.ts tears down
\* at once, whatever else is under way.
Crash ==
  /\ faults < MaxFaults /\ shutdown.at # "exited"
  /\ faults' = faults + 1
  /\ crashed' = TRUE
  /\ shutdown' \in {shutdown} \cup {s \in {[shutdown EXCEPT !.at = "failed"]} : shutdown.at = "stopping"}
  /\ Teardown
  /\ UNCHANGED <<service, now, dependency, cached>>

\* The hard deadline ends the process.
DeadlinePassed(s, t) ==
  IF HardDeadline > 0 /\ s.at \in {"draining", "stopping"} /\ t - s.since >= HardDeadline
    THEN [s EXCEPT !.at = "exited"] ELSE s

----------------------------------------------------------------------------

\* Time passes, at most to what is due.
Tick ==
  /\ now < MaxTime
  /\ ~(flight.on /\ \A c \in Checks : flight.result[c] # "none")
  /\ ~(shutdown.at = "draining" /\ now - shutdown.since >= DrainDelay)
  /\ now' = now + 1
  /\ flight' = Expired(flight, now + 1)
  /\ shutdown' = DeadlinePassed(shutdown, now + 1)
  /\ UNCHANGED <<service, crashed, dependency, cached, probe, teardowns, faults>>

DependencyChanges(c) ==
  /\ faults < MaxFaults
  /\ faults' = faults + 1
  \* Only a round trip hangs, only an upstream is built late, a pool has no state between up and down.
  /\ \E s \in {"up", "between", "down", "stuck"} \ {dependency[c]} :
       /\ s = "stuck" => c = "postgres"
       /\ s = "between" => c # "postgres"
       /\ dependency' = [dependency EXCEPT ![c] = s]
  /\ UNCHANGED <<service, crashed, now, flight, cached, probe, shutdown, teardowns>>

Next ==
  \/ Tick
  \/ \E p \in Probes : Probe(p)
  \/ \E c \in Checks : CheckSettles(c)
  \/ \E c \in Checks : DependencyChanges(c)
  \/ FlightEnds \/ Signal \/ Stop \/ Stopped \/ Crash

Spec == Init /\ [][Next]_vars

----------------------------------------------------------------------------
(* Properties *)

\* "evaluate() never rejects", nor hangs: no probe waits longer than one flight, whatever a check does.
AnsweredInTime == \A p \in Probes : probe[p].at = "asking" => now - probe[p].since <= CheckTimeout

\* What a probe is told was seen at most a flight and a window before it asked: neither a joined flight nor
\* a reused result pins anything older.
NothingStale == \A p \in Probes : probe[p].fresh

\* A process that is told to stop by any number of signals is torn down once, and not before it has been
\* unready for the drain; only the handlers of a crash tear down besides.
OneTeardown ==
  /\ teardowns > 1 => crashed
  /\ shutdown.at \in {"stopping", "stopped"} => now - shutdown.since >= DrainDelay

ProbesHonest == AnsweredInTime /\ NothingStale
=============================================================================
