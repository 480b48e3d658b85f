------------------------------ MODULE UpstreamCall ------------------------------
(***************************************************************************)
(* Calls of one upstream that share a circuit breaker: ResiliencePolicy's  *)
(* execute and its filter, cockatiel's breaker as the policy uses it, the   *)
(* replay of a refused request and the translation of what is left.        *)
(*                                                                         *)
(* A call behind a half-open breaker is held until the trial has ended;    *)
(* its caller may leave before that.  Credentials are OutboundRequest's.   *)
(***************************************************************************)
EXTENDS Naturals, FiniteSets

CONSTANTS Calls,
          Retried,      \* calls whose method (or own option) allows a replay by the policy
          Retries,      \* resilience.retry.count
          MinCalls,     \* minimumThroughput over the sampling window
          MaxPasses     \* bound: sampling windows that pass

VARIABLES breaker,  \* the shared breaker: its state, the window's counts, halfOpenAfter elapsed
          call,     \* call -> where its current attempt is
          passes

vars == <<breaker, call, passes>>

Outcomes == {"ok", "5xx", "network", "4xx", "401", "timeout"}

NoCall == [at |-> "idle", start |-> "none", attempt |-> 0, replayed |-> FALSE, last |-> "none", answer |-> "none"]

\* HttpProviderService.get builds the client, and with it the breaker, once.
Init ==
  /\ breaker = [state |-> "closed", ok |-> 0, failed |-> 0, cooled |-> FALSE]
  /\ call = [c \in Calls |-> NoCall]
  /\ passes = 0

TypeOK ==
  /\ breaker \in [state : {"closed", "open", "halfopen"}, ok : Nat, failed : Nat, cooled : BOOLEAN]
  /\ call \in [Calls -> [at : {"idle", "running", "held", "left", "backoff", "done"},
                         start : {"none", "closed", "halfopen"}, attempt : 0 .. Retries, replayed : BOOLEAN,
                         last : Outcomes \cup {"none", "broken", "cancelled"},
                         answer : {"none", "data", "502", "503", "504"}]]
  /\ passes \in 0 .. MaxPasses

----------------------------------------------------------------------------
(* The breaker *)

\* isRetriableHttpError: a configured status or no response; cancellations are excluded.
Handled(o) == o \in {"5xx", "network"}

\* MUTANT: the filter without the half-open rules.
CountsHandled(start, o) == Handled(o)

\* The filter: the half-open rules apply to the trial only, told by the state its attempt started in.
Counts(start, o) == IF o \in {"cancelled", "timeout"} THEN start = "halfopen" ELSE Handled(o)

\* SamplingBreaker: half the calls failed, of at least MinCalls.
Tripped(b) == b.ok + b.failed >= MinCalls /\ 2 * b.failed > b.ok + b.failed

Opened(b) == IF b.state = "open" THEN b ELSE [b EXCEPT !.state = "open", !.cooled = FALSE]

Closed(b) == IF b.state = "halfopen" THEN [b EXCEPT !.state = "closed"] ELSE b

\* cockatiel routes a result by the state the attempt started in; an error that does not count is
\* thrown past the breaker, which for a trial is a success.
Account(start, o) ==
  LET worse == [breaker EXCEPT !.failed = @ + 1]
  IN  IF start = "closed"
        THEN IF o = "ok" THEN [breaker EXCEPT !.ok = @ + 1]
             ELSE IF ~Counts(start, o) THEN breaker
             ELSE IF Tripped(worse) THEN Opened(worse) ELSE worse
        ELSE IF o = "ok" THEN Closed([breaker EXCEPT !.ok = 1, !.failed = 0])
             ELSE IF Counts(start, o) THEN Opened(worse) ELSE Closed(breaker)

\* halfOpenAfter has elapsed.
Cool ==
  /\ breaker.state = "open" /\ ~breaker.cooled
  /\ breaker' = [breaker EXCEPT !.cooled = TRUE]
  /\ UNCHANGED <<call, passes>>

\* The sampling window moves past what it counted.
WindowPasses ==
  /\ passes < MaxPasses /\ breaker.ok + breaker.failed > 0
  /\ passes' = passes + 1
  /\ breaker' = [breaker EXCEPT !.ok = 0, !.failed = 0]
  /\ UNCHANGED call

----------------------------------------------------------------------------
(* A call *)

\* toHttpException: what the caller of this service is told.
Translate(o) ==
  CASE o = "ok" -> "data" [] o = "broken" -> "503" [] o \in {"timeout", "cancelled"} -> "504" [] OTHER -> "502"

\* The loop of execute, then the response interceptor: a handled error is tried again, a first 401
\* replayed from the start, anything else told to the caller.
AfterAttempt(c, o) ==
  LET k == [call[c] EXCEPT !.last = o]
  IN  CASE Handled(o) /\ c \in Retried /\ k.attempt < Retries -> [k EXCEPT !.at = "backoff", !.attempt = @ + 1]
        [] o = "401" /\ ~k.replayed -> [k EXCEPT !.at = "idle", !.attempt = 0, !.replayed = TRUE]
        [] OTHER -> [k EXCEPT !.at = "done", !.answer = Translate(o)]

\* One attempt enters the breaker: runs, is held behind the trial, is the trial, or is turned away.
Attempt(c) ==
  /\ \/ call[c].at \in {"idle", "backoff"}
     \/ call[c].at = "held" /\ breaker.state # "halfopen"
  /\ CASE breaker.state = "closed" ->
            /\ call' = [call EXCEPT ![c].at = "running", ![c].start = "closed"]
            /\ UNCHANGED breaker
       [] breaker.state = "halfopen" ->
            /\ call' = [call EXCEPT ![c].at = "held"]
            /\ UNCHANGED breaker
       [] breaker.state = "open" /\ breaker.cooled ->
            /\ call' = [call EXCEPT ![c].at = "running", ![c].start = "halfopen"]
            /\ breaker' = [breaker EXCEPT !.state = "halfopen"]
       [] OTHER ->
            /\ call' = [call EXCEPT ![c] = AfterAttempt(c, "broken")]
            /\ UNCHANGED breaker
  /\ UNCHANGED passes

\* The upstream answers, or the policy's timeout ends the attempt.
Settle(c) ==
  /\ call[c].at = "running"
  /\ \E o \in Outcomes :
       /\ breaker' = Account(call[c].start, o)
       /\ call' = [call EXCEPT ![c] = AfterAttempt(c, o)]
  /\ UNCHANGED passes

\* The client of this service disconnects: a running attempt ends at once and is accounted for.
CancelRunning(c) ==
  /\ call[c].at = "running"
  /\ breaker' = Account(call[c].start, "cancelled")
  /\ call' = [call EXCEPT ![c].at = "done", ![c].last = "cancelled", ![c].answer = Translate("cancelled")]
  /\ UNCHANGED passes

\* Not begun, or between two attempts: nothing to account for.
CancelWaiting(c) ==
  /\ call[c].at \in {"idle", "backoff"}
  /\ call' = [call EXCEPT ![c].at = "done", ![c].last = "cancelled", ![c].answer = Translate("cancelled")]
  /\ UNCHANGED <<breaker, passes>>

\* rejectOnParentAbort: the caller of a held call is answered, the attempt stays parked.
Leave(c) ==
  /\ call[c].at = "held"
  /\ call' = [call EXCEPT ![c].at = "left", ![c].last = "cancelled", ![c].answer = Translate("cancelled")]
  /\ UNCHANGED <<breaker, passes>>

\* The parked attempt goes on with no caller: it is cancelled in whatever role it gets, and as a trial
\* that opens the breaker anew.
Unpark(c) ==
  /\ call[c].at = "left" /\ breaker.state # "halfopen"
  /\ call' = [call EXCEPT ![c].at = "done"]
  /\ breaker' = IF breaker.state = "open" /\ breaker.cooled
                  THEN IF Counts("halfopen", "cancelled") THEN [breaker EXCEPT !.cooled = FALSE, !.failed = @ + 1]
                       ELSE [breaker EXCEPT !.state = "closed"]
                  ELSE breaker
  /\ UNCHANGED passes

Next ==
  \/ Cool \/ WindowPasses
  \/ \E c \in Calls : Attempt(c)
  \/ \E c \in Calls : Settle(c)
  \/ \E c \in Calls : CancelRunning(c)
  \/ \E c \in Calls : CancelWaiting(c)
  \/ \E c \in Calls : Leave(c)
  \/ \E c \in Calls : Unpark(c)

Spec == Init /\ [][Next]_vars

----------------------------------------------------------------------------
(* Properties *)

\* ResiliencePolicy: "cancellation cannot prove recovery": the breaker closes again only when a trial's
\* own work was answered, whatever its callers do and whichever stale calls end meanwhile.
ClosedByAnswer ==
  breaker.state # "closed" /\ breaker'.state = "closed" =>
    \E c \in Calls : /\ call[c].at = "running" /\ call[c].start = "halfopen"
                     /\ call'[c].at # "running" /\ call'[c].last \in {"ok", "4xx", "401"}

\* A caller that leaves, or a timeout the policy does not handle, opens no breaker: only a failure of the
\* upstream does, or a trial without an answer.
OpenedByFailure ==
  breaker.state # "open" /\ breaker'.state = "open" =>
    \E c \in Calls : /\ call[c].at = "running" /\ call'[c].at # "running"
                     /\ \/ call'[c].last \in {"5xx", "network"}
                        \/ call[c].start = "halfopen" /\ call'[c].last \in {"timeout", "cancelled"}

\* Calls share the breaker, each judged by the state its own attempt started in.
BreakerHonest == [][ClosedByAnswer /\ OpenedByFailure]_vars
=============================================================================
