---------------------------- MODULE OutboundRequest ----------------------------
(***************************************************************************)
(* A provider of the http-provider package: requests that share one cached *)
(* credential, its single-flight fetch, the one replay behind a 401, and   *)
(* the resilience policy's retry around each pass.                         *)
(*                                                                         *)
(* The interceptors of HttpProviderFactory are followed microtask by       *)
(* microtask, since requests, refusals and fetches interleave there.  A    *)
(* credential is known by what the upstream makes of it; the token         *)
(* endpoint, the upstream and cockatiel's circuit breaker are external.    *)
(***************************************************************************)
EXTENDS Naturals, FiniteSets

CONSTANTS Requests,      \* calls of the client, each made once
          Repeatable,    \* those that mayRetry allows to be sent again
          Cancellable,   \* those made with a signal
          Fetches,       \* bound: token requests at a time
          None,          \* undefined
          RetryCount     \* resilience.retry.count

ASSUME OutboundAssumption ==
  /\ Repeatable \subseteq Requests /\ Cancellable \subseteq Requests
  /\ None \notin Fetches /\ None \notin {"valid", "revoked", "blank"}
  /\ RetryCount \in Nat

VARIABLES generation,    \* attachAuthInterceptor's generation
          epoch,         \* cacheEpoch
          cached,        \* cachedCredentials
          expired,       \* Date.now() has reached expiresAt
          inFlight,      \* the fetch of inFlightCredentials, or None
          fetches,       \* the token requests under way
          requests,      \* the client's calls
          lapsed         \* history variable: a cached credential ran out or was blank

strategyVars == <<epoch, cached, expired, inFlight>>
vars == <<generation, strategyVars, fetches, requests, lapsed>>

Credentials == {"valid", "revoked", "blank"}

FetchStates == [at : {"idle", "asked", "minted", "settled"},
                epoch : Nat,                         \* requestEpoch
                token : Credentials \cup {None}]     \* None once it has failed

NoFetch == [at |-> "idle", epoch |-> 0, token |-> None]

Ends == {"none", "ok", "refused", "error"}   \* an error other than the 401

RequestStates == [at : {"idle", "waiting", "holding", "sent", "backoff", "answered", "replaying", "over"},
                  tag : Nat,                          \* _authGeneration
                  fetch : Fetches \cup {None},        \* the one it awaits
                  token : Credentials \cup {None},    \* what getCredentials returned
                  retried : BOOLEAN,                  \* _retried
                  tries : Nat \ {0},                  \* attempts its adapter makes
                  left : Nat,                         \* attempts left in this pass
                  aborted : BOOLEAN,                  \* the caller's signal
                  end : Ends,
                  sends : Nat,                        \* history: times it was put on the wire
                  effects : Nat,                      \* history: times it took effect upstream
                  revocation : BOOLEAN]               \* history: under way at a revocation

NotMade == [at |-> "idle", tag |-> 0, fetch |-> None, token |-> None, retried |-> FALSE,
            tries |-> 1, left |-> 0, aborted |-> FALSE, end |-> "none",
            sends |-> 0, effects |-> 0, revocation |-> FALSE]

Init ==
  /\ generation = 0
  /\ epoch = 0 /\ cached = None /\ expired = FALSE /\ inFlight = None
  /\ fetches = [f \in Fetches |-> NoFetch]
  /\ requests = [r \in Requests |-> NotMade]
  /\ lapsed = FALSE

UnderWay(r) == requests[r].at \notin {"idle", "over"}

\* What is left of a call once its promise has settled, having taken effect that often.
Ended(r, end, effects) ==
  [NotMade EXCEPT !.at = "over", !.end = end, !.effects = effects,
                  !.sends = requests[r].sends, !.revocation = requests[r].revocation]

\* The call r goes on as `state`.
Becomes(r, state) == requests' = [requests EXCEPT ![r] = state]

Over(r, end) == Becomes(r, Ended(r, end, requests[r].effects))

----------------------------------------------------------------------------
(* The credential: TokenExchangeStrategy *)

\* MUTANT: the cached credentials are left.
InvalidateEpochOnly ==
  /\ epoch' = epoch + 1
  /\ UNCHANGED <<cached, expired>>

\* invalidate
Invalidate ==
  /\ epoch' = epoch + 1
  /\ cached' = None /\ expired' = FALSE

Usable == cached # None /\ ~expired
Joinable == inFlight # None /\ fetches[inFlight].epoch = epoch

\* Date.now() reaches expiresAt.
Expire ==
  /\ Usable
  /\ expired' = TRUE
  /\ lapsed' = TRUE
  /\ UNCHANGED <<generation, epoch, cached, inFlight, fetches, requests>>

\* External: the token endpoint mints a credential, or answers with a blank one.
Mint(f) ==
  /\ fetches[f].at = "asked"
  /\ \E token \in {"valid", "blank"} :
       fetches' = [fetches EXCEPT ![f].at = "minted", ![f].token = token]
  /\ UNCHANGED <<generation, strategyVars, requests, lapsed>>

\* The token response arrives: getCredentials' then.
Answered(f) ==
  /\ fetches[f].at = "minted"
  /\ fetches' = [fetches EXCEPT ![f].at = "settled"]
  /\ IF fetches[f].epoch = epoch THEN cached' = fetches[f].token /\ expired' = FALSE
                                 ELSE UNCHANGED <<cached, expired>>
  /\ lapsed' = (lapsed \/ fetches[f].token = "blank")
  /\ UNCHANGED <<generation, epoch, inFlight, requests>>

\* The token request fails, its answer is lost or lacks a field: then is passed over.
Unanswered(f) ==
  /\ fetches[f].at \in {"asked", "minted"}
  /\ fetches' = [fetches EXCEPT ![f].at = "settled", ![f].token = None]
  /\ UNCHANGED <<generation, strategyVars, requests, lapsed>>

\* A fetch settles for those that await it.
Settled(f, r) ==
  IF requests[r].fetch # f THEN requests[r]
  ELSE IF fetches[f].token = None THEN Ended(r, "error", requests[r].effects)
  ELSE [requests[r] EXCEPT !.at = "holding", !.fetch = None, !.token = fetches[f].token]

\* MUTANT: finally clears whatever is in flight.
ForgetAny(f) ==
  /\ fetches[f].at = "settled"
  /\ inFlight' = None
  /\ fetches' = [fetches EXCEPT ![f] = NoFetch]
  /\ requests' = [r \in Requests |-> Settled(f, r)]
  /\ UNCHANGED <<generation, epoch, cached, expired, lapsed>>

\* getCredentials' finally, and the callers that were waiting.
Forget(f) ==
  /\ fetches[f].at = "settled"
  /\ inFlight' = IF inFlight # None /\ fetches[inFlight].epoch = fetches[f].epoch THEN None ELSE inFlight
  /\ fetches' = [fetches EXCEPT ![f] = NoFetch]
  /\ requests' = [r \in Requests |-> Settled(f, r)]
  /\ UNCHANGED <<generation, epoch, cached, expired, lapsed>>

----------------------------------------------------------------------------
(* The request interceptors *)

\* MUTANT: the method is not looked at.
AttemptsOfAny(r) == 1 + RetryCount

\* mayRetry and execute's maxRetries: the attempts of one policy.
Attempts(r) == IF r \in Repeatable THEN 1 + RetryCount ELSE 1

\* wrapAdapterWithPolicy: one policy around the unwrapped adapter.
Wrap(r) == Attempts(r)

\* A fetch is only a name, so any one that is free will do.
Free == CHOOSE f \in Fetches : fetches[f].at = "idle"

\* getCredentials answers from the cache,
UseCached(r) ==
  /\ Usable
  /\ Becomes(r, [requests[r] EXCEPT !.at = "holding", !.tag = generation, !.tries = Wrap(r), !.token = cached])
  /\ UNCHANGED <<inFlight, fetches>>

Await(r, f) ==
  Becomes(r, [requests[r] EXCEPT !.at = "waiting", !.tag = generation, !.tries = Wrap(r), !.fetch = f])

\* or from the fetch in flight,
Join(r) ==
  /\ ~Usable /\ Joinable
  /\ Await(r, inFlight)
  /\ UNCHANGED <<inFlight, fetches>>

\* or from a fetch of its own.
Fetch(r) ==
  /\ ~Usable /\ ~Joinable
  /\ \E f \in Fetches : fetches[f].at = "idle"
  /\ fetches' = [fetches EXCEPT ![Free].at = "asked", ![Free].epoch = epoch]
  /\ inFlight' = Free
  /\ Await(r, Free)

\* The interceptors of a call or of its replay, up to getCredentials' first await: the
\* policy's wrapper, the tag, the credential.
Tag(r) ==
  /\ requests[r].at \in {"idle", "replaying"}
  /\ UseCached(r) \/ Join(r) \/ Fetch(r)
  /\ UNCHANGED <<generation, epoch, cached, expired, lapsed>>

\* applyTransport throws on a blank credential.
Reject(r) ==
  /\ requests[r].at = "holding"
  /\ requests[r].token = "blank"
  /\ Invalidate
  /\ Over(r, "error")
  /\ UNCHANGED <<generation, inFlight, fetches, lapsed>>

----------------------------------------------------------------------------
(* One attempt *)

\* The base adapter is called with `left` attempts still to come, or, external, the
\* circuit is open.
Attempt(r, left) ==
  \/ Becomes(r, [requests[r] EXCEPT !.at = "sent", !.left = left, !.sends = @ + 1])
  \/ Over(r, "error")

\* The policy's first attempt, unless the caller has given up.
Dispatch(r) ==
  /\ requests[r].at = "holding"
  /\ requests[r].token # "blank"
  /\ \/ requests[r].aborted /\ Over(r, "error")
     \/ ~requests[r].aborted /\ Attempt(r, requests[r].tries - 1)
  /\ UNCHANGED <<generation, strategyVars, fetches, lapsed>>

\* External: the upstream takes a request whose credential it accepts.
Effect(r) == IF requests[r].token = "valid" THEN {requests[r].effects, requests[r].effects + 1}
             ELSE {requests[r].effects}

\* A success answer reaches the client.
Succeed(r) ==
  /\ requests[r].at = "sent"
  /\ requests[r].token = "valid"
  /\ Becomes(r, Ended(r, "ok", requests[r].effects + 1))
  /\ UNCHANGED <<generation, strategyVars, fetches, lapsed>>

\* External: a revoked credential is refused before anything is written.
Refuse(r) ==
  /\ requests[r].at = "sent"
  /\ requests[r].token = "revoked"
  /\ Becomes(r, [requests[r] EXCEPT !.at = "answered", !.token = None, !.left = 0])
  /\ UNCHANGED <<generation, strategyVars, fetches, lapsed>>

\* execute's test for another attempt.
GoesOn(r) == requests[r].left > 0

\* A 5xx answer, or none at all, whether the request took effect or not: execute waits
\* for its next attempt, or throws when none is left or the status is not retriable.
Fail(r) ==
  /\ requests[r].at = "sent"
  /\ \E effects \in Effect(r) :
       \/ GoesOn(r) /\ Becomes(r, [requests[r] EXCEPT !.at = "backoff", !.effects = effects])
       \/ Becomes(r, Ended(r, "error", effects))
  /\ UNCHANGED <<generation, strategyVars, fetches, lapsed>>

\* The policy's timeout: isRetriableHttpError does not know it.
TimeOut(r) ==
  /\ requests[r].at = "sent"
  /\ \E effects \in Effect(r) :
       Becomes(r, Ended(r, "error", effects))
  /\ UNCHANGED <<generation, strategyVars, fetches, lapsed>>

\* The next attempt, with the same config.
Retry(r) ==
  /\ requests[r].at = "backoff"
  /\ Attempt(r, requests[r].left - 1)
  /\ UNCHANGED <<generation, strategyVars, fetches, lapsed>>

----------------------------------------------------------------------------
(* The response interceptor *)

\* MUTANT: every refusal invalidates.
RefreshAlways(r) ==
  /\ generation' = generation + 1
  /\ Invalidate

\* A request refused under the current generation invalidates; a stale one joins
\* the refresh a sibling has started.
Refresh(r) ==
  IF requests[r].tag = generation
    THEN generation' = generation + 1 /\ Invalidate
    ELSE UNCHANGED <<generation, epoch, cached, expired>>

\* A 401 is replayed once.
Replay(r) ==
  /\ requests[r].at = "answered"
  /\ ~requests[r].retried
  /\ Refresh(r)
  /\ Becomes(r, [requests[r] EXCEPT !.at = "replaying", !.retried = TRUE])
  /\ UNCHANGED <<inFlight, fetches, lapsed>>

PassOn(r) ==
  /\ requests[r].at = "answered"
  /\ requests[r].retried
  /\ Over(r, "refused")
  /\ UNCHANGED <<generation, strategyVars, fetches, lapsed>>

----------------------------------------------------------------------------
(* The caller, and the world *)

\* The caller's signal aborts: the policy rejects at once, the interceptors go on.
Cancel(r) ==
  /\ r \in Cancellable /\ UnderWay(r) /\ ~requests[r].aborted
  /\ \/ /\ requests[r].at \in {"waiting", "holding", "answered", "replaying"}
        /\ Becomes(r, [requests[r] EXCEPT !.aborted = TRUE])
     \/ /\ requests[r].at = "backoff"
        /\ Over(r, "error")
     \/ /\ requests[r].at = "sent"
        /\ \E effects \in Effect(r) :
             Becomes(r, Ended(r, "error", effects))
  /\ UNCHANGED <<generation, strategyVars, fetches, lapsed>>

Revoked(token) == IF token = "valid" THEN "revoked" ELSE token

\* External: the upstream stops accepting what has been minted so far.
Revoke ==
  /\ \/ cached = "valid"
     \/ \E f \in Fetches : fetches[f].token = "valid"
     \/ \E r \in Requests : requests[r].token = "valid"
  /\ cached' = Revoked(cached)
  /\ fetches' = [f \in Fetches |-> [fetches[f] EXCEPT !.token = Revoked(fetches[f].token)]]
  /\ requests' = [r \in Requests |->
                    IF UnderWay(r) THEN [requests[r] EXCEPT !.token = Revoked(requests[r].token), !.revocation = TRUE]
                    ELSE requests[r]]
  /\ UNCHANGED <<generation, epoch, expired, inFlight, lapsed>>

Next ==
  \/ Expire \/ Revoke
  \/ \E f \in Fetches : Mint(f) \/ Answered(f) \/ Unanswered(f) \/ Forget(f)
  \/ \E r \in Requests :
       \/ Tag(r) \/ Reject(r) \/ Dispatch(r) \/ Retry(r)
       \/ Succeed(r) \/ Refuse(r) \/ Fail(r) \/ TimeOut(r)
       \/ Replay(r) \/ PassOn(r) \/ Cancel(r)

Spec == Init /\ [][Next]_vars

----------------------------------------------------------------------------
(* Properties *)

\* The values the strategy's fields, the interceptors' locals and the requests' configs take.
TypeOK ==
  /\ generation \in Nat /\ epoch \in Nat
  /\ cached \in Credentials \cup {None}
  /\ expired \in BOOLEAN
  /\ inFlight \in Fetches \cup {None}
  /\ fetches \in [Fetches -> FetchStates]
  /\ requests \in [Requests -> RequestStates]
  /\ lapsed \in BOOLEAN

\* README of http-provider: "when credentials are missing or expired, concurrent calls share one in-flight
\* refresh": no two fetches of one cache epoch are ever under way.
SingleFlight ==
  \A f, g \in Fetches :
    f # g /\ fetches[f].at # "idle" /\ fetches[g].at # "idle" => fetches[f].epoch # fetches[g].epoch

\* "a 401 ... credentials are invalidated and one retry is attempted": it is enough.  A request that is
\* refused in spite of its replay saw a revocation of its own, whoever else was refused, refreshed
\* or still held an older credential.
RefusedMeansRevoked ==
  \A r \in Requests : requests[r].end = "refused" => requests[r].revocation

\* HttpProviderFactory: "a stale one joins the refresh a sibling already started": a refusal throws no
\* good credential away, unless the credential was replaced without a refusal.
GoodCredentialKept ==
  [][\A r \in Requests : Replay(r) /\ ~lapsed /\ cached = "valid" => cached' = "valid"]_vars

\* mayRetry: "sending it again would be a second write": a request that may not be repeated takes effect
\* once at most, through retries, replays, timeouts and cancellations.
NoSecondWrite == \A r \in Requests \ Repeatable : requests[r].effects <= 1

\* README of http-provider: "The two compose without multiplying": a pass before the refusal and one behind it.
WireBudget ==
  \A r \in Requests : requests[r].sends <= IF r \in Repeatable THEN 2 * (1 + RetryCount) ELSE 2
=============================================================================
