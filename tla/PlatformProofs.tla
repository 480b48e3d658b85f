--------------------------- MODULE PlatformProofs ---------------------------
(***************************************************************************)
(* The promises of the packages every service is built from and of the QR  *)
(* manager, for every value of their constants, first of each part by      *)
(* itself and then of the composition MCPlatform.                          *)
(*                                                                         *)
(* OutboundRequest: fetches and calls count up to what the epochs and the  *)
(* policy allow. UpstreamCall: an attempt that runs was let in by the      *)
(* breaker, and each step judges the breaker by the attempt it ends.       *)
(* ServiceHealth: a probe that waits began with the flight it waits for or *)
(* after it, and the stages of a shutdown come once each, in their order.  *)
(* QrCodes: slugs are unique in the collection, an id is never given out   *)
(* again, and what a scan could be told now it could be told since it      *)
(* arrived.                                                                *)
(* InboundAuth: a cached key set lacks no key that was published before it *)
(* was fetched, and every refusal remembered is one such a set allows.     *)
(* UiAuth: each redirect a tab makes by itself was paid for by a renewal   *)
(* that its storage counts or by the life of a token, and who left has     *)
(* nothing under way but a renewal that was pending.                       *)
(***************************************************************************)
EXTENDS MCPlatform, FiniteSetTheorems, SequenceTheorems, TLAPS

----------------------------------------------------------------------------
(* OutboundRequest: the inductive invariants *)

\* A fetch's epoch is no later than the cache's; the one of the current epoch is the
\* one in flight, and no two share an epoch; a free slot is blank.
FetchInv ==
  /\ \A f \in Fetches : fetches[f].at = "idle" => fetches[f] = NoFetch
  /\ \A f \in Fetches : fetches[f].at # "idle" => fetches[f].epoch <= epoch
  /\ \A f \in Fetches : fetches[f].at # "idle" /\ fetches[f].epoch = epoch => inFlight = f
  /\ inFlight # None => fetches[inFlight].at # "idle"
  /\ SingleFlight

\* Whoever waits does so for a fetch that is under way.
WaitInv ==
  \A r \in Requests :
    /\ requests[r].at = "waiting" <=> requests[r].fetch # None
    /\ requests[r].at = "waiting" => fetches[requests[r].fetch].at # "idle"

\* Attempts that a call may have used up before its present pass.
Spent(q, attempts) == IF q.retried THEN attempts ELSE 0

\* How often a call has been sent and has taken effect, by where it is, when one policy
\* makes so many attempts.
CallInv(q, attempts) ==
  /\ q.at = "idle" => q.sends = 0 /\ ~q.retried
  /\ q.at \in {"waiting", "holding"} => q.tries = attempts /\ q.sends <= Spent(q, attempts)
  /\ q.at \in {"sent", "backoff"} =>
       q.left < attempts /\ q.sends + q.left <= Spent(q, attempts) + attempts
  /\ q.at = "backoff" => q.left > 0
  /\ q.at = "answered" => q.sends <= Spent(q, attempts) + attempts
  /\ q.at = "replaying" => q.retried /\ q.sends <= attempts
  /\ q.sends <= 2 * attempts
  /\ attempts = 1 => q.effects <= IF q.at = "over" THEN 1 ELSE 0

CallsInv == \A r \in Requests : CallInv(requests[r], Attempts(r))

\* Nothing a request could be given now has been revoked.
CacheClean ==
  /\ cached # "revoked"
  /\ \A f \in Fetches : fetches[f].epoch = epoch => fetches[f].token # "revoked"

\* A call that has seen no revocation since it was made.
Undisturbed(q) == q.at \notin {"idle", "over"} /\ ~q.revocation

\* An undisturbed call that is being replayed, or whose refusal will find a sibling's
\* refresh, can only be given what has not been revoked.
RefusalOf(q) ==
  Undisturbed(q) =>
    /\ q.tag <= generation
    /\ q.tag # generation \/ q.at = "replaying" => CacheClean
    /\ q.retried =>
         /\ q.at # "answered"
         /\ q.at \in {"holding", "sent", "backoff"} => q.token # "revoked"
         /\ q.at = "waiting" => fetches[q.fetch].token # "revoked"

RefusalInv ==
  /\ \A r \in Requests : RefusalOf(requests[r])
  /\ RefusedMeansRevoked

\* The fetch of the current epoch has filled the cache once it has settled, and not before.
KeptFetch(f) ==
  /\ fetches[f].at \in {"asked", "minted"} /\ fetches[f].epoch = epoch => cached = None
  /\ fetches[f].at = "settled" => fetches[f].token # "blank"
  /\ fetches[f].at = "settled" /\ fetches[f].epoch = epoch => cached = fetches[f].token

\* A call of the current generation holds what the cache holds.
KeptCall(q) ==
  /\ q.token # "blank"
  /\ q.at \notin {"idle", "over"} => q.tag <= generation
  /\ q.at = "waiting" => fetches[q.fetch].epoch = q.tag
  /\ q.at \in {"holding", "sent", "backoff"} =>
       q.token # None /\ (q.tag = generation => q.token = cached)
  /\ q.at = "answered" /\ q.tag = generation => cached = "revoked"

\* Until a credential lapses, generations and cache epochs are the same.
KeptInv ==
  ~lapsed =>
    /\ epoch = generation
    /\ ~expired
    /\ cached # "blank"
    /\ \A f \in Fetches : KeptFetch(f)
    /\ \A r \in Requests : KeptCall(requests[r])

----------------------------------------------------------------------------
(* Types *)

\* What a call becomes once its promise has settled is a call.
LEMMA EndedType ==
  ASSUME TypeOK, NEW r \in Requests, NEW end \in Ends, NEW effects \in Nat
  PROVE  Ended(r, end, effects) \in RequestStates
<1>1. requests[r].sends \in Nat /\ requests[r].revocation \in BOOLEAN
  BY DEF TypeOK, RequestStates
<1>2. NotMade \in RequestStates
  BY DEF NotMade, RequestStates, Ends
<1> HIDE DEF NotMade
<1> QED BY <1>1, <1>2 DEF Ended, RequestStates

\* A counter goes on, the cache is emptied.
LEMMA InvalidateType ==
  ASSUME TypeOK, Invalidate
  PROVE  epoch' \in Nat /\ cached' \in Credentials \cup {None} /\ expired' \in BOOLEAN
<1>1. epoch' \in Nat
  BY DEF Invalidate, TypeOK
<1> QED BY <1>1 DEF Invalidate

\* Changing one call to a call keeps the calls' type.
LEMMA BecomesType ==
  ASSUME TypeOK, NEW r \in Requests, NEW state \in RequestStates, Becomes(r, state)
  PROVE  requests' \in [Requests -> RequestStates]
  BY DEF Becomes, TypeOK

\* A call ends with what it has done so far.
LEMMA OverType ==
  ASSUME TypeOK, NEW r \in Requests, NEW end \in Ends, Over(r, end)
  PROVE  requests' \in [Requests -> RequestStates]
<1>1. requests[r].effects \in Nat
  BY DEF TypeOK, RequestStates
<1> QED BY <1>1, EndedType, BecomesType DEF Over

\* An attempt sends the call or ends it.
LEMMA AttemptType ==
  ASSUME TypeOK, NEW r \in Requests, NEW rest \in Nat, Attempt(r, rest)
  PROVE  requests' \in [Requests -> RequestStates]
<1>1. [requests[r] EXCEPT !.at = "sent", !.left = rest, !.sends = @ + 1] \in RequestStates
  <2>1. requests[r] \in RequestStates
    BY DEF TypeOK
  <2>2. requests[r].sends + 1 \in Nat
    BY <2>1 DEF RequestStates
  <2> QED BY <2>1, <2>2 DEF RequestStates
<1>2. CASE Over(r, "error")
  BY <1>2, OverType DEF Ends
<1>3. CASE Becomes(r, [requests[r] EXCEPT !.at = "sent", !.left = rest, !.sends = @ + 1])
  BY <1>1, <1>3, BecomesType
<1> QED BY <1>2, <1>3 DEF Attempt

\* What the upstream may have made of a call.
LEMMA EffectType ==
  ASSUME TypeOK, NEW r \in Requests
  PROVE  Effect(r) \subseteq Nat
  BY DEF Effect, TypeOK, RequestStates

\* A policy makes one attempt at least.
LEMMA AttemptsType ==
  ASSUME NEW r \in Requests
  PROVE  Attempts(r) \in Nat \ {0}
  BY OutboundAssumption DEF Attempts

\* Every step keeps the types.
LEMMA TypeStep == TypeOK /\ CallsInv /\ [Next]_vars => TypeOK'
<1> SUFFICES ASSUME TypeOK, CallsInv, [Next]_vars PROVE TypeOK'
  OBVIOUS
<1> USE OutboundAssumption
<1>1. CASE Expire
  BY <1>1 DEF TypeOK, Expire
<1>2. CASE Revoke
  <2>1. \A token \in Credentials \cup {None} : Revoked(token) \in Credentials \cup {None}
    BY DEF Revoked, Credentials
  <2>2. fetches' \in [Fetches -> FetchStates]
    BY <1>2, <2>1 DEF Revoke, TypeOK, FetchStates
  <2>3. \A r \in Requests : requests'[r] \in RequestStates
    <3> SUFFICES ASSUME NEW r \in Requests PROVE requests'[r] \in RequestStates
      OBVIOUS
    <3>1. requests[r] \in RequestStates /\ Revoked(requests[r].token) \in Credentials \cup {None}
      BY <2>1 DEF TypeOK, RequestStates
    <3>2. [requests[r] EXCEPT !.token = Revoked(requests[r].token), !.revocation = TRUE] \in RequestStates
      BY <3>1 DEF RequestStates
    <3> QED BY <1>2, <3>1, <3>2 DEF Revoke
  <2>4. requests' \in [Requests -> RequestStates]
    BY <1>2, <2>3 DEF Revoke
  <2> QED BY <1>2, <2>1, <2>2, <2>4 DEF Revoke, TypeOK
<1>3. ASSUME NEW f \in Fetches, Mint(f) PROVE TypeOK'
  <2>1. \A token \in {"valid", "blank"} : [fetches[f] EXCEPT !.at = "minted", !.token = token] \in FetchStates
    BY DEF TypeOK, FetchStates, Credentials
  <2>2. fetches' \in [Fetches -> FetchStates]
    BY <1>3, <2>1 DEF TypeOK, Mint
  <2> QED BY <1>3, <2>2 DEF TypeOK, Mint, strategyVars
<1>4. ASSUME NEW f \in Fetches, Answered(f) PROVE TypeOK'
  BY <1>4 DEF TypeOK, Answered, FetchStates
<1>5. ASSUME NEW f \in Fetches, Unanswered(f) PROVE TypeOK'
  <2>1. [fetches[f] EXCEPT !.at = "settled", !.token = None] \in FetchStates
    BY DEF TypeOK, FetchStates
  <2>2. fetches' \in [Fetches -> FetchStates]
    BY <1>5, <2>1 DEF TypeOK, Unanswered
  <2> QED BY <1>5, <2>2 DEF TypeOK, Unanswered, strategyVars
<1>6. ASSUME NEW f \in Fetches, Forget(f) PROVE TypeOK'
  <2>1. \A r \in Requests : Settled(f, r) \in RequestStates
    <3> SUFFICES ASSUME NEW r \in Requests PROVE Settled(f, r) \in RequestStates
      OBVIOUS
    <3>1. requests[r] \in RequestStates /\ requests[r].effects \in Nat /\ fetches[f].token \in Credentials \cup {None}
      BY DEF TypeOK, RequestStates, FetchStates
    <3>2. Ended(r, "error", requests[r].effects) \in RequestStates
      BY <3>1, EndedType DEF Ends
    <3>3. [requests[r] EXCEPT !.at = "holding", !.fetch = None, !.token = fetches[f].token] \in RequestStates
      BY <3>1 DEF RequestStates
    <3> QED BY <3>1, <3>2, <3>3 DEF Settled
  <2>2. NoFetch \in FetchStates
    BY DEF NoFetch, FetchStates
  <2>3. fetches' \in [Fetches -> FetchStates]
    BY <1>6, <2>2 DEF Forget, TypeOK
  <2>4. requests' \in [Requests -> RequestStates]
    BY <1>6, <2>1 DEF Forget
  <2>5. inFlight' \in Fetches \cup {None}
    BY <1>6 DEF Forget, TypeOK
  <2> QED BY <1>6, <2>3, <2>4, <2>5 DEF Forget, TypeOK
<1>7. ASSUME NEW r \in Requests, Tag(r) PROVE TypeOK'
  <2>1. requests[r] \in RequestStates /\ Wrap(r) \in Nat \ {0}
    BY AttemptsType DEF TypeOK, Wrap
  <2>2. ASSUME NEW f \in Fetches, Await(r, f) PROVE requests' \in [Requests -> RequestStates]
    <3>1. [requests[r] EXCEPT !.at = "waiting", !.tag = generation, !.tries = Wrap(r), !.fetch = f] \in RequestStates
      BY <2>1 DEF RequestStates, TypeOK
    <3> QED BY <2>2, <3>1, BecomesType DEF Await
  <2>3. CASE UseCached(r)
    <3>1. [requests[r] EXCEPT !.at = "holding", !.tag = generation, !.tries = Wrap(r), !.token = cached] \in RequestStates
      BY <2>1 DEF RequestStates, TypeOK
    <3>2. requests' \in [Requests -> RequestStates]
      BY <2>3, <3>1, BecomesType DEF UseCached
    <3> QED BY <1>7, <2>3, <3>2 DEF Tag, UseCached, TypeOK
  <2>4. CASE Join(r)
    <3>1. requests' \in [Requests -> RequestStates]
      BY <2>2, <2>4 DEF Join, Joinable, TypeOK
    <3> QED BY <1>7, <2>4, <3>1 DEF Tag, Join, TypeOK
  <2>5. CASE Fetch(r)
    <3>1. Free \in Fetches
      BY <2>5 DEF Fetch, Free
    <3>2. requests' \in [Requests -> RequestStates]
      BY <2>2, <2>5, <3>1 DEF Fetch
    <3>3. fetches' \in [Fetches -> FetchStates]
      BY <2>5, <3>1 DEF Fetch, TypeOK, FetchStates
    <3> QED BY <1>7, <2>5, <3>1, <3>2, <3>3 DEF Tag, Fetch, TypeOK
  <2> QED BY <1>7, <2>3, <2>4, <2>5 DEF Tag
<1>8. ASSUME NEW r \in Requests, Reject(r) PROVE TypeOK'
  <2>1. requests' \in [Requests -> RequestStates]
    BY <1>8, OverType DEF Reject, Ends
  <2> QED BY <1>8, <2>1, InvalidateType DEF Reject, TypeOK
<1>9. ASSUME NEW r \in Requests, Dispatch(r) PROVE TypeOK'
  <2>1. requests[r].tries - 1 \in Nat
    BY DEF TypeOK, RequestStates
  <2>2. requests' \in [Requests -> RequestStates]
    BY <1>9, <2>1, OverType, AttemptType DEF Dispatch, Ends
  <2> QED BY <1>9, <2>2 DEF Dispatch, strategyVars, TypeOK
<1>10. ASSUME NEW r \in Requests, Retry(r) PROVE TypeOK'
  <2>1. requests[r].left - 1 \in Nat
    BY <1>10 DEF Retry, CallsInv, CallInv, TypeOK, RequestStates
  <2>2. requests' \in [Requests -> RequestStates]
    BY <1>10, <2>1, AttemptType DEF Retry
  <2> QED BY <1>10, <2>2 DEF Retry, strategyVars, TypeOK
<1>11. ASSUME NEW r \in Requests, Succeed(r) PROVE TypeOK'
  <2>1. requests[r].effects + 1 \in Nat
    BY DEF TypeOK, RequestStates
  <2>2. requests' \in [Requests -> RequestStates]
    BY <1>11, <2>1, EndedType, BecomesType DEF Succeed, Ends
  <2> QED BY <1>11, <2>2 DEF Succeed, strategyVars, TypeOK
<1>12. ASSUME NEW r \in Requests, Refuse(r) PROVE TypeOK'
  <2>1. requests[r] \in RequestStates
    BY DEF TypeOK
  <2>2. [requests[r] EXCEPT !.at = "answered", !.token = None, !.left = 0] \in RequestStates
    BY <2>1 DEF RequestStates
  <2>3. requests' \in [Requests -> RequestStates]
    BY <1>12, <2>2, BecomesType DEF Refuse
  <2> QED BY <1>12, <2>3 DEF Refuse, strategyVars, TypeOK
<1>13. ASSUME NEW r \in Requests, Fail(r) PROVE TypeOK'
  <2>1. PICK effects \in Effect(r) :
          \/ Becomes(r, [requests[r] EXCEPT !.at = "backoff", !.effects = effects])
          \/ Becomes(r, Ended(r, "error", effects))
    BY <1>13 DEF Fail
  <2>2. requests[r] \in RequestStates /\ effects \in Nat
    BY EffectType DEF TypeOK
  <2>3. [requests[r] EXCEPT !.at = "backoff", !.effects = effects] \in RequestStates
    BY <2>2 DEF RequestStates
  <2>4. Ended(r, "error", effects) \in RequestStates
    BY <2>2, EndedType DEF Ends
  <2>5. requests' \in [Requests -> RequestStates]
    BY <2>1, <2>3, <2>4, BecomesType
  <2> QED BY <1>13, <2>5 DEF Fail, strategyVars, TypeOK
<1>14. ASSUME NEW r \in Requests, TimeOut(r) PROVE TypeOK'
  <2>1. \A effects \in Effect(r) : Ended(r, "error", effects) \in RequestStates
    BY EffectType, EndedType DEF Ends
  <2>2. requests' \in [Requests -> RequestStates]
    BY <1>14, <2>1, BecomesType DEF TimeOut
  <2> QED BY <1>14, <2>2 DEF TimeOut, strategyVars, TypeOK
<1>15. ASSUME NEW r \in Requests, Replay(r) PROVE TypeOK'
  <2>1. requests[r] \in RequestStates
    BY DEF TypeOK
  <2>2. [requests[r] EXCEPT !.at = "replaying", !.retried = TRUE] \in RequestStates
    BY <2>1 DEF RequestStates
  <2>3. requests' \in [Requests -> RequestStates]
    BY <1>15, <2>2, BecomesType DEF Replay
  <2>4. generation' \in Nat /\ epoch' \in Nat /\ cached' \in Credentials \cup {None} /\ expired' \in BOOLEAN
    BY <1>15, InvalidateType DEF Replay, Refresh, TypeOK
  <2> QED BY <1>15, <2>3, <2>4 DEF Replay, TypeOK
<1>16. ASSUME NEW r \in Requests, PassOn(r) PROVE TypeOK'
  <2>1. requests' \in [Requests -> RequestStates]
    BY <1>16, OverType DEF PassOn, Ends
  <2> QED BY <1>16, <2>1 DEF PassOn, strategyVars, TypeOK
<1>17. ASSUME NEW r \in Requests, Cancel(r) PROVE TypeOK'
  <2>1. requests[r] \in RequestStates
    BY DEF TypeOK
  <2>2. [requests[r] EXCEPT !.aborted = TRUE] \in RequestStates
    BY <2>1 DEF RequestStates
  <2>3. \A effects \in Effect(r) : Ended(r, "error", effects) \in RequestStates
    BY EffectType, EndedType DEF Ends
  <2>4. CASE Over(r, "error")
    <3>1. requests' \in [Requests -> RequestStates]
      BY <2>4, OverType DEF Ends
    <3> QED BY <1>17, <3>1 DEF Cancel, strategyVars, TypeOK
  <2>5. CASE ~Over(r, "error")
    <3>1. requests' \in [Requests -> RequestStates]
      BY <1>17, <2>2, <2>3, <2>5, BecomesType DEF Cancel
    <3> QED BY <1>17, <3>1 DEF Cancel, strategyVars, TypeOK
  <2> QED BY <2>4, <2>5
<1>18. CASE UNCHANGED vars
  BY <1>18 DEF TypeOK, vars, strategyVars
<1> QED BY <1>1, <1>2, <1>3, <1>4, <1>5, <1>6, <1>7, <1>8, <1>9, <1>10, <1>11, <1>12, <1>13, <1>14, <1>15, <1>16, <1>17, <1>18 DEF Next

----------------------------------------------------------------------------
(* What a call has cost *)

\* Changing one call to one within its budget keeps all within theirs.
LEMMA CallsKept ==
  ASSUME TypeOK, CallsInv, NEW r \in Requests, NEW state, Becomes(r, state),
         CallInv(state, Attempts(r))
  PROVE  CallsInv'
<1> SUFFICES ASSUME NEW q \in Requests PROVE CallInv(requests'[q], Attempts(q))
  BY DEF CallsInv, Attempts
<1>1. requests'[q] = IF q = r THEN state ELSE requests[q]
  BY DEF Becomes, TypeOK
<1> QED BY <1>1 DEF CallsInv

\* A call may end wherever it is.
LEMMA EndedCall ==
  ASSUME TypeOK, CallsInv, NEW r \in Requests, NEW end, NEW effects \in Nat,
         Attempts(r) = 1 => effects <= 1
  PROVE  CallInv(Ended(r, end, effects), Attempts(r))
<1>1. requests[r].sends <= 2 * Attempts(r)
  BY DEF CallsInv, CallInv
<1>2. /\ Ended(r, end, effects).at = "over"
      /\ Ended(r, end, effects).sends = requests[r].sends
      /\ Ended(r, end, effects).effects = effects
  BY DEF Ended, NotMade
<1> QED BY <1>1, <1>2 DEF CallInv

\* A call that ends on its own has had no more effect than it is allowed.
LEMMA OverCall ==
  ASSUME TypeOK, CallsInv, NEW r \in Requests, NEW end, Over(r, end)
  PROVE  CallsInv'
<1>1. requests[r].effects \in Nat /\ (Attempts(r) = 1 => requests[r].effects <= 1)
  BY DEF TypeOK, RequestStates, CallsInv, CallInv
<1> QED BY <1>1, EndedCall, CallsKept DEF Over

\* What the upstream makes of a call that may not be repeated is its first effect.
LEMMA EffectBound ==
  ASSUME TypeOK, CallsInv, NEW r \in Requests, UnderWay(r), NEW effects \in Effect(r)
  PROVE  effects \in Nat /\ (Attempts(r) = 1 => effects <= 1)
<1>1. requests[r].effects \in Nat /\ (Attempts(r) = 1 => requests[r].effects <= 0)
  BY DEF TypeOK, RequestStates, CallsInv, CallInv, UnderWay
<1> QED BY <1>1 DEF Effect

\* An attempt is one of those that are left, or the call ends.
LEMMA AttemptCall ==
  ASSUME TypeOK, CallsInv, NEW r \in Requests, UnderWay(r), NEW rest \in Nat, Attempt(r, rest),
         rest < Attempts(r), requests[r].sends + 1 + rest <= Spent(requests[r], Attempts(r)) + Attempts(r)
  PROVE  CallsInv'
<1> DEFINE state == [requests[r] EXCEPT !.at = "sent", !.left = rest, !.sends = @ + 1]
<1>1. CASE Over(r, "error")
  BY <1>1, OverCall
<1>2. CASE Becomes(r, state)
  <2>1. requests[r] \in RequestStates /\ CallInv(requests[r], Attempts(r))
    BY DEF TypeOK, CallsInv
  <2>2. /\ state.at = "sent" /\ state.left = rest /\ state.sends = requests[r].sends + 1
        /\ state.retried = requests[r].retried /\ state.effects = requests[r].effects
    BY <2>1 DEF RequestStates
  <2>3. requests[r].sends \in Nat /\ Attempts(r) \in Nat \ {0} /\ requests[r].at # "over"
    BY <2>1, AttemptsType DEF RequestStates, UnderWay
  <2>4. CallInv(state, Attempts(r))
    <3> HIDE DEF state
    <3> QED BY <2>1, <2>2, <2>3 DEF CallInv, Spent
  <2> QED BY <1>2, <2>4, CallsKept
<1> QED BY <1>1, <1>2 DEF Attempt

\* A call stays within its budget.
LEMMA CallsStep == TypeOK /\ WaitInv /\ CallsInv /\ [Next]_vars => CallsInv'
<1> SUFFICES ASSUME TypeOK, WaitInv, CallsInv, [Next]_vars PROVE CallsInv'
  OBVIOUS
<1> USE OutboundAssumption
<1>1. ASSUME UNCHANGED requests PROVE CallsInv'
  BY <1>1 DEF CallsInv, Attempts
<1>2. CASE Revoke
  <2> SUFFICES ASSUME NEW r \in Requests PROVE CallInv(requests'[r], Attempts(r))
    BY DEF CallsInv, Attempts
  <2>1. CallInv(requests[r], Attempts(r)) /\ requests[r] \in RequestStates
    BY DEF CallsInv, TypeOK
  <2>2. requests'[r].at = requests[r].at /\ requests'[r].retried = requests[r].retried
        /\ requests'[r].tries = requests[r].tries /\ requests'[r].left = requests[r].left
        /\ requests'[r].sends = requests[r].sends /\ requests'[r].effects = requests[r].effects
    BY <1>2, <2>1 DEF Revoke, RequestStates
  <2> QED BY <2>1, <2>2 DEF CallInv, Spent
<1>3. ASSUME NEW f \in Fetches, Forget(f) PROVE CallsInv'
  <2> SUFFICES ASSUME NEW r \in Requests PROVE CallInv(requests'[r], Attempts(r))
    BY DEF CallsInv, Attempts
  <2>1. CallInv(requests[r], Attempts(r)) /\ requests[r] \in RequestStates
    BY DEF CallsInv, TypeOK
  <2>2. requests[r].effects \in Nat /\ (Attempts(r) = 1 => requests[r].effects <= 1)
    BY <2>1 DEF RequestStates, CallInv
  <2>3. CASE requests[r].fetch # f
    BY <1>3, <2>1, <2>3 DEF Forget, Settled
  <2>4. CASE requests[r].fetch = f /\ fetches[f].token = None
    BY <1>3, <2>2, <2>4, EndedCall DEF Forget, Settled
  <2>5. CASE requests[r].fetch = f /\ fetches[f].token # None
    <3>1. requests[r].at = "waiting"
      BY <2>5 DEF WaitInv
    <3>2. /\ requests'[r].at = "holding" /\ requests'[r].retried = requests[r].retried
          /\ requests'[r].tries = requests[r].tries
          /\ requests'[r].sends = requests[r].sends /\ requests'[r].effects = requests[r].effects
      BY <1>3, <2>1, <2>5 DEF Forget, Settled, RequestStates
    <3> QED BY <2>1, <3>1, <3>2 DEF CallInv, Spent
  <2> QED BY <2>3, <2>4, <2>5
<1> DEFINE Same(r, state) == state.sends = requests[r].sends /\ state.effects = requests[r].effects
<1>4. ASSUME NEW r \in Requests
      PROVE  /\ requests[r] \in RequestStates /\ CallInv(requests[r], Attempts(r))
             /\ requests[r].sends \in Nat /\ requests[r].left \in Nat /\ requests[r].tries \in Nat \ {0}
             /\ Attempts(r) \in Nat \ {0}
  BY AttemptsType DEF TypeOK, CallsInv, RequestStates
<1>5. ASSUME NEW r \in Requests, Tag(r) PROVE CallsInv'
  <2>1. ASSUME NEW at \in {"holding", "waiting"}, NEW state, Becomes(r, state), state.at = at, Same(r, state),
               state.tries = Attempts(r), state.retried = requests[r].retried
        PROVE  CallsInv'
    <3>1. CallInv(state, Attempts(r))
      BY <1>4, <1>5, <2>1 DEF CallInv, Spent, Tag
    <3> QED BY <2>1, <3>1, CallsKept
  <2>2. CASE UseCached(r)
    BY <1>4, <2>1, <2>2 DEF UseCached, Wrap, RequestStates
  <2>3. ASSUME NEW f, Await(r, f) PROVE CallsInv'
    BY <1>4, <2>1, <2>3 DEF Await, Wrap, RequestStates
  <2> QED BY <1>5, <2>2, <2>3 DEF Tag, Join, Fetch
<1>6. ASSUME NEW r \in Requests, Reject(r) \/ PassOn(r) PROVE CallsInv'
  BY <1>6, OverCall DEF Reject, PassOn
<1>7. ASSUME NEW r \in Requests, Dispatch(r) PROVE CallsInv'
  <2>1. CASE Over(r, "error")
    BY <2>1, OverCall
  <2>2. CASE Attempt(r, requests[r].tries - 1)
    <3>1. UnderWay(r) /\ requests[r].tries = Attempts(r) /\ requests[r].sends <= Spent(requests[r], Attempts(r))
      BY <1>4, <1>7 DEF Dispatch, UnderWay, CallInv
    <3>2. Spent(requests[r], Attempts(r)) \in Nat
      BY <1>4 DEF Spent
    <3>3. /\ requests[r].tries - 1 \in Nat /\ requests[r].tries - 1 < Attempts(r)
          /\ requests[r].sends + 1 + (requests[r].tries - 1) <= Spent(requests[r], Attempts(r)) + Attempts(r)
      BY <1>4, <3>1, <3>2
    <3> QED BY <2>2, <3>1, <3>3, AttemptCall
  <2> QED BY <1>7, <2>1, <2>2 DEF Dispatch
<1>8. ASSUME NEW r \in Requests, Retry(r) PROVE CallsInv'
  <2>1. /\ UnderWay(r) /\ requests[r].left > 0 /\ requests[r].left < Attempts(r)
        /\ requests[r].sends + requests[r].left <= Spent(requests[r], Attempts(r)) + Attempts(r)
    BY <1>4, <1>8 DEF Retry, UnderWay, CallInv
  <2>2. Spent(requests[r], Attempts(r)) \in Nat
    BY <1>4 DEF Spent
  <2>3. /\ requests[r].left - 1 \in Nat /\ requests[r].left - 1 < Attempts(r)
        /\ requests[r].sends + 1 + (requests[r].left - 1) <= Spent(requests[r], Attempts(r)) + Attempts(r)
    BY <1>4, <2>1, <2>2
  <2> QED BY <1>8, <2>1, <2>3, AttemptCall DEF Retry
<1>9. ASSUME NEW r \in Requests, Succeed(r) PROVE CallsInv'
  <2>1. requests[r].effects + 1 \in Nat /\ (Attempts(r) = 1 => requests[r].effects + 1 <= 1)
    BY <1>4, <1>9 DEF CallInv, Succeed, RequestStates
  <2> QED BY <1>9, <2>1, EndedCall, CallsKept DEF Succeed
<1>10. ASSUME NEW r \in Requests, Refuse(r) PROVE CallsInv'
  <2> DEFINE state == [requests[r] EXCEPT !.at = "answered", !.token = None, !.left = 0]
  <2>1. /\ state.at = "answered" /\ state.sends = requests[r].sends /\ state.effects = requests[r].effects
        /\ state.retried = requests[r].retried
    BY <1>4 DEF RequestStates
  <2>2. Becomes(r, state)
    BY <1>10 DEF Refuse
  <2> HIDE DEF state
  <2>3. CallInv(state, Attempts(r))
    BY <1>4, <1>10, <2>1 DEF CallInv, Refuse, Spent
  <2> QED BY <2>2, <2>3, CallsKept
<1>11. ASSUME NEW r \in Requests, NEW effects \in Effect(r), UnderWay(r), Becomes(r, Ended(r, "error", effects))
       PROVE  CallsInv'
  BY <1>11, EffectBound, EndedCall, CallsKept
<1>12. ASSUME NEW r \in Requests, Fail(r) PROVE CallsInv'
  <2>1. UnderWay(r)
    BY <1>12 DEF Fail, UnderWay
  <2>2. ASSUME NEW effects \in Effect(r), GoesOn(r),
               Becomes(r, [requests[r] EXCEPT !.at = "backoff", !.effects = effects])
        PROVE  CallsInv'
    <3> DEFINE state == [requests[r] EXCEPT !.at = "backoff", !.effects = effects]
    <3>1. /\ state.at = "backoff" /\ state.sends = requests[r].sends /\ state.left = requests[r].left
          /\ state.retried = requests[r].retried
      BY <1>4 DEF RequestStates
    <3>2. CallInv(state, Attempts(r))
      <4> HIDE DEF state
      <4> QED BY <1>4, <1>12, <2>2, <3>1 DEF CallInv, Fail, GoesOn, Spent
    <3> QED BY <2>2, <3>2, CallsKept
  <2> QED BY <1>11, <1>12, <2>1, <2>2 DEF Fail
<1>13. ASSUME NEW r \in Requests, TimeOut(r) PROVE CallsInv'
  BY <1>11, <1>13 DEF TimeOut, UnderWay
<1>14. ASSUME NEW r \in Requests, Replay(r) PROVE CallsInv'
  <2> DEFINE state == [requests[r] EXCEPT !.at = "replaying", !.retried = TRUE]
  <2>1. /\ state.at = "replaying" /\ state.sends = requests[r].sends /\ state.effects = requests[r].effects
        /\ state.retried
    BY <1>4 DEF RequestStates
  <2>2. Becomes(r, state)
    BY <1>14 DEF Replay
  <2> HIDE DEF state
  <2>3. CallInv(state, Attempts(r))
    BY <1>4, <1>14, <2>1 DEF CallInv, Replay, Spent
  <2> QED BY <2>2, <2>3, CallsKept
<1>15. ASSUME NEW r \in Requests, Cancel(r) PROVE CallsInv'
  <2>1. CASE Becomes(r, [requests[r] EXCEPT !.aborted = TRUE])
    <3> DEFINE state == [requests[r] EXCEPT !.aborted = TRUE]
    <3>1. /\ state.at = requests[r].at /\ state.sends = requests[r].sends /\ state.effects = requests[r].effects
          /\ state.left = requests[r].left /\ state.tries = requests[r].tries
          /\ state.retried = requests[r].retried
      BY <1>4 DEF RequestStates
    <3>2. CallInv(state, Attempts(r))
      <4> HIDE DEF state
      <4> QED BY <1>4, <3>1 DEF CallInv, Spent
    <3> QED BY <2>1, <3>2, CallsKept
  <2>2. CASE Over(r, "error")
    BY <2>2, OverCall
  <2> QED BY <1>11, <1>15, <2>1, <2>2 DEF Cancel
<1> QED BY <1>1, <1>2, <1>3, <1>5, <1>6, <1>7, <1>8, <1>9, <1>10, <1>12, <1>13, <1>14, <1>15
        DEF Next, Expire, Mint, Answered, Unanswered, vars

----------------------------------------------------------------------------
(* The fetches *)

\* A step that leaves the fetches, the epoch and the one in flight alone keeps the invariant.
LEMMA FetchesAlone ==
  ASSUME FetchInv, fetches' = fetches, epoch' = epoch, inFlight' = inFlight
  PROVE  FetchInv'
  BY DEF FetchInv, SingleFlight

\* So does an invalidation: the fetches under way are of an earlier epoch then.
LEMMA FetchesInvalidated ==
  ASSUME TypeOK, FetchInv, Invalidate, UNCHANGED <<fetches, inFlight>>
  PROVE  FetchInv'
<1>1. \A f \in Fetches : fetches[f].epoch \in Nat
  BY DEF TypeOK, FetchStates
<1> QED BY <1>1 DEF FetchInv, SingleFlight, Invalidate, TypeOK

\* Fetches are single-flight, whatever is invalidated and whenever it is answered.
LEMMA FetchStep == TypeOK /\ FetchInv /\ [Next]_vars => FetchInv'
<1> SUFFICES ASSUME TypeOK, FetchInv, [Next]_vars PROVE FetchInv'
  OBVIOUS
<1> USE OutboundAssumption
<1>1. ASSUME UNCHANGED <<fetches, epoch, inFlight>> PROVE FetchInv'
  BY <1>1, FetchesAlone
<1>2. ASSUME UNCHANGED <<epoch, inFlight>>, NEW f \in Fetches, fetches[f].at # "idle",
             NEW at \in {"minted", "settled"}, NEW token,
             fetches' = [fetches EXCEPT ![f].at = at, ![f].token = token]
      PROVE  FetchInv'
  <2>1. \A g \in Fetches : fetches[g] \in FetchStates
    BY DEF TypeOK
  <2>2. fetches'[f].at = at /\ fetches'[f].epoch = fetches[f].epoch
    BY <1>2, <2>1 DEF TypeOK, FetchStates
  <2>3. \A g \in Fetches : g # f => fetches'[g] = fetches[g]
    BY <1>2 DEF TypeOK
  <2> QED BY <1>2, <2>2, <2>3 DEF FetchInv, SingleFlight, TypeOK
<1>3. CASE Revoke
  <2>1. \A f \in Fetches : fetches[f] \in FetchStates
    BY DEF TypeOK
  <2>2. Revoked(None) = None
    BY DEF Revoked, Credentials
  <2>3. \A f \in Fetches : /\ fetches'[f].at = fetches[f].at
                           /\ fetches'[f].epoch = fetches[f].epoch
    BY <1>3, <2>1 DEF Revoke, FetchStates
  <2>4. ASSUME NEW f \in Fetches, fetches[f].at = "idle" PROVE fetches'[f] = NoFetch
    <3>1. fetches[f] = NoFetch
      BY <2>4 DEF FetchInv
    <3>2. fetches'[f] = [fetches[f] EXCEPT !.token = Revoked(fetches[f].token)]
      BY <1>3 DEF Revoke
    <3> QED BY <2>2, <3>1, <3>2 DEF NoFetch
  <2>5. epoch' = epoch /\ inFlight' = inFlight /\ inFlight \in Fetches \cup {None}
    BY <1>3 DEF Revoke, TypeOK
  <2> QED BY <2>3, <2>4, <2>5 DEF FetchInv, SingleFlight
<1>4. ASSUME NEW f \in Fetches, Mint(f) PROVE FetchInv'
  BY <1>2, <1>4 DEF Mint, strategyVars
<1>5. ASSUME NEW f \in Fetches, Answered(f) PROVE FetchInv'
  <2>1. \A g \in Fetches : fetches[g] \in FetchStates
    BY DEF TypeOK
  <2>2. fetches'[f].at = "settled" /\ fetches'[f].epoch = fetches[f].epoch
    BY <1>5, <2>1 DEF Answered, TypeOK, FetchStates
  <2>3. \A g \in Fetches : g # f => fetches'[g] = fetches[g]
    BY <1>5 DEF Answered, TypeOK
  <2> QED BY <1>5, <2>2, <2>3 DEF Answered, FetchInv, SingleFlight, TypeOK
<1>6. ASSUME NEW f \in Fetches, Unanswered(f) PROVE FetchInv'
  BY <1>2, <1>6 DEF Unanswered, strategyVars
<1>7. ASSUME NEW f \in Fetches, Forget(f) PROVE FetchInv'
  <2>1. fetches'[f] = NoFetch /\ \A g \in Fetches : g # f => fetches'[g] = fetches[g]
    BY <1>7 DEF Forget, TypeOK
  <2>2. ASSUME NEW g \in Fetches, fetches'[g].at # "idle", fetches'[g].epoch = epoch PROVE inFlight' = g
    <3>1. g # f /\ fetches[g].at # "idle" /\ fetches[g].epoch = epoch /\ inFlight = g
      BY <2>1, <2>2 DEF FetchInv, NoFetch
    <3>2. fetches[f].epoch # epoch
      BY <1>7, <3>1 DEF Forget, FetchInv
    <3> QED BY <1>7, <3>1, <3>2 DEF Forget
  <2>3. inFlight' # None => inFlight' = inFlight /\ inFlight \in Fetches /\ inFlight # f
    BY <1>7 DEF Forget, TypeOK
  <2> QED BY <1>7, <2>1, <2>2, <2>3 DEF Forget, FetchInv, SingleFlight, NoFetch
<1>8. ASSUME NEW r \in Requests, Tag(r) PROVE FetchInv'
  <2>1. CASE Fetch(r)
    <3>1. Free \in Fetches /\ fetches[Free].at = "idle"
      BY <2>1 DEF Fetch, Free
    <3>2. \A g \in Fetches : fetches[g] \in FetchStates
      BY DEF TypeOK
    <3>3. fetches'[Free].at = "asked" /\ fetches'[Free].epoch = epoch
      BY <2>1, <3>1, <3>2 DEF Fetch, TypeOK, FetchStates
    <3>4. \A g \in Fetches : g # Free => fetches'[g] = fetches[g]
      BY <2>1, <3>1 DEF Fetch, TypeOK
    <3>5. \A g \in Fetches : fetches[g].at # "idle" => fetches[g].epoch # epoch
      BY <2>1 DEF Fetch, Joinable, FetchInv
    <3>6. inFlight' = Free /\ epoch' = epoch /\ epoch \in Nat
      BY <1>8, <2>1 DEF Fetch, Tag, TypeOK
    <3> HIDE DEF Free
    <3> QED BY <3>1, <3>3, <3>4, <3>5, <3>6 DEF FetchInv, SingleFlight
  <2> QED BY <1>1, <1>8, <2>1 DEF Tag, UseCached, Join
<1>9. ASSUME NEW r \in Requests, Reject(r) PROVE FetchInv'
  BY <1>9, FetchesInvalidated DEF Reject
<1>10. ASSUME NEW r \in Requests, Replay(r) PROVE FetchInv'
  BY <1>1, <1>10, FetchesInvalidated DEF Replay, Refresh
<1> QED BY <1>1, <1>3, <1>4, <1>5, <1>6, <1>7, <1>8, <1>9, <1>10
        DEF Next, Expire, Dispatch, Retry, Succeed, Refuse, Fail, TimeOut, PassOn, Cancel, vars, strategyVars

\* A step of one call, or of none, keeps waiters waiting for a fetch that is under way.
LEMMA WaitKept ==
  ASSUME TypeOK, WaitInv, NEW r \in Requests, NEW state, Becomes(r, state),
         state.at = "waiting" <=> state.fetch # None,
         state.at = "waiting" => fetches'[state.fetch].at # "idle",
         \A f \in Fetches : fetches[f].at # "idle" => fetches'[f].at # "idle"
  PROVE  WaitInv'
<1> SUFFICES ASSUME NEW q \in Requests
             PROVE  /\ requests'[q].at = "waiting" <=> requests'[q].fetch # None
                    /\ requests'[q].at = "waiting" => fetches'[requests'[q].fetch].at # "idle"
  BY DEF WaitInv
<1>1. requests'[q] = IF q = r THEN state ELSE requests[q]
  BY DEF Becomes, TypeOK
<1>2. requests[q].fetch \in Fetches \cup {None}
  BY DEF TypeOK, RequestStates
<1> QED BY <1>1, <1>2 DEF WaitInv

\* Nobody waits for a fetch that is gone.
LEMMA WaitStep == TypeOK /\ FetchInv /\ WaitInv /\ [Next]_vars => WaitInv'
<1> SUFFICES ASSUME TypeOK, FetchInv, WaitInv, [Next]_vars PROVE WaitInv'
  OBVIOUS
<1> USE OutboundAssumption
<1> DEFINE Still == \A f \in Fetches : fetches[f].at # "idle" => fetches'[f].at # "idle"
<1>1. \A r \in Requests : requests[r] \in RequestStates
  BY DEF TypeOK
<1>2. \A f \in Fetches : fetches[f] \in FetchStates
  BY DEF TypeOK
<1>3. ASSUME Still, UNCHANGED requests PROVE WaitInv'
  BY <1>1, <1>3 DEF WaitInv, RequestStates
<1>4. ASSUME NEW r \in Requests, Still, NEW state, Becomes(r, state), state.fetch = None, state.at # "waiting"
      PROVE  WaitInv'
  BY <1>4, WaitKept
<1>5. ASSUME NEW r \in Requests, Still, NEW end, NEW effects, Becomes(r, Ended(r, end, effects)) PROVE WaitInv'
  <2>1. Ended(r, end, effects).fetch = None /\ Ended(r, end, effects).at = "over"
    BY DEF Ended, NotMade
  <2> QED BY <1>4, <1>5, <2>1
<1>6. ASSUME NEW r \in Requests, Still, NEW rest, requests[r].at # "waiting", Attempt(r, rest) PROVE WaitInv'
  <2>1. [requests[r] EXCEPT !.at = "sent", !.left = rest, !.sends = @ + 1].fetch = None
        /\ [requests[r] EXCEPT !.at = "sent", !.left = rest, !.sends = @ + 1].at = "sent"
    BY <1>1, <1>6 DEF WaitInv, RequestStates
  <2> QED BY <1>4, <1>5, <1>6, <2>1 DEF Attempt, Over
<1>7. CASE Revoke
  <2>1. \A f \in Fetches : fetches'[f].at = fetches[f].at
    BY <1>2, <1>7 DEF Revoke, FetchStates
  <2>2. \A r \in Requests : requests'[r].at = requests[r].at /\ requests'[r].fetch = requests[r].fetch
    BY <1>1, <1>7 DEF Revoke, RequestStates
  <2> QED BY <1>1, <2>1, <2>2 DEF WaitInv, RequestStates
<1>8. ASSUME NEW f \in Fetches, Mint(f) \/ Answered(f) \/ Unanswered(f) PROVE Still /\ UNCHANGED requests
  BY <1>2, <1>8 DEF Mint, Answered, Unanswered, FetchStates, TypeOK
<1>9. ASSUME NEW f \in Fetches, Forget(f) PROVE WaitInv'
  <2> SUFFICES ASSUME NEW r \in Requests
               PROVE  /\ requests'[r].at = "waiting" <=> requests'[r].fetch # None
                      /\ requests'[r].at = "waiting" => fetches'[requests'[r].fetch].at # "idle"
    BY DEF WaitInv
  <2>1. requests'[r] = Settled(f, r)
    BY <1>9 DEF Forget
  <2>2. CASE requests[r].fetch # f
    <3>1. \A g \in Fetches : g # f => fetches'[g] = fetches[g]
      BY <1>9 DEF Forget, TypeOK
    <3> QED BY <1>1, <2>1, <2>2, <3>1 DEF Settled, WaitInv, RequestStates
  <2>3. CASE requests[r].fetch = f
    BY <1>1, <2>1, <2>3 DEF Settled, Ended, NotMade, RequestStates
  <2> QED BY <2>2, <2>3
<1>10. ASSUME NEW r \in Requests, Tag(r) PROVE WaitInv'
  <2>1. requests[r].fetch = None
    BY <1>10 DEF Tag, WaitInv
  <2>2. CASE UseCached(r)
    <3>1. [requests[r] EXCEPT !.at = "holding", !.tag = generation, !.tries = Wrap(r), !.token = cached].fetch = None
          /\ [requests[r] EXCEPT !.at = "holding", !.tag = generation, !.tries = Wrap(r), !.token = cached].at = "holding"
      BY <1>1, <2>1 DEF RequestStates
    <3> QED BY <1>4, <2>2, <3>1 DEF UseCached
  <2>3. ASSUME NEW f \in Fetches, fetches'[f].at # "idle", Still, Await(r, f) PROVE WaitInv'
    <3>1. /\ [requests[r] EXCEPT !.at = "waiting", !.tag = generation, !.tries = Wrap(r), !.fetch = f].fetch = f
          /\ [requests[r] EXCEPT !.at = "waiting", !.tag = generation, !.tries = Wrap(r), !.fetch = f].at = "waiting"
      BY <1>1 DEF RequestStates
    <3> QED BY <2>3, <3>1, WaitKept DEF Await
  <2>4. CASE Join(r)
    BY <2>3, <2>4 DEF Join, Joinable, FetchInv, TypeOK
  <2>5. CASE Fetch(r)
    <3>1. Free \in Fetches /\ fetches[Free].at = "idle"
      BY <2>5 DEF Fetch, Free
    <3>2. fetches'[Free].at = "asked" /\ Still
      BY <1>2, <2>5, <3>1 DEF Fetch, TypeOK, FetchStates
    <3> QED BY <2>3, <2>5, <3>1, <3>2 DEF Fetch
  <2> QED BY <1>10, <2>2, <2>4, <2>5 DEF Tag
<1>11. ASSUME NEW r \in Requests, Reject(r) \/ PassOn(r) PROVE WaitInv'
  BY <1>5, <1>11 DEF Reject, PassOn, Over
<1>12. ASSUME NEW r \in Requests, Dispatch(r) PROVE WaitInv'
  BY <1>5, <1>6, <1>12 DEF Dispatch, Over
<1>13. ASSUME NEW r \in Requests, Retry(r) PROVE WaitInv'
  BY <1>6, <1>13 DEF Retry
<1>14. ASSUME NEW r \in Requests, Succeed(r) PROVE WaitInv'
  BY <1>5, <1>14 DEF Succeed
<1>15. ASSUME NEW r \in Requests, NEW state, requests[r].at # "waiting", Still, Becomes(r, state),
              state.fetch = requests[r].fetch, state.at # "waiting"
       PROVE  WaitInv'
  BY <1>4, <1>15 DEF WaitInv
<1>16. ASSUME NEW r \in Requests, Refuse(r) PROVE WaitInv'
  <2>1. [requests[r] EXCEPT !.at = "answered", !.token = None, !.left = 0].fetch = requests[r].fetch
        /\ [requests[r] EXCEPT !.at = "answered", !.token = None, !.left = 0].at = "answered"
    BY <1>1 DEF RequestStates
  <2> QED BY <1>15, <1>16, <2>1 DEF Refuse
<1>17. ASSUME NEW r \in Requests, Fail(r) PROVE WaitInv'
  <2>1. ASSUME NEW effects, Becomes(r, [requests[r] EXCEPT !.at = "backoff", !.effects = effects]) PROVE WaitInv'
    <3>1. [requests[r] EXCEPT !.at = "backoff", !.effects = effects].fetch = requests[r].fetch
          /\ [requests[r] EXCEPT !.at = "backoff", !.effects = effects].at = "backoff"
      BY <1>1 DEF RequestStates
    <3> QED BY <1>15, <1>17, <2>1, <3>1 DEF Fail
  <2> QED BY <1>5, <1>17, <2>1 DEF Fail
<1>18. ASSUME NEW r \in Requests, TimeOut(r) PROVE WaitInv'
  BY <1>5, <1>18 DEF TimeOut
<1>19. ASSUME NEW r \in Requests, Replay(r) PROVE WaitInv'
  <2>1. [requests[r] EXCEPT !.at = "replaying", !.retried = TRUE].fetch = requests[r].fetch
        /\ [requests[r] EXCEPT !.at = "replaying", !.retried = TRUE].at = "replaying"
    BY <1>1 DEF RequestStates
  <2> QED BY <1>15, <1>19, <2>1 DEF Replay
<1>20. ASSUME NEW r \in Requests, Cancel(r) PROVE WaitInv'
  <2>1. CASE Becomes(r, [requests[r] EXCEPT !.aborted = TRUE])
    <3>1. [requests[r] EXCEPT !.aborted = TRUE].fetch = requests[r].fetch
          /\ [requests[r] EXCEPT !.aborted = TRUE].at = requests[r].at
      BY <1>1 DEF RequestStates
    <3>2. Still
      BY <1>20 DEF Cancel
    <3>3. requests[r].fetch \in Fetches \cup {None} /\ fetches' = fetches
      BY <1>1, <1>20 DEF RequestStates, Cancel
    <3> QED BY <2>1, <3>1, <3>2, <3>3, WaitKept DEF WaitInv
  <2> QED BY <1>5, <1>20, <2>1 DEF Cancel, Over
<1> QED BY <1>3, <1>7, <1>8, <1>9, <1>10, <1>11, <1>12, <1>13, <1>14, <1>16, <1>17, <1>18, <1>19, <1>20
        DEF Next, Expire, vars

----------------------------------------------------------------------------
(* Who is refused *)

\* A step of one call, when nothing revoked comes within reach.
LEMMA RefusalKept ==
  ASSUME TypeOK, RefusalInv, NEW r \in Requests, NEW state, Becomes(r, state),
         generation' = generation, CacheClean => CacheClean',
         \A f \in Fetches : fetches[f].token # "revoked" => fetches'[f].token # "revoked",
         state.at = "waiting" => state.fetch \in Fetches,
         WaitInv,
         RefusalOf(state), state.end = "refused" => state.revocation
  PROVE  RefusalInv'
<1>1. \A q \in Requests : requests'[q] = IF q = r THEN state ELSE requests[q]
  BY DEF Becomes, TypeOK
<1>2. \A q \in Requests : requests[q].fetch \in Fetches \cup {None}
  BY DEF TypeOK, RequestStates
<1>3. ASSUME NEW q \in Requests PROVE RefusalOf(requests[q])'
  <2>1. RefusalOf(requests'[q])
    BY <1>1 DEF RefusalInv
  <2>2. requests'[q].at = "waiting" => requests'[q].fetch \in Fetches
    BY <1>1, <1>2 DEF WaitInv
  <2> QED BY <2>1, <2>2 DEF RefusalOf, Undisturbed
<1>4. RefusedMeansRevoked'
  BY <1>1 DEF RefusedMeansRevoked, RefusalInv
<1> QED BY <1>3, <1>4 DEF RefusalInv

\* A step of a fetch, when nothing revoked comes within reach.
LEMMA RefusalAlone ==
  ASSUME TypeOK, WaitInv, RefusalInv, UNCHANGED <<requests, generation>>, CacheClean => CacheClean',
         \A f \in Fetches : fetches[f].token # "revoked" => fetches'[f].token # "revoked"
  PROVE  RefusalInv'
<1>1. \A q \in Requests : requests[q].fetch \in Fetches \cup {None}
  BY DEF TypeOK, RequestStates
<1>2. ASSUME NEW q \in Requests PROVE RefusalOf(requests[q])'
  BY <1>1 DEF RefusalInv, RefusalOf, Undisturbed, WaitInv
<1>3. RefusedMeansRevoked'
  BY DEF RefusedMeansRevoked, RefusalInv
<1> QED BY <1>2, <1>3 DEF RefusalInv

\* Nothing revoked is left once the cache is emptied.
LEMMA InvalidatedClean ==
  ASSUME TypeOK, FetchInv, Invalidate, UNCHANGED fetches
  PROVE  CacheClean'
<1>1. \A f \in Fetches : fetches[f].epoch \in Nat /\ fetches[f].epoch <= epoch
  BY DEF TypeOK, FetchStates, FetchInv, NoFetch
<1>2. epoch \in Nat /\ epoch' = epoch + 1 /\ cached' = None
  BY DEF TypeOK, Invalidate
<1> QED BY <1>1, <1>2, OutboundAssumption DEF CacheClean

\* Whoever is refused behind its replay has seen a revocation.
LEMMA RefusalStep ==
  TypeOK /\ FetchInv /\ WaitInv /\ CallsInv /\ RefusalInv /\ [Next]_vars => RefusalInv'
<1> SUFFICES ASSUME TypeOK, FetchInv, WaitInv, CallsInv, RefusalInv, [Next]_vars PROVE RefusalInv'
  OBVIOUS
<1> USE OutboundAssumption
<1>1. \A r \in Requests : requests[r] \in RequestStates
  BY DEF TypeOK
<1>2. \A f \in Fetches : fetches[f] \in FetchStates
  BY DEF TypeOK
<1>3. ASSUME UNCHANGED <<cached, epoch, fetches>>
      PROVE  /\ CacheClean => CacheClean'
             /\ \A f \in Fetches : fetches[f].token # "revoked" => fetches'[f].token # "revoked"
  BY <1>3 DEF CacheClean
<1>4. ASSUME NEW r \in Requests, UNCHANGED <<generation, cached, epoch, fetches>>, NEW state, Becomes(r, state),
             state.at # "waiting", RefusalOf(state), state.end = "refused" => state.revocation
      PROVE  RefusalInv'
  BY <1>3, <1>4, RefusalKept
<1>5. ASSUME NEW r \in Requests, NEW end, NEW effects
      PROVE  /\ Ended(r, end, effects).at = "over" /\ Ended(r, end, effects).end = end
             /\ Ended(r, end, effects).revocation = requests[r].revocation
             /\ RefusalOf(Ended(r, end, effects))
  <2>1. /\ Ended(r, end, effects).at = "over" /\ Ended(r, end, effects).end = end
        /\ Ended(r, end, effects).revocation = requests[r].revocation
    BY DEF Ended, NotMade
  <2> QED BY <2>1 DEF RefusalOf, Undisturbed
<1>6. ASSUME NEW r \in Requests, UNCHANGED <<generation, cached, epoch, fetches>>, NEW end \in {"ok", "error"}, NEW effects,
             Becomes(r, Ended(r, end, effects))
      PROVE  RefusalInv'
  BY <1>4, <1>5, <1>6
<1>7. ASSUME NEW r \in Requests, NEW rest, UNCHANGED <<generation, cached, epoch, fetches>>,
             requests[r].at \in {"holding", "backoff"}, Attempt(r, rest)
      PROVE  RefusalInv'
  <2> DEFINE state == [requests[r] EXCEPT !.at = "sent", !.left = rest, !.sends = @ + 1]
  <2>1. /\ state.at = "sent" /\ state.tag = requests[r].tag /\ state.token = requests[r].token
        /\ state.retried = requests[r].retried /\ state.revocation = requests[r].revocation
        /\ state.end = requests[r].end
    BY <1>1 DEF RequestStates
  <2>2. RefusalOf(state) /\ (state.end = "refused" => state.revocation)
    <3> HIDE DEF state
    <3> QED BY <1>7, <2>1 DEF RefusalInv, RefusalOf, Undisturbed, RefusedMeansRevoked
  <2>3. CASE Becomes(r, state)
    BY <1>4, <1>7, <2>1, <2>2, <2>3
  <2> QED BY <1>6, <1>7, <2>3 DEF Attempt, Over
<1>8. CASE Expire
  BY <1>3, <1>8, RefusalAlone DEF Expire
<1>9. CASE Revoke
  <2>1. ASSUME NEW r \in Requests PROVE RefusalOf(requests[r])'
    <3>1. requests'[r].at \in {"idle", "over"} \/ requests'[r].revocation
      BY <1>1, <1>9 DEF Revoke, UnderWay, RequestStates
    <3> QED BY <3>1 DEF RefusalOf, Undisturbed
  <2>2. ASSUME NEW r \in Requests PROVE requests'[r].end = "refused" => requests'[r].revocation
    <3>1. requests'[r].end = requests[r].end /\ (requests'[r].revocation \/ requests'[r] = requests[r])
      BY <1>1, <1>9 DEF Revoke, RequestStates
    <3> QED BY <3>1 DEF RefusalInv, RefusedMeansRevoked
  <2> QED BY <2>1, <2>2 DEF RefusalInv, RefusedMeansRevoked
<1>10. ASSUME NEW f \in Fetches, NEW at, NEW token, token # "revoked",
              UNCHANGED <<generation, cached, epoch, requests>>,
              fetches' = [fetches EXCEPT ![f].at = at, ![f].token = token]
       PROVE  RefusalInv'
  <2>1. \A g \in Fetches : fetches'[g].epoch = fetches[g].epoch /\ (fetches'[g].token = token \/ fetches'[g].token = fetches[g].token)
    BY <1>2, <1>10 DEF TypeOK, FetchStates
  <2> QED BY <1>10, <2>1, RefusalAlone DEF CacheClean
<1>11. ASSUME NEW f \in Fetches, Mint(f) \/ Unanswered(f) PROVE RefusalInv'
  BY <1>10, <1>11 DEF Mint, Unanswered, strategyVars
<1>12. ASSUME NEW f \in Fetches, Answered(f) PROVE RefusalInv'
  <2>1. \A g \in Fetches : fetches'[g].epoch = fetches[g].epoch /\ fetches'[g].token = fetches[g].token
    BY <1>2, <1>12 DEF Answered, TypeOK, FetchStates
  <2> QED BY <1>12, <2>1, RefusalAlone DEF Answered, CacheClean
<1>13. ASSUME NEW f \in Fetches, Forget(f) PROVE RefusalInv'
  <2>1. \A g \in Fetches : fetches'[g] = IF g = f THEN NoFetch ELSE fetches[g]
    BY <1>13 DEF Forget, TypeOK
  <2>2. CacheClean => CacheClean'
    BY <1>13, <2>1 DEF CacheClean, NoFetch, Forget
  <2>3. ASSUME NEW r \in Requests PROVE RefusalOf(requests[r])' /\ (requests'[r].end = "refused" => requests'[r].revocation)
    <3>1. requests'[r] = Settled(f, r) /\ generation' = generation
      BY <1>13 DEF Forget
    <3>2. RefusalOf(requests[r]) /\ (requests[r].end = "refused" => requests[r].revocation)
      BY DEF RefusalInv, RefusedMeansRevoked
    <3>3. CASE requests[r].fetch # f
      <4>1. requests'[r] = requests[r]
        BY <3>1, <3>3 DEF Settled
      <4>2. requests[r].at = "waiting" => fetches'[requests[r].fetch] = fetches[requests[r].fetch]
        BY <1>1, <2>1, <3>3 DEF WaitInv, RequestStates
      <4> QED BY <2>2, <3>1, <3>2, <4>1, <4>2 DEF RefusalOf, Undisturbed
    <3>4. CASE requests[r].fetch = f /\ fetches[f].token = None
      <4>1. requests'[r] = Ended(r, "error", requests[r].effects)
        BY <3>1, <3>4 DEF Settled
      <4> QED BY <1>5, <4>1 DEF RefusalOf, Undisturbed
    <3>5. CASE requests[r].fetch = f /\ fetches[f].token # None
      <4>1. /\ requests'[r].at = "holding" /\ requests'[r].token = fetches[f].token
            /\ requests'[r].tag = requests[r].tag /\ requests'[r].retried = requests[r].retried
            /\ requests'[r].revocation = requests[r].revocation /\ requests'[r].end = requests[r].end
        BY <1>1, <3>1, <3>5 DEF Settled, RequestStates
      <4>2. requests[r].at = "waiting"
        BY <3>5 DEF WaitInv
      <4> QED BY <2>2, <3>1, <3>2, <3>5, <4>1, <4>2 DEF RefusalOf, Undisturbed
    <3> QED BY <3>3, <3>4, <3>5
  <2> QED BY <2>3 DEF RefusalInv, RefusedMeansRevoked
<1>14. ASSUME NEW r \in Requests, Tag(r) PROVE RefusalInv'
  <2>1. /\ requests[r].at = "idle" => ~requests[r].retried
        /\ requests[r].retried /\ Undisturbed(requests[r]) => CacheClean
        /\ requests[r].end = "refused" => requests[r].revocation
    BY <1>14 DEF CallsInv, CallInv, RefusalInv, RefusalOf, RefusedMeansRevoked, Tag
  <2>2. generation \in Nat
    BY DEF TypeOK
  <2>3. CASE UseCached(r)
    <3> DEFINE state == [requests[r] EXCEPT !.at = "holding", !.tag = generation, !.tries = Wrap(r), !.token = cached]
    <3>1. /\ state.at = "holding" /\ state.tag = generation /\ state.token = cached
          /\ state.retried = requests[r].retried /\ state.revocation = requests[r].revocation
          /\ state.end = requests[r].end
      BY <1>1 DEF RequestStates
    <3>2. Becomes(r, state)
      BY <2>3 DEF UseCached
    <3> HIDE DEF state
    <3>3. RefusalOf(state)
      BY <1>14, <2>1, <2>2, <3>1 DEF RefusalOf, Undisturbed, CacheClean, Tag
    <3> QED BY <1>4, <1>14, <2>1, <2>3, <3>1, <3>2, <3>3 DEF Tag, UseCached
  <2>4. ASSUME NEW f \in Fetches, Await(r, f), generation' = generation, CacheClean => CacheClean',
               CacheClean => fetches[f].token # "revoked",
               \A g \in Fetches : fetches[g].token # "revoked" => fetches'[g].token # "revoked"
        PROVE  RefusalInv'
    <3> DEFINE state == [requests[r] EXCEPT !.at = "waiting", !.tag = generation, !.tries = Wrap(r), !.fetch = f]
    <3>1. /\ state.at = "waiting" /\ state.tag = generation /\ state.fetch = f
          /\ state.retried = requests[r].retried /\ state.revocation = requests[r].revocation
          /\ state.end = requests[r].end
      BY <1>1 DEF RequestStates
    <3>2. Becomes(r, state)
      BY <2>4 DEF Await
    <3> HIDE DEF state
    <3>3. RefusalOf(state)
      BY <1>14, <2>1, <2>2, <2>4, <3>1 DEF RefusalOf, Undisturbed, Tag
    <3> QED BY <2>1, <2>4, <3>1, <3>2, <3>3, RefusalKept
  <2>5. CASE Join(r)
    BY <1>3, <1>14, <2>4, <2>5 DEF Join, Joinable, Tag, CacheClean, TypeOK
  <2>6. CASE Fetch(r)
    <3>1. Free \in Fetches /\ fetches[Free] = NoFetch
      BY <2>6 DEF Fetch, Free, FetchInv
    <3>2. \A g \in Fetches : fetches'[g].token = fetches[g].token
      BY <1>2, <2>6 DEF Fetch, FetchStates, TypeOK
    <3>3. \A g \in Fetches : g # Free => fetches'[g] = fetches[g]
      BY <2>6, <3>1 DEF Fetch, TypeOK
    <3>4. fetches[Free].token # "revoked"
      BY <3>1 DEF NoFetch
    <3>5. CacheClean => CacheClean'
      BY <1>14, <3>2, <3>3, <3>4 DEF CacheClean, Tag
    <3> QED BY <1>14, <2>4, <2>6, <3>1, <3>2, <3>4, <3>5 DEF Tag, Fetch
  <2> QED BY <1>14, <2>3, <2>5, <2>6 DEF Tag
<1>15. ASSUME NEW r \in Requests, Reject(r) PROVE RefusalInv'
  <2>1. CacheClean'
    BY <1>15, InvalidatedClean DEF Reject
  <2>2. Becomes(r, Ended(r, "error", requests[r].effects)) /\ generation' = generation /\ fetches' = fetches
    BY <1>15 DEF Reject, Over
  <2> QED BY <1>5, <2>1, <2>2, RefusalKept
<1>16. ASSUME NEW r \in Requests, Dispatch(r) PROVE RefusalInv'
  BY <1>6, <1>7, <1>16 DEF Dispatch, Over, strategyVars
<1>17. ASSUME NEW r \in Requests, Retry(r) PROVE RefusalInv'
  BY <1>7, <1>17 DEF Retry, strategyVars
<1>18. ASSUME NEW r \in Requests, Succeed(r) PROVE RefusalInv'
  BY <1>6, <1>18 DEF Succeed, strategyVars
<1>19. ASSUME NEW r \in Requests, Refuse(r) PROVE RefusalInv'
  <2> DEFINE state == [requests[r] EXCEPT !.at = "answered", !.token = None, !.left = 0]
  <2>1. /\ state.at = "answered" /\ state.tag = requests[r].tag /\ state.token = None
        /\ state.retried = requests[r].retried /\ state.revocation = requests[r].revocation
        /\ state.end = requests[r].end
    BY <1>1 DEF RequestStates
  <2>2. Becomes(r, state)
    BY <1>19 DEF Refuse
  <2> HIDE DEF state
  <2>3. RefusalOf(state) /\ (state.end = "refused" => state.revocation)
    BY <1>19, <2>1 DEF RefusalInv, RefusalOf, Undisturbed, RefusedMeansRevoked, Refuse
  <2> QED BY <1>4, <1>19, <2>1, <2>2, <2>3 DEF Refuse, strategyVars
<1>20. ASSUME NEW r \in Requests, Fail(r) PROVE RefusalInv'
  <2>1. ASSUME NEW effects, Becomes(r, [requests[r] EXCEPT !.at = "backoff", !.effects = effects]) PROVE RefusalInv'
    <3> DEFINE state == [requests[r] EXCEPT !.at = "backoff", !.effects = effects]
    <3>1. /\ state.at = "backoff" /\ state.tag = requests[r].tag /\ state.token = requests[r].token
          /\ state.retried = requests[r].retried /\ state.revocation = requests[r].revocation
          /\ state.end = requests[r].end
      BY <1>1 DEF RequestStates
    <3> HIDE DEF state
    <3>2. RefusalOf(state) /\ (state.end = "refused" => state.revocation)
      BY <1>20, <3>1 DEF RefusalInv, RefusalOf, Undisturbed, RefusedMeansRevoked, Fail
    <3> QED BY <1>4, <1>20, <2>1, <3>1, <3>2 DEF Fail, strategyVars, state
  <2> QED BY <1>6, <1>20, <2>1 DEF Fail, strategyVars
<1>21. ASSUME NEW r \in Requests, TimeOut(r) PROVE RefusalInv'
  BY <1>6, <1>21 DEF TimeOut, strategyVars
<1>22. ASSUME NEW r \in Requests, Replay(r) PROVE RefusalInv'
  <2> DEFINE state == [requests[r] EXCEPT !.at = "replaying", !.retried = TRUE]
  <2>1. /\ state.at = "replaying" /\ state.tag = requests[r].tag
        /\ state.revocation = requests[r].revocation /\ state.end = requests[r].end
    BY <1>1 DEF RequestStates
  <2>2. \A q \in Requests : requests'[q] = IF q = r THEN state ELSE requests[q]
    BY <1>22 DEF Replay, Becomes, TypeOK
  <2> HIDE DEF state
  <2>3. requests[r].at = "answered" /\ fetches' = fetches
    BY <1>22 DEF Replay
  <2>4. \A q \in Requests : requests[q].end = "refused" => requests[q].revocation
    BY DEF RefusalInv, RefusedMeansRevoked
  <2>5. CASE requests[r].tag = generation
    <3>1. CacheClean' /\ generation' = generation + 1
      BY <1>22, <2>3, <2>5, InvalidatedClean DEF Replay, Refresh
    <3>2. ASSUME NEW q \in Requests PROVE RefusalOf(requests[q])'
      <4>1. requests[q].tag \in Nat /\ generation \in Nat /\ RefusalOf(requests[q]) /\ RefusalOf(requests[r])
        BY <1>1 DEF RequestStates, TypeOK, RefusalInv
      <4> QED BY <2>1, <2>2, <2>3, <3>1, <4>1 DEF RefusalOf, Undisturbed
    <3> QED BY <2>1, <2>2, <2>4, <3>2 DEF RefusalInv, RefusedMeansRevoked
  <2>6. CASE requests[r].tag # generation
    <3>1. generation' = generation /\ (CacheClean => CacheClean')
      BY <1>3, <1>22, <2>3, <2>6 DEF Replay, Refresh
    <3>2. ASSUME NEW q \in Requests PROVE RefusalOf(requests[q])'
      <4>1. RefusalOf(requests[q]) /\ RefusalOf(requests[r])
        BY DEF RefusalInv
      <4> QED BY <2>1, <2>2, <2>3, <2>6, <3>1, <4>1 DEF RefusalOf, Undisturbed
    <3> QED BY <2>1, <2>2, <2>4, <3>2 DEF RefusalInv, RefusedMeansRevoked
  <2> QED BY <2>5, <2>6
<1>23. ASSUME NEW r \in Requests, PassOn(r) PROVE RefusalInv'
  <2>1. requests[r].revocation
    BY <1>1, <1>23 DEF PassOn, RefusalInv, RefusalOf, Undisturbed, RequestStates
  <2>2. Becomes(r, Ended(r, "refused", requests[r].effects))
    BY <1>23 DEF PassOn, Over
  <2> QED BY <1>4, <1>5, <1>23, <2>1, <2>2 DEF PassOn, strategyVars
<1>24. ASSUME NEW r \in Requests, Cancel(r) PROVE RefusalInv'
  <2>1. CASE Becomes(r, [requests[r] EXCEPT !.aborted = TRUE])
    <3> DEFINE state == [requests[r] EXCEPT !.aborted = TRUE]
    <3>1. /\ state.at = requests[r].at /\ state.tag = requests[r].tag /\ state.token = requests[r].token
          /\ state.retried = requests[r].retried /\ state.revocation = requests[r].revocation
          /\ state.end = requests[r].end /\ state.fetch = requests[r].fetch
      BY <1>1 DEF RequestStates
    <3>2. Becomes(r, state)
      BY <2>1
    <3> HIDE DEF state
    <3>3. RefusalOf(state) /\ (state.end = "refused" => state.revocation)
      BY <3>1 DEF RefusalInv, RefusalOf, Undisturbed, RefusedMeansRevoked
    <3>4. state.at = "waiting" => state.fetch \in Fetches
      BY <1>1, <3>1 DEF WaitInv, RequestStates
    <3> QED BY <1>3, <1>24, <3>1, <3>2, <3>3, <3>4, RefusalKept DEF Cancel, strategyVars
  <2> QED BY <1>6, <1>24, <2>1 DEF Cancel, Over, strategyVars
<1>25. CASE UNCHANGED vars
  BY <1>3, <1>25, RefusalAlone DEF vars, strategyVars
<1> QED BY <1>8, <1>9, <1>11, <1>12, <1>13, <1>14, <1>15, <1>16, <1>17, <1>18, <1>19, <1>20, <1>21, <1>22, <1>23, <1>24, <1>25 DEF Next

----------------------------------------------------------------------------
(* What a refusal throws away *)

\* A step of one call that touches no credential.
LEMMA KeptStays ==
  ASSUME TypeOK, KeptInv, NEW r \in Requests, NEW state, Becomes(r, state),
         UNCHANGED <<generation, epoch, cached, expired, fetches, lapsed>>,
         ~lapsed => KeptCall(state)
  PROVE  KeptInv'
<1> SUFFICES ASSUME ~lapsed
             PROVE  KeptInv'
  BY DEF KeptInv
<1>1. \A q \in Requests : requests'[q] = IF q = r THEN state ELSE requests[q]
  BY DEF Becomes, TypeOK
<1>2. ASSUME NEW q \in Requests PROVE KeptCall(requests[q])'
  <2>1. KeptCall(requests'[q])
    BY <1>1 DEF KeptInv
  <2> QED BY <2>1 DEF KeptCall
<1>3. ASSUME NEW f \in Fetches PROVE KeptFetch(f)'
  BY DEF KeptInv, KeptFetch
<1> QED BY <1>2, <1>3 DEF KeptInv

\* The fetches when nothing about them changes.
LEMMA KeptAlone ==
  ASSUME KeptInv, UNCHANGED <<generation, epoch, cached, expired, fetches, lapsed, requests>>
  PROVE  KeptInv'
<1>1. ASSUME NEW f \in Fetches, KeptFetch(f) PROVE KeptFetch(f)'
  BY <1>1 DEF KeptFetch
<1>2. ASSUME NEW r \in Requests, KeptCall(requests[r]) PROVE KeptCall(requests[r])'
  BY <1>2 DEF KeptCall
<1> QED BY <1>1, <1>2 DEF KeptInv

\* Until a credential lapses, calls and fetches agree with the cache.
LEMMA KeptStep ==
  TypeOK /\ FetchInv /\ WaitInv /\ KeptInv /\ [Next]_vars => KeptInv'
<1> SUFFICES ASSUME TypeOK, FetchInv, WaitInv, KeptInv, [Next]_vars PROVE KeptInv'
  OBVIOUS
<1> USE OutboundAssumption
<1>1. \A r \in Requests : requests[r] \in RequestStates
  BY DEF TypeOK
<1>2. \A f \in Fetches : fetches[f] \in FetchStates
  BY DEF TypeOK
<1> DEFINE Alone == UNCHANGED <<generation, epoch, cached, expired, fetches, lapsed>>
<1>3. ASSUME Alone, NEW r \in Requests, NEW end, NEW effects, Becomes(r, Ended(r, end, effects)) PROVE KeptInv'
  <2>1. KeptCall(Ended(r, end, effects))
    BY DEF KeptCall, Ended, NotMade
  <2> QED BY <1>3, <2>1, KeptStays
<1>4. ASSUME Alone, NEW r \in Requests, NEW rest, requests[r].at \in {"holding", "backoff"}, Attempt(r, rest)
      PROVE  KeptInv'
  <2> DEFINE state == [requests[r] EXCEPT !.at = "sent", !.left = rest, !.sends = @ + 1]
  <2>1. state.at = "sent" /\ state.tag = requests[r].tag /\ state.token = requests[r].token
    BY <1>1 DEF RequestStates
  <2>2. ~lapsed => KeptCall(state)
    <3> HIDE DEF state
    <3> QED BY <1>4, <2>1 DEF KeptInv, KeptCall
  <2>3. CASE Becomes(r, state)
    BY <1>4, <2>2, <2>3, KeptStays
  <2> QED BY <1>3, <1>4, <2>3 DEF Attempt, Over
<1>5. CASE Expire
  BY <1>5 DEF Expire, KeptInv
<1>6. CASE Revoke
  <2> SUFFICES ASSUME ~lapsed PROVE KeptInv'
    BY <1>6 DEF Revoke, KeptInv
  <2>1. /\ Revoked(cached) # "blank" /\ Revoked(None) = None
        /\ \A token \in Credentials \cup {None} :
             /\ token # None => Revoked(token) # None
             /\ token # "blank" => Revoked(token) # "blank"
    BY DEF Revoked, KeptInv, Credentials
  <2>2. /\ cached' = Revoked(cached) /\ cached \in Credentials \cup {None}
        /\ UNCHANGED <<generation, epoch, expired, lapsed>>
    BY <1>6 DEF Revoke, TypeOK
  <2>3. \A f \in Fetches : /\ fetches'[f].at = fetches[f].at
                           /\ fetches'[f].epoch = fetches[f].epoch
                           /\ fetches'[f].token = Revoked(fetches[f].token)
                           /\ fetches[f].token \in Credentials \cup {None}
    BY <1>2, <1>6 DEF Revoke, FetchStates
  <2>4. ASSUME NEW f \in Fetches PROVE KeptFetch(f)'
    <3>1. KeptFetch(f)
      BY DEF KeptInv
    <3> HIDE DEF Credentials
    <3> QED BY <2>1, <2>2, <2>3, <3>1 DEF KeptFetch
  <2>5. ASSUME NEW r \in Requests PROVE KeptCall(requests[r])'
    <3>1. KeptCall(requests[r])
      BY DEF KeptInv
    <3>2. CASE ~UnderWay(r)
      <4>1. requests'[r] = requests[r]
        BY <1>6, <3>2 DEF Revoke
      <4> QED BY <3>1, <3>2, <4>1 DEF KeptCall, UnderWay
    <3>3. CASE UnderWay(r)
      <4>1. /\ requests'[r].at = requests[r].at /\ requests'[r].tag = requests[r].tag
            /\ requests'[r].fetch = requests[r].fetch
            /\ requests'[r].token = Revoked(requests[r].token)
            /\ requests[r].token \in Credentials \cup {None}
            /\ requests[r].fetch \in Fetches \cup {None}
        BY <1>1, <1>6, <3>3 DEF Revoke, RequestStates
      <4>2. Revoked("revoked") = "revoked"
        BY DEF Revoked
      <4>3. requests[r].at = "waiting" => requests[r].fetch \in Fetches
        BY <4>1 DEF WaitInv
      <4> HIDE DEF Credentials
      <4> QED BY <2>1, <2>2, <2>3, <3>1, <4>1, <4>2, <4>3 DEF KeptCall
    <3> QED BY <3>2, <3>3
  <2> QED BY <2>1, <2>2, <2>4, <2>5 DEF KeptInv
<1>7. ASSUME NEW f \in Fetches, Mint(f) \/ Unanswered(f) PROVE KeptInv'
  <2> SUFFICES ASSUME ~lapsed PROVE KeptInv'
    BY <1>7 DEF Mint, Unanswered, KeptInv
  <2>1. /\ UNCHANGED <<generation, epoch, cached, expired, lapsed, requests>>
        /\ \A g \in Fetches : fetches'[g].epoch = fetches[g].epoch
        /\ \A g \in Fetches : g # f => fetches'[g] = fetches[g]
        /\ \/ fetches'[f].at = "minted" /\ fetches[f].at = "asked"
           \/ fetches'[f].at = "settled" /\ fetches[f].at \in {"asked", "minted"} /\ fetches'[f].token = None
    BY <1>2, <1>7 DEF Mint, Unanswered, strategyVars, FetchStates, TypeOK
  <2>2. ASSUME NEW g \in Fetches PROVE KeptFetch(g)'
    <3>1. KeptFetch(g) /\ KeptFetch(f)
      BY DEF KeptInv
    <3> QED BY <2>1, <3>1 DEF KeptFetch
  <2>3. ASSUME NEW r \in Requests PROVE KeptCall(requests[r])'
    <3>1. KeptCall(requests[r]) /\ (requests[r].at = "waiting" => requests[r].fetch \in Fetches)
      BY <1>1 DEF KeptInv, WaitInv, RequestStates
    <3> QED BY <2>1, <3>1 DEF KeptCall
  <2> QED BY <2>1, <2>2, <2>3 DEF KeptInv
<1>8. ASSUME NEW f \in Fetches, Answered(f) PROVE KeptInv'
  <2> SUFFICES ASSUME ~lapsed, fetches[f].token # "blank" PROVE KeptInv'
    BY <1>8 DEF Answered, KeptInv
  <2>1. /\ UNCHANGED <<generation, epoch, lapsed, requests>> /\ ~expired'
        /\ \A g \in Fetches : g # f => fetches'[g] = fetches[g]
        /\ fetches'[f].at = "settled" /\ fetches'[f].epoch = fetches[f].epoch
        /\ fetches'[f].token = fetches[f].token
        /\ fetches[f].at = "minted"
    BY <1>2, <1>8 DEF Answered, FetchStates, TypeOK, KeptInv
  <2>2. IF fetches[f].epoch = epoch THEN cached = None /\ cached' = fetches[f].token ELSE cached' = cached
    BY <1>8 DEF Answered, KeptInv, KeptFetch
  <2>3. cached' # "blank"
    BY <2>2 DEF KeptInv
  <2>4. ASSUME NEW g \in Fetches PROVE KeptFetch(g)'
    <3>1. CASE g = f
      BY <2>1, <2>2, <3>1 DEF KeptFetch
    <3>2. CASE g # f /\ fetches[f].epoch = epoch
      <4>1. fetches[g].at \notin {"asked", "minted", "settled"} \/ fetches[g].epoch # epoch
        BY <2>1, <3>2 DEF FetchInv
      <4>2. fetches[g].at = "settled" => fetches[g].token # "blank"
        BY DEF KeptInv, KeptFetch
      <4> QED BY <2>1, <3>2, <4>1, <4>2 DEF KeptFetch
    <3>3. CASE g # f /\ fetches[f].epoch # epoch
      BY <2>1, <2>2, <3>3 DEF KeptInv, KeptFetch
    <3> QED BY <3>1, <3>2, <3>3
  <2>5. ASSUME NEW r \in Requests PROVE KeptCall(requests[r])'
    <3>1. KeptCall(requests[r]) /\ (requests[r].at = "waiting" => requests[r].fetch \in Fetches)
      BY <1>1 DEF KeptInv, WaitInv, RequestStates
    <3>2. \A g \in Fetches : fetches'[g].epoch = fetches[g].epoch
      BY <2>1
    <3> QED BY <2>1, <2>2, <3>1, <3>2 DEF KeptCall
  <2> QED BY <2>1, <2>3, <2>4, <2>5 DEF KeptInv
<1>9. ASSUME NEW f \in Fetches, Forget(f) PROVE KeptInv'
  <2> SUFFICES ASSUME ~lapsed PROVE KeptInv'
    BY <1>9 DEF Forget, KeptInv
  <2>1. /\ UNCHANGED <<generation, epoch, cached, expired, lapsed>>
        /\ \A g \in Fetches : fetches'[g] = IF g = f THEN NoFetch ELSE fetches[g]
    BY <1>9 DEF Forget, TypeOK
  <2>2. ASSUME NEW g \in Fetches PROVE KeptFetch(g)'
    BY <2>1 DEF KeptInv, KeptFetch, NoFetch
  <2>3. ASSUME NEW r \in Requests PROVE KeptCall(requests[r])'
    <3>1. requests'[r] = Settled(f, r) /\ KeptCall(requests[r])
      BY <1>9 DEF Forget, KeptInv
    <3>2. requests[r].at = "waiting" => requests[r].fetch \in Fetches
      BY <1>1 DEF WaitInv, RequestStates
    <3>3. CASE requests[r].fetch # f
      <4>1. requests'[r] = requests[r]
        BY <3>1, <3>3 DEF Settled
      <4> QED BY <2>1, <3>1, <3>2, <3>3, <4>1 DEF KeptCall
    <3>4. CASE requests[r].fetch = f /\ fetches[f].token = None
      BY <3>1, <3>4 DEF Settled, Ended, NotMade, KeptCall
    <3>5. CASE requests[r].fetch = f /\ fetches[f].token # None
      <4>1. /\ requests'[r].at = "holding" /\ requests'[r].token = fetches[f].token
            /\ requests'[r].tag = requests[r].tag
        BY <1>1, <3>1, <3>5 DEF Settled, RequestStates
      <4>2. requests[r].at = "waiting"
        BY <3>5 DEF WaitInv
      <4>3. fetches[f].token # "blank" /\ (fetches[f].epoch = epoch => cached = fetches[f].token) /\ epoch = generation
        BY <1>9 DEF Forget, KeptInv, KeptFetch
      <4> QED BY <2>1, <3>1, <3>5, <4>1, <4>2, <4>3 DEF KeptCall
    <3> QED BY <3>3, <3>4, <3>5
  <2> QED BY <2>1, <2>2, <2>3 DEF KeptInv
<1>10. ASSUME NEW r \in Requests, Tag(r) PROVE KeptInv'
  <2>1. generation \in Nat /\ UNCHANGED <<generation, epoch, cached, expired, lapsed>>
    BY <1>10 DEF TypeOK, Tag
  <2>2. CASE UseCached(r)
    <3> DEFINE state == [requests[r] EXCEPT !.at = "holding", !.tag = generation, !.tries = Wrap(r), !.token = cached]
    <3>1. state.at = "holding" /\ state.tag = generation /\ state.token = cached
      BY <1>1 DEF RequestStates
    <3>2. ~lapsed => KeptCall(state)
      <4> HIDE DEF state
      <4> QED BY <2>1, <2>2, <3>1 DEF UseCached, Usable, KeptInv, KeptCall
    <3> QED BY <2>1, <2>2, <3>2, KeptStays DEF UseCached
  <2>3. CASE Join(r)
    <3> DEFINE state == [requests[r] EXCEPT !.at = "waiting", !.tag = generation, !.tries = Wrap(r), !.fetch = inFlight]
    <3>1. state.at = "waiting" /\ state.tag = generation /\ state.fetch = inFlight /\ state.token = requests[r].token
      BY <1>1 DEF RequestStates
    <3>2. ~lapsed => KeptCall(state)
      <4> HIDE DEF state
      <4> QED BY <2>1, <2>3, <3>1 DEF Join, Joinable, KeptInv, KeptCall
    <3> QED BY <2>1, <2>3, <3>2, KeptStays DEF Join, Await
  <2>4. CASE Fetch(r)
    <3> SUFFICES ASSUME ~lapsed PROVE KeptInv'
      BY <2>1 DEF KeptInv
    <3> DEFINE state == [requests[r] EXCEPT !.at = "waiting", !.tag = generation, !.tries = Wrap(r), !.fetch = Free]
    <3>1. state.at = "waiting" /\ state.tag = generation /\ state.fetch = Free /\ state.token = requests[r].token
      BY <1>1 DEF RequestStates
    <3>2. Free \in Fetches /\ fetches[Free].at = "idle" /\ fetches[Free] = NoFetch
      BY <2>4 DEF Fetch, Free, FetchInv
    <3>3. fetches'[Free].at = "asked" /\ fetches'[Free].epoch = epoch /\ fetches'[Free].token = fetches[Free].token
      BY <1>2, <2>4, <3>2 DEF Fetch, FetchStates, TypeOK
    <3>4. \A g \in Fetches : g # Free => fetches'[g] = fetches[g]
      BY <2>4, <3>2 DEF Fetch, TypeOK
    <3>5. \A q \in Requests : requests'[q] = IF q = r THEN state ELSE requests[q]
      BY <2>4 DEF Fetch, Await, Becomes, TypeOK
    <3>6. cached = None /\ epoch = generation
      BY <2>4 DEF Fetch, Usable, KeptInv
    <3> HIDE DEF state, Free
    <3>7. ASSUME NEW g \in Fetches PROVE KeptFetch(g)'
      BY <2>1, <3>3, <3>4, <3>6 DEF KeptInv, KeptFetch
    <3>8. ASSUME NEW q \in Requests PROVE KeptCall(requests[q])'
      <4>1. KeptCall(requests[q]) /\ KeptCall(requests[r])
        BY DEF KeptInv
      <4>2. CASE q = r
        <5>1. requests'[q].at = "waiting" /\ requests'[q].tag = generation /\ requests'[q].fetch = Free
              /\ requests'[q].token # "blank"
          BY <3>1, <3>5, <4>1, <4>2 DEF KeptCall
        <5>2. fetches'[requests'[q].fetch].epoch = generation
          BY <3>3, <3>6, <5>1
        <5> QED BY <2>1, <5>1, <5>2 DEF KeptCall
      <4>3. CASE q # r
        <5>1. requests'[q] = requests[q]
          BY <3>5, <4>3
        <5>2. requests[q].at = "waiting" => fetches'[requests[q].fetch] = fetches[requests[q].fetch]
          BY <1>1, <3>2, <3>4 DEF WaitInv, RequestStates
        <5> QED BY <2>1, <4>1, <5>1, <5>2 DEF KeptCall
      <4> QED BY <4>2, <4>3
    <3> QED BY <2>1, <3>7, <3>8 DEF KeptInv
  <2> QED BY <1>10, <2>2, <2>3, <2>4 DEF Tag
<1>11. ASSUME NEW r \in Requests, Reject(r) PROVE KeptInv'
  BY <1>11 DEF Reject, KeptInv, KeptCall
<1>12. ASSUME NEW r \in Requests, Dispatch(r) PROVE KeptInv'
  BY <1>3, <1>4, <1>12 DEF Dispatch, Over, strategyVars
<1>13. ASSUME NEW r \in Requests, Retry(r) PROVE KeptInv'
  BY <1>4, <1>13 DEF Retry, strategyVars
<1>14. ASSUME NEW r \in Requests, Succeed(r) PROVE KeptInv'
  BY <1>3, <1>14 DEF Succeed, strategyVars
<1>15. ASSUME NEW r \in Requests, Refuse(r) PROVE KeptInv'
  <2> DEFINE state == [requests[r] EXCEPT !.at = "answered", !.token = None, !.left = 0]
  <2>1. state.at = "answered" /\ state.tag = requests[r].tag /\ state.token = None
    BY <1>1 DEF RequestStates
  <2>2. Becomes(r, state)
    BY <1>15 DEF Refuse
  <2> HIDE DEF state
  <2>3. ~lapsed => KeptCall(state)
    BY <1>15, <2>1 DEF Refuse, KeptInv, KeptCall
  <2> QED BY <1>15, <2>2, <2>3, KeptStays DEF Refuse, strategyVars
<1>16. ASSUME NEW r \in Requests, Fail(r) PROVE KeptInv'
  <2>1. ASSUME NEW effects, Becomes(r, [requests[r] EXCEPT !.at = "backoff", !.effects = effects]) PROVE KeptInv'
    <3> DEFINE state == [requests[r] EXCEPT !.at = "backoff", !.effects = effects]
    <3>1. state.at = "backoff" /\ state.tag = requests[r].tag /\ state.token = requests[r].token
      BY <1>1 DEF RequestStates
    <3> HIDE DEF state
    <3>2. ~lapsed => KeptCall(state)
      BY <1>16, <3>1 DEF Fail, KeptInv, KeptCall
    <3> QED BY <1>16, <2>1, <3>2, KeptStays DEF Fail, strategyVars, state
  <2> QED BY <1>3, <1>16, <2>1 DEF Fail, strategyVars
<1>17. ASSUME NEW r \in Requests, TimeOut(r) PROVE KeptInv'
  BY <1>3, <1>17 DEF TimeOut, strategyVars
<1>18. ASSUME NEW r \in Requests, Replay(r) PROVE KeptInv'
  <2> SUFFICES ASSUME ~lapsed PROVE KeptInv'
    BY <1>18 DEF Replay, KeptInv
  <2> DEFINE state == [requests[r] EXCEPT !.at = "replaying", !.retried = TRUE]
  <2>1. state.at = "replaying" /\ state.tag = requests[r].tag /\ state.token = requests[r].token
    BY <1>1 DEF RequestStates
  <2>2. Becomes(r, state) /\ \A q \in Requests : requests'[q] = IF q = r THEN state ELSE requests[q]
    BY <1>18 DEF Replay, Becomes, TypeOK
  <2> HIDE DEF state
  <2>3. requests[r].at = "answered" /\ UNCHANGED <<fetches, lapsed>>
    BY <1>18 DEF Replay
  <2>4. CASE requests[r].tag # generation
    <3>1. KeptCall(state)
      BY <2>1, <2>3 DEF KeptInv, KeptCall
    <3> QED BY <1>18, <2>2, <2>3, <2>4, <3>1, KeptStays DEF Replay, Refresh
  <2>5. CASE requests[r].tag = generation
    <3>1. /\ generation' = generation + 1 /\ epoch' = epoch + 1 /\ cached' = None /\ ~expired'
          /\ epoch = generation /\ generation \in Nat
      BY <1>18, <2>5 DEF Replay, Refresh, Invalidate, KeptInv, TypeOK
    <3>2. ASSUME NEW f \in Fetches PROVE KeptFetch(f)'
      <4>1. fetches[f].epoch \in Nat /\ (fetches[f].at # "idle" => fetches[f].epoch <= epoch) /\ KeptFetch(f)
        BY <1>2 DEF FetchStates, FetchInv, KeptInv
      <4> QED BY <2>3, <3>1, <4>1 DEF KeptFetch
    <3>3. ASSUME NEW q \in Requests PROVE KeptCall(requests[q])'
      <4>1. KeptCall(requests[q]) /\ KeptCall(requests[r]) /\ requests[q].tag \in Nat /\ requests[r].tag \in Nat
        BY <1>1 DEF KeptInv, RequestStates
      <4>2. requests'[q] = requests[q] \/ requests'[q] = state
        BY <2>2
      <4> QED BY <2>1, <2>3, <3>1, <4>1, <4>2 DEF KeptCall
    <3> QED BY <2>3, <3>1, <3>2, <3>3 DEF KeptInv
  <2> QED BY <2>4, <2>5
<1>19. ASSUME NEW r \in Requests, PassOn(r) PROVE KeptInv'
  BY <1>3, <1>19 DEF PassOn, Over, strategyVars
<1>20. ASSUME NEW r \in Requests, Cancel(r) PROVE KeptInv'
  <2>1. CASE Becomes(r, [requests[r] EXCEPT !.aborted = TRUE])
    <3> DEFINE state == [requests[r] EXCEPT !.aborted = TRUE]
    <3>1. /\ state.at = requests[r].at /\ state.tag = requests[r].tag /\ state.token = requests[r].token
          /\ state.fetch = requests[r].fetch
      BY <1>1 DEF RequestStates
    <3> HIDE DEF state
    <3>2. ~lapsed => KeptCall(state)
      BY <3>1 DEF KeptInv, KeptCall
    <3> QED BY <1>20, <2>1, <3>2, KeptStays DEF Cancel, strategyVars, state
  <2> QED BY <1>3, <1>20, <2>1 DEF Cancel, Over, strategyVars
<1>21. CASE UNCHANGED vars
  BY <1>21, KeptAlone DEF vars, strategyVars
<1> QED BY <1>5, <1>6, <1>7, <1>8, <1>9, <1>10, <1>11, <1>12, <1>13, <1>14, <1>15, <1>16, <1>17, <1>18, <1>19, <1>20, <1>21 DEF Next

----------------------------------------------------------------------------
(* Theorems *)

\* The inductive invariant.
OutboundInv == TypeOK /\ FetchInv /\ WaitInv /\ CallsInv /\ RefusalInv /\ KeptInv

\* It holds to begin with,
LEMMA OutboundInit == Init => OutboundInv
<1> SUFFICES ASSUME Init PROVE OutboundInv
  OBVIOUS
<1> USE OutboundAssumption
<1>1. NotMade \in RequestStates
  BY DEF NotMade, RequestStates, Ends
<1>2. NoFetch \in FetchStates
  BY DEF NoFetch, FetchStates
<1>3. TypeOK
  BY <1>1, <1>2 DEF Init, TypeOK
<1>4. FetchInv /\ WaitInv
  BY DEF Init, FetchInv, WaitInv, SingleFlight, NoFetch, NotMade
<1>5. CallsInv
  <2> SUFFICES ASSUME NEW r \in Requests PROVE CallInv(requests[r], Attempts(r))
    BY DEF CallsInv
  <2>1. requests[r].at = "idle" /\ requests[r].sends = 0 /\ requests[r].effects = 0 /\ ~requests[r].retried
    BY DEF Init, NotMade
  <2> QED BY <2>1, AttemptsType DEF CallInv
<1>6. RefusalInv
  BY DEF Init, RefusalInv, RefusalOf, Undisturbed, RefusedMeansRevoked, NotMade
<1>7. KeptInv
  BY DEF Init, KeptInv, KeptFetch, KeptCall, NotMade, NoFetch
<1> QED BY <1>3, <1>4, <1>5, <1>6, <1>7 DEF OutboundInv

\* and every step keeps it.
LEMMA OutboundInvStep == OutboundInv /\ [Next]_vars => OutboundInv'
  BY TypeStep, FetchStep, WaitStep, CallsStep, RefusalStep, KeptStep DEF OutboundInv

LEMMA OutboundInvariance == Spec => []OutboundInv
  BY OutboundInit, OutboundInvStep, PTL DEF Spec

\* Calls, fetches and the cache are what the declarations of the strategy say.
THEOREM TypeCorrect == Spec => []TypeOK
<1>1. OutboundInv => TypeOK
  BY DEF OutboundInv
<1> QED BY <1>1, OutboundInvariance, PTL

\* getCredentials: no two fetches of one cache epoch are ever under way.
THEOREM OneFetchPerEpoch == Spec => []SingleFlight
<1>1. OutboundInv => SingleFlight
  BY DEF OutboundInv, FetchInv
<1> QED BY <1>1, OutboundInvariance, PTL

\* The replay behind a 401 is enough unless the credential it was given was itself revoked.
THEOREM ReplayIsEnough == Spec => []RefusedMeansRevoked
<1>1. OutboundInv => RefusedMeansRevoked
  BY DEF OutboundInv, RefusalInv
<1> QED BY <1>1, OutboundInvariance, PTL

\* mayRetry: what may not be repeated takes effect once at most.
THEOREM WritesOnce == Spec => []NoSecondWrite
<1>1. OutboundInv => NoSecondWrite
  <2> SUFFICES ASSUME OutboundInv, NEW r \in Requests \ Repeatable PROVE requests[r].effects <= 1
    BY DEF NoSecondWrite
  <2>1. requests[r].effects \in Nat /\ CallInv(requests[r], Attempts(r)) /\ Attempts(r) = 1
    BY DEF OutboundInv, TypeOK, RequestStates, CallsInv, Attempts
  <2> QED BY <2>1 DEF CallInv
<1> QED BY <1>1, OutboundInvariance, PTL

\* Retry and replay compose to two passes of one policy, whatever the retry count.
THEOREM WithinBudget == Spec => []WireBudget
<1>1. OutboundInv => WireBudget
  <2> SUFFICES ASSUME OutboundInv, NEW r \in Requests
               PROVE  requests[r].sends <= IF r \in Repeatable THEN 2 * (1 + RetryCount) ELSE 2
    BY DEF WireBudget
  <2>1. requests[r].sends <= 2 * Attempts(r) /\ requests[r].sends \in Nat
    BY DEF OutboundInv, TypeOK, RequestStates, CallsInv, CallInv
  <2> QED BY <2>1, OutboundAssumption DEF Attempts
<1> QED BY <1>1, OutboundInvariance, PTL

\* A refusal throws no good credential away, however the siblings' refusals arrive.
THEOREM NoGoodCredentialLost == Spec => GoodCredentialKept
<1>1. OutboundInv /\ [Next]_vars => [\A r \in Requests : Replay(r) /\ ~lapsed /\ cached = "valid" => cached' = "valid"]_vars
  <2> SUFFICES ASSUME OutboundInv, NEW r \in Requests, Replay(r), ~lapsed, cached = "valid" PROVE cached' = "valid"
    OBVIOUS
  <2>1. requests[r].at = "answered" /\ KeptCall(requests[r])
    BY DEF OutboundInv, KeptInv, Replay
  <2> QED BY <2>1 DEF KeptCall, Replay, Refresh
<1> QED BY <1>1, OutboundInvariance, PTL DEF Spec, GoodCredentialKept

----------------------------------------------------------------------------
(* UpstreamCall: the breaker, the retries and the replay *)

UpStages == {"idle", "running", "held", "left", "backoff", "done"}
UpLasts == Upstream!Outcomes \cup {"none", "broken", "cancelled"}
UpAnswers == {"none", "data", "502", "503", "504"}
UpCounters == [state : {"closed", "open", "halfopen"}, ok : Nat, failed : Nat, cooled : BOOLEAN]
UpCallStates == [at : UpStages, start : {"none", "closed", "halfopen"}, attempt : Nat, replayed : BOOLEAN,
               last : UpLasts, answer : UpAnswers]

UpstreamTypes ==
  /\ upBreaker \in UpCounters
  /\ upCall \in [Calls -> UpCallStates]
  /\ passes \in Nat

\* An attempt that runs was let in by the breaker: closed, or as the trial.
UpEntered == \A c \in Calls : upCall[c].at = "running" => upCall[c].start \in {"closed", "halfopen"}

UpstreamInv == UpstreamTypes /\ UpEntered

UpAccounted == Upstream!Outcomes \cup {"cancelled"}

----------------------------------------------------------------------------
\* toHttpException: every outcome has an answer.
LEMMA UpTranslated == ASSUME NEW o \in UpLasts PROVE Upstream!Translate(o) \in UpAnswers
BY DEF UpLasts, UpAnswers, Upstream!Translate

\* The loop of execute and the response interceptor end the attempt and remember its outcome.
LEMMA UpEnded ==
  ASSUME UpstreamTypes, NEW c \in Calls, NEW o \in UpLasts
  PROVE  /\ Upstream!AfterAttempt(c, o) \in UpCallStates
         /\ Upstream!AfterAttempt(c, o).at # "running"
         /\ Upstream!AfterAttempt(c, o).last = o
<1> DEFINE k == [upCall[c] EXCEPT !.last = o]
<1>1. upCall[c] \in UpCallStates
  BY DEF UpstreamTypes
<1>2. k \in UpCallStates /\ k.last = o
  BY <1>1 DEF UpCallStates
<1> HIDE DEF k
<1> DEFINE again == [k EXCEPT !.at = "backoff", !.attempt = @ + 1]
           replay == [k EXCEPT !.at = "idle", !.attempt = 0, !.replayed = TRUE]
           answer == [k EXCEPT !.at = "done", !.answer = Upstream!Translate(o)]
<1>3. again \in UpCallStates /\ again.at # "running" /\ again.last = o
  <2>1. k.attempt + 1 \in Nat
    BY <1>2 DEF UpCallStates
  <2>2. \A n \in Nat : LET w == [k EXCEPT !.at = "backoff", !.attempt = n]
                       IN  w \in UpCallStates /\ w.at # "running" /\ w.last = o
    BY <1>2 DEF UpCallStates, UpStages
  <2> QED
    BY <2>1, <2>2
<1>4. replay \in UpCallStates /\ replay.at # "running" /\ replay.last = o
  BY <1>2 DEF UpCallStates, UpStages
<1>5. Upstream!Translate(o) \in UpAnswers
  BY UpTranslated
<1>6. answer \in UpCallStates /\ answer.at # "running" /\ answer.last = o
  BY <1>2, <1>5 DEF UpCallStates, UpStages
<1> HIDE DEF again, replay, answer
<1>7. Upstream!AfterAttempt(c, o) \in {again, replay, answer}
  BY DEF Upstream!AfterAttempt, k, again, replay, answer
<1> QED
  BY <1>3, <1>4, <1>6, <1>7

\* The counts of the breaker's window go up by one, or start anew.
LEMMA UpCounted ==
  ASSUME NEW b \in UpCounters
  PROVE  /\ [b EXCEPT !.failed = @ + 1] \in UpCounters
         /\ [b EXCEPT !.ok = @ + 1] \in UpCounters
         /\ [b EXCEPT !.cooled = FALSE, !.failed = @ + 1] \in UpCounters
         /\ \A m \in {0, 1} : [b EXCEPT !.ok = m, !.failed = 0] \in UpCounters
         /\ \A on \in BOOLEAN : [b EXCEPT !.cooled = on] \in UpCounters
<1>1. b.failed + 1 \in Nat /\ b.ok + 1 \in Nat
  BY DEF UpCounters
<1>2. \A n \in Nat : /\ [b EXCEPT !.failed = n] \in UpCounters
                     /\ [b EXCEPT !.ok = n] \in UpCounters
                     /\ [b EXCEPT !.cooled = FALSE, !.failed = n] \in UpCounters
  BY Zenon DEF UpCounters
<1>3. \A m, n \in Nat : [b EXCEPT !.ok = m, !.failed = n] \in UpCounters
  BY Zenon DEF UpCounters
<1>4. \A on \in BOOLEAN : [b EXCEPT !.cooled = on] \in UpCounters
  BY Zenon DEF UpCounters
<1> QED
  BY <1>1, <1>2, <1>3, <1>4

\* cockatiel's routing by the state an attempt started in: who closes the breaker, and who opens it.
LEMMA AccountFacts ==
  ASSUME UpstreamTypes, NEW start \in {"closed", "halfopen"}, NEW o \in UpAccounted
  PROVE  /\ Upstream!Account(start, o) \in UpCounters
         /\ upBreaker.state # "closed" /\ Upstream!Account(start, o).state = "closed" =>
              start = "halfopen" /\ o \in {"ok", "4xx", "401"}
         /\ upBreaker.state # "open" /\ Upstream!Account(start, o).state = "open" =>
              o \in {"5xx", "network"} \/ (start = "halfopen" /\ o \in {"timeout", "cancelled"})
<1> DEFINE worse == [upBreaker EXCEPT !.failed = @ + 1]
           better == [upBreaker EXCEPT !.ok = @ + 1]
           anew == [upBreaker EXCEPT !.ok = 1, !.failed = 0]
<1>1. upBreaker \in UpCounters
  BY DEF UpstreamTypes
<1>2. /\ worse \in UpCounters /\ worse.state = upBreaker.state
      /\ better \in UpCounters /\ better.state = upBreaker.state
      /\ anew \in UpCounters /\ anew.state = upBreaker.state
  <2>1. worse \in UpCounters /\ better \in UpCounters /\ anew \in UpCounters
    BY <1>1, UpCounted
  <2>2. worse.state = upBreaker.state /\ better.state = upBreaker.state /\ anew.state = upBreaker.state
    BY <1>1, Zenon DEF UpCounters
  <2> QED
    BY <2>1, <2>2
<1> HIDE DEF worse, better, anew
<1>3. ASSUME NEW b \in UpCounters
      PROVE  /\ Upstream!Opened(b) \in UpCounters /\ Upstream!Opened(b).state = "open"
             /\ Upstream!Closed(b) \in UpCounters
             /\ b.state # "open" => Upstream!Closed(b).state = "closed"
             /\ b.state = "open" => Upstream!Closed(b).state = "open"
  BY DEF UpCounters, Upstream!Opened, Upstream!Closed
<1>4. Upstream!Counts(start, o) => o \in {"5xx", "network"} \/ (start = "halfopen" /\ o \in {"timeout", "cancelled"})
  BY DEF Upstream!Counts, Upstream!Handled
<1>5. start = "halfopen" /\ ~Upstream!Counts(start, o) => o \in {"ok", "4xx", "401"}
  BY DEF Upstream!Counts, Upstream!Handled, UpAccounted, Upstream!Outcomes
<1>6. o = "ok" => ~Upstream!Counts(start, o)
  BY DEF Upstream!Counts, Upstream!Handled
<1>7. CASE start = "closed"
  <2>1. \/ Upstream!Account(start, o) \in {better, upBreaker, worse}
        \/ Upstream!Account(start, o) = Upstream!Opened(worse) /\ Upstream!Counts(start, o)
    BY <1>7 DEF Upstream!Account, worse, better
  <2>2. CASE Upstream!Account(start, o) \in {better, upBreaker, worse}
    BY <1>1, <1>2, <2>2
  <2>3. CASE Upstream!Account(start, o) = Upstream!Opened(worse) /\ Upstream!Counts(start, o)
    BY <1>2, <1>3, <1>4, <2>3
  <2> QED
    BY <2>1, <2>2, <2>3
<1>8. CASE start = "halfopen"
  <2>1. \/ Upstream!Account(start, o) = Upstream!Opened(worse) /\ Upstream!Counts(start, o)
        \/ Upstream!Account(start, o) \in {Upstream!Closed(anew), Upstream!Closed(upBreaker)} /\ ~Upstream!Counts(start, o)
    BY <1>6, <1>8 DEF Upstream!Account, worse, anew
  <2>2. CASE Upstream!Account(start, o) = Upstream!Opened(worse) /\ Upstream!Counts(start, o)
    BY <1>2, <1>3, <1>4, <2>2
  <2>3. CASE Upstream!Account(start, o) \in {Upstream!Closed(anew), Upstream!Closed(upBreaker)} /\ ~Upstream!Counts(start, o)
    <3>1. Upstream!Account(start, o) \in UpCounters
      BY <1>1, <1>2, <1>3, <2>3
    <3>2. upBreaker.state # "open" => Upstream!Account(start, o).state # "open"
      BY <1>1, <1>2, <1>3, <2>3
    <3> QED
      BY <1>5, <1>8, <2>3, <3>1, <3>2
  <2> QED
    BY <2>1, <2>2, <2>3
<1> QED
  BY <1>7, <1>8

----------------------------------------------------------------------------
\* What a step of a call does to the others: nothing.
LEMMA UpTyped ==
  ASSUME UpstreamInv, NEW c \in Calls, NEW k \in UpCallStates, upCall' = [upCall EXCEPT ![c] = k],
         k.at = "running" => k.start \in {"closed", "halfopen"},
         upBreaker' \in UpCounters, passes' \in Nat
  PROVE  UpstreamInv' /\ upCall'[c] = k
<1>1. upCall'[c] = k /\ \A d \in Calls \ {c} : upCall'[d] = upCall[d]
  BY DEF UpstreamInv, UpstreamTypes
<1>2. UpstreamTypes'
  BY DEF UpstreamInv, UpstreamTypes
<1>3. UpEntered'
  BY <1>1 DEF UpstreamInv, UpEntered
<1> QED
  BY <1>1, <1>2, <1>3 DEF UpstreamInv

\* What every step keeps, and what it says of the breaker.
UpstreamKept == UpstreamInv' /\ Upstream!ClosedByAnswer /\ Upstream!OpenedByFailure

\* The breaker's own steps neither close nor open it.
LEMMA BreakerStep == ASSUME UpstreamInv, Upstream!Cool \/ Upstream!WindowPasses PROVE UpstreamKept
<1>1. upBreaker' \in UpCounters /\ upBreaker'.state = upBreaker.state
  <2>1. upBreaker \in UpCounters
    BY DEF UpstreamInv, UpstreamTypes
  <2>2. CASE upBreaker' = [upBreaker EXCEPT !.cooled = TRUE]
    BY <2>1, <2>2, UpCounted DEF UpCounters
  <2>3. CASE upBreaker' = [upBreaker EXCEPT !.ok = 0, !.failed = 0]
    <3>1. upBreaker' \in UpCounters
      BY <2>1, <2>3, UpCounted
    <3> QED
      BY <2>1, <2>3, <3>1, Zenon DEF UpCounters
  <2> QED
    BY <2>2, <2>3 DEF Upstream!Cool, Upstream!WindowPasses
<1>2. UNCHANGED upCall /\ passes' \in Nat
  BY DEF Upstream!Cool, Upstream!WindowPasses, UpstreamInv, UpstreamTypes
<1> QED
  BY <1>1, <1>2 DEF UpstreamKept, UpstreamInv, UpstreamTypes, UpEntered, Upstream!ClosedByAnswer,
        Upstream!OpenedByFailure

\* One attempt enters: it runs only with the state it started in, and none closes or opens the breaker.
LEMMA AttemptStep == ASSUME UpstreamInv, NEW c \in Calls, Upstream!Attempt(c) PROVE UpstreamKept
<1>1. upCall[c] \in UpCallStates /\ upBreaker \in UpCounters /\ passes \in Nat
  BY DEF UpstreamInv, UpstreamTypes
<1>2. UNCHANGED passes
  BY DEF Upstream!Attempt
<1>3. CASE upBreaker.state = "closed"
  <2> DEFINE k == [upCall[c] EXCEPT !.at = "running", !.start = "closed"]
  <2>1. k \in UpCallStates /\ k.start = "closed"
    BY <1>1 DEF UpCallStates, UpStages
  <2>2. upCall' = [upCall EXCEPT ![c] = k] /\ UNCHANGED upBreaker
    BY <1>3 DEF Upstream!Attempt, UpstreamInv, UpstreamTypes
  <2> HIDE DEF k
  <2>3. UpstreamInv'
    BY <1>1, <1>2, <2>1, <2>2, UpTyped
  <2> QED
    BY <2>2, <2>3 DEF UpstreamKept, Upstream!ClosedByAnswer, Upstream!OpenedByFailure
<1>4. CASE upBreaker.state = "halfopen"
  <2> DEFINE k == [upCall[c] EXCEPT !.at = "held"]
  <2>1. k \in UpCallStates /\ k.at # "running"
    BY <1>1 DEF UpCallStates, UpStages
  <2>2. upCall' = [upCall EXCEPT ![c] = k] /\ UNCHANGED upBreaker
    BY <1>4 DEF Upstream!Attempt, UpstreamInv, UpstreamTypes
  <2> HIDE DEF k
  <2>3. UpstreamInv'
    BY <1>1, <1>2, <2>1, <2>2, UpTyped
  <2> QED
    BY <2>2, <2>3 DEF UpstreamKept, Upstream!ClosedByAnswer, Upstream!OpenedByFailure
<1>5. CASE upBreaker.state = "open" /\ upBreaker.cooled
  <2> DEFINE k == [upCall[c] EXCEPT !.at = "running", !.start = "halfopen"]
  <2>1. k \in UpCallStates /\ k.start = "halfopen"
    BY <1>1 DEF UpCallStates, UpStages
  <2>2. upCall' = [upCall EXCEPT ![c] = k] /\ upBreaker' = [upBreaker EXCEPT !.state = "halfopen"]
    BY <1>5 DEF Upstream!Attempt, UpstreamInv, UpstreamTypes
  <2>3. upBreaker' \in UpCounters /\ upBreaker'.state = "halfopen"
    BY <1>1, <2>2 DEF UpCounters
  <2> HIDE DEF k
  <2>4. UpstreamInv'
    BY <1>1, <1>2, <2>1, <2>2, <2>3, UpTyped
  <2> QED
    BY <2>3, <2>4 DEF UpstreamKept, Upstream!ClosedByAnswer, Upstream!OpenedByFailure
<1>6. CASE upBreaker.state = "open" /\ ~upBreaker.cooled
  <2>1. upCall' = [upCall EXCEPT ![c] = Upstream!AfterAttempt(c, "broken")] /\ UNCHANGED upBreaker
    BY <1>6 DEF Upstream!Attempt
  <2>2. Upstream!AfterAttempt(c, "broken") \in UpCallStates /\ Upstream!AfterAttempt(c, "broken").at # "running"
    BY UpEnded DEF UpstreamInv, UpLasts
  <2>3. UpstreamInv'
    BY <1>1, <1>2, <2>1, <2>2, UpTyped
  <2> QED
    BY <2>1, <2>3 DEF UpstreamKept, Upstream!ClosedByAnswer, Upstream!OpenedByFailure
<1> QED
  BY <1>1, <1>3, <1>4, <1>5, <1>6 DEF UpCounters

\* A running attempt that ends: the breaker is told its outcome by the state it started in.
LEMMA UpEndStep ==
  ASSUME UpstreamInv, NEW c \in Calls, NEW o \in UpAccounted, NEW k \in UpCallStates,
         upCall[c].at = "running", upBreaker' = Upstream!Account(upCall[c].start, o),
         upCall' = [upCall EXCEPT ![c] = k], k.at # "running", k.last = o, UNCHANGED passes
  PROVE  UpstreamKept
<1>1. upCall[c].start \in {"closed", "halfopen"}
  BY DEF UpstreamInv, UpEntered
<1>2. upBreaker' \in UpCounters
  BY <1>1, AccountFacts DEF UpstreamInv
<1>3. UpstreamInv' /\ upCall'[c] = k
  BY <1>2, UpTyped DEF UpstreamInv, UpstreamTypes
<1>4. upBreaker.state # "closed" /\ upBreaker'.state = "closed" =>
        upCall[c].start = "halfopen" /\ o \in {"ok", "4xx", "401"}
  BY <1>1, AccountFacts DEF UpstreamInv
<1>5. upBreaker.state # "open" /\ upBreaker'.state = "open" =>
        o \in {"5xx", "network"} \/ (upCall[c].start = "halfopen" /\ o \in {"timeout", "cancelled"})
  BY <1>1, AccountFacts DEF UpstreamInv
<1>6. Upstream!ClosedByAnswer
  BY <1>3, <1>4 DEF Upstream!ClosedByAnswer
<1>7. Upstream!OpenedByFailure
  BY <1>3, <1>5 DEF Upstream!OpenedByFailure
<1> QED
  BY <1>3, <1>6, <1>7 DEF UpstreamKept

\* The upstream's answer, or the policy's timeout.
LEMMA SettleStep == ASSUME UpstreamInv, NEW c \in Calls, Upstream!Settle(c) PROVE UpstreamKept
<1>1. PICK o \in Upstream!Outcomes : /\ upBreaker' = Upstream!Account(upCall[c].start, o)
                            /\ upCall' = [upCall EXCEPT ![c] = Upstream!AfterAttempt(c, o)]
  BY DEF Upstream!Settle
<1>2. o \in UpAccounted /\ o \in UpLasts
  BY DEF UpAccounted, UpLasts
<1>3. Upstream!AfterAttempt(c, o) \in UpCallStates /\ Upstream!AfterAttempt(c, o).at # "running" /\ Upstream!AfterAttempt(c, o).last = o
  BY <1>2, UpEnded DEF UpstreamInv
<1>4. upCall[c].at = "running" /\ UNCHANGED passes
  BY DEF Upstream!Settle
<1> QED
  BY <1>1, <1>2, <1>3, <1>4, UpEndStep

\* A caller that disconnects is answered "cancelled".
LEMMA CancelledTyped ==
  ASSUME UpstreamInv, NEW c \in Calls, NEW stage \in {"done", "left"}
  PROVE  LET k == [upCall[c] EXCEPT !.at = stage, !.last = "cancelled", !.answer = Upstream!Translate("cancelled")]
         IN  k \in UpCallStates /\ k.at # "running" /\ k.last = "cancelled"
<1>1. upCall[c] \in UpCallStates
  BY DEF UpstreamInv, UpstreamTypes
<1>2. Upstream!Translate("cancelled") \in UpAnswers
  BY UpTranslated DEF UpLasts
<1> QED
  BY <1>1, <1>2 DEF UpCallStates, UpStages, UpLasts

\* The client of this service disconnects during an attempt.
LEMMA CancelRunningStep == ASSUME UpstreamInv, NEW c \in Calls, Upstream!CancelRunning(c) PROVE UpstreamKept
<1> DEFINE k == [upCall[c] EXCEPT !.at = "done", !.last = "cancelled", !.answer = Upstream!Translate("cancelled")]
<1>1. /\ upCall[c].at = "running" /\ UNCHANGED passes
      /\ upBreaker' = Upstream!Account(upCall[c].start, "cancelled")
  BY DEF Upstream!CancelRunning
<1>2. upCall' = [upCall EXCEPT ![c] = k]
  BY DEF Upstream!CancelRunning, UpstreamInv, UpstreamTypes
<1>3. k \in UpCallStates /\ k.at # "running" /\ k.last = "cancelled"
  BY CancelledTyped
<1> HIDE DEF k
<1> QED
  BY <1>1, <1>2, <1>3, UpEndStep DEF UpAccounted

\* The client disconnects between attempts, or while its call is held: the breaker hears nothing.
LEMMA CancelWaitingStep == ASSUME UpstreamInv, NEW c \in Calls, Upstream!CancelWaiting(c) \/ Upstream!Leave(c) PROVE UpstreamKept
<1>1. UNCHANGED <<upBreaker, passes>>
  BY DEF Upstream!CancelWaiting, Upstream!Leave
<1>2. PICK stage \in {"done", "left"} :
        upCall' = [upCall EXCEPT ![c] = [upCall[c] EXCEPT !.at = stage, !.last = "cancelled", !.answer = Upstream!Translate("cancelled")]]
  BY DEF Upstream!CancelWaiting, Upstream!Leave, UpstreamInv, UpstreamTypes
<1> DEFINE k == [upCall[c] EXCEPT !.at = stage, !.last = "cancelled", !.answer = Upstream!Translate("cancelled")]
<1>3. k \in UpCallStates /\ k.at # "running"
  BY CancelledTyped
<1>4. upCall' = [upCall EXCEPT ![c] = k]
  BY <1>2
<1> HIDE DEF k
<1>5. UpstreamInv'
  BY <1>1, <1>3, <1>4, UpTyped DEF UpstreamInv, UpstreamTypes
<1> QED
  BY <1>1, <1>5 DEF UpstreamKept, Upstream!ClosedByAnswer, Upstream!OpenedByFailure

\* A parked attempt without a caller: as a trial it keeps the breaker open.
LEMMA UnparkStep == ASSUME UpstreamInv, NEW c \in Calls, Upstream!Unpark(c) PROVE UpstreamKept
<1> DEFINE k == [upCall[c] EXCEPT !.at = "done"]
<1>1. upCall[c] \in UpCallStates /\ upBreaker \in UpCounters /\ passes \in Nat
  BY DEF UpstreamInv, UpstreamTypes
<1>2. k \in UpCallStates /\ k.at # "running"
  BY <1>1 DEF UpCallStates, UpStages
<1>3. upCall' = [upCall EXCEPT ![c] = k] /\ UNCHANGED passes
  BY DEF Upstream!Unpark, UpstreamInv, UpstreamTypes
<1>4. upBreaker' \in {upBreaker, [upBreaker EXCEPT !.cooled = FALSE, !.failed = @ + 1]}
  <2>1. Upstream!Counts("halfopen", "cancelled")
    BY DEF Upstream!Counts
  <2> QED
    BY <2>1 DEF Upstream!Unpark
<1>5. upBreaker' \in UpCounters /\ upBreaker'.state = upBreaker.state
  <2>1. CASE upBreaker' = upBreaker
    BY <1>1, <2>1
  <2>2. CASE upBreaker' = [upBreaker EXCEPT !.cooled = FALSE, !.failed = @ + 1]
    <3>1. upBreaker' \in UpCounters
      BY <1>1, <2>2, UpCounted
    <3>2. upBreaker'.state = upBreaker.state
      BY <1>1, <2>2, Zenon DEF UpCounters
    <3> QED
      BY <3>1, <3>2
  <2> QED
    BY <1>4, <2>1, <2>2
<1> HIDE DEF k
<1>6. UpstreamInv'
  BY <1>1, <1>2, <1>3, <1>5, UpTyped
<1> QED
  BY <1>5, <1>6 DEF UpstreamKept, Upstream!ClosedByAnswer, Upstream!OpenedByFailure

----------------------------------------------------------------------------
\* A service starts with a closed breaker and no call.
LEMMA UpstreamInit == Upstream!Init => UpstreamInv
<1> SUFFICES ASSUME Upstream!Init PROVE UpstreamInv
  OBVIOUS
<1>1. Upstream!NoCall \in UpCallStates /\ Upstream!NoCall.at # "running"
  BY DEF Upstream!NoCall, UpCallStates, UpStages, UpLasts, UpAnswers
<1>2. UpstreamTypes
  BY <1>1 DEF Upstream!Init, UpstreamTypes, UpCounters
<1>3. UpEntered
  BY <1>1 DEF Upstream!Init, UpEntered
<1> QED
  BY <1>2, <1>3 DEF UpstreamInv

\* Every step keeps the invariant and judges the breaker by the attempt that ended.
LEMMA UpstreamSteps ==
  UpstreamInv /\ [Upstream!Next]_(Upstream!vars) =>
    /\ UpstreamInv' /\ [Upstream!ClosedByAnswer /\ Upstream!OpenedByFailure]_(Upstream!vars)
    /\ Upstream!Next => UpstreamKept
<1> SUFFICES ASSUME UpstreamInv, [Upstream!Next]_(Upstream!vars)
             PROVE  /\ UpstreamInv' /\ [Upstream!ClosedByAnswer /\ Upstream!OpenedByFailure]_(Upstream!vars)
                    /\ Upstream!Next => UpstreamKept
  OBVIOUS
<1>1. Upstream!Next => UpstreamKept
  BY BreakerStep, AttemptStep, SettleStep, CancelRunningStep, CancelWaitingStep, UnparkStep DEF Upstream!Next
<1>2. CASE UNCHANGED Upstream!vars
  <2>1. UpstreamInv'
    BY <1>2 DEF Upstream!vars, UpstreamInv, UpstreamTypes, UpEntered
  <2> QED
    BY <1>1, <1>2, <2>1
<1>3. CASE Upstream!Next
  BY <1>1, <1>3 DEF UpstreamKept
<1> QED
  BY <1>2, <1>3

\* The breaker's counts and every call are what ResiliencePolicy and cockatiel keep of them.
THEOREM UpstreamTypeCorrect == Upstream!Spec => []UpstreamTypes
<1>1. UpstreamInv => UpstreamTypes
  BY DEF UpstreamInv
<1> QED
  BY <1>1, UpstreamInit, UpstreamSteps, PTL DEF Upstream!Spec

\* However many calls share a breaker, and whichever leave, only a trial's own answer closes it, and only the
\* upstream's failure, or a trial without an answer, opens it.
THEOREM BreakerStaysHonest == Upstream!Spec => Upstream!BreakerHonest
<1> QED
  BY UpstreamInit, UpstreamSteps, PTL DEF Upstream!Spec, Upstream!BreakerHonest

----------------------------------------------------------------------------
(* ServiceHealth: probes, the flight they share, and the shutdown *)

HealthResults == {"none", "pass", "warn", "fail"}
HealthFlights(checks) == [on : BOOLEAN, at : Nat, result : [checks -> HealthResults], read : [checks -> Nat]]
HealthCaches(checks) == [has : BOOLEAN, at : Nat, result : [checks -> HealthResults], read : [checks -> Nat]]
HealthProbes == [at : {"none", "asking", "told", "cut"}, kind : {"none", "live", "ready", "detail"}, since : Nat,
                 code : {0, 200, 503}, fresh : BOOLEAN]
Shutdowns == [at : {"up", "draining", "stopping", "stopped", "failed", "exited"}, since : Nat]

HealthTypes ==
  /\ healthNow \in Nat
  /\ flight \in HealthFlights(Health!Checks)
  /\ healthCached \in HealthCaches(Health!Checks)
  /\ probe \in [Probes -> HealthProbes]
  /\ shutdown \in Shutdowns
  /\ crashed \in BOOLEAN
  /\ teardowns \in Nat

\* A flight is under its deadline, at which nothing of it is left open; what it saw, it saw since it began.
FlightInTime(f, t) ==
  f.on => /\ f.at <= t /\ t <= f.at + CheckTimeout
          /\ t = f.at + CheckTimeout => \A c \in DOMAIN f.result : f.result[c] # "none"
          /\ \A c \in DOMAIN f.result : f.result[c] # "none" => f.at <= f.read[c]

\* What is kept was seen in the flight it ended.
CacheInTime(k, t) ==
  k.has => k.at <= t /\ \A c \in DOMAIN k.read : k.at <= k.read[c] + CheckTimeout

\* Who waits, waits for the flight under way.
WaitsForFlight(q, f, t) ==
  /\ q.fresh
  /\ q.at = "asking" => f.on /\ f.at <= q.since /\ q.since <= t

\* Nothing is torn down before the drain, and once only unless an error was caught.
ShutdownOrder ==
  /\ shutdown.since <= healthNow
  /\ shutdown.at \in {"stopping", "stopped"} => healthNow - shutdown.since >= DrainDelay
  /\ ~crashed => teardowns <= 1 /\ (shutdown.at \in {"up", "draining"} => teardowns = 0)

HealthInv ==
  /\ HealthTypes
  /\ FlightInTime(flight, healthNow)
  /\ CacheInTime(healthCached, healthNow)
  /\ \A p \in Probes : WaitsForFlight(probe[p], flight, healthNow)
  /\ ShutdownOrder

\* A process that just started.
LEMMA HealthInit == Health!Init => HealthInv
<1> SUFFICES ASSUME Health!Init PROVE HealthInv
  OBVIOUS
<1>1. /\ healthNow = 0 /\ flight = Health!NoFlight /\ healthCached = Health!NoCache
      /\ probe = [p \in Probes |-> Health!NoProbe] /\ shutdown = [at |-> "up", since |-> 0]
      /\ crashed = FALSE /\ teardowns = 0
  BY DEF Health!Init
<1>2. HealthTypes
  BY <1>1 DEF HealthTypes, HealthFlights, HealthCaches, HealthProbes, Shutdowns, HealthResults, Health!NoFlight,
              Health!NoCache, Health!NoProbe
<1>3. FlightInTime(flight, healthNow) /\ CacheInTime(healthCached, healthNow)
  BY <1>1 DEF FlightInTime, CacheInTime, Health!NoFlight, Health!NoCache
<1>4. \A p \in Probes : WaitsForFlight(probe[p], flight, healthNow)
  BY <1>1 DEF WaitsForFlight, Health!NoProbe
<1>5. ShutdownOrder
  BY <1>1, PlatformAssumption DEF ShutdownOrder
<1> QED
  BY <1>2, <1>3, <1>4, <1>5 DEF HealthInv

\* What is told from an evaluation is fresh when what it saw is.
LEMMA ToldProbe ==
  ASSUME NEW asked \in HealthProbes, NEW from,
         \A c \in Health!Checks : from.read[c] + CheckTimeout + HealthTtl >= asked.since
  PROVE  /\ Health!Told(asked, from) \in HealthProbes
         /\ Health!Told(asked, from).at = "told" /\ Health!Told(asked, from).fresh
<1> DEFINE code == Health!Code(asked.kind, from.result)
<1>1. code \in {0, 200, 503}
  BY DEF Health!Code
<1>2. PICK fresh : fresh = (\A c \in Health!Checks : from.read[c] + CheckTimeout + HealthTtl >= asked.since)
  OBVIOUS
<1>3. fresh \in BOOLEAN /\ fresh
  BY <1>2
<1>4. Health!Told(asked, from) = [Health!NoProbe EXCEPT !.at = "told", !.code = code, !.fresh = fresh]
  BY <1>2, Zenon DEF Health!Told
<1>5. PICK blank : blank = TRUE
  OBVIOUS
<1>6. Health!NoProbe = [at |-> "none", kind |-> "none", since |-> 0, code |-> 0, fresh |-> blank]
  BY <1>5, Zenon DEF Health!NoProbe
<1> HIDE DEF code
<1>7. Health!Told(asked, from) = [at |-> "told", kind |-> "none", since |-> 0, code |-> code, fresh |-> fresh]
  BY <1>4, <1>6
<1> QED
  BY <1>1, <1>3, <1>7 DEF HealthProbes

\* A probe: told at once, or waiting for the flight under way.
LEMMA ProbeStep == ASSUME HealthInv, NEW p \in Probes, Health!Probe(p) PROVE HealthInv'
<1>1. /\ UNCHANGED <<service, healthNow, healthCached, shutdown, crashed, teardowns>>
  BY DEF Health!Probe
<1>2. PICK kind \in {"live", "ready", "detail"} :
        LET asked == [Health!NoProbe EXCEPT !.kind = kind, !.since = healthNow]
        IN  \/ /\ probe' \in {[probe EXCEPT ![p] = [Health!NoProbe EXCEPT !.at = "told", !.code = 200]],
                              [probe EXCEPT ![p] = [Health!NoProbe EXCEPT !.at = "told", !.code = 503]]}
               /\ UNCHANGED flight
            \/ Health!Reusable /\ probe' = [probe EXCEPT ![p] = Health!Told(asked, healthCached)] /\ UNCHANGED flight
            \/ /\ probe' = [probe EXCEPT ![p] = [asked EXCEPT !.at = "asking"]]
               /\ flight' = IF flight.on THEN flight ELSE [Health!NoFlight EXCEPT !.on = TRUE, !.at = healthNow]
  <2>1. PICK kind \in {"live", "ready", "detail"} :
          LET asked == [Health!NoProbe EXCEPT !.kind = kind, !.since = healthNow]
          IN  CASE kind = "live" ->
                     /\ probe' = [probe EXCEPT ![p] = [Health!NoProbe EXCEPT !.at = "told", !.code = 200]]
                     /\ UNCHANGED flight
                [] kind # "live" /\ shutdown.at = "draining" ->
                     /\ probe' = [probe EXCEPT ![p] = [Health!NoProbe EXCEPT !.at = "told", !.code = 503]]
                     /\ UNCHANGED flight
                [] kind # "live" /\ shutdown.at # "draining" /\ Health!Reusable ->
                     /\ probe' = [probe EXCEPT ![p] = Health!Told(asked, healthCached)]
                     /\ UNCHANGED flight
                [] OTHER ->
                     /\ probe' = [probe EXCEPT ![p] = [asked EXCEPT !.at = "asking"]]
                     /\ flight' = IF flight.on THEN flight ELSE [Health!NoFlight EXCEPT !.on = TRUE, !.at = healthNow]
    BY ZenonT(60) DEF Health!Probe
  <2>2. CASE kind = "live"
    BY <2>1, <2>2, ZenonT(60)
  <2>3. CASE kind # "live" /\ shutdown.at = "draining"
    BY <2>1, <2>3, ZenonT(60)
  <2>4. CASE kind # "live" /\ shutdown.at # "draining" /\ Health!Reusable
    BY <2>1, <2>4, ZenonT(60)
  <2>5. CASE kind # "live" /\ shutdown.at # "draining" /\ ~Health!Reusable
    BY <2>1, <2>5, ZenonT(60)
  <2> QED
    BY <2>2, <2>3, <2>4, <2>5, Zenon
<1> DEFINE asked == [Health!NoProbe EXCEPT !.kind = kind, !.since = healthNow]
<1>3. asked \in HealthProbes /\ asked.since = healthNow /\ healthNow \in Nat
  BY DEF HealthInv, HealthTypes, HealthProbes, Health!NoProbe
<1>4. PICK q : /\ probe' = [probe EXCEPT ![p] = q] /\ q \in HealthProbes
               /\ WaitsForFlight(q, flight', healthNow)
               /\ \/ UNCHANGED flight
                  \/ ~flight.on /\ flight' = [Health!NoFlight EXCEPT !.on = TRUE, !.at = healthNow]
  <2>1. CASE /\ probe' \in {[probe EXCEPT ![p] = [Health!NoProbe EXCEPT !.at = "told", !.code = 200]],
                            [probe EXCEPT ![p] = [Health!NoProbe EXCEPT !.at = "told", !.code = 503]]}
             /\ UNCHANGED flight
    <3>1. PICK code \in {200, 503} : probe' = [probe EXCEPT ![p] = [Health!NoProbe EXCEPT !.at = "told", !.code = code]]
      BY <2>1
    <3>2. /\ [Health!NoProbe EXCEPT !.at = "told", !.code = code] \in HealthProbes
          /\ WaitsForFlight([Health!NoProbe EXCEPT !.at = "told", !.code = code], flight', healthNow)
      BY ZenonT(60) DEF HealthProbes, Health!NoProbe, WaitsForFlight
    <3> QED
      BY <2>1, <3>1, <3>2, ZenonT(60)
  <2>2. CASE /\ Health!Reusable /\ probe' = [probe EXCEPT ![p] = Health!Told(asked, healthCached)]
             /\ UNCHANGED flight
    <3>1. \A c \in Health!Checks : healthCached.read[c] + CheckTimeout + HealthTtl >= asked.since
      BY <1>3, <2>2, PlatformAssumption DEF Health!Reusable, HealthInv, HealthTypes, HealthCaches, CacheInTime
    <3>2. /\ Health!Told(asked, healthCached) \in HealthProbes
          /\ Health!Told(asked, healthCached).at = "told" /\ Health!Told(asked, healthCached).fresh
      BY <1>3, <3>1, ToldProbe
    <3> HIDE DEF asked
    <3> QED
      BY <2>2, <3>2 DEF WaitsForFlight
  <2>3. CASE /\ probe' = [probe EXCEPT ![p] = [asked EXCEPT !.at = "asking"]]
             /\ flight' = IF flight.on THEN flight ELSE [Health!NoFlight EXCEPT !.on = TRUE, !.at = healthNow]
    <3>1. [asked EXCEPT !.at = "asking"] \in HealthProbes
      BY <1>3, ZenonT(60) DEF HealthProbes
    <3>2. flight'.on /\ flight'.at <= healthNow
      <4>1. CASE flight.on
        BY <2>3, <4>1 DEF HealthInv, FlightInTime
      <4>2. CASE ~flight.on
        BY <1>3, <2>3, <4>2 DEF Health!NoFlight
      <4> QED
        BY <4>1, <4>2
    <3>3. WaitsForFlight([asked EXCEPT !.at = "asking"], flight', healthNow)
      BY <1>3, <3>2 DEF WaitsForFlight, Health!NoProbe
    <3> QED
      BY <2>3, <3>1, <3>3
  <2> QED
    BY <1>2, <2>1, <2>2, <2>3
<1>5. /\ probe' \in [Probes -> HealthProbes] /\ probe'[p] = q
      /\ \A o \in Probes \ {p} : probe'[o] = probe[o]
  BY <1>4 DEF HealthInv, HealthTypes
<1>6. flight' \in HealthFlights(Health!Checks) /\ FlightInTime(flight', healthNow)
  <2>1. CASE UNCHANGED flight
    BY <2>1 DEF HealthInv, HealthTypes
  <2>2. CASE flight' = [Health!NoFlight EXCEPT !.on = TRUE, !.at = healthNow]
    <3>1. PICK b : b = TRUE
      OBVIOUS
    <3>2. flight' = [on |-> b, at |-> healthNow, result |-> [c \in Health!Checks |-> "none"],
                     read |-> [c \in Health!Checks |-> 0]]
      BY <2>2, <3>1, Zenon DEF Health!NoFlight
    <3> QED
      BY <1>3, <3>1, <3>2, PlatformAssumption DEF HealthFlights, FlightInTime, HealthResults
  <2> QED
    BY <1>4, <2>1, <2>2
<1>7. \A o \in Probes : WaitsForFlight(probe'[o], flight', healthNow)
  <2>1. SUFFICES ASSUME NEW o \in Probes, o # p PROVE WaitsForFlight(probe'[o], flight', healthNow)
    BY <1>4, <1>5
  <2>2. WaitsForFlight(probe[o], flight, healthNow) /\ probe'[o] = probe[o]
    BY <1>5, <2>1 DEF HealthInv
  <2> QED
    BY <1>4, <2>2 DEF WaitsForFlight
<1>8. HealthTypes'
  BY <1>1, <1>5, <1>6 DEF HealthInv, HealthTypes, Health!Checks
<1>9. ShutdownOrder'
  BY <1>1 DEF HealthInv, ShutdownOrder
<1> QED
  BY <1>1, <1>6, <1>7, <1>8, <1>9 DEF HealthInv

\* A check's result is one of the four words.
LEMMA ResultWord == ASSUME NEW c PROVE Health!Result(c) \in HealthResults
  BY DEF Health!Result, HealthResults, Health!PostgresCheck, Health!MongoCheck, Health!MqttCheck, Health!UpstreamCheck

\* A check settles before its deadline.
LEMMA CheckSettlesStep == ASSUME HealthInv, NEW c \in Health!Checks, Health!CheckSettles(c) PROVE HealthInv'
<1>1. /\ UNCHANGED <<service, healthNow, healthCached, probe, shutdown, crashed, teardowns>>
      /\ flight.on /\ flight.result[c] = "none"
      /\ flight' = [flight EXCEPT !.result[c] = Health!Result(c), !.read[c] = healthNow]
  BY DEF Health!CheckSettles
<1>2. flight \in HealthFlights(Health!Checks) /\ healthNow \in Nat
  BY DEF HealthInv, HealthTypes
<1>3. PICK r \in HealthResults : r = Health!Result(c)
  BY ResultWord
<1>4. flight' = [on |-> flight.on, at |-> flight.at, result |-> [flight.result EXCEPT ![c] = r],
                 read |-> [flight.read EXCEPT ![c] = healthNow]]
  BY <1>1, <1>2, <1>3 DEF HealthFlights
<1>5. flight' \in HealthFlights(Health!Checks) /\ flight'.on = flight.on /\ flight'.at = flight.at
  BY <1>2, <1>4 DEF HealthFlights
<1>6. FlightInTime(flight', healthNow)
  BY <1>1, <1>2, <1>4 DEF HealthInv, FlightInTime, HealthFlights
<1>7. \A p \in Probes : WaitsForFlight(probe[p], flight', healthNow)
  BY <1>5 DEF HealthInv, WaitsForFlight
<1>8. HealthTypes'
  BY <1>1, <1>5 DEF HealthInv, HealthTypes, Health!Checks
<1>9. ShutdownOrder'
  BY <1>1 DEF HealthInv, ShutdownOrder
<1> QED
  BY <1>1, <1>6, <1>7, <1>8, <1>9 DEF HealthInv

\* The flight ends: everyone who waits is told what was seen since it began.
LEMMA FlightEndsStep == ASSUME HealthInv, Health!FlightEnds PROVE HealthInv'
<1>1. /\ UNCHANGED <<service, healthNow, shutdown, crashed, teardowns>>
      /\ flight.on /\ \A c \in Health!Checks : flight.result[c] # "none"
      /\ healthCached' = [has |-> TRUE, at |-> healthNow, result |-> flight.result, read |-> flight.read]
      /\ flight' = Health!NoFlight
      /\ probe' = [p \in Probes |-> IF probe[p].at = "asking" THEN Health!Told(probe[p], flight) ELSE probe[p]]
  BY DEF Health!FlightEnds
<1>2. flight \in HealthFlights(Health!Checks) /\ healthNow \in Nat /\ CheckTimeout \in Nat /\ HealthTtl \in Nat
  BY PlatformAssumption DEF HealthInv, HealthTypes
<1>3. /\ flight.at \in Nat /\ flight.at <= healthNow /\ healthNow <= flight.at + CheckTimeout
      /\ DOMAIN flight.result = Health!Checks /\ DOMAIN flight.read = Health!Checks
      /\ \A c \in Health!Checks : flight.read[c] \in Nat /\ flight.at <= flight.read[c]
  BY <1>1, <1>2 DEF HealthInv, FlightInTime, HealthFlights
<1>4. healthCached' \in HealthCaches(Health!Checks) /\ CacheInTime(healthCached', healthNow)
  <2>1. PICK b : b = TRUE
    OBVIOUS
  <2>2. healthCached' = [has |-> b, at |-> healthNow, result |-> flight.result, read |-> flight.read]
    BY <1>1, <2>1
  <2>3. healthCached' \in HealthCaches(Health!Checks)
    BY <1>2, <2>1, <2>2 DEF HealthCaches, HealthFlights
  <2>4. CacheInTime(healthCached', healthNow)
    BY <1>2, <1>3, <2>2 DEF CacheInTime
  <2> QED
    BY <2>3, <2>4
<1>5. ASSUME NEW p \in Probes
      PROVE  probe'[p] \in HealthProbes /\ WaitsForFlight(probe'[p], flight', healthNow)
  <2>1. probe[p] \in HealthProbes /\ WaitsForFlight(probe[p], flight, healthNow)
    BY DEF HealthInv, HealthTypes
  <2>2. CASE probe[p].at = "asking"
    <3>1. probe[p].since \in Nat /\ probe[p].since <= healthNow
      BY <2>1, <2>2 DEF HealthProbes, WaitsForFlight
    <3>2. \A c \in Health!Checks : flight.read[c] + CheckTimeout + HealthTtl >= probe[p].since
      BY <1>2, <1>3, <3>1
    <3>3. /\ Health!Told(probe[p], flight) \in HealthProbes
          /\ Health!Told(probe[p], flight).at = "told" /\ Health!Told(probe[p], flight).fresh
      BY <2>1, <3>2, ToldProbe
    <3> QED
      BY <1>1, <2>2, <3>3 DEF WaitsForFlight
  <2>3. CASE probe[p].at # "asking"
    BY <1>1, <2>1, <2>3 DEF WaitsForFlight
  <2> QED
    BY <2>2, <2>3
<1>6. flight' \in HealthFlights(Health!Checks) /\ FlightInTime(flight', healthNow)
  BY <1>1 DEF HealthFlights, FlightInTime, Health!NoFlight, HealthResults
<1>7. HealthTypes'
  BY <1>1, <1>4, <1>5, <1>6 DEF HealthInv, HealthTypes, Health!Checks
<1>8. ShutdownOrder'
  BY <1>1 DEF HealthInv, ShutdownOrder
<1> QED
  BY <1>1, <1>4, <1>5, <1>6, <1>7, <1>8 DEF HealthInv

\* platform.stop cuts off who waits and whatever they wait for.
LEMMA TeardownCuts ==
  ASSUME HealthInv, Health!Teardown, UNCHANGED <<service, healthNow, healthCached>>,
         shutdown' \in Shutdowns, crashed' \in BOOLEAN, ShutdownOrder'
  PROVE  HealthInv'
<1>1. /\ flight' = Health!NoFlight /\ teardowns' = teardowns + 1
      /\ probe' = [p \in Probes |-> IF probe[p].at = "asking" THEN [Health!NoProbe EXCEPT !.at = "cut"] ELSE probe[p]]
  BY DEF Health!Teardown
<1>2. flight' \in HealthFlights(Health!Checks) /\ FlightInTime(flight', healthNow)
  BY <1>1 DEF HealthFlights, FlightInTime, Health!NoFlight, HealthResults
<1>3. ASSUME NEW p \in Probes
      PROVE  probe'[p] \in HealthProbes /\ WaitsForFlight(probe'[p], flight', healthNow)
  <2>1. probe[p] \in HealthProbes /\ WaitsForFlight(probe[p], flight, healthNow)
    BY DEF HealthInv, HealthTypes
  <2>2. CASE probe[p].at = "asking"
    <3>1. PICK b : b = TRUE
      OBVIOUS
    <3>2. probe'[p] = [at |-> "cut", kind |-> "none", since |-> 0, code |-> 0, fresh |-> b]
      BY <1>1, <2>2, <3>1, Zenon DEF Health!NoProbe
    <3> QED
      BY <3>1, <3>2 DEF WaitsForFlight, HealthProbes
  <2>3. CASE probe[p].at # "asking"
    BY <1>1, <2>1, <2>3 DEF WaitsForFlight
  <2> QED
    BY <2>2, <2>3
<1>4. teardowns' \in Nat
  BY <1>1 DEF HealthInv, HealthTypes
<1>5. HealthTypes'
  BY <1>1, <1>2, <1>3, <1>4 DEF HealthInv, HealthTypes, Health!Checks
<1> QED
  BY <1>2, <1>3, <1>5 DEF HealthInv

\* The drain is over.
LEMMA StopStep == ASSUME HealthInv, Health!Stop PROVE HealthInv'
<1>1. /\ shutdown.at = "draining" /\ healthNow - shutdown.since >= DrainDelay
      /\ shutdown' = [shutdown EXCEPT !.at = "stopping"]
      /\ UNCHANGED <<service, healthNow, healthCached, crashed>> /\ Health!Teardown /\ teardowns' = teardowns + 1
  BY DEF Health!Stop, Health!Teardown
<1>2. shutdown \in Shutdowns /\ teardowns \in Nat /\ crashed \in BOOLEAN
  BY DEF HealthInv, HealthTypes
<1>3. shutdown' \in Shutdowns /\ shutdown'.at = "stopping" /\ shutdown'.since = shutdown.since
  BY <1>1, <1>2 DEF Shutdowns
<1>4. ~crashed => teardowns = 0
  BY <1>1 DEF HealthInv, ShutdownOrder
<1>5. ShutdownOrder'
  BY <1>1, <1>2, <1>3, <1>4 DEF HealthInv, ShutdownOrder
<1> QED
  BY <1>1, <1>2, <1>3, <1>5, TeardownCuts

\* An error nobody caught tears down at once.
LEMMA CrashStep == ASSUME HealthInv, Health!Crash PROVE HealthInv'
<1>1. /\ crashed' = TRUE /\ UNCHANGED <<service, healthNow, healthCached>> /\ Health!Teardown
      /\ \/ shutdown' = shutdown
         \/ shutdown' = [shutdown EXCEPT !.at = "failed"]
  BY DEF Health!Crash
<1>2. shutdown \in Shutdowns
  BY DEF HealthInv, HealthTypes
<1>3. shutdown' \in Shutdowns /\ shutdown'.since = shutdown.since /\ shutdown'.at \in {shutdown.at, "failed"}
  BY <1>1, <1>2 DEF Shutdowns
<1>4. ShutdownOrder'
  BY <1>1, <1>3 DEF HealthInv, ShutdownOrder
<1> QED
  BY <1>1, <1>3, <1>4, TeardownCuts

\* A signal starts the drain, and a stop that ends touches nothing else.
LEMMA SignalStep == ASSUME HealthInv, Health!Signal \/ Health!Stopped PROVE HealthInv'
<1>1. /\ UNCHANGED <<service, healthNow, flight, healthCached, probe, crashed, teardowns>>
      /\ \/ shutdown.at = "up" /\ shutdown' = [at |-> "draining", since |-> healthNow]
         \/ shutdown.at = "stopping" /\ shutdown' = [shutdown EXCEPT !.at = "stopped"]
  BY DEF Health!Signal, Health!Stopped, Health!NotBegun
<1>2. shutdown \in Shutdowns /\ healthNow \in Nat
  BY DEF HealthInv, HealthTypes
<1>3. shutdown' \in Shutdowns
  BY <1>1, <1>2 DEF Shutdowns
<1>4. ShutdownOrder'
  <2>1. CASE shutdown.at = "up" /\ shutdown' = [at |-> "draining", since |-> healthNow]
    BY <1>1, <1>2, <2>1 DEF HealthInv, ShutdownOrder
  <2>2. CASE shutdown.at = "stopping" /\ shutdown' = [shutdown EXCEPT !.at = "stopped"]
    BY <1>1, <1>2, <2>2 DEF HealthInv, ShutdownOrder, Shutdowns
  <2> QED
    BY <1>1, <2>1, <2>2
<1>5. HealthTypes'
  BY <1>1, <1>3 DEF HealthInv, HealthTypes, Health!Checks
<1> QED
  BY <1>1, <1>4, <1>5 DEF HealthInv

\* runOne's deadline, spelled out.
LEMMA ExpiredIs ==
  ASSUME NEW f, NEW u
  PROVE  Health!Expired(f, u) =
           IF f.on /\ u - f.at >= CheckTimeout
             THEN [f EXCEPT !.result = [c \in Health!Checks |-> IF f.result[c] = "none" THEN "fail" ELSE f.result[c]],
                            !.read = [c \in Health!Checks |-> IF f.result[c] = "none" THEN u ELSE f.read[c]]]
             ELSE f
  BY DEF Health!Expired

\* What is over its deadline has failed.
LEMMA ExpiredFlight ==
  ASSUME NEW f \in HealthFlights(Health!Checks), NEW t \in Nat, NEW u \in Nat, u = t + 1, FlightInTime(f, t),
         ~(f.on /\ \A c \in Health!Checks : f.result[c] # "none")
  PROVE  /\ Health!Expired(f, u) \in HealthFlights(Health!Checks)
         /\ FlightInTime(Health!Expired(f, u), u)
         /\ Health!Expired(f, u).on = f.on /\ Health!Expired(f, u).at = f.at
<1>0. CheckTimeout \in Nat /\ f.at \in Nat /\ DOMAIN f.result = Health!Checks
  BY PlatformAssumption DEF HealthFlights
<1>1. f.on => f.at <= t /\ t < f.at + CheckTimeout
  BY <1>0 DEF FlightInTime
<1> DEFINE late == f.on /\ u - f.at >= CheckTimeout
           fail == [f EXCEPT !.result = [c \in Health!Checks |-> IF f.result[c] = "none" THEN "fail" ELSE f.result[c]],
                             !.read = [c \in Health!Checks |-> IF f.result[c] = "none" THEN u ELSE f.read[c]]]
<1>e. Health!Expired(f, u) = IF late THEN fail ELSE f
  BY ExpiredIs, Zenon
<1>2. CASE f.on /\ u - f.at >= CheckTimeout
  <2> DEFINE r == [c \in Health!Checks |-> IF f.result[c] = "none" THEN "fail" ELSE f.result[c]]
             s == [c \in Health!Checks |-> IF f.result[c] = "none" THEN u ELSE f.read[c]]
  <2>1. r \in [Health!Checks -> HealthResults] /\ s \in [Health!Checks -> Nat] /\ \A c \in Health!Checks : r[c] # "none"
    BY DEF HealthFlights, HealthResults
  <2>2. \A c \in Health!Checks : f.at <= s[c]
    BY <1>0, <1>1, <1>2 DEF FlightInTime
  <2>3. Health!Expired(f, u) = [f EXCEPT !.result = r, !.read = s]
    BY <1>2, <1>e
  <2> HIDE DEF r, s
  <2>4. Health!Expired(f, u) = [on |-> f.on, at |-> f.at, result |-> r, read |-> s]
    BY <2>3 DEF HealthFlights
  <2>5. Health!Expired(f, u) \in HealthFlights(Health!Checks)
    BY <1>0, <2>1, <2>4 DEF HealthFlights
  <2>6. FlightInTime(Health!Expired(f, u), u)
    BY <1>0, <1>1, <1>2, <2>1, <2>2, <2>4 DEF FlightInTime
  <2> QED
    BY <2>4, <2>5, <2>6
<1>3. CASE ~(f.on /\ u - f.at >= CheckTimeout)
  <2>1. Health!Expired(f, u) = f
    BY <1>3, <1>e
  <2>2. FlightInTime(f, u)
    BY <1>0, <1>1, <1>3 DEF FlightInTime
  <2> QED
    BY <2>1, <2>2
<1> QED
  BY <1>2, <1>3

\* Time passes, at most to what is due.
LEMMA HealthTickStep == ASSUME HealthInv, Health!Tick PROVE HealthInv'
<1>1. /\ UNCHANGED <<service, healthCached, probe, crashed, teardowns>>
      /\ ~(flight.on /\ \A c \in Health!Checks : flight.result[c] # "none")
      /\ healthNow' = healthNow + 1
      /\ flight' = Health!Expired(flight, healthNow + 1)
      /\ shutdown' = Health!DeadlinePassed(shutdown, healthNow + 1)
  BY DEF Health!Tick
<1>2. healthNow \in Nat /\ healthNow + 1 \in Nat /\ flight \in HealthFlights(Health!Checks) /\ shutdown \in Shutdowns
  BY DEF HealthInv, HealthTypes
<1>3. /\ flight' \in HealthFlights(Health!Checks) /\ FlightInTime(flight', healthNow + 1)
      /\ flight'.on = flight.on /\ flight'.at = flight.at
  BY <1>1, <1>2, ExpiredFlight DEF HealthInv
<1>4. CacheInTime(healthCached, healthNow + 1)
  BY <1>2 DEF HealthInv, HealthTypes, HealthCaches, CacheInTime
<1>5. \A p \in Probes : WaitsForFlight(probe[p], flight', healthNow + 1)
  <2>1. SUFFICES ASSUME NEW p \in Probes PROVE WaitsForFlight(probe[p], flight', healthNow + 1)
    OBVIOUS
  <2>2. WaitsForFlight(probe[p], flight, healthNow) /\ probe[p] \in HealthProbes
    BY DEF HealthInv, HealthTypes
  <2> QED
    BY <1>2, <1>3, <2>2 DEF WaitsForFlight, HealthProbes
<1>6. shutdown' \in Shutdowns /\ shutdown'.since = shutdown.since /\ shutdown'.at \in {shutdown.at, "exited"}
  BY <1>1, <1>2 DEF Health!DeadlinePassed, Shutdowns
<1>7. ShutdownOrder'
  <2>1. shutdown.since \in Nat /\ DrainDelay \in Nat
    BY <1>2, PlatformAssumption DEF Shutdowns
  <2> QED
    BY <1>1, <1>2, <1>6, <2>1 DEF HealthInv, ShutdownOrder
<1>8. HealthTypes'
  BY <1>1, <1>2, <1>3, <1>6 DEF HealthInv, HealthTypes, Health!Checks
<1> QED
  BY <1>1, <1>3, <1>4, <1>5, <1>7, <1>8 DEF HealthInv

\* Every step of a process's probes, checks and signals keeps the invariant.
LEMMA HealthStep == HealthInv /\ [Health!Next]_Health!vars => HealthInv'
<1> SUFFICES ASSUME HealthInv, [Health!Next]_Health!vars PROVE HealthInv'
  OBVIOUS
<1>1. CASE UNCHANGED <<service, healthNow, flight, healthCached, probe, shutdown, crashed, teardowns>>
  BY <1>1 DEF HealthInv, HealthTypes, Health!Checks, ShutdownOrder
<1>2. CASE \E c \in Health!Checks : Health!DependencyChanges(c)
  BY <1>1, <1>2 DEF Health!DependencyChanges
<1>3. CASE UNCHANGED Health!vars
  BY <1>1, <1>3 DEF Health!vars
<1>4. CASE Health!Next /\ ~(\E c \in Health!Checks : Health!DependencyChanges(c))
  BY <1>4, ProbeStep, CheckSettlesStep, FlightEndsStep, SignalStep, StopStep, CrashStep, HealthTickStep DEF Health!Next
<1> QED
  BY <1>2, <1>3, <1>4

\* Who waits is answered in time, with nothing stale, and the process is torn down once.
LEMMA HealthHolds == HealthInv => Health!ProbesHonest /\ Health!OneTeardown
<1> SUFFICES ASSUME HealthInv PROVE Health!ProbesHonest /\ Health!OneTeardown
  OBVIOUS
<1>1. healthNow \in Nat /\ CheckTimeout \in Nat /\ flight.at \in Nat /\ teardowns \in Nat /\ crashed \in BOOLEAN
  BY PlatformAssumption DEF HealthInv, HealthTypes, HealthFlights
<1>2. ASSUME NEW p \in Probes, probe[p].at = "asking" PROVE healthNow - probe[p].since <= CheckTimeout
  <2>1. probe[p].since \in Nat /\ WaitsForFlight(probe[p], flight, healthNow)
    BY DEF HealthInv, HealthTypes, HealthProbes
  <2> QED
    BY <1>1, <1>2, <2>1 DEF WaitsForFlight, HealthInv, FlightInTime
<1>3. \A p \in Probes : probe[p].fresh
  BY DEF HealthInv, WaitsForFlight
<1>4. Health!OneTeardown
  BY <1>1 DEF HealthInv, ShutdownOrder, Health!OneTeardown
<1> QED
  BY <1>2, <1>3, <1>4 DEF Health!ProbesHonest, Health!AnsweredInTime, Health!NothingStale

----------------------------------------------------------------------------
(* QrCodes: the collection, its unique index, and the scans *)

QrStages == {"idle", "inserting", "deleting", "rendering", "looking", "found", "done"}
QrOps == {"none", "post", "put", "delete", "get", "list", "image", "scan"}
QrAnswers == {"none", "200", "201", "204", "302", "404", "409", "500", "503", "504", "cancelled"}
Readings == Qr!Documents \cup {Nobody} \cup (SUBSET Qr!Documents) \cup Targets
QrCalls == [stage : QrStages, op : QrOps, id : Ids \cup {Malformed} \cup Slugs, attempt : Nat,
            read : Readings, aborted : BOOLEAN, answer : QrAnswers]

StoredIn(store) == {i \in Ids : store[i] # Nobody}
OfSlug(store, slug) == {store[i] : i \in {j \in Ids : store[j] # Nobody /\ store[j].slug = slug}}
UniqueSlugs(store) == \A i, j \in StoredIn(store) : store[i].slug = store[j].slug => i = j

\* A call's stage is its operation's, and what a POST has stored fits what it answered.
LawfulQr(q, n) ==
  /\ n \in {0, 1}
  /\ q.stage \in {"idle", "inserting"} => n = 0 /\ q.answer = "none"
  /\ q.stage = "idle" => q.op = "none" /\ q.read = Nobody /\ ~q.aborted
  /\ q.stage = "inserting" => q.op = "post"
  /\ q.stage = "deleting" => q.op = "delete"
  /\ q.stage = "rendering" => q.op = "image"
  /\ q.stage = "looking" => q.op = "scan"
  /\ q.op = "post" /\ q.answer = "409" => n = 0
  /\ q.op = "post" /\ q.answer = "201" => n = 1

\* The record an image was made of keeps its slug for as long as it exists, and its id is never given out again.
LabelKept(q, store, given) ==
  q.op = "image" /\ q.read # Nobody =>
    /\ q.id \in Ids /\ q.id \in given /\ q.read \in Qr!Documents
    /\ store[q.id] # Nobody => store[q.id].slug = q.read.slug

\* What a scan could be told now it could be told since it arrived.
ScanKept(q, store, told) ==
  /\ q.op = "scan" /\ q.stage = "looking" => Qr!LeadsTo(OfSlug(store, q.id)) \subseteq told
  /\ q.op = "scan" /\ q.stage = "done" =>
       /\ q.answer \in {"302", "404"} => q.read \in told
       /\ q.answer = "504" => ~q.aborted

QrTypes ==
  /\ records \in [Ids -> Qr!Documents \cup {Nobody}]
  /\ qrCall \in [Calls -> QrCalls]
  /\ inserted \in [Calls -> Nat]
  /\ DOMAIN seen = Calls /\ seen = [c \in Calls |-> seen[c]]

QrInv ==
  /\ QrTypes
  /\ StoredIn(records) \subseteq used /\ UniqueSlugs(records)
  /\ \A c \in Calls : /\ LawfulQr(qrCall[c], inserted[c])
                      /\ LabelKept(qrCall[c], records, used)
                      /\ ScanKept(qrCall[c], records, seen[c])

\* The index reads what is stored.
LEMMA StoreReads ==
  ASSUME NEW slug
  PROVE  Qr!Stored = StoredIn(records) /\ Qr!FindBySlug(slug) = OfSlug(records, slug)
<1>1. Qr!Stored = StoredIn(records)
  BY DEF Qr!Stored, StoredIn
<1>2. {j \in Qr!Stored : records[j].slug = slug} = {j \in Ids : records[j] # Nobody /\ records[j].slug = slug}
  BY DEF Qr!Stored
<1> QED
  BY <1>1, <1>2 DEF Qr!FindBySlug, OfSlug

\* Nothing is stored, and nobody calls.
LEMMA QrInit == Qr!Init => QrInv
<1> SUFFICES ASSUME Qr!Init PROVE QrInv
  OBVIOUS
<1>1. /\ records = [i \in Ids |-> Nobody] /\ used = {} /\ qrCall = [c \in Calls |-> Qr!Idle]
      /\ inserted = [c \in Calls |-> 0] /\ seen = [c \in Calls |-> {}]
  BY DEF Qr!Init
<1>2. PICK b : b = FALSE
  OBVIOUS
<1>3. Qr!Idle = [stage |-> "idle", op |-> "none", id |-> Malformed, attempt |-> 0, read |-> Nobody, aborted |-> b,
                 answer |-> "none"]
  BY <1>2, Zenon DEF Qr!Idle
<1>4. Qr!Idle \in QrCalls
  BY <1>2, <1>3 DEF QrCalls, QrStages, QrOps, QrAnswers, Readings
<1>5. StoredIn(records) = {}
  BY <1>1 DEF StoredIn
<1>6. QrTypes
  BY <1>1, <1>4 DEF QrTypes
<1>7. /\ LawfulQr(Qr!Idle, 0) /\ LabelKept(Qr!Idle, records, used) /\ ScanKept(Qr!Idle, records, {})
  BY <1>2, <1>3 DEF LawfulQr, LabelKept, ScanKept
<1> QED
  BY <1>1, <1>5, <1>6, <1>7 DEF QrInv, UniqueSlugs

\* A step of one call that changes nothing stored.
LEMMA QrReadOnly ==
  ASSUME QrInv, NEW c \in Calls, NEW q \in QrCalls, NEW told,
         qrCall' = [qrCall EXCEPT ![c] = q], UNCHANGED <<records, used, inserted>>,
         seen' = [seen EXCEPT ![c] = told],
         LawfulQr(q, inserted[c]), LabelKept(q, records, used), ScanKept(q, records, told)
  PROVE  QrInv'
<1>1. /\ qrCall' \in [Calls -> QrCalls] /\ qrCall'[c] = q /\ seen'[c] = told
      /\ \A o \in Calls \ {c} : qrCall'[o] = qrCall[o] /\ seen'[o] = seen[o]
  BY DEF QrInv, QrTypes
<1>2. QrTypes'
  BY <1>1 DEF QrInv, QrTypes
<1>3. \A o \in Calls : /\ LawfulQr(qrCall'[o], inserted[o])
                       /\ LabelKept(qrCall'[o], records, used)
                       /\ ScanKept(qrCall'[o], records, seen'[o])
  BY <1>1 DEF QrInv
<1> QED
  BY <1>2, <1>3 DEF QrInv

\* A step that changes what is stored: every scan under way sees it, and no slug of a given id changes.
LEMMA QrStores ==
  ASSUME QrInv, NEW c \in Calls, NEW q \in QrCalls, NEW n \in {0, 1},
         qrCall' = [qrCall EXCEPT ![c] = q], inserted' = [inserted EXCEPT ![c] = n],
         qrCall[c].stage # "looking", q.op \notin {"scan", "image"},
         records' \in [Ids -> Qr!Documents \cup {Nobody}], UniqueSlugs(records'), StoredIn(records') \subseteq used',
         used \subseteq used', Qr!Witnessed, LawfulQr(q, n),
         \A i \in Ids : i \in used /\ records'[i] # Nobody => records[i] # Nobody /\ records'[i].slug = records[i].slug
  PROVE  QrInv'
<1>1. /\ qrCall' \in [Calls -> QrCalls] /\ qrCall'[c] = q
      /\ inserted' \in [Calls -> Nat] /\ inserted'[c] = n
      /\ \A o \in Calls \ {c} : qrCall'[o] = qrCall[o] /\ inserted'[o] = inserted[o]
  BY DEF QrInv, QrTypes
<1>2. seen' = [o \in Calls |-> IF Qr!Scanning(o) THEN seen[o] \cup Qr!LeadsTo(OfSlug(records', qrCall[o].id)) ELSE seen[o]]
  BY DEF Qr!Witnessed, OfSlug
<1>3. QrTypes'
  BY <1>1, <1>2 DEF QrTypes
<1>4. ASSUME NEW o \in Calls, o # c
      PROVE  /\ LawfulQr(qrCall[o], inserted[o])
             /\ LabelKept(qrCall[o], records', used')
             /\ ScanKept(qrCall[o], records', seen'[o])
  <2>1. LawfulQr(qrCall[o], inserted[o]) /\ LabelKept(qrCall[o], records, used) /\ ScanKept(qrCall[o], records, seen[o])
    BY DEF QrInv
  <2>2. LabelKept(qrCall[o], records', used')
    BY <2>1 DEF LabelKept
  <2>3. ScanKept(qrCall[o], records', seen'[o])
    <3>1. CASE qrCall[o].op = "scan" /\ qrCall[o].stage = "looking"
      <4>1. Qr!Scanning(o)
        BY <3>1 DEF Qr!Scanning
      <4>2. Qr!LeadsTo(OfSlug(records', qrCall[o].id)) \subseteq seen'[o]
        BY <1>2, <4>1
      <4> QED
        BY <3>1, <4>2 DEF ScanKept
    <3>2. CASE ~(qrCall[o].op = "scan" /\ qrCall[o].stage = "looking")
      <4>1. seen'[o] = seen[o]
        BY <1>2, <3>2 DEF Qr!Scanning
      <4> QED
        BY <2>1, <3>2, <4>1 DEF ScanKept
    <3> QED
      BY <3>1, <3>2
  <2> QED
    BY <2>1, <2>2, <2>3
<1>5. LabelKept(q, records', used') /\ ScanKept(q, records', seen'[c])
  BY DEF LabelKept, ScanKept
<1>6. \A o \in Calls : /\ LawfulQr(qrCall'[o], inserted'[o])
                       /\ LabelKept(qrCall'[o], records', used')
                       /\ ScanKept(qrCall'[o], records', seen'[o])
  BY <1>1, <1>4, <1>5
<1> QED
  BY <1>3, <1>6 DEF QrInv

\* A call as it moves on.
QrAt(q, stage, op, id, attempt, read, answer) ==
  [stage |-> stage, op |-> op, id |-> id, attempt |-> attempt, read |-> read, aborted |-> q.aborted, answer |-> answer]

\* The fields of a call.
LEMMA QrFields ==
  ASSUME NEW q \in QrCalls
  PROVE  /\ q.stage \in QrStages /\ q.op \in QrOps /\ q.id \in Ids \cup {Malformed} \cup Slugs /\ q.attempt \in Nat
         /\ q.read \in Readings /\ q.aborted \in BOOLEAN /\ q.answer \in QrAnswers
         /\ \A stage \in QrStages, op \in QrOps, answer \in QrAnswers, id \in Ids \cup {Malformed} \cup Slugs,
               read \in Readings, attempt \in Nat : QrAt(q, stage, op, id, attempt, read, answer) \in QrCalls
  BY DEF QrCalls, QrAt

\* A call is what its fields say.
LEMMA QrSame == ASSUME NEW q \in QrCalls PROVE q = QrAt(q, q.stage, q.op, q.id, q.attempt, q.read, q.answer)
BY Zenon DEF QrCalls, QrAt

\* What the steps write over a call.
LEMMA QrStarts ==
  ASSUME NEW q \in QrCalls, NEW stage, NEW op
  PROVE  [q EXCEPT !.stage = stage, !.op = op] =
           QrAt(q, stage, op, q.id, q.attempt, q.read, q.answer)
<1> DEFINE k == QrAt(q, q.stage, q.op, q.id, q.attempt, q.read, q.answer)
<1>1. [q EXCEPT !.stage = stage, !.op = op] =
        [[k EXCEPT !.stage = stage] EXCEPT !.op = op]
  BY QrSame, Zenon
<1>2. [k EXCEPT !.stage = stage] = QrAt(q, stage, q.op, q.id, q.attempt, q.read, q.answer)
  BY DEF QrAt, k
<1>3. [QrAt(q, stage, q.op, q.id, q.attempt, q.read, q.answer) EXCEPT !.op = op]
        = QrAt(q, stage, op, q.id, q.attempt, q.read, q.answer)
  BY DEF QrAt
<1> HIDE DEF k
<1> QED
  BY <1>1, <1>2, <1>3, Zenon

LEMMA QrBegins ==
  ASSUME NEW q \in QrCalls, NEW stage, NEW op, NEW id
  PROVE  [q EXCEPT !.op = op, !.stage = stage, !.id = id] =
           QrAt(q, stage, op, id, q.attempt, q.read, q.answer)
<1> DEFINE k == QrAt(q, q.stage, q.op, q.id, q.attempt, q.read, q.answer)
<1>1. [q EXCEPT !.op = op, !.stage = stage, !.id = id] =
        [[[k EXCEPT !.op = op] EXCEPT !.stage = stage] EXCEPT !.id = id]
  BY QrSame, Zenon
<1>2. [k EXCEPT !.op = op] = QrAt(q, q.stage, op, q.id, q.attempt, q.read, q.answer)
  BY DEF QrAt, k
<1>3. [QrAt(q, q.stage, op, q.id, q.attempt, q.read, q.answer) EXCEPT !.stage = stage]
        = QrAt(q, stage, op, q.id, q.attempt, q.read, q.answer)
  BY DEF QrAt
<1>4. [QrAt(q, stage, op, q.id, q.attempt, q.read, q.answer) EXCEPT !.id = id]
        = QrAt(q, stage, op, id, q.attempt, q.read, q.answer)
  BY DEF QrAt
<1> HIDE DEF k
<1> QED
  BY <1>1, <1>2, <1>3, <1>4, Zenon

LEMMA QrImages ==
  ASSUME NEW q \in QrCalls, NEW id, NEW read
  PROVE  [q EXCEPT !.op = "image", !.stage = "rendering", !.id = id, !.read = read] =
           QrAt(q, "rendering", "image", id, q.attempt, read, q.answer)
<1> DEFINE k == QrAt(q, q.stage, q.op, q.id, q.attempt, q.read, q.answer)
<1>1. [q EXCEPT !.op = "image", !.stage = "rendering", !.id = id, !.read = read] =
        [[[[k EXCEPT !.op = "image"] EXCEPT !.stage = "rendering"] EXCEPT !.id = id] EXCEPT !.read = read]
  BY QrSame, Zenon
<1>2. [k EXCEPT !.op = "image"] = QrAt(q, q.stage, "image", q.id, q.attempt, q.read, q.answer)
  BY DEF QrAt, k
<1>3. [QrAt(q, q.stage, "image", q.id, q.attempt, q.read, q.answer) EXCEPT !.stage = "rendering"]
        = QrAt(q, "rendering", "image", q.id, q.attempt, q.read, q.answer)
  BY DEF QrAt
<1>4. [QrAt(q, "rendering", "image", q.id, q.attempt, q.read, q.answer) EXCEPT !.id = id]
        = QrAt(q, "rendering", "image", id, q.attempt, q.read, q.answer)
  BY DEF QrAt
<1>5. [QrAt(q, "rendering", "image", id, q.attempt, q.read, q.answer) EXCEPT !.read = read]
        = QrAt(q, "rendering", "image", id, q.attempt, read, q.answer)
  BY DEF QrAt
<1> HIDE DEF k
<1> QED
  BY <1>1, <1>2, <1>3, <1>4, <1>5, ZenonT(60)

LEMMA QrDrawsAgain ==
  ASSUME NEW q \in QrCalls
  PROVE  Qr!AnotherSlug(q) =
           QrAt(q, q.stage, q.op, q.id, q.attempt + 1, q.read, q.answer)
<1> DEFINE k == QrAt(q, q.stage, q.op, q.id, q.attempt, q.read, q.answer)
<1>1. Qr!AnotherSlug(q) =
        [k EXCEPT !.attempt = q.attempt + 1]
  BY QrSame, Zenon DEF Qr!AnotherSlug
<1>2. [k EXCEPT !.attempt = q.attempt + 1] = QrAt(q, q.stage, q.op, q.id, q.attempt + 1, q.read, q.answer)
  BY DEF QrAt, k
<1> HIDE DEF k
<1> QED
  BY <1>1, <1>2, Zenon

LEMMA QrAnswered ==
  ASSUME NEW q \in QrCalls, NEW answer
  PROVE  Qr!Answered(q, answer) =
           QrAt(q, "done", q.op, q.id, q.attempt, q.read, answer)
<1> DEFINE k == QrAt(q, q.stage, q.op, q.id, q.attempt, q.read, q.answer)
<1>1. Qr!Answered(q, answer) =
        [[k EXCEPT !.stage = "done"] EXCEPT !.answer = answer]
  BY QrSame, Zenon DEF Qr!Answered
<1>2. [k EXCEPT !.stage = "done"] = QrAt(q, "done", q.op, q.id, q.attempt, q.read, q.answer)
  BY DEF QrAt, k
<1>3. [QrAt(q, "done", q.op, q.id, q.attempt, q.read, q.answer) EXCEPT !.answer = answer]
        = QrAt(q, "done", q.op, q.id, q.attempt, q.read, answer)
  BY DEF QrAt
<1> HIDE DEF k
<1> QED
  BY <1>1, <1>2, <1>3, Zenon

LEMMA QrEnds ==
  ASSUME NEW q \in QrCalls, NEW op, NEW answer
  PROVE  Qr!Answered([q EXCEPT !.op = op], answer) =
           QrAt(q, "done", op, q.id, q.attempt, q.read, answer)
<1> DEFINE k == QrAt(q, q.stage, q.op, q.id, q.attempt, q.read, q.answer)
<1>1. Qr!Answered([q EXCEPT !.op = op], answer) =
        [[[k EXCEPT !.op = op] EXCEPT !.stage = "done"] EXCEPT !.answer = answer]
  BY QrSame, Zenon DEF Qr!Answered
<1>2. [k EXCEPT !.op = op] = QrAt(q, q.stage, op, q.id, q.attempt, q.read, q.answer)
  BY DEF QrAt, k
<1>3. [QrAt(q, q.stage, op, q.id, q.attempt, q.read, q.answer) EXCEPT !.stage = "done"]
        = QrAt(q, "done", op, q.id, q.attempt, q.read, q.answer)
  BY DEF QrAt
<1>4. [QrAt(q, "done", op, q.id, q.attempt, q.read, q.answer) EXCEPT !.answer = answer]
        = QrAt(q, "done", op, q.id, q.attempt, q.read, answer)
  BY DEF QrAt
<1> HIDE DEF k
<1> QED
  BY <1>1, <1>2, <1>3, <1>4, Zenon

LEMMA QrReadsOn ==
  ASSUME NEW q \in QrCalls, NEW read, NEW answer
  PROVE  Qr!Answered([q EXCEPT !.read = read], answer) =
           QrAt(q, "done", q.op, q.id, q.attempt, read, answer)
<1> DEFINE k == QrAt(q, q.stage, q.op, q.id, q.attempt, q.read, q.answer)
<1>1. Qr!Answered([q EXCEPT !.read = read], answer) =
        [[[k EXCEPT !.read = read] EXCEPT !.stage = "done"] EXCEPT !.answer = answer]
  BY QrSame, Zenon DEF Qr!Answered
<1>2. [k EXCEPT !.read = read] = QrAt(q, q.stage, q.op, q.id, q.attempt, read, q.answer)
  BY DEF QrAt, k
<1>3. [QrAt(q, q.stage, q.op, q.id, q.attempt, read, q.answer) EXCEPT !.stage = "done"]
        = QrAt(q, "done", q.op, q.id, q.attempt, read, q.answer)
  BY DEF QrAt
<1>4. [QrAt(q, "done", q.op, q.id, q.attempt, read, q.answer) EXCEPT !.answer = answer]
        = QrAt(q, "done", q.op, q.id, q.attempt, read, answer)
  BY DEF QrAt
<1> HIDE DEF k
<1> QED
  BY <1>1, <1>2, <1>3, <1>4, Zenon

LEMMA QrEndsWith ==
  ASSUME NEW q \in QrCalls, NEW op, NEW read, NEW answer
  PROVE  Qr!Answered([q EXCEPT !.op = op, !.read = read], answer) =
           QrAt(q, "done", op, q.id, q.attempt, read, answer)
<1> DEFINE k == QrAt(q, q.stage, q.op, q.id, q.attempt, q.read, q.answer)
<1>1. Qr!Answered([q EXCEPT !.op = op, !.read = read], answer) =
        [[[[k EXCEPT !.op = op] EXCEPT !.read = read] EXCEPT !.stage = "done"] EXCEPT !.answer = answer]
  BY QrSame, Zenon DEF Qr!Answered
<1>2. [k EXCEPT !.op = op] = QrAt(q, q.stage, op, q.id, q.attempt, q.read, q.answer)
  BY DEF QrAt, k
<1>3. [QrAt(q, q.stage, op, q.id, q.attempt, q.read, q.answer) EXCEPT !.read = read]
        = QrAt(q, q.stage, op, q.id, q.attempt, read, q.answer)
  BY DEF QrAt
<1>4. [QrAt(q, q.stage, op, q.id, q.attempt, read, q.answer) EXCEPT !.stage = "done"]
        = QrAt(q, "done", op, q.id, q.attempt, read, q.answer)
  BY DEF QrAt
<1>5. [QrAt(q, "done", op, q.id, q.attempt, read, q.answer) EXCEPT !.answer = answer]
        = QrAt(q, "done", op, q.id, q.attempt, read, answer)
  BY DEF QrAt
<1> HIDE DEF k
<1> QED
  BY <1>1, <1>2, <1>3, <1>4, <1>5, Zenon

\* What is read of a record.
LEMMA QrReads ==
  ASSUME QrInv, NEW id \in Ids \cup {Malformed}
  PROVE  /\ Qr!FindById(id) # Nobody =>
              id \in Ids /\ id # Malformed /\ Qr!FindById(id) = records[id]
         /\ \A i \in Ids : records[i] \in Qr!Documents \cup {Nobody}
  BY DEF Qr!FindById, QrInv, QrTypes

\* A call whose kind is none of a scan's or an image's, or that read nothing, keeps no promise.
LEMMA QrPlain ==
  ASSUME NEW q, NEW stage, NEW op \in QrOps \ {"scan", "image"}, NEW id, NEW attempt, NEW read, NEW answer, NEW told
  PROVE  /\ LabelKept(QrAt(q, stage, op, id, attempt, read, answer), records, used)
         /\ ScanKept(QrAt(q, stage, op, id, attempt, read, answer), records, told)
  BY DEF QrAt, LabelKept, ScanKept

\* A POST begins, and draws again after a collision.
LEMMA PostStep == ASSUME QrInv, NEW c \in Calls, Qr!Post(c) \/ Qr!Collides(c) PROVE QrInv'
<1> DEFINE q == qrCall[c]
<1>1. q \in QrCalls /\ LawfulQr(q, inserted[c]) /\ seen' = [seen EXCEPT ![c] = seen[c]]
      /\ UNCHANGED <<records, used, inserted>>
  BY DEF QrInv, QrTypes, Qr!Post, Qr!Collides
<1>2. CASE Qr!Post(c)
  <2> DEFINE k == QrAt(q, "inserting", "post", q.id, q.attempt, q.read, q.answer)
  <2>1. q.stage = "idle" /\ qrCall' = [qrCall EXCEPT ![c] = [q EXCEPT !.stage = "inserting", !.op = "post"]]
    BY <1>2 DEF Qr!Post
  <2>2. qrCall' = [qrCall EXCEPT ![c] = k]
    <3>1. [q EXCEPT !.stage = "inserting", !.op = "post"] = k
      <4> HIDE DEF q
      <4> QED
        BY <1>1, QrStarts, Zenon DEF k
    <3> HIDE DEF q, k
    <3> QED
      BY <2>1, <3>1, Zenon
  <2>3. k \in QrCalls
    BY <1>1, QrFields, ZenonT(60) DEF QrStages, QrOps
  <2>4. LawfulQr(k, inserted[c])
    BY <1>1, <2>1 DEF LawfulQr, QrAt
  <2>5. LabelKept(k, records, used) /\ ScanKept(k, records, seen[c])
    BY QrPlain DEF QrOps
  <2> HIDE DEF q, k
  <2> QED
    BY <1>1, <2>2, <2>3, <2>4, <2>5, QrReadOnly
<1>3. CASE Qr!Collides(c)
  <2>1. PICK stage \in {"inserting", "done"}, n \in {q.attempt, q.attempt + 1}, answer \in {"409", q.answer} :
          /\ q.stage = "inserting" /\ (stage = "inserting" => answer = q.answer)
          /\ qrCall' = [qrCall EXCEPT ![c] = QrAt(q, stage, q.op, q.id, n, q.read, answer)]
    <3>1. q.stage = "inserting"
      BY <1>3 DEF Qr!Collides
    <3>2. \/ qrCall' = [qrCall EXCEPT ![c] = Qr!AnotherSlug(q)]
          \/ qrCall' = [qrCall EXCEPT ![c] = Qr!Answered(q, "409")]
      BY <1>3 DEF Qr!Collides
    <3>3. \/ qrCall' = [qrCall EXCEPT ![c] = QrAt(q, "inserting", q.op, q.id, q.attempt + 1, q.read, q.answer)]
          \/ qrCall' = [qrCall EXCEPT ![c] = QrAt(q, "done", q.op, q.id, q.attempt, q.read, "409")]
      BY <1>1, <3>1, <3>2, QrDrawsAgain, QrAnswered
    <3> HIDE DEF q
    <3> QED
      BY <3>1, <3>3
  <2> DEFINE k == QrAt(q, stage, q.op, q.id, n, q.read, answer)
  <2>2. q.op = "post"
    BY <1>1, <2>1 DEF LawfulQr
  <2>3. n \in Nat /\ answer \in QrAnswers
    BY <1>1, QrFields DEF QrAnswers
  <2>4. k \in QrCalls
    BY <1>1, <2>3, QrFields DEF QrStages
  <2>5. LawfulQr(k, inserted[c])
    BY <1>1, <2>1, <2>2 DEF LawfulQr, QrAt
  <2>6. LabelKept(k, records, used) /\ ScanKept(k, records, seen[c])
    BY <2>2, QrPlain DEF QrOps
  <2> HIDE DEF q, k
  <2> QED
    BY <1>1, <2>1, <2>4, <2>5, <2>6, QrReadOnly DEF k
<1> QED
  BY <1>2, <1>3

\* The index lets a new slug in.
LEMMA InsertKeeps ==
  ASSUME QrInv, NEW c \in Calls, NEW slug \in Slugs, NEW id \in Ids, Qr!Insert(c, slug, id)
  PROVE  /\ records' \in [Ids -> Qr!Documents \cup {Nobody}] /\ UniqueSlugs(records')
         /\ StoredIn(records') \subseteq used' /\ used \subseteq used' /\ Qr!Witnessed
         /\ qrCall[c].stage = "inserting" /\ inserted' = [inserted EXCEPT ![c] = 1]
         /\ \A i \in Ids : i \in used /\ records'[i] # Nobody => records[i] # Nobody /\ records'[i].slug = records[i].slug
<1>1. PICK target \in Targets :
        records' = [records EXCEPT ![id] = [slug |-> slug, target |-> target, active |-> TRUE]]
  BY DEF Qr!Insert
<1>2. PICK b : b = TRUE
  OBVIOUS
<1> DEFINE d == [slug |-> slug, target |-> target, active |-> b]
<1>3. d \in Qr!Documents /\ d.slug = slug /\ records' = [records EXCEPT ![id] = d]
  BY <1>1, <1>2 DEF Qr!Documents
<1> HIDE DEF d
<1>4. /\ ~Qr!IsSlugCollision(slug) /\ id \notin used /\ used' = used \cup {id} /\ Qr!Witnessed
      /\ qrCall[c].stage = "inserting" /\ inserted' = [inserted EXCEPT ![c] = inserted[c] + 1]
  BY DEF Qr!Insert
<1>5. /\ records \in [Ids -> Qr!Documents \cup {Nobody}] /\ UniqueSlugs(records) /\ StoredIn(records) \subseteq used
      /\ LawfulQr(qrCall[c], inserted[c]) /\ inserted \in [Calls -> Nat]
  BY DEF QrInv, QrTypes
<1>6. d # Nobody
  BY <1>3, PlatformAssumption DEF Qr!Documents
<1>7. \A i \in StoredIn(records) : records[i].slug # slug
  BY <1>4, StoreReads DEF Qr!IsSlugCollision
<1>8. /\ records' \in [Ids -> Qr!Documents \cup {Nobody}] /\ records'[id] = d
      /\ \A i \in Ids \ {id} : records'[i] = records[i]
  BY <1>3, <1>5
<1>9. StoredIn(records') = StoredIn(records) \cup {id} /\ id \notin StoredIn(records)
  BY <1>4, <1>5, <1>6, <1>8 DEF StoredIn
<1>10. UniqueSlugs(records')
  BY <1>3, <1>5, <1>7, <1>8, <1>9 DEF UniqueSlugs, StoredIn
<1>11. inserted[c] = 0
  BY <1>4, <1>5 DEF LawfulQr
<1>12. inserted' = [inserted EXCEPT ![c] = 1]
  BY <1>4, <1>11
<1>13. StoredIn(records') \subseteq used' /\ used \subseteq used'
  BY <1>4, <1>5, <1>9
<1>14. \A i \in Ids : i \in used /\ records'[i] # Nobody => records[i] # Nobody /\ records'[i].slug = records[i].slug
  BY <1>4, <1>8
<1> QED
  BY <1>4, <1>8, <1>10, <1>12, <1>13, <1>14

\* A POST is over: stored and answered, or failed whether or not it was stored.
LEMMA CreateStep == ASSUME QrInv, NEW c \in Calls, Qr!Created(c) \/ Qr!CreateFails(c) PROVE QrInv'
<1> DEFINE q == qrCall[c]
<1>1. q \in QrCalls /\ LawfulQr(q, inserted[c])
  BY DEF QrInv, QrTypes
<1>2. PICK answer \in {"201", "500"} :
        /\ qrCall' = [qrCall EXCEPT ![c] = Qr!Answered(q, answer)]
        /\ \/ \E slug \in Slugs, id \in Ids : Qr!Insert(c, slug, id)
           \/ answer = "500" /\ q.stage = "inserting" /\ UNCHANGED <<records, used, inserted, seen>>
  BY DEF Qr!Created, Qr!CreateFails
<1> DEFINE k == QrAt(q, "done", q.op, q.id, q.attempt, q.read, answer)
<1>3. qrCall' = [qrCall EXCEPT ![c] = k]
  BY <1>1, <1>2, QrAnswered
<1>4. q.stage = "inserting"
  BY <1>2 DEF Qr!Insert
<1>5. q.op = "post"
  BY <1>1, <1>4 DEF LawfulQr
<1>6. k \in QrCalls /\ k.op = "post"
  <2>1. answer \in QrAnswers
    BY DEF QrAnswers
  <2>2. k \in QrCalls
    BY <1>1, <2>1, QrFields DEF QrStages
  <2> QED
    BY <1>5, <2>2 DEF QrAt
<1>7. CASE \E slug \in Slugs, id \in Ids : Qr!Insert(c, slug, id)
  <2>1. LawfulQr(k, 1)
    BY <1>5 DEF LawfulQr, QrAt
  <2> HIDE DEF q, k
  <2>2. PICK slug \in Slugs, id \in Ids : Qr!Insert(c, slug, id)
    BY <1>7
  <2> QED
    BY <1>3, <1>6, <2>1, <2>2, InsertKeeps, QrStores
<1>8. CASE answer = "500" /\ q.stage = "inserting" /\ UNCHANGED <<records, used, inserted, seen>>
  <2>1. LawfulQr(k, inserted[c])
    BY <1>1, <1>4, <1>8 DEF LawfulQr, QrAt
  <2>2. LabelKept(k, records, used) /\ ScanKept(k, records, seen[c])
    BY <1>5, QrPlain DEF QrOps
  <2>3. seen' = [seen EXCEPT ![c] = seen[c]]
    BY <1>8 DEF QrInv, QrTypes
  <2> HIDE DEF q, k
  <2> QED
    BY <1>3, <1>6, <1>8, <2>1, <2>2, <2>3, QrReadOnly
<1> QED
  BY <1>2, <1>7, <1>8

\* A call of another kind than a scan or an image moves on, and nothing stored changes.
LEMMA QrQuiet ==
  ASSUME QrInv, NEW c \in Calls, NEW stage \in QrStages, NEW op \in QrOps \ {"scan", "image"},
         NEW id \in Ids \cup {Malformed} \cup Slugs, NEW read \in Readings, NEW answer \in QrAnswers,
         qrCall' = [qrCall EXCEPT ![c] = QrAt(qrCall[c], stage, op, id, qrCall[c].attempt, read, answer)],
         UNCHANGED <<records, used, inserted, seen>>,
         \A q : LawfulQr(QrAt(q, stage, op, id, q.attempt, read, answer), inserted[c])
  PROVE  QrInv'
<1> DEFINE q == qrCall[c]
           k == QrAt(q, stage, op, id, q.attempt, read, answer)
<1>1. q \in QrCalls
  BY DEF QrInv, QrTypes
<1>2. k \in QrCalls
  BY <1>1, QrFields
<1>3. LawfulQr(k, inserted[c])
  OBVIOUS
<1>4. LabelKept(k, records, used) /\ ScanKept(k, records, seen[c])
  BY QrPlain
<1>5. seen' = [seen EXCEPT ![c] = seen[c]]
  BY DEF QrInv, QrTypes
<1> HIDE DEF k
<1> QED
  BY <1>2, <1>3, <1>4, <1>5, QrReadOnly DEF k

\* A change of what is stored that puts no slug and no id in.
LEMMA QrChanges ==
  ASSUME QrInv, NEW c \in Calls, NEW op \in QrOps \ {"scan", "image", "post"}, NEW answer \in QrAnswers \ {"none"},
         NEW i, NEW d \in Qr!Documents \cup {Nobody},
         qrCall[c].stage # "looking", UNCHANGED <<used, inserted>>, Qr!Witnessed,
         qrCall' = [qrCall EXCEPT ![c] =
                      QrAt(qrCall[c], "done", op, qrCall[c].id, qrCall[c].attempt, qrCall[c].read, answer)],
         records' = [records EXCEPT ![i] = d],
         d # Nobody => i \in Ids /\ records[i] # Nobody /\ d.slug = records[i].slug
  PROVE  QrInv'
<1> DEFINE q == qrCall[c]
           k == QrAt(q, "done", op, q.id, q.attempt, q.read, answer)
<1>1. q \in QrCalls /\ LawfulQr(q, inserted[c]) /\ records \in [Ids -> Qr!Documents \cup {Nobody}]
      /\ StoredIn(records) \subseteq used /\ UniqueSlugs(records) /\ inserted \in [Calls -> Nat]
  BY DEF QrInv, QrTypes
<1>2. k \in QrCalls /\ LawfulQr(k, inserted[c]) /\ k.op = op
  <2>1. k \in QrCalls
    BY <1>1, QrFields DEF QrStages
  <2> QED
    BY <1>1, <2>1 DEF LawfulQr, QrAt
<1>3. /\ records' \in [Ids -> Qr!Documents \cup {Nobody}]
      /\ \A j \in Ids : records'[j] # Nobody => records[j] # Nobody /\ records'[j].slug = records[j].slug
  BY <1>1
<1>4. StoredIn(records') \subseteq StoredIn(records)
  BY <1>3 DEF StoredIn
<1>5. UniqueSlugs(records')
  BY <1>1, <1>3, <1>4 DEF UniqueSlugs, StoredIn
<1>6. inserted[c] \in {0, 1} /\ inserted' = [inserted EXCEPT ![c] = inserted[c]]
  BY <1>1 DEF LawfulQr
<1>7. StoredIn(records') \subseteq used' /\ used \subseteq used'
  BY <1>1, <1>4
<1>8. qrCall' = [qrCall EXCEPT ![c] = k] /\ k.op \notin {"scan", "image"}
  BY <1>2
<1>9. \A j \in Ids : j \in used /\ records'[j] # Nobody => records[j] # Nobody /\ records'[j].slug = records[j].slug
  BY <1>3
<1> HIDE DEF q, k
<1>10. PICK n \in {0, 1} : n = inserted[c]
  BY <1>6
<1> QED
  BY <1>2, <1>3, <1>5, <1>6, <1>7, <1>8, <1>9, <1>10, QrStores, ZenonT(60)

\* What idle means.
LEMMA QrIdle ==
  ASSUME QrInv, NEW c \in Calls
  PROVE  /\ qrCall[c] \in QrCalls /\ inserted[c] \in {0, 1}
         /\ qrCall[c].stage = "idle" =>
              inserted[c] = 0 /\ qrCall[c].answer = "none" /\ qrCall[c].read = Nobody /\ ~qrCall[c].aborted
         /\ Nobody \in Readings
  BY DEF QrInv, QrTypes, LawfulQr, Readings

\* A PUT, found or not.
LEMMA PutStep == ASSUME QrInv, NEW c \in Calls, NEW id \in Ids \cup {Malformed}, Qr!Put(c, id) PROVE QrInv'
<1> DEFINE q == qrCall[c]
<1>1. q \in QrCalls /\ q.stage = "idle" /\ UNCHANGED <<used, inserted>>
  BY QrIdle DEF Qr!Put
<1>2. PICK answer \in {"404", "200"} :
        /\ qrCall' = [qrCall EXCEPT ![c] = Qr!Answered([q EXCEPT !.op = "put"], answer)]
        /\ \/ UNCHANGED <<records, seen>>
           \/ /\ Qr!FindById(id) # Nobody /\ Qr!Witnessed
              /\ \E d \in Qr!BuildMongoUpdate(Qr!FindById(id)) : records' = [records EXCEPT ![id] = d]
  BY Zenon DEF Qr!Put
<1>3. qrCall' = [qrCall EXCEPT ![c] = QrAt(q, "done", "put", q.id, q.attempt, q.read, answer)]
  <2> HIDE DEF q
  <2>1. Qr!Answered([q EXCEPT !.op = "put"], answer) = QrAt(q, "done", "put", q.id, q.attempt, q.read, answer)
    BY <1>1, QrEnds, Zenon
  <2> QED
    BY <1>2, <2>1, Zenon
<1>4. answer \in QrAnswers \ {"none"} /\ "put" \in QrOps \ {"scan", "image", "post"}
  BY DEF QrAnswers, QrOps
<1>5. CASE UNCHANGED <<records, seen>>
  <2>1. \A k : LawfulQr(QrAt(k, "done", "put", q.id, k.attempt, q.read, answer), inserted[c])
    BY QrIdle DEF LawfulQr, QrAt
  <2>2. q.id \in Ids \cup {Malformed} \cup Slugs /\ q.read \in Readings /\ "done" \in QrStages
    BY <1>1, QrFields DEF QrStages
  <2> QED
    BY <1>1, <1>3, <1>4, <1>5, <2>1, <2>2, QrQuiet
<1>6. CASE /\ Qr!FindById(id) # Nobody /\ Qr!Witnessed
           /\ \E d \in Qr!BuildMongoUpdate(Qr!FindById(id)) : records' = [records EXCEPT ![id] = d]
  <2>1. PICK d \in Qr!BuildMongoUpdate(Qr!FindById(id)) : records' = [records EXCEPT ![id] = d]
    BY <1>6
  <2>2. id \in Ids /\ Qr!FindById(id) = records[id] /\ records[id] # Nobody /\ records[id] \in Qr!Documents
    BY <1>6, QrReads
  <2>3. PICK t \in Targets, a \in BOOLEAN : d = [slug |-> records[id].slug, target |-> t, active |-> a]
    BY <2>2 DEF Qr!BuildMongoUpdate
  <2>4. d \in Qr!Documents /\ d.slug = records[id].slug
    BY <2>2, <2>3 DEF Qr!Documents
  <2> HIDE DEF q
  <2> QED
    BY <1>1, <1>3, <1>4, <1>6, <2>1, <2>2, <2>4, QrChanges DEF q
<1> QED
  BY <1>2, <1>5, <1>6

\* A DELETE looks first, and deletes afterwards.
LEMMA DeleteBeginStep ==
  ASSUME QrInv, NEW c \in Calls, NEW id \in Ids \cup {Malformed}, Qr!DeleteBegin(c, id) PROVE QrInv'
<1> DEFINE q == qrCall[c]
<1>1. q \in QrCalls /\ q.stage = "idle" /\ UNCHANGED <<records, used, inserted, seen>>
  BY QrIdle DEF Qr!DeleteBegin
<1>2. \/ qrCall' = [qrCall EXCEPT ![c] = Qr!Answered([q EXCEPT !.op = "delete"], "404")]
      \/ qrCall' = [qrCall EXCEPT ![c] = [q EXCEPT !.op = "delete", !.stage = "deleting", !.id = id]]
  BY Zenon DEF Qr!DeleteBegin
<1>3. \/ qrCall' = [qrCall EXCEPT ![c] = QrAt(q, "done", "delete", q.id, q.attempt, q.read, "404")]
      \/ qrCall' = [qrCall EXCEPT ![c] = QrAt(q, "deleting", "delete", id, q.attempt, q.read, q.answer)]
  <2> HIDE DEF q
  <2>1. Qr!Answered([q EXCEPT !.op = "delete"], "404") = QrAt(q, "done", "delete", q.id, q.attempt, q.read, "404")
    BY <1>1, QrEnds, Zenon
  <2>2. [q EXCEPT !.op = "delete", !.stage = "deleting", !.id = id] =
          QrAt(q, "deleting", "delete", id, q.attempt, q.read, q.answer)
    BY <1>1, QrBegins, Zenon
  <2> QED
    BY <1>2, <2>1, <2>2, Zenon
<1>4. PICK stage \in {"done", "deleting"}, at \in {q.id, id}, answer \in {"404", q.answer} :
        qrCall' = [qrCall EXCEPT ![c] = QrAt(q, stage, "delete", at, q.attempt, q.read, answer)]
  <2> HIDE DEF q
  <2> QED
    BY <1>3
<1>5. /\ stage \in QrStages /\ "delete" \in QrOps \ {"scan", "image"} /\ at \in Ids \cup {Malformed} \cup Slugs
      /\ q.read \in Readings /\ answer \in QrAnswers
  BY <1>1, QrFields DEF QrStages, QrOps, QrAnswers
<1>6. \A k : LawfulQr(QrAt(k, stage, "delete", at, k.attempt, q.read, answer), inserted[c])
  BY QrIdle DEF LawfulQr, QrAt
<1> QED
  BY <1>1, <1>4, <1>5, <1>6, QrQuiet

LEMMA DeleteStep == ASSUME QrInv, NEW c \in Calls, Qr!Delete(c) PROVE QrInv'
<1> DEFINE q == qrCall[c]
<1>1. q \in QrCalls /\ q.stage = "deleting" /\ UNCHANGED <<used, inserted>> /\ Qr!Witnessed
      /\ records' = [records EXCEPT ![q.id] = Nobody] /\ qrCall' = [qrCall EXCEPT ![c] = Qr!Answered(q, "204")]
  BY QrIdle DEF Qr!Delete
<1>2. q.op = "delete"
  BY <1>1 DEF QrInv, LawfulQr
<1>3. qrCall' = [qrCall EXCEPT ![c] = QrAt(q, "done", "delete", q.id, q.attempt, q.read, "204")]
  BY <1>1, <1>2, QrAnswered
<1>4. "204" \in QrAnswers \ {"none"} /\ "delete" \in QrOps \ {"scan", "image", "post"}
  BY DEF QrAnswers, QrOps
<1> QED
  BY <1>1, <1>3, <1>4, QrChanges

\* What is read and answered.
LEMMA ReadStep ==
  ASSUME QrInv, NEW c \in Calls,
         \/ \E id \in Ids \cup {Malformed} : Qr!Get(c, id)
         \/ \E active \in {"any", "true", "false"} : Qr!List(c, active)
  PROVE  QrInv'
<1> DEFINE q == qrCall[c]
<1>1. q \in QrCalls /\ q.stage = "idle" /\ UNCHANGED <<records, used, inserted, seen>>
  BY QrIdle DEF Qr!Get, Qr!List
<1>2. PICK op \in {"get", "list"}, read \in Readings, answer \in {"404", "200"} :
        qrCall' = [qrCall EXCEPT ![c] = Qr!Answered([q EXCEPT !.op = op, !.read = read], answer)]
  <2>1. CASE \E id \in Ids \cup {Malformed} : Qr!Get(c, id)
    <3>1. PICK id \in Ids \cup {Malformed} : Qr!Get(c, id)
      BY <2>1
    <3>2. Qr!FindById(id) \in Readings
      BY QrReads DEF Qr!FindById, Readings
    <3>3. PICK answer \in {"404", "200"} : answer = IF Qr!FindById(id) = Nobody THEN "404" ELSE "200"
      OBVIOUS
    <3>4. qrCall' = [qrCall EXCEPT ![c] = Qr!Answered([q EXCEPT !.op = "get", !.read = Qr!FindById(id)], answer)]
      BY <3>1, <3>3, Zenon DEF Qr!Get
    <3> QED
      BY <3>2, <3>4, Zenon
  <2>2. CASE \E active \in {"any", "true", "false"} : Qr!List(c, active)
    <3>1. PICK active \in {"any", "true", "false"} : Qr!List(c, active)
      BY <2>2
    <3>2. Qr!Matching(active) \in Readings
      <4>1. \A i \in Qr!Stored : records[i] \in Qr!Documents
        BY QrReads DEF Qr!Stored
      <4>2. Qr!Matching(active) \subseteq Qr!Documents
        BY <4>1 DEF Qr!Matching
      <4> QED
        BY <4>2 DEF Readings
    <3>3. qrCall' = [qrCall EXCEPT ![c] = Qr!Answered([q EXCEPT !.op = "list", !.read = Qr!Matching(active)], "200")]
      BY <3>1, Zenon DEF Qr!List
    <3> QED
      BY <3>2, <3>3, Zenon
  <2> QED
    BY <2>1, <2>2
<1>3. qrCall' = [qrCall EXCEPT ![c] = QrAt(q, "done", op, q.id, q.attempt, read, answer)]
  <2> HIDE DEF q
  <2>1. Qr!Answered([q EXCEPT !.op = op, !.read = read], answer) = QrAt(q, "done", op, q.id, q.attempt, read, answer)
    BY <1>1, QrEndsWith, Zenon
  <2> QED
    BY <1>2, <2>1, Zenon
<1>4. /\ "done" \in QrStages /\ op \in QrOps \ {"scan", "image"} /\ q.id \in Ids \cup {Malformed} \cup Slugs
      /\ answer \in QrAnswers
  BY <1>1, QrFields DEF QrStages, QrOps, QrAnswers
<1>5. \A k : LawfulQr(QrAt(k, "done", op, q.id, k.attempt, read, answer), inserted[c])
  BY QrIdle DEF LawfulQr, QrAt
<1> QED
  BY <1>1, <1>3, <1>4, <1>5, QrQuiet

\* An image is made of what was read of its record.
LEMMA ImageStep ==
  ASSUME QrInv, NEW c \in Calls, NEW id \in Ids \cup {Malformed}, Qr!ImageBegin(c, id) PROVE QrInv'
<1> DEFINE q == qrCall[c]
<1>1. q \in QrCalls /\ q.stage = "idle" /\ q.read = Nobody /\ UNCHANGED <<records, used, inserted>>
      /\ seen' = [seen EXCEPT ![c] = seen[c]] /\ inserted[c] = 0 /\ q.answer = "none"
  BY QrIdle DEF Qr!ImageBegin, QrInv, QrTypes
<1>2. \/ qrCall' = [qrCall EXCEPT ![c] = Qr!Answered([q EXCEPT !.op = "image"], "404")]
      \/ /\ Qr!FindById(id) # Nobody
         /\ qrCall' = [qrCall EXCEPT ![c] =
                         [q EXCEPT !.op = "image", !.stage = "rendering", !.id = id, !.read = Qr!FindById(id)]]
  BY Zenon DEF Qr!ImageBegin
<1>3. CASE qrCall' = [qrCall EXCEPT ![c] = Qr!Answered([q EXCEPT !.op = "image"], "404")]
  <2> DEFINE k == QrAt(q, "done", "image", q.id, q.attempt, q.read, "404")
  <2>1. qrCall' = [qrCall EXCEPT ![c] = k]
    <3>1. Qr!Answered([q EXCEPT !.op = "image"], "404") = k
      <4> HIDE DEF q
      <4> QED
        BY <1>1, QrEnds, Zenon
    <3> HIDE DEF q, k
    <3> QED
      BY <1>3, <3>1, Zenon
  <2>2. k \in QrCalls
    BY <1>1, QrFields DEF QrStages, QrOps, QrAnswers
  <2>3. LawfulQr(k, inserted[c]) /\ LabelKept(k, records, used) /\ ScanKept(k, records, seen[c])
    BY <1>1 DEF LawfulQr, LabelKept, ScanKept, QrAt
  <2> HIDE DEF q, k
  <2> QED
    BY <1>1, <2>1, <2>2, <2>3, QrReadOnly
<1>4. CASE /\ Qr!FindById(id) # Nobody
           /\ qrCall' = [qrCall EXCEPT ![c] =
                           [q EXCEPT !.op = "image", !.stage = "rendering", !.id = id, !.read = Qr!FindById(id)]]
  <2>1. PICK d \in Qr!Documents : Qr!FindById(id) = d /\ records[id] = d /\ id \in Ids
    BY <1>4, QrReads
  <2> DEFINE k == QrAt(q, "rendering", "image", id, q.attempt, d, q.answer)
  <2>2. qrCall' = [qrCall EXCEPT ![c] = k]
    <3>1. [q EXCEPT !.op = "image", !.stage = "rendering", !.id = id, !.read = d] = k
      <4> HIDE DEF q
      <4> QED
        BY <1>1, QrImages, Zenon
    <3> HIDE DEF q, k
    <3> QED
      BY <1>4, <2>1, <3>1, Zenon
  <2>3. k \in QrCalls
    BY <1>1, <2>1, QrFields DEF QrStages, QrOps, Readings
  <2>4. LawfulQr(k, inserted[c]) /\ ScanKept(k, records, seen[c])
    BY <1>1 DEF LawfulQr, ScanKept, QrAt
  <2>5. id \in used
    BY <1>4, <2>1 DEF QrInv, StoredIn
  <2>6. LabelKept(k, records, used)
    BY <2>1, <2>5 DEF LabelKept, QrAt
  <2> HIDE DEF q, k
  <2> QED
    BY <1>1, <2>2, <2>3, <2>4, <2>6, QrReadOnly
<1> QED
  BY <1>2, <1>3, <1>4

LEMMA RenderStep == ASSUME QrInv, NEW c \in Calls, Qr!Render(c) PROVE QrInv'
<1> DEFINE q == qrCall[c]
           k == QrAt(q, "done", q.op, q.id, q.attempt, q.read, "200")
<1>1. q \in QrCalls /\ q.stage = "rendering" /\ UNCHANGED <<records, used, inserted>>
      /\ seen' = [seen EXCEPT ![c] = seen[c]] /\ LawfulQr(q, inserted[c]) /\ LabelKept(q, records, used)
      /\ qrCall' = [qrCall EXCEPT ![c] = Qr!Answered(q, "200")]
  BY DEF Qr!Render, QrInv, QrTypes
<1>2. qrCall' = [qrCall EXCEPT ![c] = k]
  BY <1>1, QrAnswered
<1>3. k \in QrCalls
  BY <1>1, QrFields DEF QrStages, QrAnswers
<1>4. LawfulQr(k, inserted[c]) /\ LabelKept(k, records, used) /\ ScanKept(k, records, seen[c])
  BY <1>1 DEF LawfulQr, LabelKept, ScanKept, QrAt
<1> HIDE DEF q, k
<1> QED
  BY <1>1, <1>2, <1>3, <1>4, QrReadOnly

\* A scan arrives.
LEMMA ScanStep == ASSUME QrInv, NEW c \in Calls, NEW slug \in Slugs, Qr!Scan(c, slug) PROVE QrInv'
<1> DEFINE q == qrCall[c]
           k == QrAt(q, "looking", "scan", slug, q.attempt, q.read, q.answer)
           told == Qr!LeadsTo(Qr!FindBySlug(slug))
<1>1. q \in QrCalls /\ q.stage = "idle" /\ UNCHANGED <<records, used, inserted>>
      /\ seen' = [seen EXCEPT ![c] = told]
      /\ qrCall' = [qrCall EXCEPT ![c] = [q EXCEPT !.op = "scan", !.stage = "looking", !.id = slug]]
  BY QrIdle DEF Qr!Scan
<1>2. inserted[c] = 0 /\ q.answer = "none"
  BY <1>1, QrIdle
<1>3. qrCall' = [qrCall EXCEPT ![c] = k]
  <2>1. [q EXCEPT !.op = "scan", !.stage = "looking", !.id = slug] = k
    <3> HIDE DEF q
    <3> QED
      BY <1>1, QrBegins, Zenon
  <2> HIDE DEF q, k
  <2> QED
    BY <1>1, <2>1, Zenon
<1>4. k \in QrCalls
  BY <1>1, QrFields DEF QrStages, QrOps
<1>5. told = Qr!LeadsTo(OfSlug(records, slug))
  BY StoreReads
<1>6. LawfulQr(k, inserted[c]) /\ LabelKept(k, records, used) /\ ScanKept(k, records, told)
  <2> HIDE DEF told
  <2> QED
    BY <1>2, <1>5 DEF LawfulQr, LabelKept, ScanKept, QrAt
<1> HIDE DEF q, k, told
<1> QED
  BY <1>1, <1>3, <1>4, <1>6, QrReadOnly

\* Its client leaves.
LEMMA DisconnectStep == ASSUME QrInv, NEW c \in Calls, Qr!Disconnect(c) PROVE QrInv'
<1> DEFINE q == qrCall[c]
<1>1. PICK b : b = TRUE
  OBVIOUS
<1> DEFINE k == [stage |-> q.stage, op |-> q.op, id |-> q.id, attempt |-> q.attempt, read |-> q.read, aborted |-> b,
                 answer |-> q.answer]
<1>2. q \in QrCalls /\ q.stage = "looking" /\ q.op = "scan" /\ UNCHANGED <<records, used, inserted>>
      /\ seen' = [seen EXCEPT ![c] = seen[c]] /\ LawfulQr(q, inserted[c]) /\ ScanKept(q, records, seen[c])
  BY DEF Qr!Disconnect, Qr!Scanning, QrInv, QrTypes
<1>3. qrCall' = [qrCall EXCEPT ![c] = [qrCall[c] EXCEPT !.aborted = TRUE]]
  BY Zenon DEF Qr!Disconnect
<1>4. [q EXCEPT !.aborted = TRUE] = k
  <2>1. q = QrAt(q, q.stage, q.op, q.id, q.attempt, q.read, q.answer)
    BY <1>2, QrSame
  <2>2. [QrAt(q, q.stage, q.op, q.id, q.attempt, q.read, q.answer) EXCEPT !.aborted = b] = k
    BY DEF QrAt
  <2> HIDE DEF q, k
  <2> QED
    BY <1>1, <2>1, <2>2, Zenon
<1>5. qrCall' = [qrCall EXCEPT ![c] = k]
  BY <1>3, <1>4, Zenon
<1>6. k \in QrCalls
  BY <1>1, <1>2, QrFields DEF QrCalls
<1>7. LawfulQr(k, inserted[c]) /\ LabelKept(k, records, used) /\ ScanKept(k, records, seen[c])
  BY <1>2 DEF LawfulQr, LabelKept, ScanKept
<1> HIDE DEF q, k
<1> QED
  BY <1>2, <1>5, <1>6, <1>7, QrReadOnly

\* What a slug leads to is a target, or nothing.
LEMMA LeadsSomewhere ==
  ASSUME QrInv, NEW slug
  PROVE  /\ Qr!LeadsTo(OfSlug(records, slug)) # {}
         /\ Qr!LeadsTo(OfSlug(records, slug)) \subseteq Targets \cup {Nobody}
<1>1. OfSlug(records, slug) \subseteq Qr!Documents
  BY QrReads DEF OfSlug
<1>2. \A d \in Qr!Documents : d.target \in Targets
  BY DEF Qr!Documents
<1> QED
  BY <1>1, <1>2 DEF Qr!LeadsTo

\* The lookup is answered, refused, cut off or cancelled.
LEMMA RedirectStep == ASSUME QrInv, NEW c \in Calls, Qr!Redirect(c) PROVE QrInv'
<1> DEFINE q == qrCall[c]
           to == CHOOSE t \in Qr!LeadsTo(Qr!FindBySlug(q.id)) : TRUE
<1>1. q \in QrCalls /\ q.stage = "looking" /\ q.op = "scan" /\ UNCHANGED <<records, used, inserted>>
      /\ seen' = [seen EXCEPT ![c] = seen[c]] /\ LawfulQr(q, inserted[c]) /\ ScanKept(q, records, seen[c])
  BY DEF Qr!Redirect, Qr!Scanning, QrInv, QrTypes
<1>2. PICK outcome \in Qr!Lookups(c) :
        qrCall' = [qrCall EXCEPT ![c] =
                     IF outcome # "read" THEN Qr!Answered(q, Qr!Translated(c, outcome))
                     ELSE Qr!Answered([q EXCEPT !.read = to], IF to = Nobody THEN "404" ELSE "302")]
  BY Zenon DEF Qr!Redirect
<1>3. to \in seen[c] /\ to \in Readings
  <2>1. to \in Qr!LeadsTo(OfSlug(records, q.id))
    BY StoreReads, LeadsSomewhere
  <2>2. to \in seen[c]
    BY <1>1, <2>1 DEF ScanKept
  <2> QED
    BY <2>1, <2>2, LeadsSomewhere DEF Readings
<1>4. PICK read \in {q.read, to}, answer \in {"302", "404", "500", "503", "504", "cancelled"} :
        /\ qrCall' = [qrCall EXCEPT ![c] = QrAt(q, "done", q.op, q.id, q.attempt, read, answer)]
        /\ answer \in {"302", "404"} => read = to
        /\ answer = "504" => ~q.aborted
  <2>1. CASE outcome = "read"
    <3>1. PICK answer \in {"404", "302"} : answer = IF to = Nobody THEN "404" ELSE "302"
      OBVIOUS
    <3>2. qrCall' = [qrCall EXCEPT ![c] = Qr!Answered([q EXCEPT !.read = to], answer)]
      BY <1>2, <2>1, <3>1, Zenon
    <3>3. Qr!Answered([q EXCEPT !.read = to], answer) = QrAt(q, "done", q.op, q.id, q.attempt, to, answer)
      <4> HIDE DEF q, to
      <4> QED
        BY <1>1, QrReadsOn, Zenon
    <3>4. qrCall' = [qrCall EXCEPT ![c] = QrAt(q, "done", q.op, q.id, q.attempt, to, answer)]
      <4> HIDE DEF q, to
      <4> QED
        BY <3>2, <3>3, Zenon
    <3> HIDE DEF q, to
    <3> QED
      BY <3>4
  <2>2. CASE outcome # "read"
    <3>1. PICK answer \in {"500", "503", "504", "cancelled"} :
            answer = Qr!Translated(c, outcome) /\ (answer = "504" => ~q.aborted)
      BY <2>2 DEF Qr!Translated, Qr!Lookups
    <3>2. qrCall' = [qrCall EXCEPT ![c] = Qr!Answered(q, answer)]
      <4> HIDE DEF q, to
      <4> QED
        BY <1>2, <2>2, <3>1, Zenon
    <3>3. qrCall' = [qrCall EXCEPT ![c] = QrAt(q, "done", q.op, q.id, q.attempt, q.read, answer)]
      BY <1>1, <3>2, QrAnswered
    <3> HIDE DEF q, to
    <3> QED
      BY <3>1, <3>3
  <2> QED
    BY <2>1, <2>2
<1> HIDE DEF to
<1> DEFINE k == QrAt(q, "done", q.op, q.id, q.attempt, read, answer)
<1>5. k \in QrCalls
  BY <1>1, <1>3, QrFields, ZenonT(60) DEF QrStages, QrAnswers
<1>6. LawfulQr(k, inserted[c]) /\ LabelKept(k, records, used) /\ ScanKept(k, records, seen[c])
  BY <1>1, <1>3, <1>4 DEF LawfulQr, LabelKept, ScanKept, QrAt
<1> HIDE DEF q
<1>7. qrCall' = [qrCall EXCEPT ![c] = k]
  BY <1>4
<1> HIDE DEF k
<1> QED
  BY <1>1, <1>5, <1>6, <1>7, QrReadOnly

\* Every step keeps the invariant.
LEMMA QrStep == QrInv /\ [Qr!Next]_(Qr!vars) => QrInv'
<1> SUFFICES ASSUME QrInv, [Qr!Next]_(Qr!vars) PROVE QrInv'
  OBVIOUS
<1>1. CASE UNCHANGED Qr!vars \/ Qr!HalfOpens
  <2>1. UNCHANGED <<records, used, qrCall, inserted, seen>>
    BY <1>1 DEF Qr!vars, Qr!HalfOpens
  <2> QED
    BY <2>1 DEF QrInv, QrTypes
<1>2. CASE Qr!Next
  BY <1>1, <1>2, PostStep, CreateStep, PutStep, DeleteBeginStep, DeleteStep, ReadStep, ImageStep, RenderStep,
     ScanStep, DisconnectStep, RedirectStep DEF Qr!Next
<1> QED
  BY <1>1, <1>2

\* What the invariant says of posts, labels and scans.
LEMMA QrHolds == QrInv => Qr!QrCodesSound
<1> SUFFICES ASSUME QrInv PROVE Qr!QrCodesSound
  OBVIOUS
<1>1. Qr!OnePerPost
  BY DEF QrInv, LawfulQr, Qr!OnePerPost
<1>2. Qr!ScansHonest
  BY DEF QrInv, LawfulQr, ScanKept, Qr!ScansHonest
<1>3. ASSUME NEW c \in Calls, qrCall[c].op = "image", qrCall[c].read # Nobody, records[qrCall[c].id] # Nobody
      PROVE  /\ records[qrCall[c].id].slug = qrCall[c].read.slug
             /\ Qr!Cardinality(Qr!FindBySlug(qrCall[c].read.slug)) = 1
  <2> DEFINE i == qrCall[c].id
             slug == qrCall[c].read.slug
  <2>1. i \in Ids /\ records[i].slug = slug
    BY <1>3 DEF QrInv, LabelKept
  <2>2. OfSlug(records, slug) = {records[i]}
    BY <1>3, <2>1 DEF QrInv, UniqueSlugs, StoredIn, OfSlug
  <2>3. Qr!FindBySlug(slug) = {records[i]}
    BY <2>2, StoreReads
  <2> QED
    <3>1. Cardinality({records[i]}) = 1
      BY FS_Singleton
    <3> QED
      BY <2>1, <2>3, <3>1 DEF Qr!Cardinality, Cardinality
<1>4. Qr!LabelsHold
  BY <1>3 DEF Qr!LabelsHold
<1> QED
  BY <1>1, <1>2, <1>4 DEF Qr!QrCodesSound

----------------------------------------------------------------------------
(* InboundAuth: what a caller is told of a credential *)

DoorRoutes == {a[1] : a \in Arrivals} \cup {Nobody}
DoorTokens == {a[2] : a \in Arrivals} \cup {Nobody}
DoorFailures == [reason : Door!Reasons \ {"ok"}, at : Nat]
RoleSets ==
  {{}} \cup {a[2].roles : a \in Arrivals}
    \cup {Methods[m].roles : m \in {n \in DOMAIN Methods : Methods[n].type # "bearer-jwt"}}
DoorRequests ==
  [at : {"new", "verify", "waiting", "done"}, route : DoorRoutes, token : DoorTokens, tried : Nat,
   failures : Seq(DoorFailures), answer : Door!Answers, by : DOMAIN Methods \cup {Nobody}, roles : RoleSets,
   blind : BOOLEAN]
DoorCaches == [have : BOOLEAN, keys : SUBSET Keys, at : Nat, pending : BOOLEAN, asked : SUBSET Keys, began : Nat]

DoorTypes ==
  /\ idp \in [keys : SUBSET Keys, since : [Keys -> 0 .. Door!Never]]
  /\ cache \in [Door!RemoteSets -> DoorCaches]
  /\ req \in [Callers -> DoorRequests]
  /\ doorNow \in 0 .. DoorMaxTime
  /\ doorFaults \in 0 .. DoorMaxFaults

\* A published key has been published, the first one from the start.
Published(p, time) == p.since[FirstKey] = 0 /\ \A k \in p.keys : p.since[k] <= time

\* A key that a fetched set lacks was published while the set was fetched, or later; a fetch in flight is in time.
CacheFair(c, p, time) ==
  /\ c.have => /\ c.at <= time
               /\ \A k \in p.keys : k \notin c.keys => k # FirstKey /\ c.at <= p.since[k] + FetchTimeout
  /\ c.pending => /\ c.began <= time /\ time <= c.began + FetchTimeout
                  /\ \A k \in p.keys : k \notin c.asked => k # FirstKey /\ c.began <= p.since[k]

DoorChain(q) == Door!Options(q.route).methods

\* A request that a verifier has before it: of a route that names methods, all of them configured.
BeforeVerifier(q) ==
  /\ q.answer = "none" /\ <<q.route, q.token>> \in Arrivals
  /\ ~Door!Options(q.route).anonymous
  /\ Door!ToSet(DoorChain(q)) \subseteq DOMAIN Methods
  /\ q.tried = Len(q.failures) /\ q.tried < Len(DoorChain(q))

\* One that waits for keys, waits for those of a remote set.
Waits(q) ==
  LET m == DoorChain(q)[q.tried + 1]
  IN /\ Methods[m].type = "bearer-jwt" /\ Door!Unasked(m, q.token) = "none"
     /\ \E row \in Door!RowOf(m, q.token) : row.source = "jwks"

\* It is blind that a key source failed.
DoorTold(q, time) ==
  /\ q.blind <=> \E i \in DOMAIN q.failures : q.failures[i].reason = "indeterminate"
  /\ \A i \in DOMAIN q.failures : q.failures[i].at <= time

DoorLawful(q, time) ==
  /\ q.at = "new" => q.failures = <<>> /\ q.tried = 0 /\ q.answer = "none"
  /\ q.at \in {"verify", "waiting"} => BeforeVerifier(q)
  /\ q.at = "waiting" => Waits(q)
  /\ DoorTold(q, time)
  /\ q.answer = "unauthorized" => ~q.blind
  /\ q.answer = "unavailable" => q.blind
  /\ q.answer = "handled" => Door!MayPass(q)

\* A failure of this reason, at this time, by the i-th method is one that RotationIsSeen allows.
SeenBy(q, i, reason, at, p) ==
  LET key == q.token.signedBy
  IN /\ Door!Good(q, i) /\ reason # "indeterminate"
     /\ q.token.kid \in {Nobody, key} /\ key \in p.keys
     => /\ key # FirstKey
        /\ at <= p.since[key] + FetchTimeout + (IF q.token.kid = Nobody THEN KeysTtl ELSE Cooldown)
AllSeen(q, p) == \A i \in DOMAIN q.failures : SeenBy(q, i, q.failures[i].reason, q.failures[i].at, p)

DoorInv ==
  /\ DoorTypes /\ Published(idp, doorNow)
  /\ \A s \in Door!RemoteSets : CacheFair(cache[s], idp, doorNow)
  /\ \A r \in Callers : DoorLawful(req[r], doorNow) /\ AllSeen(req[r], idp)

LEMMA DoorHolds == DoorInv => Door!DoorHonest
<1> SUFFICES ASSUME DoorInv PROVE Door!DoorHonest
  OBVIOUS
<1>1. Door!RotationIsSeen
  BY DEF DoorInv, AllSeen, SeenBy, Door!RotationIsSeen, Door!SeenInTime
<1>2. Door!OutageIsNotBlamed
  BY DEF DoorInv, DoorLawful, DoorTold, Door!OutageIsNotBlamed
<1>3. Door!AdmittedAsDecorated
  BY DEF DoorInv, DoorLawful, Door!AdmittedAsDecorated
<1> QED
  BY <1>1, <1>2, <1>3 DEF Door!DoorHonest

\* What the assumption says of the settings.
LEMMA DoorSettings ==
  /\ FirstKey \in Keys /\ KeysTtl \in Nat /\ Cooldown \in Nat /\ FetchTimeout \in Nat
  /\ DoorMaxTime \in Nat /\ DoorMaxFaults \in Nat /\ Door!ConfigValid /\ Door!RoutesValid
BY PlatformAssumption DEF Door!DoorAssumption

LEMMA DoorInit == Door!Init => DoorInv
<1> SUFFICES ASSUME Door!Init PROVE DoorInv
  OBVIOUS
<1>1. Door!NoRequest \in DoorRequests /\ DoorLawful(Door!NoRequest, 0) /\ AllSeen(Door!NoRequest, idp)
  <2>1. <<>> \in Seq(DoorFailures) /\ DOMAIN <<>> = {}
    OBVIOUS
  <2> QED
    BY <2>1 DEF Door!NoRequest, DoorRequests, DoorRoutes, DoorTokens, RoleSets, Door!Answers, DoorLawful, DoorTold, AllSeen
<1>2. idp \in [keys : SUBSET Keys, since : [Keys -> 0 .. Door!Never]] /\ Published(idp, 0)
  BY DoorSettings DEF Door!Init, Door!Never, Published
<1>3. cache \in [Door!RemoteSets -> DoorCaches] /\ \A s \in Door!RemoteSets : CacheFair(cache[s], idp, 0)
  BY DEF Door!Init, DoorCaches, CacheFair
<1> QED
  BY <1>1, <1>2, <1>3, DoorSettings DEF DoorInv, DoorTypes, Door!Init

\* The chain of a route that arrives is a sequence.
LEMMA ChainTyped ==
  ASSUME NEW a \in Arrivals
  PROVE  /\ Len(Door!Options(a[1]).methods) \in Nat
         /\ DOMAIN Door!Options(a[1]).methods = 1 .. Len(Door!Options(a[1]).methods)
         /\ \A i \in DOMAIN Door!Options(a[1]).methods :
              Door!Options(a[1]).methods[i] \in Door!ToSet(Door!Options(a[1]).methods)
<1> DEFINE methods == Door!Options(a[1]).methods
<1>1. CASE a[1].door = "api"
  <2>1. methods = IF a[1].method.methods = <<>> THEN a[1].class.methods ELSE a[1].method.methods
    BY <1>1 DEF Door!Options, Door!Merge
  <2>2. Door!Decorated(a[1].class) /\ Door!Decorated(a[1].method)
    BY <1>1, DoorSettings DEF Door!RoutesValid
  <2>3. methods \in Seq(Door!ToSet(methods))
    BY <2>1, <2>2 DEF Door!Decorated
  <2> HIDE DEF methods
  <2> QED
    BY <2>3 DEF Door!ToSet
<1>2. CASE a[1].door = "mcp"
  <2>1. methods = <<a[1].endpoint>>
    BY <1>2 DEF Door!Options, Door!EndpointOptions
  <2> HIDE DEF methods
  <2> QED
    BY <2>1 DEF Door!ToSet
<1> QED
  BY <1>1, <1>2, DoorSettings DEF Door!RoutesValid

\* What two sequences say together, each of them says.
LEMMA ToSetBoth ==
  ASSUME NEW S, NEW T, NEW a \in Seq(S), NEW b \in Seq(T)
  PROVE  Door!ToSet(a) \cup Door!ToSet(b) \subseteq Door!ToSet(a \o b)
<1>1. /\ DOMAIN a = 1 .. Len(a) /\ DOMAIN b = 1 .. Len(b) /\ Len(a) \in Nat /\ Len(b) \in Nat
      /\ DOMAIN (a \o b) = 1 .. Len(a) + Len(b)
      /\ \A i \in 1 .. Len(a) : (a \o b)[i] = a[i]
      /\ \A i \in 1 .. Len(b) : (a \o b)[Len(a) + i] = b[i]
  BY ConcatProperties
<1>2. \A i \in 1 .. Len(b) : Len(a) + i \in 1 .. Len(a) + Len(b)
  BY <1>1
<1>3. \A i \in 1 .. Len(a) : i \in 1 .. Len(a) + Len(b)
  BY <1>1
<1> QED
  BY <1>1, <1>2, <1>3 DEF Door!ToSet

\* The store concatenates the entries.
LEMMA MergedRoles ==
  ASSUME NEW c, NEW d
  PROVE  Door!Merge(c, d).roles = c.roles \o d.roles
<1> DEFINE both == c.roles \o d.roles
           anonymous == c.anonymous \/ d.anonymous
           methods == IF d.methods = <<>> THEN c.methods ELSE d.methods
<1>1. Door!Merge(c, d) = [anonymous |-> anonymous, methods |-> methods, roles |-> both]
  BY DEF Door!Merge
<1> HIDE DEF both, anonymous, methods
<1>2. Door!Merge(c, d).roles = both
  BY <1>1
<1> QED
  BY <1>2 DEF both

\* One more at the end.
LEMMA Appended ==
  ASSUME NEW S, NEW s \in Seq(S), NEW e \in S
  PROVE  /\ Append(s, e) \in Seq(S) /\ Len(Append(s, e)) = Len(s) + 1 /\ Len(s) \in Nat
         /\ DOMAIN Append(s, e) = 1 .. Len(s) + 1 /\ DOMAIN s = 1 .. Len(s)
         /\ Append(s, e)[Len(s) + 1] = e
         /\ \A i \in 1 .. Len(s) : Append(s, e)[i] = s[i]
OBVIOUS

\* Whoever is admitted by a method of the chain passes as the decorators say, or is forbidden.
LEMMA AdmittedLawful ==
  ASSUME NEW q \in DoorRequests, NEW time, DoorTold(q, time), BeforeVerifier(q), NEW roles \in RoleSets
  PROVE  LET k == Door!Admitted(q, DoorChain(q)[q.tried + 1], roles)
         IN k \in DoorRequests /\ DoorLawful(k, time) /\ k.failures = q.failures /\ k.route = q.route /\ k.token = q.token
<1> DEFINE m == DoorChain(q)[q.tried + 1]
           k == Door!Admitted(q, m, roles)
           answer == IF Door!Satisfies(roles, Door!Options(q.route).roles) THEN "handled" ELSE "forbidden"
<1>1. <<q.route, q.token>> \in Arrivals /\ q.tried + 1 \in DOMAIN DoorChain(q)
  BY ChainTyped DEF BeforeVerifier, DoorRequests, DoorChain
<1>2. m \in Door!ToSet(DoorChain(q)) /\ m \in DOMAIN Methods
  BY <1>1 DEF Door!ToSet, BeforeVerifier
<1>3. /\ k \in DoorRequests
      /\ k.at = "done" /\ k.answer = answer /\ k.by = m /\ k.roles = roles
      /\ k.failures = q.failures /\ k.route = q.route /\ k.token = q.token /\ k.blind = q.blind
  BY <1>2 DEF Door!Admitted, Door!Ended, DoorRequests, Door!Answers
<1>4. ASSUME Door!Satisfies(roles, Door!Options(q.route).roles) PROVE Door!MayPass(k)
  <2> DEFINE route == q.route
  <2>1. Nobody \notin roles
    BY PlatformAssumption DEF RoleSets, Door!DoorAssumption
  <2>2. CASE route.door = "mcp"
    <3>1. m = route.endpoint
      BY <2>2, <1>2 DEF DoorChain, Door!Options, Door!EndpointOptions, Door!ToSet
    <3>2. {Door!LevelRole(route)} \in Door!ToSet(Door!Options(q.route).roles)
      <4> DEFINE doors == Door!DoorRoles(route)
                 level == {Door!LevelRole(route)}
      <4>1. Door!Options(q.route).roles = <<doors>> \o <<level>>
        BY <2>2 DEF Door!Options, Door!EndpointOptions, Door!RequireRoles
      <4> HIDE DEF doors, level
      <4>2. (<<doors>> \o <<level>>)[2] = level /\ 2 \in DOMAIN (<<doors>> \o <<level>>)
        OBVIOUS
      <4> QED
        BY <4>1, <4>2 DEF Door!ToSet, level
    <3>3. Door!LevelRole(route) \in roles
      BY <3>2, <1>4 DEF Door!Satisfies
    <3> QED
      BY <1>3, <2>1, <2>2, <3>1, <3>3 DEF Door!MayPass, Door!LevelRole
  <2>3. CASE route.door = "api"
    <3>1. Door!Decorated(route.class) /\ Door!Decorated(route.method)
      BY <1>1, <2>3, DoorSettings DEF Door!RoutesValid
    <3>2. Door!Options(q.route) = Door!Merge(route.class, route.method)
      BY <2>3 DEF Door!Options
    <3>3. Door!ToSet(route.class.roles) \cup Door!ToSet(route.method.roles) \subseteq Door!ToSet(Door!Options(q.route).roles)
      <4>1. Door!Options(q.route).roles = route.class.roles \o route.method.roles
        BY <3>2, MergedRoles
      <4> DEFINE a == route.class.roles
                 b == route.method.roles
      <4>2. a \in Seq(Door!ToSet(a)) /\ b \in Seq(Door!ToSet(b))
        BY <3>1 DEF Door!Decorated
      <4> HIDE DEF a, b
      <4>3. Door!ToSet(a) \cup Door!ToSet(b) \subseteq Door!ToSet(a \o b)
        BY <4>2, ToSetBoth
      <4> QED
        BY <4>1, <4>3 DEF a, b
    <3>4. m \in Door!ToSet(IF route.method.methods = <<>> THEN route.class.methods ELSE route.method.methods)
      BY <1>2, <3>2 DEF DoorChain, Door!Merge
    <3> QED
      BY <1>3, <1>4, <2>3, <3>3, <3>4 DEF Door!MayPass, Door!Satisfies
  <2> QED
    BY <1>1, <2>2, <2>3, DoorSettings DEF Door!RoutesValid
<1>5. DoorLawful(k, time)
  <2> HIDE DEF k, m
  <2> QED
    BY <1>3, <1>4 DEF DoorLawful, DoorTold
<1> QED
  BY <1>3, <1>5

\* Judged for a reason: admitted, before the next method, or refused; the failure is remembered with its time.
LEMMA JudgedLawful ==
  ASSUME NEW q \in DoorRequests, BeforeVerifier(q), NEW reason \in Door!Reasons, doorNow \in Nat,
         q.blind <=> reason = "indeterminate" \/ \E i \in DOMAIN q.failures : q.failures[i].reason = "indeterminate",
         \A i \in DOMAIN q.failures : q.failures[i].at <= doorNow
  PROVE  LET k == Door!Judged(q, reason)
         IN /\ k \in DoorRequests /\ DoorLawful(k, doorNow) /\ k.route = q.route /\ k.token = q.token
            /\ k.failures = IF reason = "ok" THEN q.failures
                            ELSE Append(q.failures, [reason |-> reason, at |-> doorNow])
<1> DEFINE k == Door!Judged(q, reason)
           f == [reason |-> reason, at |-> doorNow]
           failures == Append(q.failures, f)
           methods == Door!Options(q.route).methods
<1>1. CASE reason = "ok"
  <2>1. k = Door!Admitted(q, DoorChain(q)[q.tried + 1], q.token.roles)
    BY <1>1 DEF Door!Judged, DoorChain
  <2>2. q.token.roles \in RoleSets
    BY DEF BeforeVerifier, RoleSets
  <2>3. DoorTold(q, doorNow)
    BY <1>1 DEF DoorTold
  <2> HIDE DEF k
  <2> QED
    BY <1>1, <2>1, <2>2, <2>3, AdmittedLawful DEF k
<1>2. CASE reason # "ok"
  <2>1. f \in DoorFailures /\ q.failures \in Seq(DoorFailures)
    BY <1>2 DEF DoorFailures, DoorRequests
  <2>2. /\ failures \in Seq(DoorFailures) /\ Len(failures) = Len(q.failures) + 1 /\ Len(q.failures) \in Nat
        /\ DOMAIN failures = 1 .. Len(q.failures) + 1 /\ DOMAIN q.failures = 1 .. Len(q.failures)
        /\ failures[Len(q.failures) + 1] = f
        /\ \A i \in 1 .. Len(q.failures) : failures[i] = q.failures[i]
    <3> HIDE DEF f
    <3> QED
      BY <2>1, Appended
  <2>3. /\ q.blind <=> \E i \in DOMAIN failures : failures[i].reason = "indeterminate"
        /\ \A i \in DOMAIN failures : failures[i].at <= doorNow
    <3> HIDE DEF failures
    <3>1. f.reason = reason /\ f.at = doorNow
      OBVIOUS
    <3> HIDE DEF f
    <3>2. \A i \in DOMAIN failures : i = Len(q.failures) + 1 \/ i \in 1 .. Len(q.failures)
      BY <2>2
    <3>3. Len(q.failures) + 1 \in DOMAIN failures /\ DOMAIN q.failures \subseteq DOMAIN failures
      BY <2>2
    <3> QED
      BY <2>2, <3>1, <3>2, <3>3
  <2>4. BeforeVerifier(q) /\ q.tried \in Nat /\ Len(methods) \in Nat /\ q.tried + 1 = Len(failures)
    BY <2>2, ChainTyped DEF BeforeVerifier, DoorChain, DoorRequests
  <2>5. CASE q.tried + 1 < Len(methods)
    <3>1. k = [q EXCEPT !.at = "verify", !.tried = q.tried + 1, !.failures = failures]
      BY <1>2, <2>5 DEF Door!Judged
    <3> HIDE DEF failures
    <3> HIDE DEF k
    <3>0. failures \in Seq(DoorFailures) /\ q.tried + 1 \in Nat /\ q \in DoorRequests
      BY <2>2, <2>4
    <3>2. /\ k \in DoorRequests /\ k.at = "verify" /\ k.tried = q.tried + 1 /\ k.failures = failures
          /\ k.route = q.route /\ k.token = q.token /\ k.answer = q.answer /\ k.blind = q.blind
      BY <3>0, <3>1 DEF DoorRequests
    <3>3. BeforeVerifier(k)
      BY <2>4, <2>5, <3>2 DEF BeforeVerifier, DoorChain
    <3>4. DoorLawful(k, doorNow)
      BY <2>3, <2>4, <3>2, <3>3 DEF DoorLawful, DoorTold, BeforeVerifier
    <3> QED
      BY <1>2, <3>2, <3>4 DEF failures, k
  <2>6. CASE ~(q.tried + 1 < Len(methods))
    <3> DEFINE answer == Door!AnswerFor(Door!MostTelling(failures))
    <3>1. k = [[q EXCEPT !.failures = failures] EXCEPT !.at = "done", !.answer = answer]
      BY <1>2, <2>6 DEF Door!Judged, Door!Ended
    <3>2. answer = IF \E i \in DOMAIN failures : failures[i].reason = "indeterminate" THEN "unavailable" ELSE "unauthorized"
      <4> HIDE DEF failures
      <4> DEFINE told == {failure.reason : failure \in Door!ToSet(failures)}
      <4>1. "indeterminate" \in told <=> \E i \in DOMAIN failures : failures[i].reason = "indeterminate"
        BY DEF Door!ToSet
      <4>2. Door!MostTelling(failures) = IF "indeterminate" \in told THEN "indeterminate"
                                       ELSE IF told \ {"missing"} # {} THEN CHOOSE why \in told : why # "missing"
                                       ELSE "missing"
        BY DEF Door!MostTelling
      <4> HIDE DEF told
      <4>3. told \ {"missing"} # {} => (CHOOSE why \in told : why # "missing") \in told
        OBVIOUS
      <4> QED
        BY <4>1, <4>2, <4>3 DEF Door!AnswerFor
    <3> HIDE DEF answer, failures
    <3>3. answer \in {"unavailable", "unauthorized"} /\ answer \in Door!Answers
      BY <3>2 DEF Door!Answers
    <3>4. /\ k \in DoorRequests /\ k.at = "done" /\ k.answer = answer /\ k.failures = failures
          /\ k.route = q.route /\ k.token = q.token /\ k.blind = q.blind
      BY <2>2, <3>1, <3>3 DEF DoorRequests
    <3> HIDE DEF k
    <3>5. DoorLawful(k, doorNow)
      BY <2>3, <3>2, <3>3, <3>4 DEF DoorLawful, DoorTold
    <3> QED
      BY <1>2, <3>4, <3>5 DEF failures, k
  <2> QED
    BY <2>5, <2>6
<1> QED
  BY <1>1, <1>2

\* What was seen of the failures so far stays seen; the new one must be.
LEMMA JudgedSeen ==
  ASSUME NEW q \in DoorRequests, NEW k, NEW p, NEW reason, AllSeen(q, p), q.tried = Len(q.failures),
         k.route = q.route, k.token = q.token, doorNow \in Nat, reason \in Door!Reasons,
         k.failures = IF reason = "ok" THEN q.failures ELSE Append(q.failures, [reason |-> reason, at |-> doorNow]),
         reason = "ok" \/ SeenBy(q, q.tried + 1, reason, doorNow, p)
  PROVE  AllSeen(k, p)
<1>0. \A i, why, at : SeenBy(q, i, why, at, p) => SeenBy(k, i, why, at, p)
  BY DEF SeenBy, Door!Good
<1>1. CASE reason = "ok"
  BY <1>0, <1>1 DEF AllSeen
<1>2. CASE reason # "ok"
  <2> DEFINE f == [reason |-> reason, at |-> doorNow]
  <2>1. f \in DoorFailures /\ q.failures \in Seq(DoorFailures) /\ f.reason = reason /\ f.at = doorNow
    BY <1>2 DEF DoorFailures, DoorRequests
  <2> DEFINE s == Append(q.failures, f)
  <2>2. k.failures = s
    BY <1>2
  <2> HIDE DEF f
  <2>6. /\ Len(q.failures) \in Nat /\ DOMAIN s = 1 .. Len(q.failures) + 1 /\ DOMAIN q.failures = 1 .. Len(q.failures)
        /\ s[Len(q.failures) + 1] = f /\ \A i \in 1 .. Len(q.failures) : s[i] = q.failures[i]
    BY <2>1, Appended
  <2> HIDE DEF s
  <2>3. /\ Len(q.failures) \in Nat
        /\ DOMAIN k.failures = 1 .. Len(q.failures) + 1 /\ DOMAIN q.failures = 1 .. Len(q.failures)
        /\ k.failures[Len(q.failures) + 1] = f
        /\ \A i \in 1 .. Len(q.failures) : k.failures[i] = q.failures[i]
    BY <2>2, <2>6
  <2> SUFFICES ASSUME NEW i \in DOMAIN k.failures
               PROVE  SeenBy(k, i, k.failures[i].reason, k.failures[i].at, p)
    BY DEF AllSeen
  <2>4. CASE i \in 1 .. Len(q.failures)
    BY <1>0, <2>3, <2>4 DEF AllSeen
  <2>5. CASE i = Len(q.failures) + 1
    BY <1>0, <1>2, <2>1, <2>3, <2>5
  <2> QED
    BY <2>3, <2>4, <2>5
<1> QED
  BY <1>1, <1>2

\* The rows of a verifier differ in their issuer.
LEMMA OneRow ==
  ASSUME NEW m \in DOMAIN Methods, Methods[m].type = "bearer-jwt", NEW token,
         NEW a \in Door!RowOf(m, token), NEW b \in Door!RowOf(m, token)
  PROVE  a = b
BY DoorSettings DEF Door!ConfigValid, Door!RowOf

\* A verdict says nothing of what the key source could not say, and a good token is refused only without its key.
LEMMA VerdictTells ==
  ASSUME NEW token, NEW row, NEW keys
  PROVE  /\ Door!Verdict(token, row, keys) \in Door!Reasons \ {"indeterminate"}
         /\ Door!Verdict(token, row, {token.signedBy}) = "ok" /\ Door!Verdict(token, row, keys) # "ok"
              => token.signedBy \notin keys
<1>1. Door!Verdict(token, row, keys) \in {"ok", "invalid", "wrong-audience"}
  BY DEF Door!Verdict
<1>2. ASSUME Door!Verdict(token, row, {token.signedBy}) = "ok", token.signedBy \in keys
      PROVE  Door!Verdict(token, row, keys) = "ok"
  BY <1>2 DEF Door!Verdict
<1> QED
  BY <1>1, <1>2 DEF Door!Reasons

LEMMA UnaskedTells ==
  ASSUME NEW m, NEW token
  PROVE  Door!Unasked(m, token) \in (Door!Reasons \ {"ok", "indeterminate"}) \cup {"none"}
BY DEF Door!Unasked, Door!Reasons

\* One request goes on, and nothing around it changes.
LEMMA RequestStep ==
  ASSUME DoorInv, NEW r \in Callers, NEW k \in DoorRequests, req' = [req EXCEPT ![r] = k],
         DoorLawful(k, doorNow), AllSeen(k, idp),
         cache' \in [Door!RemoteSets -> DoorCaches],
         \A s \in Door!RemoteSets : CacheFair(cache'[s], idp, doorNow),
         UNCHANGED <<idp, doorNow, doorFaults>>
  PROVE  DoorInv'
<1>1. DoorTypes'
  BY DEF DoorInv, DoorTypes
<1>2. \A a \in Callers : req'[a] = IF a = r THEN k ELSE req[a]
  BY DEF DoorInv, DoorTypes
<1>3. \A a \in Callers : DoorLawful(req'[a], doorNow) /\ AllSeen(req'[a], idp)
  BY <1>2 DEF DoorInv
<1>4. idp' = idp /\ doorNow' = doorNow
  OBVIOUS
<1>5. \A a \in Callers : DoorLawful(req[a], doorNow)' /\ AllSeen(req[a], idp)'
  BY <1>3, <1>4 DEF DoorLawful, DoorTold, AllSeen, SeenBy
<1>6. Published(idp, doorNow)' /\ \A s \in Door!RemoteSets : CacheFair(cache[s], idp, doorNow)'
  BY <1>4 DEF DoorInv, Published, CacheFair
<1> QED
  BY <1>1, <1>5, <1>6 DEF DoorInv

LEMMA ArriveStep == ASSUME DoorInv, NEW r \in Callers, Door!Arrive(r) PROVE DoorInv'
<1>1. PICK a \in Arrivals :
        LET options == Door!Options(a[1])
            q == [req[r] EXCEPT !.route = a[1], !.token = a[2]]
        IN req' = [req EXCEPT ![r] = IF options.anonymous THEN Door!Ended(q, "handled")
                                     ELSE IF options.methods = <<>> THEN Door!Ended(q, "misconfigured")
                                     ELSE Door!Resolved(q)]
  BY DEF Door!Arrive
<1> DEFINE options == Door!Options(a[1])
           q == [req[r] EXCEPT !.route = a[1], !.token = a[2]]
           k == IF options.anonymous THEN Door!Ended(q, "handled")
                ELSE IF options.methods = <<>> THEN Door!Ended(q, "misconfigured")
                ELSE Door!Resolved(q)
<1>2. /\ req[r] \in DoorRequests /\ req[r].at = "new" /\ DoorLawful(req[r], doorNow)
      /\ UNCHANGED <<idp, cache, doorNow, doorFaults>> /\ req' = [req EXCEPT ![r] = k]
  BY <1>1 DEF Door!Arrive, DoorInv, DoorTypes
<1>3. req[r].failures = <<>> /\ req[r].tried = 0 /\ req[r].answer = "none" /\ DoorTold(req[r], doorNow)
  BY <1>2 DEF DoorLawful
<1>4. /\ q \in DoorRequests /\ q.at = "new" /\ q.route = a[1] /\ q.token = a[2] /\ q.failures = <<>> /\ q.tried = 0
      /\ q.answer = "none" /\ q.blind = req[r].blind
  BY <1>2, <1>3 DEF DoorRequests, DoorRoutes, DoorTokens
<1>5. ~q.blind /\ DOMAIN q.failures = {}
  BY <1>3, <1>4 DEF DoorTold
<1> HIDE DEF q
<1>6. CASE options.anonymous
  <2>1. k = [q EXCEPT !.at = "done", !.answer = "handled"]
    BY <1>6 DEF Door!Ended
  <2>2. /\ k \in DoorRequests /\ k.at = "done" /\ k.answer = "handled" /\ k.route = a[1] /\ k.failures = <<>>
        /\ k.blind = q.blind
    BY <1>4, <2>1 DEF DoorRequests, Door!Answers
  <2>3. Door!MayPass(k)
    <3>1. a[1].door = "api" /\ ~a[1].class.anonymous
      <4>1. a[1].door = "mcp" => ~options.anonymous
        BY DEF Door!Options, Door!EndpointOptions
      <4> QED
        BY <1>6, <4>1, DoorSettings DEF Door!RoutesValid
    <3>2. a[1].method.anonymous
      BY <1>6, <3>1 DEF Door!Options, Door!Merge
    <3> QED
      BY <2>2, <3>1, <3>2 DEF Door!MayPass
  <2> HIDE DEF k
  <2>4. DoorLawful(k, doorNow) /\ AllSeen(k, idp)
    BY <1>4, <1>5, <2>2, <2>3 DEF DoorLawful, DoorTold, AllSeen
  <2> QED
    BY <1>2, <2>2, <2>4, RequestStep DEF DoorInv, DoorTypes
<1>7. CASE ~options.anonymous /\ (options.methods = <<>> \/ ~(Door!ToSet(options.methods) \subseteq DOMAIN Methods))
  <2>1. k = [q EXCEPT !.at = "done", !.answer = "misconfigured"]
    BY <1>4, <1>7 DEF Door!Ended, Door!Resolved
  <2>2. /\ k \in DoorRequests /\ k.at = "done" /\ k.answer = "misconfigured" /\ k.failures = <<>>
        /\ k.blind = q.blind
    BY <1>4, <2>1 DEF DoorRequests, Door!Answers
  <2> HIDE DEF k
  <2>4. DoorLawful(k, doorNow) /\ AllSeen(k, idp)
    BY <1>4, <1>5, <2>2 DEF DoorLawful, DoorTold, AllSeen
  <2> QED
    BY <1>2, <2>2, <2>4, RequestStep DEF DoorInv, DoorTypes
<1>8. CASE ~options.anonymous /\ options.methods # <<>> /\ Door!ToSet(options.methods) \subseteq DOMAIN Methods
  <2>1. k = [q EXCEPT !.at = "verify"]
    BY <1>4, <1>8 DEF Door!Ended, Door!Resolved
  <2>2. /\ k \in DoorRequests /\ k.at = "verify" /\ k.answer = "none" /\ k.failures = <<>> /\ k.tried = 0
        /\ k.blind = q.blind /\ k.route = a[1] /\ k.token = a[2]
    BY <1>4, <2>1 DEF DoorRequests
  <2> HIDE DEF k
  <2>3. <<a[1], a[2]>> \in Arrivals
    BY PlatformAssumption DEF Door!DoorAssumption
  <2>4. 0 < Len(options.methods)
    BY <1>8, ChainTyped
  <2>5. BeforeVerifier(k)
    BY <1>8, <2>2, <2>3, <2>4 DEF BeforeVerifier, DoorChain
  <2>6. DoorLawful(k, doorNow) /\ AllSeen(k, idp)
    BY <1>4, <1>5, <2>2, <2>5 DEF DoorLawful, DoorTold, AllSeen
  <2> QED
    BY <1>2, <2>2, <2>6, RequestStep DEF DoorInv, DoorTypes
<1> QED
  BY <1>6, <1>7, <1>8

\* The verifier that a request has before it is a method of the configuration.
LEMMA VerifierBefore ==
  ASSUME NEW q \in DoorRequests, BeforeVerifier(q)
  PROVE  DoorChain(q)[q.tried + 1] \in DOMAIN Methods
<1>1. <<q.route, q.token>> \in Arrivals /\ q.tried + 1 \in DOMAIN DoorChain(q)
  BY ChainTyped DEF BeforeVerifier, DoorRequests, DoorChain
<1> QED
  BY <1>1 DEF Door!ToSet, BeforeVerifier

\* A row of a remote source has its set in the cache.
LEMMA RowHasSet ==
  ASSUME NEW m \in DOMAIN Methods, Methods[m].type = "bearer-jwt", NEW token,
         NEW row \in Door!RowOf(m, token), row.source = "jwks"
  PROVE  <<m, token.iss>> \in Door!RemoteSets
<1>1. row \in {x \in Methods[m].issuers : x.source = "jwks"} /\ row.issuer = token.iss
  BY DEF Door!RowOf
<1>2. <<m, token.iss>> \in {<<m, x.issuer>> : x \in {y \in Methods[m].issuers : y.source = "jwks"}}
  BY <1>1
<1> QED
  BY <1>2 DEF Door!RemoteSets

\* A verdict, of a request that is still told apart from an outage, keeps it lawful.
LEMMA VerdictKept ==
  ASSUME DoorInv, NEW r \in Callers, BeforeVerifier(req[r]), NEW reason \in Door!Reasons \ {"indeterminate"},
         reason = "ok" \/ SeenBy(req[r], req[r].tried + 1, reason, doorNow, idp)
  PROVE  LET k == Door!Judged(req[r], reason)
         IN k \in DoorRequests /\ DoorLawful(k, doorNow) /\ AllSeen(k, idp)
<1> DEFINE q == req[r]
           k == Door!Judged(q, reason)
<1>1. q \in DoorRequests /\ DoorTold(q, doorNow) /\ AllSeen(q, idp) /\ doorNow \in Nat /\ q.tried = Len(q.failures)
  BY DoorSettings DEF DoorInv, DoorTypes, DoorLawful, BeforeVerifier
<1>2. /\ k \in DoorRequests /\ DoorLawful(k, doorNow) /\ k.route = q.route /\ k.token = q.token
      /\ k.failures = IF reason = "ok" THEN q.failures
                      ELSE Append(q.failures, [reason |-> reason, at |-> doorNow])
  BY <1>1, JudgedLawful DEF DoorTold
<1> HIDE DEF k, q
<1>3. AllSeen(k, idp)
  BY <1>1, <1>2, JudgedSeen DEF q
<1> QED
  BY <1>2, <1>3 DEF k, q

\* Under a set that lacks a published key only for as long as one may, a good token is refused only that long.
LEMMA UnderKeys ==
  ASSUME NEW q \in DoorRequests, BeforeVerifier(q), NEW m, m = DoorChain(q)[q.tried + 1],
         Methods[m].type = "bearer-jwt", NEW row \in Door!RowOf(m, q.token), NEW keys,
         \A key \in idp.keys : key \notin keys =>
           /\ key # FirstKey
           /\ q.token.kid = Nobody => doorNow <= idp.since[key] + FetchTimeout + KeysTtl
           /\ q.token.kid # Nobody /\ q.token.kid = key => doorNow <= idp.since[key] + FetchTimeout + Cooldown
  PROVE  LET reason == Door!Verdict(q.token, row, Door!Candidates(q.token, keys))
         IN /\ reason \in Door!Reasons \ {"indeterminate"}
            /\ reason = "ok" \/ SeenBy(q, q.tried + 1, reason, doorNow, idp)
<1> DEFINE reason == Door!Verdict(q.token, row, Door!Candidates(q.token, keys))
           key == q.token.signedBy
<1>1. reason \in Door!Reasons \ {"indeterminate"}
  BY VerdictTells
<1>2. ASSUME reason # "ok", Door!Good(q, q.tried + 1), q.token.kid \in {Nobody, key}, key \in idp.keys
      PROVE  key \notin keys
  <2>1. PICK x \in Door!RowOf(m, q.token) : Door!Verdict(q.token, x, {key}) = "ok"
    BY <1>2 DEF Door!Good, DoorChain
  <2>2. x = row
    BY <2>1, VerifierBefore, OneRow
  <2>3. key \notin Door!Candidates(q.token, keys)
    BY <1>2, <2>1, <2>2, VerdictTells
  <2> QED
    BY <1>2, <2>3 DEF Door!Candidates, Door!Fitting
<1>3. reason = "ok" \/ SeenBy(q, q.tried + 1, reason, doorNow, idp)
  BY <1>2 DEF SeenBy
<1> QED
  BY <1>1, <1>3

LEMMA AdmitStep == ASSUME DoorInv, NEW r \in Callers, Door!AdmitAnyone(r) PROVE DoorInv'
<1> DEFINE q == req[r]
           m == DoorChain(q)[q.tried + 1]
           k == Door!Admitted(q, m, Methods[m].roles)
<1>1. /\ q \in DoorRequests /\ q.at = "verify" /\ DoorLawful(q, doorNow) /\ AllSeen(q, idp)
      /\ Methods[m].type = "unauthenticated" /\ req' = [req EXCEPT ![r] = k]
      /\ UNCHANGED <<idp, cache, doorNow, doorFaults>>
  BY DEF Door!AdmitAnyone, Door!Chain, DoorChain, DoorInv, DoorTypes
<1>2. BeforeVerifier(q) /\ DoorTold(q, doorNow)
  BY <1>1 DEF DoorLawful
<1>3. Methods[m].roles \in RoleSets
  BY <1>1, <1>2, VerifierBefore DEF RoleSets
<1>4. k \in DoorRequests /\ DoorLawful(k, doorNow) /\ k.failures = q.failures /\ k.route = q.route /\ k.token = q.token
  BY <1>1, <1>2, <1>3, AdmittedLawful
<1> HIDE DEF k, q
<1>5. AllSeen(k, idp)
  BY <1>1, <1>4 DEF AllSeen, SeenBy, Door!Good
<1> QED
  BY <1>1, <1>4, <1>5, RequestStep DEF DoorInv, DoorTypes

LEMMA LocallyStep == ASSUME DoorInv, NEW r \in Callers, Door!VerifyLocally(r) PROVE DoorInv'
<1> DEFINE q == req[r]
           m == DoorChain(q)[q.tried + 1]
<1>1. /\ q \in DoorRequests /\ q.at = "verify" /\ DoorLawful(q, doorNow) /\ Methods[m].type = "bearer-jwt"
      /\ UNCHANGED <<idp, cache, doorNow, doorFaults>>
      /\ \/ Door!Unasked(m, q.token) # "none" /\ req' = [req EXCEPT ![r] = Door!Judged(q, Door!Unasked(m, q.token))]
         \/ \E row \in Door!RowOf(m, q.token) :
              row.source = "value" /\ req' = [req EXCEPT ![r] = Door!Judged(q, Door!Verdict(q.token, row, {row.key}))]
  BY DEF Door!VerifyLocally, Door!Chain, DoorChain, DoorInv, DoorTypes
<1>2. BeforeVerifier(q)
  BY <1>1 DEF DoorLawful
<1>3. ASSUME NEW reason \in Door!Reasons \ {"indeterminate"}, req' = [req EXCEPT ![r] = Door!Judged(q, reason)],
             ~Door!Good(q, q.tried + 1)
      PROVE  DoorInv'
  <2> DEFINE k == Door!Judged(q, reason)
  <2>1. SeenBy(q, q.tried + 1, reason, doorNow, idp)
    BY <1>3 DEF SeenBy
  <2>2. k \in DoorRequests /\ DoorLawful(k, doorNow) /\ AllSeen(k, idp)
    BY <1>2, <2>1, VerdictKept
  <2> HIDE DEF k
  <2> QED
    BY <1>1, <1>3, <2>2, RequestStep DEF DoorInv, DoorTypes, k
<1>4. CASE Door!Unasked(m, q.token) # "none" /\ req' = [req EXCEPT ![r] = Door!Judged(q, Door!Unasked(m, q.token))]
  <2>1. Door!Unasked(m, q.token) \in Door!Reasons \ {"indeterminate"}
    BY <1>4, UnaskedTells
  <2>2. ~Door!Good(q, q.tried + 1)
    BY <1>4 DEF Door!Good, DoorChain
  <2> QED
    BY <1>3, <1>4, <2>1, <2>2
<1>5. ASSUME NEW row \in Door!RowOf(m, q.token), row.source = "value",
             req' = [req EXCEPT ![r] = Door!Judged(q, Door!Verdict(q.token, row, {row.key}))]
      PROVE  DoorInv'
  <2>1. ~Door!Good(q, q.tried + 1)
    <3>1. \A x \in Door!RowOf(m, q.token) : x = row
      BY <1>1, <1>2, VerifierBefore, OneRow
    <3> QED
      BY <1>5, <3>1 DEF Door!Good, DoorChain
  <2>2. Door!Verdict(q.token, row, {row.key}) \in Door!Reasons \ {"indeterminate"}
    BY VerdictTells
  <2> QED
    BY <1>3, <1>5, <2>1, <2>2
<1> QED
  BY <1>1, <1>4, <1>5

LEMMA RemotelyStep == ASSUME DoorInv, NEW r \in Callers, Door!VerifyRemotely(r) PROVE DoorInv'
<1> DEFINE q == req[r]
           m == DoorChain(q)[q.tried + 1]
           s == <<m, q.token.iss>>
           keys == cache[s].keys
           known == Door!Fresh(cache[s]) /\ (Door!Candidates(q.token, keys) # {} \/ Door!CoolingDown(cache[s]))
<1>1. PICK row \in Door!RowOf(m, q.token) :
        /\ q \in DoorRequests /\ q.at = "verify" /\ DoorLawful(q, doorNow) /\ Methods[m].type = "bearer-jwt"
        /\ Door!Unasked(m, q.token) = "none" /\ AllSeen(q, idp)
        /\ UNCHANGED <<idp, doorNow, doorFaults>>
        /\ row.source = "jwks"
        /\ req' = [req EXCEPT ![r] = IF known THEN Door!Judged(q, Door!Verdict(q.token, row, Door!Candidates(q.token, keys)))
                                     ELSE [q EXCEPT !.at = "waiting"]]
        /\ cache' = IF known THEN cache ELSE [cache EXCEPT ![s] = Door!Reloading(cache[s])]
  BY DEF Door!VerifyRemotely, Door!Chain, DoorChain, DoorInv, DoorTypes
<1>2. BeforeVerifier(q) /\ DoorTold(q, doorNow)
  BY <1>1 DEF DoorLawful
<1>3. s \in Door!RemoteSets /\ cache[s] \in DoorCaches /\ CacheFair(cache[s], idp, doorNow)
  BY <1>1, <1>2, VerifierBefore, RowHasSet DEF DoorInv, DoorTypes
<1>4. doorNow \in Nat /\ \A key \in idp.keys : idp.since[key] \in Nat /\ idp.since[key] <= doorNow
  BY DoorSettings DEF DoorInv, DoorTypes, Door!Never, Published
<1>5. CASE known
  <2> DEFINE reason == Door!Verdict(q.token, row, Door!Candidates(q.token, keys))
             k == Door!Judged(q, reason)
  <2>1. ASSUME NEW key \in idp.keys, key \notin keys
        PROVE  /\ key # FirstKey
               /\ q.token.kid = Nobody => doorNow <= idp.since[key] + FetchTimeout + KeysTtl
               /\ q.token.kid # Nobody /\ q.token.kid = key => doorNow <= idp.since[key] + FetchTimeout + Cooldown
    <3>1. key # FirstKey /\ cache[s].at \in Nat /\ cache[s].at <= idp.since[key] + FetchTimeout
      BY <1>3, <1>5, <2>1 DEF CacheFair, Door!Fresh, DoorCaches
    <3>2. doorNow < cache[s].at + KeysTtl
      BY <1>5 DEF Door!Fresh
    <3>3. q.token.kid # Nobody /\ q.token.kid = key => doorNow < cache[s].at + Cooldown
      BY <1>5, <2>1 DEF Door!CoolingDown, Door!Candidates, Door!Fitting
    <3> HIDE DEF s, q
    <3> QED
      BY <1>4, <3>1, <3>2, <3>3, DoorSettings
  <2>2. reason \in Door!Reasons \ {"indeterminate"} /\ (reason = "ok" \/ SeenBy(q, q.tried + 1, reason, doorNow, idp))
    <3> HIDE DEF s
    <3> QED
      BY <1>1, <1>2, <2>1, UnderKeys
  <2>3. k \in DoorRequests /\ DoorLawful(k, doorNow) /\ AllSeen(k, idp)
    <3> HIDE DEF reason
    <3> QED
      BY <1>2, <2>2, VerdictKept
  <2>4. req' = [req EXCEPT ![r] = k] /\ cache' = cache
    BY <1>1, <1>5
  <2> HIDE DEF k, q
  <2> QED
    BY <1>1, <2>3, <2>4, RequestStep, ZenonT(60) DEF DoorInv, DoorTypes
<1>6. CASE ~known
  <2> DEFINE k == [q EXCEPT !.at = "waiting"]
             c == Door!Reloading(cache[s])
  <2>1. /\ k \in DoorRequests /\ k.at = "waiting" /\ k.answer = q.answer /\ k.failures = q.failures /\ k.tried = q.tried
        /\ k.route = q.route /\ k.token = q.token /\ k.blind = q.blind
    BY <1>1 DEF DoorRequests
  <2>2. req' = [req EXCEPT ![r] = k] /\ cache' = [cache EXCEPT ![s] = c]
    BY <1>1, <1>6
  <2>3. c \in DoorCaches /\ CacheFair(c, idp, doorNow)
    <3>1. CASE cache[s].pending
      BY <1>3, <3>1 DEF Door!Reloading
    <3>2. CASE ~cache[s].pending
      <4> DEFINE d == cache[s]
      <4>1. c = [d EXCEPT !.pending = TRUE, !.asked = idp.keys, !.began = doorNow]
        BY <3>2 DEF Door!Reloading
      <4>2. idp.keys \in SUBSET Keys
        BY DEF DoorInv, DoorTypes
      <4>3. d \in DoorCaches /\ CacheFair(d, idp, doorNow)
        BY <1>3
      <4> HIDE DEF c, d
      <4>4. /\ c \in DoorCaches /\ c.have = d.have /\ c.at = d.at /\ c.keys = d.keys
            /\ c.asked = idp.keys /\ c.began = doorNow
        BY <1>4, <4>1, <4>2, <4>3 DEF DoorCaches
      <4> QED
        BY <1>4, <4>3, <4>4, DoorSettings DEF CacheFair
    <3> QED
      BY <1>3, <3>1, <3>2 DEF DoorCaches
  <2>4. /\ cache' \in [Door!RemoteSets -> DoorCaches]
        /\ \A x \in Door!RemoteSets : CacheFair(cache'[x], idp, doorNow)
    <3> HIDE DEF c, s
    <3> QED
      BY <1>3, <2>2, <2>3 DEF DoorInv, DoorTypes
  <2> HIDE DEF k, c
  <2>5. Waits(k) /\ BeforeVerifier(k)
    BY <1>1, <1>2, <2>1 DEF Waits, BeforeVerifier, DoorChain
  <2>6. DoorLawful(k, doorNow)
    BY <1>2, <2>1, <2>5 DEF DoorLawful, DoorTold, BeforeVerifier
  <2>7. AllSeen(k, idp)
    BY <1>1, <2>1 DEF AllSeen, SeenBy, Door!Good
  <2> HIDE DEF q
  <2> QED
    BY <1>1, <2>1, <2>2, <2>4, <2>6, <2>7, RequestStep
<1> QED
  BY <1>5, <1>6

\* Everyone who waits goes on at once.
LEMMA RequestsStep ==
  ASSUME DoorInv, req' \in [Callers -> DoorRequests],
         \A r \in Callers : DoorLawful(req'[r], doorNow) /\ AllSeen(req'[r], idp),
         cache' \in [Door!RemoteSets -> DoorCaches],
         \A s \in Door!RemoteSets : CacheFair(cache'[s], idp, doorNow),
         UNCHANGED <<idp, doorNow>>, doorFaults' \in 0 .. DoorMaxFaults
  PROVE  DoorInv'
<1>1. DoorTypes'
  BY DEF DoorInv, DoorTypes
<1>2. idp' = idp /\ doorNow' = doorNow
  OBVIOUS
<1>3. \A a \in Callers : DoorLawful(req[a], doorNow)' /\ AllSeen(req[a], idp)'
  BY <1>2 DEF DoorLawful, DoorTold, AllSeen, SeenBy
<1>4. Published(idp, doorNow)' /\ \A s \in Door!RemoteSets : CacheFair(cache[s], idp, doorNow)'
  BY <1>2 DEF DoorInv, Published, CacheFair
<1> QED
  BY <1>1, <1>3, <1>4 DEF DoorInv

\* Who waits for a set, waits for it under the method it is before.
LEMMA WaitsThere ==
  ASSUME DoorInv, NEW s \in Door!RemoteSets, NEW r \in Door!Waiting(s)
  PROVE  /\ r \in Callers /\ req[r] \in DoorRequests /\ BeforeVerifier(req[r]) /\ Waits(req[r])
         /\ DoorTold(req[r], doorNow) /\ AllSeen(req[r], idp)
         /\ s[1] = DoorChain(req[r])[req[r].tried + 1]
BY DEF Door!Waiting, Door!Chain, DoorChain, DoorInv, DoorTypes, DoorLawful

LEMMA AnswersStep == ASSUME DoorInv, NEW s \in Door!RemoteSets, Door!FetchAnswers(s) PROVE DoorInv'
<1>1. PICK keys \in {cache[s].asked, idp.keys} :
        /\ cache' = [cache EXCEPT ![s] = [cache[s] EXCEPT !.have = TRUE, !.keys = keys, !.at = doorNow, !.pending = FALSE]]
        /\ req' = [r \in Callers |->
             IF r \in Door!Waiting(s)
               THEN Door!Judged(req[r], Door!Verdict(req[r].token, CHOOSE row \in Door!RowOf(s[1], req[r].token) : TRUE,
                                                     Door!Candidates(req[r].token, keys)))
               ELSE req[r]]
  BY DEF Door!FetchAnswers
<1>2. cache[s].pending /\ UNCHANGED <<idp, doorNow, doorFaults>>
  BY DEF Door!FetchAnswers
<1>3. cache[s] \in DoorCaches /\ CacheFair(cache[s], idp, doorNow) /\ idp.keys \in SUBSET Keys
  BY DEF DoorInv, DoorTypes
<1>4. /\ doorNow \in Nat /\ doorFaults \in 0 .. DoorMaxFaults
      /\ \A key \in idp.keys : idp.since[key] \in Nat /\ idp.since[key] <= doorNow
  BY DoorSettings DEF DoorInv, DoorTypes, Door!Never, Published
<1>5. keys \in SUBSET Keys
  BY <1>3 DEF DoorCaches
<1>6. \A key \in idp.keys : key \notin keys => key # FirstKey /\ doorNow <= idp.since[key] + FetchTimeout
  <2> SUFFICES ASSUME NEW key \in idp.keys, key \notin keys
               PROVE  key # FirstKey /\ doorNow <= idp.since[key] + FetchTimeout
    OBVIOUS
  <2>1. keys = cache[s].asked
    OBVIOUS
  <2>2. key # FirstKey /\ cache[s].began <= idp.since[key] /\ doorNow <= cache[s].began + FetchTimeout
    BY <1>2, <1>3, <2>1 DEF CacheFair
  <2>3. cache[s].began \in Nat
    BY <1>3 DEF DoorCaches
  <2> QED
    BY <1>4, <2>2, <2>3, DoorSettings
<1>7. cache' \in [Door!RemoteSets -> DoorCaches] /\ \A x \in Door!RemoteSets : CacheFair(cache'[x], idp, doorNow)
  <2> DEFINE d == cache[s]
             c == [d EXCEPT !.have = TRUE, !.keys = keys, !.at = doorNow, !.pending = FALSE]
  <2>1. cache' = [cache EXCEPT ![s] = c] /\ d \in DoorCaches
    BY <1>1, <1>3
  <2> HIDE DEF d
  <2>2. c \in DoorCaches /\ c.have /\ c.keys = keys /\ c.at = doorNow /\ ~c.pending
    BY <1>4, <1>5, <2>1 DEF DoorCaches
  <2> HIDE DEF c
  <2>3. CacheFair(c, idp, doorNow)
    BY <1>4, <1>6, <2>2 DEF CacheFair
  <2> QED
    BY <2>1, <2>2, <2>3 DEF DoorInv, DoorTypes
<1>8. ASSUME NEW r \in Callers
      PROVE  req'[r] \in DoorRequests /\ DoorLawful(req'[r], doorNow) /\ AllSeen(req'[r], idp)
  <2>1. CASE r \notin Door!Waiting(s)
    BY <1>1, <2>1 DEF DoorInv, DoorTypes
  <2>2. CASE r \in Door!Waiting(s)
    <3> DEFINE q == req[r]
               row == CHOOSE x \in Door!RowOf(s[1], q.token) : TRUE
               reason == Door!Verdict(q.token, row, Door!Candidates(q.token, keys))
    <3>1. /\ q \in DoorRequests /\ BeforeVerifier(q) /\ Waits(q) /\ s[1] = DoorChain(q)[q.tried + 1]
      BY <2>2, WaitsThere
    <3>2. row \in Door!RowOf(s[1], q.token) /\ Methods[s[1]].type = "bearer-jwt"
      BY <3>1 DEF Waits
    <3> HIDE DEF row
    <3>3. \A key \in idp.keys : key \notin keys =>
            /\ key # FirstKey
            /\ q.token.kid = Nobody => doorNow <= idp.since[key] + FetchTimeout + KeysTtl
            /\ q.token.kid # Nobody /\ q.token.kid = key => doorNow <= idp.since[key] + FetchTimeout + Cooldown
      BY <1>4, <1>6, DoorSettings
    <3>4. reason \in Door!Reasons \ {"indeterminate"} /\ (reason = "ok" \/ SeenBy(q, q.tried + 1, reason, doorNow, idp))
      BY <3>1, <3>2, <3>3, UnderKeys
    <3>5. req'[r] = Door!Judged(q, reason)
      BY <1>1, <2>2 DEF row
    <3> HIDE DEF reason
    <3> QED
      BY <3>1, <3>4, <3>5, VerdictKept
  <2> QED
    BY <2>1, <2>2
<1>9. req' \in [Callers -> DoorRequests]
  BY <1>1, <1>8
<1> QED
  BY <1>2, <1>4, <1>7, <1>8, <1>9, RequestsStep

\* A failure has its time.
LEMMA FailuresTimed ==
  ASSUME NEW q \in DoorRequests
  PROVE  \A i \in DOMAIN q.failures : q.failures[i].at \in Nat
<1> DEFINE s == q.failures
<1>1. s \in Seq(DoorFailures)
  BY DEF DoorRequests
<1> HIDE DEF s
<1>2. \A i \in DOMAIN s : s[i] \in DoorFailures
  BY <1>1
<1>3. \A f \in DoorFailures : f.at \in Nat
  BY DEF DoorFailures
<1> QED
  BY <1>2, <1>3 DEF s

LEMMA FailsStep == ASSUME DoorInv, NEW s \in Door!RemoteSets, Door!FetchFails(s) PROVE DoorInv'
<1>1. /\ doorFaults < DoorMaxFaults /\ doorFaults' = doorFaults + 1 /\ UNCHANGED <<idp, doorNow>>
      /\ cache' = [cache EXCEPT ![s] = [cache[s] EXCEPT !.pending = FALSE]]
      /\ req' = [r \in Callers |-> IF r \in Door!Waiting(s) THEN Door!Unreachable(req[r]) ELSE req[r]]
  BY DEF Door!FetchFails
<1>2. doorNow \in Nat /\ doorFaults' \in 0 .. DoorMaxFaults
  BY <1>1, DoorSettings DEF DoorInv, DoorTypes
<1>3. cache' \in [Door!RemoteSets -> DoorCaches] /\ \A x \in Door!RemoteSets : CacheFair(cache'[x], idp, doorNow)
  <2> DEFINE d == cache[s]
             c == [d EXCEPT !.pending = FALSE]
  <2>1. cache' = [cache EXCEPT ![s] = c] /\ d \in DoorCaches /\ CacheFair(d, idp, doorNow)
    BY <1>1 DEF DoorInv, DoorTypes
  <2> HIDE DEF d
  <2>2. c \in DoorCaches /\ c.have = d.have /\ c.keys = d.keys /\ c.at = d.at /\ ~c.pending
    BY <2>1 DEF DoorCaches
  <2> HIDE DEF c
  <2>3. CacheFair(c, idp, doorNow)
    BY <2>1, <2>2 DEF CacheFair
  <2> QED
    BY <2>1, <2>2, <2>3 DEF DoorInv, DoorTypes
<1>4. ASSUME NEW r \in Callers
      PROVE  req'[r] \in DoorRequests /\ DoorLawful(req'[r], doorNow) /\ AllSeen(req'[r], idp)
  <2>1. CASE r \notin Door!Waiting(s)
    BY <1>1, <2>1 DEF DoorInv, DoorTypes
  <2>2. CASE r \in Door!Waiting(s)
    <3> DEFINE p == req[r]
               q == [p EXCEPT !.blind = TRUE]
               k == Door!Judged(q, "indeterminate")
    <3>1. p \in DoorRequests /\ BeforeVerifier(p) /\ DoorTold(p, doorNow) /\ AllSeen(p, idp)
      BY <2>2, WaitsThere
    <3>2. req'[r] = k
      BY <1>1, <2>2 DEF Door!Unreachable
    <3> HIDE DEF p
    <3>3. /\ q \in DoorRequests /\ q.blind /\ q.answer = p.answer /\ q.failures = p.failures /\ q.tried = p.tried
          /\ q.route = p.route /\ q.token = p.token
      BY <3>1 DEF DoorRequests
    <3> HIDE DEF q
    <3>4. BeforeVerifier(q)
      BY <3>1, <3>3 DEF BeforeVerifier, DoorChain
    <3>5. AllSeen(q, idp)
      BY <3>1, <3>3 DEF AllSeen, SeenBy, Door!Good
    <3>6. "indeterminate" \in Door!Reasons /\ \A i \in DOMAIN q.failures : q.failures[i].at <= doorNow
      BY <3>1, <3>3 DEF Door!Reasons, DoorTold
    <3>7. /\ k \in DoorRequests /\ DoorLawful(k, doorNow) /\ k.route = q.route /\ k.token = q.token
          /\ k.failures = Append(q.failures, [reason |-> "indeterminate", at |-> doorNow])
      BY <1>2, <3>3, <3>4, <3>6, JudgedLawful
    <3>8. SeenBy(q, q.tried + 1, "indeterminate", doorNow, idp) /\ q.tried = Len(q.failures)
      BY <3>4 DEF SeenBy, BeforeVerifier
    <3> HIDE DEF k
    <3>9. AllSeen(k, idp)
      BY <1>2, <3>3, <3>5, <3>6, <3>7, <3>8, JudgedSeen
    <3> QED
      BY <3>2, <3>7, <3>9
  <2> QED
    BY <2>1, <2>2
<1>5. req' \in [Callers -> DoorRequests]
  BY <1>1, <1>4
<1> QED
  BY <1>1, <1>2, <1>3, <1>4, <1>5, RequestsStep

LEMMA RotateStep == ASSUME DoorInv, Door!Rotate PROVE DoorInv'
<1>1. PICK k \in Keys, old \in SUBSET idp.keys :
        /\ idp.since[k] = Door!Never
        /\ idp' = [keys |-> (idp.keys \ old) \cup {k}, since |-> [idp.since EXCEPT ![k] = doorNow]]
        /\ UNCHANGED <<cache, req, doorNow, doorFaults>>
  BY DEF Door!Rotate
<1>2. /\ idp.keys \in SUBSET Keys /\ idp.since \in [Keys -> 0 .. Door!Never] /\ doorNow \in 0 .. DoorMaxTime
      /\ Door!Never = DoorMaxTime + 1
  BY DEF DoorInv, DoorTypes, Door!Never
<1>3. /\ idp'.keys = (idp.keys \ old) \cup {k} /\ idp'.since = [idp.since EXCEPT ![k] = doorNow]
      /\ idp'.since[k] = doorNow /\ \A x \in idp'.keys : x # k => x \in idp.keys /\ idp'.since[x] = idp.since[x]
  BY <1>1, <1>2
<1>4. k # FirstKey /\ idp'.since[FirstKey] = 0
  BY <1>1, <1>2, <1>3, DoorSettings DEF DoorInv, Published
<1>5. idp' \in [keys : SUBSET Keys, since : [Keys -> 0 .. Door!Never]]
  <2>1. idp'.keys \in SUBSET Keys /\ idp'.since \in [Keys -> 0 .. Door!Never]
    BY <1>1, <1>2, <1>3, DoorSettings
  <2> QED
    BY <1>1, <2>1
<1>6. DoorTypes'
  BY <1>1, <1>5 DEF DoorInv, DoorTypes
<1>7. Published(idp, doorNow)'
  BY <1>1, <1>2, <1>3, <1>4, DoorSettings DEF DoorInv, Published
<1>8. ASSUME NEW s \in Door!RemoteSets PROVE CacheFair(cache[s], idp, doorNow)'
  <2> DEFINE c == cache[s]
  <2>1. c \in DoorCaches /\ CacheFair(c, idp, doorNow) /\ doorNow' = doorNow /\ cache'[s] = c
    BY <1>1 DEF DoorInv, DoorTypes
  <2> HIDE DEF c
  <2>2. c.at \in Nat /\ c.began \in Nat /\ doorNow \in Nat
    BY <1>2, <2>1, DoorSettings DEF DoorCaches
  <2>3. CacheFair(c, idp', doorNow)
    BY <1>3, <1>4, <2>1, <2>2, DoorSettings DEF CacheFair
  <2> QED
    BY <2>1, <2>3 DEF CacheFair
<1>9. ASSUME NEW r \in Callers PROVE DoorLawful(req[r], doorNow)' /\ AllSeen(req[r], idp)'
  <2> DEFINE q == req[r]
  <2>1. /\ q \in DoorRequests /\ DoorLawful(q, doorNow) /\ AllSeen(q, idp) /\ DoorTold(q, doorNow)
        /\ doorNow' = doorNow /\ req'[r] = q
    BY <1>1 DEF DoorInv, DoorTypes, DoorLawful
  <2> HIDE DEF q
  <2>2. \A i \in DOMAIN q.failures : q.failures[i].at \in Nat
    BY <2>1, FailuresTimed
  <2>3. ASSUME NEW i \in DOMAIN q.failures
        PROVE  SeenBy(q, i, q.failures[i].reason, q.failures[i].at, idp')
    <3>1. SeenBy(q, i, q.failures[i].reason, q.failures[i].at, idp) /\ q.failures[i].at <= doorNow
      BY <2>1 DEF AllSeen, DoorTold
    <3>2. CASE q.token.signedBy # k
      BY <1>3, <3>1, <3>2 DEF SeenBy
    <3>3. CASE q.token.signedBy = k
      <4>1. \A n \in {KeysTtl, Cooldown} : q.failures[i].at <= doorNow + FetchTimeout + n
        BY <1>2, <2>2, <3>1, DoorSettings
      <4> QED
        BY <1>3, <1>4, <3>3, <4>1 DEF SeenBy
    <3> QED
      BY <3>2, <3>3
  <2>4. AllSeen(q, idp')
    BY <2>3 DEF AllSeen
  <2> QED
    BY <2>1, <2>4 DEF AllSeen, SeenBy, DoorLawful, DoorTold
<1> QED
  BY <1>6, <1>7, <1>8, <1>9 DEF DoorInv

LEMMA TickStep == ASSUME DoorInv, Door!Tick PROVE DoorInv'
<1>1. /\ doorNow < DoorMaxTime /\ doorNow' = doorNow + 1 /\ UNCHANGED <<idp, cache, req, doorFaults>>
      /\ \A s \in Door!RemoteSets : cache[s].pending => doorNow < cache[s].began + FetchTimeout
  BY DEF Door!Tick
<1>2. doorNow \in Nat /\ doorNow' \in 0 .. DoorMaxTime
  BY <1>1, DoorSettings DEF DoorInv, DoorTypes
<1>3. DoorTypes'
  BY <1>1, <1>2 DEF DoorInv, DoorTypes
<1>4. Published(idp, doorNow)'
  <2>1. \A k \in idp.keys : idp.since[k] \in Nat /\ idp.since[k] <= doorNow
    BY DoorSettings DEF DoorInv, DoorTypes, Published, Door!Never
  <2> QED
    BY <1>1, <1>2, <2>1 DEF DoorInv, Published
<1>5. ASSUME NEW s \in Door!RemoteSets PROVE CacheFair(cache[s], idp, doorNow)'
  <2> DEFINE c == cache[s]
  <2>1. /\ c \in DoorCaches /\ CacheFair(c, idp, doorNow) /\ idp' = idp /\ cache'[s] = c
        /\ c.pending => doorNow < c.began + FetchTimeout
    BY <1>1 DEF DoorInv, DoorTypes
  <2> HIDE DEF c
  <2>2. c.at \in Nat /\ c.began \in Nat
    BY <2>1 DEF DoorCaches
  <2>3. CacheFair(c, idp, doorNow + 1)
    BY <1>2, <2>1, <2>2, DoorSettings DEF CacheFair
  <2> QED
    BY <1>1, <2>1, <2>3 DEF CacheFair
<1>6. ASSUME NEW r \in Callers PROVE DoorLawful(req[r], doorNow)' /\ AllSeen(req[r], idp)'
  <2> DEFINE q == req[r]
  <2>1. /\ q \in DoorRequests /\ DoorLawful(q, doorNow) /\ AllSeen(q, idp) /\ DoorTold(q, doorNow)
        /\ idp' = idp /\ req'[r] = q
    BY <1>1 DEF DoorInv, DoorTypes, DoorLawful
  <2> HIDE DEF q
  <2>2. \A i \in DOMAIN q.failures : q.failures[i].at \in Nat /\ q.failures[i].at <= doorNow
    BY <2>1, FailuresTimed DEF DoorTold
  <2>3. DoorTold(q, doorNow + 1)
    BY <1>2, <2>1, <2>2 DEF DoorTold
  <2>4. DoorLawful(q, doorNow + 1)
    BY <2>1, <2>3 DEF DoorLawful
  <2> QED
    BY <1>1, <2>1, <2>4 DEF DoorLawful, DoorTold, AllSeen, SeenBy
<1> QED
  BY <1>3, <1>4, <1>5, <1>6 DEF DoorInv

LEMMA DoorStep == DoorInv /\ [Door!Next]_(Door!vars) => DoorInv'
<1> SUFFICES ASSUME DoorInv, [Door!Next]_(Door!vars) PROVE DoorInv'
  OBVIOUS
<1>1. CASE UNCHANGED Door!vars
  BY <1>1 DEF DoorInv, DoorTypes, DoorLawful, DoorTold, AllSeen, SeenBy, Published, CacheFair, Door!vars
<1>2. CASE Door!Next
  BY <1>2, ArriveStep, AdmitStep, LocallyStep, RemotelyStep, AnswersStep, FailsStep, RotateStep, TickStep DEF Door!Next
<1> QED
  BY <1>1, <1>2

----------------------------------------------------------------------------
(* UiAuth: a tab that asks, renews and signs out *)

UiPages ==
  [where : {"app", "idp"}, at : Paths \cup {callback}, response : SignIn!Responses,
   entry : SignIn!Redirects \cup {Nobody}, state : {"loading", "authenticated", "anonymous"},
   user : Nat \cup {Nobody}, timer : BOOLEAN, recovering : BOOLEAN,
   callback : {"absent", "started", "exchanging", "done", "failed"},
   preparing : SignIn!Redirects \cup {Nobody}, then : {"stay", "settle"}, leaving : BOOLEAN]
UiStores == [sso : BOOLEAN, futile : 0 .. MaxFutile, blocked : BOOLEAN]

\* A page that knows nobody yet waits for something; one with a response waits for its callback alone.
PageLawful(page) ==
  /\ page.where = "app" /\ page.state = "loading" =>
       page.recovering \/ page.preparing # Nobody \/ page.callback \in {"started", "exchanging", "failed"}
  /\ page.response # "none" =>
       /\ page.where = "app" /\ page.at = callback /\ page.state = "loading"
       /\ page.preparing = Nobody /\ ~page.recovering /\ ~page.leaving
  /\ page.preparing # Nobody /\ page.then = "stay" => page.state # "loading"
  /\ page.timer => page.state = "authenticated"

\* The usable life of a token that lives l, and that of n of them, which the redirects after the
\* first wait for.
Lasting(l) == l - RenewSkew
Owed(n, l) == n * Lasting(l)

\* Redirects made so far, when tokens are of no use on arrival: each but the first was paid for
\* by a renewal that the storage counts.
FutilePaid(page, store, n) ==
  /\ n <= 1 + MaxFutile
  /\ page.where = "idp" \/ page.response = "code" => n <= 1 + store.futile
  /\ page.timer \/ page.preparing # Nobody => n <= store.futile

\* When they can be kept: each but the first was paid for by the time since the user acted.
KeptPaid(page, n, since, l, clock) ==
  /\ Owed(n, l) <= Lasting(l) + (clock - since)
  /\ page.preparing # Nobody => Owed(n, l) <= clock - since
  /\ page.timer => page.user \in Nat /\ Owed(n, l) <= page.user - RenewSkew - since

\* A token that can be kept and whose timer does not overflow.
Timed(l) == l > RenewSkew /\ ~(l > RenewSkew + TimerLimit)
AutoPaid(page, store, n, since, l, clock) ==
  /\ since <= clock
  /\ page.leaving \/ (page.where = "app" /\ page.recovering) => n = 0
  /\ l <= RenewSkew => FutilePaid(page, store, n)
  /\ Timed(l) => KeptPaid(page, n, since, l, clock)

\* Who left has nothing under way that could sign them in but a renewal that was pending, and the
\* tab will not ask.
Lefts == {"in", "out", "beside", "overtaken"}
OutAndQuiet(page, store, out) ==
  /\ out \in {"out", "beside"} =>
       /\ page.where = "app" /\ page.response = "none" /\ page.state # "authenticated"
       /\ store.blocked \/ store.sso
  /\ out = "out" => page.preparing = Nobody

TabInv(page, store, n, out, since, l, clock) ==
  PageLawful(page) /\ AutoPaid(page, store, n, since, l, clock) /\ OutAndQuiet(page, store, out)

UiTypes ==
  /\ tab \in [Tabs -> UiPages] /\ storage \in [Tabs -> UiStores]
  /\ auto \in [Tabs -> Nat] /\ acted \in [Tabs -> Nat] /\ left \in [Tabs -> Lefts]
  /\ life \in Lives /\ uiNow \in Nat

UiInv == UiTypes /\ \A t \in Tabs : TabInv(tab[t], storage[t], auto[t], left[t], acted[t], life, uiNow)

\* What the assumption says of the app.
LEMMA UiSettings ==
  /\ home \in Paths /\ callback \notin Paths /\ Nobody \notin SignIn!Redirects
  /\ Lives \subseteq Nat /\ MaxFutile \in Nat /\ RenewSkew \in Nat /\ TimerLimit \in Nat
BY PlatformAssumption DEF SignIn!SignInAssumption

LEMMA UiHolds == UiInv => SignIn!SignInSound
<1> SUFFICES ASSUME UiInv PROVE SignIn!SignInSound
  OBVIOUS
<1>1. SignIn!NeverStuckLoading
  <2> SUFFICES ASSUME NEW t \in Tabs, tab[t].where = "app", SignIn!Shown(t) = "Loading..."
               PROVE  \/ tab[t].recovering \/ tab[t].preparing # Nobody
                      \/ tab[t].callback \in {"started", "exchanging", "failed"}
    BY DEF SignIn!NeverStuckLoading, SignIn!OnPage
  <2>1. tab[t].state = "loading"
    BY DEF SignIn!Shown
  <2> QED
    BY <2>1 DEF UiInv, TabInv, PageLawful
<1>2. SignIn!NoRedirectStorm
  <2> SUFFICES ASSUME ~SignIn!TimerOverflows, NEW t \in Tabs
               PROVE  IF life > RenewSkew THEN auto[t] * (life - RenewSkew) <= (life - RenewSkew) + (uiNow - acted[t])
                                          ELSE auto[t] <= 1 + MaxFutile
    BY DEF SignIn!NoRedirectStorm
  <2>1. AutoPaid(tab[t], storage[t], auto[t], acted[t], life, uiNow)
    BY DEF UiInv, TabInv
  <2>2. life \in Nat
    BY UiSettings DEF UiInv, UiTypes
  <2>3. CASE life > RenewSkew
    BY <2>1, <2>3 DEF AutoPaid, KeptPaid, Owed, Lasting, Timed, SignIn!TimerOverflows
  <2>4. CASE ~(life > RenewSkew)
    BY <2>1, <2>2, <2>4, UiSettings DEF AutoPaid, FutilePaid
  <2> QED
    BY <2>3, <2>4
<1>3. SignIn!SignedOutStays
  BY DEF UiInv, TabInv, OutAndQuiet, SignIn!SignedOutStays
<1> QED
  BY <1>1, <1>2, <1>3 DEF SignIn!SignInSound

\* What is owed for one more redirect.
LEMMA OwedCounts ==
  ASSUME life \in Nat
  PROVE  /\ Lasting(life) \in Int /\ (Timed(life) => Lasting(life) > 0) /\ Owed(0, life) = 0
         /\ \A n \in Nat : Owed(n, life) \in Int /\ Owed(n + 1, life) = Owed(n, life) + Lasting(life)
<1>1. Lasting(life) \in Int /\ (Timed(life) => Lasting(life) > 0)
  BY UiSettings DEF Lasting, Timed
<1> QED
  BY <1>1 DEF Owed

\* A page as it loads.
LEMMA PageLoads ==
  ASSUME NEW at \in Paths \cup {callback}, NEW response \in SignIn!Responses, NEW entry \in SignIn!Redirects \cup {Nobody}
  PROVE  LET page == SignIn!PageAt(at, response, entry)
         IN /\ page \in UiPages /\ page.where = "app" /\ page.at = at /\ page.response = response
            /\ page.entry = entry /\ page.state = "loading" /\ ~page.timer /\ page.preparing = Nobody /\ ~page.leaving
            /\ page.recovering = (response = "none")
            /\ page.callback = IF at = callback THEN "started" ELSE "absent"
BY DEF SignIn!PageAt, SignIn!HandlingCallback, UiPages

\* What a redirect that came back was paid for with.
Returned(store, n, since) ==
  /\ life <= RenewSkew => n <= 1 + store.futile
  /\ Timed(life) => Owed(n, life) <= Lasting(life) + (uiNow - since)

\* One that loads with nothing redirected yet, or with a response that belongs to the callback.
LEMMA LoadLawful ==
  ASSUME NEW at \in Paths \cup {callback}, NEW response \in SignIn!Responses, NEW entry \in SignIn!Redirects \cup {Nobody},
         response # "none" => at = callback, life \in Nat, uiNow \in Nat,
         NEW store \in UiStores, NEW n \in Nat, NEW since \in Nat, since <= uiNow,
         n = 0 \/ (response # "none" /\ Returned(store, n, since)),
         NEW out \in {"in", "out", "overtaken"}, out = "out" => response = "none" /\ (store.blocked \/ store.sso)
  PROVE  SignIn!PageAt(at, response, entry) \in UiPages /\ TabInv(SignIn!PageAt(at, response, entry), store, n, out, since, life, uiNow)
<1> DEFINE page == SignIn!PageAt(at, response, entry)
<1>1. /\ page \in UiPages /\ page.where = "app" /\ page.at = at /\ page.response = response
      /\ page.entry = entry /\ page.state = "loading" /\ ~page.timer /\ page.preparing = Nobody /\ ~page.leaving
      /\ page.recovering = (response = "none")
      /\ page.callback = IF at = callback THEN "started" ELSE "absent"
  BY PageLoads
<1> HIDE DEF page
<1>2. store.futile \in 0 .. MaxFutile
  BY DEF UiStores
<1>3. PageLawful(page)
  BY <1>1 DEF PageLawful
<1>4. AutoPaid(page, store, n, since, life, uiNow)
  <2>1. life <= RenewSkew => FutilePaid(page, store, n)
    BY <1>1, <1>2, UiSettings DEF FutilePaid, Returned
  <2>2. Timed(life) => KeptPaid(page, n, since, life, uiNow)
    BY <1>1, OwedCounts DEF KeptPaid, Returned
  <2> QED
    BY <1>1, <2>1, <2>2 DEF AutoPaid
<1>5. OutAndQuiet(page, store, out)
  BY <1>1 DEF OutAndQuiet
<1> QED
  BY <1>1, <1>3, <1>4, <1>5 DEF page, TabInv

LEMMA UiInit == SignIn!Init => UiInv
<1> SUFFICES ASSUME SignIn!Init PROVE UiInv
  OBVIOUS
<1>1. storage \in [Tabs -> UiStores]
  <2>1. PICK b \in [Tabs -> BOOLEAN] : storage = [t \in Tabs |-> [sso |-> FALSE, futile |-> 0, blocked |-> b[t]]]
    BY DEF SignIn!Init
  <2>2. 0 \in 0 .. MaxFutile
    BY UiSettings
  <2> QED
    BY <2>1, <2>2 DEF UiStores
<1>2. /\ tab = [t \in Tabs |-> SignIn!PageAt(home, "none", Nobody)] /\ auto = [t \in Tabs |-> 0]
      /\ left = [t \in Tabs |-> "in"] /\ acted = [t \in Tabs |-> 0] /\ life \in Lives /\ uiNow = 0
  BY DEF SignIn!Init
<1>3. \A store \in UiStores : /\ SignIn!PageAt(home, "none", Nobody) \in UiPages
                              /\ TabInv(SignIn!PageAt(home, "none", Nobody), store, 0, "in", 0, life, uiNow)
  BY <1>2, UiSettings, LoadLawful DEF SignIn!Responses
<1>4. ASSUME NEW t \in Tabs PROVE tab[t] \in UiPages /\ TabInv(tab[t], storage[t], auto[t], left[t], acted[t], life, uiNow)
  <2>1. /\ tab[t] = SignIn!PageAt(home, "none", Nobody) /\ storage[t] \in UiStores
        /\ auto[t] = 0 /\ left[t] = "in" /\ acted[t] = 0
    BY <1>1, <1>2
  <2> QED
    BY <1>3, <2>1
<1>5. tab \in [Tabs -> UiPages]
  BY <1>2, <1>4
<1> QED
  BY <1>1, <1>2, <1>4, <1>5 DEF UiInv, UiTypes, Lefts

\* One tab goes on, and nothing of the others changes.
LEMMA TabStep ==
  ASSUME UiInv, NEW t \in Tabs, NEW page \in UiPages, NEW store \in UiStores, NEW n \in Nat, NEW out \in Lefts,
         NEW since \in Nat, tab' = [tab EXCEPT ![t] = page], storage' = [storage EXCEPT ![t] = store],
         auto' = [auto EXCEPT ![t] = n], left' = [left EXCEPT ![t] = out],
         acted' = [acted EXCEPT ![t] = since],
         TabInv(page, store, n, out, since, life, uiNow), UNCHANGED <<life, uiNow>>
  PROVE  UiInv'
<1>1. UiTypes'
  BY DEF UiInv, UiTypes
<1>2. ASSUME NEW x \in Tabs PROVE TabInv(tab'[x], storage'[x], auto'[x], left'[x], acted'[x], life', uiNow')
  <2>1. CASE x = t
    BY <2>1 DEF UiInv, UiTypes
  <2>2. CASE x # t
    <3>1. /\ tab'[x] = tab[x] /\ storage'[x] = storage[x] /\ auto'[x] = auto[x] /\ left'[x] = left[x]
          /\ acted'[x] = acted[x]
      BY <2>2 DEF UiInv, UiTypes
    <3> QED
      BY <3>1 DEF UiInv
  <2> QED
    BY <2>1, <2>2
<1> QED
  BY <1>1, <1>2 DEF UiInv

\* The tab before a step.
LEMMA TabBefore ==
  ASSUME UiInv, NEW t \in Tabs
  PROVE  /\ tab[t] \in UiPages /\ storage[t] \in UiStores /\ auto[t] \in Nat /\ left[t] \in Lefts
         /\ acted[t] \in Nat /\ life \in Nat /\ uiNow \in Nat /\ life \in Lives
         /\ TabInv(tab[t], storage[t], auto[t], left[t], acted[t], life, uiNow) /\ storage[t].futile \in 0 .. MaxFutile
BY UiSettings DEF UiInv, UiTypes, UiStores

\* What a step leaves alone.
LEMMA TabSame ==
  ASSUME UiInv, NEW t \in Tabs
  PROVE  /\ storage = [storage EXCEPT ![t] = storage[t]]
         /\ auto = [auto EXCEPT ![t] = auto[t]] /\ left = [left EXCEPT ![t] = left[t]]
         /\ acted = [acted EXCEPT ![t] = acted[t]]
BY DEF UiInv, UiTypes

\* A page that takes a user, or learns that there is none.
LEMMA Adopts ==
  ASSUME NEW page \in UiPages, NEW user \in Nat \cup {Nobody}
  PROVE  LET k == SignIn!Adopt(page, user)
         IN /\ k \in UiPages /\ k.state = IF user = Nobody THEN "anonymous" ELSE "authenticated"
            /\ ~k.timer /\ k.user = user
            /\ k.where = page.where /\ k.at = page.at /\ k.response = page.response /\ k.entry = page.entry
            /\ k.recovering = page.recovering /\ k.callback = page.callback /\ k.preparing = page.preparing
            /\ k.then = page.then /\ k.leaving = page.leaving
BY DEF SignIn!Adopt, UiPages

\* A page that prepares a redirect.
LEMMA RedirectPrepared ==
  ASSUME NEW page \in UiPages, NEW silent \in BOOLEAN, NEW then \in {"stay", "settle"}
  PROVE  LET k == SignIn!Redirecting(page, silent, then)
         IN /\ k \in UiPages /\ k.preparing # Nobody /\ k.then = then
            /\ k.where = page.where /\ k.at = page.at /\ k.response = page.response /\ k.entry = page.entry
            /\ k.state = page.state /\ k.timer = page.timer /\ k.recovering = page.recovering
            /\ k.user = page.user /\ k.callback = page.callback /\ k.leaving = page.leaving
<1> DEFINE redirect == [silent |-> silent, returnTo |-> page.at]
<1>1. redirect \in SignIn!Redirects
  BY DEF UiPages, SignIn!Redirects
<1> HIDE DEF redirect
<1>2. SignIn!Redirecting(page, silent, then) = [page EXCEPT !.preparing = redirect, !.then = then]
  BY DEF SignIn!Redirecting, redirect
<1>3. redirect # Nobody
  BY <1>1, UiSettings
<1> QED
  BY <1>1, <1>2, <1>3 DEF UiPages

LEMMA RecoverStep == ASSUME UiInv, NEW t \in Tabs, SignIn!Recover(t) PROVE UiInv'
<1> DEFINE page == [tab[t] EXCEPT !.recovering = FALSE]
<1>1. /\ tab[t].where = "app" /\ tab[t].recovering
      /\ \/ /\ storage[t].blocked \/ storage[t].sso
            /\ tab' = [tab EXCEPT ![t] = SignIn!Adopt(page, Nobody)] /\ UNCHANGED storage
         \/ /\ ~storage[t].blocked /\ ~storage[t].sso
            /\ tab' = [tab EXCEPT ![t] = SignIn!Redirecting(page, TRUE, "settle")]
            /\ storage' = [storage EXCEPT ![t] = SignIn!RememberSsoAttempt(storage[t], TRUE)]
      /\ UNCHANGED <<life, uiNow, auto, acted, left>>
  BY DEF SignIn!Recover, SignIn!OnPage, SignIn!SsoAlreadyAttempted
<1> DEFINE p == tab[t]
           store == storage[t]
           n == auto[t]
           out == left[t]
           since == acted[t]
<1>2. /\ p \in UiPages /\ store \in UiStores /\ n \in Nat /\ out \in Lefts /\ since \in Nat
      /\ TabInv(p, store, n, out, since, life, uiNow) /\ store.futile \in 0 .. MaxFutile
  BY TabBefore
<1>3. n = 0 /\ p.response = "none" /\ life \in Nat /\ uiNow \in Nat /\ since <= uiNow
  BY <1>1, <1>2, TabBefore DEF TabInv, AutoPaid, PageLawful
<1> HIDE DEF p, store, n, out, since
<1>4. /\ page \in UiPages /\ ~page.recovering /\ page.where = "app" /\ page.response = "none"
      /\ page.state = p.state /\ page.timer = p.timer /\ page.preparing = p.preparing /\ page.leaving = p.leaving
      /\ page.user = p.user
  BY <1>1, <1>2, <1>3 DEF UiPages, p
<1> HIDE DEF page
<1>5. CASE /\ store.blocked \/ store.sso
           /\ tab' = [tab EXCEPT ![t] = SignIn!Adopt(page, Nobody)] /\ UNCHANGED storage
  <2> DEFINE k == SignIn!Adopt(page, Nobody)
  <2>1. /\ k \in UiPages /\ k.state = "anonymous" /\ ~k.timer /\ k.where = "app" /\ k.response = "none"
        /\ ~k.recovering /\ k.preparing = p.preparing /\ k.leaving = p.leaving
    BY <1>4, Adopts
  <2> HIDE DEF k
  <2>2. TabInv(k, store, n, out, since, life, uiNow)
    BY <1>2, <1>3, <2>1, UiSettings DEF TabInv, PageLawful, AutoPaid, FutilePaid, KeptPaid, OutAndQuiet
  <2>3. /\ tab' = [tab EXCEPT ![t] = k] /\ storage' = [storage EXCEPT ![t] = store]
        /\ auto' = [auto EXCEPT ![t] = n] /\ left' = [left EXCEPT ![t] = out]
        /\ acted' = [acted EXCEPT ![t] = since] /\ UNCHANGED <<life, uiNow>>
    BY <1>1, <1>5, TabSame DEF k, store, n, out, since
  <2> QED
    BY <1>2, <2>1, <2>2, <2>3, TabStep
<1>6. CASE /\ ~store.blocked /\ ~store.sso
           /\ tab' = [tab EXCEPT ![t] = SignIn!Redirecting(page, TRUE, "settle")]
           /\ storage' = [storage EXCEPT ![t] = SignIn!RememberSsoAttempt(store, TRUE)]
  <2> DEFINE k == SignIn!Redirecting(page, TRUE, "settle")
             kept == SignIn!RememberSsoAttempt(store, TRUE)
  <2>1. /\ k \in UiPages /\ k.preparing # Nobody /\ k.then = "settle" /\ k.where = "app" /\ k.response = "none"
        /\ k.state = p.state /\ k.timer = p.timer /\ ~k.recovering /\ k.leaving = p.leaving
        /\ k.user = p.user
    BY <1>4, RedirectPrepared
  <2>2. kept \in UiStores /\ kept.futile = store.futile
    BY <1>2 DEF SignIn!RememberSsoAttempt, UiStores
  <2> HIDE DEF k, kept
  <2>3. TabInv(k, kept, n, out, since, life, uiNow)
    BY <1>2, <1>3, <1>6, <2>1, <2>2, UiSettings, OwedCounts DEF TabInv, PageLawful, AutoPaid, FutilePaid, KeptPaid, OutAndQuiet
  <2>4. /\ tab' = [tab EXCEPT ![t] = k] /\ storage' = [storage EXCEPT ![t] = kept]
        /\ auto' = [auto EXCEPT ![t] = n] /\ left' = [left EXCEPT ![t] = out]
        /\ acted' = [acted EXCEPT ![t] = since] /\ UNCHANGED <<life, uiNow>>
    BY <1>1, <1>6, TabSame DEF k, kept, n, out, since
  <2> QED
    BY <1>2, <2>1, <2>2, <2>3, <2>4, TabStep
<1> QED
  BY <1>1, <1>5, <1>6 DEF store

LEMMA LeavesStep == ASSUME UiInv, NEW t \in Tabs, SignIn!RedirectLeaves(t) PROVE UiInv'
<1> DEFINE p == tab[t]
           store == storage[t]
           n == auto[t]
           out == left[t]
           since == acted[t]
           page == SignIn!PageAt(home, "none", p.preparing)
           k == [page EXCEPT !.where = "idp"]
           more == IF p.preparing.silent THEN n + 1 ELSE n
           gone == IF out = "beside" THEN "overtaken" ELSE out
<1>1. /\ p.where = "app" /\ p.preparing # Nobody /\ tab' = [tab EXCEPT ![t] = k]
      /\ auto' = [auto EXCEPT ![t] = more] /\ left' = [left EXCEPT ![t] = gone]
      /\ UNCHANGED <<storage, life, uiNow, acted>>
  BY DEF SignIn!RedirectLeaves, SignIn!OnPage
<1>2. /\ p \in UiPages /\ store \in UiStores /\ n \in Nat /\ out \in Lefts /\ since \in Nat
      /\ TabInv(p, store, n, out, since, life, uiNow) /\ store.futile \in 0 .. MaxFutile
  BY TabBefore
<1>3. /\ since <= uiNow /\ (life <= RenewSkew => n <= store.futile)
      /\ Timed(life) => Owed(n, life) <= uiNow - since
      /\ out # "out"
  BY <1>1, <1>2 DEF TabInv, AutoPaid, FutilePaid, KeptPaid, OutAndQuiet
<1> HIDE DEF p, store, n, out, since
<1>4. /\ more \in Nat /\ (life <= RenewSkew => more <= 1 + store.futile)
      /\ Timed(life) => Owed(more, life) <= Lasting(life) + (uiNow - since)
      /\ gone \in Lefts /\ gone \notin {"out", "beside"}
  <2>1. life \in Nat
    BY TabBefore
  <2>2. /\ Owed(n, life) \in Int /\ Owed(n + 1, life) = Owed(n, life) + Lasting(life) /\ Lasting(life) \in Int
        /\ Timed(life) => Lasting(life) > 0
    BY <1>2, <2>1, OwedCounts
  <2>3. more = n \/ more = n + 1
    OBVIOUS
  <2> HIDE DEF more
  <2>4. more \in Nat /\ (life <= RenewSkew => more <= 1 + store.futile)
    BY <1>2, <1>3, <2>1, <2>3, UiSettings
  <2>5. Timed(life) => Owed(more, life) <= Lasting(life) + (uiNow - since)
    <3> SUFFICES ASSUME Timed(life) PROVE Owed(more, life) <= Lasting(life) + (uiNow - since)
      OBVIOUS
    <3>1. uiNow - since \in Int
      BY <1>2, TabBefore
    <3>2. Owed(more, life) = Owed(n, life) \/ Owed(more, life) = Owed(n, life) + Lasting(life)
      BY <2>2, <2>3
    <3> HIDE DEF n, since
    <3> QED
      BY <1>3, <2>2, <3>1, <3>2
  <2>6. gone \in Lefts /\ gone \notin {"out", "beside"}
    BY <1>2, <1>3 DEF Lefts
  <2> QED
    BY <2>4, <2>5, <2>6
<1> HIDE DEF more, gone
<1>5. p.preparing \in SignIn!Redirects \cup {Nobody} /\ "none" \in SignIn!Responses
  BY <1>2 DEF UiPages, SignIn!Responses
<1>6. /\ page \in UiPages /\ page.response = "none" /\ page.state = "loading" /\ ~page.timer
      /\ page.preparing = Nobody /\ ~page.leaving
  BY <1>5, UiSettings, PageLoads
<1> HIDE DEF page
<1>7. /\ k \in UiPages /\ k.where = "idp" /\ k.response = "none" /\ k.state = "loading" /\ ~k.timer
      /\ k.preparing = Nobody /\ ~k.leaving
  BY <1>6 DEF UiPages
<1> HIDE DEF k
<1>8. TabInv(k, store, more, gone, since, life, uiNow)
  BY <1>2, <1>3, <1>4, <1>7, UiSettings DEF TabInv, PageLawful, AutoPaid, FutilePaid, KeptPaid, OutAndQuiet
<1>9. /\ storage' = [storage EXCEPT ![t] = store] /\ left' = [left EXCEPT ![t] = gone]
      /\ acted' = [acted EXCEPT ![t] = since] /\ UNCHANGED <<life, uiNow>>
      /\ tab' = [tab EXCEPT ![t] = k] /\ auto' = [auto EXCEPT ![t] = more]
  BY <1>1, TabSame DEF store, since
<1> QED
  BY <1>2, <1>4, <1>7, <1>8, <1>9, TabStep

LEMMA FailsToLeaveStep == ASSUME UiInv, NEW t \in Tabs, SignIn!RedirectFails(t) PROVE UiInv'
<1> DEFINE p == tab[t]
           store == storage[t]
           n == auto[t]
           out == left[t]
           since == acted[t]
           page == [p EXCEPT !.preparing = Nobody, !.then = "stay"]
           k == IF p.then = "settle" THEN SignIn!Adopt(page, Nobody) ELSE page
           gone == SignIn!PendingGone(out)
<1>1. /\ p.where = "app" /\ p.preparing # Nobody /\ tab' = [tab EXCEPT ![t] = k]
      /\ left' = [left EXCEPT ![t] = gone] /\ UNCHANGED <<storage, life, uiNow, auto, acted>>
  BY DEF SignIn!RedirectFails, SignIn!OnPage
<1>2. /\ p \in UiPages /\ store \in UiStores /\ n \in Nat /\ out \in Lefts /\ since \in Nat
      /\ TabInv(p, store, n, out, since, life, uiNow) /\ store.futile \in 0 .. MaxFutile
  BY TabBefore
<1>3. p.then \in {"stay", "settle"}
  BY <1>2 DEF UiPages
<1>9. gone \in Lefts /\ gone # "beside" /\ (gone = "out" => out \in {"out", "beside"})
  BY <1>2 DEF SignIn!PendingGone, Lefts
<1> HIDE DEF p, store, n, out, since, gone
<1>4. /\ page \in UiPages /\ page.where = "app" /\ page.response = p.response /\ page.preparing = Nobody
      /\ page.state = p.state /\ page.timer = p.timer /\ page.recovering = p.recovering /\ page.leaving = p.leaving
      /\ page.at = p.at /\ page.user = p.user
  BY <1>1, <1>2 DEF UiPages
<1> HIDE DEF page
<1>5. /\ k \in UiPages /\ k.where = "app" /\ k.response = p.response /\ k.preparing = Nobody
      /\ k.state # "loading" /\ (k.timer => p.timer /\ k.state = "authenticated" /\ k.user = p.user) /\ k.recovering = p.recovering
      /\ k.leaving = p.leaving /\ (k.state = "anonymous" \/ k.state = p.state)
  <2>1. CASE p.then = "settle"
    <3>1. k = SignIn!Adopt(page, Nobody)
      BY <2>1
    <3> HIDE DEF k
    <3> QED
      BY <1>4, <3>1, Adopts
  <2>2. CASE p.then = "stay"
    BY <1>1, <1>2, <1>4, <2>2 DEF TabInv, PageLawful
  <2> QED
    BY <1>3, <2>1, <2>2
<1> HIDE DEF k
<1>6. p.response = "none"
  BY <1>1, <1>2 DEF TabInv, PageLawful
<1>7. TabInv(k, store, n, gone, since, life, uiNow)
  BY <1>1, <1>2, <1>5, <1>6, <1>9 DEF TabInv, PageLawful, AutoPaid, FutilePaid, KeptPaid, OutAndQuiet
<1>8. /\ tab' = [tab EXCEPT ![t] = k] /\ storage' = [storage EXCEPT ![t] = store]
      /\ auto' = [auto EXCEPT ![t] = n] /\ left' = [left EXCEPT ![t] = gone]
      /\ acted' = [acted EXCEPT ![t] = since] /\ UNCHANGED <<life, uiNow>>
  BY <1>1, TabSame DEF store, n, since
<1> QED
  BY <1>2, <1>5, <1>7, <1>8, <1>9, TabStep

LEMMA ProviderStep == ASSUME UiInv, NEW t \in Tabs, SignIn!ProviderAnswers(t) PROVE UiInv'
<1> DEFINE p == tab[t]
           store == storage[t]
           n == auto[t]
           out == left[t]
           since == acted[t]
<1>1. PICK response \in {"code", "login_required", "error"} :
        tab' = [tab EXCEPT ![t] = SignIn!PageAt(callback, response, p.entry)]
  BY DEF SignIn!ProviderAnswers
<1>2. p.where = "idp" /\ UNCHANGED <<storage, life, uiNow, auto, acted, left>>
  BY DEF SignIn!ProviderAnswers
<1>3. /\ p \in UiPages /\ store \in UiStores /\ n \in Nat /\ out \in Lefts /\ since \in Nat
      /\ TabInv(p, store, n, out, since, life, uiNow)
  BY TabBefore
<1> HIDE DEF p, store, n, out, since
<1>4. /\ Returned(store, n, since) /\ since <= uiNow /\ out \in {"in", "overtaken"} /\ p.entry \in SignIn!Redirects \cup {Nobody}
  BY <1>2, <1>3 DEF TabInv, AutoPaid, FutilePaid, KeptPaid, Returned, OutAndQuiet, Lefts, UiPages
<1>5. response \in SignIn!Responses /\ response # "none"
  BY DEF SignIn!Responses
<1>6. /\ SignIn!PageAt(callback, response, p.entry) \in UiPages
      /\ TabInv(SignIn!PageAt(callback, response, p.entry), store, n, out, since, life, uiNow)
  BY <1>3, <1>4, <1>5, TabBefore, LoadLawful
<1>7. /\ storage' = [storage EXCEPT ![t] = store] /\ UNCHANGED <<life, uiNow>>
      /\ auto' = [auto EXCEPT ![t] = n] /\ left' = [left EXCEPT ![t] = out]
      /\ acted' = [acted EXCEPT ![t] = since]
  BY <1>2, TabSame DEF store, n, out, since
<1> QED
  BY <1>1, <1>3, <1>6, <1>7, TabStep

\* Only the page of a tab changes.
LEMMA PageStep ==
  ASSUME UiInv, NEW t \in Tabs, NEW k \in UiPages, tab' = [tab EXCEPT ![t] = k],
         UNCHANGED <<storage, life, uiNow, auto, acted, left>>, TabInv(k, storage[t], auto[t], left[t], acted[t], life, uiNow)
  PROVE  UiInv'
<1>1. UiTypes'
  BY DEF UiInv, UiTypes
<1>2. ASSUME NEW x \in Tabs PROVE TabInv(tab'[x], storage'[x], auto'[x], left'[x], acted'[x], life', uiNow')
  <2>1. /\ storage'[x] = storage[x] /\ auto'[x] = auto[x] /\ left'[x] = left[x] /\ acted'[x] = acted[x]
        /\ tab'[x] = IF x = t THEN k ELSE tab[x]
    BY DEF UiInv, UiTypes
  <2> QED
    BY <2>1 DEF UiInv
<1> QED
  BY <1>1, <1>2 DEF UiInv

\* A path to land on.
LEMMA LandsOnPath == ASSUME NEW entry \in SignIn!Redirects \cup {Nobody} PROVE SignIn!Landing(entry) \in Paths
<1>1. entry # Nobody => entry.returnTo \in Paths \cup {callback}
  BY DEF SignIn!Redirects
<1> QED
  BY <1>1, UiSettings DEF SignIn!Landing, SignIn!SafeReturnTo

\* The callback leaves its route with an answer.
LEMMA Settles ==
  ASSUME UiInv, NEW t \in Tabs, NEW path \in Paths,
         tab' = [tab EXCEPT ![t] = SignIn!Navigate(SignIn!ResolveAnonymous(tab[t]), path)],
         UNCHANGED <<storage, life, uiNow, auto, acted, left>>
  PROVE  UiInv'
<1> DEFINE p == tab[t]
           store == storage[t]
           n == auto[t]
           out == left[t]
           since == acted[t]
           q == SignIn!ResolveAnonymous(p)
           k == SignIn!Navigate(q, path)
<1>1. p \in UiPages /\ TabInv(p, store, n, out, since, life, uiNow)
  BY TabBefore
<1>2. tab' = [tab EXCEPT ![t] = k]
  OBVIOUS
<1> HIDE DEF p
<1>3. /\ q \in UiPages /\ q.state = (IF p.state = "authenticated" THEN "authenticated" ELSE "anonymous") /\ ~q.timer
      /\ q.where = p.where /\ q.recovering = p.recovering /\ q.preparing = p.preparing /\ q.then = p.then
      /\ q.leaving = p.leaving
  BY <1>1 DEF SignIn!ResolveAnonymous, UiPages
<1> HIDE DEF q
<1>4. /\ k \in UiPages /\ k.response = "none" /\ k.state = q.state /\ ~k.timer
      /\ k.where = p.where /\ k.recovering = p.recovering /\ k.preparing = p.preparing /\ k.then = p.then
      /\ k.leaving = p.leaving
  BY <1>3, ZenonT(60) DEF SignIn!Navigate, SignIn!Responses, UiPages
<1> HIDE DEF k, store, n, out
<1>5. TabInv(k, store, n, out, since, life, uiNow)
  BY <1>1, <1>3, <1>4 DEF TabInv, PageLawful, AutoPaid, FutilePaid, KeptPaid, OutAndQuiet
<1> QED
  BY <1>2, <1>4, <1>5, PageStep DEF store, n, out, since

LEMMA CallbackStep ==
  ASSUME UiInv, NEW t \in Tabs, SignIn!CallbackWithoutResponse(t) \/ SignIn!NoSession(t)
  PROVE  UiInv'
<1>1. CASE SignIn!CallbackWithoutResponse(t)
  <2>1. /\ tab' = [tab EXCEPT ![t] = SignIn!Navigate(SignIn!ResolveAnonymous(tab[t]), home)]
        /\ UNCHANGED <<storage, life, uiNow, auto, acted, left>>
    BY <1>1 DEF SignIn!CallbackWithoutResponse
  <2> QED
    BY <2>1, UiSettings, Settles
<1>2. CASE SignIn!NoSession(t)
  <2>1. tab[t].entry \in SignIn!Redirects \cup {Nobody}
    BY TabBefore DEF UiPages
  <2>2. SignIn!Landing(tab[t].entry) \in Paths
    BY <2>1, LandsOnPath
  <2> QED
    BY <1>2, <2>2, Settles DEF SignIn!NoSession
<1> QED
  BY <1>1, <1>2

LEMMA ExchangeStep ==
  ASSUME UiInv, NEW t \in Tabs, SignIn!BeginExchange(t) \/ SignIn!ExchangeFails(t)
  PROVE  UiInv'
<1> DEFINE p == tab[t]
           store == storage[t]
           n == auto[t]
           out == left[t]
           since == acted[t]
<1>1. p \in UiPages /\ TabInv(p, store, n, out, since, life, uiNow)
  BY TabBefore
<1>2. UNCHANGED <<storage, life, uiNow, auto, acted, left>>
  BY DEF SignIn!BeginExchange, SignIn!ExchangeFails
<1>3. CASE SignIn!BeginExchange(t)
  <2> DEFINE k == [p EXCEPT !.callback = "exchanging"]
  <2>1. tab' = [tab EXCEPT ![t] = k]
    BY <1>3 DEF SignIn!BeginExchange
  <2> HIDE DEF p, store, n, out, since
  <2>2. /\ k \in UiPages /\ k.callback = "exchanging" /\ k.response = p.response /\ k.state = p.state /\ k.timer = p.timer /\ k.user = p.user
        /\ k.where = p.where /\ k.recovering = p.recovering /\ k.preparing = p.preparing /\ k.then = p.then
        /\ k.leaving = p.leaving /\ k.at = p.at
    BY <1>1 DEF UiPages
  <2> HIDE DEF k
  <2>3. TabInv(k, store, n, out, since, life, uiNow)
    BY <1>1, <2>2 DEF TabInv, PageLawful, AutoPaid, FutilePaid, KeptPaid, OutAndQuiet
  <2> QED
    BY <1>2, <2>1, <2>2, <2>3, PageStep DEF store, n, out, since
<1>4. CASE SignIn!ExchangeFails(t)
  <2> DEFINE q == SignIn!Stripped(p)
             k == [q EXCEPT !.callback = "failed"]
  <2>1. tab' = [tab EXCEPT ![t] = k]
    BY <1>4 DEF SignIn!ExchangeFails
  <2> HIDE DEF p, store, n, out, since
  <2>2. /\ q \in UiPages /\ q.response = "none" /\ q.state = p.state /\ q.timer = p.timer /\ q.user = p.user
        /\ q.where = p.where /\ q.recovering = p.recovering /\ q.preparing = p.preparing /\ q.then = p.then
        /\ q.leaving = p.leaving
    BY <1>1 DEF SignIn!Stripped, SignIn!Responses, UiPages
  <2> HIDE DEF q
  <2>3. /\ k \in UiPages /\ k.callback = "failed" /\ k.response = "none" /\ k.state = p.state /\ k.timer = p.timer /\ k.user = p.user
        /\ k.where = p.where /\ k.recovering = p.recovering /\ k.preparing = p.preparing /\ k.then = p.then
        /\ k.leaving = p.leaving
    BY <2>2 DEF UiPages
  <2> HIDE DEF k
  <2>4. TabInv(k, store, n, out, since, life, uiNow)
    BY <1>1, <2>3 DEF TabInv, PageLawful, AutoPaid, FutilePaid, KeptPaid, OutAndQuiet
  <2> QED
    BY <1>2, <2>1, <2>3, <2>4, PageStep DEF store, n, out, since
<1> QED
  BY <1>3, <1>4

\* What storage takes in, or refuses.
LEMMA Remembered ==
  ASSUME NEW store \in UiStores, NEW value \in BOOLEAN
  PROVE  LET s == SignIn!RememberSsoAttempt(store, value)
         IN s \in UiStores /\ s.futile = store.futile /\ s.blocked = store.blocked /\ (s.blocked \/ s.sso = value)
BY DEF SignIn!RememberSsoAttempt, UiStores

LEMMA Recorded ==
  ASSUME NEW store \in UiStores, NEW count \in 0 .. MaxFutile
  PROVE  LET s == SignIn!RecordFutileRenewal(store, count)
         IN s \in UiStores /\ s.futile \in 0 .. MaxFutile /\ (store.blocked \/ s.futile = count)
BY DEF SignIn!RecordFutileRenewal, UiStores

\* The renewal effect of a page that has just adopted somebody: a timer that was paid for, or none.
LEMMA EffectLawful ==
  ASSUME UiInv, NEW t \in Tabs, NEW q \in UiPages, NEW store \in UiStores, store.futile = storage[t].futile,
         store.blocked = storage[t].blocked, Returned(store, auto[t], acted[t]), acted[t] <= uiNow,
         q.where = "app", q.response = "none", q.state # "loading", q.preparing = Nobody, ~q.recovering, ~q.leaving,
         ~q.timer, q.user = IF life = 0 THEN 0 ELSE uiNow + life,
         NEW out \in {"in", "overtaken"}
  PROVE  LET after == SignIn!RenewalEffect(t, q, store)
         IN /\ after.page \in UiPages /\ after.store \in UiStores
            /\ TabInv(after.page, after.store, auto[t], out, acted[t], life, uiNow)
<1> DEFINE after == SignIn!RenewalEffect(t, q, store)
           timed == [q EXCEPT !.timer = TRUE]
           alone == SignIn!Adopt(q, Nobody)
           n == auto[t]
           since == acted[t]
           renewals == SignIn!FutileRenewals(t)
<1>1. /\ n \in Nat /\ since \in Nat /\ life \in Nat /\ uiNow \in Nat /\ since <= uiNow
      /\ Returned(store, n, since) /\ store.futile \in 0 .. MaxFutile
  BY TabBefore
<1>2. renewals = IF store.blocked THEN MaxFutile ELSE store.futile
  BY DEF SignIn!FutileRenewals
<1>3. /\ timed \in UiPages /\ timed.timer /\ timed.where = "app" /\ timed.response = "none" /\ timed.state = q.state
      /\ timed.preparing = Nobody /\ ~timed.recovering /\ ~timed.leaving /\ timed.user = q.user
  BY DEF UiPages
<1>4. /\ alone \in UiPages /\ ~alone.timer /\ alone.where = "app" /\ alone.response = "none" /\ alone.state = "anonymous"
      /\ alone.preparing = Nobody /\ ~alone.recovering /\ ~alone.leaving
  BY Adopts
<1>9. /\ Lasting(life) \in Int /\ Owed(n, life) \in Int
      /\ n <= 1 + MaxFutile \/ ~(life <= RenewSkew)
      /\ life <= RenewSkew => n <= 1 + store.futile
      /\ Timed(life) => Owed(n, life) <= Lasting(life) + (uiNow - since)
  BY <1>1, OwedCounts, UiSettings DEF Returned
<1> HIDE DEF n, since, renewals, timed, alone
<1>10. ASSUME NEW page \in UiPages, NEW s \in UiStores, page.where = "app", page.response = "none",
              page.state # "loading", page.preparing = Nobody, ~page.recovering, ~page.leaving, ~page.timer
       PROVE  TabInv(page, s, n, out, since, life, uiNow)
  <2>1. PageLawful(page) /\ OutAndQuiet(page, s, out)
    BY <1>10 DEF PageLawful, OutAndQuiet
  <2>2. AutoPaid(page, s, n, since, life, uiNow)
    BY <1>1, <1>9, <1>10 DEF AutoPaid, FutilePaid, KeptPaid
  <2> QED
    BY <2>1, <2>2 DEF TabInv
<1>5. CASE q.state # "authenticated" \/ q.user = 0
  <2>1. after = [page |-> q, store |-> store]
    BY <1>5 DEF SignIn!RenewalEffect
  <2>2. TabInv(q, store, n, out, since, life, uiNow)
    BY <1>10
  <2> HIDE DEF after
  <2>3. after.page = q /\ after.store = store
    BY <2>1
  <2> QED
    BY <2>2, <2>3 DEF after, n, since
<1>6. CASE ~(q.state # "authenticated" \/ q.user = 0) /\ SignIn!Delay(q.user) > 0
  <2> DEFINE s == SignIn!RecordFutileRenewal(store, 0)
  <2>1. after = [page |-> timed, store |-> s]
    BY <1>6 DEF SignIn!RenewalEffect, timed
  <2>2. s \in UiStores
    BY <1>1, UiSettings, Recorded
  <2> HIDE DEF s
  <2>3. q.user = uiNow + life /\ life > RenewSkew /\ q.user \in Nat
    <3>1. q.user = uiNow + life
      BY <1>6
    <3>2. q.user > uiNow + RenewSkew
      BY <1>6 DEF SignIn!Delay
    <3> QED
      BY <1>1, <3>1, <3>2, UiSettings
  <2>4. AutoPaid(timed, s, n, since, life, uiNow)
    <3>1. Timed(life) => Owed(n, life) <= timed.user - RenewSkew - since
      BY <1>1, <1>3, <1>9, <2>3, UiSettings DEF Lasting
    <3> QED
      BY <1>1, <1>3, <1>9, <2>3, <3>1, UiSettings DEF AutoPaid, KeptPaid
  <2>5. TabInv(timed, s, n, out, since, life, uiNow)
    BY <1>3, <1>6, <2>4 DEF TabInv, PageLawful, OutAndQuiet
  <2> HIDE DEF after
  <2>6. after.page = timed /\ after.store = s
    BY <2>1
  <2> QED
    BY <1>3, <2>2, <2>5, <2>6 DEF after, n, since
<1>7. CASE ~(q.state # "authenticated" \/ q.user = 0) /\ ~(SignIn!Delay(q.user) > 0) /\ renewals >= MaxFutile
  <2> DEFINE s == SignIn!RecordFutileRenewal(store, 0)
  <2>1. after = [page |-> alone, store |-> s]
    BY <1>7 DEF SignIn!RenewalEffect, alone, renewals
  <2>2. s \in UiStores
    BY <1>1, UiSettings, Recorded
  <2> HIDE DEF s
  <2>3. TabInv(alone, s, n, out, since, life, uiNow)
    BY <1>4, <1>10, <2>2
  <2> HIDE DEF after
  <2>4. after.page = alone /\ after.store = s
    BY <2>1
  <2> QED
    BY <1>4, <2>2, <2>3, <2>4 DEF after, n, since
<1>8. CASE ~(q.state # "authenticated" \/ q.user = 0) /\ ~(SignIn!Delay(q.user) > 0) /\ ~(renewals >= MaxFutile)
  <2> DEFINE s == SignIn!RecordFutileRenewal(store, renewals + 1)
  <2>1. after = [page |-> timed, store |-> s]
    BY <1>8 DEF SignIn!RenewalEffect, timed, renewals
  <2>2. ~store.blocked /\ renewals = store.futile /\ renewals + 1 \in 0 .. MaxFutile
    BY <1>1, <1>2, <1>8, UiSettings
  <2>3. s \in UiStores /\ s.futile = store.futile + 1
    BY <2>2, Recorded
  <2> HIDE DEF s
  <2>4. life <= RenewSkew
    <3>1. q.user = uiNow + life
      BY <1>8
    <3>2. ~(q.user - uiNow - RenewSkew > 0) \/ ~(q.user > uiNow + RenewSkew)
      BY <1>8 DEF SignIn!Delay
    <3> QED
      BY <1>1, <3>1, <3>2, UiSettings
  <2>5. AutoPaid(timed, s, n, since, life, uiNow)
    BY <1>1, <1>3, <1>9, <2>3, <2>4, UiSettings DEF AutoPaid, FutilePaid, Timed
  <2>6. TabInv(timed, s, n, out, since, life, uiNow)
    BY <1>3, <1>8, <2>5 DEF TabInv, PageLawful, OutAndQuiet
  <2> HIDE DEF after
  <2>7. after.page = timed /\ after.store = s
    BY <2>1
  <2> QED
    BY <1>3, <2>3, <2>6, <2>7 DEF after, n, since
<1> QED
  BY <1>5, <1>6, <1>7, <1>8

LEMMA SignedInStep == ASSUME UiInv, NEW t \in Tabs, SignIn!SignedIn(t) PROVE UiInv'
<1> DEFINE p == tab[t]
           store == SignIn!RememberSsoAttempt(storage[t], FALSE)
           user == IF life = 0 THEN 0 ELSE uiNow + life
           path == SignIn!Landing(p.entry)
           adopted == SignIn!Adopt(p, user)
           landed == SignIn!Navigate(adopted, path)
           q == [landed EXCEPT !.entry = Nobody]
           after == SignIn!RenewalEffect(t, q, store)
           k == after.page
           kept == after.store
<1>1. /\ p.where = "app" /\ p.response = "code"
      /\ tab' = [tab EXCEPT ![t] = k] /\ storage' = [storage EXCEPT ![t] = kept]
      /\ UNCHANGED <<life, uiNow, auto, acted, left>>
  BY DEF SignIn!SignedIn, SignIn!OnPage
<1>2. /\ p \in UiPages /\ storage[t] \in UiStores /\ auto[t] \in Nat /\ acted[t] \in Nat /\ left[t] \in Lefts
      /\ TabInv(p, storage[t], auto[t], left[t], acted[t], life, uiNow)
  BY TabBefore
<1>3. user \in Nat /\ path \in Paths
  <2>1. life \in Nat /\ uiNow \in Nat
    BY TabBefore
  <2>2. p.entry \in SignIn!Redirects \cup {Nobody}
    BY <1>2 DEF UiPages
  <2> QED
    BY <2>1, <2>2, LandsOnPath
<1>4. store \in UiStores /\ store.futile = storage[t].futile /\ store.blocked = storage[t].blocked
  BY <1>2, Remembered
<1>5. /\ left[t] \in {"in", "overtaken"} /\ p.preparing = Nobody /\ ~p.recovering /\ ~p.leaving
      /\ Returned(storage[t], auto[t], acted[t]) /\ acted[t] <= uiNow
  BY <1>1, <1>2 DEF TabInv, PageLawful, AutoPaid, FutilePaid, KeptPaid, Returned, OutAndQuiet, Lefts
<1>11. Returned(store, auto[t], acted[t])
  BY <1>4, <1>5 DEF Returned
<1> HIDE DEF user, path, store, p
<1>6. /\ adopted \in UiPages /\ adopted.state # "loading" /\ ~adopted.timer /\ adopted.where = "app"
      /\ adopted.preparing = Nobody /\ ~adopted.recovering /\ ~adopted.leaving /\ adopted.user = user
  <2>1. p \in UiPages /\ user \in Nat \cup {Nobody}
    BY <1>2, <1>3
  <2>2. p.where = "app" /\ p.preparing = Nobody /\ ~p.recovering /\ ~p.leaving
    BY <1>1, <1>5
  <2>3. /\ adopted \in UiPages /\ adopted.state \in {"anonymous", "authenticated"} /\ ~adopted.timer
        /\ adopted.user = user /\ adopted.where = p.where /\ adopted.preparing = p.preparing
        /\ adopted.recovering = p.recovering /\ adopted.leaving = p.leaving
    BY <2>1, Adopts
  <2> HIDE DEF adopted
  <2> QED
    BY <2>2, <2>3
<1> HIDE DEF adopted
<1>7. /\ landed \in UiPages /\ landed.state # "loading" /\ ~landed.timer /\ landed.where = "app"
      /\ landed.preparing = Nobody /\ ~landed.recovering /\ ~landed.leaving /\ landed.response = "none"
      /\ landed.user = user
  BY <1>3, <1>6 DEF SignIn!Navigate, SignIn!Responses, UiPages
<1> HIDE DEF landed
<1>8. /\ q \in UiPages /\ q.state # "loading" /\ ~q.timer /\ q.where = "app"
      /\ q.preparing = Nobody /\ ~q.recovering /\ ~q.leaving /\ q.response = "none" /\ q.user = user
  BY <1>7 DEF UiPages
<1> HIDE DEF q
<1>9. k \in UiPages /\ kept \in UiStores /\ TabInv(k, kept, auto[t], left[t], acted[t], life, uiNow)
  BY <1>4, <1>5, <1>8, <1>11, EffectLawful DEF user
<1> DEFINE n == auto[t]
           out == left[t]
           since == acted[t]
<1>10. /\ n \in Nat /\ out \in Lefts /\ since \in Nat /\ TabInv(k, kept, n, out, since, life, uiNow)
       /\ k \in UiPages /\ kept \in UiStores
       /\ tab' = [tab EXCEPT ![t] = k] /\ storage' = [storage EXCEPT ![t] = kept]
       /\ auto' = [auto EXCEPT ![t] = n] /\ left' = [left EXCEPT ![t] = out]
       /\ acted' = [acted EXCEPT ![t] = since] /\ UNCHANGED <<life, uiNow>>
  BY <1>1, <1>2, <1>9, TabSame
<1> HIDE DEF k, kept, n, out, since
<1> QED
  BY <1>10, TabStep

LEMMA RenewStep == ASSUME UiInv, NEW t \in Tabs, SignIn!Renew(t) PROVE UiInv'
<1> DEFINE p == tab[t]
           store == storage[t]
           n == auto[t]
           out == left[t]
           since == acted[t]
           q == [p EXCEPT !.timer = FALSE]
           k == SignIn!Redirecting(q, TRUE, "stay")
<1>1. /\ p.where = "app" /\ p.timer /\ (SignIn!Delay(p.user) = 0 \/ SignIn!TimerOverflows)
      /\ tab' = [tab EXCEPT ![t] = k]
      /\ UNCHANGED <<storage, life, uiNow, auto, acted, left>>
  BY DEF SignIn!Renew, SignIn!OnPage
<1>2. p \in UiPages /\ n \in Nat /\ since \in Nat /\ TabInv(p, store, n, out, since, life, uiNow)
  BY TabBefore
<1>3. /\ p.state = "authenticated" /\ p.response = "none" /\ out \notin {"out", "beside"}
      /\ life <= RenewSkew => n <= store.futile
  BY <1>1, <1>2 DEF TabInv, PageLawful, AutoPaid, FutilePaid, OutAndQuiet
<1>7. Timed(life) => Owed(n, life) <= uiNow - since
  <2> SUFFICES ASSUME Timed(life) PROVE Owed(n, life) <= uiNow - since
    OBVIOUS
  <2>1. KeptPaid(p, n, since, life, uiNow)
    BY <1>2 DEF TabInv, AutoPaid
  <2>2. p.user \in Nat /\ Owed(n, life) <= p.user - RenewSkew - since
    BY <1>1, <1>2, <2>1 DEF KeptPaid, UiPages
  <2>3. life \in Nat /\ uiNow \in Nat
    BY TabBefore
  <2>4. SignIn!Delay(p.user) = 0
    BY <1>1 DEF Timed, SignIn!TimerOverflows
  <2>5. p.user <= uiNow + RenewSkew
    BY <2>2, <2>3, <2>4, UiSettings DEF SignIn!Delay
  <2>6. Owed(n, life) \in Int
    BY <1>2, <2>3, OwedCounts
  <2> QED
    BY <1>2, <2>2, <2>3, <2>5, <2>6, UiSettings
<1> HIDE DEF p, store, n, out, since
<1>4. /\ q \in UiPages /\ ~q.timer /\ q.where = "app" /\ q.response = "none" /\ q.state = "authenticated"
      /\ q.recovering = p.recovering /\ q.leaving = p.leaving
  BY <1>1, <1>2, <1>3 DEF UiPages
<1> HIDE DEF q
<1>5. /\ k \in UiPages /\ ~k.timer /\ k.where = "app" /\ k.response = "none" /\ k.state = "authenticated"
      /\ k.recovering = p.recovering /\ k.leaving = p.leaving
  BY <1>4, RedirectPrepared, ZenonT(60)
<1> HIDE DEF k
<1>6. TabInv(k, store, n, out, since, life, uiNow)
  BY <1>1, <1>2, <1>3, <1>5, <1>7 DEF TabInv, PageLawful, AutoPaid, FutilePaid, KeptPaid, OutAndQuiet
<1> QED
  BY <1>1, <1>5, <1>6, PageStep DEF store, n, out, since

LEMMA LoadStep ==
  ASSUME UiInv, NEW t \in Tabs, NEW at \in Paths \cup {callback}, SignIn!Load(t, at)
  PROVE  UiInv'
<1> DEFINE p == tab[t]
           store == storage[t]
           out == SignIn!PendingGone(left[t])
           same == p.where = "app" /\ at = p.at
           response == IF same THEN p.response ELSE "none"
           entry == IF same /\ p.callback # "exchanging" THEN p.entry ELSE Nobody
           k == SignIn!PageAt(at, response, entry)
<1>1. /\ tab' = [tab EXCEPT ![t] = k] /\ auto' = [auto EXCEPT ![t] = 0]
      /\ acted' = [acted EXCEPT ![t] = uiNow] /\ left' = [left EXCEPT ![t] = out] /\ UNCHANGED <<storage, life, uiNow>>
  BY DEF SignIn!Load, SignIn!OnPage
<1>2. /\ p \in UiPages /\ store \in UiStores /\ left[t] \in Lefts /\ life \in Nat /\ uiNow \in Nat
      /\ TabInv(p, store, auto[t], left[t], acted[t], life, uiNow)
  BY TabBefore
<1>6. /\ out \in {"in", "out", "overtaken"} /\ out \in Lefts
      /\ out = "out" => left[t] \in {"out", "beside"}
  BY <1>2 DEF SignIn!PendingGone, Lefts
<1>3. /\ response \in SignIn!Responses /\ entry \in SignIn!Redirects \cup {Nobody}
      /\ response # "none" => at = callback
      /\ out = "out" => response = "none" /\ (store.blocked \/ store.sso)
  <2> HIDE DEF p, store, out
  <2>1. p.response \in SignIn!Responses /\ p.entry \in SignIn!Redirects \cup {Nobody} /\ "none" \in SignIn!Responses
    BY <1>2 DEF UiPages, SignIn!Responses
  <2>2. /\ p.response # "none" => p.at = callback
        /\ out = "out" => p.response = "none" /\ (store.blocked \/ store.sso)
    BY <1>2, <1>6 DEF TabInv, PageLawful, OutAndQuiet
  <2> QED
    BY <2>1, <2>2
<1>4. /\ tab' = [tab EXCEPT ![t] = k] /\ storage' = [storage EXCEPT ![t] = store] /\ auto' = [auto EXCEPT ![t] = 0]
      /\ left' = [left EXCEPT ![t] = out] /\ acted' = [acted EXCEPT ![t] = uiNow] /\ UNCHANGED <<life, uiNow>>
  BY <1>1, TabSame
<1> HIDE DEF response, entry, store, out
<1>5. k \in UiPages /\ TabInv(k, store, 0, out, uiNow, life, uiNow)
  BY <1>2, <1>3, <1>6, LoadLawful
<1> HIDE DEF k, p
<1> QED
  BY <1>2, <1>4, <1>5, <1>6, TabStep

LEMMA LoginStep == ASSUME UiInv, NEW t \in Tabs, SignIn!Login(t) PROVE UiInv'
<1> DEFINE p == tab[t]
           store == SignIn!RememberSsoAttempt(storage[t], FALSE)
           k == SignIn!Redirecting(p, FALSE, "stay")
<1>1. /\ p.where = "app" /\ SignIn!Shown(t) = "SignInPage"
      /\ tab' = [tab EXCEPT ![t] = k] /\ storage' = [storage EXCEPT ![t] = store] /\ auto' = [auto EXCEPT ![t] = 0]
      /\ left' = [left EXCEPT ![t] = "in"] /\ acted' = [acted EXCEPT ![t] = uiNow] /\ UNCHANGED <<life, uiNow>>
  BY DEF SignIn!Login, SignIn!OnPage
<1>2. /\ p \in UiPages /\ storage[t] \in UiStores /\ TabInv(p, storage[t], auto[t], left[t], acted[t], life, uiNow)
      /\ storage[t].futile \in 0 .. MaxFutile /\ life \in Nat /\ uiNow \in Nat
  BY TabBefore
<1>3. p.state = "anonymous"
  BY <1>1 DEF SignIn!Shown
<1>4. p.response = "none" /\ ~p.timer
  BY <1>2, <1>3 DEF TabInv, PageLawful
<1>5. store \in UiStores /\ store.futile \in 0 .. MaxFutile
  BY <1>2, Remembered
<1> HIDE DEF p, store
<1>6. /\ k \in UiPages /\ k.preparing # Nobody /\ k.where = "app" /\ k.response = "none" /\ k.state = "anonymous"
      /\ ~k.timer /\ k.recovering = p.recovering /\ k.leaving = p.leaving
  BY <1>1, <1>2, <1>3, <1>4, RedirectPrepared
<1> HIDE DEF k
<1>7. TabInv(k, store, 0, "in", uiNow, life, uiNow)
  BY <1>2, <1>5, <1>6, UiSettings, OwedCounts DEF TabInv, PageLawful, AutoPaid, FutilePaid, KeptPaid, OutAndQuiet
<1> QED
  BY <1>1, <1>2, <1>5, <1>6, <1>7, TabStep DEF Lefts

LEMMA LogoutStep == ASSUME UiInv, NEW t \in Tabs, SignIn!Logout(t) PROVE UiInv'
<1> DEFINE p == tab[t]
           store == SignIn!RememberSsoAttempt(storage[t], TRUE)
           q == SignIn!Adopt(p, Nobody)
           k == [q EXCEPT !.leaving = TRUE]
           out == IF p.preparing = Nobody THEN "out" ELSE "beside"
<1>1. /\ p.where = "app" /\ SignIn!Shown(t) = "app"
      /\ tab' = [tab EXCEPT ![t] = k] /\ storage' = [storage EXCEPT ![t] = store] /\ auto' = [auto EXCEPT ![t] = 0]
      /\ left' = [left EXCEPT ![t] = out]
      /\ acted' = [acted EXCEPT ![t] = uiNow] /\ UNCHANGED <<life, uiNow>>
  BY DEF SignIn!Logout, SignIn!OnPage
<1>2. p \in UiPages /\ storage[t] \in UiStores /\ TabInv(p, storage[t], auto[t], left[t], acted[t], life, uiNow)
      /\ storage[t].futile \in 0 .. MaxFutile /\ life \in Nat /\ uiNow \in Nat
  BY TabBefore
<1>3. p.state # "loading"
  BY <1>1 DEF SignIn!Shown
<1>4. p.response = "none"
  BY <1>2, <1>3 DEF TabInv, PageLawful
<1>5. store \in UiStores /\ store.futile \in 0 .. MaxFutile /\ (store.blocked \/ store.sso)
  BY <1>2, Remembered
<1> HIDE DEF p, store
<1>6. /\ q \in UiPages /\ q.where = "app" /\ q.response = "none" /\ q.state = "anonymous"
      /\ ~q.timer /\ q.recovering = p.recovering /\ q.preparing = p.preparing
  BY <1>1, <1>2, <1>4, Adopts
<1> HIDE DEF q
<1>7. /\ k \in UiPages /\ k.where = "app" /\ k.response = "none" /\ k.state = "anonymous"
      /\ ~k.timer /\ k.preparing = p.preparing
  BY <1>6 DEF UiPages
<1>8. out \in Lefts /\ (out = "out" => k.preparing = Nobody)
  BY <1>7 DEF Lefts
<1> HIDE DEF k, out
<1>9. TabInv(k, store, 0, out, uiNow, life, uiNow)
  BY <1>2, <1>5, <1>7, <1>8, UiSettings, OwedCounts DEF TabInv, PageLawful, AutoPaid, FutilePaid, KeptPaid, OutAndQuiet
<1> QED
  BY <1>1, <1>2, <1>5, <1>7, <1>8, <1>9, TabStep

LEMMA SignedOutStep == ASSUME UiInv, NEW t \in Tabs, SignIn!SignedOut(t) PROVE UiInv'
<1> DEFINE p == tab[t]
           store == storage[t]
           n == auto[t]
           out == left[t]
           since == acted[t]
<1>1. p.where = "app" /\ p.leaving /\ UNCHANGED <<storage, life, uiNow, auto, acted>>
  BY DEF SignIn!SignedOut, SignIn!OnPage
<1>2. /\ p \in UiPages /\ store \in UiStores /\ n \in Nat /\ out \in Lefts /\ since \in Nat
      /\ TabInv(p, store, n, out, since, life, uiNow) /\ life \in Nat /\ uiNow \in Nat
  BY TabBefore
<1>3. n = 0 /\ since <= uiNow /\ (out \in {"out", "beside"} => store.blocked \/ store.sso)
  BY <1>1, <1>2 DEF TabInv, AutoPaid, OutAndQuiet
<1>7. /\ storage' = [storage EXCEPT ![t] = store] /\ auto' = [auto EXCEPT ![t] = n]
      /\ acted' = [acted EXCEPT ![t] = since] /\ left = [left EXCEPT ![t] = out] /\ UNCHANGED <<life, uiNow>>
  BY <1>1, TabSame
<1>4. CASE /\ tab' = [tab EXCEPT ![t] = SignIn!PageAt(home, "none", Nobody)]
           /\ left' = [left EXCEPT ![t] = SignIn!PendingGone(out)]
  <2> DEFINE k == SignIn!PageAt(home, "none", Nobody)
             gone == SignIn!PendingGone(out)
  <2>1. "none" \in SignIn!Responses /\ home \in Paths
    BY UiSettings DEF SignIn!Responses
  <2>3. /\ gone \in {"in", "out", "overtaken"} /\ gone \in Lefts
        /\ gone = "out" => out \in {"out", "beside"}
    BY <1>2 DEF SignIn!PendingGone, Lefts
  <2>4. tab' = [tab EXCEPT ![t] = k] /\ left' = [left EXCEPT ![t] = gone]
    BY <1>4
  <2> HIDE DEF p, store, n, out, since, gone
  <2>2. k \in UiPages /\ TabInv(k, store, n, gone, since, life, uiNow)
    BY <1>2, <1>3, <2>1, <2>3, LoadLawful
  <2> HIDE DEF k
  <2> QED
    BY <1>2, <1>7, <2>2, <2>3, <2>4, TabStep
<1>5. CASE tab' = [tab EXCEPT ![t] = [p EXCEPT !.leaving = FALSE]] /\ UNCHANGED left
  <2> DEFINE k == [p EXCEPT !.leaving = FALSE]
  <2>1. tab' = [tab EXCEPT ![t] = k]
    BY <1>5
  <2> HIDE DEF p, store, n, out, since
  <2>2. /\ k \in UiPages /\ k.where = p.where /\ k.response = p.response /\ k.state = p.state /\ k.at = p.at
        /\ k.timer = p.timer /\ k.recovering = p.recovering /\ k.preparing = p.preparing /\ k.then = p.then
        /\ k.callback = p.callback /\ ~k.leaving /\ k.user = p.user
    BY <1>2 DEF UiPages
  <2> HIDE DEF k
  <2>3. TabInv(k, store, n, out, since, life, uiNow)
    BY <1>2, <2>2 DEF TabInv, PageLawful, AutoPaid, FutilePaid, KeptPaid, OutAndQuiet
  <2> QED
    BY <1>2, <1>5, <1>7, <2>1, <2>2, <2>3, TabStep
<1>6. \/ /\ tab' = [tab EXCEPT ![t] = SignIn!PageAt(home, "none", Nobody)]
         /\ left' = [left EXCEPT ![t] = SignIn!PendingGone(out)]
      \/ tab' = [tab EXCEPT ![t] = [p EXCEPT !.leaving = FALSE]] /\ UNCHANGED left
  BY DEF SignIn!SignedOut
<1> QED
  BY <1>4, <1>5, <1>6

LEMMA FollowStep ==
  ASSUME UiInv, NEW t \in Tabs, NEW path \in Paths, SignIn!Follow(t, path)
  PROVE  UiInv'
<1> DEFINE p == tab[t]
           store == storage[t]
           n == auto[t]
           out == left[t]
           since == acted[t]
           k == [p EXCEPT !.at = path]
<1>1. /\ SignIn!Shown(t) = "app" /\ tab' = [tab EXCEPT ![t] = k]
      /\ UNCHANGED <<storage, life, uiNow, auto, acted, left>>
  BY DEF SignIn!Follow
<1>2. p \in UiPages /\ TabInv(p, store, n, out, since, life, uiNow)
  BY TabBefore
<1>3. p.state # "loading"
  BY <1>1 DEF SignIn!Shown
<1>4. p.response = "none"
  BY <1>2, <1>3 DEF TabInv, PageLawful
<1> HIDE DEF p, store, n, out, since
<1>5. /\ k \in UiPages /\ k.where = p.where /\ k.response = "none" /\ k.state = p.state
      /\ k.timer = p.timer /\ k.recovering = p.recovering /\ k.preparing = p.preparing /\ k.then = p.then
      /\ k.callback = p.callback /\ k.leaving = p.leaving /\ k.user = p.user
  BY <1>2, <1>4 DEF UiPages
<1> HIDE DEF k
<1>6. TabInv(k, store, n, out, since, life, uiNow)
  BY <1>2, <1>4, <1>5 DEF TabInv, PageLawful, AutoPaid, FutilePaid, KeptPaid, OutAndQuiet
<1> QED
  BY <1>1, <1>5, <1>6, PageStep DEF store, n, out, since

LEMMA UiStep == UiInv /\ [SignIn!Next]_(SignIn!vars) => UiInv'
<1> SUFFICES ASSUME UiInv, [SignIn!Next]_(SignIn!vars) PROVE UiInv'
  OBVIOUS
<1>1. ASSUME UNCHANGED <<tab, storage, life, auto, acted, left>>, uiNow' = uiNow \/ uiNow' = uiNow + 1 PROVE UiInv'
  <2>1. UiTypes'
    BY <1>1 DEF UiInv, UiTypes
  <2>2. ASSUME NEW t \in Tabs PROVE TabInv(tab[t], storage[t], auto[t], left[t], acted[t], life, uiNow')
    <3> DEFINE p == tab[t]
               store == storage[t]
               n == auto[t]
               since == acted[t]
    <3>1. /\ TabInv(p, store, n, left[t], since, life, uiNow) /\ n \in Nat /\ since \in Nat
          /\ life \in Nat /\ uiNow \in Nat
      BY TabBefore
    <3> HIDE DEF p, store, n, since
    <3>2. Owed(n, life) \in Int /\ Lasting(life) \in Int
      BY <3>1, OwedCounts
    <3>3. ASSUME KeptPaid(p, n, since, life, uiNow) PROVE KeptPaid(p, n, since, life, uiNow')
      BY <1>1, <3>1, <3>2, <3>3 DEF KeptPaid
    <3>4. AutoPaid(p, store, n, since, life, uiNow')
      BY <1>1, <3>1, <3>3 DEF TabInv, AutoPaid
    <3> QED
      BY <3>1, <3>4 DEF TabInv, p, store, n, since
  <2> QED
    BY <1>1, <2>1, <2>2 DEF UiInv
<1>2. CASE UNCHANGED SignIn!vars \/ SignIn!OtherApp \/ SignIn!Tick
  <2>1. UNCHANGED <<tab, storage, life, auto, acted, left>> /\ (uiNow' = uiNow \/ uiNow' = uiNow + 1)
    BY <1>2 DEF SignIn!vars, SignIn!OtherApp, SignIn!Tick
  <2> QED
    BY <1>1, <2>1
<1>3. CASE \E t \in Tabs, at \in Paths \cup {callback} : SignIn!Load(t, at)
  BY <1>3, LoadStep
<1>4. CASE \E t \in Tabs, path \in Paths : SignIn!Follow(t, path)
  BY <1>4, FollowStep
<1>5. ASSUME NEW t \in Tabs,
             \/ SignIn!Recover(t) \/ SignIn!RedirectLeaves(t) \/ SignIn!RedirectFails(t) \/ SignIn!ProviderAnswers(t)
             \/ SignIn!CallbackWithoutResponse(t) \/ SignIn!NoSession(t) \/ SignIn!BeginExchange(t)
             \/ SignIn!SignedIn(t) \/ SignIn!ExchangeFails(t) \/ SignIn!Renew(t)
             \/ SignIn!Login(t) \/ SignIn!Logout(t) \/ SignIn!SignedOut(t)
      PROVE  UiInv'
  BY <1>5, RecoverStep, LeavesStep, FailsToLeaveStep, ProviderStep, CallbackStep, ExchangeStep, SignedInStep,
     RenewStep, LoginStep, LogoutStep, SignedOutStep
<1> QED
  BY <1>2, <1>3, <1>4, <1>5 DEF SignIn!Next

----------------------------------------------------------------------------
(* The composition *)

\* A step of the composition is one of the part it is of.
LEMMA HostSteps ==
  ASSUME [HostNext]_hostVars
  PROVE  /\ part' = part
         /\ part = "UpstreamCall" => [Upstream!Next]_(Upstream!vars)
         /\ part = "UpstreamCall" /\ hostVars' # hostVars => Upstream!Next
         /\ part = "ServiceHealth" => [Health!Next]_(Health!vars)
         /\ part = "QrCodes" => [Qr!Next]_(Qr!vars)
         /\ part = "InboundAuth" => [Door!Next]_(Door!vars)
         /\ part = "UiAuth" => [SignIn!Next]_(SignIn!vars)
<1>1. CASE UNCHANGED hostVars
  <2>1. UNCHANGED <<part, upVars, healthVars, doorVars, uiVars, qrVars>>
    BY <1>1 DEF hostVars
  <2> QED
    BY <1>1, <2>1 DEF upVars, Upstream!vars, healthVars, Health!vars, doorVars, Door!vars, uiVars, SignIn!vars,
      qrVars, Qr!vars
<1>2. CASE HostNext
  <2>1. part' = part
    BY <1>2 DEF HostNext, OutboundOnly, UpstreamOnly, HealthOnly, DoorOnly, SignInOnly, QrOnly
  <2>2. ASSUME part = "UpstreamCall" PROVE Upstream!Next
    BY <1>2, <2>2 DEF HostNext, Upstream!Next, OutboundOnly, UpstreamOnly, HealthOnly, DoorOnly, SignInOnly, QrOnly
  <2>3. ASSUME part = "ServiceHealth" PROVE Health!Next
    BY <1>2, <2>3 DEF HostNext, Health!Next, OutboundOnly, UpstreamOnly, HealthOnly, DoorOnly, SignInOnly, QrOnly
  <2>4. ASSUME part = "QrCodes" PROVE Qr!Next
    BY <1>2, <2>4 DEF HostNext, Qr!Next, OutboundOnly, UpstreamOnly, HealthOnly, DoorOnly, SignInOnly, QrOnly
  <2>5. ASSUME part = "InboundAuth" PROVE Door!Next
    BY <1>2, <2>5 DEF HostNext, Door!Next, OutboundOnly, UpstreamOnly, HealthOnly, DoorOnly, SignInOnly, QrOnly
  <2>6. ASSUME part = "UiAuth" PROVE SignIn!Next
    BY <1>2, <2>6 DEF HostNext, SignIn!Next, OutboundOnly, UpstreamOnly, HealthOnly, DoorOnly, SignInOnly, QrOnly
  <2> QED
    BY <2>1, <2>2, <2>3, <2>4, <2>5, <2>6
<1> QED
  BY <1>1, <1>2

\* ResiliencePolicy in the composition: the breaker closes on a trial's own answer only, and opens on failures
\* that happened, however many calls share it and whichever are cancelled.
THEOREM HostBreakerHonest == HostSpec => BreakerHonest
<1> DEFINE Inv == part = "UpstreamCall" => UpstreamInv
<1>1. HostInit => Inv
  <2> SUFFICES ASSUME HostInit, part = "UpstreamCall" PROVE UpstreamInv
    OBVIOUS
  <2>1. Upstream!Init
    BY DEF HostInit
  <2> QED
    BY <2>1, UpstreamInit
<1>2. Inv /\ [HostNext]_hostVars => Inv'
  BY HostSteps, UpstreamSteps
<1>3. Inv /\ [HostNext]_hostVars =>
        [part = "UpstreamCall" => Upstream!ClosedByAnswer /\ Upstream!OpenedByFailure]_hostVars
  <2> SUFFICES ASSUME Inv, [HostNext]_hostVars, part = "UpstreamCall", hostVars' # hostVars
               PROVE  Upstream!ClosedByAnswer /\ Upstream!OpenedByFailure
    OBVIOUS
  <2>1. UpstreamInv /\ Upstream!Next
    BY HostSteps
  <2> QED
    BY <2>1, UpstreamSteps DEF UpstreamKept
<1> HIDE DEF Inv
<1> QED
  BY <1>1, <1>2, <1>3, PTL DEF HostSpec, BreakerHonest

\* HealthService and createShutdownHandler in the composition: a probe is answered within the longest check and
\* with nothing stale, and a process told to stop is torn down once, after its drain.
THEOREM HostHealthSound == HostSpec => []HealthSound
<1> DEFINE Inv == part = "ServiceHealth" => HealthInv
<1>1. HostInit => Inv
  <2> SUFFICES ASSUME HostInit, part = "ServiceHealth" PROVE HealthInv
    OBVIOUS
  <2>1. Health!Init
    BY DEF HostInit
  <2> QED
    BY <2>1, HealthInit
<1>2. Inv /\ [HostNext]_hostVars => Inv'
  BY HostSteps, HealthStep
<1>3. Inv => HealthSound
  BY HealthHolds DEF HealthSound
<1> HIDE DEF Inv
<1> QED
  BY <1>1, <1>2, <1>3, PTL DEF HostSpec

\* qr-manager-api in the composition: a POST stores at most one record and says so, a printed label names one
\* record, and a scan is told what was stored while it waited.
THEOREM HostQrCodesSound == HostSpec => []QrCodesSound
<1> DEFINE Inv == part = "QrCodes" => QrInv
<1>1. HostInit => Inv
  <2> SUFFICES ASSUME HostInit, part = "QrCodes" PROVE QrInv
    OBVIOUS
  <2>1. Qr!Init
    BY DEF HostInit
  <2> QED
    BY <2>1, QrInit
<1>2. Inv /\ [HostNext]_hostVars => Inv'
  BY HostSteps, QrStep
<1>3. Inv => QrCodesSound
  BY QrHolds DEF QrCodesSound
<1> HIDE DEF Inv
<1> QED
  BY <1>1, <1>2, <1>3, PTL DEF HostSpec

\* AuthGuard, Authenticator, JwtVerifier and RemoteJwksSource in the composition: a good token is refused only for
\* as long as a new key may take to be seen, an outage is answered as one, and a handler runs for whom the
\* decorators let in, under every configuration the schema accepts and every way routes can be decorated.
THEOREM HostDoorHonest == HostSpec => []DoorHonest
<1> DEFINE Inv == part = "InboundAuth" => DoorInv
<1>1. HostInit => Inv
  <2> SUFFICES ASSUME HostInit, part = "InboundAuth" PROVE DoorInv
    OBVIOUS
  <2>1. Door!Init
    BY DEF HostInit
  <2> QED
    BY <2>1, DoorInit
<1>2. Inv /\ [HostNext]_hostVars => Inv'
  BY HostSteps, DoorStep
<1>3. Inv => DoorHonest
  BY DoorHolds DEF DoorHonest
<1> HIDE DEF Inv
<1> QED
  BY <1>1, <1>2, <1>3, PTL DEF HostSpec

\* AuthProvider and AuthCallback in the composition: no page waits for nothing, a tab left alone is not redirected
\* for ever, and who logged out stays out, with any tabs, routes and token lives.
THEOREM HostSignInSound == HostSpec => []SignInSound
<1> DEFINE Inv == part = "UiAuth" => UiInv
<1>1. HostInit => Inv
  <2> SUFFICES ASSUME HostInit, part = "UiAuth" PROVE UiInv
    OBVIOUS
  <2>1. SignIn!Init
    BY DEF HostInit
  <2> QED
    BY <2>1, UiInit
<1>2. Inv /\ [HostNext]_hostVars => Inv'
  BY HostSteps, UiStep
<1>3. Inv => SignInSound
  BY UiHolds DEF SignInSound
<1> HIDE DEF Inv
<1> QED
  BY <1>1, <1>2, <1>3, PTL DEF HostSpec
=============================================================================
