------------------------------ MODULE InboundAuth ------------------------------
(***************************************************************************)
(* A request at the door of a service: the guard reads what the route's    *)
(* decorators left, the Authenticator tries the methods in their order, a  *)
(* JwtVerifier waits for its key source, and the refusal worth reporting    *)
(* becomes the answer.  A tool of knowledge-base-mcp passes the same        *)
(* Authenticator at its endpoint and its level's role behind it.            *)
(*                                                                         *)
(* An identity provider publishes keys and retires them, its key set is     *)
(* cached for every verifier on its own (jose's remote set), and requests   *)
(* share the fetch in flight.  A token is a record of what the code reads.  *)
(***************************************************************************)
EXTENDS Naturals, Sequences, FiniteSets, SequencesExt

CONSTANTS Requests,
          Config,        \* method -> its entry of the auth block
          Arrivals,      \* <<route, token>>: what a handler's decorators or a tool say, and what a caller sends
          Keys,          \* signing keys of the identity provider
          FirstKey,
          Nobody,        \* no key, no role, no principal
          CacheTtl,      \* cacheTtlSeconds
          Cooldown,      \* refreshCooldownMs
          FetchTimeout,  \* timeoutMs
          MaxTime, MaxFaults  \* bounds

VARIABLES idp,    \* the provider's published keys, and since when each is
          cache,  \* <<method, issuer>> -> jose's remote key set
          req,    \* request -> how far it got
          now, faults

vars == <<idp, cache, req, now, faults>>

\* StaticKeySchema and JwksKeySchema: the algorithms of a row are the configured ones, never the token's.
Sources == {"value", "jwks"}

\* A verifier looks its rows up by issuer: createAuthConfigSchema refuses two rows of one issuer.
ConfigValid ==
  \A m \in DOMAIN Config :
    IF Config[m].type = "bearer-jwt"
      THEN /\ Config[m].issuers # {}
           /\ \A a, b \in Config[m].issuers : a.issuer = b.issuer => a = b
           /\ \A row \in Config[m].issuers : row.source \in Sources /\ row.algorithms # {}
      ELSE Config[m].roles # {}

\* What decorators and a tool say of a route: @Anonymous decorates methods only.
Decorated(d) == d.methods \in Seq(ToSet(d.methods)) /\ d.roles \in Seq(ToSet(d.roles))
RoutesValid ==
  \A a \in Arrivals :
    \/ a[1].door = "mcp"
    \/ /\ a[1].door = "api"
       /\ Decorated(a[1].class) /\ Decorated(a[1].method) /\ ~a[1].class.anonymous

\* A valid configuration, whose routes are decorated as decorators can be and whose roles have names.
DoorAssumption ==
  /\ ConfigValid /\ RoutesValid
  /\ \A m \in DOMAIN Config : Config[m].type # "bearer-jwt" => Nobody \notin Config[m].roles
  /\ \A a \in Arrivals : a = <<a[1], a[2]>> /\ Nobody \notin a[2].roles
  /\ FirstKey \in Keys
  /\ {CacheTtl, Cooldown, FetchTimeout, MaxTime, MaxFaults} \subseteq Nat

\* RemoteJwksSource: one remote set for each jwks row of each verifier.
RemoteSets ==
  UNION {{<<m, row.issuer>> : row \in {x \in Config[m].issuers : x.source = "jwks"}} :
            m \in {x \in DOMAIN Config : Config[x].type = "bearer-jwt"}}

Never == MaxTime + 1  \* a key not published yet

NoRequest == [at |-> "new", route |-> Nobody, token |-> Nobody, tried |-> 0, failures |-> <<>>,
              answer |-> "none", by |-> Nobody, roles |-> {}, blind |-> FALSE]

Init ==
  /\ idp = [keys |-> {FirstKey}, since |-> [k \in Keys |-> IF k = FirstKey THEN 0 ELSE Never]]
  /\ cache = [s \in RemoteSets |-> [have |-> FALSE, keys |-> {}, at |-> 0, pending |-> FALSE, asked |-> {}, began |-> 0]]
  /\ req = [r \in Requests |-> NoRequest]
  /\ now = 0
  /\ faults = 0

Reasons == {"ok", "missing", "invalid", "wrong-audience", "unknown-issuer", "indeterminate"}
Answers == {"none", "handled", "unauthorized", "forbidden", "unavailable", "misconfigured"}

TypeOK ==
  /\ idp.keys \subseteq Keys /\ idp.since \in [Keys -> 0 .. Never]
  /\ \A s \in RemoteSets : cache[s].keys \subseteq Keys /\ cache[s].pending \in BOOLEAN
  /\ \A r \in Requests : req[r].at \in {"new", "verify", "waiting", "done"} /\ req[r].answer \in Answers
  /\ now \in 0 .. MaxTime /\ faults \in 0 .. MaxFaults

----------------------------------------------------------------------------
(* What the decorators say *)

\* One RequireRoles is one entry: any of its roles satisfies it.
RequireRoles(roles) == <<roles>>

\* MUTANT: the roles of all decorators in one list, any of which is enough.
MergeFlat(class, method) ==
  [anonymous |-> class.anonymous \/ method.anonymous,
   methods |-> IF method.methods = <<>> THEN class.methods ELSE method.methods,
   roles |-> RequireRoles(UNION ToSet(class.roles \o method.roles))]

\* The endpoint's store: Ts.ED replaces a scalar, the encoded methods, and concatenates the role entries.
Merge(class, method) ==
  [anonymous |-> class.anonymous \/ method.anonymous,
   methods |-> IF method.methods = <<>> THEN class.methods ELSE method.methods,
   roles |-> class.roles \o method.roles]

\* The roles one of which opens an MCP endpoint's door.
DoorRoles(route) == {route.roles[level] : level \in DOMAIN route.roles} \ {Nobody}

\* The role a tool's level maps to; a level the endpoint does not map is held by nobody.
LevelRole(route) == IF route.level \in DOMAIN route.roles THEN route.roles[route.level] ELSE Nobody

\* An endpoint has one method of its own, and a tool of it one level.
EndpointOptions(route) ==
  [anonymous |-> FALSE, methods |-> <<route.endpoint>>,
   roles |-> RequireRoles(DoorRoles(route)) \o RequireRoles({LevelRole(route)})]

\* What the guard, or the endpoint's verifier and its role interceptor, go by.
Options(route) == IF route.door = "api" THEN Merge(route.class, route.method) ELSE EndpointOptions(route)

\* And between the entries, or within one; an empty entry is anyone's.
Satisfies(roles, requirements) == \A anyOf \in ToSet(requirements) : anyOf = {} \/ anyOf \cap roles # {}

----------------------------------------------------------------------------
(* Verdicts *)

RowOf(m, token) == {row \in Config[m].issuers : row.issuer = token.iss}

\* Nothing but a bearer scheme with something behind it is this verifier's.
Extracted(token) == token.form \in {"garbled", "jwt"}

\* What a JwtVerifier says before it asks for a key, "none" when it must ask.
Unasked(m, token) ==
  CASE ~Extracted(token) -> "missing"
    [] token.form = "garbled" \/ token.iss = Nobody -> "invalid"
    [] token.form = "jwt" /\ token.iss # Nobody /\ RowOf(m, token) = {} -> "unknown-issuer"
    [] token.form = "jwt" /\ \E row \in RowOf(m, token) : token.alg \notin row.algorithms -> "invalid"
    [] OTHER -> "none"

\* jwtVerify under the candidates in turn: only a signature that does not fit passes to the next.
Verdict(token, row, candidates) ==
  CASE token.signedBy \notin candidates \/ token.exp = "none" -> "invalid"
    [] token.signedBy \in candidates /\ token.exp # "none" /\ token.aud # row.audience -> "wrong-audience"
    [] token.signedBy \in candidates /\ token.aud = row.audience /\ (token.exp = "over" \/ token.sub = Nobody) -> "invalid"
    [] OTHER -> "ok"

\* jose's local set: keys that fit the header's kid; a token without one fits them all.
Fitting(token, keys) == IF token.kid = Nobody THEN keys ELSE keys \cap {token.kid}

\* MUTANT: several fitting keys refused like none.
CandidatesSingle(token, keys) ==
  IF Cardinality(Fitting(token, keys)) = 1 THEN Fitting(token, keys) ELSE {}

\* RemoteJwksSource.getKey: no fitting key is the token's fault, several are all handed on.
Candidates(token, keys) == Fitting(token, keys)

\* MUTANT: the last failure of the chain.
MostTellingLast(failures) == Last(failures).reason

\* The failure worth reporting: an outage before a refusal, and that before there being nothing to refuse.
\* Which of several refusals is reported, the first, is wording.
MostTelling(failures) ==
  LET told == {failure.reason : failure \in ToSet(failures)}
  IN IF "indeterminate" \in told THEN "indeterminate"
     ELSE IF told \ {"missing"} # {} THEN CHOOSE reason \in told : reason # "missing"
     ELSE "missing"

\* statusForReason and exceptionFor: our own outage is not the credential's fault.
AnswerFor(reason) == IF reason = "indeterminate" THEN "unavailable" ELSE "unauthorized"

----------------------------------------------------------------------------
(* One request *)

Chain(r) == Options(req[r].route).methods

Ended(q, answer) == [q EXCEPT !.at = "done", !.answer = answer]

\* The principal is parked before its roles are looked at.
Admitted(q, method, roles) ==
  Ended([q EXCEPT !.by = method, !.roles = roles],
        IF Satisfies(roles, Options(q.route).roles) THEN "handled" ELSE "forbidden")

\* A verifier has spoken: admitted, on to the next method, or refused for the most telling reason.
Judged(q, reason) ==
  LET methods == Options(q.route).methods
      failures == Append(q.failures, [reason |-> reason, at |-> now])
  IN IF reason = "ok" THEN Admitted(q, methods[q.tried + 1], q.token.roles)
     ELSE IF q.tried + 1 < Len(methods)
       THEN [q EXCEPT !.at = "verify", !.tried = @ + 1, !.failures = failures]
       ELSE Ended([q EXCEPT !.failures = failures], AnswerFor(MostTelling(failures)))

\* All methods are resolved before any of them runs.
Resolved(q) ==
  IF ToSet(Options(q.route).methods) \subseteq DOMAIN Config THEN [q EXCEPT !.at = "verify"] ELSE Ended(q, "misconfigured")

\* AuthGuard.use, up to the verifiers: a guard that was told no method fails loudly.
Arrive(r) ==
  /\ req[r].at = "new"
  /\ \E a \in Arrivals :
       LET options == Options(a[1])
           q == [req[r] EXCEPT !.route = a[1], !.token = a[2]]
       IN req' = [req EXCEPT ![r] =
            IF options.anonymous THEN Ended(q, "handled")
            ELSE IF options.methods = <<>> THEN Ended(q, "misconfigured")
              ELSE Resolved(q)]
  /\ UNCHANGED <<idp, cache, now, faults>>

\* An unauthenticated entry admits everyone as its one principal.
AdmitAnyone(r) ==
  /\ req[r].at = "verify"
  /\ LET m == Chain(r)[req[r].tried + 1]
     IN /\ Config[m].type = "unauthenticated"
        /\ req' = [req EXCEPT ![r] = Admitted(@, m, Config[m].roles)]
  /\ UNCHANGED <<idp, cache, now, faults>>

\* A verdict that needs no key set: from the token alone, or under a key of the configuration.
VerifyLocally(r) ==
  /\ req[r].at = "verify"
  /\ LET m == Chain(r)[req[r].tried + 1]
         token == req[r].token
     IN /\ Config[m].type = "bearer-jwt"
        /\ \/ /\ Unasked(m, token) # "none"
              /\ req' = [req EXCEPT ![r] = Judged(@, Unasked(m, token))]
           \/ /\ Unasked(m, token) = "none"
              /\ \E row \in RowOf(m, token) :
                   /\ row.source = "value"
                   /\ req' = [req EXCEPT ![r] = Judged(@, Verdict(token, row, {row.key}))]
  /\ UNCHANGED <<idp, cache, now, faults>>

Fresh(c) == c.have /\ now < c.at + CacheTtl
CoolingDown(c) == c.have /\ now < c.at + Cooldown

\* jose's reload: whoever comes while a fetch is in flight shares it.
Reloading(c) == IF c.pending THEN c ELSE [c EXCEPT !.pending = TRUE, !.asked = idp.keys, !.began = now]

\* A verdict under the remote set: what is cached, or a fetch for a stale set or for a key it lacks.
VerifyRemotely(r) ==
  /\ req[r].at = "verify"
  /\ LET m == Chain(r)[req[r].tried + 1]
         token == req[r].token
         s == <<m, token.iss>>
     IN /\ Config[m].type = "bearer-jwt"
        /\ Unasked(m, token) = "none"
        /\ \E row \in RowOf(m, token) :
             LET known == Fresh(cache[s]) /\ (Candidates(token, cache[s].keys) # {} \/ CoolingDown(cache[s]))
             IN /\ row.source = "jwks"
                /\ req' = [req EXCEPT ![r] =
                     IF known THEN Judged(@, Verdict(token, row, Candidates(token, cache[s].keys)))
                     ELSE [@ EXCEPT !.at = "waiting"]]
                /\ cache' = IF known THEN cache ELSE [cache EXCEPT ![s] = Reloading(@)]
  /\ UNCHANGED <<idp, now, faults>>

Waiting(s) == {r \in Requests : req[r].at = "waiting" /\ <<Chain(r)[req[r].tried + 1], req[r].token.iss>> = s}

\* The key set arrives, as it was when it was asked for or as it is: everyone who waits is judged by it.
FetchAnswers(s) ==
  /\ cache[s].pending
  /\ \E keys \in {cache[s].asked, idp.keys} :
       /\ cache' = [cache EXCEPT ![s] = [@ EXCEPT !.have = TRUE, !.keys = keys, !.at = now, !.pending = FALSE]]
       /\ req' = [r \in Requests |->
            IF r \in Waiting(s)
              THEN Judged(req[r], Verdict(req[r].token, CHOOSE row \in RowOf(s[1], req[r].token) : TRUE,
                                          Candidates(req[r].token, keys)))
              ELSE req[r]]
  /\ UNCHANGED <<idp, now, faults>>

\* MUTANT: any failure of the key source is the token's fault.
UnreachableBlamed(q) == Judged(q, "invalid")

\* The source could not be consulted: that says nothing of the token.
Unreachable(q) == Judged([q EXCEPT !.blind = TRUE], "indeterminate")

\* The key set cannot be had, or not in time: the next request asks again.
FetchFails(s) ==
  /\ cache[s].pending
  /\ faults < MaxFaults
  /\ faults' = faults + 1
  /\ cache' = [cache EXCEPT ![s].pending = FALSE]
  /\ req' = [r \in Requests |-> IF r \in Waiting(s) THEN Unreachable(req[r]) ELSE req[r]]
  /\ UNCHANGED <<idp, now>>

----------------------------------------------------------------------------
(* The provider and time *)

\* A new key is published, the old ones stay beside it or are retired.
Rotate ==
  \E k \in Keys, old \in SUBSET idp.keys :
    /\ idp.since[k] = Never
    /\ idp' = [keys |-> (idp.keys \ old) \cup {k}, since |-> [idp.since EXCEPT ![k] = now]]
    /\ UNCHANGED <<cache, req, now, faults>>

\* What is ready runs before a tick passes, and a fetch's own deadline ends it: no time passes beyond that.
Tick ==
  /\ now < MaxTime
  /\ \A r \in Requests : req[r].at # "verify"
  /\ \A s \in RemoteSets : cache[s].pending => now < cache[s].began + FetchTimeout
  /\ now' = now + 1
  /\ UNCHANGED <<idp, cache, req, faults>>

Next ==
  \/ \E r \in Requests : Arrive(r) \/ AdmitAnyone(r) \/ VerifyLocally(r) \/ VerifyRemotely(r)
  \/ \E s \in RemoteSets : FetchAnswers(s) \/ FetchFails(s)
  \/ Rotate
  \/ Tick

Spec == Init /\ [][Next]_vars

----------------------------------------------------------------------------
(* Properties *)

\* The chain's i-th method would admit the token, were its signing key known.
Good(q, i) ==
  LET m == Options(q.route).methods[i]
  IN /\ Config[m].type = "bearer-jwt"
     /\ Unasked(m, q.token) = "none"
     /\ \E row \in RowOf(m, q.token) : row.source = "jwks" /\ Verdict(q.token, row, {q.token.signedBy}) = "ok"

\* A good token is refused as bad only in the time a new key may take to be seen: a set fetched
\* before the key was published cools down, after a fetch that may itself have been slow.  A token
\* that names no key fits the old ones, so that only the set's age has it fetched again.
SeenInTime(q, i) ==
  LET key == q.token.signedBy
  IN /\ Good(q, i) /\ q.failures[i].reason # "indeterminate"
     /\ q.token.kid \in {Nobody, key} /\ key \in idp.keys
     => /\ key # FirstKey
        /\ q.failures[i].at <= idp.since[key] + FetchTimeout + (IF q.token.kid = Nobody THEN CacheTtl ELSE Cooldown)
RotationIsSeen == \A r \in Requests : \A i \in DOMAIN req[r].failures : SeenInTime(req[r], i)

\* An outage is answered as one: a caller is told to mend a credential only when every method of
\* the chain could judge it, and told to come back only when one could not.
OutageIsNotBlamed ==
  \A r \in Requests : /\ req[r].answer = "unauthorized" => ~req[r].blind
                      /\ req[r].answer = "unavailable" => req[r].blind

\* A handler runs for a caller one of the nearest decorator's methods admitted and who meets every
\* role decorator on the way; a tool, for a caller of its endpoint who holds its level's role.
MayPass(q) ==
  IF q.route.door = "mcp"
    THEN q.by = q.route.endpoint /\ q.route.level \in DOMAIN q.route.roles /\ q.route.roles[q.route.level] \in q.roles
    ELSE \/ q.route.method.anonymous
         \/ /\ q.by \in ToSet(IF q.route.method.methods = <<>> THEN q.route.class.methods ELSE q.route.method.methods)
            /\ \A anyOf \in ToSet(q.route.class.roles) \cup ToSet(q.route.method.roles) :
                 anyOf = {} \/ anyOf \cap q.roles # {}
AdmittedAsDecorated == \A r \in Requests : req[r].answer = "handled" => MayPass(req[r])

\* What a caller is told of the credential, whatever rotates, lapses or fails meanwhile (Authenticator
\* and AuthGuard, JwtVerifier, RemoteJwksSource; McpTokenVerifier for the tools).
DoorHonest == RotationIsSeen /\ OutageIsNotBlamed /\ AdmittedAsDecorated
=============================================================================
