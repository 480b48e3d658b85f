----------------------------- MODULE MCPlatform -------------------------------
(***************************************************************************)
(* The packages every service is built from, the QR manager and the        *)
(* browser's sign-in one by one, for TLC: a behaviour is one of the part   *)
(* it starts with, and the other parts' variables stand still.             *)
(***************************************************************************)
EXTENDS OutboundRequest, Sequences

CONSTANTS \* UpstreamCall and QrCodes
          Calls,
          Retried, Retries, MinCalls, MaxPasses,
          InsertAttempts, QrMaxFaults,
          Slugs, Ids, Targets, Malformed,
          \* ServiceHealth
          Services, Probes,
          CheckTimeout, HealthTtl, DrainDelay, HardDeadline, HealthMaxTime, HealthMaxFaults,
          \* InboundAuth
          Callers, Nobody, Methods, Arrivals,
          Keys, FirstKey, KeysTtl, Cooldown, FetchTimeout, DoorMaxTime, DoorMaxFaults,
          \* UiAuth
          Tabs, Paths, home, callback,
          Lives, RenewSkew, TimerLimit, MaxFutile, UiMaxTime, UiMaxFaults, MaxToggles, MaxStorm

VARIABLES part,
          upBreaker, upCall, passes,
          service, healthNow, dependency, flight, healthCached, probe, shutdown, crashed,
          teardowns, healthFaults,
          idp, cache, req, doorNow, doorFaults,
          tab, storage, session, life, uiNow, uiFaults, toggles, auto, acted, left,
          records, used, qrCall, qrBreaker, qrFaults, inserted, seen

\* A provider's method, a cluster's with a key in the configuration, and one for anyone.
MethodsTried ==
  [IDP |-> [type |-> "bearer-jwt",
            issuers |-> {[issuer |-> "idp", audience |-> "api", source |-> "jwks", key |-> Nobody,
                          algorithms |-> {"RS256"}]}],
   CLUSTER |-> [type |-> "bearer-jwt",
            issuers |-> {[issuer |-> "local", audience |-> "api", source |-> "value", key |-> "secret",
                          algorithms |-> {"HS256"}]}],
   OPEN |-> [type |-> "unauthenticated", roles |-> {"reader"}]]

\* A handler by its class's and its method's decorators, and a tool by its level.
Plain == [anonymous |-> FALSE, methods |-> <<>>, roles |-> <<>>]
Api(class, method) == [door |-> "api", class |-> class, method |-> method]
Mcp(level) == [door |-> "mcp", endpoint |-> "OPEN", level |-> level, roles |-> [reader |-> "reader"]]
AdminOnly == Api([Plain EXCEPT !.methods = <<"IDP">>, !.roles = <<{"reader"}>>],
                 [Plain EXCEPT !.roles = <<{"admin"}>>])
Either == Api([Plain EXCEPT !.methods = <<"OPEN">>], [Plain EXCEPT !.methods = <<"IDP", "CLUSTER">>])

Jwt == [form |-> "jwt", iss |-> "idp", alg |-> "RS256", kid |-> "k1", signedBy |-> "k1", aud |-> "api",
        exp |-> "live", sub |-> "alice", roles |-> {"reader"}]
NoToken == [Jwt EXCEPT !.form = "absent"]
NewKey == [Jwt EXCEPT !.kid = "k2", !.signedBy = "k2"]
NoKeyId == [NewKey EXCEPT !.kid = Nobody]

ArrivalsTried ==
  {<<Api(Plain, [Plain EXCEPT !.anonymous = TRUE]), NoToken>>, <<Api(Plain, Plain), Jwt>>,
   <<Mcp("editor"), NoToken>>, <<Mcp("reader"), NoToken>>,
   <<AdminOnly, Jwt>>, <<AdminOnly, [Jwt EXCEPT !.roles = {"reader", "admin"}]>>,
   <<Either, [Jwt EXCEPT !.iss = "local", !.alg = "HS256", !.signedBy = "secret"]>>,
   <<Either, NoToken>>, <<Either, NewKey>>, <<Either, NoKeyId>>, <<Either, [NoKeyId EXCEPT !.signedBy = "k1"]>>}

Upstream == INSTANCE UpstreamCall WITH breaker <- upBreaker, call <- upCall

Health == INSTANCE ServiceHealth WITH
  CacheTtl <- HealthTtl, MaxTime <- HealthMaxTime, MaxFaults <- HealthMaxFaults, now <- healthNow,
  cached <- healthCached, faults <- healthFaults

Door == INSTANCE InboundAuth WITH
  Requests <- Callers, Config <- Methods, CacheTtl <- KeysTtl,
  MaxTime <- DoorMaxTime, MaxFaults <- DoorMaxFaults, now <- doorNow, faults <- doorFaults

SignIn == INSTANCE UiAuth WITH
  DefaultPath <- home, Callback <- callback, MaxTime <- UiMaxTime, MaxFaults <- UiMaxFaults,
  Nothing <- Nobody, now <- uiNow, faults <- uiFaults

Qr == INSTANCE QrCodes WITH
  MaxFaults <- QrMaxFaults, call <- qrCall, breaker <- qrBreaker, faults <- qrFaults

\* The settings as their schemas check them (checkTimeoutMs is one at least), and names that stand for
\* nothing are not among what they stand beside.
ASSUME PlatformAssumption ==
  /\ CheckTimeout \in Nat \ {0} /\ HealthTtl \in Nat /\ DrainDelay \in Nat
  /\ Nobody \notin [slug: Slugs, target: Targets, active: BOOLEAN]
  /\ Door!DoorAssumption
  /\ SignIn!SignInAssumption

upVars == <<upBreaker, upCall, passes>>
healthVars == <<service, healthNow, dependency, flight, healthCached, probe, shutdown,
                 crashed, teardowns, healthFaults>>
doorVars == <<idp, cache, req, doorNow, doorFaults>>
uiVars == <<tab, storage, session, life, uiNow, uiFaults, toggles, auto, acted, left>>
qrVars == <<records, used, qrCall, qrBreaker, qrFaults, inserted, seen>>
hostVars == <<part, vars, upVars, healthVars, doorVars, uiVars, qrVars>>

\* A variable of a part that is not the behaviour's.
Off == "off"
UpstreamOff ==
  /\ upBreaker = Off /\ upCall = Off /\ passes = Off
HealthOff ==
  /\ service = Off /\ healthNow = Off /\ dependency = Off /\ flight = Off /\ healthCached = Off
  /\ probe = Off /\ shutdown = Off /\ crashed = Off /\ teardowns = Off /\ healthFaults = Off
DoorOff ==
  /\ idp = Off /\ cache = Off /\ req = Off /\ doorNow = Off /\ doorFaults = Off
SignInOff ==
  /\ tab = Off /\ storage = Off /\ session = Off /\ life = Off /\ uiNow = Off /\ uiFaults = Off
  /\ toggles = Off /\ auto = Off /\ acted = Off /\ left = Off
QrOff ==
  /\ records = Off /\ used = Off /\ qrCall = Off /\ qrBreaker = Off /\ qrFaults = Off
  /\ inserted = Off /\ seen = Off

OutboundOnly ==
  /\ part = "OutboundRequest"
  /\ UNCHANGED <<part, upVars, healthVars, doorVars, uiVars, qrVars>>
UpstreamOnly ==
  /\ part = "UpstreamCall"
  /\ UNCHANGED <<part, vars, healthVars, doorVars, uiVars, qrVars>>
HealthOnly ==
  /\ part = "ServiceHealth"
  /\ UNCHANGED <<part, vars, upVars, doorVars, uiVars, qrVars>>
DoorOnly == part = "InboundAuth" /\ UNCHANGED <<part, vars, upVars, healthVars, uiVars, qrVars>>
SignInOnly == part = "UiAuth" /\ UNCHANGED <<part, vars, upVars, healthVars, doorVars, qrVars>>
QrOnly == part = "QrCodes" /\ UNCHANGED <<part, vars, upVars, healthVars, doorVars, uiVars>>

HostInit ==
  \/ part = "OutboundRequest" /\ Init /\ UpstreamOff /\ HealthOff /\ DoorOff /\ SignInOff
     /\ QrOff
  \/ part = "UpstreamCall" /\ Upstream!Init /\ Init /\ HealthOff /\ DoorOff /\ SignInOff
     /\ QrOff
  \/ part = "ServiceHealth" /\ Health!Init /\ Init /\ UpstreamOff /\ DoorOff /\ SignInOff
     /\ QrOff
  \/ part = "InboundAuth" /\ Door!Init /\ Init /\ UpstreamOff /\ HealthOff /\ SignInOff /\ QrOff
  \/ part = "UiAuth" /\ SignIn!Init /\ Init /\ UpstreamOff /\ HealthOff /\ DoorOff /\ QrOff
  \/ part = "QrCodes" /\ Qr!Init /\ Init /\ UpstreamOff /\ HealthOff /\ DoorOff /\ SignInOff

HostNext ==
  \/ OutboundOnly /\ Expire
  \/ OutboundOnly /\ Revoke
  \/ OutboundOnly /\ \E f \in Fetches : Mint(f)
  \/ OutboundOnly /\ \E f \in Fetches : Answered(f)
  \/ OutboundOnly /\ \E f \in Fetches : Unanswered(f)
  \/ OutboundOnly /\ \E f \in Fetches : Forget(f)
  \/ OutboundOnly /\ \E r \in Requests : Tag(r)
  \/ OutboundOnly /\ \E r \in Requests : Reject(r)
  \/ OutboundOnly /\ \E r \in Requests : Dispatch(r)
  \/ OutboundOnly /\ \E r \in Requests : Retry(r)
  \/ OutboundOnly /\ \E r \in Requests : Succeed(r)
  \/ OutboundOnly /\ \E r \in Requests : Refuse(r)
  \/ OutboundOnly /\ \E r \in Requests : Fail(r)
  \/ OutboundOnly /\ \E r \in Requests : TimeOut(r)
  \/ OutboundOnly /\ \E r \in Requests : Replay(r)
  \/ OutboundOnly /\ \E r \in Requests : PassOn(r)
  \/ OutboundOnly /\ \E r \in Requests : Cancel(r)
  \/ UpstreamOnly /\ Upstream!Cool
  \/ UpstreamOnly /\ Upstream!WindowPasses
  \/ UpstreamOnly /\ \E c \in Calls : Upstream!Attempt(c)
  \/ UpstreamOnly /\ \E c \in Calls : Upstream!Settle(c)
  \/ UpstreamOnly /\ \E c \in Calls : Upstream!CancelRunning(c)
  \/ UpstreamOnly /\ \E c \in Calls : Upstream!CancelWaiting(c)
  \/ UpstreamOnly /\ \E c \in Calls : Upstream!Leave(c)
  \/ UpstreamOnly /\ \E c \in Calls : Upstream!Unpark(c)
  \/ HealthOnly /\ Health!Tick
  \/ HealthOnly /\ \E p \in Probes : Health!Probe(p)
  \/ HealthOnly /\ \E c \in Health!Checks : Health!CheckSettles(c)
  \/ HealthOnly /\ \E c \in Health!Checks : Health!DependencyChanges(c)
  \/ HealthOnly /\ Health!FlightEnds
  \/ HealthOnly /\ Health!Signal
  \/ HealthOnly /\ Health!Stop
  \/ HealthOnly /\ Health!Stopped
  \/ HealthOnly /\ Health!Crash
  \/ DoorOnly /\ \E r \in Callers : Door!Arrive(r)
  \/ DoorOnly /\ \E r \in Callers : Door!AdmitAnyone(r)
  \/ DoorOnly /\ \E r \in Callers : Door!VerifyLocally(r)
  \/ DoorOnly /\ \E r \in Callers : Door!VerifyRemotely(r)
  \/ DoorOnly /\ \E s \in Door!RemoteSets : Door!FetchAnswers(s)
  \/ DoorOnly /\ \E s \in Door!RemoteSets : Door!FetchFails(s)
  \/ DoorOnly /\ Door!Rotate
  \/ DoorOnly /\ Door!Tick
  \/ SignInOnly /\ \E t \in Tabs : SignIn!Recover(t)
  \/ SignInOnly /\ \E t \in Tabs : SignIn!RedirectLeaves(t)
  \/ SignInOnly /\ \E t \in Tabs : SignIn!RedirectFails(t)
  \/ SignInOnly /\ \E t \in Tabs : SignIn!ProviderAnswers(t)
  \/ SignInOnly /\ \E t \in Tabs : SignIn!CallbackWithoutResponse(t)
  \/ SignInOnly /\ \E t \in Tabs : SignIn!NoSession(t)
  \/ SignInOnly /\ \E t \in Tabs : SignIn!BeginExchange(t)
  \/ SignInOnly /\ \E t \in Tabs : SignIn!SignedIn(t)
  \/ SignInOnly /\ \E t \in Tabs : SignIn!ExchangeFails(t)
  \/ SignInOnly /\ \E t \in Tabs : SignIn!Renew(t)
  \/ SignInOnly /\ \E t \in Tabs : SignIn!Login(t)
  \/ SignInOnly /\ \E t \in Tabs : SignIn!Logout(t)
  \/ SignInOnly /\ \E t \in Tabs : SignIn!SignedOut(t)
  \/ SignInOnly /\ \E t \in Tabs, at \in Paths \cup {callback} : SignIn!Load(t, at)
  \/ SignInOnly /\ SignIn!OtherApp
  \/ SignInOnly /\ \E t \in Tabs, p \in Paths : SignIn!Follow(t, p)
  \/ SignInOnly /\ SignIn!Tick
  \/ QrOnly /\ \E c \in Calls : Qr!Post(c)
  \/ QrOnly /\ \E c \in Calls : Qr!Collides(c)
  \/ QrOnly /\ \E c \in Calls : Qr!Created(c)
  \/ QrOnly /\ \E c \in Calls : Qr!CreateFails(c)
  \/ QrOnly /\ \E c \in Calls : Qr!Delete(c)
  \/ QrOnly /\ \E c \in Calls : Qr!Render(c)
  \/ QrOnly /\ \E c \in Calls : Qr!Disconnect(c)
  \/ QrOnly /\ \E c \in Calls : Qr!Redirect(c)
  \/ QrOnly /\ \E c \in Calls, id \in Ids \cup {Malformed} : Qr!Put(c, id)
  \/ QrOnly /\ \E c \in Calls, id \in Ids \cup {Malformed} : Qr!DeleteBegin(c, id)
  \/ QrOnly /\ \E c \in Calls, id \in Ids \cup {Malformed} : Qr!Get(c, id)
  \/ QrOnly /\ \E c \in Calls, id \in Ids \cup {Malformed} : Qr!ImageBegin(c, id)
  \/ QrOnly /\ \E c \in Calls, active \in {"any", "true", "false"} : Qr!List(c, active)
  \/ QrOnly /\ \E c \in Calls, slug \in Slugs : Qr!Scan(c, slug)
  \/ QrOnly /\ Qr!HalfOpens

HostSpec == HostInit /\ [][HostNext]_hostVars

-----------------------------------------------------------------------------
(* Properties *)

\* ResiliencePolicy: the breaker closes on an answer of a call it let through half open, and opens on
\* failures that happened, however many calls share it and whichever are cancelled.
BreakerHonest == [][part = "UpstreamCall" => Upstream!ClosedByAnswer /\ Upstream!OpenedByFailure]_hostVars

\* HealthService and createShutdownHandler: probes are answered in time and with nothing stale, and a
\* process told to stop is torn down once, after its drain.
HealthSound == part = "ServiceHealth" => Health!ProbesHonest /\ Health!OneTeardown

\* Authenticator, AuthGuard and McpTokenVerifier: what a caller is told of its credential, whatever
\* rotates, lapses or fails meanwhile.
DoorHonest == part = "InboundAuth" => Door!DoorHonest

\* ui-auth's AuthProvider: what shows as loading has something to wait for, failing sign-ins do not send
\* the browser round in circles, and a logout stays one.
SignInSound == part = "UiAuth" => SignIn!SignInSound

\* qr-manager-api: slugs stay unique and a scan is told what was stored while it waited.
QrCodesSound == part = "QrCodes" => Qr!QrCodesSound
=============================================================================
