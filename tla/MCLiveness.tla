----------------------------- MODULE MCLiveness -------------------------------
(***************************************************************************)
(* The parts of the system that promise something will happen one by one,  *)
(* for TLC: a behaviour is one of the part it starts with, under that      *)
(* part's fairness, and the other parts' variables stand still.  A         *)
(* temporal property is a part's own, true of the other parts' states.     *)
(***************************************************************************)
EXTENDS NotificationDispatch

CONSTANTS \* IndexingLoop
          Pods, Slots,
          \* GitHubDiscovery
          KnowledgeBases, Repositories, Apps, Tokens, Rotating, Discoveries, Sources, Coverage,
          MaxChanges,
          k1, k2, app, token, x, y,  \* those tried
          \* Subscriptions
          Clients, Ids,
          \* MiotDevice
          Calls, Bulk, BulkSize, HasStore,
          DeviceFaults   \* bound: its MaxFaults

VARIABLES part,
          sourced, remembered, promises, apps, clients, asks, covered, secret, changes,
          life, loopTimer, running, abort, pending, awaited, runs, lock, built, outcome,
          answer, served, loopEarly, loopFaults,
          registered, docs, used, cache, last, op, poll, actual, subShown, torn, subFaults,
          line, call, clock, store, known, discovery, executed, devFaults,
          api, session, visible, status, wanted, offlineRef, probe, bump, page, request,
          dropped, acts, troubles

\* Two knowledge bases that share an App, and two that read one repository.
Two(first, second) == [kb \in {k1, k2} |-> IF kb = k1 THEN first ELSE second]
SourcesTried == {Two(<<app, None>>, <<app, x>>), Two(<<app, x>>, <<token, x>>)}
CoverageAtFirst == [c \in {app, token} |-> {x}]

GitHub == INSTANCE GitHubDiscovery

Loop == INSTANCE IndexingLoop WITH
  KnowledgeBases <- {k1}, Callers <- {1}, Enabled <- TRUE, MaxFaults <- 1, timer <- loopTimer,
  early <- loopEarly, faults <- loopFaults

Polled == INSTANCE Subscriptions WITH
  Properties <- {"power"}, Values <- {0, 1}, Callers <- Clients, DispatchOnChange <- TRUE,
  Commands <- FALSE, MaxFaults <- 1, shown <- subShown, faults <- subFaults

Device == INSTANCE MiotDevice WITH
  MaxFaults <- DeviceFaults, faults <- devFaults

Ui == INSTANCE UiStatus WITH
  Requests <- 1 .. 2, MaxDoublings <- 1, MaxActs <- 1, MaxTroubles <- 2, Nothing <- None

ghVars == <<sourced, remembered, promises, apps, clients, asks, covered, secret, changes>>
loopVars == <<life, loopTimer, running, abort, pending, awaited, runs, lock, built, outcome,
               answer, served, loopEarly, loopFaults>>
subVars == <<registered, docs, used, cache, last, op, poll, actual, subShown, torn, subFaults>>
devVars == <<line, call, clock, store, known, discovery, executed, devFaults>>
uiVars == <<api, session, visible, status, wanted, offlineRef, probe, bump, page, request,
             dropped, acts, troubles>>
hostVars == <<part, vars, ghVars, loopVars, subVars, devVars, uiVars>>

\* A variable of a part that is not the behaviour's.
Off == "off"
GitHubOff ==
  /\ sourced = Off /\ remembered = Off /\ promises = Off /\ apps = Off /\ clients = Off
  /\ asks = Off /\ covered = Off /\ secret = Off /\ changes = Off
LoopOff ==
  /\ life = Off /\ loopTimer = Off /\ running = Off /\ abort = Off /\ pending = Off
  /\ awaited = Off /\ runs = Off /\ lock = Off /\ built = Off /\ outcome = Off /\ answer = Off
  /\ served = Off /\ loopEarly = Off /\ loopFaults = Off
PolledOff ==
  /\ registered = Off /\ docs = Off /\ used = Off /\ cache = Off /\ last = Off /\ op = Off
  /\ poll = Off /\ actual = Off /\ subShown = Off /\ torn = Off /\ subFaults = Off
DeviceOff ==
  /\ line = Off /\ call = Off /\ clock = Off /\ store = Off /\ known = Off /\ discovery = Off
  /\ executed = Off /\ devFaults = Off
UiOff ==
  /\ api = Off /\ session = Off /\ visible = Off /\ status = Off /\ wanted = Off
  /\ offlineRef = Off /\ probe = Off /\ bump = Off /\ page = Off /\ request = Off
  /\ dropped = Off /\ acts = Off /\ troubles = Off

DispatchOnly ==
  /\ part = "NotificationDispatch"
  /\ UNCHANGED <<part, ghVars, loopVars, subVars, devVars, uiVars>>
GitHubOnly ==
  /\ part = "GitHubDiscovery"
  /\ UNCHANGED <<part, vars, loopVars, subVars, devVars, uiVars>>
LoopOnly == part = "IndexingLoop" /\ UNCHANGED <<part, vars, ghVars, subVars, devVars, uiVars>>
PolledOnly ==
  /\ part = "Subscriptions"
  /\ UNCHANGED <<part, vars, ghVars, loopVars, devVars, uiVars>>
DeviceOnly == part = "MiotDevice" /\ UNCHANGED <<part, vars, ghVars, loopVars, subVars, uiVars>>
UiOnly == part = "UiStatus" /\ UNCHANGED <<part, vars, ghVars, loopVars, subVars, devVars>>

\* What the parts assume of their constants, IndexingLoop's and MiotDevice's among them.
ASSUME PartsAssumption ==
  /\ GitHub!GitHubAssumption
  /\ Device!DeviceAssumption
  /\ None \notin Slots /\ None \notin Pods \cup {1, k1} /\ None \notin Pods \X Slots

HostInit ==
  \/ part = "NotificationDispatch" /\ Init /\ GitHubOff /\ LoopOff /\ PolledOff /\ DeviceOff
     /\ UiOff
  \/ part = "GitHubDiscovery" /\ GitHub!Init /\ Init /\ LoopOff /\ PolledOff /\ DeviceOff
     /\ UiOff
  \/ part = "IndexingLoop" /\ Loop!Init /\ Init /\ GitHubOff /\ PolledOff /\ DeviceOff /\ UiOff
  \/ part = "Subscriptions" /\ Polled!Init /\ Init /\ GitHubOff /\ LoopOff /\ DeviceOff /\ UiOff
  \/ part = "MiotDevice" /\ Device!Init /\ Init /\ GitHubOff /\ LoopOff /\ PolledOff /\ UiOff
  \/ part = "UiStatus" /\ Ui!Init /\ Init /\ GitHubOff /\ LoopOff /\ PolledOff /\ DeviceOff

HostNext ==
  \/ DispatchOnly /\ \E m \in Notifications : Receive(m)
  \/ DispatchOnly /\ TimerFires
  \/ DispatchOnly /\ Tick
  \/ DispatchOnly /\ GoSilent
  \/ DispatchOnly /\ Disconnect
  \/ DispatchOnly /\ Reconnect
  \/ DispatchOnly /\ Destroy
  \/ GitHubOnly /\ \E kb \in KnowledgeBases : GitHub!Ask(kb)
  \/ GitHubOnly /\ \E kb \in KnowledgeBases : GitHub!Resume(kb)
  \/ GitHubOnly /\ \E kb \in KnowledgeBases : GitHub!Answered(kb)
  \/ GitHubOnly /\ \E d \in Discoveries : GitHub!GitHubLists(d)
  \/ GitHubOnly /\ \E d \in Discoveries : GitHub!Discovered(d)
  \/ GitHubOnly /\ \E c \in Apps \cup Tokens : GitHub!CoverageChanges(c)
  \/ GitHubOnly /\ \E c \in Apps \cup Tokens : GitHub!Rotate(c)
  \/ LoopOnly /\ \E p \in Pods : Loop!Ready(p)
  \/ LoopOnly /\ \E p \in Pods : Loop!TimerFires(p)
  \/ LoopOnly /\ \E p \in Pods : Loop!Destroy(p)
  \/ LoopOnly /\ \E p \in Pods : Loop!Close(p)
  \/ LoopOnly /\ \E p \in Pods : Loop!Replace(p)
  \/ LoopOnly /\ \E p \in Pods : Loop!Crash(p)
  \/ LoopOnly /\ \E p \in Pods : Loop!Trigger(p, 1)
  \/ LoopOnly /\ \E p \in Pods, s \in Slots : Loop!TakeLock(p, s)
  \/ LoopOnly /\ \E p \in Pods, s \in Slots : Loop!Skip(p, s)
  \/ LoopOnly /\ \E p \in Pods, s \in Slots : Loop!NoDatabase(p, s)
  \/ LoopOnly /\ \E p \in Pods, s \in Slots : Loop!NextKnowledgeBase(p, s)
  \/ LoopOnly /\ \E p \in Pods, s \in Slots : Loop!NoRunRecord(p, s)
  \/ LoopOnly /\ \E p \in Pods, s \in Slots : Loop!Indexed(p, s)
  \/ LoopOnly /\ \E p \in Pods, s \in Slots : Loop!Failed(p, s)
  \/ LoopOnly /\ \E p \in Pods, s \in Slots : Loop!Interrupted(p, s)
  \/ LoopOnly /\ \E p \in Pods, s \in Slots : Loop!Unlock(p, s)
  \/ PolledOnly /\ \E r \in Clients : Polled!PostBegin(r)
  \/ PolledOnly /\ \E r \in Clients : Polled!DeleteBegin(r)
  \/ PolledOnly /\ \E r \in Clients : Polled!ClearBegin(r)
  \/ PolledOnly /\ \E r \in Clients : Polled!RemoveBegin(r)
  \/ PolledOnly /\ \E r \in Clients : Polled!PostCheck(r)
  \/ PolledOnly /\ \E r \in Clients : Polled!PostExisting(r)
  \/ PolledOnly /\ \E r \in Clients : Polled!PostCreate(r)
  \/ PolledOnly /\ \E r \in Clients : Polled!PostAdd(r)
  \/ PolledOnly /\ \E r \in Clients : Polled!DeleteDoc(r)
  \/ PolledOnly /\ \E r \in Clients : Polled!DeleteRemaining(r)
  \/ PolledOnly /\ \E r \in Clients : Polled!DeleteDrop(r)
  \/ PolledOnly /\ \E r \in Clients : Polled!ClearDocs(r)
  \/ PolledOnly /\ \E r \in Clients : Polled!ClearCache(r)
  \/ PolledOnly /\ \E r \in Clients : Polled!RemoveDevice(r)
  \/ PolledOnly /\ \E r \in Clients : Polled!PostFails(r)
  \/ PolledOnly /\ Polled!PollBegin
  \/ PolledOnly /\ Polled!PollRead
  \/ PolledOnly /\ Polled!PollEnd
  \/ PolledOnly /\ Polled!PollRefused
  \/ PolledOnly /\ Polled!PollFails
  \/ PolledOnly /\ Polled!Change
  \/ PolledOnly /\ Polled!Restart
  \/ DeviceOnly /\ \E c \in Calls : Device!Make(c)
  \/ DeviceOnly /\ \E c \in Calls : Device!Start(c)
  \/ DeviceOnly /\ \E c \in Calls : Device!Load(c)
  \/ DeviceOnly /\ \E c \in Calls : Device!HelloAnswered(c)
  \/ DeviceOnly /\ \E c \in Calls : Device!HelloTimesOut(c)
  \/ DeviceOnly /\ \E c \in Calls : Device!Send(c)
  \/ DeviceOnly /\ \E c \in Calls : Device!TimesOut(c)
  \/ DeviceOnly /\ \E c \in Calls : Device!Refused(c)
  \/ DeviceOnly /\ \E c \in Calls : Device!Answered(c)
  \/ DeviceOnly /\ \E c \in Calls : Device!Persist(c)
  \/ DeviceOnly /\ \E c \in Calls : Device!Execute(c)
  \/ DeviceOnly /\ \E c \in Calls : Device!Refuse(c)
  \/ DeviceOnly /\ Device!Reboot
  \/ DeviceOnly /\ Device!Seed
  \/ DeviceOnly /\ Device!Discover
  \/ DeviceOnly /\ Device!Discovered
  \/ DeviceOnly /\ Device!DiscoverEnds
  \/ UiOnly /\ \E q \in 1 .. 2 : Ui!Answered(q)
  \/ UiOnly /\ \E q \in 1 .. 2 : Ui!LoadEnds(q)
  \/ UiOnly /\ \E q \in 1 .. 2 : Ui!Breaks(q)
  \/ UiOnly /\ \E q \in 1 .. 2 : Ui!UpdateEnds(q)
  \/ UiOnly /\ \E q \in 1 .. 2 : Ui!FormFails(q)
  \/ UiOnly /\ \E q \in 1 .. 2 : Ui!FormNavigates(q)
  \/ UiOnly /\ Ui!Render
  \/ UiOnly /\ Ui!Recovery
  \/ UiOnly /\ Ui!ProbeFires
  \/ UiOnly /\ Ui!ProbeAnswers
  \/ UiOnly /\ Ui!GoOffline
  \/ UiOnly /\ Ui!GoOnline
  \/ UiOnly /\ Ui!Trouble
  \/ UiOnly /\ Ui!Mended
  \/ UiOnly /\ Ui!Switch
  \/ UiOnly /\ \E name \in {"list", "detail", "create"} : Ui!Visit(name)
  \/ UiOnly /\ \E q \in 1 .. 2, what \in {"update", "remove", "create"} : Ui!Submit(q, what)

HostSpec == HostInit /\ [][HostNext]_hostVars

\* Each part's own fairness: timers fire, awaits settle, a device's exchange ends, the loop asks again.
HostFairness ==
  /\ WF_hostVars(DispatchOnly /\ TimerFires)
  /\ WF_hostVars(DispatchOnly /\ Tick)
  /\ \A kb \in KnowledgeBases : WF_hostVars(GitHubOnly /\ GitHub!Ask(kb))
  /\ \A kb \in KnowledgeBases : WF_hostVars(GitHubOnly /\ GitHub!Resume(kb))
  /\ \A kb \in KnowledgeBases : WF_hostVars(GitHubOnly /\ GitHub!Answered(kb))
  /\ \A kb \in KnowledgeBases : []<>(part # "GitHubDiscovery" \/ (asks[kb].at # "idle" /\ asks[kb].kind = "run"))
  /\ \A kb \in KnowledgeBases : []<>(part # "GitHubDiscovery" \/ asks[kb].at = "idle")
  /\ \A d \in Discoveries : WF_hostVars(GitHubOnly /\ GitHub!GitHubLists(d))
  /\ \A d \in Discoveries : WF_hostVars(GitHubOnly /\ GitHub!Discovered(d))
  /\ \A p \in Pods : WF_hostVars(LoopOnly /\ Loop!Ready(p))
  /\ \A p \in Pods : WF_hostVars(LoopOnly /\ Loop!TimerFires(p))
  /\ \A p \in Pods : WF_hostVars(LoopOnly /\ Loop!Close(p))
  /\ \A p \in Pods, s \in Slots : WF_hostVars(LoopOnly /\ Loop!RunStep(p, s))
  /\ WF_hostVars(PolledOnly /\ Polled!Polling)
  /\ \A c \in Calls : WF_hostVars(DeviceOnly /\ Device!Step(c))
  /\ \A q \in 1 .. 2 : WF_hostVars(UiOnly /\ Ui!Answered(q))
  /\ \A q \in 1 .. 2 : WF_hostVars(UiOnly /\ Ui!LoadEnds(q))
  /\ \A q \in 1 .. 2 : WF_hostVars(UiOnly /\ Ui!UpdateEnds(q))
  /\ \A q \in 1 .. 2 : WF_hostVars(UiOnly /\ Ui!FormFails(q))
  /\ \A q \in 1 .. 2 : WF_hostVars(UiOnly /\ Ui!FormNavigates(q))
  /\ WF_hostVars(UiOnly /\ Ui!Render)
  /\ WF_hostVars(UiOnly /\ Ui!Recovery)
  /\ WF_hostVars(UiOnly /\ Ui!ProbeFires)
  /\ WF_hostVars(UiOnly /\ Ui!ProbeAnswers)

HostFairSpec == HostSpec /\ HostFairness

-----------------------------------------------------------------------------
(* Properties *)

\* NotificationDispatchService: while the connection stays, a property that waits has its turn.
NobodyStarves ==
  \A k \in Properties :
    <>[](part # "NotificationDispatch" \/ link = "up") =>
      []<>(part # "NotificationDispatch" \/ k \notin Waiting(queue))

\* GitHubEndpoint: a client goes only with a listing of its own credential that lacks its repository.
ClientKept == [][part = "GitHubDiscovery" => GitHub!ForgottenWhenListed]_hostVars

\* GitSourceAdapter: a knowledge base that can be read from some point on is read again and again.
Recovers ==
  \A kb \in KnowledgeBases :
    <>[](part # "GitHubDiscovery" \/ GitHub!Readable(kb)) =>
      []<>(part # "GitHubDiscovery" \/ asks[kb].last = "ok")

\* IndexingLoopService.trigger: who asks for a run is told what became of it; each asks once.
CallersAnswered == []<>(part # "IndexingLoop" \/ answer[1] # "waiting")

\* IndexingLoopService: a pod that stays up runs again and again, whatever becomes of its runs.
LoopGoesOn == \A p \in Pods : []<>(part # "IndexingLoop" \/ life[p] # "ready" \/ running[p] # None)

\* DevicePropertyPollerService: a value that settles is the one handed on in the end.
SubscriberConverges ==
  \A v \in {0, 1} :
    <>[](part # "Subscriptions" \/ (registered /\ "power" \in cache /\ actual["power"] = v)) =>
      <>[](part # "Subscriptions" \/ subShown["power"] = v)

\* MiotDevice: a command is executed at most twice, and never again once it was answered; no call
\* sees another's handshake half-way through; an error says whether its call was sent again.
\* Each part's variables keep their types.
PartsSound ==
  /\ part = "MiotDevice" => Device!AtMostTwice /\ Device!SendsInSync /\ Device!RefreshedMeansRetried
  /\ part = "MiotDevice" => Device!TypeOK
  /\ part = "IndexingLoop" => Loop!TypeOK
  /\ part = "GitHubDiscovery" => GitHub!TypeOK
  /\ part = "UiStatus" => Ui!TypeOK

\* MiotDevice: no call, each made once, stays under way.
CallsSettle == \A c \in Calls : []<>(part # "MiotDevice" \/ Device!At(c, "idle") \/ Device!Settled(c))

\* useApiStatus: when the API answers again for good, the banner goes and the page loads again,
\* but for the two races BackToNormal names.
OutageEnds ==
  <>[](part # "UiStatus" \/ Ui!Calm) => <>[](part # "UiStatus" \/ Ui!BackToNormal)
=============================================================================
