---------------------------- MODULE IndexingLoop ----------------------------
(***************************************************************************)
(* IndexingLoopService of knowledge-base-api on every replica: the chain   *)
(* of scheduled runs, POST /reindex and document writes that cut in or     *)
(* queue, the run under the advisory lock, and the pod that stops.         *)
(*                                                                         *)
(* What a run does to one knowledge base's index is KnowledgeIndex; here   *)
(* indexing one knowledge base is a single await.  A request's `full` flag *)
(* is left out: it changes what the indexer reads, not when anything runs. *)
(***************************************************************************)
EXTENDS Naturals, FiniteSets

CONSTANTS Pods,              \* replicas
          Slots,             \* bound: runs a pod can have under way at once
          KnowledgeBases,    \* configured knowledge bases
          Callers,           \* calls of trigger, numbered in the order they are made
          None,              \* undefined
          Enabled,           \* indexer.enabled
          MaxFaults          \* bound: stops, crashes and failing awaits

ASSUME LoopAssumption ==
  /\ None \notin Slots /\ None \notin Pods /\ None \notin Callers /\ None \notin KnowledgeBases
  /\ None \notin Pods \X Slots
  /\ Callers \subseteq Nat
  /\ Enabled \in BOOLEAN
  /\ MaxFaults \in Nat

VARIABLES life,      \* per pod: "starting", "ready", "stopping" ($onDestroy called), "down"
          timer,     \* per pod: the next scheduled run is armed
          running,   \* per pod: the slot of this.running, or None
          abort,     \* per pod: the slot this.abort belongs to, or None
          pending,   \* per pod: this.pending, NoRequest when undefined
          awaited,   \* per pod: the slot $onDestroy awaits, or None
          runs,      \* per pod and slot: a run
          lock,      \* LOCK_INDEX: <<pod, slot>> of the connection holding it, or None
          built,     \* knowledge bases with a cursor
          outcome,   \* per knowledge base: last_run_outcome
          answer,    \* per caller: what trigger resolved to
          served,    \* history variable: callers a run under the lock took up
          early,     \* history variable: pods called before $onReady had returned
          faults     \* bound on faults

podVars == <<life, timer, running, abort, pending, awaited, runs>>
history == <<served, early>>
vars == <<podVars, lock, built, outcome, answer, history, faults>>

Requests == [kbs : SUBSET KnowledgeBases, manual : BOOLEAN, callers : SUBSET Callers]
NoRequest == [kbs |-> {}, manual |-> FALSE, callers |-> {}]
Scheduled == [kbs |-> KnowledgeBases, manual |-> FALSE, callers |-> {}]

RunStates == [at : {"idle", "locking", "next", "indexing", "unlocking"},
              request : Requests, todo : SUBSET KnowledgeBases,
              kb : KnowledgeBases \cup {None},      \* being indexed
              listener : Callers \cup {None},       \* told how the run started
              aborted : BOOLEAN]                    \* its AbortController fired

Idle == [at |-> "idle", request |-> NoRequest, todo |-> {}, kb |-> None,
         listener |-> None, aborted |-> FALSE]

Fresh(request, listener) ==
  [Idle EXCEPT !.at = "locking", !.request = request, !.todo = request.kbs, !.listener = listener]

Answers == {"none", "waiting", "STARTED", "QUEUED", "SKIPPED", "error"}
Outcomes == {"none", "SUCCESS", "FAILURE", "INTERRUPTED"}

Active(p) == {s \in Slots : runs[p][s].at # "idle"}

\* $onDestroy of the loop and of PostgresService start together, so a stopped loop
\* has no pool left: every query it makes from then on is refused.
Stopped(p) == life[p] \in {"stopping", "down"}

Init ==
  /\ life = [p \in Pods |-> "starting"]
  /\ timer = [p \in Pods |-> FALSE]
  /\ running = [p \in Pods |-> None]
  /\ abort = [p \in Pods |-> None]
  /\ pending = [p \in Pods |-> NoRequest]
  /\ awaited = [p \in Pods |-> None]
  /\ runs = [p \in Pods |-> [s \in Slots |-> Idle]]
  /\ lock = None
  /\ built \in SUBSET KnowledgeBases
  /\ outcome = [k \in KnowledgeBases |-> "none"]
  /\ answer = [c \in Callers |-> "none"]
  /\ served = {} /\ early = {}
  /\ faults = 0

----------------------------------------------------------------------------
(* The chain *)

\* MUTANT: the request that came first is the one that is kept.
MergeFirst(queued, request) == IF queued = NoRequest THEN request ELSE queued

\* merge: the union of the knowledge bases, and manual if any of them was.
Merge(queued, request) ==
  [kbs |-> queued.kbs \cup request.kbs,
   manual |-> queued.manual \/ request.manual,
   callers |-> queued.callers \cup request.callers]

\* A slot is only a name, so any one that is free will do.
Free(p) == CHOOSE s \in Slots : s \notin Active(p)

\* start and run up to its first await: this.running and this.abort are overwritten.
Launch(p, s, request, listener) ==
  /\ Active(p) # Slots
  /\ runs' = [runs EXCEPT ![p][s] = Fresh(request, listener)]
  /\ running' = [running EXCEPT ![p] = s]
  /\ abort' = [abort EXCEPT ![p] = s]

\* $onReady once restoreLastSuccess has settled: the first run is armed, whatever
\* happened meanwhile.
Ready(p) ==
  /\ life[p] = "starting"
  /\ life' = [life EXCEPT ![p] = "ready"]
  /\ timer' = [timer EXCEPT ![p] = Enabled]
  /\ UNCHANGED <<running, abort, pending, awaited, runs, lock, built, outcome, answer, history, faults>>

TimerFires(p) ==
  /\ timer[p]
  /\ timer' = [timer EXCEPT ![p] = FALSE]
  /\ Launch(p, Free(p), Scheduled, None)
  /\ UNCHANGED <<life, pending, awaited, lock, built, outcome, answer, history, faults>>

\* The listeners open before $onReady and close when the injector is destroyed.
Serves(p) == life[p] # "down"

\* trigger while a run is in progress in this pod.
Queue(p, c, request) ==
  /\ running[p] # None
  /\ pending' = [pending EXCEPT ![p] = Merge(@, request)]
  /\ answer' = [answer EXCEPT ![c] = "QUEUED"]
  /\ UNCHANGED <<timer, running, abort, runs>>

\* MUTANT: the armed run is left armed.
CutInKeepingTimer(p, c, request) ==
  /\ running[p] = None
  /\ Launch(p, Free(p), request, c)
  /\ answer' = [answer EXCEPT ![c] = "waiting"]
  /\ UNCHANGED <<timer, pending>>

\* trigger otherwise: the wait is cut short.
CutIn(p, c, request) ==
  /\ running[p] = None
  /\ timer' = [timer EXCEPT ![p] = FALSE]
  /\ Launch(p, Free(p), request, c)
  /\ answer' = [answer EXCEPT ![c] = "waiting"]
  /\ UNCHANGED pending

\* POST /reindex is manual; the run a document write asks for is not.
Trigger(p, c) ==
  /\ Serves(p)
  /\ answer[c] = "none" /\ \A earlier \in Callers : earlier < c => answer[earlier] # "none"
  /\ \E kbs \in (SUBSET KnowledgeBases) \ {{}}, manual \in BOOLEAN :
       LET request == [kbs |-> kbs, manual |-> manual, callers |-> {c}]
       IN  Queue(p, c, request) \/ CutIn(p, c, request)
  /\ early' = IF life[p] = "starting" THEN early \cup {p} ELSE early
  /\ UNCHANGED <<life, awaited, lock, built, outcome, served, faults>>

Awaited(p, s) == awaited' = IF awaited[p] = s THEN [awaited EXCEPT ![p] = None] ELSE awaited

\* MUTANT: a run that was skipped or failed does not arm the next one.
SettleQuietly(p, s) ==
  /\ Awaited(p, s)
  /\ runs' = [runs EXCEPT ![p][s] = Idle]
  /\ running' = [running EXCEPT ![p] = None]
  /\ abort' = IF abort[p] = s THEN [abort EXCEPT ![p] = None] ELSE abort
  /\ timer' = IF Enabled /\ ~Stopped(p) /\ runs[p][s].at = "unlocking" THEN [timer EXCEPT ![p] = TRUE] ELSE timer
  /\ UNCHANGED pending

\* The run's promise settles.  run's finally drops its own AbortController; start
\* forgets this.running, whichever run it names, and goes on with what was queued
\* or arms the next run.
Settle(p, s) ==
  /\ Awaited(p, s)
  /\ \/ /\ ~Stopped(p) /\ pending[p] # NoRequest
        /\ runs' = [runs EXCEPT ![p][s] = Fresh(pending[p], None)]
        /\ running' = [running EXCEPT ![p] = s]
        /\ abort' = [abort EXCEPT ![p] = s]
        /\ pending' = [pending EXCEPT ![p] = NoRequest]
        /\ UNCHANGED timer
     \/ /\ Stopped(p) \/ pending[p] = NoRequest
        /\ runs' = [runs EXCEPT ![p][s] = Idle]
        /\ running' = [running EXCEPT ![p] = None]
        /\ abort' = IF abort[p] = s THEN [abort EXCEPT ![p] = None] ELSE abort
        /\ timer' = IF Enabled /\ ~Stopped(p) THEN [timer EXCEPT ![p] = TRUE] ELSE timer
        /\ UNCHANGED pending

----------------------------------------------------------------------------
(* One run *)

Tell(p, s, how) ==
  answer' = IF runs[p][s].listener = None THEN answer
            ELSE [answer EXCEPT ![runs[p][s].listener] = how]

Move(p, s, at) == runs' = [runs EXCEPT ![p][s].at = at]

\* MUTANT: the lock belongs to the pod, not to the run's connection.
TakeLockOfPod(p, s) ==
  /\ runs[p][s].at = "locking"
  /\ ~Stopped(p)
  /\ p = IF lock = None THEN p ELSE lock[1]
  /\ lock' = <<p, s>>
  /\ Tell(p, s, "STARTED")
  /\ served' = served \cup runs[p][s].request.callers
  /\ Move(p, s, "next")
  /\ UNCHANGED <<life, timer, running, abort, pending, awaited, built, outcome, early, faults>>

\* pg_try_advisory_lock says yes, and the listener hears STARTED.
TakeLock(p, s) ==
  /\ runs[p][s].at = "locking"
  /\ ~Stopped(p)
  /\ lock = None
  /\ lock' = <<p, s>>
  /\ Tell(p, s, "STARTED")
  /\ served' = served \cup runs[p][s].request.callers
  /\ Move(p, s, "next")
  /\ UNCHANGED <<life, timer, running, abort, pending, awaited, built, outcome, early, faults>>

\* It says no: the run is over, and only a listener hears of it.
Skip(p, s) ==
  /\ runs[p][s].at = "locking"
  /\ ~Stopped(p)
  /\ lock # None
  /\ Tell(p, s, "SKIPPED")
  /\ Settle(p, s)
  /\ UNCHANGED <<life, lock, built, outcome, history, faults>>

\* An await fails because the pool is gone, or for any other reason.
Refused(p) ==
  \/ Stopped(p) /\ UNCHANGED faults
  \/ ~Stopped(p) /\ faults < MaxFaults /\ faults' = faults + 1

\* MUTANT: nobody tells the listener.
NoDatabaseSilent(p, s) ==
  /\ runs[p][s].at = "locking"
  /\ Refused(p)
  /\ Settle(p, s)
  /\ UNCHANGED <<life, lock, built, outcome, answer, history>>

\* The lock cannot be asked for.
NoDatabase(p, s) ==
  /\ runs[p][s].at = "locking"
  /\ Refused(p)
  /\ Tell(p, s, "error")
  /\ Settle(p, s)
  /\ UNCHANGED <<life, lock, built, outcome, history>>

\* runLocked's loop: the signal, then a scheduled run's look at the cursor, then
\* recordRunStart.
NextKnowledgeBase(p, s) ==
  /\ runs[p][s].at = "next"
  /\ \/ /\ runs[p][s].aborted \/ runs[p][s].todo = {}
        /\ Move(p, s, "unlocking")
        /\ UNCHANGED outcome
     \/ /\ ~runs[p][s].aborted /\ ~Stopped(p)
        /\ \E k \in runs[p][s].todo :
             \/ /\ ~runs[p][s].request.manual /\ k \notin built
                /\ runs' = [runs EXCEPT ![p][s].todo = @ \ {k}]
                /\ UNCHANGED outcome
             \/ /\ runs[p][s].request.manual \/ k \in built
                /\ runs' = [runs EXCEPT ![p][s] = [runs[p][s] EXCEPT !.at = "indexing", !.kb = k, !.todo = @ \ {k}]]
                /\ outcome' = [outcome EXCEPT ![k] = "none"]
  /\ UNCHANGED <<life, timer, running, abort, pending, awaited, lock, built, answer, history, faults>>

\* getCursor or recordRunStart fails: no other knowledge base is tried.
NoRunRecord(p, s) ==
  /\ runs[p][s].at = "next"
  /\ runs[p][s].todo # {}
  /\ Refused(p)
  /\ Move(p, s, "unlocking")
  /\ UNCHANGED <<life, timer, running, abort, pending, awaited, lock, built, outcome, answer, history>>

\* IndexerService.index resolves and recordRunEnd writes SUCCESS.
Indexed(p, s) ==
  /\ runs[p][s].at = "indexing"
  /\ ~Stopped(p)
  /\ built' = built \cup {runs[p][s].kb}
  /\ outcome' = [outcome EXCEPT ![runs[p][s].kb] = "SUCCESS"]
  /\ runs' = [runs EXCEPT ![p][s] = [@ EXCEPT !.at = "next", !.kb = None]]
  /\ UNCHANGED <<life, timer, running, abort, pending, awaited, lock, answer, history, faults>>

\* recordRunEnd with its own failure swallowed.
RecordRunEnd(p, s, how) ==
  outcome' = IF Stopped(p) THEN outcome ELSE [outcome EXCEPT ![runs[p][s].kb] = how]

\* index rejects and the signal has not fired: the next knowledge base is tried.
Failed(p, s) ==
  /\ runs[p][s].at = "indexing"
  /\ ~runs[p][s].aborted
  /\ Refused(p)
  /\ RecordRunEnd(p, s, "FAILURE")
  /\ runs' = [runs EXCEPT ![p][s] = [@ EXCEPT !.at = "next", !.kb = None]]
  /\ UNCHANGED <<life, timer, running, abort, pending, awaited, lock, built, answer, history>>

\* index rejects because the signal has: the run is over.
Interrupted(p, s) ==
  /\ runs[p][s].at = "indexing"
  /\ runs[p][s].aborted
  /\ RecordRunEnd(p, s, "INTERRUPTED")
  /\ runs' = [runs EXCEPT ![p][s] = [@ EXCEPT !.at = "unlocking", !.kb = None]]
  /\ UNCHANGED <<life, timer, running, abort, pending, awaited, lock, built, answer, history, faults>>

\* pg_advisory_unlock on the run's own connection, which outlives the pool's end.
Unlock(p, s) ==
  /\ runs[p][s].at = "unlocking"
  /\ lock' = None
  /\ Settle(p, s)
  /\ UNCHANGED <<life, built, outcome, answer, history, faults>>

RunStep(p, s) ==
  \/ TakeLock(p, s) \/ Skip(p, s) \/ NoDatabase(p, s)
  \/ NextKnowledgeBase(p, s) \/ NoRunRecord(p, s)
  \/ Indexed(p, s) \/ Failed(p, s) \/ Interrupted(p, s) \/ Unlock(p, s)

----------------------------------------------------------------------------
(* The pod *)

\* MUTANT: the destroy hook does not wait for the run.
DestroyAtOnce(p) ==
  /\ life[p] = "ready"
  /\ faults < MaxFaults
  /\ faults' = faults + 1
  /\ life' = [life EXCEPT ![p] = "stopping"]
  /\ timer' = [timer EXCEPT ![p] = FALSE]
  /\ runs' = IF abort[p] = None THEN runs ELSE [runs EXCEPT ![p][abort[p]].aborted = TRUE]
  /\ UNCHANGED <<running, abort, pending, awaited, lock, built, outcome, answer, history>>

\* $onDestroy; the signal handler exists once the platform listens and is ready.
Destroy(p) ==
  /\ life[p] = "ready"
  /\ faults < MaxFaults
  /\ faults' = faults + 1
  /\ life' = [life EXCEPT ![p] = "stopping"]
  /\ timer' = [timer EXCEPT ![p] = FALSE]
  /\ runs' = IF abort[p] = None THEN runs ELSE [runs EXCEPT ![p][abort[p]].aborted = TRUE]
  /\ awaited' = [awaited EXCEPT ![p] = running[p]]
  /\ UNCHANGED <<running, abort, pending, lock, built, outcome, answer, history>>

\* $onDestroy has returned; the listeners close.
Close(p) ==
  /\ life[p] = "stopping"
  /\ awaited[p] = None
  /\ life' = [life EXCEPT ![p] = "down"]
  /\ UNCHANGED <<timer, running, abort, pending, awaited, runs, lock, built, outcome, answer, history, faults>>

\* A new process: nothing of the old one is left but what is in the database, and the
\* calls it had open fail.
Reborn(p) ==
  /\ life' = [life EXCEPT ![p] = "starting"]
  /\ timer' = [timer EXCEPT ![p] = FALSE]
  /\ running' = [running EXCEPT ![p] = None]
  /\ abort' = [abort EXCEPT ![p] = None]
  /\ pending' = [pending EXCEPT ![p] = NoRequest]
  /\ awaited' = [awaited EXCEPT ![p] = None]
  /\ runs' = [runs EXCEPT ![p] = [s \in Slots |-> Idle]]
  /\ lock' = IF \E s \in Slots : lock = <<p, s>> THEN None ELSE lock
  /\ answer' = [c \in Callers |->
                  IF answer[c] = "waiting" /\ \E s \in Slots : runs[p][s].listener = c
                    THEN "error" ELSE answer[c]]
  /\ early' = early \ {p}
  /\ UNCHANGED <<built, outcome, served>>

Replace(p) == life[p] = "down" /\ Reborn(p) /\ UNCHANGED faults

Crash(p) ==
  /\ life[p] # "down"
  /\ faults < MaxFaults
  /\ faults' = faults + 1
  /\ Reborn(p)

Next ==
  \E p \in Pods :
    \/ Ready(p) \/ TimerFires(p) \/ Destroy(p) \/ Close(p) \/ Replace(p) \/ Crash(p)
    \/ \E c \in Callers : Trigger(p, c)
    \/ \E s \in Slots : RunStep(p, s)

\* Timers fire, awaits settle, hooks return.  Nobody has to call, stop or crash.
Fairness ==
  \A p \in Pods :
    /\ WF_vars(Ready(p)) /\ WF_vars(TimerFires(p)) /\ WF_vars(Close(p))
    /\ \A s \in Slots : WF_vars(RunStep(p, s))

Spec == Init /\ [][Next]_vars
FairSpec == Spec /\ Fairness

----------------------------------------------------------------------------
(* Properties *)

\* Every variable holds what the code can put in it.
TypeOK ==
  /\ life \in [Pods -> {"starting", "ready", "stopping", "down"}]
  /\ timer \in [Pods -> BOOLEAN]
  /\ running \in [Pods -> Slots \cup {None}]
  /\ abort \in [Pods -> Slots \cup {None}]
  /\ awaited \in [Pods -> Slots \cup {None}]
  /\ pending \in [Pods -> Requests]
  /\ runs \in [Pods -> [Slots -> RunStates]]
  /\ lock \in (Pods \X Slots) \cup {None}
  /\ built \in SUBSET KnowledgeBases
  /\ outcome \in [KnowledgeBases -> Outcomes]
  /\ answer \in [Callers -> Answers]
  /\ served \in SUBSET Callers
  /\ early \in SUBSET Pods
  /\ faults \in 0..MaxFaults

\* One indexer at a time, over all replicas and even among the runs of one pod:
\* every run past the lock is the run of the connection that holds it.
OneIndexer ==
  \A p \in Pods : \A s \in Slots :
    runs[p][s].at \in {"next", "indexing", "unlocking"} => lock = <<p, s>>

\* IndexingLoopService: "so runs in this pod never overlap; they run late instead" - in a
\* pod nobody called before $onReady armed its first run on top of a run in progress.
NeverOverlap == \A p \in Pods \ early : Cardinality(Active(p)) <= 1

\* $onDestroy waits for the run: such a pod, its listeners closed, indexes nothing.
DownIsQuiet ==
  \A p \in Pods \ early :
    life[p] = "down" => \A s \in Slots : runs[p][s].at \in {"idle", "locking"}

\* IndexingLoopService: one indexer over all replicas, one run at a time in a pod whose first run
\* nobody forestalled, and none in such a pod once $onDestroy has returned.
OneRunAtATime == OneIndexer /\ NeverOverlap /\ DownIsQuiet

\* Each call that waits for the lock's answer gets one, whoever else runs and whatever
\* fails: trigger's promise settles with the run's.
CallersAnswered == \A c \in Callers : answer[c] = "waiting" ~> answer[c] # "waiting"

\* The chain never breaks: a pod that stays up runs again and again, whether its runs
\* succeed, are skipped, fail, or are cut short by a call.
LoopGoesOn == Enabled => \A p \in Pods : []<>(life[p] # "ready" \/ running[p] # None)

\* A caller's request is in a pod's queue or in a run that has not ended.
Held(c) ==
  \E p \in Pods : \/ c \in pending[p].callers
                 \/ \E s \in Active(p) : c \in runs[p][s].request.callers

\* Another pod's run has the lock that the run of c's request asks for, or an
\* overlapping run of this pod has.
Beaten(c) ==
  \E p, q \in Pods : /\ p # q \/ p \in early
                    /\ \E s \in Slots : lock = <<q, s>>
                    /\ \E t \in Active(p) : c \in runs[p][t].request.callers

\* ReindexPostHandler answers 202 to a call that was QUEUED.  While nothing stops or fails,
\* what was queued is merged, moved on and run, and is lost in one way only: the run it was
\* queued for finds another run indexing.
QueuedIsKept ==
  [][\A c \in Callers :
       faults' = 0 /\ answer'[c] = "QUEUED" /\ c \notin served' /\ ~Held(c)'
         => Beaten(c) \/ (answer[c] = "QUEUED" /\ ~Held(c))]_vars

\* README: on shutdown "the knowledge base it was on records INTERRUPTED".
StopIsRecorded ==
  [][\A p \in Pods : \A s \in Slots :
       runs[p][s].at = "indexing" /\ runs[p][s].aborted /\ runs'[p][s].at = "unlocking"
         => outcome'[runs[p][s].kb] = "INTERRUPTED"]_vars
=============================================================================
