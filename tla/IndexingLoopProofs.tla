------------------------- MODULE IndexingLoopProofs --------------------------
(***************************************************************************)
(* Why one run indexes at a time and what is queued stays queued, for any  *)
(* number of pods, slots, knowledge bases and callers.                     *)
(***************************************************************************)
EXTENDS IndexingLoop, FiniteSetTheorems, TLAPS

----------------------------------------------------------------------------
(* IndexingLoop: one run indexes at a time *)

Past == {"next", "indexing", "unlocking"}

\* A pod nobody called too early: its runs are the one it remembers, and the next is armed only
\* when there is none.
ChainOf(p) ==
  /\ \A s \in Slots : runs[p][s].at # "idle" => running[p] = s
  /\ timer[p] \/ life[p] = "starting" => running[p] = None
  /\ life[p] = "starting" => ~timer[p]

\* Such a pod, stopped: a run past the lock is the one $onDestroy awaits.
AwaitedBy(p) == Stopped(p) => \A s \in Slots : runs[p][s].at \in Past => awaited[p] = s

Chained == \A p \in Pods \ early : ChainOf(p) /\ AwaitedBy(p)

Returned == \A p \in Pods : life[p] = "down" => awaited[p] = None

\* index is called for a knowledge base.
Named == \A p \in Pods, s \in Slots : runs[p][s].at = "indexing" => runs[p][s].kb \in KnowledgeBases

IInv == TypeOK /\ Named /\ OneIndexer /\ Chained /\ Returned

----------------------------------------------------------------------------
(* Runs *)

\* One run is k now and the others are what they were.
OnlyRun(p, s, k) ==
  /\ runs' \in [Pods -> [Slots -> RunStates]]
  /\ runs'[p][s] = k
  /\ \A q \in Pods, t \in Slots : <<q, t>> # <<p, s>> => runs'[q][t] = runs[q][t]

\* A step that changes one run changes no other.
LEMMA Put ==
  ASSUME TypeOK, NEW p \in Pods, NEW s \in Slots, NEW k \in RunStates, runs' = [runs EXCEPT ![p][s] = k]
  PROVE  OnlyRun(p, s, k)
<1>1. runs \in [Pods -> [Slots -> RunStates]]
  BY DEF TypeOK
<1>2. runs' = [runs EXCEPT ![p] = [runs[p] EXCEPT ![s] = k]]
  OBVIOUS
<1>3. runs[p] \in [Slots -> RunStates]
  BY <1>1
<1>4. [runs[p] EXCEPT ![s] = k] \in [Slots -> RunStates]
  BY <1>3
<1>5. runs' \in [Pods -> [Slots -> RunStates]]
  BY <1>1, <1>2, <1>4
<1>6. runs'[p] = [runs[p] EXCEPT ![s] = k] /\ \A q \in Pods \ {p} : runs'[q] = runs[q]
  BY <1>1, <1>2
<1>7. runs'[p][s] = k /\ \A t \in Slots \ {s} : runs'[p][t] = runs[p][t]
  BY <1>3, <1>6
<1> QED
  BY <1>5, <1>6, <1>7 DEF OnlyRun

\* The request and the run there are none of are typed too.
LEMMA IdleTyped == Idle \in RunStates /\ Idle.at = "idle" /\ NoRequest \in Requests
BY DEF Idle, RunStates, Requests, NoRequest

\* start makes a run that asks for the lock.
LEMMA FreshTyped ==
  ASSUME NEW request \in Requests, NEW listener \in Callers \cup {None}
  PROVE  Fresh(request, listener) \in RunStates /\ Fresh(request, listener).at = "locking"
<1>1. request.kbs \in SUBSET KnowledgeBases
  BY DEF Requests
<1>2. Idle \in RunStates
  BY IdleTyped
<1> QED
  BY <1>1, <1>2 DEF Fresh, RunStates

\* What the chain's variables hold, past the runs themselves.
TypePod ==
  /\ timer \in [Pods -> BOOLEAN]
  /\ running \in [Pods -> Slots \cup {None}]
  /\ abort \in [Pods -> Slots \cup {None}]
  /\ awaited \in [Pods -> Slots \cup {None}]
  /\ pending \in [Pods -> Requests]

----------------------------------------------------------------------------
(* The run's promise settles *)

\* start's end: the run's slot is free, or holds the run of what was queued.
LEMMA SettleFacts ==
  ASSUME IInv, NEW p \in Pods, NEW s \in Slots, Settle(p, s)
  PROVE  /\ TypePod' /\ runs' \in [Pods -> [Slots -> RunStates]]
         /\ runs'[p][s].at \in {"idle", "locking"}
         /\ \A q \in Pods, t \in Slots : <<q, t>> # <<p, s>> => runs'[q][t] = runs[q][t]
         /\ \A q \in Pods \ {p} : /\ timer'[q] = timer[q] /\ running'[q] = running[q]
                                  /\ awaited'[q] = awaited[q]
         /\ awaited'[p] = IF awaited[p] = s THEN None ELSE awaited[p]
         /\ \/ runs'[p][s].at = "locking" /\ running'[p] = s /\ timer'[p] = timer[p]
            \/ /\ runs'[p][s].at = "idle" /\ running'[p] = None
               /\ Stopped(p) => timer'[p] = timer[p]
<1> USE DEF TypePod
<1>1. /\ timer \in [Pods -> BOOLEAN] /\ pending \in [Pods -> Requests] /\ TypeOK
      /\ running \in [Pods -> Slots \cup {None}] /\ abort \in [Pods -> Slots \cup {None}]
      /\ awaited \in [Pods -> Slots \cup {None}]
  BY DEF IInv, TypeOK
<1>2. Awaited(p, s)
  BY DEF Settle
<1>3. /\ awaited' \in [Pods -> Slots \cup {None}]
      /\ awaited'[p] = IF awaited[p] = s THEN None ELSE awaited[p]
      /\ \A q \in Pods \ {p} : awaited'[q] = awaited[q]
  BY <1>1, <1>2 DEF Awaited
<1>4. CASE /\ runs' = [runs EXCEPT ![p][s] = Fresh(pending[p], None)]
           /\ running' = [running EXCEPT ![p] = s]
           /\ abort' = [abort EXCEPT ![p] = s]
           /\ pending' = [pending EXCEPT ![p] = NoRequest]
           /\ UNCHANGED timer
  <2>1. pending[p] \in Requests
    BY <1>1
  <2>2. Fresh(pending[p], None) \in RunStates /\ Fresh(pending[p], None).at = "locking"
    BY <2>1, FreshTyped
  <2>3. /\ runs' \in [Pods -> [Slots -> RunStates]] /\ runs'[p][s] = Fresh(pending[p], None)
        /\ \A q \in Pods, t \in Slots : <<q, t>> # <<p, s>> => runs'[q][t] = runs[q][t]
    <3>1. TypeOK
      BY DEF IInv
    <3>2. OnlyRun(p, s, Fresh(pending[p], None))
      BY <3>1, <1>1, <1>4, <2>2, Put
    <3> QED
      BY <3>2 DEF OnlyRun
  <2>4. /\ running' \in [Pods -> Slots \cup {None}] /\ running'[p] = s
        /\ \A q \in Pods \ {p} : running'[q] = running[q]
    BY <1>1, <1>4
  <2>5. abort' \in [Pods -> Slots \cup {None}]
    BY <1>1, <1>4
  <2>6. pending' \in [Pods -> Requests]
    BY <1>1, <1>4, IdleTyped
  <2>7. timer' = timer
    BY <1>4
  <2>8. TypePod' /\ runs'[p][s].at = "locking"
    BY <1>1, <1>3, <2>2, <2>3, <2>4, <2>5, <2>6, <2>7
  <2> QED
    BY <1>3, <2>3, <2>4, <2>7, <2>8
<1>5. CASE /\ runs' = [runs EXCEPT ![p][s] = Idle]
           /\ running' = [running EXCEPT ![p] = None]
           /\ abort' = IF abort[p] = s THEN [abort EXCEPT ![p] = None] ELSE abort
           /\ timer' = IF Enabled /\ ~Stopped(p) THEN [timer EXCEPT ![p] = TRUE] ELSE timer
           /\ UNCHANGED pending
  <2>3. /\ runs' \in [Pods -> [Slots -> RunStates]] /\ runs'[p][s] = Idle
        /\ \A q \in Pods, t \in Slots : <<q, t>> # <<p, s>> => runs'[q][t] = runs[q][t]
    <3>1. TypeOK
      BY DEF IInv
    <3>2. OnlyRun(p, s, Idle)
      BY <3>1, <1>1, <1>5, IdleTyped, Put
    <3> QED
      BY <3>2 DEF OnlyRun
  <2>4. /\ running' \in [Pods -> Slots \cup {None}] /\ running'[p] = None
        /\ \A q \in Pods \ {p} : running'[q] = running[q]
    BY <1>1, <1>5
  <2>5. abort' \in [Pods -> Slots \cup {None}]
    BY <1>1, <1>5
  <2>6. timer' \in [Pods -> BOOLEAN] /\ \A q \in Pods \ {p} : timer'[q] = timer[q]
    <3>1. CASE timer' = timer
      BY <1>1, <3>1
    <3>2. CASE timer' = [timer EXCEPT ![p] = TRUE]
      BY <1>1, <3>2
    <3> QED
      BY <1>5, <3>1, <3>2
  <2>7. Stopped(p) => timer' = timer
    BY <1>5
  <2>8. TypePod'
    BY <1>1, <1>3, <1>5, <2>4, <2>5, <2>6
  <2>9. runs'[p][s].at = "idle"
    BY <2>3, IdleTyped
  <2> QED
    BY <1>3, <2>3, <2>4, <2>6, <2>7, <2>8, <2>9
<1> QED
  BY <1>4, <1>5 DEF Settle

\* A run that ends leaves the chain as it should be, when the lock is free of it.
LEMMA SettleInv ==
  ASSUME IInv, NEW p \in Pods, NEW s \in Slots, Settle(p, s), runs[p][s].at # "idle",
         UNCHANGED <<life, early, built, outcome>>,
         answer' \in [Callers -> Answers], served' \in SUBSET Callers, faults' \in 0..MaxFaults,
         \/ UNCHANGED lock
         \/ lock = <<p, s>> /\ lock' = None
  PROVE  IInv'
<1>1. /\ TypePod' /\ runs' \in [Pods -> [Slots -> RunStates]]
      /\ runs'[p][s].at \in {"idle", "locking"}
      /\ \A q \in Pods, t \in Slots : <<q, t>> # <<p, s>> => runs'[q][t] = runs[q][t]
      /\ \A q \in Pods \ {p} : timer'[q] = timer[q] /\ running'[q] = running[q] /\ awaited'[q] = awaited[q]
      /\ awaited'[p] = IF awaited[p] = s THEN None ELSE awaited[p]
  BY SettleFacts
<1>2. \/ runs'[p][s].at = "locking" /\ running'[p] = s /\ timer'[p] = timer[p]
      \/ runs'[p][s].at = "idle" /\ running'[p] = None /\ (Stopped(p) => timer'[p] = timer[p])
  BY SettleFacts
<1>3. lock' \in (Pods \X Slots) \cup {None}
  BY DEF IInv, TypeOK
<1>4. TypeOK'
  BY <1>1, <1>3 DEF IInv, TypeOK, TypePod
<1>5. OneIndexer'
  <2> SUFFICES ASSUME NEW q \in Pods, NEW t \in Slots, runs'[q][t].at \in {"next", "indexing", "unlocking"}
               PROVE  lock' = <<q, t>>
    BY DEF OneIndexer
  <2>1. <<q, t>> # <<p, s>>
    BY <1>1
  <2>2. runs'[q][t] = runs[q][t]
    BY <1>1, <2>1
  <2>3. lock = <<q, t>>
    BY <2>2 DEF IInv, OneIndexer
  <2> QED
    BY <2>1, <2>3
<1>6. Returned' /\ Named'
  <2>1. Returned'
    BY <1>1 DEF IInv, Returned
  <2>2. ASSUME NEW q \in Pods, NEW t \in Slots, runs'[q][t].at = "indexing"
        PROVE  runs'[q][t].kb \in KnowledgeBases
    <3>1. <<q, t>> # <<p, s>>
      BY <1>1, <2>2
    <3> QED
      BY <1>1, <2>2, <3>1 DEF IInv, Named
  <2> QED
    BY <2>1, <2>2 DEF Named
<1>7. Chained'
  <2> SUFFICES ASSUME NEW q \in Pods \ early PROVE ChainOf(q)' /\ AwaitedBy(q)'
    BY DEF Chained
  <2>1. ChainOf(q) /\ AwaitedBy(q)
    BY DEF IInv, Chained
  <2>2. CASE q # p
    <3>1. /\ \A t \in Slots : runs'[q][t] = runs[q][t]
          /\ timer'[q] = timer[q] /\ running'[q] = running[q] /\ awaited'[q] = awaited[q] /\ life'[q] = life[q]
      BY <1>1, <2>2
    <3> QED
      BY <2>1, <3>1 DEF ChainOf, AwaitedBy, Stopped
  <2>3. CASE q = p
    <3>1. running[p] = s /\ s # None
      BY <2>1, <2>3, LoopAssumption DEF ChainOf
    <3>2. life[p] # "starting" /\ ~timer[p]
      BY <2>1, <2>3, <3>1 DEF ChainOf
    <3>3. \A t \in Slots \ {s} : runs'[p][t] = runs[p][t] /\ runs[p][t].at = "idle"
      BY <1>1, <2>1, <2>3, <3>1 DEF ChainOf
    <3>4. ChainOf(p)'
      BY <1>1, <1>2, <3>2, <3>3 DEF ChainOf
    <3>5. AwaitedBy(p)'
      BY <1>1, <3>3 DEF AwaitedBy, Past
    <3> QED
      BY <2>3, <3>4, <3>5
  <2> QED
    BY <2>2, <2>3
<1> QED
  BY <1>4, <1>5, <1>6, <1>7 DEF IInv

\* The listener of a run is told once, whatever it is told.
LEMMA Told ==
  ASSUME TypeOK, NEW p \in Pods, NEW s \in Slots, NEW how \in Answers, Tell(p, s, how)
  PROVE  answer' \in [Callers -> Answers]
<1>1. runs[p][s].listener \in Callers \cup {None}
  BY DEF TypeOK, RunStates
<1> QED
  BY <1>1 DEF Tell, TypeOK

\* A fault is counted, a refusal by a closed pool is none.
LEMMA Counted == ASSUME TypeOK, NEW p \in Pods, Refused(p) PROVE faults' \in 0..MaxFaults
BY LoopAssumption DEF Refused, TypeOK

\* The runs that end: no lock, no database, or done.
LEMMA EndsInv ==
  ASSUME IInv, NEW p \in Pods, NEW s \in Slots, Skip(p, s) \/ NoDatabase(p, s) \/ Unlock(p, s)
  PROVE  IInv'
<1>1. TypeOK
  BY DEF IInv
<1>2. Settle(p, s) /\ runs[p][s].at # "idle" /\ UNCHANGED <<life, early, built, outcome, served>>
  BY DEF Skip, NoDatabase, Unlock, history
<1>3. answer' \in [Callers -> Answers]
  <2>1. CASE Skip(p, s)
    BY <1>1, <2>1, Told DEF Skip, Answers
  <2>2. CASE NoDatabase(p, s)
    BY <1>1, <2>2, Told DEF NoDatabase, Answers
  <2>3. CASE Unlock(p, s)
    BY <2>3, <1>1 DEF Unlock, TypeOK
  <2> QED
    BY <2>1, <2>2, <2>3
<1>4. faults' \in 0..MaxFaults
  <2>1. CASE NoDatabase(p, s)
    BY <1>1, <2>1, Counted DEF NoDatabase
  <2>2. CASE Skip(p, s) \/ Unlock(p, s)
    BY <1>1, <2>2 DEF Skip, Unlock, TypeOK
  <2> QED
    BY <2>1, <2>2
<1>5. UNCHANGED lock \/ (lock = <<p, s>> /\ lock' = None)
  BY DEF Skip, NoDatabase, Unlock, IInv, OneIndexer
<1>6. served' \in SUBSET Callers
  BY <1>1, <1>2 DEF TypeOK
<1> QED
  BY <1>2, <1>3, <1>4, <1>5, <1>6, SettleInv

----------------------------------------------------------------------------
(* A run goes on *)

\* A run that stays behind the lock, or goes past it as the one that took it.
LEMMA GoesOn ==
  ASSUME IInv, NEW p \in Pods, NEW s \in Slots, NEW k \in RunStates,
         runs' = [runs EXCEPT ![p][s] = k], runs[p][s].at # "idle",
         k.at = "indexing" => k.kb \in KnowledgeBases,
         UNCHANGED <<life, timer, running, abort, pending, awaited, early>>,
         built' \in SUBSET KnowledgeBases, outcome' \in [KnowledgeBases -> Outcomes],
         answer' \in [Callers -> Answers], served' \in SUBSET Callers, faults' \in 0..MaxFaults,
         \/ UNCHANGED lock /\ runs[p][s].at \in Past
         \/ lock = None /\ lock' = <<p, s>> /\ ~Stopped(p)
  PROVE  IInv'
<1>1. /\ runs' \in [Pods -> [Slots -> RunStates]] /\ runs'[p][s] = k
      /\ \A q \in Pods, t \in Slots : <<q, t>> # <<p, s>> => runs'[q][t] = runs[q][t]
  <2>1. TypeOK
    BY DEF IInv
  <2>2. OnlyRun(p, s, k)
    BY <2>1, Put
  <2> QED
    BY <2>2 DEF OnlyRun
<1>2. lock' \in (Pods \X Slots) \cup {None}
  BY DEF IInv, TypeOK
<1>3. TypeOK'
  BY <1>1, <1>2 DEF IInv, TypeOK
<1>4. OneIndexer'
  <2> SUFFICES ASSUME NEW q \in Pods, NEW t \in Slots, runs'[q][t].at \in {"next", "indexing", "unlocking"}
               PROVE  lock' = <<q, t>>
    BY DEF OneIndexer
  <2>1. CASE <<q, t>> = <<p, s>>
    <3>1. runs[p][s].at \in Past => lock = <<p, s>>
      BY DEF IInv, OneIndexer, Past
    <3> QED
      BY <2>1, <3>1
  <2>2. CASE <<q, t>> # <<p, s>>
    <3>1. lock = <<q, t>>
      BY <1>1, <2>2 DEF IInv, OneIndexer
    <3>2. lock # None
      BY <3>1, LoopAssumption
    <3> QED
      BY <3>1, <3>2
  <2> QED
    BY <2>1, <2>2
<1>5. Returned' /\ Named'
  BY <1>1 DEF IInv, Returned, Named
<1>6. Chained'
  <2> SUFFICES ASSUME NEW q \in Pods \ early PROVE ChainOf(q)' /\ AwaitedBy(q)'
    BY DEF Chained
  <2>1. ChainOf(q) /\ AwaitedBy(q)
    BY DEF IInv, Chained
  <2>2. \A t \in Slots : runs'[q][t].at # "idle" => runs[q][t].at # "idle"
    BY <1>1
  <2>3. ChainOf(q)'
    BY <2>1, <2>2 DEF ChainOf
  <2>4. Stopped(q) => \A t \in Slots : runs'[q][t].at \in Past => runs[q][t].at \in Past
    BY <1>1
  <2>5. AwaitedBy(q)'
    BY <2>1, <2>4 DEF AwaitedBy, Stopped
  <2> QED
    BY <2>3, <2>5
<1> QED
  BY <1>3, <1>4, <1>5, <1>6 DEF IInv

\* A run that moves on stays a run, wherever it is then.
LEMMA MovedTyped ==
  ASSUME TypeOK, NEW p \in Pods, NEW s \in Slots,
         NEW at \in {"idle", "locking", "next", "indexing", "unlocking"}
  PROVE  /\ [runs[p][s] EXCEPT !.at = at] \in RunStates
         /\ [runs[p][s] EXCEPT !.at = at].at = at
<1>1. runs[p][s] \in RunStates
  BY DEF TypeOK
<1> QED
  BY <1>1 DEF RunStates

\* pg_try_advisory_lock says yes to one.
LEMMA TakeLockInv == ASSUME IInv, NEW p \in Pods, NEW s \in Slots, TakeLock(p, s) PROVE IInv'
<1>1. TypeOK
  BY DEF IInv
<1>2. runs' = [runs EXCEPT ![p][s] = [runs[p][s] EXCEPT !.at = "next"]]
  BY DEF TakeLock, Move
<1>3. [runs[p][s] EXCEPT !.at = "next"] \in RunStates
  BY <1>1, MovedTyped
<1>4. /\ lock = None /\ lock' = <<p, s>> /\ ~Stopped(p) /\ runs[p][s].at # "idle"
      /\ UNCHANGED <<life, timer, running, abort, pending, awaited, built, outcome, early, faults>>
  BY DEF TakeLock
<1>5. answer' \in [Callers -> Answers]
  BY <1>1, Told DEF TakeLock, Answers
<1>6. served' \in SUBSET Callers
  <2>1. runs[p][s].request.callers \in SUBSET Callers
    BY <1>1 DEF TypeOK, RunStates, Requests
  <2> QED
    BY <1>1, <2>1 DEF TakeLock, TypeOK
<1>7. built' \in SUBSET KnowledgeBases /\ outcome' \in [KnowledgeBases -> Outcomes] /\ faults' \in 0..MaxFaults
  BY <1>1, <1>4 DEF TypeOK
<1>8. [runs[p][s] EXCEPT !.at = "next"].at # "indexing"
  BY <1>1 DEF TypeOK, RunStates
<1> QED
  BY <1>2, <1>3, <1>4, <1>5, <1>6, <1>7, <1>8, GoesOn

\* runLocked's loop and what ends one knowledge base of it: the run stays the lock's.
LEMMA RunsOn ==
  ASSUME IInv, NEW p \in Pods, NEW s \in Slots,
         NextKnowledgeBase(p, s) \/ NoRunRecord(p, s) \/ Indexed(p, s) \/ Failed(p, s) \/ Interrupted(p, s)
  PROVE  IInv'
<1>1. TypeOK
  BY DEF IInv
<1>2. /\ runs[p][s].at \in Past
      /\ UNCHANGED <<life, timer, running, abort, pending, awaited, lock, answer, served, early>>
  BY DEF NextKnowledgeBase, NoRunRecord, Indexed, Failed, Interrupted, Past, history
<1>3. runs[p][s] \in RunStates
  BY <1>1 DEF TypeOK
<1>4. faults' \in 0..MaxFaults
  <2>1. CASE NextKnowledgeBase(p, s) \/ Indexed(p, s) \/ Interrupted(p, s)
    BY <1>1, <2>1 DEF NextKnowledgeBase, Indexed, Interrupted, TypeOK, history
  <2>2. CASE NoRunRecord(p, s) \/ Failed(p, s)
    BY <1>1, <2>2, Counted DEF NoRunRecord, Failed
  <2> QED
    BY <2>1, <2>2
<1>5. built' \in SUBSET KnowledgeBases
  <2>1. CASE Indexed(p, s)
    <3>1. runs[p][s].kb \in KnowledgeBases
      BY <2>1 DEF Indexed, IInv, Named
    <3> QED
      BY <1>1, <2>1, <3>1 DEF Indexed, TypeOK
  <2>2. CASE NextKnowledgeBase(p, s) \/ NoRunRecord(p, s) \/ Failed(p, s) \/ Interrupted(p, s)
    BY <1>1, <2>2 DEF NextKnowledgeBase, NoRunRecord, Failed, Interrupted, TypeOK
  <2> QED
    BY <2>1, <2>2
<1>6. outcome' \in [KnowledgeBases -> Outcomes]
  <2>1. outcome \in [KnowledgeBases -> Outcomes]
    BY <1>1 DEF TypeOK
  <2>2. \A k : \A how \in Outcomes : [outcome EXCEPT ![k] = how] \in [KnowledgeBases -> Outcomes]
    BY <2>1
  <2>3. {"none", "SUCCESS", "FAILURE", "INTERRUPTED"} \subseteq Outcomes
    BY DEF Outcomes
  <2>4. CASE NextKnowledgeBase(p, s)
    BY <2>1, <2>2, <2>3, <2>4 DEF NextKnowledgeBase
  <2>5. CASE NoRunRecord(p, s)
    BY <2>1, <2>5 DEF NoRunRecord
  <2>6. CASE Indexed(p, s)
    BY <2>2, <2>3, <2>6 DEF Indexed
  <2>7. CASE Failed(p, s)
    BY <2>1, <2>2, <2>3, <2>7 DEF Failed, RecordRunEnd
  <2>8. CASE Interrupted(p, s)
    BY <2>1, <2>2, <2>3, <2>8 DEF Interrupted, RecordRunEnd
  <2> QED
    BY <2>4, <2>5, <2>6, <2>7, <2>8
<1>7. ASSUME NEW k \in RunStates, runs' = [runs EXCEPT ![p][s] = k],
             k.at = "indexing" => k.kb \in KnowledgeBases
      PROVE  IInv'
  <2>1. answer' \in [Callers -> Answers] /\ served' \in SUBSET Callers
    BY <1>1, <1>2 DEF TypeOK
  <2>2. runs[p][s].at # "idle"
    BY <1>2 DEF Past
  <2> QED
    BY <1>2, <1>4, <1>5, <1>6, <1>7, <2>1, <2>2, GoesOn
<1>8. CASE Move(p, s, "unlocking")
  <2>1. runs' = [runs EXCEPT ![p][s] = [runs[p][s] EXCEPT !.at = "unlocking"]]
    BY <1>8 DEF Move
  <2>2. /\ [runs[p][s] EXCEPT !.at = "unlocking"] \in RunStates
        /\ [runs[p][s] EXCEPT !.at = "unlocking"].at = "unlocking"
    BY <1>1, MovedTyped
  <2> QED
    BY <1>7, <2>1, <2>2
<1>9. ASSUME NEW k \in KnowledgeBases, runs' = [runs EXCEPT ![p][s].todo = @ \ {k}], runs[p][s].at = "next"
      PROVE  IInv'
  <2> DEFINE r == [runs[p][s] EXCEPT !.todo = @ \ {k}]
  <2>1. runs' = [runs EXCEPT ![p][s] = r]
    BY <1>9
  <2>2. r \in RunStates /\ r.at = "next"
    BY <1>3, <1>9 DEF RunStates
  <2> HIDE DEF r
  <2> QED
    BY <1>7, <2>1, <2>2
<1>10. ASSUME NEW k \in KnowledgeBases,
              runs' = [runs EXCEPT ![p][s] = [runs[p][s] EXCEPT !.at = "indexing", !.kb = k, !.todo = @ \ {k}]]
       PROVE  IInv'
  <2> DEFINE r == [runs[p][s] EXCEPT !.at = "indexing", !.kb = k, !.todo = @ \ {k}]
  <2>1. runs' = [runs EXCEPT ![p][s] = r]
    BY <1>10
  <2>2. r \in RunStates /\ r.kb = k
    BY <1>3 DEF RunStates
  <2> HIDE DEF r
  <2> QED
    BY <1>7, <2>1, <2>2
<1>11. ASSUME NEW at \in {"next", "unlocking"}, runs' = [runs EXCEPT ![p][s] = [@ EXCEPT !.at = at, !.kb = None]]
       PROVE  IInv'
  <2> DEFINE r == [runs[p][s] EXCEPT !.at = at, !.kb = None]
  <2>1. runs' = [runs EXCEPT ![p][s] = r]
    BY <1>11
  <2>2. r \in RunStates /\ r.at # "indexing"
    BY <1>3 DEF RunStates
  <2> HIDE DEF r
  <2> QED
    BY <1>7, <2>1, <2>2
<1>12. runs[p][s].todo \subseteq KnowledgeBases
  BY <1>3 DEF RunStates
<1>13. CASE NextKnowledgeBase(p, s)
  <2>1. runs[p][s].at = "next"
    BY <1>13 DEF NextKnowledgeBase
  <2>2. \/ Move(p, s, "unlocking")
        \/ \E k \in runs[p][s].todo : runs' = [runs EXCEPT ![p][s].todo = @ \ {k}]
        \/ \E k \in runs[p][s].todo :
             runs' = [runs EXCEPT ![p][s] = [runs[p][s] EXCEPT !.at = "indexing", !.kb = k, !.todo = @ \ {k}]]
    BY <1>13 DEF NextKnowledgeBase
  <2> QED
    BY <1>8, <1>9, <1>10, <1>12, <2>1, <2>2
<1>14. CASE NoRunRecord(p, s)
  BY <1>8, <1>14 DEF NoRunRecord
<1>15. CASE Indexed(p, s)
  BY <1>11, <1>15 DEF Indexed
<1>16. CASE Failed(p, s)
  BY <1>11, <1>16 DEF Failed
<1>17. CASE Interrupted(p, s)
  BY <1>11, <1>17 DEF Interrupted
<1> QED
  BY <1>13, <1>14, <1>15, <1>16, <1>17

----------------------------------------------------------------------------
(* A run begins *)

\* CHOOSE finds a free slot when there is one.
LEMMA FreeSlot == ASSUME NEW p \in Pods, Active(p) # Slots PROVE Free(p) \in Slots /\ runs[p][Free(p)].at = "idle"
<1>1. \E s \in Slots : s \notin Active(p)
  BY DEF Active
<1>2. Free(p) \in Slots /\ Free(p) \notin Active(p)
  BY <1>1 DEF Free
<1> QED
  BY <1>2 DEF Active

\* A run on top of another is one of a pod that was called too early.
LEMMA LaunchInv ==
  ASSUME IInv, NEW p \in Pods, NEW request \in Requests, NEW listener \in Callers \cup {None},
         Launch(p, Free(p), request, listener), running[p] = None \/ p \in early',
         timer' = [timer EXCEPT ![p] = FALSE], life[p] # "starting" \/ p \in early',
         early \subseteq early', early' \in SUBSET Pods,
         UNCHANGED <<life, pending, awaited, lock, built, outcome, served, faults>>,
         answer' \in [Callers -> Answers]
  PROVE  IInv'
<1> DEFINE s == Free(p)
           k == Fresh(request, listener)
<1>1. s \in Slots /\ runs[p][s].at = "idle"
  BY FreeSlot DEF Launch
<1>2. k \in RunStates /\ k.at = "locking"
  BY FreshTyped
<1>3. runs' = [runs EXCEPT ![p][s] = k] /\ running' = [running EXCEPT ![p] = s] /\ abort' = [abort EXCEPT ![p] = s]
  BY DEF Launch
<1> HIDE DEF s, k
<1>4. /\ runs' \in [Pods -> [Slots -> RunStates]] /\ runs'[p][s] = k
      /\ \A q \in Pods, t \in Slots : <<q, t>> # <<p, s>> => runs'[q][t] = runs[q][t]
  <2>1. TypeOK
    BY DEF IInv
  <2>2. OnlyRun(p, s, k)
    BY <2>1, <1>1, <1>2, <1>3, Put
  <2> QED
    BY <2>2 DEF OnlyRun
<1>5. /\ running' \in [Pods -> Slots \cup {None}] /\ running'[p] = s
      /\ \A q \in Pods \ {p} : running'[q] = running[q]
      /\ abort' \in [Pods -> Slots \cup {None}]
  BY <1>1, <1>3 DEF IInv, TypeOK
<1>6. /\ timer' \in [Pods -> BOOLEAN] /\ ~timer'[p]
      /\ \A q \in Pods \ {p} : timer'[q] = timer[q]
  BY DEF IInv, TypeOK
<1>7. TypeOK'
  BY <1>4, <1>5, <1>6 DEF IInv, TypeOK
<1>8. OneIndexer' /\ Named'
  <2> SUFFICES ASSUME NEW q \in Pods, NEW t \in Slots, runs'[q][t].at \in {"next", "indexing", "unlocking"}
               PROVE  lock' = <<q, t>> /\ (runs'[q][t].at = "indexing" => runs'[q][t].kb \in KnowledgeBases)
    BY DEF OneIndexer, Named
  <2>1. <<q, t>> # <<p, s>>
    BY <1>2, <1>4
  <2> QED
    BY <1>4, <2>1 DEF IInv, OneIndexer, Named
<1>9. Returned'
  BY DEF IInv, Returned
<1>10. Chained'
  <2> SUFFICES ASSUME NEW q \in Pods \ early' PROVE ChainOf(q)' /\ AwaitedBy(q)'
    BY DEF Chained
  <2>1. ChainOf(q) /\ AwaitedBy(q)
    BY DEF IInv, Chained
  <2>2. CASE q # p
    <3>1. /\ \A t \in Slots : runs'[q][t] = runs[q][t]
          /\ timer'[q] = timer[q] /\ running'[q] = running[q] /\ awaited'[q] = awaited[q] /\ life'[q] = life[q]
      BY <1>4, <1>5, <1>6, <2>2
    <3> QED
      BY <2>1, <3>1 DEF ChainOf, AwaitedBy, Stopped
  <2>3. CASE q = p
    <3>1. running[p] = None /\ life[p] # "starting"
      BY <2>3
    <3>2. \A t \in Slots : runs[p][t].at = "idle"
      BY <2>1, <2>3, <3>1, LoopAssumption DEF ChainOf
    <3>3. \A t \in Slots \ {s} : runs'[p][t].at = "idle"
      BY <1>4, <3>2
    <3>4. ChainOf(p)'
      BY <1>2, <1>4, <1>5, <1>6, <3>1, <3>3 DEF ChainOf
    <3>5. AwaitedBy(p)'
      BY <1>2, <1>4, <3>3 DEF AwaitedBy, Past
    <3> QED
      BY <2>3, <3>4, <3>5
  <2> QED
    BY <2>2, <2>3
<1> QED
  BY <1>7, <1>8, <1>9, <1>10 DEF IInv

\* The armed run: the timer is only set between runs.
LEMMA TimerInv == ASSUME IInv, NEW p \in Pods, TimerFires(p) PROVE IInv'
<1>1. Scheduled \in Requests
  BY DEF Scheduled, Requests
<1>2. /\ timer[p] /\ Launch(p, Free(p), Scheduled, None) /\ timer' = [timer EXCEPT ![p] = FALSE]
      /\ UNCHANGED <<life, pending, awaited, lock, built, outcome, answer, served, early, faults>>
  BY DEF TimerFires, history
<1>3. p \notin early => running[p] = None /\ life[p] # "starting"
  BY <1>2 DEF IInv, Chained, ChainOf
<1>4. early' \in SUBSET Pods /\ answer' \in [Callers -> Answers]
  BY <1>2 DEF IInv, TypeOK
<1> QED
  BY <1>1, <1>2, <1>3, <1>4, LaunchInv

\* POST /reindex and document writes: queued behind a run, or cutting the wait short.
LEMMA TriggerInv == ASSUME IInv, NEW p \in Pods, NEW c \in Callers, Trigger(p, c) PROVE IInv'
<1>1. PICK kbs \in SUBSET KnowledgeBases, manual \in BOOLEAN :
        LET request == [kbs |-> kbs, manual |-> manual, callers |-> {c}]
        IN  Queue(p, c, request) \/ CutIn(p, c, request)
  BY DEF Trigger
<1> DEFINE request == [kbs |-> kbs, manual |-> manual, callers |-> {c}]
<1>2. request \in Requests
  BY DEF Requests
<1>3. Queue(p, c, request) \/ CutIn(p, c, request)
  BY <1>1
<1> HIDE DEF request
<1>4. /\ early' = IF life[p] = "starting" THEN early \cup {p} ELSE early
      /\ UNCHANGED <<life, awaited, lock, built, outcome, served, faults>>
  BY DEF Trigger
<1>5. early \subseteq early' /\ early' \in SUBSET Pods /\ (life[p] = "starting" => p \in early')
  BY <1>4 DEF IInv, TypeOK
<1>6. CASE Queue(p, c, request)
  <2>1. /\ pending' = [pending EXCEPT ![p] = Merge(@, request)] /\ answer' = [answer EXCEPT ![c] = "QUEUED"]
        /\ UNCHANGED <<timer, running, abort, runs>>
    BY <1>6 DEF Queue
  <2>2. Merge(pending[p], request) \in Requests
    BY <1>2 DEF Merge, Requests, IInv, TypeOK
  <2>3. pending' \in [Pods -> Requests]
    BY <2>1, <2>2 DEF IInv, TypeOK
  <2>4. answer' \in [Callers -> Answers]
    BY <2>1 DEF IInv, TypeOK, Answers
  <2>5. TypeOK'
    BY <1>4, <1>5, <2>1, <2>3, <2>4 DEF IInv, TypeOK
  <2>6. Named' /\ OneIndexer' /\ Returned'
    BY <1>4, <2>1 DEF IInv, Named, OneIndexer, Returned
  <2>7. Chained'
    BY <1>4, <1>5, <2>1 DEF IInv, Chained, ChainOf, AwaitedBy, Stopped
  <2> QED
    BY <2>5, <2>6, <2>7 DEF IInv
<1>7. CASE CutIn(p, c, request)
  <2>1. /\ running[p] = None /\ Launch(p, Free(p), request, c) /\ timer' = [timer EXCEPT ![p] = FALSE]
        /\ answer' = [answer EXCEPT ![c] = "waiting"] /\ UNCHANGED pending
    BY <1>7 DEF CutIn
  <2>2. answer' \in [Callers -> Answers]
    BY <2>1 DEF IInv, TypeOK, Answers
  <2> QED
    BY <1>2, <1>4, <1>5, <2>1, <2>2, LaunchInv
<1> QED
  BY <1>3, <1>6, <1>7

----------------------------------------------------------------------------
(* The pod *)

\* $onReady arms the first run, on top of none but an early one.
LEMMA ReadyInv == ASSUME IInv, NEW p \in Pods, Ready(p) PROVE IInv'
<1>1. /\ life[p] = "starting" /\ life' = [life EXCEPT ![p] = "ready"] /\ timer' = [timer EXCEPT ![p] = Enabled]
      /\ UNCHANGED <<running, abort, pending, awaited, runs, lock, built, outcome, answer, served, early, faults>>
  BY DEF Ready, history
<1>2. /\ life' \in [Pods -> {"starting", "ready", "stopping", "down"}] /\ life'[p] = "ready"
      /\ \A q \in Pods \ {p} : life'[q] = life[q]
  BY <1>1 DEF IInv, TypeOK
<1>3. timer' \in [Pods -> BOOLEAN] /\ \A q \in Pods \ {p} : timer'[q] = timer[q]
  BY <1>1, LoopAssumption DEF IInv, TypeOK
<1>4. TypeOK'
  BY <1>1, <1>2, <1>3 DEF IInv, TypeOK
<1>5. Named' /\ OneIndexer'
  BY <1>1 DEF IInv, Named, OneIndexer
<1>6. Returned'
  BY <1>1, <1>2 DEF IInv, Returned
<1>7. ASSUME NEW q \in Pods \ early' PROVE ChainOf(q)' /\ AwaitedBy(q)'
  <2>1. ChainOf(q) /\ AwaitedBy(q)
    BY <1>1 DEF IInv, Chained
  <2>2. CASE q = p
    BY <1>1, <1>2, <2>1, <2>2 DEF ChainOf, AwaitedBy, Stopped
  <2>3. CASE q # p
    <3>1. life'[q] = life[q] /\ timer'[q] = timer[q]
      BY <1>2, <1>3, <2>3
    <3> QED
      BY <1>1, <2>1, <3>1 DEF ChainOf, AwaitedBy, Stopped
  <2> QED
    BY <2>2, <2>3
<1> QED
  BY <1>4, <1>5, <1>6, <1>7 DEF IInv, Chained

\* $onDestroy awaits the run there is, and the signal is all its run hears of it.
LEMMA DestroyInv == ASSUME IInv, NEW p \in Pods, Destroy(p) PROVE IInv'
<1>1. /\ life[p] = "ready" /\ life' = [life EXCEPT ![p] = "stopping"] /\ timer' = [timer EXCEPT ![p] = FALSE]
      /\ runs' = IF abort[p] = None THEN runs ELSE [runs EXCEPT ![p][abort[p]].aborted = TRUE]
      /\ awaited' = [awaited EXCEPT ![p] = running[p]]
      /\ UNCHANGED <<running, abort, pending, lock, built, outcome, answer, served, early>>
  BY DEF Destroy, history
<1>2. /\ life' \in [Pods -> {"starting", "ready", "stopping", "down"}] /\ life'[p] = "stopping"
      /\ \A q \in Pods \ {p} : life'[q] = life[q]
  BY <1>1 DEF IInv, TypeOK
<1>3. timer' \in [Pods -> BOOLEAN] /\ ~timer'[p] /\ \A q \in Pods \ {p} : timer'[q] = timer[q]
  BY <1>1 DEF IInv, TypeOK
<1>4. /\ awaited' \in [Pods -> Slots \cup {None}] /\ awaited'[p] = running[p]
      /\ \A q \in Pods \ {p} : awaited'[q] = awaited[q]
  BY <1>1 DEF IInv, TypeOK
<1>5. faults' \in 0..MaxFaults
  BY LoopAssumption DEF Destroy, IInv, TypeOK
<1>6. /\ runs' \in [Pods -> [Slots -> RunStates]]
      /\ \A q \in Pods, t \in Slots : runs'[q][t].at = runs[q][t].at /\ runs'[q][t].kb = runs[q][t].kb
  <2>1. CASE abort[p] = None
    BY <1>1, <2>1 DEF IInv, TypeOK
  <2>2. CASE abort[p] # None
    <3> DEFINE s == abort[p]
               k == [runs[p][s] EXCEPT !.aborted = TRUE]
    <3>1. s \in Slots
      BY <2>2 DEF IInv, TypeOK
    <3>2. runs[p][s] \in RunStates
      BY <3>1 DEF IInv, TypeOK
    <3>3. k \in RunStates /\ k.at = runs[p][s].at /\ k.kb = runs[p][s].kb
      BY <3>2 DEF RunStates
    <3>4. runs' = [runs EXCEPT ![p][s] = k]
      BY <1>1, <2>2
    <3> HIDE DEF s, k
    <3>5. /\ runs' \in [Pods -> [Slots -> RunStates]] /\ runs'[p][s] = k
          /\ \A q \in Pods, t \in Slots : <<q, t>> # <<p, s>> => runs'[q][t] = runs[q][t]
      <4>1. TypeOK
        BY DEF IInv
      <4>2. OnlyRun(p, s, k)
        BY <4>1, <3>1, <3>3, <3>4, Put
      <4> QED
        BY <4>2 DEF OnlyRun
    <3> QED
      BY <3>3, <3>5
  <2> QED
    BY <2>1, <2>2
<1>7. TypeOK'
  BY <1>1, <1>2, <1>3, <1>4, <1>5, <1>6 DEF IInv, TypeOK
<1>8. Named' /\ OneIndexer'
  BY <1>1, <1>6 DEF IInv, Named, OneIndexer
<1>9. Returned'
  BY <1>2, <1>4 DEF IInv, Returned
<1>10. ASSUME NEW q \in Pods \ early' PROVE ChainOf(q)' /\ AwaitedBy(q)'
  <2>1. ChainOf(q) /\ AwaitedBy(q)
    BY <1>1 DEF IInv, Chained
  <2>2. CASE q = p
    <3>1. ChainOf(p)'
      BY <1>1, <1>2, <1>3, <1>6, <2>1, <2>2 DEF ChainOf
    <3>2. AwaitedBy(p)'
      BY <1>4, <1>6, <2>1, <2>2 DEF ChainOf, AwaitedBy, Past
    <3> QED
      BY <2>2, <3>1, <3>2
  <2>3. CASE q # p
    <3>1. life'[q] = life[q] /\ timer'[q] = timer[q] /\ awaited'[q] = awaited[q]
      BY <1>2, <1>3, <1>4, <2>3
    <3> QED
      BY <1>1, <1>6, <2>1, <3>1 DEF ChainOf, AwaitedBy, Stopped
  <2> QED
    BY <2>2, <2>3
<1> QED
  BY <1>7, <1>8, <1>9, <1>10 DEF IInv, Chained

\* The listeners close when the hook has returned.
LEMMA CloseInv == ASSUME IInv, NEW p \in Pods, Close(p) PROVE IInv'
<1>1. /\ life[p] = "stopping" /\ awaited[p] = None /\ life' = [life EXCEPT ![p] = "down"]
      /\ UNCHANGED <<timer, running, abort, pending, awaited, runs, lock, built, outcome, answer, served, early, faults>>
  BY DEF Close, history
<1>2. /\ life' \in [Pods -> {"starting", "ready", "stopping", "down"}] /\ life'[p] = "down"
      /\ \A q \in Pods \ {p} : life'[q] = life[q]
  BY <1>1 DEF IInv, TypeOK
<1>3. TypeOK'
  BY <1>1, <1>2 DEF IInv, TypeOK
<1>4. Named' /\ OneIndexer'
  BY <1>1 DEF IInv, Named, OneIndexer
<1>5. Returned'
  BY <1>1, <1>2 DEF IInv, Returned
<1>6. ASSUME NEW q \in Pods \ early' PROVE ChainOf(q)' /\ AwaitedBy(q)'
  <2>1. ChainOf(q) /\ AwaitedBy(q)
    BY <1>1 DEF IInv, Chained
  <2>2. Stopped(q)' => Stopped(q)
    BY <1>1, <1>2 DEF Stopped
  <2>3. life'[q] = "starting" => life[q] = "starting"
    BY <1>2
  <2> QED
    BY <1>1, <2>1, <2>2, <2>3 DEF ChainOf, AwaitedBy
<1> QED
  BY <1>3, <1>4, <1>5, <1>6 DEF IInv, Chained

\* A new process, after a crash or in place of one that is down.
LEMMA RebornInv == ASSUME IInv, NEW p \in Pods, Replace(p) \/ Crash(p) PROVE IInv'
<1>1. Reborn(p)
  BY DEF Replace, Crash
<1>2. faults' \in 0..MaxFaults
  BY LoopAssumption DEF Replace, Crash, IInv, TypeOK
<1>3. /\ life' \in [Pods -> {"starting", "ready", "stopping", "down"}] /\ life'[p] = "starting"
      /\ \A q \in Pods \ {p} : life'[q] = life[q]
  BY <1>1 DEF Reborn, IInv, TypeOK
<1>4. timer' \in [Pods -> BOOLEAN] /\ ~timer'[p] /\ \A q \in Pods \ {p} : timer'[q] = timer[q]
  BY <1>1 DEF Reborn, IInv, TypeOK
<1>5. /\ running' \in [Pods -> Slots \cup {None}] /\ running'[p] = None
      /\ \A q \in Pods \ {p} : running'[q] = running[q]
  BY <1>1 DEF Reborn, IInv, TypeOK
<1>6. abort' \in [Pods -> Slots \cup {None}]
  BY <1>1 DEF Reborn, IInv, TypeOK
<1>7. pending' \in [Pods -> Requests]
  BY <1>1, IdleTyped DEF Reborn, IInv, TypeOK
<1>8. /\ awaited' \in [Pods -> Slots \cup {None}]
      /\ \A q \in Pods \ {p} : awaited'[q] = awaited[q]
  BY <1>1 DEF Reborn, IInv, TypeOK
<1>9. /\ runs' \in [Pods -> [Slots -> RunStates]]
      /\ \A t \in Slots : runs'[p][t] = Idle
      /\ \A q \in Pods \ {p} : runs'[q] = runs[q]
  <2>1. [s \in Slots |-> Idle] \in [Slots -> RunStates]
    BY IdleTyped
  <2>2. runs \in [Pods -> [Slots -> RunStates]] /\ runs' = [runs EXCEPT ![p] = [s \in Slots |-> Idle]]
    BY <1>1 DEF Reborn, IInv, TypeOK
  <2> QED
    BY <2>1, <2>2
<1>10. lock' \in (Pods \X Slots) \cup {None}
  BY <1>1 DEF Reborn, IInv, TypeOK
<1>11. answer' \in [Callers -> Answers]
  <2>1. answer \in [Callers -> Answers] /\ "error" \in Answers
    BY DEF IInv, TypeOK, Answers
  <2> QED
    BY <1>1, <2>1 DEF Reborn
<1>12. early' = early \ {p} /\ UNCHANGED <<built, outcome, served>>
  BY <1>1 DEF Reborn
<1>13. TypeOK'
  BY <1>2, <1>3, <1>4, <1>5, <1>6, <1>7, <1>8, <1>9, <1>10, <1>11, <1>12 DEF IInv, TypeOK
<1>14. OneIndexer' /\ Named'
  <2> SUFFICES ASSUME NEW q \in Pods, NEW t \in Slots, runs'[q][t].at \in {"next", "indexing", "unlocking"}
               PROVE  lock' = <<q, t>> /\ (runs'[q][t].at = "indexing" => runs'[q][t].kb \in KnowledgeBases)
    BY DEF OneIndexer, Named
  <2>1. q # p
    BY <1>9, IdleTyped
  <2>2. runs'[q][t] = runs[q][t]
    BY <1>9, <2>1
  <2>3. lock = <<q, t>> /\ (runs[q][t].at = "indexing" => runs[q][t].kb \in KnowledgeBases)
    BY <2>2 DEF IInv, OneIndexer, Named
  <2>4. lock' = lock
    BY <1>1, <2>1, <2>3 DEF Reborn
  <2> QED
    BY <2>2, <2>3, <2>4
<1>15. Returned'
  BY <1>3, <1>8 DEF IInv, Returned
<1>16. ASSUME NEW q \in Pods \ early' PROVE ChainOf(q)' /\ AwaitedBy(q)'
  <2>1. CASE q = p
    <3>1. \A t \in Slots : runs'[p][t].at = "idle"
      BY <1>9, IdleTyped
    <3> QED
      BY <1>4, <1>5, <2>1, <3>1 DEF ChainOf, AwaitedBy, Past
  <2>2. CASE q # p
    <3>1. ChainOf(q) /\ AwaitedBy(q)
      BY <1>12, <2>2 DEF IInv, Chained
    <3>2. /\ life'[q] = life[q] /\ timer'[q] = timer[q] /\ awaited'[q] = awaited[q] /\ running'[q] = running[q]
          /\ runs'[q] = runs[q]
      BY <1>3, <1>4, <1>5, <1>8, <1>9, <2>2
    <3> QED
      BY <3>1, <3>2 DEF ChainOf, AwaitedBy, Stopped
  <2> QED
    BY <2>1, <2>2
<1> QED
  BY <1>13, <1>14, <1>15, <1>16 DEF IInv, Chained

----------------------------------------------------------------------------
\* All pods start with nothing running and nothing armed.
LEMMA InitInv == Init => IInv
<1> SUFFICES ASSUME Init PROVE IInv
  OBVIOUS
<1>1. \A p \in Pods : \A s \in Slots : runs[p][s].at = "idle"
  BY IdleTyped DEF Init
<1>2. TypeOK
  BY IdleTyped, LoopAssumption DEF Init, TypeOK, Outcomes, Answers
<1>3. Named /\ OneIndexer /\ Returned
  BY <1>1 DEF Init, Named, OneIndexer, Returned
<1>4. Chained
  BY <1>1 DEF Init, Chained, ChainOf, AwaitedBy, Past
<1> QED
  BY <1>2, <1>3, <1>4 DEF IInv

\* Every step of every pod and run keeps the invariant.
LEMMA StepInv == IInv /\ [Next]_vars => IInv'
<1> SUFFICES ASSUME IInv, [Next]_vars PROVE IInv'
  OBVIOUS
<1>1. CASE UNCHANGED vars
  BY <1>1 DEF vars, podVars, history, IInv, TypeOK, Named, OneIndexer, Returned, Chained, ChainOf, AwaitedBy, Stopped
<1>2. ASSUME NEW p \in Pods,
             Ready(p) \/ TimerFires(p) \/ Destroy(p) \/ Close(p) \/ Replace(p) \/ Crash(p)
      PROVE  IInv'
  BY <1>2, ReadyInv, TimerInv, DestroyInv, CloseInv, RebornInv
<1>3. ASSUME NEW p \in Pods, NEW c \in Callers, Trigger(p, c) PROVE IInv'
  BY <1>3, TriggerInv
<1>4. ASSUME NEW p \in Pods, NEW s \in Slots, RunStep(p, s) PROVE IInv'
  BY <1>4, TakeLockInv, EndsInv, RunsOn DEF RunStep
<1> QED
  BY <1>1, <1>2, <1>3, <1>4 DEF Next

\* A pod nobody called too early has no run but the one it remembers.
LEMMA Overlaps == IInv => NeverOverlap
<1> SUFFICES ASSUME IInv, NEW p \in Pods \ early PROVE Cardinality(Active(p)) <= 1
  BY DEF NeverOverlap
<1>1. \A s, t \in Active(p) : s = t
  BY DEF IInv, Chained, ChainOf, Active
<1>2. CASE Active(p) = {}
  BY <1>2, FS_EmptySet
<1>3. CASE Active(p) # {}
  <2>1. PICK s \in Active(p) : Active(p) = {s}
    BY <1>1, <1>3
  <2>2. Cardinality(Active(p)) = 1
    BY <2>1, FS_Singleton
  <2> QED
    BY <2>2
<1> QED
  BY <1>2, <1>3

\* $onDestroy of such a pod has awaited the run past the lock, if there was one.
LEMMA Quiet == IInv => DownIsQuiet
<1> SUFFICES ASSUME IInv, NEW p \in Pods \ early, life[p] = "down", NEW s \in Slots
             PROVE  runs[p][s].at \in {"idle", "locking"}
  BY DEF DownIsQuiet
<1>1. awaited[p] = None /\ s # None
  BY LoopAssumption DEF IInv, Returned
<1>2. runs[p][s].at \notin Past
  BY <1>1 DEF IInv, Chained, AwaitedBy, Stopped
<1>3. runs[p][s].at \in {"idle", "locking", "next", "indexing", "unlocking"}
  BY DEF IInv, TypeOK, RunStates
<1> QED
  BY <1>2, <1>3 DEF Past

\* Every variable of the loop holds what IndexingLoopService can put in it.
THEOREM TypeCorrect == Spec => []TypeOK
<1>1. IInv => TypeOK
  BY DEF IInv
<1> QED
  BY <1>1, InitInv, StepInv, PTL DEF Spec

\* One indexer over all pods, one run at a time in a pod nobody called before $onReady, none in such a
\* pod once it is down: whatever the number of pods, knowledge bases, callers and faults.
THEOREM OneRun == Spec => []OneRunAtATime
<1>1. IInv => OneRunAtATime
  BY Overlaps, Quiet DEF IInv, OneRunAtATime
<1> QED
  BY <1>1, InitInv, StepInv, PTL DEF Spec

----------------------------------------------------------------------------
(* IndexingLoop: what is queued stays queued *)

\* Until the first fault no pod stops, the lock is that of a run past it, and such a run has taken its callers up.
Unstopped == \A p \in Pods : life[p] \in {"starting", "ready"}
HeldByRun == \A p \in Pods, s \in Slots : lock = <<p, s>> => runs[p][s].at \in Past
TakenUp == \A p \in Pods, s \in Slots : runs[p][s].at \in Past => runs[p][s].request.callers \subseteq served
Kept == Unstopped /\ HeldByRun /\ TakenUp

KInv == faults = 0 => Kept

\* Whoever was held is still, or was taken up, or its run found another indexing; only a queue says QUEUED.
Keeps(c) ==
  /\ answer'[c] = "QUEUED" => answer[c] = "QUEUED"
  /\ Held(c) => Held(c)' \/ c \in served' \/ Beaten(c)

\* QueuedIsKept for one caller.
QueuedKept(c) ==
  faults' = 0 /\ answer'[c] = "QUEUED" /\ c \notin served' /\ ~Held(c)'
    => Beaten(c) \/ (answer[c] = "QUEUED" /\ ~Held(c))

LEMMA KeepsQueued == ASSUME NEW c \in Callers, Keeps(c) PROVE QueuedKept(c)
BY DEF Keeps, QueuedKept

\* Faults are only ever added.
LEMMA NoFaultYet ==
  ASSUME TypeOK, Next, faults' = 0
  PROVE  faults = 0
<1>1. faults \in Nat
  BY LoopAssumption DEF TypeOK
<1>2. ASSUME NEW p \in Pods, Ready(p) \/ TimerFires(p) \/ Destroy(p) \/ Close(p) \/ Replace(p) \/ Crash(p)
      PROVE  faults' \in {faults, faults + 1}
  BY <1>2 DEF Ready, TimerFires, Destroy, Close, Replace, Crash
<1>3. ASSUME NEW p \in Pods, NEW c \in Callers, Trigger(p, c) PROVE faults' \in {faults, faults + 1}
  BY <1>3 DEF Trigger
<1>4. ASSUME NEW p \in Pods, NEW s \in Slots, RunStep(p, s) PROVE faults' \in {faults, faults + 1}
  <2>1. CASE TakeLock(p, s) \/ Skip(p, s) \/ Unlock(p, s)
    BY <2>1 DEF TakeLock, Skip, Unlock
  <2>2. CASE NextKnowledgeBase(p, s) \/ Indexed(p, s) \/ Interrupted(p, s)
    BY <2>2 DEF NextKnowledgeBase, Indexed, Interrupted
  <2>3. CASE NoDatabase(p, s) \/ NoRunRecord(p, s) \/ Failed(p, s)
    BY <2>3 DEF NoDatabase, NoRunRecord, Failed, Refused
  <2> QED
    BY <1>4, <2>1, <2>2, <2>3 DEF RunStep
<1>5. faults' \in {faults, faults + 1}
  BY <1>2, <1>3, <1>4 DEF Next
<1> QED
  BY <1>1, <1>5

\* What start takes over from the request.
LEMMA FreshOf ==
  ASSUME NEW request \in Requests, NEW listener \in Callers \cup {None}
  PROVE  Fresh(request, listener).request = request
<1>1. Idle \in RunStates
  BY IdleTyped
<1> QED
  BY <1>1 DEF Fresh, RunStates

\* A run that has or takes the lock goes on with its request.
LEMMA MovesKept ==
  ASSUME TypeOK, Kept, NEW p \in Pods, NEW s \in Slots, NEW k \in RunStates, OnlyRun(p, s, k),
         k.request = runs[p][s].request, k.at \in Past,
         UNCHANGED <<life, pending>>, lock' \in {lock, <<p, s>>}, lock \in {None, <<p, s>>},
         served \subseteq served', k.request.callers \subseteq served'
  PROVE  Kept' /\ \A c \in Callers : Held(c) => Held(c)'
<1>1. /\ runs'[p][s] = k
      /\ \A q \in Pods, t \in Slots : <<q, t>> # <<p, s>> => runs'[q][t] = runs[q][t]
  BY DEF OnlyRun
<1>2. Unstopped'
  BY DEF Kept, Unstopped
<1>3. HeldByRun'
  <2> SUFFICES ASSUME NEW q \in Pods, NEW t \in Slots, lock' = <<q, t>> PROVE runs'[q][t].at \in Past
    BY DEF HeldByRun
  <2>1. <<q, t>> = <<p, s>>
    BY LoopAssumption
  <2>2. runs'[q][t] = k
    BY <1>1, <2>1
  <2> QED
    BY <2>2
<1>4. TakenUp'
  <2> SUFFICES ASSUME NEW q \in Pods, NEW t \in Slots, runs'[q][t].at \in Past
               PROVE  runs'[q][t].request.callers \subseteq served'
    BY DEF TakenUp
  <2>1. CASE <<q, t>> = <<p, s>>
    BY <1>1, <2>1
  <2>2. CASE <<q, t>> # <<p, s>>
    BY <1>1, <2>2 DEF Kept, TakenUp
  <2> QED
    BY <2>1, <2>2
<1>5. ASSUME NEW c \in Callers, Held(c) PROVE Held(c)'
  <2>1. PICK q \in Pods : c \in pending[q].callers \/ \E t \in Active(q) : c \in runs[q][t].request.callers
    BY <1>5 DEF Held
  <2>2. CASE c \in pending[q].callers
    BY <2>2 DEF Held
  <2>3. ASSUME NEW t \in Active(q), c \in runs[q][t].request.callers PROVE Held(c)'
    <3>1. t \in Slots /\ runs[q][t].at # "idle"
      BY DEF Active
    <3>2. runs'[q][t].at # "idle" /\ c \in runs'[q][t].request.callers
      <4>1. CASE <<q, t>> = <<p, s>>
        BY <1>1, <2>3, <4>1 DEF Past
      <4>2. CASE <<q, t>> # <<p, s>>
        BY <1>1, <2>3, <3>1, <4>2
      <4> QED
        BY <4>1, <4>2
    <3>3. t \in Active(q)'
      BY <3>1, <3>2 DEF Active
    <3> QED
      BY <3>2, <3>3 DEF Held
  <2> QED
    BY <2>1, <2>2, <2>3
<1> QED
  BY <1>2, <1>3, <1>4, <1>5 DEF Kept

\* A run that begins takes the place of none.
LEMMA LaunchKept ==
  ASSUME TypeOK, Kept, NEW p \in Pods, NEW request \in Requests, NEW listener \in Callers \cup {None},
         Launch(p, Free(p), request, listener), UNCHANGED <<life, pending, lock, served>>
  PROVE  Kept' /\ \A c \in Callers : Held(c) => Held(c)'
<1> DEFINE s == Free(p)
           k == Fresh(request, listener)
<1>1. s \in Slots /\ runs[p][s].at = "idle"
  BY FreeSlot DEF Launch
<1>2. k \in RunStates /\ k.at = "locking"
  BY FreshTyped
<1>3. runs' = [runs EXCEPT ![p][s] = k]
  BY DEF Launch
<1> HIDE DEF s, k
<1>4. OnlyRun(p, s, k)
  BY <1>1, <1>2, <1>3, Put
<1>5. /\ runs'[p][s] = k
      /\ \A q \in Pods, t \in Slots : <<q, t>> # <<p, s>> => runs'[q][t] = runs[q][t]
  BY <1>4 DEF OnlyRun
<1>6. Unstopped'
  BY DEF Kept, Unstopped
<1>7. HeldByRun'
  <2> SUFFICES ASSUME NEW q \in Pods, NEW t \in Slots, lock' = <<q, t>> PROVE runs'[q][t].at \in Past
    BY DEF HeldByRun
  <2>1. runs[q][t].at \in Past
    BY DEF Kept, HeldByRun
  <2>2. <<q, t>> # <<p, s>>
    BY <1>1, <2>1 DEF Past
  <2> QED
    BY <1>5, <2>1, <2>2
<1>8. TakenUp'
  <2> SUFFICES ASSUME NEW q \in Pods, NEW t \in Slots, runs'[q][t].at \in Past
               PROVE  runs'[q][t].request.callers \subseteq served'
    BY DEF TakenUp
  <2>1. <<q, t>> # <<p, s>>
    BY <1>2, <1>5 DEF Past
  <2> QED
    BY <1>5, <2>1 DEF Kept, TakenUp
<1>9. ASSUME NEW c \in Callers, Held(c) PROVE Held(c)'
  <2>1. PICK q \in Pods : c \in pending[q].callers \/ \E t \in Active(q) : c \in runs[q][t].request.callers
    BY <1>9 DEF Held
  <2>2. CASE c \in pending[q].callers
    BY <2>2 DEF Held
  <2>3. ASSUME NEW t \in Active(q), c \in runs[q][t].request.callers PROVE Held(c)'
    <3>1. t \in Slots /\ runs[q][t].at # "idle"
      BY DEF Active
    <3>2. runs'[q][t] = runs[q][t]
      <4>1. <<q, t>> # <<p, s>>
        BY <1>1, <3>1
      <4> QED
        BY <1>5, <3>1, <4>1
    <3>3. t \in Active(q)'
      BY <3>1, <3>2 DEF Active
    <3> QED
      BY <2>3, <3>2, <3>3 DEF Held
  <2> QED
    BY <2>1, <2>2, <2>3
<1> QED
  BY <1>6, <1>7, <1>8, <1>9 DEF Kept

\* A run that ends leaves its own callers, and takes over those that are queued.
LEMMA SettleKept ==
  ASSUME TypeOK, Kept, NEW p \in Pods, NEW s \in Slots, Settle(p, s), UNCHANGED <<life, served>>,
         \/ UNCHANGED lock /\ runs[p][s].at = "locking"
         \/ lock' = None
  PROVE  Kept' /\ \A c \in Callers : Held(c) => Held(c)' \/ c \in runs[p][s].request.callers
<1>1. /\ pending[p] \in Requests /\ pending \in [Pods -> Requests] /\ ~Stopped(p)
  BY DEF TypeOK, Kept, Unstopped, Stopped
<1>2. /\ Fresh(pending[p], None) \in RunStates /\ Fresh(pending[p], None).at = "locking"
      /\ Fresh(pending[p], None).request = pending[p]
  BY <1>1, FreshTyped, FreshOf
<1>3. PICK k \in RunStates :
        /\ runs' = [runs EXCEPT ![p][s] = k] /\ k.at \in {"idle", "locking"}
        /\ \/ k.at = "locking" /\ k.request = pending[p] /\ pending' = [pending EXCEPT ![p] = NoRequest]
           \/ UNCHANGED pending
  <2>1. CASE /\ runs' = [runs EXCEPT ![p][s] = Fresh(pending[p], None)]
             /\ pending' = [pending EXCEPT ![p] = NoRequest]
    BY <1>2, <2>1
  <2>2. CASE runs' = [runs EXCEPT ![p][s] = Idle] /\ UNCHANGED pending
    BY <2>2, IdleTyped
  <2> QED
    BY <1>1, <2>1, <2>2 DEF Settle
<1>4. OnlyRun(p, s, k)
  BY <1>3, Put
<1>5. /\ runs'[p][s] = k
      /\ \A q \in Pods, t \in Slots : <<q, t>> # <<p, s>> => runs'[q][t] = runs[q][t]
  BY <1>4 DEF OnlyRun
<1>6. Unstopped'
  BY DEF Kept, Unstopped
<1>7. HeldByRun'
  <2> SUFFICES ASSUME NEW q \in Pods, NEW t \in Slots, lock' = <<q, t>> PROVE runs'[q][t].at \in Past
    BY DEF HeldByRun
  <2>1. lock' # None
    BY LoopAssumption
  <2>2. runs[q][t].at \in Past /\ runs[p][s].at = "locking"
    BY <2>1 DEF Kept, HeldByRun
  <2>3. <<q, t>> # <<p, s>>
    BY <2>2 DEF Past
  <2> QED
    BY <1>5, <2>2, <2>3
<1>8. TakenUp'
  <2> SUFFICES ASSUME NEW q \in Pods, NEW t \in Slots, runs'[q][t].at \in Past
               PROVE  runs'[q][t].request.callers \subseteq served'
    BY DEF TakenUp
  <2>1. <<q, t>> # <<p, s>>
    BY <1>3, <1>5 DEF Past
  <2> QED
    BY <1>5, <2>1 DEF Kept, TakenUp
<1>9. ASSUME NEW c \in Callers, Held(c), c \notin runs[p][s].request.callers PROVE Held(c)'
  <2>1. PICK q \in Pods : c \in pending[q].callers \/ \E t \in Active(q) : c \in runs[q][t].request.callers
    BY <1>9 DEF Held
  <2>2. CASE c \in pending[q].callers
    <3>1. CASE c \in pending'[q].callers
      BY <3>1 DEF Held
    <3>2. CASE c \notin pending'[q].callers
      <4>1. k.at = "locking" /\ k.request = pending[p] /\ q = p
        BY <1>1, <1>3, <2>2, <3>2
      <4>2. c \in runs'[p][s].request.callers /\ s \in Active(p)'
        BY <1>5, <2>2, <4>1 DEF Active
      <4> QED
        BY <4>2 DEF Held
    <3> QED
      BY <3>1, <3>2
  <2>3. ASSUME NEW t \in Active(q), c \in runs[q][t].request.callers PROVE Held(c)'
    <3>1. t \in Slots /\ runs[q][t].at # "idle"
      BY DEF Active
    <3>2. runs'[q][t] = runs[q][t]
      <4>1. <<q, t>> # <<p, s>>
        BY <1>9, <2>3
      <4> QED
        BY <1>5, <3>1, <4>1
    <3>3. t \in Active(q)'
      BY <3>1, <3>2 DEF Active
    <3> QED
      BY <2>3, <3>2, <3>3 DEF Held
  <2> QED
    BY <2>1, <2>2, <2>3
<1> QED
  BY <1>6, <1>7, <1>8, <1>9 DEF Kept

\* A run tells its listener something else than QUEUED.
LEMMA ToldNotQueued ==
  ASSUME TypeOK, NEW p \in Pods, NEW s \in Slots, NEW how, how # "QUEUED", Tell(p, s, how), NEW c \in Callers,
         answer'[c] = "QUEUED"
  PROVE  answer[c] = "QUEUED"
BY DEF Tell, TypeOK

----------------------------------------------------------------------------
\* pg_try_advisory_lock says yes: its callers are taken up.
LEMMA TakeLockKept ==
  ASSUME IInv, Kept, NEW p \in Pods, NEW s \in Slots, TakeLock(p, s)
  PROVE  Kept' /\ \A c \in Callers : Keeps(c)
<1>1. TypeOK
  BY DEF IInv
<1> DEFINE k == [runs[p][s] EXCEPT !.at = "next"]
<1>2. k \in RunStates /\ k.at = "next" /\ k.request = runs[p][s].request
  <2>1. runs[p][s] \in RunStates
    BY <1>1 DEF TypeOK
  <2> QED
    BY <2>1 DEF RunStates
<1>3. runs' = [runs EXCEPT ![p][s] = k]
  BY DEF TakeLock, Move
<1> HIDE DEF k
<1>4. OnlyRun(p, s, k)
  BY <1>1, <1>2, <1>3, Put
<1>5. /\ lock = None /\ lock' = <<p, s>> /\ UNCHANGED <<life, pending>>
      /\ served' = served \cup runs[p][s].request.callers /\ Tell(p, s, "STARTED")
  BY DEF TakeLock
<1>6. Kept' /\ \A c \in Callers : Held(c) => Held(c)'
  BY <1>1, <1>2, <1>4, <1>5, MovesKept DEF Past
<1>7. \A c \in Callers : answer'[c] = "QUEUED" => answer[c] = "QUEUED"
  BY <1>1, <1>5, ToldNotQueued
<1> QED
  BY <1>6, <1>7 DEF Keeps

\* It says no: another pod's run has the lock, or an overlapping one of this pod.
LEMMA SkipKept ==
  ASSUME IInv, Kept, NEW p \in Pods, NEW s \in Slots, Skip(p, s)
  PROVE  Kept' /\ \A c \in Callers : Keeps(c)
<1>1. TypeOK
  BY DEF IInv
<1>2. /\ runs[p][s].at = "locking" /\ lock # None /\ Tell(p, s, "SKIPPED") /\ Settle(p, s)
      /\ UNCHANGED <<life, lock, served>>
  BY DEF Skip, history
<1>3. Kept' /\ \A c \in Callers : Held(c) => Held(c)' \/ c \in runs[p][s].request.callers
  BY <1>1, <1>2, SettleKept
<1>4. PICK q \in Pods, t \in Slots : lock = <<q, t>>
  BY <1>1, <1>2 DEF TypeOK
<1>5. p # q \/ p \in early
  <2> SUFFICES ASSUME p = q, p \notin early PROVE FALSE
    OBVIOUS
  <2>1. runs[p][t].at \in Past
    BY <1>4 DEF Kept, HeldByRun
  <2>2. running[p] = t /\ running[p] = s
    BY <1>2, <2>1 DEF IInv, Chained, ChainOf, Past
  <2> QED
    BY <1>2, <2>1, <2>2 DEF Past
<1>6. s \in Active(p)
  BY <1>2 DEF Active
<1>7. \A c \in Callers : c \in runs[p][s].request.callers => Beaten(c)
  BY <1>4, <1>5, <1>6 DEF Beaten
<1>8. \A c \in Callers : answer'[c] = "QUEUED" => answer[c] = "QUEUED"
  BY <1>1, <1>2, ToldNotQueued
<1> QED
  BY <1>3, <1>7, <1>8 DEF Keeps

\* The run is over: its callers were taken up long before.
LEMMA UnlockKept ==
  ASSUME IInv, Kept, NEW p \in Pods, NEW s \in Slots, Unlock(p, s)
  PROVE  Kept' /\ \A c \in Callers : Keeps(c)
<1>1. TypeOK
  BY DEF IInv
<1>2. /\ runs[p][s].at = "unlocking" /\ lock' = None /\ Settle(p, s) /\ UNCHANGED <<life, answer, served>>
  BY DEF Unlock, history
<1>3. Kept' /\ \A c \in Callers : Held(c) => Held(c)' \/ c \in runs[p][s].request.callers
  BY <1>1, <1>2, SettleKept
<1>4. runs[p][s].request.callers \subseteq served'
  BY <1>2 DEF Kept, TakenUp, Past
<1> QED
  BY <1>2, <1>3, <1>4 DEF Keeps

\* The run under the lock goes on: nothing of its request changes.
LEMMA RunsOnKept ==
  ASSUME IInv, Kept, NEW p \in Pods, NEW s \in Slots, faults' = 0,
         NextKnowledgeBase(p, s) \/ NoRunRecord(p, s) \/ Indexed(p, s) \/ Failed(p, s) \/ Interrupted(p, s)
  PROVE  Kept' /\ \A c \in Callers : Keeps(c)
<1>1. TypeOK
  BY DEF IInv
<1>2. /\ runs[p][s].at \in Past /\ UNCHANGED <<life, pending, lock, answer, served>>
  BY DEF NextKnowledgeBase, NoRunRecord, Indexed, Failed, Interrupted, Past, history
<1>3. runs[p][s] \in RunStates
  BY <1>1 DEF TypeOK
<1>4. ASSUME NEW k \in RunStates, runs' = [runs EXCEPT ![p][s] = k], k.request = runs[p][s].request, k.at \in Past
      PROVE  Kept' /\ \A c \in Callers : Keeps(c)
  <2>1. OnlyRun(p, s, k)
    BY <1>1, <1>4, Put
  <2>2. lock = <<p, s>> /\ runs[p][s].request.callers \subseteq served
    BY <1>2 DEF IInv, OneIndexer, Kept, TakenUp, Past
  <2>3. Kept' /\ \A c \in Callers : Held(c) => Held(c)'
    BY <1>1, <1>2, <1>4, <2>1, <2>2, MovesKept
  <2> QED
    BY <1>2, <2>3 DEF Keeps
<1>5. CASE Move(p, s, "unlocking")
  <2> DEFINE r == [runs[p][s] EXCEPT !.at = "unlocking"]
  <2>1. runs' = [runs EXCEPT ![p][s] = r]
    BY <1>5 DEF Move
  <2>2. r \in RunStates /\ r.at \in Past /\ r.request = runs[p][s].request
    BY <1>3 DEF RunStates, Past
  <2> HIDE DEF r
  <2> QED
    BY <1>4, <2>1, <2>2
<1>6. ASSUME NEW k \in KnowledgeBases, runs' = [runs EXCEPT ![p][s].todo = @ \ {k}]
      PROVE  Kept' /\ \A c \in Callers : Keeps(c)
  <2> DEFINE r == [runs[p][s] EXCEPT !.todo = @ \ {k}]
  <2>1. runs' = [runs EXCEPT ![p][s] = r]
    BY <1>6
  <2>2. r \in RunStates /\ r.at = runs[p][s].at /\ r.request = runs[p][s].request
    BY <1>3 DEF RunStates
  <2> HIDE DEF r
  <2> QED
    BY <1>2, <1>4, <2>1, <2>2
<1>7. ASSUME NEW k \in KnowledgeBases,
             runs' = [runs EXCEPT ![p][s] = [runs[p][s] EXCEPT !.at = "indexing", !.kb = k, !.todo = @ \ {k}]]
      PROVE  Kept' /\ \A c \in Callers : Keeps(c)
  <2> DEFINE r == [runs[p][s] EXCEPT !.at = "indexing", !.kb = k, !.todo = @ \ {k}]
  <2>1. runs' = [runs EXCEPT ![p][s] = r]
    BY <1>7
  <2>2. r \in RunStates /\ r.at \in Past /\ r.request = runs[p][s].request
    BY <1>3 DEF RunStates, Past
  <2> HIDE DEF r
  <2> QED
    BY <1>4, <2>1, <2>2
<1>8. ASSUME NEW at \in {"next", "unlocking"}, runs' = [runs EXCEPT ![p][s] = [@ EXCEPT !.at = at, !.kb = None]]
      PROVE  Kept' /\ \A c \in Callers : Keeps(c)
  <2> DEFINE r == [runs[p][s] EXCEPT !.at = at, !.kb = None]
  <2>1. runs' = [runs EXCEPT ![p][s] = r]
    BY <1>8
  <2>2. r \in RunStates /\ r.at \in Past /\ r.request = runs[p][s].request
    BY <1>3 DEF RunStates, Past
  <2> HIDE DEF r
  <2> QED
    BY <1>4, <2>1, <2>2
<1>9. runs[p][s].todo \subseteq KnowledgeBases
  BY <1>3 DEF RunStates
<1>10. CASE NextKnowledgeBase(p, s)
  <2>1. \/ Move(p, s, "unlocking")
        \/ \E k \in runs[p][s].todo : runs' = [runs EXCEPT ![p][s].todo = @ \ {k}]
        \/ \E k \in runs[p][s].todo :
             runs' = [runs EXCEPT ![p][s] = [runs[p][s] EXCEPT !.at = "indexing", !.kb = k, !.todo = @ \ {k}]]
    BY <1>10 DEF NextKnowledgeBase
  <2> QED
    BY <1>5, <1>6, <1>7, <1>9, <2>1
<1>11. CASE NoRunRecord(p, s)
  BY <1>5, <1>11 DEF NoRunRecord
<1>12. CASE Indexed(p, s)
  BY <1>8, <1>12 DEF Indexed
<1>13. CASE Failed(p, s)
  BY <1>8, <1>13 DEF Failed
<1>14. CASE Interrupted(p, s)
  BY <1>8, <1>14 DEF Interrupted
<1> QED
  BY <1>10, <1>11, <1>12, <1>13, <1>14

\* A call is queued behind the run in progress, or cuts the wait short: what was queued stays.
LEMMA TriggerKept ==
  ASSUME IInv, Kept, NEW p \in Pods, NEW d \in Callers, Trigger(p, d)
  PROVE  Kept' /\ \A c \in Callers : QueuedKept(c)
<1>1. TypeOK
  BY DEF IInv
<1>2. PICK kbs \in SUBSET KnowledgeBases, manual \in BOOLEAN :
        LET request == [kbs |-> kbs, manual |-> manual, callers |-> {d}]
        IN  Queue(p, d, request) \/ CutIn(p, d, request)
  BY DEF Trigger
<1> DEFINE request == [kbs |-> kbs, manual |-> manual, callers |-> {d}]
<1>3. request \in Requests /\ request.callers = {d}
  BY DEF Requests
<1>4. Queue(p, d, request) \/ CutIn(p, d, request)
  BY <1>2
<1> HIDE DEF request
<1>5. UNCHANGED <<life, lock, served>>
  BY DEF Trigger
<1>6. CASE Queue(p, d, request)
  <2>1. /\ pending' = [pending EXCEPT ![p] = Merge(@, request)] /\ answer' = [answer EXCEPT ![d] = "QUEUED"]
        /\ UNCHANGED runs
    BY <1>6 DEF Queue
  <2>2. pending'[p].callers = pending[p].callers \cup {d}
    BY <1>1, <1>3, <2>1 DEF Merge, TypeOK
  <2>3. \A q \in Pods : pending[q].callers \subseteq pending'[q].callers
    BY <1>1, <2>1, <2>2 DEF TypeOK
  <2>4. Kept'
    BY <1>5, <2>1 DEF Kept, Unstopped, HeldByRun, TakenUp
  <2>5. ASSUME NEW c \in Callers, Held(c) \/ c = d PROVE Held(c)'
    <3>1. CASE c = d
      BY <2>2, <3>1 DEF Held
    <3>2. CASE Held(c)
      BY <2>1, <2>3, <3>2 DEF Held, Active
    <3> QED
      BY <2>5, <3>1, <3>2
  <2>6. \A c \in Callers : c # d => answer'[c] = answer[c]
    BY <1>1, <2>1 DEF TypeOK
  <2> QED
    BY <2>4, <2>5, <2>6 DEF QueuedKept
<1>7. CASE CutIn(p, d, request)
  <2>1. /\ Launch(p, Free(p), request, d) /\ answer' = [answer EXCEPT ![d] = "waiting"] /\ UNCHANGED pending
    BY <1>7 DEF CutIn
  <2>2. Kept' /\ \A c \in Callers : Held(c) => Held(c)'
    BY <1>1, <1>3, <1>5, <2>1, LaunchKept
  <2>3. \A c \in Callers : answer'[c] = "QUEUED" => answer[c] = "QUEUED"
    BY <1>1, <2>1 DEF TypeOK
  <2> QED
    BY <2>2, <2>3, KeepsQueued DEF Keeps
<1> QED
  BY <1>4, <1>6, <1>7

\* The chain's own run, and $onReady; a pod that stops is a fault.
LEMMA PodKept ==
  ASSUME IInv, Kept, NEW p \in Pods, faults' = 0, faults = 0,
         Ready(p) \/ TimerFires(p) \/ Destroy(p) \/ Close(p) \/ Replace(p) \/ Crash(p)
  PROVE  Kept' /\ \A c \in Callers : Keeps(c)
<1>1. TypeOK
  BY DEF IInv
<1>2. CASE Ready(p)
  <2>1. UNCHANGED <<pending, runs, lock, answer, served>> /\ life' = [life EXCEPT ![p] = "ready"]
    BY <1>2 DEF Ready, history
  <2>2. Kept'
    BY <1>1, <2>1 DEF Kept, Unstopped, HeldByRun, TakenUp, TypeOK
  <2> QED
    BY <2>1, <2>2 DEF Keeps, Held, Active
<1>3. CASE TimerFires(p)
  <2>1. Launch(p, Free(p), Scheduled, None) /\ UNCHANGED <<life, pending, lock, answer, served>>
    BY <1>3 DEF TimerFires, history
  <2>2. Scheduled \in Requests
    BY DEF Scheduled, Requests
  <2>3. Kept' /\ \A c \in Callers : Held(c) => Held(c)'
    BY <1>1, <2>1, <2>2, LaunchKept
  <2> QED
    BY <2>1, <2>3 DEF Keeps
<1>4. CASE Destroy(p) \/ Crash(p)
  <2>1. faults' = faults + 1
    BY <1>4 DEF Destroy, Crash
  <2> QED
    BY <2>1
<1>5. CASE Close(p) \/ Replace(p)
  BY <1>5 DEF Close, Replace, Kept, Unstopped
<1> QED
  BY <1>2, <1>3, <1>4, <1>5

\* Every step, as long as nothing has stopped or failed.
LEMMA QueueStep ==
  ASSUME IInv, KInv, [Next]_vars
  PROVE  KInv' /\ \A c \in Callers : UNCHANGED vars \/ QueuedKept(c)
<1>1. TypeOK
  BY DEF IInv
<1>2. CASE UNCHANGED vars
  BY <1>2 DEF vars, podVars, history, KInv, Kept, Unstopped, HeldByRun, TakenUp
<1>3. CASE Next /\ faults' # 0
  BY <1>3 DEF KInv, QueuedKept
<1>4. CASE Next /\ faults' = 0
  <2>1. faults = 0 /\ Kept
    BY <1>1, <1>4, NoFaultYet DEF KInv
  <2>2. ASSUME NEW p \in Pods,
               Ready(p) \/ TimerFires(p) \/ Destroy(p) \/ Close(p) \/ Replace(p) \/ Crash(p)
        PROVE  Kept' /\ \A c \in Callers : QueuedKept(c)
    BY <1>4, <2>1, <2>2, PodKept, KeepsQueued
  <2>3. ASSUME NEW p \in Pods, NEW c \in Callers, Trigger(p, c) PROVE Kept' /\ \A d \in Callers : QueuedKept(d)
    BY <2>1, <2>3, TriggerKept
  <2>4. ASSUME NEW p \in Pods, NEW s \in Slots, RunStep(p, s) PROVE Kept' /\ \A c \in Callers : QueuedKept(c)
    <3>1. CASE TakeLock(p, s) \/ Skip(p, s) \/ Unlock(p, s)
      BY <2>1, <3>1, TakeLockKept, SkipKept, UnlockKept, KeepsQueued
    <3>2. CASE NoDatabase(p, s)
      <4>1. faults' = faults + 1
        BY <2>1, <3>2 DEF NoDatabase, Refused, Kept, Unstopped, Stopped
      <4> QED
        BY <1>4, <2>1, <4>1
    <3>3. CASE NextKnowledgeBase(p, s) \/ NoRunRecord(p, s) \/ Indexed(p, s) \/ Failed(p, s) \/ Interrupted(p, s)
      BY <1>4, <2>1, <3>3, RunsOnKept, KeepsQueued
    <3> QED
      BY <2>4, <3>1, <3>2, <3>3 DEF RunStep
  <2>5. Kept' /\ \A c \in Callers : QueuedKept(c)
    BY <1>4, <2>2, <2>3, <2>4 DEF Next
  <2> QED
    BY <2>5 DEF KInv
<1> QED
  BY <1>2, <1>3, <1>4

\* No run holds the lock at first.
LEMMA InitKept == Init => KInv
<1> SUFFICES ASSUME Init PROVE Kept
  BY DEF KInv
<1>1. \A p \in Pods : \A s \in Slots : runs[p][s].at = "idle"
  BY IdleTyped DEF Init
<1>2. Unstopped /\ TakenUp
  BY <1>1 DEF Init, Unstopped, TakenUp, Past
<1>3. HeldByRun
  BY LoopAssumption DEF Init, HeldByRun
<1> QED
  BY <1>2, <1>3 DEF Kept

\* ReindexPostHandler's 202: until something stops or fails, what was queued is run, or its run finds another
\* one indexing, for any number of pods, callers, knowledge bases and overlapping runs.
THEOREM QueueKept == Spec => QueuedIsKept
<1>1. Init => IInv /\ KInv
  BY InitInv, InitKept
<1>2. IInv /\ KInv /\ [Next]_vars => (IInv /\ KInv)'
  BY StepInv, QueueStep
<1>3. IInv /\ KInv /\ [Next]_vars =>
        [\A c \in Callers :
           faults' = 0 /\ answer'[c] = "QUEUED" /\ c \notin served' /\ ~Held(c)'
             => Beaten(c) \/ (answer[c] = "QUEUED" /\ ~Held(c))]_vars
  BY QueueStep DEF QueuedKept
<1> QED
  BY <1>1, <1>2, <1>3, PTL DEF Spec, QueuedIsKept
=============================================================================
