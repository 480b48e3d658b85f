--------------------------- MODULE KnowledgeIndex ---------------------------
(***************************************************************************)
(* One knowledge base of knowledge-base-api being indexed by several pods: *)
(* IndexingLoopService.runLocked around IndexerService.index, the git      *)
(* source's change report (GitSourceAdapter), and the three Postgres       *)
(* tables' effect on a reader (documents and knowledge_bases.cursor).      *)
(*                                                                         *)
(* A run is a sequence of awaits, so it is one action per await: take the  *)
(* advisory lock, read the cursor, ask the source, upsert each document in *)
(* a transaction of its own, delete, move the cursor, embed, record the    *)
(* end.  Between any two of them the branch may move, the run may be       *)
(* aborted (SIGTERM), fail, or die with its pod.                           *)
(***************************************************************************)
EXTENDS Naturals, Sequences, FiniteSets

CONSTANTS Paths,          \* document paths the include/extension filter lets in
          Contents,       \* what a document may hold
          Unstorable,     \* contents with a NUL byte, which Postgres refuses
          Absent,         \* no document at the path
          Pods,           \* replicas
          NoPod,          \* the advisory lock is free
          CompareLimit,   \* GITHUB_COMPARE_FILE_LIMIT
          MaxCommits,     \* bound: length of the branch
          MaxFaults       \* bound: aborts, failures, crashes and lost connections

ASSUME ConstantsAssumption ==
  /\ Unstorable \subseteq Contents
  /\ Absent \notin Contents
  /\ NoPod \notin Pods
  /\ CompareLimit \in Nat
  /\ MaxCommits \in Nat
  /\ MaxFaults \in Nat

VARIABLES history,   \* the branch; commit c is history[c], the head is the last
          base,      \* oldest commit still an ancestor of the head, at least 1
          docs,      \* documents table: path -> content or Absent
          cursor,    \* knowledge_bases.cursor, 0 for NULL
          outcome,   \* knowledge_bases.last_run_outcome
          lock,      \* holder of LOCK_INDEX
          run,       \* per pod: the run in progress
          aborted,   \* per pod: the run's AbortSignal has fired
          faults,    \* bound on faults
          torn       \* history variable: paths written since a cursor covered them

indexVars == <<docs, cursor, outcome, torn>>
vars == <<history, base, docs, cursor, outcome, lock, run, aborted, faults, torn>>

Trees == [Paths -> Contents \cup {Absent}]
Tip == Len(history)

Phases == {"idle", "begin", "source", "upsert", "delete", "setCursor", "embed"}
Outcomes == {"none", "success", "failure", "interrupted"}

\* What a run carries from one await to the next (IndexOptions, SourceChanges).
Runs == [phase : Phases, full : BOOLEAN, manual : BOOLEAN,
         from : Nat, head : Nat, complete : BOOLEAN,
         upserts : SUBSET Paths, todo : SUBSET Paths, deletes : SUBSET Paths]

NoRun == [phase |-> "idle", full |-> FALSE, manual |-> FALSE,
          from |-> 0, head |-> 0, complete |-> FALSE,
          upserts |-> {}, todo |-> {}, deletes |-> {}]

Mirror == INSTANCE SourceMirror

Init ==
  /\ history \in {<<t>> : t \in Trees}
  /\ base = 1
  /\ docs = [x \in Paths |-> Absent]
  /\ cursor = 0
  /\ outcome = "none"
  /\ lock = NoPod
  /\ run = [p \in Pods |-> NoRun]
  /\ aborted = [p \in Pods |-> FALSE]
  /\ faults = 0
  /\ torn = {}

----------------------------------------------------------------------------
(* The branch *)

\* A commit on top of the head.
Commit ==
  /\ Tip < MaxCommits
  /\ \E t \in Trees \ {history[Tip]} : history' = Append(history, t)
  /\ UNCHANGED <<base, lock, run, aborted, faults>> /\ UNCHANGED indexVars

\* History rewritten: no earlier commit is an ancestor of the head any more, so
\* compare answers 404 or "diverged" for a cursor that names one.
ForcePush ==
  /\ Tip < MaxCommits
  /\ \E t \in Trees : history' = Append(history, t)
  /\ base' = Tip + 1
  /\ UNCHANGED <<lock, run, aborted, faults>> /\ UNCHANGED indexVars

----------------------------------------------------------------------------
(* What the source reports *)

\* Paths a comparison of two commits names.
Changed(b, h) == {x \in Paths : history[b][x] # history[h][x]}
Present(h) == {x \in Paths : history[h][x] # Absent}

\* GitSourceAdapter.diff: what is at the head is to be read, what is not is
\* deleted.  Git may pair a rewritten file with an added one as a rename, which
\* reports the rewritten path as deleted too, though it exists at the head.
RenameSources(listed, b, h) ==
  LET added == listed \ Present(b)
      rewritten == listed \cap Present(b) \cap Present(h)
  IN  {S \in SUBSET rewritten : S # {} => added # {}}

\* The files GitHub's compare lists: all that changed, cut at its limit.
Listed(b, h) ==
  IF Cardinality(Changed(b, h)) < CompareLimit
    THEN {Changed(b, h)}
    ELSE {L \in SUBSET Changed(b, h) : Cardinality(L) = CompareLimit}

\* A list as long as the limit may have been cut.
Usable(listed) == Cardinality(listed) < CompareLimit

----------------------------------------------------------------------------
(* One run *)

Goto(p, phase) == run' = [run EXCEPT ![p].phase = phase]

\* MUTANT: the AbortController outlives its run.
ReleaseKeepingSignal(p) ==
  /\ lock' = IF lock = p THEN NoPod ELSE lock
  /\ run' = [run EXCEPT ![p] = NoRun]
  /\ UNCHANGED aborted

\* withTryAdvisoryLock's finally: the lock goes with the run, if it still had it.
Release(p) ==
  /\ lock' = IF lock = p THEN NoPod ELSE lock
  /\ run' = [run EXCEPT ![p] = NoRun]
  /\ aborted' = [aborted EXCEPT ![p] = FALSE]

\* withTryAdvisoryLock: the run starts only if the lock is free.
Start(p, full, manual) ==
  /\ run[p].phase = "idle"
  /\ lock = NoPod
  /\ full => manual
  /\ lock' = p
  /\ run' = [run EXCEPT ![p] = [NoRun EXCEPT !.phase = "begin", !.full = full, !.manual = manual]]
  /\ UNCHANGED <<history, base, aborted, faults>> /\ UNCHANGED indexVars

\* runLocked: a scheduled run leaves a never-indexed knowledge base alone.
SkipUnbuilt(p) ==
  /\ run[p].phase = "begin"
  /\ ~aborted[p]
  /\ ~run[p].manual /\ cursor = 0
  /\ Release(p)
  /\ UNCHANGED <<history, base, faults>> /\ UNCHANGED indexVars

\* recordRunStart, then index reads the cursor a full run ignores.  The request
\* itself plays no part after this.
Begin(p) ==
  /\ run[p].phase = "begin"
  /\ ~aborted[p]
  /\ run[p].manual \/ cursor # 0
  /\ outcome' = "none"
  /\ run' = [run EXCEPT ![p] = [NoRun EXCEPT !.phase = "source",
                                             !.from = IF run[p].full THEN 0 ELSE cursor]]
  /\ UNCHANGED <<history, base, docs, cursor, lock, aborted, faults, torn>>

Report(p, complete, upserts, deletes) ==
  run' = [run EXCEPT ![p] = [NoRun EXCEPT !.phase = "upsert", !.from = run[p].from, !.head = Tip,
                                          !.complete = complete, !.upserts = upserts,
                                          !.todo = upserts, !.deletes = deletes]]

\* GitSourceAdapter.read: nothing, the comparison, or the whole tree.
ReadSource(p) ==
  /\ run[p].phase = "source"
  /\ ~aborted[p]
  /\ LET from == run[p].from
     IN  \/ /\ from = Tip
            /\ Report(p, FALSE, {}, {})
         \/ /\ from # Tip /\ from >= base
            /\ \E listed \in Listed(from, Tip) :
                 /\ Usable(listed)
                 /\ \E renamed \in RenameSources(listed, from, Tip) :
                      Report(p, FALSE, listed \cap Present(Tip), (listed \ Present(Tip)) \cup renamed)
         \/ /\ from # Tip
            /\ ~(from >= base /\ \A listed \in Listed(from, Tip) : Usable(listed))
            /\ Report(p, TRUE, Present(Tip), {})
  /\ UNCHANGED <<history, base, lock, aborted, faults>> /\ UNCHANGED indexVars

\* DocumentRepository.upsert, one transaction; a document with a NUL byte is skipped.
Upsert(p) ==
  /\ run[p].phase = "upsert"
  /\ ~aborted[p]
  /\ \E x \in run[p].todo :
       LET content == history[run[p].head][x]
           stored  == content \notin Unstorable
       IN  /\ docs' = IF stored THEN [docs EXCEPT ![x] = content] ELSE docs
           /\ torn' = IF stored THEN torn \cup {x} ELSE torn
           /\ run' = [run EXCEPT ![p].todo = @ \ {x}]
  /\ UNCHANGED <<history, base, cursor, outcome, lock, aborted, faults>>

\* The last document is written (or there was none); deletions are next.
UpsertsDone(p) ==
  /\ run[p].phase = "upsert"
  /\ ~aborted[p]
  /\ run[p].todo = {}
  /\ Goto(p, "delete")
  /\ UNCHANGED <<history, base, lock, aborted, faults>> /\ UNCHANGED indexVars

\* MUTANT: a complete listing deletes nothing.
RemovedWhenReported(p) == run[p].deletes \ run[p].upserts

\* MUTANT: a path reported both deleted and changed is deleted.
RemovedUnfiltered(p) ==
  IF run[p].complete THEN Paths \ run[p].upserts ELSE run[p].deletes

\* MUTANT: only a complete listing deletes.
RemovedWhenComplete(p) ==
  IF run[p].complete THEN Paths \ run[p].upserts ELSE {}

\* The documents a run removes: all it was not told of after a whole listing,
\* otherwise those reported deleted and not also reported changed.
Removed(p) ==
  IF run[p].complete THEN Paths \ run[p].upserts ELSE run[p].deletes \ run[p].upserts

\* deleteAllExcept or delete, one statement.
Delete(p) ==
  /\ run[p].phase = "delete"
  /\ ~aborted[p]
  /\ docs' = [x \in Paths |-> IF x \in Removed(p) THEN Absent ELSE docs[x]]
  /\ torn' = torn \cup Removed(p)
  /\ Goto(p, "setCursor")
  /\ UNCHANGED <<history, base, cursor, outcome, lock, aborted, faults>>

\* setCursor: not preceded by a look at the signal.
SetCursor(p) ==
  /\ run[p].phase = "setCursor"
  /\ cursor' = run[p].head
  /\ torn' = torn \ (run[p].upserts \cup Removed(p))
  /\ Goto(p, "embed")
  /\ UNCHANGED <<history, base, docs, outcome, lock, aborted, faults>>

\* Embedding done or deferred (it never fails a run): recordRunEnd, and the lock is
\* given back.  The signal may have fired after the last look at it.
Finish(p) ==
  /\ run[p].phase = "embed"
  /\ outcome' = "success"
  /\ Release(p)
  /\ UNCHANGED <<history, base, docs, cursor, faults, torn>>

----------------------------------------------------------------------------
(* What stops one *)

\* $onDestroy fires the run's signal.
Abort(p) ==
  /\ faults < MaxFaults
  /\ run[p].phase # "idle"
  /\ ~aborted[p]
  /\ aborted' = [aborted EXCEPT ![p] = TRUE]
  /\ faults' = faults + 1
  /\ UNCHANGED <<history, base, lock, run>> /\ UNCHANGED indexVars

\* Before recordRunStart there is no run to record the end of; after it, the record is
\* one more query, and its failure is swallowed.
RecordEnd(p, how) == outcome' \in IF run[p].phase = "begin" THEN {outcome} ELSE {outcome, how}

\* throwIfAborted, or a call the signal cancelled: the run ends as INTERRUPTED.
Interrupt(p) ==
  /\ run[p].phase \notin {"idle", "setCursor"}
  /\ aborted[p]
  /\ RecordEnd(p, "interrupted")
  /\ Release(p)
  /\ UNCHANGED <<history, base, docs, cursor, faults, torn>>

\* Any other error of an await (GitHub, Postgres, a truncated tree).
Fail(p) ==
  /\ faults < MaxFaults
  /\ run[p].phase # "idle"
  /\ RecordEnd(p, IF aborted[p] THEN "interrupted" ELSE "failure")
  /\ Release(p)
  /\ faults' = faults + 1
  /\ UNCHANGED <<history, base, docs, cursor, torn>>

\* The pod dies; Postgres frees the lock with the connection.
Crash(p) ==
  /\ faults < MaxFaults
  /\ run[p].phase # "idle"
  /\ Release(p)
  /\ faults' = faults + 1
  /\ UNCHANGED <<history, base>> /\ UNCHANGED indexVars

Step(p) ==
  \/ SkipUnbuilt(p) \/ Begin(p) \/ ReadSource(p) \/ Upsert(p) \/ UpsertsDone(p)
  \/ Delete(p) \/ SetCursor(p) \/ Finish(p) \/ Interrupt(p)

Next ==
  \/ Commit \/ ForcePush
  \/ \E p \in Pods :
       \/ \E full, manual \in BOOLEAN : Start(p, full, manual)
       \/ Step(p)
       \/ Abort(p) \/ Fail(p) \/ Crash(p)

Spec == Init /\ [][Next]_vars

----------------------------------------------------------------------------
(* The connection that holds the lock is lost while the run goes on *)

\* Postgres frees the lock at once; the pod has not noticed.
LoseLock(p) ==
  /\ faults < MaxFaults
  /\ lock = p
  /\ lock' = NoPod
  /\ faults' = faults + 1
  /\ UNCHANGED <<history, base, run, aborted>> /\ UNCHANGED indexVars

\* The client's "error" event: the lockLost signal aborts the run.
NoticeLost(p) ==
  /\ run[p].phase # "idle"
  /\ lock # p
  /\ ~aborted[p]
  /\ aborted' = [aborted EXCEPT ![p] = TRUE]
  /\ UNCHANGED <<history, base, lock, run, faults>> /\ UNCHANGED indexVars

LossyNext == Next \/ \E p \in Pods : LoseLock(p) \/ NoticeLost(p)

\* A run makes its next step, and some pod's timer fires again: the loop
\* re-arms itself after every run (IndexingLoopService.start).
Fairness ==
  /\ \A p \in Pods : WF_vars(Step(p))
  /\ WF_vars(\E p \in Pods : Start(p, FALSE, FALSE))

LossySpec == Init /\ [][LossyNext]_vars /\ Fairness

----------------------------------------------------------------------------
(* Properties *)

\* Every variable holds what the code can put in it.
TypeOK ==
  /\ history \in Seq(Trees) /\ history # <<>>
  /\ base \in 1..Tip
  /\ docs \in [Paths -> Contents \cup {Absent}]
  /\ cursor \in 0..Tip
  /\ outcome \in Outcomes
  /\ lock \in Pods \cup {NoPod}
  /\ run \in [Pods -> Runs]
  /\ aborted \in [Pods -> BOOLEAN]
  /\ faults \in 0..MaxFaults
  /\ torn \in SUBSET Paths

\* A run writes only while its pod holds the lock, so two pods never index at once
\* (AdvisoryLock: "one indexer at a time across every replica").
WriterHoldsLock == \A p \in Pods : run[p].phase # "idle" => lock = p

\* Documents first, deletions next, the cursor last: a path disagrees with the
\* commit the cursor names only if a run that never moved the cursor over it wrote it.
OnlyTornDiffer ==
  cursor # 0 => \A x \in Paths : x \in torn \/ Mirror!Agrees(x, cursor)

\* A run that listed the whole tree heals whatever interrupted runs left behind: when
\* it moves the cursor, the index is the tree (POST /reindex with full).
CompleteRunHeals ==
  \A p \in Pods :
    run[p].phase = "setCursor" /\ run[p].complete
      => \A x \in Paths : Mirror!Agrees(x, run[p].head)

\* The cursor never returns to an older commit: a run of one pod cannot undo
\* what a later run of another recorded.
CursorForward == [][cursor' >= cursor]_vars

\* The indexer implements SourceMirror up to its first fault: copies of one commit, and
\* the cursor only over an index that agrees with it.
MirrorsSource ==
  Mirror!MirrorInit /\ [][faults' = 0 => Mirror!MirrorNext]_(Mirror!mirrorVars)

\* Once built, the index reaches the head and stays there when the branch rests, whatever
\* was interrupted and even if two pods indexed at once for a while.
CursorCatchesUp == (cursor # 0) ~> [](cursor = Tip)

\* IndexerService: "The order is what makes a crash harmless."  After a run that
\* ended well, the index agrees with the commit its cursor names.
CrashHarmless ==
  outcome = "success" /\ lock = NoPod => \A x \in Paths : Mirror!Agrees(x, cursor)
=============================================================================
