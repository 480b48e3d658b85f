------------------------ MODULE KnowledgeIndexProofs ------------------------
(***************************************************************************)
(* The safety of KnowledgeIndex for every set of paths, contents and pods, *)
(* every length of the branch and every number of faults.                  *)
(***************************************************************************)
EXTENDS KnowledgeIndex, TLAPS

\* A tree added to the branch leaves every earlier commit as it was.
LEMMA HistoryGrows ==
  ASSUME NEW h \in Seq(Trees), NEW t \in Trees
  PROVE  /\ Append(h, t) \in Seq(Trees)
         /\ Append(h, t) # <<>>
         /\ Len(Append(h, t)) = Len(h) + 1
         /\ \A c \in 1..Len(h) : Append(h, t)[c] = h[c]
         /\ Append(h, t)[Len(h) + 1] = t
  OBVIOUS

\* The head is a commit.
LEMMA TipIsCommit ==
  ASSUME TypeOK
  PROVE  /\ Tip \in Nat \ {0}
         /\ \A c \in 1..Tip : history[c] \in Trees
  BY DEF TypeOK, Tip

\* An idle pod's run is a run.
LEMMA NoRunIsRun == NoRun \in Runs
  BY DEF NoRun, Runs, Phases

\* A run that has heard from the source works towards a commit of the branch.
HeadIsCommit ==
  \A p \in Pods : run[p].phase \in {"upsert", "delete", "setCursor"} => run[p].head \in 1..Tip

TypeInv == TypeOK /\ HeadIsCommit

\* What Release leaves behind.
LEMMA ReleaseTyped ==
  ASSUME TypeInv, NEW p \in Pods, Release(p), Tip' = Tip
  PROVE  /\ lock' \in Pods \cup {NoPod}
         /\ run' \in [Pods -> Runs]
         /\ aborted' \in [Pods -> BOOLEAN]
         /\ HeadIsCommit'
  BY NoRunIsRun DEF Release, TypeInv, TypeOK, HeadIsCommit, NoRun

\* A run that only moves to its next phase.
LEMMA GotoTyped ==
  ASSUME TypeInv, NEW p \in Pods, NEW phase \in Phases, Goto(p, phase), Tip' = Tip,
         phase \in {"upsert", "delete", "setCursor"}
           => run[p].phase \in {"upsert", "delete", "setCursor"}
  PROVE  run' \in [Pods -> Runs] /\ HeadIsCommit'
<1>1. [run[p] EXCEPT !.phase = phase] \in Runs
  BY DEF TypeInv, TypeOK, Runs
<1>2. run' = [run EXCEPT ![p] = [run[p] EXCEPT !.phase = phase]]
  BY DEF Goto
<1>3. run' \in [Pods -> Runs]
  BY <1>1, <1>2 DEF TypeInv, TypeOK
<1>4. HeadIsCommit'
  BY <1>2 DEF TypeInv, TypeOK, HeadIsCommit, Runs
<1> QED
  BY <1>3, <1>4

\* What the source reports is typed, and its head is the branch's.
LEMMA ReportTyped ==
  ASSUME TypeInv, NEW p \in Pods, ReadSource(p)
  PROVE  \E complete \in BOOLEAN, upserts, deletes \in SUBSET Paths :
           Report(p, complete, upserts, deletes)
<1>1. Present(Tip) \in SUBSET Paths
  BY DEF Present
<1>2. ASSUME NEW listed \in Listed(run[p].from, Tip),
             NEW renamed \in RenameSources(listed, run[p].from, Tip)
      PROVE  /\ listed \cap Present(Tip) \in SUBSET Paths
             /\ (listed \ Present(Tip)) \cup renamed \in SUBSET Paths
  <2>1. listed \in SUBSET Paths
    BY DEF Listed, Changed
  <2>2. renamed \in SUBSET Paths
    BY <2>1 DEF RenameSources
  <2> QED
    BY <2>1, <2>2
<1>3. CASE Report(p, FALSE, {}, {})
  BY <1>3
<1>4. CASE Report(p, TRUE, Present(Tip), {})
  BY <1>1, <1>4
<1>5. CASE \E listed \in Listed(run[p].from, Tip) :
             \E renamed \in RenameSources(listed, run[p].from, Tip) :
               Report(p, FALSE, listed \cap Present(Tip), (listed \ Present(Tip)) \cup renamed)
  BY <1>2, <1>5
<1> QED
  BY <1>3, <1>4, <1>5 DEF ReadSource

\* Every step of the indexer keeps the typing invariant.
LEMMA TypeInvStep == TypeInv /\ [Next]_vars => TypeInv'
<1> SUFFICES ASSUME TypeInv, [Next]_vars PROVE TypeInv'
  OBVIOUS
<1>0. Tip \in Nat \ {0} /\ \A c \in 1..Tip : history[c] \in Trees
  BY TipIsCommit DEF TypeInv
<1>1. ASSUME Commit \/ ForcePush PROVE TypeInv'
  <2>1. PICK t \in Trees : history' = Append(history, t)
    BY <1>1 DEF Commit, ForcePush
  <2>2. history' \in Seq(Trees) /\ history' # <<>> /\ Tip' = Tip + 1
    BY <2>1, HistoryGrows DEF TypeInv, TypeOK, Tip
  <2>3. base' \in 1..Tip'
    BY <1>0, <1>1, <2>2 DEF Commit, ForcePush, TypeInv, TypeOK
  <2>4. cursor' \in 0..Tip'
    BY <1>0, <1>1, <2>2 DEF Commit, ForcePush, TypeInv, TypeOK, indexVars
  <2>5. HeadIsCommit'
    BY <1>0, <1>1, <2>2 DEF Commit, ForcePush, TypeInv, TypeOK, HeadIsCommit, Runs
  <2> QED
    BY <1>1, <2>2, <2>3, <2>4, <2>5 DEF Commit, ForcePush, TypeInv, TypeOK, indexVars
<1>2. ASSUME NEW p \in Pods, NEW full \in BOOLEAN, NEW manual \in BOOLEAN, Start(p, full, manual)
      PROVE  TypeInv'
  <2>1. [NoRun EXCEPT !.phase = "begin", !.full = full, !.manual = manual] \in Runs
    BY DEF NoRun, Runs, Phases
  <2>2. HeadIsCommit'
    BY <1>2 DEF Start, HeadIsCommit, TypeInv, TypeOK, NoRun, Tip
  <2> QED
    BY <1>2, <2>1, <2>2 DEF Start, TypeInv, TypeOK, indexVars, Tip
<1>3. ASSUME NEW p \in Pods, SkipUnbuilt(p) PROVE TypeInv'
  BY <1>3, ReleaseTyped DEF SkipUnbuilt, TypeInv, TypeOK, indexVars, Tip
<1>4. ASSUME NEW p \in Pods, Begin(p) PROVE TypeInv'
  <2>1. (IF run[p].full THEN 0 ELSE cursor) \in Nat
    BY <1>0 DEF TypeInv, TypeOK
  <2>2. run' \in [Pods -> Runs]
    BY <1>4, <2>1 DEF Begin, TypeInv, TypeOK, NoRun, Runs, Phases
  <2>3. HeadIsCommit'
    BY <1>4 DEF Begin, TypeInv, TypeOK, HeadIsCommit, NoRun, Tip
  <2> QED
    BY <1>4, <2>2, <2>3 DEF Begin, TypeInv, TypeOK, Outcomes, Tip
<1>5. ASSUME NEW p \in Pods, ReadSource(p) PROVE TypeInv'
  <2>1. PICK complete \in BOOLEAN, upserts \in SUBSET Paths, deletes \in SUBSET Paths :
          Report(p, complete, upserts, deletes)
    BY <1>5, ReportTyped
  <2>2. run' \in [Pods -> Runs]
    BY <1>0, <2>1 DEF Report, TypeInv, TypeOK, NoRun, Runs, Phases
  <2>3. Tip' = Tip
    BY <1>5 DEF ReadSource, Tip
  <2>4. HeadIsCommit'
    BY <1>0, <2>1, <2>3 DEF Report, TypeInv, TypeOK, NoRun, HeadIsCommit
  <2> QED
    BY <1>5, <2>2, <2>3, <2>4 DEF ReadSource, TypeInv, TypeOK, indexVars
<1>6. ASSUME NEW p \in Pods, Upsert(p) PROVE TypeInv'
  <2> DEFINE content(x) == history[run[p].head][x]
  <2>1. PICK x \in run[p].todo :
          /\ docs' = IF content(x) \notin Unstorable THEN [docs EXCEPT ![x] = content(x)] ELSE docs
          /\ torn' = IF content(x) \notin Unstorable THEN torn \cup {x} ELSE torn
          /\ run' = [run EXCEPT ![p].todo = @ \ {x}]
    BY <1>6 DEF Upsert
  <2>2. x \in Paths
    BY <2>1 DEF TypeInv, TypeOK, Runs
  <2>3. content(x) \in Contents \cup {Absent}
    BY <1>0, <1>6, <2>2 DEF Upsert, TypeInv, HeadIsCommit, Trees
  <2>4. docs' \in [Paths -> Contents \cup {Absent}] /\ torn' \in SUBSET Paths
    BY <2>1, <2>2, <2>3 DEF TypeInv, TypeOK
  <2>5. run' \in [Pods -> Runs]
    <3>1. [run[p] EXCEPT !.todo = @ \ {x}] \in Runs
      BY ZenonT(60) DEF TypeInv, TypeOK, Runs
    <3> QED
      BY <2>1, <3>1 DEF TypeInv, TypeOK
  <2>6. HeadIsCommit'
    BY <1>6, <2>1 DEF Upsert, TypeInv, TypeOK, HeadIsCommit, Tip
  <2> QED
    BY <1>6, <2>4, <2>5, <2>6 DEF Upsert, TypeInv, TypeOK, Tip
<1>7. ASSUME NEW p \in Pods, UpsertsDone(p) PROVE TypeInv'
  BY <1>7, GotoTyped DEF UpsertsDone, TypeInv, TypeOK, indexVars, Tip, Phases
<1>8. ASSUME NEW p \in Pods, Delete(p) PROVE TypeInv'
  <2>1. Removed(p) \in SUBSET Paths
    BY DEF Removed, TypeInv, TypeOK, Runs
  <2>2. docs' \in [Paths -> Contents \cup {Absent}] /\ torn' \in SUBSET Paths
    BY <1>8, <2>1 DEF Delete, TypeInv, TypeOK
  <2> QED
    BY <1>8, <2>2, GotoTyped DEF Delete, TypeInv, TypeOK, Tip, Phases
<1>9. ASSUME NEW p \in Pods, SetCursor(p) PROVE TypeInv'
  <2>1. cursor' \in 0..Tip
    BY <1>0, <1>9 DEF SetCursor, TypeInv, HeadIsCommit
  <2> QED
    BY <1>9, <2>1, GotoTyped DEF SetCursor, TypeInv, TypeOK, Tip, Phases
<1>10. ASSUME NEW p \in Pods, Finish(p) PROVE TypeInv'
  BY <1>10, ReleaseTyped DEF Finish, TypeInv, TypeOK, Outcomes, Tip
<1>11. ASSUME NEW p \in Pods, Interrupt(p) PROVE TypeInv'
  BY <1>11, ReleaseTyped DEF Interrupt, RecordEnd, TypeInv, TypeOK, Outcomes, Tip
<1>12. ASSUME NEW p \in Pods, Abort(p) PROVE TypeInv'
  BY <1>12, ConstantsAssumption DEF Abort, TypeInv, TypeOK, HeadIsCommit, indexVars, Tip
<1>13. ASSUME NEW p \in Pods, Fail(p) PROVE TypeInv'
  BY <1>13, ReleaseTyped, ConstantsAssumption DEF Fail, RecordEnd, TypeInv, TypeOK, Outcomes, Tip
<1>14. ASSUME NEW p \in Pods, Crash(p) PROVE TypeInv'
  BY <1>14, ReleaseTyped, ConstantsAssumption DEF Crash, TypeInv, TypeOK, indexVars, Tip
<1>15. ASSUME UNCHANGED vars PROVE TypeInv'
  BY <1>15 DEF vars, TypeInv, TypeOK, HeadIsCommit, Tip
<1> QED
  BY <1>1, <1>2, <1>3, <1>4, <1>5, <1>6, <1>7, <1>8, <1>9, <1>10, <1>11, <1>12, <1>13, <1>14, <1>15
     DEF Next, Step

\* The branch holds one tree and no run is under way.
LEMMA TypeInvInit == Init => TypeInv
<1> SUFFICES ASSUME Init PROVE TypeInv
  OBVIOUS
<1>1. PICK t \in Trees : history = <<t>>
  BY DEF Init
<1>2. history \in Seq(Trees) /\ history # <<>> /\ Tip = 1
  BY <1>1 DEF Tip
<1> QED
  BY <1>2, NoRunIsRun, ConstantsAssumption DEF Init, TypeInv, TypeOK, HeadIsCommit, Outcomes, NoRun

\* The tables and a run's state between two awaits hold what the code can put there.
THEOREM TypeCorrect == Spec => []TypeOK
  BY TypeInvInit, TypeInvStep, PTL DEF Spec, TypeInv

----------------------------------------------------------------------------
(***************************************************************************)
(* The inductive invariant.  OnlyTornDiffer alone is not inductive: that   *)
(* moving the cursor is right rests on what the run in progress knows and  *)
(* has done, and on no other run having touched the index meanwhile.       *)
(***************************************************************************)

Reported == {"upsert", "delete", "setCursor"}

\* A run works from the commit the cursor still names, or from nothing.
FromCursor == \A p \in Pods : run[p].phase \in Reported \cup {"source"} => run[p].from \in {0, cursor}

\* What the source reported: all of the head's tree, or all that separates it
\* from the commit of the cursor.
ReportRight(p) ==
  /\ run[p].head >= cursor
  /\ run[p].todo \subseteq run[p].upserts
  /\ run[p].complete => run[p].upserts = Present(run[p].head)
  /\ ~run[p].complete =>
       /\ cursor # 0
       /\ \A x \in Paths \ (run[p].upserts \cup run[p].deletes) :
            history[cursor][x] = history[run[p].head][x]
       /\ \A x \in run[p].deletes \ run[p].upserts : history[run[p].head][x] = Absent

\* What the run has written so far is what the head holds.
WrittenRight(p) ==
  /\ \A x \in run[p].upserts \ run[p].todo : Mirror!Agrees(x, run[p].head)
  /\ run[p].phase # "upsert" => run[p].todo = {}
  /\ run[p].phase = "setCursor" => \A x \in Removed(p) : docs[x] = Absent

RunsRight == \A p \in Pods : run[p].phase \in Reported => ReportRight(p) /\ WrittenRight(p)

IInv == TypeInv /\ WriterHoldsLock /\ FromCursor /\ RunsRight /\ OnlyTornDiffer

\* While one pod's run is under way every other pod is idle.
LEMMA OthersIdle ==
  ASSUME WriterHoldsLock, NEW p \in Pods, run[p].phase # "idle"
  PROVE  /\ lock = p
         /\ \A q \in Pods \ {p} : run[q].phase = "idle"
  BY DEF WriterHoldsLock

\* Moving the branch on changes nothing about the commits it already had.
LEMMA BranchMoves ==
  ASSUME IInv, Commit \/ ForcePush
  PROVE  IInv'
<1>1. PICK t \in Trees : history' = Append(history, t)
  BY DEF Commit, ForcePush
<1>2. Tip' = Tip + 1 /\ \A c \in 1..Tip : history'[c] = history[c]
  BY <1>1, HistoryGrows DEF IInv, TypeInv, TypeOK, Tip
<1>3. UNCHANGED <<docs, cursor, torn, lock, run>>
  BY DEF Commit, ForcePush, indexVars
<1>4. Tip \in Nat \ {0} /\ cursor \in 0..Tip
  BY TipIsCommit DEF IInv, TypeInv, TypeOK
<1>5. TypeInv'
  BY TypeInvStep DEF IInv, Next
<1>6. WriterHoldsLock' /\ FromCursor'
  BY <1>3 DEF IInv, WriterHoldsLock, FromCursor
<1>7. OnlyTornDiffer'
  BY <1>2, <1>3, <1>4 DEF IInv, OnlyTornDiffer, Mirror!Agrees
<1>8. RunsRight'
  <2> SUFFICES ASSUME NEW p \in Pods, run'[p].phase \in Reported
               PROVE  ReportRight(p)' /\ WrittenRight(p)'
    BY DEF RunsRight
  <2>1. run'[p] = run[p] /\ run[p].phase \in Reported
    BY <1>3
  <2>2. run[p].head \in 1..Tip
    BY <2>1 DEF IInv, TypeInv, HeadIsCommit, Reported
  <2>3. ReportRight(p) /\ WrittenRight(p)
    BY <2>1 DEF IInv, RunsRight
  <2>4. ReportRight(p)'
    BY <1>2, <1>3, <1>4, <2>2, <2>3 DEF ReportRight, Present
  <2>5. WrittenRight(p)'
    BY <1>2, <1>3, <2>2, <2>3 DEF WrittenRight, Removed, Mirror!Agrees
  <2> QED
    BY <2>4, <2>5
<1> QED
  BY <1>5, <1>6, <1>7, <1>8 DEF IInv

\* A run that ends, however it ends, leaves no run behind and the index as it is.
LEMMA RunEnds ==
  ASSUME IInv, [Next]_vars, NEW p \in Pods, run[p].phase # "idle", Release(p),
         UNCHANGED <<history, docs, cursor, torn>>
  PROVE  IInv'
<1>1. TypeInv'
  BY TypeInvStep DEF IInv
<1>2. \A q \in Pods : run'[q].phase = "idle"
  BY OthersIdle DEF IInv, TypeInv, TypeOK, Release, NoRun
<1>3. OnlyTornDiffer'
  BY DEF IInv, OnlyTornDiffer, Mirror!Agrees
<1> QED
  BY <1>1, <1>2, <1>3 DEF IInv, WriterHoldsLock, FromCursor, RunsRight, Reported

\* What the run of the only pod at work must satisfy for the invariant to survive
\* a step that keeps the branch and the lock.
LEMMA OneRunStep ==
  ASSUME IInv, [Next]_vars, NEW p \in Pods, run[p].phase # "idle",
         UNCHANGED <<history, lock>>,
         \A q \in Pods \ {p} : run'[q] = run[q],
         run'[p].phase \in Reported \cup {"source"} => run'[p].from \in {0, cursor'},
         run'[p].phase \in Reported => ReportRight(p)' /\ WrittenRight(p)',
         OnlyTornDiffer'
  PROVE  IInv'
<1>1. TypeInv'
  BY TypeInvStep DEF IInv
<1>2. lock = p /\ \A q \in Pods \ {p} : run'[q].phase = "idle"
  BY OthersIdle DEF IInv
<1>3. WriterHoldsLock'
  BY <1>2 DEF WriterHoldsLock
<1>4. FromCursor' /\ RunsRight'
  BY <1>2 DEF FromCursor, RunsRight, Reported
<1> QED
  BY <1>1, <1>3, <1>4 DEF IInv

\* Reading the cursor starts the run from what the index claims.
LEMMA BeginKeeps ==
  ASSUME IInv, [Next]_vars, NEW p \in Pods, Begin(p)
  PROVE  IInv'
<1>1. run'[p].phase = "source" /\ run'[p].from \in {0, cursor'}
  BY DEF Begin, NoRun, IInv, TypeInv, TypeOK
<1>2. \A q \in Pods \ {p} : run'[q] = run[q]
  BY DEF Begin, IInv, TypeInv, TypeOK
<1>3. OnlyTornDiffer'
  BY DEF Begin, IInv, OnlyTornDiffer, Mirror!Agrees
<1> QED
  BY <1>1, <1>2, <1>3, OneRunStep DEF Begin, Reported

\* The heart of it: what the source reports separates the index from the head.
LEMMA ReadSourceKeeps ==
  ASSUME IInv, [Next]_vars, NEW p \in Pods, ReadSource(p)
  PROVE  IInv'
<1> DEFINE from == run[p].from
<1>0. Tip \in Nat \ {0} /\ cursor \in 0..Tip /\ base \in 1..Tip /\ run[p] \in Runs
  BY TipIsCommit DEF IInv, TypeInv, TypeOK
<1>1. from \in {0, cursor}
  BY DEF ReadSource, IInv, FromCursor
<1>2. UNCHANGED <<history, docs, cursor, torn, lock>> /\ Tip' = Tip
  BY DEF ReadSource, indexVars, Tip
<1>3. OnlyTornDiffer'
  BY <1>2 DEF IInv, OnlyTornDiffer, Mirror!Agrees
<1>4. ASSUME NEW upserts \in SUBSET Paths, NEW deletes \in SUBSET Paths,
             run'[p].phase = "upsert", run'[p].from = from, run'[p].head = Tip,
             run'[p].upserts = upserts, run'[p].todo = upserts, run'[p].deletes = deletes,
             \A q \in Pods \ {p} : run'[q] = run[q],
             run'[p].complete => upserts = Present(Tip),
             ~run'[p].complete =>
               /\ cursor # 0
               /\ \A x \in Paths \ (upserts \cup deletes) : history[cursor][x] = history[Tip][x]
               /\ \A x \in deletes \ upserts : history[Tip][x] = Absent
      PROVE  IInv'
  <2>1. ReportRight(p)'
    BY <1>0, <1>2, <1>4 DEF ReportRight, Present
  <2>2. WrittenRight(p)'
    BY <1>4 DEF WrittenRight
  <2>3. run'[p].from \in {0, cursor'}
    BY <1>1, <1>2, <1>4
  <2> QED
    BY <1>2, <1>3, <1>4, <2>1, <2>2, <2>3, OneRunStep DEF ReadSource
<1>5. ASSUME NEW complete, NEW upserts, NEW deletes, Report(p, complete, upserts, deletes)
      PROVE  /\ run'[p].phase = "upsert" /\ run'[p].from = run[p].from /\ run'[p].head = Tip
             /\ run'[p].complete = complete /\ run'[p].upserts = upserts
             /\ run'[p].todo = upserts /\ run'[p].deletes = deletes
             /\ \A q \in Pods \ {p} : run'[q] = run[q]
  BY <1>5 DEF Report, NoRun, IInv, TypeInv, TypeOK
<1>6. CASE from = Tip /\ Report(p, FALSE, {}, {})
  <2>1. cursor = Tip /\ cursor # 0
    BY <1>0, <1>1, <1>6
  <2>2. /\ run'[p].phase = "upsert" /\ run'[p].from = from /\ run'[p].head = Tip
        /\ ~run'[p].complete /\ run'[p].upserts = {}
        /\ run'[p].todo = {} /\ run'[p].deletes = {}
        /\ \A q \in Pods \ {p} : run'[q] = run[q]
    BY <1>6 DEF Report, NoRun, IInv, TypeInv, TypeOK
  <2> QED
    BY <1>4, <2>1, <2>2
<1>7. CASE Report(p, TRUE, Present(Tip), {})
  <2>1. Present(Tip) \in SUBSET Paths
    BY DEF Present
  <2>2. /\ run'[p].phase = "upsert" /\ run'[p].from = from /\ run'[p].head = Tip
        /\ run'[p].complete /\ run'[p].upserts = Present(Tip)
        /\ run'[p].todo = Present(Tip) /\ run'[p].deletes = {}
        /\ \A q \in Pods \ {p} : run'[q] = run[q]
    BY <1>7 DEF Report, NoRun, IInv, TypeInv, TypeOK
  <2> QED
    BY <1>4, <2>1, <2>2
<1>8. CASE /\ from >= base
           /\ \E listed \in Listed(from, Tip) :
                /\ Usable(listed)
                /\ \E renamed \in RenameSources(listed, from, Tip) :
                     Report(p, FALSE, listed \cap Present(Tip), (listed \ Present(Tip)) \cup renamed)
  <2>1. PICK listed \in Listed(from, Tip) :
          /\ Usable(listed)
          /\ \E renamed \in RenameSources(listed, from, Tip) :
               Report(p, FALSE, listed \cap Present(Tip), (listed \ Present(Tip)) \cup renamed)
    BY <1>8
  <2>2. PICK renamed \in RenameSources(listed, from, Tip) :
          Report(p, FALSE, listed \cap Present(Tip), (listed \ Present(Tip)) \cup renamed)
    BY <2>1
  <2>3. from = cursor /\ cursor # 0
    BY <1>0, <1>1, <1>8 DEF Runs
  <2>4. listed = Changed(from, Tip)
    BY <2>1, ConstantsAssumption DEF Listed, Usable
  <2>5. renamed \subseteq listed \cap Present(Tip)
    BY DEF RenameSources
  <2> DEFINE upserts == listed \cap Present(Tip)
             deletes == (listed \ Present(Tip)) \cup renamed
  <2>6. upserts \in SUBSET Paths /\ deletes \in SUBSET Paths
    BY <2>4, <2>5 DEF Changed
  <2>7. \A x \in Paths \ (upserts \cup deletes) : history[cursor][x] = history[Tip][x]
    BY <2>3, <2>4 DEF Changed
  <2>8. \A x \in deletes \ upserts : history[Tip][x] = Absent
    BY <2>4, <2>5 DEF Changed, Present
  <2> HIDE DEF upserts, deletes
  <2>9. Report(p, FALSE, upserts, deletes)
    BY <2>2 DEF upserts, deletes
  <2>10. /\ run'[p].phase = "upsert" /\ run'[p].from = from /\ run'[p].head = Tip
         /\ ~run'[p].complete /\ run'[p].upserts = upserts
         /\ run'[p].todo = upserts /\ run'[p].deletes = deletes
         /\ \A q \in Pods \ {p} : run'[q] = run[q]
    <3>1. run'[p].complete = FALSE
      BY <1>5, <2>9, Zenon
    <3>2. run'[p].upserts = upserts /\ run'[p].todo = upserts /\ run'[p].deletes = deletes
      BY <1>5, <2>9, ZenonT(60)
    <3>3. run'[p].phase = "upsert" /\ run'[p].from = from /\ run'[p].head = Tip /\ \A q \in Pods \ {p} : run'[q] = run[q]
      BY <1>5, <2>9, Zenon
    <3> QED
      BY <3>1, <3>2, <3>3, Zenon
  <2> QED
    BY <1>4, <2>3, <2>6, <2>7, <2>8, <2>10
<1> QED
  BY <1>6, <1>7, <1>8 DEF ReadSource

\* A document written is torn until the cursor covers it.
LEMMA UpsertKeeps ==
  ASSUME IInv, [Next]_vars, NEW p \in Pods, Upsert(p)
  PROVE  IInv'
<1> DEFINE content(x) == history[run[p].head][x]
<1>1. PICK x \in run[p].todo :
        /\ docs' = IF content(x) \notin Unstorable THEN [docs EXCEPT ![x] = content(x)] ELSE docs
        /\ torn' = IF content(x) \notin Unstorable THEN torn \cup {x} ELSE torn
        /\ run' = [run EXCEPT ![p].todo = @ \ {x}]
  BY DEF Upsert
<1>2. UNCHANGED <<history, cursor, lock>> /\ run[p].phase = "upsert"
  BY DEF Upsert
<1>3. run[p] \in Runs /\ x \in Paths /\ docs \in [Paths -> Contents \cup {Absent}]
  BY <1>1 DEF IInv, TypeInv, TypeOK, Runs
<1>4. /\ run'[p].phase = "upsert" /\ run'[p].from = run[p].from /\ run'[p].head = run[p].head
      /\ run'[p].complete = run[p].complete /\ run'[p].upserts = run[p].upserts
      /\ run'[p].deletes = run[p].deletes /\ run'[p].todo = run[p].todo \ {x}
      /\ \A q \in Pods \ {p} : run'[q] = run[q]
  BY <1>1, <1>2 DEF IInv, TypeInv, TypeOK, Runs
<1>5. ReportRight(p) /\ WrittenRight(p) /\ run[p].from \in {0, cursor}
  BY <1>2 DEF IInv, RunsRight, FromCursor, Reported
<1>6. ReportRight(p)'
  BY <1>2, <1>4, <1>5 DEF ReportRight, Present
<1>7. \A y \in Paths \ {x} : docs'[y] = docs[y]
  BY <1>1, <1>3
<1>8. content(x) \notin Unstorable => docs'[x] = content(x)
  BY <1>1, <1>3
<1>9. WrittenRight(p)'
  <2>1. \A y \in run[p].upserts \ (run[p].todo \ {x}) :
          content(y) \in Unstorable \/ docs'[y] = content(y)
    BY <1>3, <1>5, <1>7, <1>8 DEF WrittenRight, Mirror!Agrees, Runs
  <2> QED
    BY <1>2, <1>4, <2>1 DEF WrittenRight, Mirror!Agrees
<1>10. OnlyTornDiffer'
  BY <1>1, <1>2, <1>7 DEF IInv, OnlyTornDiffer, Mirror!Agrees
<1> QED
  BY <1>2, <1>4, <1>5, <1>6, <1>9, <1>10, OneRunStep DEF Reported

\* When no document is left to write, every one reported holds the content of the head.
LEMMA UpsertsDoneKeeps ==
  ASSUME IInv, [Next]_vars, NEW p \in Pods, UpsertsDone(p)
  PROVE  IInv'
<1>1. UNCHANGED <<history, docs, cursor, torn, lock>> /\ run[p].phase = "upsert" /\ run[p].todo = {}
  BY DEF UpsertsDone, indexVars
<1>2. /\ run'[p].phase = "delete" /\ run'[p].from = run[p].from /\ run'[p].head = run[p].head
      /\ run'[p].complete = run[p].complete /\ run'[p].upserts = run[p].upserts
      /\ run'[p].deletes = run[p].deletes /\ run'[p].todo = run[p].todo
      /\ \A q \in Pods \ {p} : run'[q] = run[q]
  BY DEF UpsertsDone, Goto, IInv, TypeInv, TypeOK, Runs
<1>3. ReportRight(p) /\ WrittenRight(p) /\ run[p].from \in {0, cursor}
  BY <1>1 DEF IInv, RunsRight, FromCursor, Reported
<1>4. ReportRight(p)'
  BY <1>1, <1>2, <1>3 DEF ReportRight, Present
<1>5. WrittenRight(p)'
  BY <1>1, <1>2, <1>3 DEF WrittenRight, Mirror!Agrees
<1>6. OnlyTornDiffer'
  BY <1>1 DEF IInv, OnlyTornDiffer, Mirror!Agrees
<1> QED
  BY <1>1, <1>2, <1>3, <1>4, <1>5, <1>6, OneRunStep DEF Reported

\* Deletions leave absent exactly the paths the head does not have, of those reported.
LEMMA DeleteKeeps ==
  ASSUME IInv, [Next]_vars, NEW p \in Pods, Delete(p)
  PROVE  IInv'
<1>1. /\ UNCHANGED <<history, cursor, lock>> /\ run[p].phase = "delete"
      /\ torn' = torn \cup Removed(p)
      /\ docs' = [x \in Paths |-> IF x \in Removed(p) THEN Absent ELSE docs[x]]
  BY DEF Delete
<1>2. /\ run'[p].phase = "setCursor" /\ run'[p].from = run[p].from /\ run'[p].head = run[p].head
      /\ run'[p].complete = run[p].complete /\ run'[p].upserts = run[p].upserts
      /\ run'[p].deletes = run[p].deletes /\ run'[p].todo = run[p].todo
      /\ \A q \in Pods \ {p} : run'[q] = run[q]
  BY DEF Delete, Goto, IInv, TypeInv, TypeOK, Runs
<1>3. ReportRight(p) /\ WrittenRight(p) /\ run[p].from \in {0, cursor} /\ run[p] \in Runs
  BY <1>1 DEF IInv, RunsRight, FromCursor, Reported, TypeInv, TypeOK
<1>4. ReportRight(p)'
  BY <1>1, <1>2, <1>3 DEF ReportRight, Present
<1>5. Removed(p)' = Removed(p) /\ Removed(p) \subseteq Paths \ run[p].upserts
  BY <1>2, <1>3 DEF Removed, Runs
<1>6. WrittenRight(p)'
  <2>1. \A x \in run[p].upserts : Mirror!Agrees(x, run[p].head)
    BY <1>1, <1>3 DEF WrittenRight
  <2>2. \A x \in run[p].upserts : docs'[x] = docs[x]
    BY <1>1, <1>3, <1>5 DEF Runs
  <2>3. \A x \in Removed(p) : docs'[x] = Absent
    BY <1>1, <1>5
  <2> QED
    BY <1>1, <1>2, <1>3, <1>5, <2>1, <2>2, <2>3 DEF WrittenRight, Mirror!Agrees
<1>7. OnlyTornDiffer'
  BY <1>1 DEF IInv, OnlyTornDiffer, Mirror!Agrees
<1> QED
  BY <1>1, <1>2, <1>3, <1>4, <1>6, <1>7, OneRunStep DEF Reported

\* When the cursor is about to move, every path the run was told of agrees with the head.
LEMMA CoveredAgree ==
  ASSUME IInv, NEW p \in Pods, run[p].phase = "setCursor",
         NEW x \in run[p].upserts \cup Removed(p)
  PROVE  Mirror!Agrees(x, run[p].head)
<1>1. ReportRight(p) /\ WrittenRight(p) /\ run[p] \in Runs
  BY DEF IInv, RunsRight, Reported, TypeInv, TypeOK
<1>2. CASE x \in run[p].upserts
  BY <1>1, <1>2 DEF WrittenRight
<1>3. CASE x \in Removed(p) /\ x \notin run[p].upserts
  <2>1. docs[x] = Absent
    BY <1>1, <1>3 DEF WrittenRight
  <2>2. history[run[p].head][x] = Absent
    BY <1>1, <1>3 DEF ReportRight, Removed, Present, Runs
  <2> QED
    BY <2>1, <2>2 DEF Mirror!Agrees
<1> QED
  BY <1>2, <1>3

\* The cursor moves over what the run wrote and removed, so only older wounds stay torn.
LEMMA SetCursorKeeps ==
  ASSUME IInv, [Next]_vars, NEW p \in Pods, SetCursor(p)
  PROVE  IInv'
<1>1. /\ UNCHANGED <<history, docs, lock>> /\ run[p].phase = "setCursor"
      /\ cursor' = run[p].head
      /\ torn' = torn \ (run[p].upserts \cup Removed(p))
  BY DEF SetCursor
<1>2. /\ run'[p].phase = "embed"
      /\ \A q \in Pods \ {p} : run'[q] = run[q]
  BY DEF SetCursor, Goto, IInv, TypeInv, TypeOK, Runs
<1>3. ReportRight(p) /\ run[p] \in Runs
  BY <1>1 DEF IInv, RunsRight, Reported, TypeInv, TypeOK
<1>4. ASSUME NEW x \in Paths, x \notin torn' PROVE Mirror!Agrees(x, run[p].head)
  <2>1. CASE x \in run[p].upserts \cup Removed(p)
    BY <1>1, <2>1, CoveredAgree
  <2>2. CASE x \notin run[p].upserts \cup Removed(p)
    <3>1. ~run[p].complete /\ x \notin run[p].deletes
      BY <2>2 DEF Removed
    <3>2. cursor # 0 /\ history[cursor][x] = history[run[p].head][x]
      BY <1>3, <2>2, <3>1 DEF ReportRight
    <3>3. x \notin torn
      BY <1>1, <1>4, <2>2
    <3> QED
      BY <3>2, <3>3 DEF IInv, OnlyTornDiffer, Mirror!Agrees
  <2> QED
    BY <2>1, <2>2
<1>5. OnlyTornDiffer'
  BY <1>1, <1>4 DEF OnlyTornDiffer, Mirror!Agrees
<1> QED
  BY <1>1, <1>2, <1>5, OneRunStep DEF Reported

\* An empty index with no cursor satisfies the invariant.
LEMMA IInvInit == Init => IInv
  BY TypeInvInit
     DEF Init, IInv, WriterHoldsLock, FromCursor, RunsRight, OnlyTornDiffer, NoRun, Reported

\* One action of one pod, or of the branch, at a time.
LEMMA IInvStep == IInv /\ [Next]_vars => IInv'
<1> SUFFICES ASSUME IInv, [Next]_vars PROVE IInv'
  OBVIOUS
<1>1. CASE Commit \/ ForcePush
  BY <1>1, BranchMoves
<1>2. ASSUME NEW p \in Pods, NEW full \in BOOLEAN, NEW manual \in BOOLEAN, Start(p, full, manual)
      PROVE  IInv'
  <2>1. TypeInv'
    BY TypeInvStep DEF IInv
  <2>2. \A q \in Pods : run[q].phase = "idle"
    BY <1>2, ConstantsAssumption DEF Start, IInv, WriterHoldsLock
  <2>3. lock' = p /\ run'[p].phase = "begin" /\ \A q \in Pods \ {p} : run'[q].phase = "idle"
    BY <1>2, <2>2 DEF Start, NoRun, IInv, TypeInv, TypeOK
  <2>4. WriterHoldsLock' /\ FromCursor' /\ RunsRight'
    BY <2>3 DEF WriterHoldsLock, FromCursor, RunsRight, Reported
  <2>5. OnlyTornDiffer'
    BY <1>2 DEF Start, indexVars, IInv, OnlyTornDiffer, Mirror!Agrees
  <2> QED
    BY <2>1, <2>4, <2>5 DEF IInv
<1>3. ASSUME NEW p \in Pods, Step(p) PROVE IInv'
  <2>1. CASE SkipUnbuilt(p)
    BY <2>1, RunEnds DEF SkipUnbuilt, indexVars
  <2>2. CASE Begin(p)
    BY <2>2, BeginKeeps
  <2>3. CASE ReadSource(p)
    BY <2>3, ReadSourceKeeps
  <2>4. CASE Upsert(p)
    BY <2>4, UpsertKeeps
  <2>5. CASE UpsertsDone(p)
    BY <2>5, UpsertsDoneKeeps
  <2>6. CASE Delete(p)
    BY <2>6, DeleteKeeps
  <2>7. CASE SetCursor(p)
    BY <2>7, SetCursorKeeps
  <2>8. CASE Finish(p)
    BY <2>8, RunEnds DEF Finish
  <2>9. CASE Interrupt(p)
    BY <2>9, RunEnds DEF Interrupt
  <2> QED
    BY <1>3, <2>1, <2>2, <2>3, <2>4, <2>5, <2>6, <2>7, <2>8, <2>9 DEF Step
<1>4. ASSUME NEW p \in Pods, Abort(p) \/ Fail(p) \/ Crash(p) PROVE IInv'
  <2>1. CASE Abort(p)
    <3>1. UNCHANGED <<history, docs, cursor, torn, lock, run>>
      BY <2>1 DEF Abort, indexVars
    <3>2. TypeInv'
      BY TypeInvStep DEF IInv
    <3> QED
      BY <3>1, <3>2
         DEF IInv, WriterHoldsLock, FromCursor, RunsRight, ReportRight, WrittenRight,
             OnlyTornDiffer, Mirror!Agrees, Present, Removed
  <2>2. CASE Fail(p)
    BY <2>2, RunEnds DEF Fail
  <2>3. CASE Crash(p)
    BY <2>3, RunEnds DEF Crash, indexVars
  <2> QED
    BY <1>4, <2>1, <2>2, <2>3
<1>5. CASE UNCHANGED vars
  <2>1. TypeInv'
    BY TypeInvStep DEF IInv
  <2> QED
    BY <1>5, <2>1
       DEF vars, IInv, WriterHoldsLock, FromCursor, RunsRight, ReportRight, WrittenRight,
           OnlyTornDiffer, Mirror!Agrees, Present, Removed
<1> QED
  BY <1>1, <1>2, <1>3, <1>4, <1>5 DEF Next

\* The invariant holds in every state of every behaviour.
LEMMA Invariance == Spec => []IInv
  BY IInvInit, IInvStep, PTL DEF Spec

\* Two pods never index at once: LOCK_INDEX is held for the whole of every run.
THEOREM OneIndexer == Spec => []WriterHoldsLock
  BY Invariance, PTL DEF IInv

\* Whatever is interrupted, only paths that an unfinished run wrote can disagree with
\* the commit the cursor names.
THEOREM OnlyTorn == Spec => []OnlyTornDiffer
  BY Invariance, PTL DEF IInv

\* A run that listed the whole tree moves the cursor over an index that is that tree.
THEOREM FullRunHeals == Spec => []CompleteRunHeals
<1>1. IInv => CompleteRunHeals
  <2> SUFFICES ASSUME IInv, NEW p \in Pods, run[p].phase = "setCursor", run[p].complete, NEW x \in Paths
               PROVE  Mirror!Agrees(x, run[p].head)
    BY DEF CompleteRunHeals
  <2>1. x \in run[p].upserts \cup Removed(p)
    BY DEF Removed
  <2> QED
    BY <2>1, CoveredAgree
<1> QED
  BY <1>1, Invariance, PTL

\* The cursor never goes back to an older commit.
THEOREM CursorNeverRegresses == Spec => CursorForward
<1>1. IInv /\ [Next]_vars => [cursor' >= cursor]_vars
  <2> SUFFICES ASSUME IInv, [Next]_vars PROVE cursor' >= cursor \/ UNCHANGED vars
    OBVIOUS
  <2>0. cursor \in Nat
    BY TipIsCommit DEF IInv, TypeInv, TypeOK
  <2>1. ASSUME NEW p \in Pods, SetCursor(p) PROVE cursor' >= cursor
    BY <2>1 DEF SetCursor, IInv, RunsRight, ReportRight, Reported
  <2>2. CASE UNCHANGED cursor
    BY <2>0, <2>2
  <2> QED
    BY <2>1, <2>2
       DEF Next, Step, Commit, ForcePush, Start, SkipUnbuilt, Begin, ReadSource, Upsert, UpsertsDone,
           Delete, Finish, Interrupt, Abort, Fail, Crash, indexVars, vars
<1> QED
  BY <1>1, Invariance, PTL DEF Spec, CursorForward

----------------------------------------------------------------------------
(***************************************************************************)
(* Refinement.  Until the first fault, what a run wrote is always covered  *)
(* by the cursor it moves, so the index is a mirror of the source.         *)
(***************************************************************************)

\* No path is torn beyond what the run in progress has written and will cover.
TornByRun ==
  /\ \A p \in Pods : ~aborted[p]
  /\ \A p \in Pods : run[p].phase \in Reported => torn \subseteq run[p].upserts \cup Removed(p)
  /\ (\A p \in Pods : run[p].phase \notin Reported) => torn = {}

\* A fault is never forgotten.
LEMMA FaultsGrow ==
  ASSUME IInv, [Next]_vars, faults' = 0
  PROVE  faults = 0
<1>1. faults \in Nat
  BY DEF IInv, TypeInv, TypeOK
<1>2. faults' = faults \/ faults' = faults + 1
  BY DEF Next, Step, Commit, ForcePush, Start, SkipUnbuilt, Begin, ReadSource, Upsert, UpsertsDone,
         Delete, SetCursor, Finish, Interrupt, Abort, Fail, Crash, vars
<1> QED
  BY <1>1, <1>2

\* With no fault, only the run under way has written paths the cursor does not cover.
LEMMA TornByRunStep ==
  ASSUME IInv, TornByRun, [Next]_vars, faults' = 0
  PROVE  TornByRun'
<1>0. faults = 0
  BY FaultsGrow
<1>1. CASE Commit \/ ForcePush
  <2>1. UNCHANGED <<torn, run, aborted>>
    BY <1>1 DEF Commit, ForcePush, indexVars
  <2> QED
    BY <2>1 DEF TornByRun, Removed
<1>2. ASSUME NEW p \in Pods, NEW full \in BOOLEAN, NEW manual \in BOOLEAN, Start(p, full, manual)
      PROVE  TornByRun'
  <2>1. \A q \in Pods : run[q].phase = "idle"
    BY <1>2, ConstantsAssumption DEF Start, IInv, WriterHoldsLock
  <2>2. run'[p].phase = "begin" /\ \A q \in Pods \ {p} : run'[q].phase = "idle"
    BY <1>2, <2>1 DEF Start, NoRun, IInv, TypeInv, TypeOK
  <2>3. torn' = {} /\ aborted' = aborted
    BY <1>2, <2>1 DEF Start, indexVars, TornByRun, Reported
  <2> QED
    BY <2>2, <2>3 DEF TornByRun, Reported
<1>3. ASSUME NEW p \in Pods, Step(p) PROVE TornByRun'
  <2>1. run[p].phase # "idle"
    BY <1>3 DEF Step, SkipUnbuilt, Begin, ReadSource, Upsert, UpsertsDone, Delete, SetCursor, Finish, Interrupt
  <2>2. \A q \in Pods \ {p} : run[q].phase = "idle"
    BY <2>1, OthersIdle DEF IInv
  <2>3. run[p].phase \notin Reported => torn = {}
    BY <2>2 DEF TornByRun, Reported
  <2>4. CASE SkipUnbuilt(p) \/ Finish(p)
    <3>1. torn' = {} /\ \A q \in Pods : run'[q].phase = "idle" /\ ~aborted'[q]
      BY <2>2, <2>3, <2>4
         DEF SkipUnbuilt, Finish, Release, NoRun, indexVars, IInv, TypeInv, TypeOK, Reported, TornByRun
    <3> QED
      BY <3>1 DEF TornByRun, Reported
  <2>5. CASE Begin(p)
    <3>1. torn' = {} /\ aborted' = aborted /\ \A q \in Pods : run'[q].phase \in {"idle", "source"}
      BY <2>2, <2>3, <2>5 DEF Begin, NoRun, IInv, TypeInv, TypeOK, Reported
    <3> QED
      BY <3>1 DEF TornByRun, Reported
  <2>6. CASE ReadSource(p)
    <3>1. torn' = {} /\ aborted' = aborted
      BY <2>3, <2>6 DEF ReadSource, indexVars, Reported
    <3> QED
      BY <3>1 DEF TornByRun
  <2>7. CASE Upsert(p)
    <3>1. PICK x \in run[p].todo :
            /\ torn' \subseteq torn \cup {x}
            /\ run' = [run EXCEPT ![p].todo = @ \ {x}]
      BY <2>7 DEF Upsert
    <3>2. run[p].phase = "upsert" /\ aborted' = aborted
      BY <2>7 DEF Upsert
    <3>3. x \in run[p].upserts /\ torn \subseteq run[p].upserts \cup Removed(p)
      BY <3>1, <3>2 DEF IInv, RunsRight, ReportRight, TornByRun, Reported
    <3>4. /\ run'[p].phase = "upsert" /\ run'[p].upserts = run[p].upserts
          /\ run'[p].complete = run[p].complete /\ run'[p].deletes = run[p].deletes
          /\ \A q \in Pods \ {p} : run'[q].phase = "idle"
      BY <2>2, <3>1, <3>2 DEF IInv, TypeInv, TypeOK, Runs
    <3>5. torn' \subseteq run'[p].upserts \cup Removed(p)'
      BY <3>1, <3>3, <3>4 DEF Removed
    <3> QED
      BY <3>2, <3>4, <3>5 DEF TornByRun, Reported
  <2>8. CASE UpsertsDone(p) \/ Delete(p)
    <3>1. /\ run[p].phase \in {"upsert", "delete"} /\ aborted' = aborted
          /\ torn' \subseteq torn \cup Removed(p)
      BY <2>8 DEF UpsertsDone, Delete, indexVars
    <3>2. torn \subseteq run[p].upserts \cup Removed(p)
      BY <3>1 DEF TornByRun, Reported
    <3>3. /\ run'[p].phase \in {"delete", "setCursor"} /\ run'[p].upserts = run[p].upserts
          /\ run'[p].complete = run[p].complete /\ run'[p].deletes = run[p].deletes
          /\ \A q \in Pods \ {p} : run'[q].phase = "idle"
      BY <2>2, <2>8 DEF UpsertsDone, Delete, Goto, IInv, TypeInv, TypeOK, Runs
    <3>4. torn' \subseteq run'[p].upserts \cup Removed(p)'
      BY <3>1, <3>2, <3>3 DEF Removed
    <3> QED
      BY <3>1, <3>3, <3>4 DEF TornByRun, Reported
  <2>9. CASE SetCursor(p)
    <3>1. run[p].phase = "setCursor" /\ torn' = torn \ (run[p].upserts \cup Removed(p)) /\ aborted' = aborted
      BY <2>9 DEF SetCursor
    <3>2. torn' = {}
      BY <3>1 DEF TornByRun, Reported
    <3> QED
      BY <3>1, <3>2 DEF TornByRun
  <2>10. CASE Interrupt(p)
    BY <2>10 DEF Interrupt, TornByRun
  <2> QED
    BY <1>3, <2>4, <2>5, <2>6, <2>7, <2>8, <2>9, <2>10 DEF Step
<1>4. ASSUME NEW p \in Pods, Abort(p) \/ Fail(p) \/ Crash(p) PROVE FALSE
  BY <1>0, <1>4 DEF Abort, Fail, Crash
<1>5. CASE UNCHANGED vars
  BY <1>5 DEF vars, TornByRun, Removed
<1> QED
  BY <1>1, <1>2, <1>3, <1>4, <1>5 DEF Next

\* Every step of the indexer publishes, copies or advances, or changes nothing a reader sees.
LEMMA MirrorStep ==
  ASSUME IInv, IInv', TornByRun, [Next]_vars, faults' = 0
  PROVE  [Mirror!MirrorNext]_(Mirror!mirrorVars)
<1>0. Tip \in Nat \ {0} /\ faults = 0
  BY TipIsCommit, FaultsGrow DEF IInv, TypeInv
<1>1. CASE Commit \/ ForcePush
  BY <1>1 DEF Commit, ForcePush, indexVars, Mirror!MirrorNext, Mirror!Publish, Mirror!Trees, Trees
<1>2. ASSUME NEW p \in Pods, Upsert(p) PROVE [Mirror!MirrorNext]_(Mirror!mirrorVars)
  <2> DEFINE c == run[p].head
  <2>1. PICK x \in run[p].todo :
          docs' = IF history[c][x] \notin Unstorable THEN [docs EXCEPT ![x] = history[c][x]] ELSE docs
    BY <1>2 DEF Upsert
  <2>2. UNCHANGED <<history, cursor>> /\ run[p].phase = "upsert"
    BY <1>2 DEF Upsert
  <2>3. c \in 1..Len(history) /\ c >= cursor
    BY <2>2 DEF IInv, TypeInv, HeadIsCommit, RunsRight, ReportRight, Reported, Tip
  <2>4. x \in Paths /\ docs \in [Paths -> Contents \cup {Absent}]
    BY <2>1 DEF IInv, TypeInv, TypeOK, Runs
  <2> HIDE DEF c
  <2>5. CASE history[c][x] \in Unstorable
    BY <2>1, <2>2, <2>5 DEF Mirror!mirrorVars
  <2>6. CASE history[c][x] \notin Unstorable
    <3>1. docs' = [y \in Paths |-> IF y \in {x} THEN history[c][y] ELSE docs[y]]
      BY <2>1, <2>4, <2>6
    <3>2. {x} \in SUBSET {y \in Paths : history[c][y] \notin Unstorable}
      BY <2>4, <2>6
    <3> QED
      BY <2>2, <2>3, <3>1, <3>2 DEF Mirror!MirrorNext, Mirror!Copy
  <2> QED
    BY <2>5, <2>6
<1>3. ASSUME NEW p \in Pods, Delete(p) PROVE [Mirror!MirrorNext]_(Mirror!mirrorVars)
  <2> DEFINE c == run[p].head
  <2>1. /\ UNCHANGED <<history, cursor>> /\ run[p].phase = "delete"
        /\ docs' = [x \in Paths |-> IF x \in Removed(p) THEN Absent ELSE docs[x]]
    BY <1>3 DEF Delete
  <2>2. c \in 1..Len(history) /\ c >= cursor
    BY <2>1 DEF IInv, TypeInv, HeadIsCommit, RunsRight, ReportRight, Reported, Tip
  <2>3. Removed(p) \subseteq Paths /\ \A x \in Removed(p) : history[c][x] = Absent
    BY <2>1, SMTT(30) DEF IInv, RunsRight, ReportRight, Reported, Removed, Present, TypeInv, TypeOK, Runs
  <2> HIDE DEF c
  <2>4. Removed(p) \in SUBSET {x \in Paths : history[c][x] \notin Unstorable}
    BY <2>3, ConstantsAssumption
  <2>5. docs' = [x \in Paths |-> IF x \in Removed(p) THEN history[c][x] ELSE docs[x]]
    BY <2>1, <2>3
  <2> QED
    BY <2>1, <2>2, <2>4, <2>5 DEF Mirror!MirrorNext, Mirror!Copy
<1>4. ASSUME NEW p \in Pods, SetCursor(p) PROVE [Mirror!MirrorNext]_(Mirror!mirrorVars)
  <2> DEFINE c == run[p].head
  <2>1. UNCHANGED <<history, docs>> /\ run[p].phase = "setCursor" /\ cursor' = c
    BY <1>4 DEF SetCursor
  <2>2. c \in 1..Len(history) /\ c >= cursor
    BY <2>1 DEF IInv, TypeInv, HeadIsCommit, RunsRight, ReportRight, Reported, Tip
  <2>3. torn' = {}
    BY <1>4, <2>1 DEF SetCursor, TornByRun, Reported
  <2>4. \A x \in Paths : Mirror!Agrees(x, c)
    BY <1>0, <2>1, <2>2, <2>3 DEF IInv, OnlyTornDiffer, Mirror!Agrees, Tip
  <2> HIDE DEF c
  <2> QED
    BY <2>1, <2>2, <2>4 DEF Mirror!MirrorNext, Mirror!Advance
<1>5. ASSUME NEW p \in Pods, Abort(p) \/ Fail(p) \/ Crash(p) PROVE FALSE
  BY <1>0, <1>5 DEF Abort, Fail, Crash
<1>6. CASE UNCHANGED <<history, docs, cursor>>
  BY <1>6 DEF Mirror!mirrorVars
<1> QED
  BY <1>1, <1>2, <1>3, <1>4, <1>5, <1>6
     DEF Next, Step, Start, SkipUnbuilt, Begin, ReadSource, UpsertsDone, Finish, Interrupt, indexVars, vars

\* Up to its first fault the indexer implements SourceMirror: the cursor only ever names
\* a commit the whole index agrees with.
THEOREM MirrorUntilFault == Spec => MirrorsSource
<1> DEFINE Clean == faults = 0 => TornByRun
           Mirrored == faults' = 0 => Mirror!MirrorNext
<1>1. Init => Clean /\ Mirror!MirrorInit
  BY DEF Init, TornByRun, NoRun, Reported, Mirror!MirrorInit, Mirror!Trees, Trees
<1>2. IInv /\ Clean /\ [Next]_vars => Clean'
  BY TornByRunStep, FaultsGrow
<1>3. IInv /\ IInv' /\ Clean /\ [Next]_vars => [Mirrored]_(Mirror!mirrorVars)
  BY MirrorStep, FaultsGrow
<1> HIDE DEF Clean
<1>4. Spec => []Clean
  BY <1>1, <1>2, Invariance, PTL DEF Spec
<1> QED
  BY <1>1, <1>3, <1>4, Invariance, PTL DEF Spec, MirrorsSource
=============================================================================
