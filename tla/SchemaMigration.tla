---------------------------- MODULE SchemaMigration ----------------------------
(***************************************************************************)
(* What PostgresService and SchemaMigrator do to the database each time a  *)
(* pod of knowledge-base-api boots: the numbered migrations, then, under   *)
(* LOCK_MIGRATE, one vector index per embedding model and one row per      *)
(* knowledge base, whose change of language rewrites the chunks.           *)
(*                                                                         *)
(* One model and one knowledge base; every boot has a configuration of its *)
(* own, since pods of two releases overlap while a rollout lasts.  One SQL *)
(* statement is one step.  Pods that are ready go on writing chunks and    *)
(* vectors under the configuration they booted with.                       *)
(***************************************************************************)
EXTENDS Naturals, FiniteSets

CONSTANTS Pods,
          Languages,   \* text search configurations
          Sizes,       \* vector dimensions
          Chunks,
          MaxBoots,    \* bound on the boots
          MaxFaults,   \* bound on crashes and on statements that fail
          None

VARIABLES tables,   \* the numbered migrations are applied
          holder,   \* the pod that holds LOCK_MIGRATE, or None
          language, \* knowledge_bases.ts_config, or None
          fts,      \* each chunk: the language its vector was built in, or None
          indexes,  \* sizes an index of the model casts to
          vectors,  \* sizes of the vectors stored under the model's name
          pod,      \* each pod: step, configuration, what its last query told
          newest,   \* the pod whose migration finished, until another begins; or None
          torn,     \* a rewrite was due and its pod gave up before it
          mixed,    \* a pod wrote a chunk in another language than the row's
          boots, faults

store == <<tables, language, fts, indexes, vectors>>
history == <<newest, torn, mixed>>
vars == <<store, holder, pod, history, boots, faults>>

Down == [step |-> "down", lang |-> None, size |-> None, stale |-> {}]
Held == {"stale", "stored", "drop", "index", "row", "rewrite", "unlock", "failing"}

Init ==
    /\ tables = FALSE /\ holder = None /\ language = None
    /\ fts = [c \in Chunks |-> None]
    /\ indexes = {} /\ vectors = {}
    /\ pod = [p \in Pods |-> Down]
    /\ newest = None /\ torn = FALSE /\ mixed = FALSE
    /\ boots = 0 /\ faults = 0

TypeOK ==
    /\ tables \in BOOLEAN /\ torn \in BOOLEAN /\ mixed \in BOOLEAN
    /\ holder \in Pods \cup {None} /\ newest \in Pods \cup {None}
    /\ language \in Languages \cup {None}
    /\ fts \in [Chunks -> Languages \cup {None}]
    /\ indexes \subseteq Sizes /\ vectors \subseteq Sizes
    /\ \A p \in Pods: pod[p].step \in Held \cup {"down", "migrating", "waiting", "ready"}
    /\ boots \in 0 .. MaxBoots /\ faults \in 0 .. MaxFaults

At(p, step) == pod[p].step = step
Goto(p, step) == pod' = [pod EXCEPT ![p].step = step]
Learn(p, stale, step) ==
    pod' = [pod EXCEPT ![p] = [step |-> step, lang |-> pod[p].lang, size |-> pod[p].size, stale |-> stale]]

-----------------------------------------------------------------------------
(* $onInit opens the pool and starts the migrator on one connection. *)
Boot(p) ==
    /\ At(p, "down") /\ boots < MaxBoots
    /\ boots' = boots + 1
    /\ \E l \in Languages, s \in Sizes:
         pod' = [pod EXCEPT ![p] = [step |-> "migrating", lang |-> l, size |-> s, stale |-> {}]]
    /\ UNCHANGED <<store, holder, history, faults>>

(* node-pg-migrate: everything that is pending in one transaction, under a *)
(* lock of its own that a second pod waits for.                            *)
up == tables' = TRUE

RunMigrations(p) ==
    /\ At(p, "migrating")
    /\ up
    /\ Goto(p, "waiting")
    /\ UNCHANGED <<language, fts, indexes, vectors, holder, history, boots, faults>>

(* pg_advisory_lock *)
Lock(p) ==
    /\ At(p, "waiting") /\ holder = None
    /\ holder' = p
    /\ Goto(p, "stale")
    /\ newest' = None
    /\ UNCHANGED <<store, torn, mixed, boots, faults>>

-----------------------------------------------------------------------------
(* dropStaleModelIndexes: the model's indexes under another size; whether  *)
(* vectors of another size are stored; then the drop of each.              *)
FindStale(p) ==
    /\ At(p, "stale")
    /\ LET stale == indexes \ {pod[p].size} IN
       Learn(p, stale, IF stale = {} THEN "index" ELSE "stored")
    /\ UNCHANGED <<store, holder, history, boots, faults>>

CheckStored(p) ==
    /\ At(p, "stored")
    /\ Goto(p, IF vectors \subseteq {pod[p].size} THEN "drop" ELSE "failing")
    /\ UNCHANGED <<store, holder, history, boots, faults>>

(* mutant: the stale index is left in place *)
DropLeft(p) ==
    /\ At(p, "drop")
    /\ Goto(p, "index")
    /\ UNCHANGED <<store, holder, history, boots, faults>>

Drop(p) ==
    /\ At(p, "drop")
    /\ \E s \in pod[p].stale:
         /\ indexes' = indexes \ {s}
         /\ Learn(p, pod[p].stale \ {s}, IF pod[p].stale = {s} THEN "index" ELSE "drop")
    /\ UNCHANGED <<tables, language, fts, vectors, holder, history, boots, faults>>

(* ensureModelIndex: building the index casts every stored vector, and     *)
(* fails on one of another size.                                           *)
EnsureModelIndex(p) ==
    /\ At(p, "index")
    /\ IF pod[p].size \in indexes \/ vectors \subseteq {pod[p].size}
         THEN indexes' = indexes \cup {pod[p].size} /\ Goto(p, "row")
         ELSE UNCHANGED indexes /\ Goto(p, "failing")
    /\ UNCHANGED <<tables, language, fts, vectors, holder, history, boots, faults>>

-----------------------------------------------------------------------------
(* ensureKnowledgeBase: the upsert returns the language before and after,  *)
(* its WITH having read the row as it was when the statement began.        *)
Previous == language

(* mutant: the language before is read back from the row just written *)
UpsertReadBack(p) ==
    /\ At(p, "row")
    /\ language' = pod[p].lang
    /\ Goto(p, "unlock")
    /\ UNCHANGED <<tables, fts, indexes, vectors, holder, history, boots, faults>>

Upsert(p) ==
    /\ At(p, "row")
    /\ language' = pod[p].lang
    /\ Goto(p, IF Previous \notin {None, pod[p].lang} THEN "rewrite" ELSE "unlock")
    /\ UNCHANGED <<tables, fts, indexes, vectors, holder, history, boots, faults>>

(* ... and the chunks are rewritten in the row's language, in a statement  *)
(* and so a transaction of its own.                                        *)
ftsExpression(c) == IF fts[c] = None THEN None ELSE language

Rewrite(p) ==
    /\ At(p, "rewrite")
    /\ fts' = [c \in Chunks |-> ftsExpression(c)]
    /\ torn' = FALSE /\ mixed' = FALSE
    /\ Goto(p, "unlock")
    /\ UNCHANGED <<tables, language, indexes, vectors, holder, newest, boots, faults>>

(* The finally of migrate: the lock is given back; after a failure the     *)
(* boot fails with it.                                                     *)
Unlock(p) ==
    /\ At(p, "unlock")
    /\ holder' = None
    /\ Goto(p, "ready")
    /\ newest' = p
    /\ UNCHANGED <<store, torn, mixed, boots, faults>>

GiveUp(p) ==
    /\ At(p, "failing")
    /\ holder' = None
    /\ pod' = [pod EXCEPT ![p] = Down]
    /\ UNCHANGED <<store, history, boots, faults>>

-----------------------------------------------------------------------------
(* A statement fails (its timeout, the database): nothing of it is kept.   *)
StatementFails(p) ==
    /\ pod[p].step \in Held \ {"unlock", "failing"} /\ faults < MaxFaults
    /\ faults' = faults + 1
    /\ torn' = (torn \/ At(p, "rewrite"))
    /\ Goto(p, "failing")
    /\ UNCHANGED <<store, holder, newest, mixed, boots>>

(* The pod dies or is stopped, its connection and its lock with it. *)
Stop(p) ==
    /\ ~At(p, "down") /\ faults < MaxFaults
    /\ faults' = faults + 1
    /\ torn' = (torn \/ At(p, "rewrite"))
    /\ holder' = IF holder = p THEN None ELSE holder
    /\ pod' = [pod EXCEPT ![p] = Down]
    /\ newest' = IF newest = p THEN None ELSE newest
    /\ UNCHANGED <<store, mixed, boots>>

(* A ready pod's indexer writes a chunk: the language is a parameter of    *)
(* the statement, its own configuration's and not the row's.               *)
InsertChunk(p, c) ==
    /\ At(p, "ready")
    /\ fts' = [fts EXCEPT ![c] = pod[p].lang]
    /\ mixed' = (mixed \/ pod[p].lang # language)
    /\ UNCHANGED <<tables, language, indexes, vectors, holder, pod, newest, torn, boots, faults>>

(* ... and a vector, which an index of another size refuses. *)
InsertVector(p) ==
    /\ At(p, "ready") /\ indexes \subseteq {pod[p].size}
    /\ vectors' = vectors \cup {pod[p].size}
    /\ UNCHANGED <<tables, language, fts, indexes, holder, pod, history, boots, faults>>

(* What the message of a refused boot asks for: DELETE FROM embeddings. *)
OperatorDeletes ==
    /\ vectors # {}
    /\ vectors' = {}
    /\ UNCHANGED <<tables, language, fts, indexes, holder, pod, history, boots, faults>>

Next ==
    \/ \E p \in Pods: \/ Boot(p) \/ RunMigrations(p) \/ Lock(p)
                      \/ FindStale(p) \/ CheckStored(p) \/ Drop(p) \/ EnsureModelIndex(p)
                      \/ Upsert(p) \/ Rewrite(p) \/ Unlock(p) \/ GiveUp(p)
                      \/ StatementFails(p) \/ Stop(p)
                      \/ InsertVector(p)
                      \/ \E c \in Chunks: InsertChunk(p, c)
    \/ OperatorDeletes

Spec == Init /\ [][Next]_vars

-----------------------------------------------------------------------------
Written == {c \in Chunks: fts[c] # None}

(* The row, the index and the chunks are the newest boot's: until another  *)
(* pod begins to migrate, the pod that migrated last finds the row in its  *)
(* language and its index as the only one, so that its vectors are not     *)
(* refused by one of another size (dropStaleModelIndexes, SchemaMigrator   *)
(* lines 94-102).                                                          *)
NewestServed ==
    holder = None /\ newest # None
      => /\ language = pod[newest].lang
         /\ indexes = {pod[newest].size}

(* Chunks are searched in the language they were built in: outside of a    *)
(* migration, unless one stopped between the row's update and the rewrite  *)
(* or a pod of another configuration wrote since.                          *)
ChunksFollow ==
    holder = None /\ ~torn /\ ~mixed => \A c \in Written: fts[c] = language

SchemaServes == NewestServed /\ ChunksFollow

(* "A KB whose tsConfig changed gets its full-text vectors rewritten here" *)
(* (SchemaMigrator lines 33-34), with one pod, so that no other writes: a  *)
(* pod that is ready finds every chunk in the row's language.              *)
RewrittenHere ==
    \A p \in Pods: At(p, "ready") => \A c \in Written: fts[c] = language
================================================================================
