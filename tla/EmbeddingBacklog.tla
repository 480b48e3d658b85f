---------------------------- MODULE EmbeddingBacklog ----------------------------
(***************************************************************************)
(* From changed documents to chunks and their vectors: the part of a run   *)
(* of IndexerService that DocumentRepository and EmbeddingRepository carry *)
(* out, for one knowledge base.  "Pending" is no list: a chunk is pending  *)
(* under a model while it has no vector of that model.                     *)
(*                                                                         *)
(* Two runs may overlap, as they do once the connection that held the      *)
(* index lock is lost; each SQL statement or transaction is one step.  A   *)
(* chunk's text (title, heading, body) is its hash, and a vector is known  *)
(* by the text it was computed from.  The branch and Ollama are external.  *)
(***************************************************************************)
EXTENDS Naturals, Sequences, FiniteSets, SequencesExt

CONSTANTS Runs,          \* runs that may overlap
          Paths,
          Contents,      \* a document's chunks: sequences of texts
          Absent,
          Models,        \* kb.models, in no order that matters
          BatchSize,     \* embeddings.batchSize
          MaxScheduled,  \* indexer.maxScheduledEmbeddings
          MaxCommits, MaxRuns, MaxFailures   \* bounds

VARIABLES head,       \* external: the branch
          documents,  \* path -> <<>> or its chunks' ids by ord; Absent when not stored
          chunks,     \* ids in use -> text
          vectors,    \* embeddings: <<id, model>> -> the text it was computed from
          serial,     \* the chunks' sequence
          run,        \* per run: where it is
          seen,       \* history: per run, what had a vector when it was about to delete, until
                      \* another run writes a document
          commits, started, failures

vars == <<head, documents, chunks, vectors, serial, run, seen, commits, started, failures>>

Ids == DOMAIN chunks

NoRun == [at |-> "idle", manual |-> FALSE, upserts |-> {}, deletes |-> {}, source |-> <<>>,
          models |-> {}, model |-> "none", batch |-> {}]

Init ==
  /\ head = [p \in Paths |-> Absent]
  /\ documents = [p \in Paths |-> Absent]
  /\ chunks = <<>> /\ vectors = <<>> /\ serial = 1
  /\ run = [r \in Runs |-> NoRun]
  /\ seen = [r \in Runs |-> {}]
  /\ commits = 0 /\ started = 0 /\ failures = 0

\* External: a file is written, removed, or renamed.
Publish ==
  /\ commits < MaxCommits
  /\ commits' = commits + 1
  /\ \/ \E p \in Paths, c \in Contents \cup {Absent} : head' = [head EXCEPT ![p] = c] /\ head' # head
     \/ \E p, q \in Paths :
          /\ p # q /\ head[p] # Absent
          /\ head' = [head EXCEPT ![p] = Absent, ![q] = head[p]]
  /\ UNCHANGED <<documents, chunks, vectors, serial, run, seen, started, failures>>

----------------------------------------------------------------------------
(* Documents and their chunks *)

\* DocumentRepository's sameDocument and sameHashes.
Hashes(p) == [i \in DOMAIN documents[p] |-> chunks[documents[p][i]]]
SameDocument(p, content) == documents[p] # Absent /\ Hashes(p) = content

\* MUTANT: rows are reused by their place in the document.
ReusableByPlace(old, content, i) == IF i \in DOMAIN old THEN {old[i]} ELSE {}

\* reusable: the row of the document for its i-th chunk now.  Rows of one hash are used up in
\* their order, so the n-th chunk of a hash takes the n-th row of that hash.
Nth(texts, i) == Cardinality({j \in 1 .. i : texts[j] = texts[i]})
Reusable(old, content, i) ==
  LET hashes == [k \in DOMAIN old |-> chunks[old[k]]]
  IN  {old[k] : k \in {n \in DOMAIN old : hashes[n] = content[i] /\ Nth(hashes, n) = Nth(content, i)}}

\* reconcileChunks: a chunk whose hash survives keeps its row, others get a new one, and
\* what is left of the old rows goes with its vectors.
Reconcile(p, content) ==
  LET old == IF documents[p] = Absent THEN <<>> ELSE documents[p]
      fresh(i) == Cardinality({j \in 1 .. i : Reusable(old, content, j) = {}})
      row(i) == IF Reusable(old, content, i) # {} THEN CHOOSE id \in Reusable(old, content, i) : TRUE
                ELSE serial + fresh(i) - 1
      now == [i \in DOMAIN content |-> row(i)]
      kept == (Ids \ ToSet(old)) \cup ToSet(now)
  IN  /\ documents' = [documents EXCEPT ![p] = now]
      /\ serial' = serial + fresh(Len(content))
      /\ chunks' = [id \in kept |-> IF id \in ToSet(now) THEN content[CHOOSE i \in DOMAIN now : now[i] = id]
                                    ELSE chunks[id]]
      /\ vectors' = [v \in {w \in DOMAIN vectors : w[1] \in kept} |-> vectors[v]]

\* upsert, in one transaction: nothing to do for a document whose chunks are all the same.
Upsert(p, content) ==
  IF SameDocument(p, content) THEN UNCHANGED <<documents, chunks, vectors, serial>>
  ELSE Reconcile(p, content)

\* delete and deleteAllExcept: chunks and vectors go by the foreign keys.
Delete(paths) ==
  LET gone == UNION {ToSet(documents[p]) : p \in {q \in paths : documents[q] # Absent}}
  IN  /\ documents' = [p \in Paths |-> IF p \in paths THEN Absent ELSE documents[p]]
      /\ chunks' = [id \in Ids \ gone |-> chunks[id]]
      /\ vectors' = [v \in {w \in DOMAIN vectors : w[1] \notin gone} |-> vectors[v]]
      /\ UNCHANGED serial

----------------------------------------------------------------------------
(* Vectors *)

Pending(m) == {id \in Ids : <<id, m>> \notin DOMAIN vectors}

Twins(id, m) == {v \in DOMAIN vectors : v[2] = m /\ v[1] # id /\ v[1] \in Ids /\ chunks[v[1]] = chunks[id]}

\* copyByHash, for every model.
CopyByHash ==
  LET gains == {v \in Ids \X Models : v[1] \in Pending(v[2]) /\ Twins(v[1], v[2]) # {}}
  IN  vectors' = [v \in (DOMAIN vectors) \cup gains |->
                    IF v \in gains THEN vectors[CHOOSE t \in Twins(v[1], v[2]) : TRUE] ELSE vectors[v]]

\* pending: the oldest chunks without a vector, a batch of them, each with its text.
Batch(m) ==
  LET oldest == {id \in Pending(m) : Cardinality({other \in Pending(m) : other < id}) < BatchSize}
  IN  {<<id, chunks[id]>> : id \in oldest}

\* insert: a chunk that has gone is skipped, and so is one that has its vector by now.
Inserted(batch, m) == {b \in batch : b[1] \in Ids /\ <<b[1], m>> \notin DOMAIN vectors}
Insert(batch, m) ==
  LET gains == {<<b[1], m>> : b \in Inserted(batch, m)}
      text(v) == (CHOOSE b \in batch : b[1] = v[1])[2]
  IN  vectors' = [v \in (DOMAIN vectors) \cup gains |-> IF v \in gains THEN text(v) ELSE vectors[v]]

----------------------------------------------------------------------------
(* A run *)

Goes(r, record) == run' = [run EXCEPT ![r] = record]

\* The index lock keeps runs apart, unless the connection that held it was lost.
Locked == \E r \in Runs : run[r].at # "idle"

\* index has read the source: what differs from the index, as of the branch now.
Begin(r) ==
  /\ run[r].at = "idle" /\ started < MaxRuns
  /\ started' = started + 1
  /\ \/ ~Locked /\ UNCHANGED failures
     \/ Locked /\ failures < MaxFailures /\ failures' = failures + 1
  /\ \E manual \in BOOLEAN :
       Goes(r, [NoRun EXCEPT !.at = "upserting", !.manual = manual, !.source = head,
                  !.upserts = {p \in Paths : head[p] # Absent /\ ~SameDocument(p, head[p])},
                  !.deletes = {p \in Paths : head[p] = Absent /\ documents[p] # Absent}])
  /\ UNCHANGED <<head, documents, chunks, vectors, serial, seen, commits>>

\* One document at a time.
UpsertNext(r) ==
  /\ run[r].at = "upserting"
  /\ \E p \in run[r].upserts :
       /\ Upsert(p, run[r].source[p])
       /\ Goes(r, [run[r] EXCEPT !.upserts = @ \ {p}])
  /\ seen' = [q \in Runs |-> IF q = r THEN seen[q] ELSE {}]
  /\ UNCHANGED <<head, commits, started, failures>>

\* MUTANT: vectors are copied once the deletions are done.
CopyLate(r) ==
  /\ run[r].at = "upserting" /\ run[r].upserts = {}
  /\ Goes(r, [run[r] EXCEPT !.at = "deleting"])
  /\ seen' = [seen EXCEPT ![r] = {<<vectors[v], v[2]>> : v \in DOMAIN vectors}]
  /\ UNCHANGED <<head, documents, chunks, vectors, serial, commits, started, failures>>

\* Before deletions: a renamed file's old chunks still hold the vectors its new ones reuse.
Copy(r) ==
  /\ run[r].at = "upserting" /\ run[r].upserts = {}
  /\ CopyByHash
  /\ Goes(r, [run[r] EXCEPT !.at = "deleting"])
  /\ seen' = [seen EXCEPT ![r] = {<<vectors[v], v[2]>> : v \in DOMAIN vectors}]
  /\ UNCHANGED <<head, documents, chunks, serial, commits, started, failures>>

\* The deletions, then the cursor.
DeleteGone(r) ==
  /\ run[r].at = "deleting"
  /\ Delete(run[r].deletes)
  /\ Goes(r, [run[r] EXCEPT !.at = "model", !.models = Models])
  /\ UNCHANGED <<head, seen, commits, started, failures>>

\* The next model: a scheduled run leaves a large backlog alone.
NextModel(r) ==
  /\ run[r].at = "model"
  /\ \E m \in run[r].models :
       LET deferred == ~run[r].manual /\ Cardinality(Pending(m)) > MaxScheduled
       IN  Goes(r, [run[r] EXCEPT !.models = @ \ {m}, !.model = m, !.at = IF deferred THEN "model" ELSE "pending"])
  /\ UNCHANGED <<head, documents, chunks, vectors, serial, seen, commits, started, failures>>

\* embedPending asks for a batch, and stops when there is none.
Ask(r) ==
  /\ run[r].at = "pending"
  /\ LET batch == Batch(run[r].model)
     IN  Goes(r, [run[r] EXCEPT !.at = IF batch = {} THEN "model" ELSE "embedding", !.batch = batch])
  /\ UNCHANGED <<head, documents, chunks, vectors, serial, seen, commits, started, failures>>

\* The vectors have come, as many as asked for and of the model's dimensions, and are stored;
\* when none could be, every chunk of the batch has gone or has one.
Store(r) ==
  /\ run[r].at = "embedding"
  /\ Insert(run[r].batch, run[r].model)
  /\ Goes(r, [run[r] EXCEPT !.at = IF Inserted(run[r].batch, run[r].model) # {} THEN "pending" ELSE "model", !.batch = {}])
  /\ UNCHANGED <<head, documents, chunks, serial, seen, commits, started, failures>>

\* External: Ollama fails, or embed refuses its answer: too few vectors, or of other dimensions.
Unusable == failures < MaxFailures /\ failures' = failures + 1

\* The rest stays pending.
EmbedFails(r) ==
  /\ run[r].at = "embedding"
  /\ Unusable
  /\ Goes(r, [run[r] EXCEPT !.at = "model", !.batch = {}])
  /\ UNCHANGED <<head, documents, chunks, vectors, serial, seen, commits, started>>

\* The run is aborted, dies or loses the database at any of its steps.
Stop(r) ==
  /\ run[r].at # "idle"
  /\ failures < MaxFailures
  /\ failures' = failures + 1
  /\ Goes(r, NoRun)
  /\ seen' = [seen EXCEPT ![r] = {}]
  /\ UNCHANGED <<head, documents, chunks, vectors, serial, commits, started>>

Finish(r) ==
  /\ run[r].at = "model" /\ run[r].models = {}
  /\ Goes(r, NoRun)
  /\ seen' = [seen EXCEPT ![r] = {}]
  /\ UNCHANGED <<head, documents, chunks, vectors, serial, commits, started, failures>>

Step(r) ==
  \/ UpsertNext(r) \/ Copy(r) \/ DeleteGone(r) \/ NextModel(r)
  \/ Ask(r) \/ Store(r) \/ EmbedFails(r) \/ Finish(r)

Next == Publish \/ \E r \in Runs : Begin(r) \/ Step(r) \/ Stop(r)

Spec == Init /\ [][Next]_vars

----------------------------------------------------------------------------
(* Properties *)

TypeOK ==
  /\ \A p \in Paths : documents[p] # Absent => ToSet(documents[p]) \subseteq Ids
  /\ \A v \in DOMAIN vectors : v[1] \in Ids /\ v[2] \in Models
  /\ \A id \in Ids : id < serial /\ \E p \in Paths : documents[p] # Absent /\ id \in ToSet(documents[p])
  /\ \A r \in Runs : run[r].at \in {"idle", "upserting", "deleting", "model", "pending", "embedding"}

\* reconcileChunks: a vector always belongs to the text its chunk has now, whatever another run wrote
\* while Ollama was computing it.
VectorMatchesText == \A v \in DOMAIN vectors : vectors[v] = chunks[v[1]]

\* EmbeddingRepository: copyByHash "keeps it from being embedded a second time": while no other run is in
\* the way, a text that had a vector before the deletions is not sent to Ollama.
NotEmbeddedAgain ==
  \A r \in Runs : run[r].at = "embedding" =>
    \A b \in run[r].batch : <<b[2], run[r].model>> \notin seen[r]

=============================================================================
