------------------------- MODULE KnowledgeBaseProofs -------------------------
(***************************************************************************)
(* Why the parts of knowledge-base-api keep what they promise: over any    *)
(* number of pods, callers, calls, runs, documents, models and languages,  *)
(* whatever crashes, is refused, is lost on its way or overlaps, and       *)
(* whatever the index does under a search.                                 *)
(***************************************************************************)
EXTENDS MarkdownProofs, FiniteSetTheorems, TLAPS

----------------------------------------------------------------------------
(* SchemaMigration: what holds under the lock, and after the newest boot *)

PodStates == [step : Schema!Held \cup {"down", "migrating", "waiting", "ready"}, lang : Languages \cup {None},
              size : Sizes \cup {None}, stale : SUBSET Sizes]

\* What a pod at its step knows of the store: the lock is its own, and nobody else changes what it read.
PodLawful(q, p, lockedBy, ix, lang) ==
  /\ q.step # "down" => q.lang \in Languages /\ q.size \in Sizes
  /\ q.step \in Schema!Held => lockedBy = p
  /\ q.step \in {"stored", "drop"} => q.stale = ix \ {q.size} /\ q.stale # {}
  /\ q.step = "index" => ix \subseteq {q.size}
  /\ q.step \in {"row", "rewrite", "unlock"} => ix = {q.size}
  /\ q.step \in {"rewrite", "unlock"} => lang = q.lang
  /\ lang = None => q.step # "ready"

\* The pod that migrated last is ready, and is what the store says.
NewestLawful ==
  newest # None =>
    /\ newest \in SchemaPods /\ holder = None /\ pod[newest].step = "ready"
    /\ language = pod[newest].lang /\ indexes = {pod[newest].size}

\* Chunks are in the row's language but for the time between the row and the rewrite.
ChunksLawful ==
  /\ language = None => \A c \in Chunks : fts[c] = None
  /\ ~torn /\ ~mixed /\ (\A p \in SchemaPods : pod[p].step # "rewrite") => \A c \in Chunks : fts[c] \in {None, language}

SchemaTypes ==
  /\ pod \in [SchemaPods -> PodStates]
  /\ language \in Languages \cup {None}
  /\ fts \in [Chunks -> Languages \cup {None}]
  /\ indexes \in SUBSET Sizes

SchemaInv ==
  /\ SchemaTypes
  /\ \A p \in SchemaPods : PodLawful(pod[p], p, holder, indexes, language)
  /\ NewestLawful /\ ChunksLawful

\* Nothing is there yet.
LEMMA SchemaInit == Schema!Init => SchemaInv
<1> SUFFICES ASSUME Schema!Init PROVE SchemaInv
  OBVIOUS
<1>1. Schema!Down \in PodStates /\ Schema!Down.step = "down"
  BY DEF Schema!Down, PodStates
<1>2. /\ pod = [p \in SchemaPods |-> Schema!Down] /\ language = None /\ fts = [c \in Chunks |-> None]
      /\ indexes = {} /\ newest = None
  BY DEF Schema!Init
<1>3. \A p \in SchemaPods : PodLawful(pod[p], p, holder, indexes, language)
  BY <1>1, <1>2 DEF PodLawful, Schema!Held
<1> QED
  BY <1>1, <1>2, <1>3 DEF SchemaInv, SchemaTypes, NewestLawful, ChunksLawful

\* A pod takes a step.
LEMMA PodMoves ==
  ASSUME SchemaTypes, NEW p \in SchemaPods, NEW step
  PROVE  LET k == [pod[p] EXCEPT !.step = step]
         IN  /\ k.step = step /\ k.lang = pod[p].lang /\ k.size = pod[p].size /\ k.stale = pod[p].stale
             /\ step \in Schema!Held \cup {"down", "migrating", "waiting", "ready"} => k \in PodStates
  BY DEF SchemaTypes, PodStates

\* One pod is k now, and the others are what they were.
LEMMA PodPut ==
  ASSUME SchemaTypes, NEW p \in SchemaPods, NEW k \in PodStates, pod' = [pod EXCEPT ![p] = k]
  PROVE  pod' \in [SchemaPods -> PodStates] /\ pod'[p] = k /\ \A o \in SchemaPods \ {p} : pod'[o] = pod[o]
  BY DEF SchemaTypes

\* Goto, for a pod whose step is known.
LEMMA PodGoes ==
  ASSUME SchemaTypes, NEW p \in SchemaPods, NEW step \in Schema!Held \cup {"migrating", "waiting", "ready"},
         Schema!Goto(p, step)
  PROVE  /\ pod' \in [SchemaPods -> PodStates] /\ \A o \in SchemaPods \ {p} : pod'[o] = pod[o]
         /\ pod'[p].step = step /\ pod'[p].lang = pod[p].lang /\ pod'[p].size = pod[p].size /\ pod'[p].stale = pod[p].stale
<1> DEFINE k == [pod[p] EXCEPT !.step = step]
<1>1. k.step = step /\ k.lang = pod[p].lang /\ k.size = pod[p].size /\ k.stale = pod[p].stale /\ k \in PodStates
  BY PodMoves
<1>2. pod' = [pod EXCEPT ![p] = k]
  BY DEF Schema!Goto
<1> HIDE DEF k
<1> QED
  BY <1>1, <1>2, PodPut

\* A step of a pod that changes nothing but itself, and does not reach the rewrite.
LEMMA SchemaQuiet ==
  ASSUME SchemaInv, NEW p \in SchemaPods, pod' \in [SchemaPods -> PodStates],
         \A o \in SchemaPods \ {p} : pod'[o] = pod[o],
         UNCHANGED <<language, fts, indexes, holder, newest, torn, mixed>>,
         pod[p].step \notin {"ready", "rewrite"},
         PodLawful(pod'[p], p, holder, indexes, language)
  PROVE  SchemaInv'
<1>1. SchemaTypes'
  BY DEF SchemaInv, SchemaTypes
<1>2. \A o \in SchemaPods : PodLawful(pod'[o], o, holder, indexes, language)
  BY DEF SchemaInv
<1>3. NewestLawful'
  BY DEF SchemaInv, NewestLawful
<1>4. ChunksLawful'
  BY DEF SchemaInv, ChunksLawful
<1> QED
  BY <1>1, <1>2, <1>3, <1>4 DEF SchemaInv

\* A boot, and the numbered migrations.
LEMMA BootStep == ASSUME SchemaInv, NEW p \in SchemaPods, Schema!Boot(p) \/ Schema!RunMigrations(p) PROVE SchemaInv'
<1>1. SchemaTypes /\ PodLawful(pod[p], p, holder, indexes, language)
  BY DEF SchemaInv
<1>2. CASE Schema!Boot(p)
  <2>1. PICK l \in Languages, s \in Sizes :
          pod' = [pod EXCEPT ![p] = [step |-> "migrating", lang |-> l, size |-> s, stale |-> {}]]
    BY <1>2 DEF Schema!Boot
  <2> DEFINE k == [step |-> "migrating", lang |-> l, size |-> s, stale |-> {}]
  <2>3. k \in PodStates
    BY DEF PodStates
  <2>4. k.step = "migrating" /\ k.lang \in Languages /\ k.size \in Sizes
    OBVIOUS
  <2>5. pod' = [pod EXCEPT ![p] = k]
    BY <2>1
  <2> HIDE DEF k
  <2>6. /\ pod' \in [SchemaPods -> PodStates] /\ \A o \in SchemaPods \ {p} : pod'[o] = pod[o]
        /\ PodLawful(pod'[p], p, holder, indexes, language)
    BY <1>1, <2>3, <2>4, <2>5, PodPut DEF PodLawful, Schema!Held
  <2>7. pod[p].step = "down" /\ UNCHANGED <<language, fts, indexes, holder, newest, torn, mixed>>
    BY <1>2 DEF Schema!Boot, Schema!At, Schema!store, Schema!history
  <2> QED
    BY <2>6, <2>7, SchemaQuiet
<1>3. CASE Schema!RunMigrations(p)
  <2>1. /\ pod[p].step = "migrating" /\ Schema!Goto(p, "waiting")
        /\ UNCHANGED <<language, fts, indexes, holder, newest, torn, mixed>>
    BY <1>3 DEF Schema!RunMigrations, Schema!At, Schema!history
  <2>2. /\ pod' \in [SchemaPods -> PodStates] /\ \A o \in SchemaPods \ {p} : pod'[o] = pod[o]
        /\ PodLawful(pod'[p], p, holder, indexes, language)
    BY <1>1, <2>1, PodGoes DEF PodLawful, Schema!Held
  <2> QED
    BY <2>1, <2>2, SchemaQuiet
<1> QED
  BY <1>2, <1>3

\* The lock is free: nobody else is past it.
LEMMA LockStep == ASSUME SchemaInv, NEW p \in SchemaPods, Schema!Lock(p) PROVE SchemaInv'
<1>1. /\ SchemaTypes /\ \A o \in SchemaPods : PodLawful(pod[o], o, holder, indexes, language)
      /\ pod[p].step = "waiting" /\ Schema!Goto(p, "stale") /\ holder = None /\ holder' = p /\ newest' = None
      /\ UNCHANGED <<language, fts, indexes, torn, mixed>>
  BY DEF SchemaInv, Schema!Lock, Schema!At, Schema!store
<1>2. /\ pod' \in [SchemaPods -> PodStates] /\ \A o \in SchemaPods \ {p} : pod'[o] = pod[o]
      /\ pod'[p].step = "stale" /\ pod'[p].lang = pod[p].lang /\ pod'[p].size = pod[p].size
  BY <1>1, PodGoes DEF Schema!Held
<1>3. PodLawful(pod'[p], p, holder', indexes', language')
  BY <1>1, <1>2 DEF PodLawful
<1>4. \A o \in SchemaPods \ {p} : PodLawful(pod'[o], o, holder', indexes', language')
  BY <1>1, <1>2, KnowledgeBaseAssumption DEF PodLawful, Schema!Held
<1>5. SchemaTypes' /\ NewestLawful' /\ ChunksLawful'
  BY <1>1, <1>2 DEF SchemaInv, SchemaTypes, NewestLawful, ChunksLawful
<1> QED
  BY <1>3, <1>4, <1>5 DEF SchemaInv

\* Learn, for a pod whose step is known.
LEMMA PodLearns ==
  ASSUME SchemaTypes, NEW p \in SchemaPods, NEW step \in Schema!Held \cup {"migrating", "waiting", "ready"},
         NEW stale \in SUBSET Sizes, Schema!Learn(p, stale, step)
  PROVE  /\ pod' \in [SchemaPods -> PodStates] /\ \A o \in SchemaPods \ {p} : pod'[o] = pod[o]
         /\ pod'[p].step = step /\ pod'[p].lang = pod[p].lang /\ pod'[p].size = pod[p].size /\ pod'[p].stale = stale
<1> DEFINE k == [step |-> step, lang |-> pod[p].lang, size |-> pod[p].size, stale |-> stale]
<1>1. k.step = step /\ k.lang = pod[p].lang /\ k.size = pod[p].size /\ k.stale = stale
  OBVIOUS
<1>2. k \in PodStates
  BY DEF SchemaTypes, PodStates
<1>3. pod' = [pod EXCEPT ![p] = k]
  BY DEF Schema!Learn
<1> HIDE DEF k
<1> QED
  BY <1>1, <1>2, <1>3, PodPut

\* What the holder of the lock changes is nothing the others at work know, and the newest is not among them.
LEMMA HolderOnly ==
  ASSUME SchemaInv, NEW p \in SchemaPods, pod[p].step \in Schema!Held, NEW o \in SchemaPods \ {p}
  PROVE  /\ holder = p /\ newest = None /\ pod[o].step \notin Schema!Held
         /\ pod[o].step # "down" => pod[o].lang \in Languages /\ pod[o].size \in Sizes
BY KnowledgeBaseAssumption DEF SchemaInv, PodLawful, NewestLawful

\* The holder of the lock takes a step, keeps the lock and leaves the chunks and the language alone.
LEMMA HolderSteps ==
  ASSUME SchemaInv, NEW p \in SchemaPods, pod[p].step \in Schema!Held \ {"rewrite"},
         pod' \in [SchemaPods -> PodStates], \A o \in SchemaPods \ {p} : pod'[o] = pod[o],
         UNCHANGED <<language, fts, holder, newest, torn, mixed>>, indexes' \in SUBSET Sizes,
         PodLawful(pod'[p], p, holder, indexes', language)
  PROVE  SchemaInv'
<1>1. SchemaTypes'
  BY DEF SchemaInv, SchemaTypes
<1>2. holder = p /\ newest = None
  BY KnowledgeBaseAssumption DEF SchemaInv, PodLawful, NewestLawful
<1>3. \A o \in SchemaPods : PodLawful(pod'[o], o, holder, indexes', language)
  <2> SUFFICES ASSUME NEW o \in SchemaPods \ {p} PROVE PodLawful(pod'[o], o, holder, indexes', language)
    OBVIOUS
  <2>1. PodLawful(pod[o], o, holder, indexes, language) /\ pod[o].step \notin Schema!Held
    BY HolderOnly DEF SchemaInv
  <2> QED
    BY <2>1 DEF PodLawful, Schema!Held
<1>4. NewestLawful'
  BY <1>2 DEF NewestLawful
<1>5. ChunksLawful'
  BY DEF SchemaInv, ChunksLawful
<1> QED
  BY <1>1, <1>3, <1>4, <1>5 DEF SchemaInv

\* dropStaleModelIndexes and ensureModelIndex.
LEMMA IndexStep ==
  ASSUME SchemaInv, NEW p \in SchemaPods,
         Schema!FindStale(p) \/ Schema!CheckStored(p) \/ Schema!Drop(p) \/ Schema!EnsureModelIndex(p)
  PROVE  SchemaInv'
<1>1. SchemaTypes /\ PodLawful(pod[p], p, holder, indexes, language) /\ indexes \in SUBSET Sizes
  BY DEF SchemaInv, SchemaTypes
<1>2. CASE Schema!FindStale(p)
  <2> DEFINE stale == indexes \ {pod[p].size}
             step == IF stale = {} THEN "index" ELSE "stored"
  <2>1. /\ pod[p].step = "stale" /\ Schema!Learn(p, stale, step)
        /\ UNCHANGED <<language, fts, indexes, holder, newest, torn, mixed>>
    BY <1>2 DEF Schema!FindStale, Schema!At, Schema!store, Schema!history
  <2>2. /\ pod' \in [SchemaPods -> PodStates] /\ \A o \in SchemaPods \ {p} : pod'[o] = pod[o]
        /\ pod'[p].step = step /\ pod'[p].lang = pod[p].lang /\ pod'[p].size = pod[p].size /\ pod'[p].stale = stale
    <3>1. step \in Schema!Held \cup {"migrating", "waiting", "ready"} /\ stale \in SUBSET Sizes
      BY <1>1 DEF Schema!Held
    <3> HIDE DEF step, stale
    <3> QED
      BY <1>1, <2>1, <3>1, PodLearns
  <2>3. PodLawful(pod'[p], p, holder, indexes, language)
    BY <1>1, <2>1, <2>2 DEF PodLawful, Schema!Held
  <2> QED
    BY <1>1, <2>1, <2>2, <2>3, HolderSteps DEF Schema!Held
<1>3. CASE Schema!CheckStored(p)
  <2>1. PICK step \in {"drop", "failing"} : Schema!Goto(p, step)
    BY <1>3 DEF Schema!CheckStored
  <2>2. pod[p].step = "stored" /\ UNCHANGED <<language, fts, indexes, holder, newest, torn, mixed>>
    BY <1>3 DEF Schema!CheckStored, Schema!At, Schema!store, Schema!history
  <2>3. /\ pod' \in [SchemaPods -> PodStates] /\ \A o \in SchemaPods \ {p} : pod'[o] = pod[o]
        /\ pod'[p].step = step /\ pod'[p].lang = pod[p].lang /\ pod'[p].size = pod[p].size
        /\ pod'[p].stale = pod[p].stale
    BY <1>1, <2>1, PodGoes DEF Schema!Held
  <2>4. PodLawful(pod'[p], p, holder, indexes, language)
    BY <1>1, <2>1, <2>2, <2>3 DEF PodLawful, Schema!Held
  <2> QED
    BY <1>1, <2>2, <2>3, <2>4, HolderSteps DEF Schema!Held
<1>4. CASE Schema!Drop(p)
  <2>1. PICK s \in pod[p].stale :
          /\ indexes' = indexes \ {s}
          /\ Schema!Learn(p, pod[p].stale \ {s}, IF pod[p].stale = {s} THEN "index" ELSE "drop")
    BY <1>4 DEF Schema!Drop
  <2>2. pod[p].step = "drop" /\ UNCHANGED <<language, fts, holder, newest, torn, mixed>>
    BY <1>4 DEF Schema!Drop, Schema!At, Schema!history
  <2>3. pod[p].stale = indexes \ {pod[p].size}
    BY <1>1, <2>2 DEF PodLawful
  <2> DEFINE stale == pod[p].stale \ {s}
             step == IF pod[p].stale = {s} THEN "index" ELSE "drop"
  <2>4. /\ pod' \in [SchemaPods -> PodStates] /\ \A o \in SchemaPods \ {p} : pod'[o] = pod[o]
        /\ pod'[p].step = step /\ pod'[p].lang = pod[p].lang /\ pod'[p].size = pod[p].size /\ pod'[p].stale = stale
    <3>1. step \in Schema!Held \cup {"migrating", "waiting", "ready"} /\ stale \in SUBSET Sizes /\ Schema!Learn(p, stale, step)
      BY <1>1, <2>1, <2>3 DEF Schema!Held
    <3> HIDE DEF step, stale
    <3> QED
      BY <1>1, <3>1, PodLearns
  <2>5. stale = indexes' \ {pod'[p].size} /\ (step = "index" => stale = {}) /\ (step = "drop" => stale # {})
    BY <2>1, <2>3, <2>4
  <2>6. step \in {"index", "drop"}
    OBVIOUS
  <2> HIDE DEF step, stale
  <2>7. PodLawful(pod'[p], p, holder, indexes', language)
    BY <1>1, <2>2, <2>4, <2>5, <2>6 DEF PodLawful, Schema!Held
  <2> QED
    BY <1>1, <2>1, <2>2, <2>4, <2>7, HolderSteps DEF Schema!Held
<1>5. CASE Schema!EnsureModelIndex(p)
  <2>1. pod[p].step = "index" /\ UNCHANGED <<language, fts, holder, newest, torn, mixed>>
    BY <1>5 DEF Schema!EnsureModelIndex, Schema!At, Schema!history
  <2>2. PICK step \in {"row", "failing"} :
          Schema!Goto(p, step) /\ indexes' = IF step = "row" THEN indexes \cup {pod[p].size} ELSE indexes
    BY <1>5 DEF Schema!EnsureModelIndex
  <2>3. /\ pod' \in [SchemaPods -> PodStates] /\ \A o \in SchemaPods \ {p} : pod'[o] = pod[o]
        /\ pod'[p].step = step /\ pod'[p].lang = pod[p].lang /\ pod'[p].size = pod[p].size
        /\ pod'[p].stale = pod[p].stale
    BY <1>1, <2>2, PodGoes DEF Schema!Held
  <2>4. PodLawful(pod'[p], p, holder, indexes', language) /\ indexes' \in SUBSET Sizes
    BY <1>1, <2>1, <2>2, <2>3 DEF PodLawful, Schema!Held
  <2> QED
    BY <1>1, <2>1, <2>3, <2>4, HolderSteps DEF Schema!Held
<1> QED
  BY <1>2, <1>3, <1>4, <1>5

\* ensureKnowledgeBase: the row's language before says whether the chunks have to be rewritten.
LEMMA UpsertStep == ASSUME SchemaInv, NEW p \in SchemaPods, Schema!Upsert(p) PROVE SchemaInv'
<1>1. /\ SchemaTypes /\ PodLawful(pod[p], p, holder, indexes, language) /\ pod[p].step = "row"
      /\ language' = pod[p].lang /\ UNCHANGED <<fts, indexes, holder, newest, torn, mixed>>
  BY DEF SchemaInv, Schema!Upsert, Schema!At, Schema!history
<1>2. PICK step \in {"rewrite", "unlock"} :
        Schema!Goto(p, step) /\ (step = "unlock" => language \in {None, pod[p].lang})
  BY DEF Schema!Upsert, Schema!Previous
<1>3. /\ pod' \in [SchemaPods -> PodStates] /\ \A o \in SchemaPods \ {p} : pod'[o] = pod[o]
      /\ pod'[p].step = step /\ pod'[p].lang = pod[p].lang /\ pod'[p].size = pod[p].size
  BY <1>1, <1>2, PodGoes DEF Schema!Held
<1>4. pod[p].lang \in Languages /\ pod[p].lang # None /\ holder = p /\ newest = None
  BY <1>1, KnowledgeBaseAssumption DEF SchemaInv, PodLawful, NewestLawful, Schema!Held
<1>5. \A o \in SchemaPods : PodLawful(pod'[o], o, holder, indexes, language')
  <2>1. PodLawful(pod'[p], p, holder, indexes, language')
    BY <1>1, <1>3, <1>4 DEF PodLawful
  <2>2. ASSUME NEW o \in SchemaPods \ {p} PROVE PodLawful(pod'[o], o, holder, indexes, language')
    <3>1. PodLawful(pod[o], o, holder, indexes, language) /\ pod[o].step \notin Schema!Held
      BY <1>1, HolderOnly DEF SchemaInv, Schema!Held
    <3> QED
      BY <1>1, <1>3, <1>4, <3>1 DEF PodLawful, Schema!Held
  <2> QED
    BY <2>1, <2>2
<1>6. SchemaTypes' /\ NewestLawful'
  BY <1>1, <1>3, <1>4 DEF SchemaTypes, NewestLawful
<1>7. ChunksLawful'
  <2>1. language' # None
    BY <1>1, <1>4
  <2>2. ASSUME ~torn, ~mixed, \A o \in SchemaPods : pod'[o].step # "rewrite"
        PROVE  \A c \in Chunks : fts[c] \in {None, language'}
    <3>1. step = "unlock" /\ language \in {None, pod[p].lang}
      BY <1>2, <1>3, <2>2
    <3>2. \A o \in SchemaPods : pod[o].step # "rewrite"
      BY <1>1, <1>3, <2>2
    <3> QED
      BY <1>1, <2>2, <3>1, <3>2 DEF SchemaInv, ChunksLawful
  <2> QED
    BY <1>1, <2>1, <2>2 DEF ChunksLawful
<1> QED
  BY <1>1, <1>5, <1>6, <1>7 DEF SchemaInv

\* The rewrite takes every chunk to the row's language, whatever it was in.
LEMMA RewriteStep == ASSUME SchemaInv, NEW p \in SchemaPods, Schema!Rewrite(p) PROVE SchemaInv'
<1>1. /\ SchemaTypes /\ PodLawful(pod[p], p, holder, indexes, language) /\ pod[p].step = "rewrite"
      /\ fts' = [c \in Chunks |-> Schema!ftsExpression(c)] /\ Schema!Goto(p, "unlock")
      /\ UNCHANGED <<language, indexes, holder, newest>>
  BY DEF SchemaInv, Schema!Rewrite, Schema!At
<1>2. /\ pod' \in [SchemaPods -> PodStates] /\ \A o \in SchemaPods \ {p} : pod'[o] = pod[o]
      /\ pod'[p].step = "unlock" /\ pod'[p].lang = pod[p].lang /\ pod'[p].size = pod[p].size
  BY <1>1, PodGoes DEF Schema!Held
<1>3. \A c \in Chunks : fts'[c] \in {None, language}
  BY <1>1 DEF Schema!ftsExpression
<1>4. \A o \in SchemaPods : PodLawful(pod'[o], o, holder, indexes, language)
  <2>1. PodLawful(pod'[p], p, holder, indexes, language)
    BY <1>1, <1>2 DEF PodLawful, Schema!Held
  <2> QED
    BY <1>2, <2>1 DEF SchemaInv
<1>5. newest = None /\ SchemaTypes'
  BY <1>1, <1>2, <1>3, KnowledgeBaseAssumption DEF SchemaInv, SchemaTypes, PodLawful, NewestLawful, Schema!Held
<1> QED
  BY <1>1, <1>3, <1>4, <1>5 DEF SchemaInv, NewestLawful, ChunksLawful

\* The lock is given back, and what its holder made of the store is what the newest boot finds.
LEMMA UnlockStep == ASSUME SchemaInv, NEW p \in SchemaPods, Schema!Unlock(p) PROVE SchemaInv'
<1>1. /\ SchemaTypes /\ PodLawful(pod[p], p, holder, indexes, language) /\ pod[p].step = "unlock"
      /\ holder' = None /\ newest' = p /\ Schema!Goto(p, "ready")
      /\ UNCHANGED <<language, fts, indexes, torn, mixed>>
  BY DEF SchemaInv, Schema!Unlock, Schema!At, Schema!store
<1>2. /\ pod' \in [SchemaPods -> PodStates] /\ \A o \in SchemaPods \ {p} : pod'[o] = pod[o]
      /\ pod'[p].step = "ready" /\ pod'[p].lang = pod[p].lang /\ pod'[p].size = pod[p].size
  BY <1>1, PodGoes
<1>3. language = pod[p].lang /\ language \in Languages /\ indexes = {pod[p].size} /\ language # None
  BY <1>1, KnowledgeBaseAssumption DEF PodLawful
<1>4. \A o \in SchemaPods : PodLawful(pod'[o], o, holder', indexes, language)
  <2>1. PodLawful(pod'[p], p, holder', indexes, language)
    BY <1>1, <1>2, <1>3 DEF PodLawful, Schema!Held
  <2>2. ASSUME NEW o \in SchemaPods \ {p} PROVE PodLawful(pod'[o], o, holder', indexes, language)
    <3>1. PodLawful(pod[o], o, holder, indexes, language) /\ pod[o].step \notin Schema!Held
      BY <1>1, HolderOnly DEF SchemaInv, Schema!Held
    <3> QED
      BY <1>2, <3>1 DEF PodLawful, Schema!Held
  <2> QED
    BY <2>1, <2>2
<1>5. NewestLawful'
  BY <1>1, <1>2, <1>3 DEF NewestLawful
<1>6. SchemaTypes' /\ ChunksLawful'
  BY <1>1, <1>2 DEF SchemaInv, SchemaTypes, ChunksLawful
<1> QED
  BY <1>1, <1>4, <1>5, <1>6 DEF SchemaInv

\* A pod goes down, with the lock if it had it; a rewrite it owed is remembered as torn.
LEMMA PodDown ==
  ASSUME SchemaInv, NEW p \in SchemaPods, pod' = [pod EXCEPT ![p] = Schema!Down],
         UNCHANGED <<language, fts, indexes, mixed>>,
         holder' = IF holder = p THEN None ELSE holder,
         newest' = IF newest = p THEN None ELSE newest,
         ~torn' => ~torn /\ pod[p].step # "rewrite"
  PROVE  SchemaInv'
<1>1. Schema!Down \in PodStates /\ Schema!Down.step = "down"
  BY DEF Schema!Down, PodStates
<1>2. pod' \in [SchemaPods -> PodStates] /\ pod'[p].step = "down" /\ \A o \in SchemaPods \ {p} : pod'[o] = pod[o]
  BY <1>1, PodPut DEF SchemaInv
<1>3. \A o \in SchemaPods : PodLawful(pod'[o], o, holder', indexes, language)
  <2>1. PodLawful(pod'[p], p, holder', indexes, language)
    BY <1>2 DEF PodLawful, Schema!Held
  <2>2. ASSUME NEW o \in SchemaPods \ {p} PROVE PodLawful(pod'[o], o, holder', indexes, language)
    <3>1. PodLawful(pod[o], o, holder, indexes, language)
      BY DEF SchemaInv
    <3> QED
      BY <1>2, <3>1 DEF PodLawful, Schema!Held
  <2> QED
    BY <2>1, <2>2
<1>4. NewestLawful'
  BY <1>2 DEF SchemaInv, NewestLawful
<1>5. SchemaTypes' /\ ChunksLawful'
  BY <1>2 DEF SchemaInv, SchemaTypes, ChunksLawful
<1> QED
  BY <1>3, <1>4, <1>5 DEF SchemaInv

\* A boot that fails, a statement that fails, a pod that stops.
LEMMA FailStep ==
  ASSUME SchemaInv, NEW p \in SchemaPods, Schema!GiveUp(p) \/ Schema!StatementFails(p) \/ Schema!Stop(p)
  PROVE  SchemaInv'
<1>1. SchemaTypes /\ PodLawful(pod[p], p, holder, indexes, language)
  BY DEF SchemaInv
<1>2. CASE Schema!GiveUp(p)
  <2>1. /\ pod[p].step = "failing" /\ pod' = [pod EXCEPT ![p] = Schema!Down] /\ holder' = None
        /\ UNCHANGED <<language, fts, indexes, newest, torn, mixed>>
    BY <1>2 DEF Schema!GiveUp, Schema!At, Schema!store, Schema!history
  <2>2. holder = p /\ newest = None
    BY <1>1, <2>1, KnowledgeBaseAssumption DEF SchemaInv, PodLawful, NewestLawful, Schema!Held
  <2> QED
    BY <2>1, <2>2, PodDown
<1>3. CASE Schema!StatementFails(p)
  <2>1. /\ pod[p].step \in Schema!Held \ {"unlock", "failing"} /\ Schema!Goto(p, "failing")
        /\ torn' = (torn \/ pod[p].step = "rewrite")
        /\ UNCHANGED <<language, fts, indexes, holder, newest, mixed>>
    BY <1>3 DEF Schema!StatementFails, Schema!At, Schema!store
  <2>2. /\ pod' \in [SchemaPods -> PodStates] /\ \A o \in SchemaPods \ {p} : pod'[o] = pod[o]
        /\ pod'[p].step = "failing" /\ pod'[p].lang = pod[p].lang /\ pod'[p].size = pod[p].size
    BY <1>1, <2>1, PodGoes DEF Schema!Held
  <2>3. PodLawful(pod'[p], p, holder, indexes, language)
    BY <1>1, <2>1, <2>2 DEF PodLawful, Schema!Held
  <2>4. newest = None
    BY <1>1, <2>1, KnowledgeBaseAssumption DEF SchemaInv, PodLawful, NewestLawful, Schema!Held
  <2>5. SchemaTypes' /\ NewestLawful' /\ ChunksLawful'
    BY <2>1, <2>2, <2>4 DEF SchemaInv, SchemaTypes, NewestLawful, ChunksLawful
  <2>6. \A o \in SchemaPods : PodLawful(pod'[o], o, holder, indexes, language)
    BY <2>2, <2>3 DEF SchemaInv
  <2> QED
    BY <2>1, <2>5, <2>6 DEF SchemaInv
<1>4. CASE Schema!Stop(p)
  <2>1. /\ pod' = [pod EXCEPT ![p] = Schema!Down] /\ UNCHANGED <<language, fts, indexes, mixed>>
        /\ holder' = IF holder = p THEN None ELSE holder
        /\ newest' = IF newest = p THEN None ELSE newest
        /\ torn' = (torn \/ pod[p].step = "rewrite")
    BY <1>4 DEF Schema!Stop, Schema!At, Schema!store
  <2> QED
    BY <2>1, PodDown
<1> QED
  BY <1>2, <1>3, <1>4

\* A pod that is ready writes a chunk: in another language than the row's, it is remembered.
LEMMA InsertStep ==
  ASSUME SchemaInv, NEW p \in SchemaPods, NEW c \in Chunks, Schema!InsertChunk(p, c) PROVE SchemaInv'
<1>1. /\ pod[p].step = "ready" /\ fts' = [fts EXCEPT ![c] = pod[p].lang]
      /\ mixed' = (mixed \/ pod[p].lang # language)
      /\ UNCHANGED <<language, indexes, holder, pod, newest, torn>>
  BY DEF Schema!InsertChunk, Schema!At
<1>2. PodLawful(pod[p], p, holder, indexes, language) /\ SchemaTypes
  BY DEF SchemaInv
<1>3. pod[p].lang \in Languages /\ language # None
  BY <1>1, <1>2 DEF PodLawful
<1>4. SchemaTypes'
  BY <1>1, <1>2, <1>3 DEF SchemaTypes
<1>5. ChunksLawful'
  BY <1>1, <1>2, <1>3 DEF SchemaInv, ChunksLawful, SchemaTypes
<1> QED
  BY <1>1, <1>4, <1>5 DEF SchemaInv, NewestLawful

\* Every step of SchemaMigration.
LEMMA SchemaStep == SchemaInv /\ [Schema!Next]_(Schema!vars) => SchemaInv'
<1> SUFFICES ASSUME SchemaInv, [Schema!Next]_(Schema!vars) PROVE SchemaInv'
  OBVIOUS
<1>1. ASSUME UNCHANGED <<language, fts, indexes, holder, pod, newest, torn, mixed>> PROVE SchemaInv'
  BY <1>1 DEF SchemaInv, SchemaTypes, NewestLawful, ChunksLawful
<1>2. CASE UNCHANGED Schema!vars
  BY <1>1, <1>2 DEF Schema!vars, Schema!store, Schema!history
<1>3. CASE Schema!OperatorDeletes
  BY <1>1, <1>3 DEF Schema!OperatorDeletes, Schema!history
<1>4. ASSUME NEW p \in SchemaPods, Schema!InsertVector(p) PROVE SchemaInv'
  BY <1>1, <1>4 DEF Schema!InsertVector, Schema!history
<1> QED
  BY <1>2, <1>3, <1>4, BootStep, LockStep, IndexStep, UpsertStep, RewriteStep, UnlockStep, FailStep, InsertStep
     DEF Schema!Next

\* What the run checks is what the invariant says of the newest pod and of the chunks.
LEMMA SchemaHolds == SchemaInv => Schema!SchemaServes
<1> SUFFICES ASSUME SchemaInv PROVE Schema!SchemaServes
  OBVIOUS
<1>1. Schema!NewestServed
  BY DEF SchemaInv, NewestLawful, Schema!NewestServed
<1>2. Schema!ChunksFollow
  <2> SUFFICES ASSUME holder = None, ~torn, ~mixed PROVE \A c \in Schema!Written : fts[c] = language
    BY DEF Schema!ChunksFollow
  <2>1. \A p \in SchemaPods : pod[p].step # "rewrite"
    BY KnowledgeBaseAssumption DEF SchemaInv, PodLawful, Schema!Held
  <2> QED
    BY <2>1 DEF SchemaInv, ChunksLawful, Schema!Written
<1> QED
  BY <1>1, <1>2 DEF Schema!SchemaServes

----------------------------------------------------------------------------
(* DocumentWrite: what a call may commit, and how often *)

InFlight == {"superseding", "queued", "sent", "committed", "refused"}
CallFields == DOMAIN Document!NoWrite

\* A call at its step: its request was accepted, and what its commits left behind is remembered.
CallLawful(k, b, n, u, r) ==
  /\ DOMAIN k = CallFields /\ n \in Nat
  /\ k.at \in InFlight => k.request \in Document!Requests /\ Document!Accepted(k.request)
  /\ k.at \in {"idle", "superseding"} => n = 0
  /\ k.at \in {"queued", "sent", "refused"} /\ n > 0 => u
  /\ k.at \in InFlight /\ n > 0 /\ b[k.request.id] = k.request.version => r
  /\ n > 1 => u /\ r
  /\ k.answer = "error" => u

DocTypes ==
  /\ branch \in [Document!Paths -> Texts \cup {Absent}]
  /\ docCommits \in [Writes -> Nat] /\ DOMAIN write = Writes /\ DOMAIN unheard = Writes /\ DOMAIN restored = Writes

DocInv ==
  /\ DocTypes
  /\ \A w \in Writes : CallLawful(write[w], branch, docCommits[w], unheard[w], restored[w])

\* A call as the steps that change some of its fields leave it.
CallMade(r, p, at) == [[Document!NoWrite EXCEPT !.request = r, !.pod = p] EXCEPT !.at = at]
CallAt(q, at) == [q EXCEPT !.at = at]
CallSent(q, sent) == [q EXCEPT !.at = "sent", !.sent = sent]
CallAgain(q, attempt) == [q EXCEPT !.at = "queued", !.attempt = attempt]
CallTold(heard) == [Document!NoWrite EXCEPT !.at = "told", !.heard = heard]

LEMMA NoWriteFields ==
  /\ CallFields = {"at", "request", "pod", "attempt", "sent", "answer", "heard"}
  /\ Document!NoWrite.at = "idle" /\ Document!NoWrite.answer = "none"
BY DEF CallFields, Document!NoWrite

LEMMA NewFields ==
  ASSUME NEW w, NEW result, NEW r, NEW p, NEW at, NEW heard
  PROVE  /\ LET k == Document!Ended(w, result) IN DOMAIN k = CallFields /\ k.at = "answered" /\ k.answer = result
         /\ LET k == CallMade(r, p, at)
            IN  DOMAIN k = CallFields /\ k.at = at /\ k.request = r /\ k.answer = "none"
         /\ LET k == CallTold(heard) IN DOMAIN k = CallFields /\ k.at = "told" /\ k.answer = "none"
<1>1. LET k == Document!Ended(w, result) IN DOMAIN k = CallFields /\ k.at = "answered" /\ k.answer = result
  BY NoWriteFields DEF Document!Ended, CallFields
<1>2. LET k == CallMade(r, p, at) IN DOMAIN k = CallFields /\ k.at = at /\ k.request = r /\ k.answer = "none"
  BY NoWriteFields DEF CallMade, CallFields
<1>3. LET k == CallTold(heard) IN DOMAIN k = CallFields /\ k.at = "told" /\ k.answer = "none"
  BY NoWriteFields DEF CallTold, CallFields
<1> QED
  BY <1>1, <1>2, <1>3

LEMMA AtFields ==
  ASSUME NEW q, DOMAIN q = CallFields, NEW at
  PROVE  LET k == CallAt(q, at)
         IN  DOMAIN k = CallFields /\ k.at = at /\ k.request = q.request /\ k.answer = q.answer
BY NoWriteFields DEF CallAt

LEMMA SentFields ==
  ASSUME NEW q, DOMAIN q = CallFields, NEW sent
  PROVE  LET k == CallSent(q, sent)
         IN  DOMAIN k = CallFields /\ k.at = "sent" /\ k.request = q.request /\ k.answer = q.answer
BY NoWriteFields DEF CallSent

LEMMA AgainFields ==
  ASSUME NEW q, DOMAIN q = CallFields, NEW attempt
  PROVE  LET k == CallAgain(q, attempt)
         IN  DOMAIN k = CallFields /\ k.at = "queued" /\ k.request = q.request /\ k.answer = q.answer
BY NoWriteFields DEF CallAgain

\* No call was made.
LEMMA DocInit == Document!Init => DocInv
<1> SUFFICES ASSUME Document!Init PROVE DocInv
  OBVIOUS
<1>1. /\ branch \in [Document!Paths -> {Absent}] /\ write = [w \in Writes |-> Document!NoWrite]
      /\ docCommits = [w \in Writes |-> 0] /\ unheard = [w \in Writes |-> FALSE] /\ restored = [w \in Writes |-> FALSE]
  BY DEF Document!Init
<1>2. DocTypes
  BY <1>1 DEF DocTypes
<1>3. \A w \in Writes : CallLawful(write[w], branch, docCommits[w], unheard[w], restored[w])
  BY <1>1, NoWriteFields DEF CallLawful, CallFields, InFlight
<1> QED
  BY <1>2, <1>3 DEF DocInv

\* A call takes a step that commits nothing.
LEMMA DocQuiet ==
  ASSUME DocInv, NEW w \in Writes, NEW k, write' = [write EXCEPT ![w] = k],
         UNCHANGED <<branch, docCommits, restored>>,
         DOMAIN unheard' = Writes, \A v \in Writes \ {w} : unheard'[v] = unheard[v],
         CallLawful(k, branch, docCommits[w], unheard'[w], restored[w])
  PROVE  DocInv'
<1>1. DOMAIN write = Writes /\ write'[w] = k /\ \A v \in Writes \ {w} : write'[v] = write[v]
  BY DEF DocInv, DocTypes
<1>2. DocTypes'
  BY <1>1 DEF DocInv, DocTypes
<1>3. \A v \in Writes \ {w} : CallLawful(write'[v], branch', docCommits'[v], unheard'[v], restored'[v])
  BY <1>1 DEF DocInv
<1> QED
  BY <1>1, <1>2, <1>3 DEF DocInv

\* A call reaches its handler, looks for the note it supersedes, is sent, is told.
LEMMA CallStep == ASSUME DocInv, NEW w \in Writes, NEW p \in WriterPods, Document!Call(w, p) PROVE DocInv'
<1>1. /\ write[w].at = "idle" /\ UNCHANGED <<branch, docCommits, unheard, restored>>
      /\ CallLawful(write[w], branch, docCommits[w], unheard[w], restored[w])
  BY DEF DocInv, Document!Call, Document!history
<1>2. docCommits[w] = 0
  BY <1>1 DEF CallLawful
<1>3. PICK r \in Document!Requests :
        LET made == [Document!NoWrite EXCEPT !.request = r, !.pod = p]
        IN  \/ Document!Goes(w, Document!Ended(w, "400"))
            \/ Document!Accepted(r) /\ Document!Goes(w, [made EXCEPT !.at = "superseding"])
            \/ Document!Accepted(r) /\ Document!Goes(w, [made EXCEPT !.at = "queued"])
  BY DEF Document!Call
<1>4. \/ Document!Goes(w, Document!Ended(w, "400"))
      \/ Document!Accepted(r) /\ Document!Goes(w, CallMade(r, p, "superseding"))
      \/ Document!Accepted(r) /\ Document!Goes(w, CallMade(r, p, "queued"))
  BY <1>3 DEF CallMade
<1>5. PICK k : /\ write' = [write EXCEPT ![w] = k] /\ DOMAIN k = CallFields /\ k.answer # "error"
               /\ \/ k.at = "answered"
                  \/ k.at \in {"superseding", "queued"} /\ k.request = r /\ Document!Accepted(r)
  BY <1>4, NewFields DEF Document!Goes
<1>6. CallLawful(k, branch, docCommits[w], unheard[w], restored[w])
  BY <1>2, <1>5 DEF CallLawful, InFlight
<1> QED
  BY <1>1, <1>5, <1>6, DocQuiet DEF DocInv, DocTypes

LEMMA SupersededStep == ASSUME DocInv, NEW w \in Writes, Document!Superseded(w) PROVE DocInv'
<1>1. /\ write[w].at = "superseding" /\ UNCHANGED <<branch, docCommits, unheard, restored>>
      /\ CallLawful(write[w], branch, docCommits[w], unheard[w], restored[w])
  BY DEF DocInv, Document!Superseded, Document!history
<1>2. docCommits[w] = 0 /\ DOMAIN write[w] = CallFields
  BY <1>1 DEF CallLawful
<1>3. Document!Goes(w, Document!Ended(w, "400")) \/ Document!Goes(w, CallAt(write[w], "queued"))
  BY DEF Document!Superseded, CallAt
<1>4. PICK k : /\ write' = [write EXCEPT ![w] = k] /\ DOMAIN k = CallFields
               /\ \/ k.at = "answered" /\ k.answer = "400"
                  \/ k.at = "queued" /\ k.request = write[w].request /\ k.answer = write[w].answer
  BY <1>2, <1>3, NewFields, AtFields DEF Document!Goes
<1>5. CallLawful(k, branch, docCommits[w], unheard[w], restored[w])
  BY <1>1, <1>2, <1>4 DEF CallLawful, InFlight
<1> QED
  BY <1>1, <1>4, <1>5, DocQuiet DEF DocInv, DocTypes

LEMMA SendStep == ASSUME DocInv, NEW w \in Writes, Document!Send(w) PROVE DocInv'
<1>1. /\ write[w].at = "queued" /\ UNCHANGED <<branch, docCommits, unheard, restored>>
      /\ CallLawful(write[w], branch, docCommits[w], unheard[w], restored[w])
      /\ Document!Goes(w, [write[w] EXCEPT !.at = "sent", !.sent = 0])
  BY DEF DocInv, Document!Send, Document!history
<1> DOMAIN write[w] = CallFields
  BY <1>1 DEF CallLawful
<1> DEFINE k == CallSent(write[w], 0)
<1>2. DOMAIN k = CallFields /\ k.at = "sent" /\ k.request = write[w].request /\ k.answer = write[w].answer
  BY SentFields
<1> write' = [write EXCEPT ![w] = k]
  BY <1>1 DEF Document!Goes, CallSent
<1> HIDE DEF k
<1>3. CallLawful(k, branch, docCommits[w], unheard[w], restored[w])
  BY <1>1, <1>2 DEF CallLawful, InFlight
<1> QED
  BY <1>1, <1>2, <1>3, DocQuiet DEF DocInv, DocTypes

LEMMA TellStep == ASSUME DocInv, NEW w \in Writes, Document!Tell(w) PROVE DocInv'
<1>1. /\ write[w].at = "answered" /\ UNCHANGED <<branch, docCommits, unheard, restored>>
      /\ CallLawful(write[w], branch, docCommits[w], unheard[w], restored[w])
  BY DEF DocInv, Document!Tell, Document!history
<1>2. PICK heard : Document!Goes(w, CallTold(heard))
  BY DEF Document!Tell, CallTold
<1> DEFINE k == CallTold(heard)
<1>3. DOMAIN k = CallFields /\ k.at = "told" /\ k.answer = "none"
  BY NewFields
<1> write' = [write EXCEPT ![w] = k]
  BY <1>2 DEF Document!Goes
<1> HIDE DEF k
<1>4. CallLawful(k, branch, docCommits[w], unheard[w], restored[w])
  BY <1>1, <1>3 DEF CallLawful, InFlight
<1> QED
  BY <1>1, <1>4, DocQuiet DEF DocInv, DocTypes

\* GitHub refuses; Octokit sends again what may have been committed; the second attempt.
LEMMA RefuseStep == ASSUME DocInv, NEW w \in Writes, Document!Refuse(w) PROVE DocInv'
<1>1. /\ write[w].at = "sent" /\ UNCHANGED <<branch, docCommits, unheard, restored>>
      /\ CallLawful(write[w], branch, docCommits[w], unheard[w], restored[w])
      /\ Document!Goes(w, [write[w] EXCEPT !.at = "refused"])
  BY DEF DocInv, Document!Refuse, Document!history
<1> DOMAIN write[w] = CallFields
  BY <1>1 DEF CallLawful
<1> DEFINE k == CallAt(write[w], "refused")
<1>2. DOMAIN k = CallFields /\ k.at = "refused" /\ k.request = write[w].request /\ k.answer = write[w].answer
  BY AtFields
<1> write' = [write EXCEPT ![w] = k]
  BY <1>1 DEF Document!Goes, CallAt
<1> HIDE DEF k
<1>3. CallLawful(k, branch, docCommits[w], unheard[w], restored[w])
  BY <1>1, <1>2 DEF CallLawful, InFlight
<1> QED
  BY <1>1, <1>2, <1>3, DocQuiet DEF DocInv, DocTypes

LEMMA ResendStep == ASSUME DocInv, NEW w \in Writes, Document!Resend(w) PROVE DocInv'
<1>1. /\ write[w].at \in {"sent", "committed"} /\ UNCHANGED <<branch, docCommits, restored>>
      /\ CallLawful(write[w], branch, docCommits[w], unheard[w], restored[w])
      /\ unheard' = [unheard EXCEPT ![w] = @ \/ write[w].at = "committed"]
      /\ Document!Goes(w, [write[w] EXCEPT !.at = "sent", !.sent = @ + 1])
  BY DEF DocInv, Document!Resend
<1>2. DOMAIN write[w] = CallFields /\ DOMAIN unheard = Writes
  BY <1>1 DEF CallLawful, DocInv, DocTypes
<1> DEFINE k == CallSent(write[w], write[w].sent + 1)
<1>3. DOMAIN k = CallFields /\ k.at = "sent" /\ k.request = write[w].request /\ k.answer = write[w].answer
  BY <1>2, SentFields
<1> write' = [write EXCEPT ![w] = k]
  BY <1>1 DEF Document!Goes, CallSent
<1> HIDE DEF k
<1>4. /\ DOMAIN unheard' = Writes /\ \A v \in Writes \ {w} : unheard'[v] = unheard[v]
      /\ unheard'[w] <=> unheard[w] \/ write[w].at = "committed"
  BY <1>1, <1>2
<1>5. CallLawful(k, branch, docCommits[w], unheard'[w], restored[w])
  BY <1>1, <1>3, <1>4 DEF CallLawful, InFlight
<1> QED
  BY <1>1, <1>3, <1>4, <1>5, DocQuiet

\* A call that ends as it did before, or with the error its own lost answer is.
LEMMA Leaves ==
  ASSUME DocInv, NEW w \in Writes, NEW result, Document!Leave(w, result),
         UNCHANGED <<branch, docCommits, restored>>,
         DOMAIN unheard' = Writes, \A v \in Writes \ {w} : unheard'[v] = unheard[v],
         unheard[w] => unheard'[w], result = "error" => unheard'[w]
  PROVE  DocInv'
<1>1. CallLawful(write[w], branch, docCommits[w], unheard[w], restored[w])
  BY DEF DocInv
<1> DEFINE k == Document!Ended(w, result)
<1>2. DOMAIN k = CallFields /\ k.at = "answered" /\ k.answer = result
  BY NewFields
<1> write' = [write EXCEPT ![w] = k]
  BY DEF Document!Leave, Document!Goes
<1> HIDE DEF k
<1>3. CallLawful(k, branch, docCommits[w], unheard'[w], restored[w])
  BY <1>1, <1>2 DEF CallLawful, InFlight
<1> QED
  BY <1>2, <1>3, DocQuiet

LEMMA SettleStep ==
  ASSUME DocInv, NEW w \in Writes, Document!GitHubFails(w) \/ Document!Written(w) \/ Document!Explain(w) PROVE DocInv'
<1>1. DOMAIN unheard = Writes /\ CallLawful(write[w], branch, docCommits[w], unheard[w], restored[w])
  BY DEF DocInv, DocTypes
<1>2. CASE Document!GitHubFails(w)
  <2>1. /\ unheard' = [unheard EXCEPT ![w] = TRUE] /\ Document!Leave(w, "error")
        /\ UNCHANGED <<branch, docCommits, restored>>
    BY <1>2 DEF Document!GitHubFails
  <2> QED
    BY <1>1, <2>1, Leaves
<1>3. CASE Document!Written(w)
  <2>1. Document!Leave(w, "written") /\ UNCHANGED <<branch, docCommits, unheard, restored>>
    BY <1>3 DEF Document!Written, Document!history
  <2> QED
    BY <1>1, <2>1, Leaves
<1>4. CASE Document!Explain(w)
  <2>1. write[w].at = "refused" /\ UNCHANGED <<branch, docCommits, unheard, restored>>
    BY <1>4 DEF Document!Explain, Document!history
  <2>2. \/ Document!Goes(w, [write[w] EXCEPT !.at = "queued", !.attempt = @ + 1])
        \/ \E result \in {"409 current", "409", "404"} : Document!Leave(w, result)
    BY <1>4 DEF Document!Explain
  <2>3. ASSUME Document!Goes(w, [write[w] EXCEPT !.at = "queued", !.attempt = @ + 1]) PROVE DocInv'
    <3> DOMAIN write[w] = CallFields
      BY <1>1 DEF CallLawful
    <3> DEFINE k == CallAgain(write[w], write[w].attempt + 1)
    <3>1. DOMAIN k = CallFields /\ k.at = "queued" /\ k.request = write[w].request /\ k.answer = write[w].answer
      BY AgainFields
    <3> write' = [write EXCEPT ![w] = k]
      BY <2>3 DEF Document!Goes, CallAgain
    <3> HIDE DEF k
    <3>2. CallLawful(k, branch, docCommits[w], unheard[w], restored[w])
      BY <1>1, <2>1, <3>1 DEF CallLawful, InFlight
    <3> QED
      BY <1>1, <2>1, <3>1, <3>2, DocQuiet
  <2> QED
    BY <1>1, <2>1, <2>2, <2>3, Leaves
<1> QED
  BY <1>2, <1>3, <1>4

\* The branch changes under a call: should it be at the call's version again, that is remembered.
LEMMA BranchMoves ==
  ASSUME DocInv, NEW path \in Document!Paths, NEW content \in Texts \cup {Absent},
         branch' = [branch EXCEPT ![path] = content], Document!Restoring(path, content), NEW v \in Writes,
         docCommits'[v] = docCommits[v]
  PROVE  CallLawful(write[v], branch', docCommits'[v], unheard[v], restored'[v])
<1>1. CallLawful(write[v], branch, docCommits[v], unheard[v], restored[v])
  BY DEF DocInv
<1>2. \A id \in Document!Paths : branch'[id] = IF id = path THEN content ELSE branch[id]
  BY DEF DocInv, DocTypes
<1>3. restored'[v] <=> \/ restored[v]
                       \/ /\ write[v].at \in {"queued", "sent", "committed", "refused"} /\ docCommits'[v] > 0
                          /\ write[v].request.id = path /\ content = write[v].request.version
  BY DEF Document!Restoring, Document!Request
<1>4. write[v].at \in InFlight => write[v].request.id \in Document!Paths
  BY <1>1 DEF CallLawful, Document!Requests
<1> QED
  BY <1>1, <1>2, <1>3, <1>4 DEF CallLawful, InFlight

LEMMA ElsewhereStep == ASSUME DocInv, Document!CommitElsewhere PROVE DocInv'
<1>1. PICK path \in Document!Paths, content \in (Texts \ Secrets) \cup {Absent} :
        branch' = [branch EXCEPT ![path] = content] /\ Document!Restoring(path, content)
  BY DEF Document!CommitElsewhere
<1>2. UNCHANGED <<write, docCommits, unheard>>
  BY DEF Document!CommitElsewhere
<1>3. DocTypes'
  BY <1>1, <1>2 DEF DocInv, DocTypes, Document!Restoring
<1>4. \A v \in Writes : CallLawful(write[v], branch', docCommits'[v], unheard[v], restored'[v])
  BY <1>1, <1>2, BranchMoves
<1> QED
  BY <1>2, <1>3, <1>4 DEF DocInv

\* GitHub commits a call: the first time, or after a lost answer with the call's version back on the branch.
LEMMA CommitStep == ASSUME DocInv, NEW w \in Writes, Document!Commit(w) PROVE DocInv'
<1> DEFINE id == write[w].request.id
           content == Document!Outcome(w)
           k == CallAt(write[w], "committed")
<1>1. /\ write[w].at = "sent" /\ branch[id] = write[w].request.version
      /\ branch' = [branch EXCEPT ![id] = content] /\ Document!Restoring(id, content)
      /\ docCommits' = [docCommits EXCEPT ![w] = docCommits[w] + 1]
      /\ write' = [write EXCEPT ![w] = k] /\ unheard' = unheard
  BY DEF Document!Commit, Document!Goes, Document!Request, Document!Sha, CallAt
<1>2. CallLawful(write[w], branch, docCommits[w], unheard[w], restored[w]) /\ DOMAIN write = Writes
  BY DEF DocInv, DocTypes
<1>3. write[w].request \in Document!Requests /\ id \in Document!Paths /\ content \in Texts \cup {Absent}
  BY <1>1, <1>2 DEF CallLawful, InFlight, Document!Requests, Document!Outcome, Document!Request
<1>4. DOMAIN k = CallFields /\ k.at = "committed" /\ k.request = write[w].request /\ k.answer = write[w].answer
  BY <1>2, AtFields DEF CallLawful
<1>5. docCommits'[w] = docCommits[w] + 1 /\ \A v \in Writes \ {w} : docCommits'[v] = docCommits[v]
  BY <1>1 DEF DocInv, DocTypes
<1>6. DocTypes'
  BY <1>1, <1>3, <1>5 DEF DocInv, DocTypes, Document!Restoring
<1>7. \A v \in Writes \ {w} : CallLawful(write[v], branch', docCommits'[v], unheard[v], restored'[v])
  <2> HIDE DEF id, content, k
  <2> QED
    BY <1>1, <1>3, <1>5, BranchMoves
<1>8. CallLawful(k, branch', docCommits'[w], unheard[w], restored'[w])
  <2>1. branch'[id] = content
    BY <1>1, <1>3 DEF DocInv, DocTypes
  <2>2. restored'[w] <=> restored[w] \/ (docCommits'[w] > 0 /\ content = write[w].request.version)
    BY <1>1 DEF Document!Restoring, Document!Request
  <2>3. docCommits[w] > 0 => unheard[w] /\ restored[w]
    BY <1>1, <1>2 DEF CallLawful, InFlight
  <2>4. docCommits[w] \in Nat /\ Document!Accepted(k.request) /\ (k.answer = "error" => unheard[w])
    BY <1>1, <1>2, <1>4 DEF CallLawful, InFlight
  <2> HIDE DEF content, k
  <2> QED
    BY <1>3, <1>4, <1>5, <2>1, <2>2, <2>3, <2>4 DEF CallLawful, InFlight
<1> HIDE DEF id, content, k
<1>9. write'[w] = k /\ \A v \in Writes \ {w} : write'[v] = write[v]
  BY <1>1, <1>2
<1> QED
  BY <1>1, <1>6, <1>7, <1>8, <1>9 DEF DocInv

\* Every step of DocumentWrite.
LEMMA DocStep == DocInv /\ [Document!Next]_(Document!vars) => DocInv'
<1> SUFFICES ASSUME DocInv, [Document!Next]_(Document!vars) PROVE DocInv'
  OBVIOUS
<1>1. CASE UNCHANGED Document!vars
  BY <1>1 DEF DocInv, DocTypes, Document!vars
<1> QED
  BY <1>1, ElsewhereStep, CommitStep, CallStep, SupersededStep, SendStep, TellStep, RefuseStep, ResendStep, SettleStep
     DEF Document!Next

\* What the run checks of a state.
LEMMA DocHolds == DocInv => Document!CommitsOnce /\ Document!OwnOutcome
BY DEF DocInv, CallLawful, Document!CommitsOnce, Document!OwnOutcome

\* What the run checks of a step: only Commit commits, and its request was accepted for what it replaces.
LEMMA DocActs == DocInv /\ [Document!Next]_(Document!vars) => Document!SeenBeforeCommit /\ Document!WithinAreas
<1> SUFFICES ASSUME DocInv, [Document!Next]_(Document!vars), NEW v \in Writes, docCommits'[v] # docCommits[v]
             PROVE  LET path == write[v].request.id
                    IN  /\ branch[path] = write[v].request.version
                        /\ path # "mirror" /\ (path \in Document!Raw => Absent \in {branch[path], branch'[path]})
                        /\ branch'[path] \notin Secrets
  BY DEF Document!SeenBeforeCommit, Document!WithinAreas, Document!Commits, Document!Request
<1>1. PICK w \in Writes : Document!Commit(w)
  BY DEF Document!Next, Document!vars, Document!CommitElsewhere, Document!Call, Document!Superseded, Document!Send,
         Document!Refuse, Document!Resend, Document!GitHubFails, Document!Written, Document!Explain, Document!Tell,
         Document!history
<1>2. v = w
  BY <1>1 DEF Document!Commit, DocInv, DocTypes
<1> DEFINE r == write[w].request
<1>3. /\ write[w].at = "sent" /\ branch[r.id] = r.version
      /\ branch' = [branch EXCEPT ![r.id] = IF r.kind = "delete" THEN Absent ELSE r.content]
  BY <1>1 DEF Document!Commit, Document!Request, Document!Sha, Document!Outcome
<1>4. r \in Document!Requests /\ Document!Accepted(r)
  BY <1>3 DEF DocInv, CallLawful, InFlight
<1>5. branch'[r.id] = IF r.kind = "delete" THEN Absent ELSE r.content
  BY <1>3, <1>4 DEF DocInv, DocTypes, Document!Requests
<1> DEFINE Lawful == /\ branch[r.id] = r.version
                     /\ r.id # "mirror" /\ (r.id \in Document!Raw => Absent \in {branch[r.id], branch'[r.id]})
                     /\ branch'[r.id] \notin Secrets
<1> HIDE DEF r
<1>6. Absent \notin Secrets
  BY KnowledgeBaseAssumption
<1>7. ASSUME Document!PutDocument(r) PROVE Lawful
  BY <1>3, <1>5, <1>6, <1>7 DEF Document!PutDocument, Document!Writable, Document!HoldsSecret, Document!Raw
<1>8. ASSUME Document!DeleteDocument(r) PROVE Lawful
  BY <1>3, <1>5, <1>6, <1>8 DEF Document!DeleteDocument, Document!Deletable, Document!Raw
<1>9. ASSUME Document!CreateNote(r) PROVE Lawful
  BY <1>3, <1>5, <1>6, <1>9 DEF Document!CreateNote, Document!Renderable, Document!HoldsSecret, Document!Raw
<1>10. Lawful
  BY <1>4, <1>7, <1>8, <1>9 DEF Document!Accepted
<1> QED
  BY <1>2, <1>10 DEF r

----------------------------------------------------------------------------
(* EmbeddingBacklog: chunks keep their text, vectors follow it, nothing is embedded again *)

RunFields == DOMAIN Backlog!NoRun

\* Every document has its own rows, every row has a document, and a vector is its row's text.
RowsLawful ==
  /\ serial \in Nat
  /\ DOMAIN documents = DocumentPaths
  /\ \A p \in DocumentPaths : documents[p] # Absent => Backlog!ToSet(documents[p]) \subseteq DOMAIN chunks
  /\ \A p, q \in DocumentPaths :
       p # q /\ documents[p] # Absent /\ documents[q] # Absent
         => Backlog!ToSet(documents[p]) \cap Backlog!ToSet(documents[q]) = {}
  /\ \A id \in DOMAIN chunks :
       /\ id \in Nat /\ id < serial
       /\ \E p \in DocumentPaths : documents[p] # Absent /\ id \in Backlog!ToSet(documents[p])

VectorsLawful ==
  /\ DOMAIN backVectors \subseteq (DOMAIN chunks) \X Models
  /\ \A v \in DOMAIN backVectors : backVectors[v] = chunks[v[1]]

\* What a run took with it: documents of the branch, and texts of rows that may have gone since.
TakenLawful(q) ==
  /\ DOMAIN q = RunFields
  /\ q.at \in {"idle", "upserting", "deleting", "model", "pending", "embedding"}
  /\ q.upserts \subseteq DocumentPaths /\ \A p \in q.upserts : q.source[p] \in Contents
  /\ q.models \subseteq Models /\ q.deletes \subseteq DocumentPaths
  /\ q.at \in {"pending", "embedding"} => q.model \in Models

BatchLawful(q, texts, last) ==
  \A b \in q.batch : b[1] \in Nat /\ b[1] < last /\ (b[1] \in DOMAIN texts => texts[b[1]] = b[2])

\* What had a vector before the deletions has one, and was not asked for.
SeenLawful(q, had, texts, given) ==
  /\ q.at \in {"idle", "upserting"} => had = {}
  /\ \A id \in DOMAIN texts, m \in Models : <<texts[id], m>> \in had => <<id, m>> \in given
  /\ q.at = "embedding" => \A b \in q.batch : <<b[2], q.model>> \notin had

RunLawful(q, had, texts, last, given) ==
  TakenLawful(q) /\ BatchLawful(q, texts, last) /\ SeenLawful(q, had, texts, given)

BacklogInv ==
  /\ head \in [DocumentPaths -> Contents \cup {Absent}]
  /\ RowsLawful /\ VectorsLawful
  /\ DOMAIN run = IndexerRuns /\ DOMAIN seen = IndexerRuns
  /\ \A r \in IndexerRuns : RunLawful(run[r], seen[r], chunks, serial, DOMAIN backVectors)

\* What the run checks is in the invariant.
LEMMA BacklogHolds == BacklogInv => Backlog!TypeOK /\ Backlog!VectorMatchesText /\ Backlog!NotEmbeddedAgain
<1> SUFFICES ASSUME BacklogInv PROVE Backlog!TypeOK /\ Backlog!VectorMatchesText /\ Backlog!NotEmbeddedAgain
  OBVIOUS
<1>1. Backlog!TypeOK
  BY DEF BacklogInv, RowsLawful, VectorsLawful, RunLawful, TakenLawful, Backlog!TypeOK, Backlog!Ids
<1>2. Backlog!VectorMatchesText
  BY DEF BacklogInv, VectorsLawful, Backlog!VectorMatchesText
<1>3. Backlog!NotEmbeddedAgain
  BY DEF BacklogInv, RunLawful, SeenLawful, Backlog!NotEmbeddedAgain
<1> QED
  BY <1>1, <1>2, <1>3

LEMMA NoRunFields ==
  /\ RunFields = {"at", "manual", "upserts", "deletes", "source", "models", "model", "batch"}
  /\ Backlog!NoRun.at = "idle" /\ Backlog!NoRun.upserts = {} /\ Backlog!NoRun.deletes = {}
  /\ Backlog!NoRun.models = {} /\ Backlog!NoRun.batch = {}
BY DEF RunFields, Backlog!NoRun

LEMMA NoRunLawful == RunLawful(Backlog!NoRun, {}, chunks, serial, DOMAIN backVectors)
BY NoRunFields DEF RunLawful, TakenLawful, BatchLawful, SeenLawful, RunFields

LEMMA BacklogInit == Backlog!Init => BacklogInv
<1> SUFFICES ASSUME Backlog!Init PROVE BacklogInv
  OBVIOUS
<1>1. /\ head = [p \in DocumentPaths |-> Absent] /\ documents = [p \in DocumentPaths |-> Absent]
      /\ chunks = <<>> /\ backVectors = <<>> /\ serial = 1
      /\ run = [r \in IndexerRuns |-> Backlog!NoRun] /\ seen = [r \in IndexerRuns |-> {}]
  BY DEF Backlog!Init
<1>2. DOMAIN chunks = {} /\ DOMAIN backVectors = {}
  BY <1>1
<1>3. RowsLawful /\ VectorsLawful /\ head \in [DocumentPaths -> Contents \cup {Absent}]
  BY <1>1, <1>2 DEF RowsLawful, VectorsLawful
<1>4. \A r \in IndexerRuns : RunLawful(run[r], seen[r], chunks, serial, DOMAIN backVectors)
  BY <1>1, NoRunLawful
<1> QED
  BY <1>1, <1>3, <1>4 DEF BacklogInv

\* Vectors come and rows stay: what a run knows of them remains true.
LEMMA RunKeeps ==
  ASSUME BacklogInv, NEW r \in IndexerRuns, serial' \in Nat, serial <= serial',
         \A id \in DOMAIN chunks' : id < serial => id \in DOMAIN chunks /\ chunks'[id] = chunks[id],
         NEW had,
         had = {} \/ (/\ had = seen[r] /\ DOMAIN chunks' \subseteq DOMAIN chunks
                      /\ \A id \in DOMAIN chunks', m \in Models :
                           <<id, m>> \in DOMAIN backVectors => <<id, m>> \in DOMAIN backVectors')
  PROVE  RunLawful(run[r], had, chunks', serial', DOMAIN backVectors')
<1>1. RunLawful(run[r], seen[r], chunks, serial, DOMAIN backVectors) /\ RowsLawful
  BY DEF BacklogInv
<1>2. BatchLawful(run[r], chunks', serial')
  BY <1>1 DEF RunLawful, BatchLawful, RowsLawful
<1>3. SeenLawful(run[r], had, chunks', DOMAIN backVectors')
  BY <1>1 DEF RunLawful, SeenLawful, RowsLawful
<1> QED
  BY <1>1, <1>2, <1>3 DEF RunLawful

\* A run takes a step of its own and leaves the rows and the vectors alone.
LEMMA RunGoes ==
  ASSUME BacklogInv, NEW r \in IndexerRuns, NEW k, run' = [run EXCEPT ![r] = k],
         UNCHANGED <<head, documents, chunks, backVectors, serial>>,
         DOMAIN seen' = IndexerRuns, \A q \in IndexerRuns \ {r} : seen'[q] = seen[q],
         RunLawful(k, seen'[r], chunks, serial, DOMAIN backVectors)
  PROVE  BacklogInv'
<1>1. run'[r] = k /\ DOMAIN run' = IndexerRuns /\ \A q \in IndexerRuns \ {r} : run'[q] = run[q]
  BY DEF BacklogInv
<1>2. RowsLawful' /\ VectorsLawful'
  BY DEF BacklogInv, RowsLawful, VectorsLawful
<1>3. \A q \in IndexerRuns : RunLawful(run'[q], seen'[q], chunks', serial', DOMAIN backVectors')
  BY <1>1 DEF BacklogInv
<1> QED
  BY <1>1, <1>2, <1>3 DEF BacklogInv

\* A run as the steps that change some of its fields leave it.
RunBegun(manual, source, upserts, deletes) ==
  [Backlog!NoRun EXCEPT !.at = "upserting", !.manual = manual, !.source = source,
                        !.upserts = upserts, !.deletes = deletes]
RunUpserted(q, p) == [q EXCEPT !.upserts = q.upserts \ {p}]
RunAt(q, at) == [q EXCEPT !.at = at]
RunModels(q) == [q EXCEPT !.at = "model", !.models = Models]
RunModel(q, m, at) == [q EXCEPT !.models = q.models \ {m}, !.model = m, !.at = at]
RunAsked(q, at, batch) == [q EXCEPT !.at = at, !.batch = batch]

LEMMA BegunFields ==
  ASSUME NEW manual, NEW source, NEW upserts, NEW deletes
  PROVE  LET k == RunBegun(manual, source, upserts, deletes)
         IN  /\ DOMAIN k = RunFields /\ k.at = "upserting" /\ k.source = source /\ k.upserts = upserts /\ k.deletes = deletes
             /\ k.models = {} /\ k.batch = {}
BY NoRunFields DEF RunBegun, RunFields

LEMMA UpsertedFields ==
  ASSUME NEW q, DOMAIN q = RunFields, NEW p
  PROVE  LET k == RunUpserted(q, p)
         IN  /\ DOMAIN k = RunFields /\ k.at = q.at /\ k.source = q.source /\ k.upserts = q.upserts \ {p} /\ k.deletes = q.deletes
             /\ k.models = q.models /\ k.model = q.model /\ k.batch = q.batch
BY NoRunFields DEF RunUpserted

LEMMA RunAtFields ==
  ASSUME NEW q, DOMAIN q = RunFields, NEW at
  PROVE  LET k == RunAt(q, at)
         IN  /\ DOMAIN k = RunFields /\ k.at = at /\ k.source = q.source /\ k.upserts = q.upserts /\ k.deletes = q.deletes
             /\ k.models = q.models /\ k.model = q.model /\ k.batch = q.batch
BY NoRunFields DEF RunAt

LEMMA ModelsFields ==
  ASSUME NEW q, DOMAIN q = RunFields
  PROVE  LET k == RunModels(q)
         IN  /\ DOMAIN k = RunFields /\ k.at = "model" /\ k.source = q.source /\ k.upserts = q.upserts /\ k.deletes = q.deletes
             /\ k.models = Models /\ k.model = q.model /\ k.batch = q.batch
BY NoRunFields DEF RunModels

LEMMA ModelFields ==
  ASSUME NEW q, DOMAIN q = RunFields, NEW m, NEW at
  PROVE  LET k == RunModel(q, m, at)
         IN  /\ DOMAIN k = RunFields /\ k.at = at /\ k.source = q.source /\ k.upserts = q.upserts /\ k.deletes = q.deletes
             /\ k.models = q.models \ {m} /\ k.model = m /\ k.batch = q.batch
BY NoRunFields DEF RunModel

LEMMA AskedFields ==
  ASSUME NEW q, DOMAIN q = RunFields, NEW at, NEW batch
  PROVE  LET k == RunAsked(q, at, batch)
         IN  /\ DOMAIN k = RunFields /\ k.at = at /\ k.source = q.source /\ k.upserts = q.upserts /\ k.deletes = q.deletes
             /\ k.models = q.models /\ k.model = q.model /\ k.batch = batch
BY NoRunFields DEF RunAsked

\* The branch moves; a run begins from it, and ends.
LEMMA PublishStep == ASSUME BacklogInv, Backlog!Publish PROVE BacklogInv'
<1>1. UNCHANGED <<documents, chunks, backVectors, serial, run, seen>>
  BY DEF Backlog!Publish
<1>2. head' \in [DocumentPaths -> Contents \cup {Absent}]
  BY DEF BacklogInv, Backlog!Publish
<1>3. RowsLawful' /\ VectorsLawful'
  BY <1>1 DEF BacklogInv, RowsLawful, VectorsLawful
<1> QED
  BY <1>1, <1>2, <1>3 DEF BacklogInv

LEMMA BeginStep == ASSUME BacklogInv, NEW r \in IndexerRuns, Backlog!Begin(r) PROVE BacklogInv'
<1>1. /\ run[r].at = "idle" /\ UNCHANGED <<head, documents, chunks, backVectors, serial, seen>>
      /\ RunLawful(run[r], seen[r], chunks, serial, DOMAIN backVectors) /\ DOMAIN seen = IndexerRuns
      /\ head \in [DocumentPaths -> Contents \cup {Absent}]
  BY DEF Backlog!Begin, BacklogInv
<1> DEFINE upserts == {p \in DocumentPaths : head[p] # Absent /\ ~Backlog!SameDocument(p, head[p])}
           deletes == {p \in DocumentPaths : head[p] = Absent /\ documents[p] # Absent}
<1>2. PICK manual \in BOOLEAN : Backlog!Goes(r, RunBegun(manual, head, upserts, deletes))
  BY DEF Backlog!Begin, RunBegun
<1>3. deletes \subseteq DocumentPaths /\ upserts \subseteq DocumentPaths /\ \A p \in upserts : head[p] \in Contents
  BY <1>1
<1> HIDE DEF upserts, deletes
<1> DEFINE k == RunBegun(manual, head, upserts, deletes)
<1>4. /\ DOMAIN k = RunFields /\ k.at = "upserting" /\ k.source = head /\ k.upserts = upserts /\ k.deletes = deletes
      /\ k.models = {} /\ k.batch = {}
  BY BegunFields
<1>5. run' = [run EXCEPT ![r] = k]
  BY <1>2 DEF Backlog!Goes
<1> HIDE DEF k
<1>6. RunLawful(k, seen'[r], chunks, serial, DOMAIN backVectors)
  BY <1>1, <1>3, <1>4 DEF RunLawful, TakenLawful, BatchLawful, SeenLawful
<1> QED
  BY <1>1, <1>5, <1>6, RunGoes

LEMMA EndStep == ASSUME BacklogInv, NEW r \in IndexerRuns, Backlog!Stop(r) \/ Backlog!Finish(r) PROVE BacklogInv'
<1>1. /\ run' = [run EXCEPT ![r] = Backlog!NoRun] /\ seen' = [seen EXCEPT ![r] = {}]
      /\ UNCHANGED <<head, documents, chunks, backVectors, serial>>
  BY DEF Backlog!Stop, Backlog!Finish, Backlog!Goes
<1>2. DOMAIN seen' = IndexerRuns /\ seen'[r] = {} /\ \A q \in IndexerRuns \ {r} : seen'[q] = seen[q]
  BY <1>1 DEF BacklogInv
<1> QED
  BY <1>1, <1>2, NoRunLawful, RunGoes

\* A model, a batch of it, its failure.
LEMMA ModelStep ==
  ASSUME BacklogInv, NEW r \in IndexerRuns, Backlog!NextModel(r) \/ Backlog!EmbedFails(r) PROVE BacklogInv'
<1>1. /\ UNCHANGED <<head, documents, chunks, backVectors, serial, seen>> /\ run[r].at \in {"model", "embedding"}
      /\ RunLawful(run[r], seen[r], chunks, serial, DOMAIN backVectors) /\ DOMAIN seen = IndexerRuns
  BY DEF Backlog!NextModel, Backlog!EmbedFails, BacklogInv
<1> DOMAIN run[r] = RunFields
  BY <1>1 DEF RunLawful, TakenLawful
<1>2. CASE Backlog!NextModel(r)
  <2>1. PICK m \in run[r].models, at \in {"model", "pending"} : Backlog!Goes(r, RunModel(run[r], m, at))
    BY <1>2 DEF Backlog!NextModel, RunModel
  <2> DEFINE k == RunModel(run[r], m, at)
  <2>2. /\ DOMAIN k = RunFields /\ k.at = at /\ k.source = run[r].source /\ k.upserts = run[r].upserts /\ k.deletes = run[r].deletes
        /\ k.models = run[r].models \ {m} /\ k.model = m /\ k.batch = run[r].batch
    BY ModelFields
  <2>3. run' = [run EXCEPT ![r] = k]
    BY <2>1 DEF Backlog!Goes
  <2> HIDE DEF k
  <2>4. RunLawful(k, seen'[r], chunks, serial, DOMAIN backVectors)
    BY <1>1, <2>1, <2>2 DEF RunLawful, TakenLawful, BatchLawful, SeenLawful
  <2> QED
    BY <1>1, <2>3, <2>4, RunGoes
<1>3. CASE Backlog!EmbedFails(r)
  <2>1. Backlog!Goes(r, RunAsked(run[r], "model", {}))
    BY <1>3 DEF Backlog!EmbedFails, RunAsked
  <2> DEFINE k == RunAsked(run[r], "model", {})
  <2>2. /\ DOMAIN k = RunFields /\ k.at = "model" /\ k.source = run[r].source /\ k.upserts = run[r].upserts /\ k.deletes = run[r].deletes
        /\ k.models = run[r].models /\ k.batch = {}
    BY AskedFields
  <2>3. run' = [run EXCEPT ![r] = k]
    BY <2>1 DEF Backlog!Goes
  <2> HIDE DEF k
  <2>4. RunLawful(k, seen'[r], chunks, serial, DOMAIN backVectors)
    BY <1>1, <2>2 DEF RunLawful, TakenLawful, BatchLawful, SeenLawful
  <2> QED
    BY <1>1, <2>3, <2>4, RunGoes
<1> QED
  BY <1>2, <1>3

LEMMA BatchAsk == ASSUME BacklogInv, NEW r \in IndexerRuns, Backlog!Ask(r) PROVE BacklogInv'
<1>1. /\ UNCHANGED <<head, documents, chunks, backVectors, serial, seen>> /\ run[r].at = "pending"
      /\ RunLawful(run[r], seen[r], chunks, serial, DOMAIN backVectors) /\ DOMAIN seen = IndexerRuns /\ RowsLawful
  BY DEF Backlog!Ask, BacklogInv
<1> DEFINE batch == Backlog!Batch(run[r].model)
<1>2. PICK at \in {"model", "embedding"} : Backlog!Goes(r, RunAsked(run[r], at, batch))
  BY DEF Backlog!Ask, RunAsked
<1>3. run[r].model \in Models /\ DOMAIN run[r] = RunFields
  BY <1>1 DEF RunLawful, TakenLawful
<1>4. \A b \in batch : /\ b[1] \in DOMAIN chunks /\ b[2] = chunks[b[1]]
                       /\ <<b[1], run[r].model>> \notin DOMAIN backVectors
  <2> SUFFICES ASSUME NEW b \in batch
               PROVE  /\ b[1] \in DOMAIN chunks /\ b[2] = chunks[b[1]]
                      /\ <<b[1], run[r].model>> \notin DOMAIN backVectors
    OBVIOUS
  <2>1. PICK id \in Backlog!Pending(run[r].model) : b = <<id, chunks[id]>>
    BY DEF Backlog!Batch
  <2>2. id \in DOMAIN chunks /\ <<id, run[r].model>> \notin DOMAIN backVectors
    BY DEF Backlog!Pending, Backlog!Ids
  <2> HIDE DEF batch
  <2> QED
    BY <2>1, <2>2
<1> HIDE DEF batch
<1> DEFINE k == RunAsked(run[r], at, batch)
<1>5. /\ DOMAIN k = RunFields /\ k.at = at /\ k.source = run[r].source /\ k.upserts = run[r].upserts /\ k.deletes = run[r].deletes
      /\ k.models = run[r].models /\ k.model = run[r].model /\ k.batch = batch
  BY <1>3, AskedFields
<1>6. run' = [run EXCEPT ![r] = k]
  BY <1>2 DEF Backlog!Goes
<1> HIDE DEF k
<1>7. TakenLawful(k)
  BY <1>1, <1>3, <1>5 DEF RunLawful, TakenLawful
<1>8. BatchLawful(k, chunks, serial)
  BY <1>1, <1>4, <1>5 DEF BatchLawful, RowsLawful
<1>9. SeenLawful(k, seen[r], chunks, DOMAIN backVectors)
  BY <1>1, <1>3, <1>4, <1>5 DEF RunLawful, SeenLawful
<1> QED
  BY <1>1, <1>6, <1>7, <1>8, <1>9, RunGoes DEF RunLawful

\* Vectors come, of the rows there are: the rows, what a run took, and what its vectors are of stay lawful.
LEMMA VectorsCome ==
  ASSUME BacklogInv, NEW r \in IndexerRuns, NEW k, run' = [run EXCEPT ![r] = k],
         UNCHANGED <<head, documents, chunks, serial>>, VectorsLawful', DOMAIN backVectors \subseteq DOMAIN backVectors',
         DOMAIN seen' = IndexerRuns, \A q \in IndexerRuns \ {r} : seen'[q] = seen[q],
         RunLawful(k, seen'[r], chunks, serial, DOMAIN backVectors')
  PROVE  BacklogInv'
<1>1. run'[r] = k /\ DOMAIN run' = IndexerRuns /\ \A q \in IndexerRuns \ {r} : run'[q] = run[q]
  BY DEF BacklogInv
<1>2. RowsLawful'
  BY DEF BacklogInv, RowsLawful
<1>3. ASSUME NEW q \in IndexerRuns \ {r}
      PROVE  RunLawful(run'[q], seen'[q], chunks', serial', DOMAIN backVectors')
  <2>1. serial' \in Nat /\ serial <= serial'
    BY DEF BacklogInv, RowsLawful
  <2> QED
    BY <1>1, <2>1, RunKeeps
<1> QED
  BY <1>1, <1>2, <1>3 DEF BacklogInv

\* copyByHash: a row gets the vector of a twin, which is of the same text.
LEMMA CopyStep == ASSUME BacklogInv, NEW r \in IndexerRuns, Backlog!Copy(r) PROVE BacklogInv'
<1>1. /\ run[r].at = "upserting" /\ UNCHANGED <<head, documents, chunks, serial>> /\ Backlog!CopyByHash
      /\ seen' = [seen EXCEPT ![r] = {<<backVectors[v], v[2]>> : v \in DOMAIN backVectors}]
      /\ Backlog!Goes(r, RunAt(run[r], "deleting"))
      /\ RunLawful(run[r], seen[r], chunks, serial, DOMAIN backVectors) /\ DOMAIN seen = IndexerRuns
      /\ RowsLawful /\ VectorsLawful
  BY DEF Backlog!Copy, BacklogInv, RunAt
<1> DEFINE gains == {v \in (DOMAIN chunks) \X Models : v[1] \in Backlog!Pending(v[2]) /\ Backlog!Twins(v[1], v[2]) # {}}
           given == (DOMAIN backVectors) \cup gains
           value(v) == IF v \in gains THEN backVectors[CHOOSE t \in Backlog!Twins(v[1], v[2]) : TRUE] ELSE backVectors[v]
<1>2. backVectors' = [v \in given |-> value(v)]
  BY <1>1 DEF Backlog!CopyByHash, Backlog!Ids
<1>3. ASSUME NEW v \in gains PROVE value(v) = chunks[v[1]]
  <2>1. PICK t : t = CHOOSE x \in Backlog!Twins(v[1], v[2]) : TRUE
    OBVIOUS
  <2>2. t \in Backlog!Twins(v[1], v[2])
    BY <1>3, <2>1
  <2>3. t \in DOMAIN backVectors /\ chunks[t[1]] = chunks[v[1]]
    BY <2>2 DEF Backlog!Twins
  <2> QED
    BY <1>1, <1>3, <2>1, <2>3 DEF VectorsLawful
<1>4. VectorsLawful'
  <2>1. \A v \in given : v \in (DOMAIN chunks) \X Models /\ value(v) = chunks[v[1]]
    BY <1>1, <1>3 DEF VectorsLawful
  <2> HIDE DEF given, value
  <2> QED
    BY <1>1, <1>2, <2>1 DEF VectorsLawful
<1>5. DOMAIN backVectors \subseteq DOMAIN backVectors'
  BY <1>2
<1>6. ASSUME NEW id \in DOMAIN chunks, NEW m \in Models, <<chunks[id], m>> \in seen'[r]
      PROVE  <<id, m>> \in DOMAIN backVectors'
  <2>1. seen'[r] = {<<backVectors[v], v[2]>> : v \in DOMAIN backVectors}
    BY <1>1
  <2>2. PICK v \in DOMAIN backVectors : <<chunks[id], m>> = <<backVectors[v], v[2]>>
    BY <1>6, <2>1
  <2>3. v = <<v[1], v[2]>> /\ v[1] \in DOMAIN chunks /\ chunks[v[1]] = chunks[id] /\ v[2] = m
    BY <1>1, <2>2 DEF VectorsLawful
  <2>4. ASSUME <<id, m>> \notin DOMAIN backVectors PROVE <<id, m>> \in gains
    <3>1. v \in Backlog!Twins(id, m)
      BY <2>3, <2>4 DEF Backlog!Twins, Backlog!Ids
    <3>2. id \in Backlog!Pending(m)
      BY <2>4 DEF Backlog!Pending, Backlog!Ids
    <3> QED
      BY <3>1, <3>2
  <2> QED
    BY <1>2, <2>4
<1> HIDE DEF given, value, gains
<1> DEFINE k == RunAt(run[r], "deleting")
<1>7. /\ DOMAIN k = RunFields /\ k.at = "deleting" /\ k.source = run[r].source /\ k.upserts = run[r].upserts /\ k.deletes = run[r].deletes
      /\ k.models = run[r].models /\ k.model = run[r].model /\ k.batch = run[r].batch
  BY <1>1, RunAtFields DEF RunLawful, TakenLawful
<1>8. run' = [run EXCEPT ![r] = k]
  BY <1>1 DEF Backlog!Goes
<1> HIDE DEF k
<1>9. RunLawful(k, seen'[r], chunks, serial, DOMAIN backVectors')
  <2>1. TakenLawful(k) /\ BatchLawful(k, chunks, serial)
    BY <1>1, <1>7 DEF RunLawful, TakenLawful, BatchLawful
  <2>2. SeenLawful(k, seen'[r], chunks, DOMAIN backVectors')
    BY <1>6, <1>7 DEF SeenLawful
  <2> QED
    BY <2>1, <2>2 DEF RunLawful
<1>10. DOMAIN seen' = IndexerRuns /\ \A q \in IndexerRuns \ {r} : seen'[q] = seen[q]
  BY <1>1
<1> QED
  BY <1>1, <1>4, <1>5, <1>8, <1>9, <1>10, VectorsCome

\* insert: the text of a batch is its row's, if the row is there.
LEMMA StoreStep == ASSUME BacklogInv, NEW r \in IndexerRuns, Backlog!Store(r) PROVE BacklogInv'
<1> DEFINE batch == run[r].batch
           m == run[r].model
           gains == {<<b[1], m>> : b \in Backlog!Inserted(batch, m)}
           given == (DOMAIN backVectors) \cup gains
           value(v) == IF v \in gains THEN (CHOOSE b \in batch : b[1] = v[1])[2] ELSE backVectors[v]
<1>1. /\ run[r].at = "embedding" /\ UNCHANGED <<head, documents, chunks, serial, seen>>
      /\ backVectors' = [v \in given |-> value(v)]
      /\ RunLawful(run[r], seen[r], chunks, serial, DOMAIN backVectors) /\ DOMAIN seen = IndexerRuns
      /\ RowsLawful /\ VectorsLawful
  BY DEF Backlog!Store, BacklogInv, Backlog!Insert
<1>2. PICK at \in {"pending", "model"} : Backlog!Goes(r, RunAsked(run[r], at, {}))
  BY DEF Backlog!Store, RunAsked
<1>3. m \in Models /\ DOMAIN run[r] = RunFields
  BY <1>1 DEF RunLawful, TakenLawful
<1>4. ASSUME NEW v \in gains PROVE v \in (DOMAIN chunks) \X Models /\ value(v) = chunks[v[1]]
  <2>1. PICK b \in batch : v = <<b[1], m>> /\ b[1] \in DOMAIN chunks
    BY <1>4 DEF Backlog!Inserted, Backlog!Ids
  <2>2. PICK c : c = CHOOSE x \in batch : x[1] = v[1]
    OBVIOUS
  <2>3. v[1] = b[1]
    BY <2>1
  <2>4. c \in batch /\ c[1] = v[1]
    BY <2>2, <2>3
  <2>5. chunks[c[1]] = c[2]
    BY <1>1, <2>1, <2>3, <2>4 DEF RunLawful, BatchLawful
  <2>6. value(v) = c[2]
    BY <1>4, <2>2
  <2> QED
    BY <1>3, <2>1, <2>3, <2>4, <2>5, <2>6
<1>5. VectorsLawful'
  <2>1. \A v \in given : v \in (DOMAIN chunks) \X Models /\ value(v) = chunks[v[1]]
    BY <1>1, <1>4 DEF VectorsLawful
  <2> HIDE DEF given, value
  <2> QED
    BY <1>1, <2>1 DEF VectorsLawful
<1>6. DOMAIN backVectors \subseteq DOMAIN backVectors'
  BY <1>1
<1> HIDE DEF given, value, gains
<1> DEFINE k == RunAsked(run[r], at, {})
<1>7. /\ DOMAIN k = RunFields /\ k.at = at /\ k.source = run[r].source /\ k.upserts = run[r].upserts /\ k.deletes = run[r].deletes
      /\ k.models = run[r].models /\ k.model = run[r].model /\ k.batch = {}
  BY <1>3, AskedFields
<1>8. run' = [run EXCEPT ![r] = k]
  BY <1>2 DEF Backlog!Goes
<1> HIDE DEF k
<1>9. RunLawful(k, seen'[r], chunks, serial, DOMAIN backVectors')
  <2>1. TakenLawful(k) /\ BatchLawful(k, chunks, serial)
    BY <1>1, <1>3, <1>7 DEF RunLawful, TakenLawful, BatchLawful
  <2>2. SeenLawful(k, seen'[r], chunks, DOMAIN backVectors')
    BY <1>1, <1>6, <1>7 DEF RunLawful, SeenLawful
  <2> QED
    BY <2>1, <2>2 DEF RunLawful
<1> QED
  BY <1>1, <1>5, <1>6, <1>8, <1>9, VectorsCome

\* Rows change: those that stay keep their text, and the runs whose history counts lose none of their vectors.
LEMMA RowsMove ==
  ASSUME BacklogInv, NEW r \in IndexerRuns, NEW k, run' = [run EXCEPT ![r] = k], head' = head,
         RowsLawful', VectorsLawful', serial <= serial',
         \A id \in DOMAIN chunks' : id < serial => id \in DOMAIN chunks /\ chunks'[id] = chunks[id],
         DOMAIN seen' = IndexerRuns,
         \/ \A q \in IndexerRuns \ {r} : seen'[q] = {}
         \/ /\ \A q \in IndexerRuns \ {r} : seen'[q] = seen[q]
            /\ DOMAIN chunks' \subseteq DOMAIN chunks
            /\ \A id \in DOMAIN chunks', m \in Models :
                 <<id, m>> \in DOMAIN backVectors => <<id, m>> \in DOMAIN backVectors',
         RunLawful(k, seen'[r], chunks', serial', DOMAIN backVectors')
  PROVE  BacklogInv'
<1>1. run'[r] = k /\ DOMAIN run' = IndexerRuns /\ \A q \in IndexerRuns \ {r} : run'[q] = run[q]
  BY DEF BacklogInv
<1>2. ASSUME NEW q \in IndexerRuns \ {r}
      PROVE  RunLawful(run'[q], seen'[q], chunks', serial', DOMAIN backVectors')
  <2>1. serial' \in Nat
    BY DEF RowsLawful
  <2>2. RunLawful(run[q], seen'[q], chunks', serial', DOMAIN backVectors')
    BY <2>1, RunKeeps
  <2> QED
    BY <1>1, <2>2
<1>3. head' \in [DocumentPaths -> Contents \cup {Absent}]
  BY DEF BacklogInv
<1> QED
  BY <1>1, <1>2, <1>3 DEF BacklogInv

\* The rows of documents that go are nobody else's.
LEMMA DeleteRows ==
  ASSUME RowsLawful, VectorsLawful, NEW paths \in SUBSET DocumentPaths, Backlog!Delete(paths)
  PROVE  /\ RowsLawful' /\ VectorsLawful' /\ serial' = serial
         /\ DOMAIN chunks' \subseteq DOMAIN chunks /\ \A id \in DOMAIN chunks' : chunks'[id] = chunks[id]
         /\ \A id \in DOMAIN chunks', m \in Models : <<id, m>> \in DOMAIN backVectors => <<id, m>> \in DOMAIN backVectors'
<1> DEFINE gone == UNION {Backlog!ToSet(documents[p]) : p \in {q \in paths : documents[q] # Absent}}
<1>1. /\ documents' = [p \in DocumentPaths |-> IF p \in paths THEN Absent ELSE documents[p]]
      /\ chunks' = [id \in DOMAIN chunks \ gone |-> chunks[id]]
      /\ backVectors' = [v \in {w \in DOMAIN backVectors : w[1] \notin gone} |-> backVectors[v]]
      /\ serial' = serial
  BY DEF Backlog!Delete, Backlog!Ids
<1>2. \A id : id \in gone <=> \E p \in paths : documents[p] # Absent /\ id \in Backlog!ToSet(documents[p])
  OBVIOUS
<1> HIDE DEF gone
<1>3. \A p \in DocumentPaths : documents'[p] # Absent => p \notin paths /\ documents'[p] = documents[p]
  BY <1>1
<1>4. \A p \in DocumentPaths \ paths : documents[p] # Absent => Backlog!ToSet(documents[p]) \cap gone = {}
  BY <1>2 DEF RowsLawful
<1>5. DOMAIN chunks' = DOMAIN chunks \ gone /\ \A id \in DOMAIN chunks' : chunks'[id] = chunks[id]
  BY <1>1
<1>6. /\ DOMAIN backVectors' = {w \in DOMAIN backVectors : w[1] \notin gone}
      /\ \A v \in DOMAIN backVectors' : backVectors'[v] = backVectors[v]
  BY <1>1
<1>7. RowsLawful'
  <2>1. serial' \in Nat /\ DOMAIN documents' = DocumentPaths
    BY <1>1 DEF RowsLawful
  <2>2. \A p \in DocumentPaths : documents'[p] # Absent => Backlog!ToSet(documents'[p]) \subseteq DOMAIN chunks'
    BY <1>3, <1>4, <1>5 DEF RowsLawful
  <2>3. \A p, q \in DocumentPaths :
          p # q /\ documents'[p] # Absent /\ documents'[q] # Absent
            => Backlog!ToSet(documents'[p]) \cap Backlog!ToSet(documents'[q]) = {}
    BY <1>3 DEF RowsLawful
  <2>4. ASSUME NEW id \in DOMAIN chunks'
        PROVE  /\ id \in Nat /\ id < serial'
               /\ \E p \in DocumentPaths : documents'[p] # Absent /\ id \in Backlog!ToSet(documents'[p])
    <3>1. id \in DOMAIN chunks /\ id \notin gone
      BY <1>5
    <3>2. PICK p \in DocumentPaths : documents[p] # Absent /\ id \in Backlog!ToSet(documents[p])
      BY <3>1 DEF RowsLawful
    <3>3. p \notin paths
      BY <1>2, <3>1, <3>2
    <3>4. documents'[p] = documents[p]
      BY <1>1, <3>3
    <3> QED
      BY <1>1, <3>1, <3>2, <3>4 DEF RowsLawful
  <2> QED
    BY <2>1, <2>2, <2>3, <2>4 DEF RowsLawful
<1>8. VectorsLawful'
  BY <1>5, <1>6 DEF VectorsLawful
<1>9. \A id \in DOMAIN chunks', m \in Models : <<id, m>> \in DOMAIN backVectors => <<id, m>> \in DOMAIN backVectors'
  BY <1>5, <1>6
<1> QED
  BY <1>1, <1>5, <1>7, <1>8, <1>9

LEMMA DeleteStep == ASSUME BacklogInv, NEW r \in IndexerRuns, Backlog!DeleteGone(r) PROVE BacklogInv'
<1>1. /\ run[r].at = "deleting" /\ UNCHANGED <<head, seen>> /\ Backlog!Delete(run[r].deletes)
      /\ Backlog!Goes(r, RunModels(run[r]))
      /\ RunLawful(run[r], seen[r], chunks, serial, DOMAIN backVectors) /\ DOMAIN seen = IndexerRuns
      /\ RowsLawful /\ VectorsLawful
  BY DEF Backlog!DeleteGone, BacklogInv, RunModels
<1>2. DOMAIN run[r] = RunFields /\ run[r].deletes \in SUBSET DocumentPaths
  BY <1>1 DEF RunLawful, TakenLawful
<1>3. /\ RowsLawful' /\ VectorsLawful' /\ serial' = serial
      /\ DOMAIN chunks' \subseteq DOMAIN chunks /\ \A id \in DOMAIN chunks' : chunks'[id] = chunks[id]
      /\ \A id \in DOMAIN chunks', m \in Models : <<id, m>> \in DOMAIN backVectors => <<id, m>> \in DOMAIN backVectors'
  BY <1>1, <1>2, DeleteRows
<1> DEFINE k == RunModels(run[r])
<1>4. /\ DOMAIN k = RunFields /\ k.at = "model" /\ k.source = run[r].source /\ k.upserts = run[r].upserts
      /\ k.deletes = run[r].deletes /\ k.models = Models /\ k.batch = run[r].batch
  BY <1>2, ModelsFields
<1>5. run' = [run EXCEPT ![r] = k]
  BY <1>1 DEF Backlog!Goes
<1> HIDE DEF k
<1>6. serial \in Nat
  BY <1>1 DEF RowsLawful
<1>7. RunLawful(k, seen'[r], chunks', serial', DOMAIN backVectors')
  <2>1. TakenLawful(k)
    BY <1>1, <1>4 DEF RunLawful, TakenLawful
  <2>2. BatchLawful(k, chunks', serial')
    BY <1>1, <1>3, <1>4 DEF RunLawful, BatchLawful
  <2>3. SeenLawful(k, seen'[r], chunks', DOMAIN backVectors')
    BY <1>1, <1>3, <1>4 DEF RunLawful, SeenLawful
  <2> QED
    BY <2>1, <2>2, <2>3 DEF RunLawful
<1>8. /\ head' = head /\ serial <= serial' /\ DOMAIN seen' = IndexerRuns
      /\ \A id \in DOMAIN chunks' : id < serial => id \in DOMAIN chunks /\ chunks'[id] = chunks[id]
      /\ \A q \in IndexerRuns \ {r} : seen'[q] = seen[q]
  BY <1>1, <1>3, <1>6
<1> QED
  BY <1>3, <1>5, <1>7, <1>8, RowsMove

\* reconcileChunks, row by row: the rows of the document before, those that are new, and the row of a chunk.
OldRows(p) == IF documents[p] = Absent THEN <<>> ELSE documents[p]
FreshRows(old, content, i) == Cardinality({j \in 1 .. i : Backlog!Reusable(old, content, j) = {}})
RowOf(old, content, i) ==
  IF Backlog!Reusable(old, content, i) # {} THEN CHOOSE id \in Backlog!Reusable(old, content, i) : TRUE
  ELSE serial + FreshRows(old, content, i) - 1
NowRows(old, content) == [i \in DOMAIN content |-> RowOf(old, content, i)]
KeptRows(old, content) == (DOMAIN chunks \ Backlog!ToSet(old)) \cup Backlog!ToSet(NowRows(old, content))
TextOf(now, content, id) ==
  IF id \in Backlog!ToSet(now) THEN content[CHOOSE i \in DOMAIN now : now[i] = id] ELSE chunks[id]

LEMMA ReconcileIs ==
  ASSUME NEW p, NEW content, Backlog!Reconcile(p, content)
  PROVE  /\ documents' = [documents EXCEPT ![p] = NowRows(OldRows(p), content)]
         /\ serial' = serial + FreshRows(OldRows(p), content, Len(content))
         /\ chunks' = [id \in KeptRows(OldRows(p), content) |-> TextOf(NowRows(OldRows(p), content), content, id)]
         /\ backVectors' = [v \in {w \in DOMAIN backVectors : w[1] \in KeptRows(OldRows(p), content)} |-> backVectors[v]]
BY DEF Backlog!Reconcile, OldRows, RowOf, FreshRows, NowRows, KeptRows, TextOf,
       Backlog!Ids, Backlog!Cardinality, Cardinality

\* A reusable row is one of the document's, of the chunk's own text.
LEMMA ReusableRows ==
  ASSUME NEW old, NEW content, NEW i, NEW id \in Backlog!Reusable(old, content, i)
  PROVE  id \in Backlog!ToSet(old) /\ chunks[id] = content[i]
BY DEF Backlog!Reusable, Backlog!ToSet

\* New rows are numbered from the sequence on.
LEMMA FreshCounts ==
  ASSUME NEW old, NEW content, NEW n \in Nat, NEW i \in 1 .. n
  PROVE  /\ FreshRows(old, content, n) \in Nat /\ FreshRows(old, content, i) \in Nat
         /\ FreshRows(old, content, i) <= FreshRows(old, content, n)
         /\ Backlog!Reusable(old, content, i) = {} => FreshRows(old, content, i) >= 1
<1> DEFINE F(m) == {j \in 1 .. m : Backlog!Reusable(old, content, j) = {}}
<1>1. F(n) \subseteq 1 .. n /\ IsFiniteSet(1 .. n)
  BY FS_Interval
<1>2. IsFiniteSet(F(n)) /\ Cardinality(F(n)) \in Nat
  BY <1>1, FS_Subset, FS_CardinalityType
<1>3. F(i) \subseteq F(n)
  OBVIOUS
<1>4. IsFiniteSet(F(i)) /\ Cardinality(F(i)) \in Nat /\ Cardinality(F(i)) <= Cardinality(F(n))
  BY <1>2, <1>3, FS_Subset, FS_CardinalityType
<1>5. ASSUME Backlog!Reusable(old, content, i) = {} PROVE Cardinality(F(i)) >= 1
  <2>1. i \in F(i)
    BY <1>5
  <2>2. Cardinality(F(i)) # 0
    BY <1>4, <2>1, FS_EmptySet
  <2> QED
    BY <1>4, <2>2
<1> QED
  BY <1>2, <1>4, <1>5 DEF FreshRows

\* The row of a chunk was the document's, with the same text, or is new.
LEMMA RowIs ==
  ASSUME RowsLawful, NEW old, Backlog!ToSet(old) \subseteq DOMAIN chunks, NEW content \in Contents, NEW i \in DOMAIN content
  PROVE  LET id == RowOf(old, content, i)
         IN  /\ id \in Nat /\ id < serial + FreshRows(old, content, Len(content))
             /\ \/ id \in Backlog!ToSet(old) /\ chunks[id] = content[i] /\ id < serial
                \/ id >= serial
<1> DEFINE id == RowOf(old, content, i)
<1>1. Len(content) \in Nat /\ i \in 1 .. Len(content) /\ serial \in Nat
  BY KnowledgeBaseAssumption DEF RowsLawful
<1>2. /\ FreshRows(old, content, Len(content)) \in Nat /\ FreshRows(old, content, i) \in Nat
      /\ FreshRows(old, content, i) <= FreshRows(old, content, Len(content))
      /\ Backlog!Reusable(old, content, i) = {} => FreshRows(old, content, i) >= 1
  BY <1>1, FreshCounts
<1>3. CASE Backlog!Reusable(old, content, i) # {}
  <2>1. id \in Backlog!Reusable(old, content, i)
    BY <1>3 DEF RowOf
  <2> HIDE DEF id
  <2>2. id \in Backlog!ToSet(old) /\ chunks[id] = content[i]
    BY <2>1, ReusableRows
  <2>3. id \in Nat /\ id < serial
    BY <2>2 DEF RowsLawful
  <2> QED
    BY <1>1, <1>2, <2>2, <2>3 DEF id
<1>4. CASE Backlog!Reusable(old, content, i) = {}
  <2>1. id = serial + FreshRows(old, content, i) - 1
    BY <1>4 DEF RowOf
  <2> QED
    BY <1>1, <1>2, <1>4, <2>1
<1> QED
  BY <1>3, <1>4

LEMMA ReconcileRows ==
  ASSUME RowsLawful, VectorsLawful, NEW p \in DocumentPaths, NEW content \in Contents, Backlog!Reconcile(p, content)
  PROVE  /\ RowsLawful' /\ VectorsLawful' /\ serial <= serial'
         /\ \A id \in DOMAIN chunks' : id < serial => id \in DOMAIN chunks /\ chunks'[id] = chunks[id]
<1> DEFINE old == OldRows(p)
           now == NowRows(old, content)
           mine == Backlog!ToSet(now)
           kept == KeptRows(old, content)
           text(id) == TextOf(now, content, id)
<1>1. /\ documents' = [documents EXCEPT ![p] = now]
      /\ serial' = serial + FreshRows(old, content, Len(content))
      /\ chunks' = [id \in kept |-> text(id)]
      /\ backVectors' = [v \in {w \in DOMAIN backVectors : w[1] \in kept} |-> backVectors[v]]
  BY ReconcileIs
<1>2. Backlog!ToSet(old) \subseteq DOMAIN chunks
  BY DEF RowsLawful, OldRows, Backlog!ToSet
<1> kept = (DOMAIN chunks \ Backlog!ToSet(old)) \cup mine
  BY DEF KeptRows
<1> \A id : text(id) = IF id \in mine THEN content[CHOOSE i \in DOMAIN now : now[i] = id] ELSE chunks[id]
  BY DEF TextOf
<1>3. \A i \in DOMAIN content :
        /\ now[i] \in Nat /\ now[i] < serial'
        /\ \/ now[i] \in Backlog!ToSet(old) /\ chunks[now[i]] = content[i] /\ now[i] < serial
           \/ now[i] >= serial
  BY <1>1, <1>2, RowIs DEF NowRows
<1>4. DOMAIN now = DOMAIN content /\ Len(content) \in Nat /\ DOMAIN content = 1 .. Len(content)
  BY KnowledgeBaseAssumption DEF NowRows
<1>5. now # Absent
  <2>1. now = [i \in 1 .. Len(content) |-> now[i]] /\ \A i \in 1 .. Len(content) : now[i] \in Nat
    BY <1>3, <1>4 DEF NowRows
  <2>2. now \in Seq(Nat)
    <3> HIDE DEF now
    <3> QED
      BY <1>4, <2>1
  <2> QED
    BY <2>2, KnowledgeBaseAssumption
<1> HIDE DEF now
<1>6. \A id : id \in mine <=> \E i \in DOMAIN content : id = now[i]
  BY <1>4 DEF Backlog!ToSet
<1> HIDE DEF mine, kept, text
<1>7. serial \in Nat /\ serial' \in Nat /\ serial <= serial'
  <2>1. FreshRows(old, content, Len(content)) \in Nat
    <3>1. CASE Len(content) = 0
      <4>1. {j \in 1 .. Len(content) : Backlog!Reusable(old, content, j) = {}} = {}
        BY <3>1
      <4>2. Cardinality({}) = 0
        BY FS_EmptySet
      <4>3. FreshRows(old, content, Len(content)) = 0
        BY <4>1, <4>2 DEF FreshRows
      <4> QED
        BY <4>3
    <3>2. CASE Len(content) # 0
      <4>1. Len(content) \in 1 .. Len(content)
        BY <1>4, <3>2
      <4> QED
        BY <1>4, <4>1, FreshCounts
    <3> QED
      BY <3>1, <3>2
  <2> QED
    BY <1>1, <2>1 DEF RowsLawful
<1> HIDE DEF old
<1>8. \A id \in mine : /\ id \in Nat /\ id < serial'
                       /\ (id \in Backlog!ToSet(old) /\ id < serial) \/ id >= serial
  BY <1>3, <1>6
<1>9. ASSUME NEW id \in mine, id < serial PROVE text(id) = chunks[id]
  <2>1. PICK i : i = CHOOSE j \in DOMAIN now : now[j] = id
    OBVIOUS
  <2>2. i \in DOMAIN content /\ now[i] = id
    BY <1>4, <1>6, <1>9, <2>1
  <2>3. text(id) = content[i]
    BY <1>9, <2>1
  <2> QED
    BY <1>3, <1>7, <1>9, <2>2, <2>3
<1>10. ASSUME NEW id \in kept, id < serial PROVE id \in DOMAIN chunks /\ text(id) = chunks[id]
  BY <1>2, <1>7, <1>8, <1>9, <1>10
<1>11. DOMAIN chunks' = kept /\ \A id \in kept : chunks'[id] = text(id)
  BY <1>1
<1>12. \A id \in DOMAIN chunks' : id < serial => id \in DOMAIN chunks /\ chunks'[id] = chunks[id]
  BY <1>10, <1>11
<1>13. \A q \in DocumentPaths \ {p} : documents'[q] = documents[q]
  BY <1>1 DEF RowsLawful
<1>14. documents'[p] = now /\ DOMAIN documents' = DocumentPaths
  BY <1>1 DEF RowsLawful
<1>15. ASSUME NEW q \in DocumentPaths \ {p}, documents[q] # Absent
       PROVE  /\ Backlog!ToSet(documents[q]) \cap Backlog!ToSet(old) = {}
              /\ Backlog!ToSet(documents[q]) \cap mine = {}
              /\ Backlog!ToSet(documents[q]) \subseteq DOMAIN chunks
  <2>1. Backlog!ToSet(documents[q]) \subseteq DOMAIN chunks /\ \A id \in DOMAIN chunks : id \in Nat /\ id < serial
    BY <1>15 DEF RowsLawful
  <2>2. Backlog!ToSet(documents[q]) \cap Backlog!ToSet(old) = {}
    BY <1>15 DEF RowsLawful, old, OldRows, Backlog!ToSet
  <2> QED
    BY <1>7, <1>8, <2>1, <2>2
<1>16. RowsLawful'
  <2>1. \A q \in DocumentPaths : documents'[q] # Absent => Backlog!ToSet(documents'[q]) \subseteq kept
    BY <1>13, <1>14, <1>15 DEF mine
  <2>2. ASSUME NEW o \in DocumentPaths, NEW q \in DocumentPaths, o # q, documents'[o] # Absent, documents'[q] # Absent
        PROVE  Backlog!ToSet(documents'[o]) \cap Backlog!ToSet(documents'[q]) = {}
    <3>1. CASE o # p /\ q # p
      BY <1>13, <2>2, <3>1 DEF RowsLawful
    <3>2. CASE o = p
      <4>1. Backlog!ToSet(documents'[o]) = mine /\ documents'[q] = documents[q] /\ q # p
        BY <1>13, <1>14, <2>2, <3>2 DEF mine
      <4> QED
        BY <1>15, <2>2, <4>1
    <3>3. CASE q = p
      <4>1. Backlog!ToSet(documents'[q]) = mine /\ documents'[o] = documents[o] /\ o # p
        BY <1>13, <1>14, <2>2, <3>3 DEF mine
      <4> QED
        BY <1>15, <2>2, <4>1
    <3> QED
      BY <3>1, <3>2, <3>3
  <2>3. ASSUME NEW id \in kept
        PROVE  /\ id \in Nat /\ id < serial'
               /\ \E q \in DocumentPaths : documents'[q] # Absent /\ id \in Backlog!ToSet(documents'[q])
    <3>1. CASE id \in mine
      BY <1>5, <1>8, <1>14, <3>1 DEF mine
    <3>2. CASE id \notin mine
      <4>1. id \in DOMAIN chunks /\ id \notin Backlog!ToSet(old)
        BY <3>2
      <4>2. PICK q \in DocumentPaths : documents[q] # Absent /\ id \in Backlog!ToSet(documents[q])
        BY <4>1 DEF RowsLawful
      <4>3. q # p
        BY <4>1, <4>2 DEF old, OldRows
      <4>4. documents'[q] = documents[q]
        BY <1>13, <4>3
      <4>5. id \in Nat /\ id < serial
        BY <4>1 DEF RowsLawful
      <4> QED
        BY <1>7, <4>2, <4>4, <4>5
    <3> QED
      BY <3>1, <3>2
  <2> QED
    BY <1>7, <1>11, <1>14, <2>1, <2>2, <2>3 DEF RowsLawful
<1>17. VectorsLawful'
  <2>1. /\ DOMAIN backVectors' = {w \in DOMAIN backVectors : w[1] \in kept}
        /\ \A v \in DOMAIN backVectors' : backVectors'[v] = backVectors[v]
    BY <1>1
  <2>2. \A v \in DOMAIN backVectors' : /\ v \in kept \X Models /\ v[1] \in DOMAIN chunks
                                     /\ backVectors'[v] = chunks[v[1]]
    BY <2>1 DEF VectorsLawful
  <2>3. \A id \in DOMAIN chunks : id < serial
    BY DEF RowsLawful
  <2> QED
    BY <1>11, <1>12, <2>2, <2>3 DEF VectorsLawful
<1> QED
  BY <1>7, <1>12, <1>16, <1>17

\* upsert: nothing changes, or the document's rows are reconciled; the other runs' history begins again.
LEMMA UpsertRows == ASSUME BacklogInv, NEW r \in IndexerRuns, Backlog!UpsertNext(r) PROVE BacklogInv'
<1>1. /\ run[r].at = "upserting" /\ head' = head
      /\ seen' = [q \in IndexerRuns |-> IF q = r THEN seen[q] ELSE {}]
      /\ RunLawful(run[r], seen[r], chunks, serial, DOMAIN backVectors)
      /\ RowsLawful /\ VectorsLawful
  BY DEF Backlog!UpsertNext, BacklogInv
<1>2. PICK p \in run[r].upserts :
        Backlog!Upsert(p, run[r].source[p]) /\ Backlog!Goes(r, RunUpserted(run[r], p))
  BY DEF Backlog!UpsertNext, RunUpserted
<1> DEFINE content == run[r].source[p]
           k == RunUpserted(run[r], p)
<1>3. DOMAIN run[r] = RunFields /\ p \in DocumentPaths /\ content \in Contents
  BY <1>1, <1>2 DEF RunLawful, TakenLawful
<1>4. /\ RowsLawful' /\ VectorsLawful' /\ serial <= serial'
      /\ \A id \in DOMAIN chunks' : id < serial => id \in DOMAIN chunks /\ chunks'[id] = chunks[id]
  <2>1. CASE Backlog!SameDocument(p, content)
    <3>1. UNCHANGED <<documents, chunks, backVectors, serial>>
      BY <1>2, <2>1 DEF Backlog!Upsert
    <3> QED
      BY <1>1, <3>1 DEF RowsLawful, VectorsLawful
  <2>2. CASE ~Backlog!SameDocument(p, content)
    <3>1. Backlog!Reconcile(p, content)
      BY <1>2, <2>2 DEF Backlog!Upsert
    <3> HIDE DEF content
    <3> QED
      BY <1>1, <1>3, <3>1, ReconcileRows
  <2> QED
    BY <2>1, <2>2
<1>5. /\ DOMAIN k = RunFields /\ k.at = run[r].at /\ k.source = run[r].source
      /\ k.upserts = run[r].upserts \ {p} /\ k.deletes = run[r].deletes
      /\ k.models = run[r].models /\ k.model = run[r].model /\ k.batch = run[r].batch
  BY <1>3, UpsertedFields
<1>6. run' = [run EXCEPT ![r] = k]
  BY <1>2 DEF Backlog!Goes
<1> HIDE DEF k, content
<1>7. DOMAIN seen' = IndexerRuns /\ seen'[r] = {} /\ \A q \in IndexerRuns \ {r} : seen'[q] = {}
  BY <1>1 DEF RunLawful, SeenLawful
<1>8. serial \in Nat /\ serial' \in Nat
  BY <1>1, <1>4 DEF RowsLawful
<1>9. RunLawful(k, seen'[r], chunks', serial', DOMAIN backVectors')
  <2>1. TakenLawful(k)
    BY <1>1, <1>5 DEF RunLawful, TakenLawful
  <2>2. BatchLawful(k, chunks', serial')
    BY <1>1, <1>4, <1>5, <1>8 DEF RunLawful, BatchLawful
  <2>3. SeenLawful(k, seen'[r], chunks', DOMAIN backVectors')
    BY <1>1, <1>5, <1>7 DEF SeenLawful
  <2> QED
    BY <2>1, <2>2, <2>3 DEF RunLawful
<1> QED
  BY <1>1, <1>4, <1>6, <1>7, <1>9, RowsMove

\* Every step of EmbeddingBacklog.
LEMMA BacklogStep == BacklogInv /\ [Backlog!Next]_(Backlog!vars) => BacklogInv'
<1> SUFFICES ASSUME BacklogInv, [Backlog!Next]_(Backlog!vars) PROVE BacklogInv'
  OBVIOUS
<1>1. CASE UNCHANGED Backlog!vars
  BY <1>1 DEF BacklogInv, RowsLawful, VectorsLawful, Backlog!vars
<1> QED
  BY <1>1, PublishStep, BeginStep, EndStep, ModelStep, BatchAsk, CopyStep, StoreStep, DeleteStep, UpsertRows
     DEF Backlog!Next, Backlog!Step

----------------------------------------------------------------------------
(* Elements in an order *)

\* A strict order of a set in which any two elements are ordered.
StrictOrder(R, S) ==
  /\ \A a \in S : <<a, a>> \notin R
  /\ \A a, b, c \in S : <<a, b>> \in R /\ <<b, c>> \in R => <<a, c>> \in R
  /\ \A a, b \in S : a # b => <<a, b>> \in R \/ <<b, a>> \in R

\* A finite set in such an order is a sequence of it: each element once, by how many are before it.
LEMMA RankedFacts ==
  ASSUME NEW S, NEW R, IsFiniteSet(S), StrictOrder(R, S)
  PROVE  /\ Search!Ranked(S, R) \in Seq(S)
         /\ Len(Search!Ranked(S, R)) = Cardinality(S)
         /\ Search!ToSet(Search!Ranked(S, R)) = S
         /\ \A i, j \in 1 .. Cardinality(S) : Search!Ranked(S, R)[i] = Search!Ranked(S, R)[j] => i = j
         /\ \A i, j \in 1 .. Cardinality(S) : <<Search!Ranked(S, R)[i], Search!Ranked(S, R)[j]>> \in R => i < j
<1> DEFINE Before(d) == {e \in S : <<e, d>> \in R}
           c == Cardinality(S)
           at == [d \in S |-> Cardinality(Before(d)) + 1]
           ranked == Search!Ranked(S, R)
<1>1. c \in Nat
  BY FS_CardinalityType
<1>2. ASSUME NEW d \in S
      PROVE  IsFiniteSet(Before(d)) /\ Cardinality(Before(d)) \in Nat /\ Cardinality(Before(d)) < c
  <2>1. Before(d) \in SUBSET (S \ {d})
    BY DEF StrictOrder
  <2>2. IsFiniteSet(S \ {d}) /\ Cardinality(S \ {d}) = c - 1
    BY FS_RemoveElement
  <2> HIDE DEF Before, c
  <2>3. IsFiniteSet(Before(d)) /\ Cardinality(Before(d)) <= Cardinality(S \ {d})
    BY <2>1, <2>2, FS_Subset
  <2>4. Cardinality(Before(d)) \in Nat
    BY <2>3, FS_CardinalityType
  <2> QED
    BY <1>1, <2>2, <2>3, <2>4
<1>3. ASSUME NEW a \in S, NEW b \in S, <<a, b>> \in R
      PROVE  Cardinality(Before(a)) < Cardinality(Before(b))
  <2>1. Before(a) \in SUBSET Before(b)
    BY <1>3 DEF StrictOrder
  <2>2. a \in Before(b) /\ a \notin Before(a)
    BY <1>3 DEF StrictOrder
  <2>3. IsFiniteSet(Before(b)) /\ Cardinality(Before(a)) \in Nat /\ Cardinality(Before(b)) \in Nat
    BY <1>2
  <2> HIDE DEF Before
  <2>4. Cardinality(Before(a)) <= Cardinality(Before(b)) /\ Cardinality(Before(b)) # Cardinality(Before(a))
    <3>1. Before(b) # Before(a)
      BY <2>2
    <3> QED
      BY <2>1, <2>3, <3>1, FS_Subset
  <2> QED
    BY <2>3, <2>4
<1>4. at \in [S -> 1 .. c]
  <2> HIDE DEF Before, c
  <2> QED
    BY <1>1, <1>2
<1>5. ASSUME NEW a \in S, NEW b \in S, at[a] = at[b]
      PROVE  a = b
  <2>1. Cardinality(Before(a)) = Cardinality(Before(b))
    <3> HIDE DEF Before
    <3> QED
      BY <1>2, <1>5
  <2>2. <<a, b>> \notin R /\ <<b, a>> \notin R
    <3> HIDE DEF Before
    <3> QED
      BY <1>2, <1>3, <2>1
  <2> QED
    BY <2>2 DEF StrictOrder
<1>6. IsFiniteSet(1 .. c) /\ Cardinality(1 .. c) = c
  <2> HIDE DEF c
  <2> QED
    BY <1>1, FS_Interval
<1>7. \A n \in 1 .. c : \E d \in S : at[d] = n
  <2> HIDE DEF at
  <2>1. at \in Injection(S, 1 .. c)
    BY <1>4, <1>5 DEF Injection, IsInjective
  <2>2. at \in Surjection(S, 1 .. c)
    BY <1>6, <2>1, FS_Injection
  <2> QED
    BY <2>2 DEF Surjection
<1>8. \A d \in S : at[d] = Cardinality(Before(d)) + 1
  OBVIOUS
<1>9. ranked = [n \in 1 .. c |-> CHOOSE d \in S : Cardinality(Before(d)) = n - 1]
  BY DEF Search!Ranked, Search!Cardinality, Cardinality
<1> HIDE DEF Before, c, at, ranked
<1>10. ASSUME NEW n \in 1 .. c
       PROVE  ranked[n] \in S /\ at[ranked[n]] = n
  <2>1. PICK d \in S : at[d] = n
    BY <1>7
  <2>2. Cardinality(Before(d)) = n - 1
    BY <1>1, <1>2, <1>8, <2>1
  <2>3. ranked[n] \in S /\ Cardinality(Before(ranked[n])) = n - 1
    BY <1>9, <2>2
  <2> QED
    BY <1>1, <1>8, <2>3
<1>11. ranked \in Seq(S) /\ Len(ranked) = c
  <2>1. ranked \in [1 .. c -> S]
    BY <1>9, <1>10
  <2> QED
    BY <1>1, <2>1
<1>12. \A i, j \in 1 .. c : ranked[i] = ranked[j] => i = j
  BY <1>10
<1>13. Search!ToSet(ranked) = S
  <2>1. DOMAIN ranked = 1 .. c
    BY <1>9
  <2>2. \A d \in S : at[d] \in 1 .. c /\ ranked[at[d]] = d
    BY <1>4, <1>5, <1>10
  <2> QED
    BY <1>10, <2>1, <2>2 DEF Search!ToSet
<1>14. ASSUME NEW i \in 1 .. c, NEW j \in 1 .. c, <<ranked[i], ranked[j]>> \in R
       PROVE  i < j
  <2>1. Cardinality(Before(ranked[i])) < Cardinality(Before(ranked[j]))
    BY <1>3, <1>10, <1>14
  <2>2. at[ranked[i]] = i /\ at[ranked[j]] = j /\ i \in Int /\ j \in Int
    BY <1>10
  <2> QED
    BY <1>2, <1>8, <1>10, <2>1, <2>2
<1> QED
  BY <1>11, <1>12, <1>13, <1>14 DEF ranked, c

\* By a number of their own, elements are in a strict order.
LEMMA NumberOrder ==
  ASSUME NEW S, NEW f \in [S -> Nat], \A a, b \in S : f[a] = f[b] => a = b
  PROVE  StrictOrder({p \in S \X S : f[p[1]] < f[p[2]]}, S)
  BY DEF StrictOrder

\* So they are by four numbers in turn, the first of which counts down.
LEMMA TurnsOrder ==
  ASSUME NEW S, NEW f \in [S -> Nat], NEW g \in [S -> Nat], NEW h \in [S -> Nat], NEW k \in [S -> Nat],
         \A a, b \in S : f[a] = f[b] /\ g[a] = g[b] /\ h[a] = h[b] /\ k[a] = k[b] => a = b
  PROVE  StrictOrder({p \in S \X S :
                        \/ f[p[1]] > f[p[2]]
                        \/ /\ f[p[1]] = f[p[2]]
                           /\ \/ g[p[1]] < g[p[2]]
                              \/ /\ g[p[1]] = g[p[2]]
                                 /\ \/ h[p[1]] < h[p[2]]
                                    \/ h[p[1]] = h[p[2]] /\ k[p[1]] < k[p[2]]}, S)
<1> DEFINE Less(a, b) == \/ f[a] > f[b]
                         \/ /\ f[a] = f[b]
                            /\ \/ g[a] < g[b]
                               \/ /\ g[a] = g[b]
                                  /\ \/ h[a] < h[b]
                                     \/ h[a] = h[b] /\ k[a] < k[b]
           R == {p \in S \X S : Less(p[1], p[2])}
<1>1. \A a, b \in S : <<a, b>> \in R <=> Less(a, b)
  <2> HIDE DEF Less
  <2> QED
    OBVIOUS
<1>2. \A a \in S : f[a] \in Nat /\ g[a] \in Nat /\ h[a] \in Nat /\ k[a] \in Nat
  OBVIOUS
<1>3. \A a \in S : ~Less(a, a)
  BY <1>2
<1>4. \A a, b, c \in S : Less(a, b) /\ Less(b, c) => Less(a, c)
  BY <1>2
<1>5. ASSUME NEW a \in S, NEW b \in S, a # b
      PROVE  Less(a, b) \/ Less(b, a)
  BY <1>2, <1>5
<1>6. StrictOrder(R, S)
  <2> HIDE DEF Less, R
  <2> QED
    BY <1>1, <1>3, <1>4, <1>5 DEF StrictOrder
<1> QED
  BY <1>6

----------------------------------------------------------------------------
(***************************************************************************)
(* KnowledgeSearch: each leg holds what it was asked for or is full, so    *)
(* what no leg could see at its moment got its vector between two of them. *)
(***************************************************************************)
SearchRankings == Seq([ids : Seq(Search!Documents), weight : Nat])

SearchTypes ==
  /\ stored \subseteq Search!Documents /\ searchVectors \subseteq stored /\ steady \subseteq stored
  /\ query = [at |-> query.at, kbs |-> query.kbs, filter |-> query.filter, weights |-> query.weights,
              rankings |-> query.rankings, models |-> query.models, text |-> query.text,
              covered |-> query.covered, hits |-> query.hits, mode |-> query.mode, found |-> query.found]
  /\ query.weights \in Nat \X Nat
  /\ query.rankings \in SearchRankings
  /\ query.found \subseteq Search!Documents

\* The legs that have answered named each document once, and none that was not asked for.
LegsRight ==
  \A i \in DOMAIN query.rankings :
    LET ids == query.rankings[i].ids
    IN  /\ \A n \in DOMAIN ids : ids[n][1] \in query.kbs /\ Search!Matches(ids[n], query.filter)
        /\ \A m, n \in DOMAIN ids : ids[m] = ids[n] => m = n

Wanted(d) ==
  /\ d \in Search!ToSet(TextOrder) /\ d \in steady
  /\ d[1] \in query.kbs /\ Search!Matches(d, query.filter)

\* Nothing more is to be done for a document: a leg has it or was full, or its vector came meanwhile.
Answered(d) ==
  \/ d \in late
  \/ \E i \in DOMAIN query.rankings : d \in Search!ToSet(query.rankings[i].ids) \/ Len(query.rankings[i].ids) >= Candidates

LegsCover ==
  /\ query.at \in {"embedding", "nearest"} => query.covered = {}
  /\ query.at = "unembedded" =>
       /\ query.weights[2] = 0 /\ query.covered = Search!Group
       /\ \A d \in steady : Wanted(d) /\ d[1] \in query.covered => Answered(d) \/ d \notin searchVectors
  /\ query.at = "fulltext" =>
       \A d \in steady : Wanted(d) /\ d[1] \in query.covered => query.weights[2] > 0 \/ Answered(d)
  /\ query.at = "details" => \A d \in steady : Wanted(d) => Answered(d)

\* One document is looked for by no filter, in what may be read.
DocumentRight ==
  query.at \in {"got", "finding"} => query.filter = {} /\ \A d \in query.found : d[1] \in query.kbs

SearchInv == SearchTypes /\ LegsRight /\ LegsCover /\ DocumentRight /\ Search!AnswersWhole

(* What a leg, the fusion and the page hold *)

LEMMA AtFacts ==
  ASSUME NEW ids, NEW d \in Search!ToSet(ids)
  PROVE  Search!At(ids, d) \in DOMAIN ids /\ ids[Search!At(ids, d)] = d
<1>1. \E n \in DOMAIN ids : ids[n] = d
  BY DEF Search!ToSet
<1> QED
  BY <1>1 DEF Search!At

LEMMA CutFacts ==
  ASSUME NEW D, NEW s \in Seq(D), NEW n \in Nat
  PROVE  /\ Search!Cut(s, n) \in Seq(D)
         /\ Len(Search!Cut(s, n)) = IF Len(s) < n THEN Len(s) ELSE n
         /\ DOMAIN Search!Cut(s, n) = 1 .. Len(Search!Cut(s, n))
         /\ \A i \in 1 .. Len(Search!Cut(s, n)) : i \in 1 .. Len(s) /\ Search!Cut(s, n)[i] = s[i]
<1> DEFINE m == IF Len(s) < n THEN Len(s) ELSE n
<1>1. m \in Nat /\ m <= Len(s) /\ Len(s) \in Nat
  OBVIOUS
<1>2. Search!Cut(s, n) = SubSeq(s, 1, m)
  BY DEF Search!Cut
<1> DEFINE t == SubSeq(s, 1, m)
<1>3. t \in Seq(D) /\ Len(t) = m /\ \A i \in 1 .. m : t[i] = s[i]
  <2> HIDE DEF m
  <2> QED
    BY <1>1
<1>4. DOMAIN t = 1 .. Len(t)
  BY <1>3
<1> HIDE DEF t
<1>5. \A i \in 1 .. m : i \in 1 .. Len(s)
  BY <1>1
<1> QED
  BY <1>2, <1>3, <1>4, <1>5 DEF t

\* A leg names no document twice, none but those it was asked for, and all of them unless it is full.
LEMMA BestFacts ==
  ASSUME NEW order \in Seq(Search!Documents), NEW among
  PROVE  LET ids == Search!Best(order, among)
         IN  /\ ids \in Seq(Search!Documents)
             /\ \A n \in DOMAIN ids : ids[n] \in among
             /\ \A m, n \in DOMAIN ids : ids[m] = ids[n] => m = n
             /\ \A d \in Search!ToSet(order) \cap among : d \in Search!ToSet(ids) \/ Len(ids) >= Candidates
<1> DEFINE S == Search!ToSet(order) \cap among
           R == {p \in S \X S : Search!At(order, p[1]) < Search!At(order, p[2])}
           f == [d \in S |-> Search!At(order, d)]
           all == Search!Ranked(S, R)
           ids == Search!Best(order, among)
<1>1. S \in SUBSET Search!Documents /\ IsFiniteSet(Search!Documents) /\ Candidates \in Nat
  BY SearchAssumption DEF Search!ToSet
<1>2. IsFiniteSet(S)
  <2> HIDE DEF S
  <2> QED
    BY <1>1, FS_Subset
<1>3. StrictOrder(R, S)
  <2>1. \A d \in S : Search!At(order, d) \in Nat /\ order[Search!At(order, d)] = d
    BY AtFacts
  <2>2. R = {p \in S \X S : f[p[1]] < f[p[2]]}
    OBVIOUS
  <2>3. f \in [S -> Nat] /\ \A a, b \in S : f[a] = f[b] => a = b
    BY <2>1
  <2> HIDE DEF S, R, f
  <2> QED
    BY <2>2, <2>3, NumberOrder
<1>4. ids = Search!Cut(all, Candidates)
  BY DEF Search!Best
<1>5. S \subseteq among /\ S = Search!ToSet(order) \cap among
  OBVIOUS
<1> HIDE DEF S, R, all, ids
<1>6. /\ all \in Seq(S) /\ Search!ToSet(all) = S
      /\ \A i, j \in 1 .. Len(all) : all[i] = all[j] => i = j
  BY <1>2, <1>3, RankedFacts DEF all
<1>7. /\ ids \in Seq(S) /\ Len(ids) = IF Len(all) < Candidates THEN Len(all) ELSE Candidates
      /\ DOMAIN ids = 1 .. Len(ids) /\ \A i \in 1 .. Len(ids) : i \in 1 .. Len(all) /\ ids[i] = all[i]
  BY <1>1, <1>4, <1>6, CutFacts
<1>8. ids \in Seq(Search!Documents)
  BY <1>1, <1>7
<1>9. \A n \in DOMAIN ids : ids[n] \in among
  <2>1. \A n \in DOMAIN ids : ids[n] \in S
    BY <1>7
  <2> QED
    BY <1>5, <2>1
<1>10. \A m, n \in DOMAIN ids : ids[m] = ids[n] => m = n
  BY <1>6, <1>7
<1>11. ASSUME NEW d \in S, Len(ids) < Candidates
       PROVE  d \in Search!ToSet(ids)
  <2>1. Len(ids) = Len(all)
    BY <1>1, <1>7, <1>11
  <2>2. PICK i \in DOMAIN all : all[i] = d
    BY <1>6 DEF Search!ToSet
  <2>3. DOMAIN all = 1 .. Len(all)
    BY <1>6
  <2>4. i \in DOMAIN ids /\ ids[i] = d
    BY <1>7, <2>1, <2>2, <2>3
  <2> QED
    BY <2>4 DEF Search!ToSet
<1>12. Len(ids) \in Nat
  BY <1>7
<1>13. \A d \in Search!ToSet(order) \cap among : d \in Search!ToSet(ids) \/ Len(ids) >= Candidates
  BY <1>1, <1>5, <1>11, <1>12
<1> QED
  BY <1>8, <1>9, <1>10, <1>13 DEF ids

LEMMA RankingsFacts ==
  ASSUME NEW rankings \in SearchRankings
  PROVE  /\ Len(rankings) \in Nat /\ DOMAIN rankings = 1 .. Len(rankings)
         /\ \A i \in 1 .. Len(rankings) : rankings[i].ids \in Seq(Search!Documents) /\ rankings[i].weight \in Nat
<1> DEFINE R == [ids : Seq(Search!Documents), weight : Nat]
<1>1. rankings \in Seq(R)
  BY DEF SearchRankings
<1> HIDE DEF R
<1>2. Len(rankings) \in Nat /\ DOMAIN rankings = 1 .. Len(rankings) /\ \A i \in 1 .. Len(rankings) : rankings[i] \in R
  BY <1>1
<1>3. \A r \in R : r.ids \in Seq(Search!Documents) /\ r.weight \in Nat
  BY DEF R
<1> QED
  BY <1>2, <1>3

\* What a list gives a document is a number: a rank counts from 1.
LEMMA ShareNat ==
  ASSUME NEW ids \in Seq(Search!Documents), NEW w \in Nat, NEW ranking, ranking.ids = ids, ranking.weight = w, NEW d
  PROVE  Search!Share(ranking, d) \in Nat
<1>1. CASE d \in Search!ToSet(ids)
  <2>1. Search!At(ids, d) \in 1 .. Len(ids) /\ Len(ids) \in Nat
    BY <1>1, AtFacts
  <2>2. RrfK + Search!At(ids, d) \in Nat \ {0} /\ Scale \in Nat
    BY <2>1, SearchAssumption
  <2>3. Scale \div (RrfK + Search!At(ids, d)) \in Nat
    BY <2>2
  <2>4. w * (Scale \div (RrfK + Search!At(ids, d))) \in Nat
    BY <2>3
  <2>5. Search!Share(ranking, d) = w * (Scale \div (RrfK + Search!At(ids, d)))
    BY <1>1 DEF Search!Share
  <2> QED
    BY <2>4, <2>5
<1>2. CASE d \notin Search!ToSet(ids)
  <2>1. Search!Share(ranking, d) = 0
    BY <1>2 DEF Search!Share
  <2> QED
    BY <2>1
<1> QED
  BY <1>1, <1>2

\* So is the sum of what all lists give: it can be added up list by list.
LEMMA ScoreNat ==
  ASSUME NEW rankings \in SearchRankings, NEW d
  PROVE  Search!Score(rankings, d) \in Nat
<1> DEFINE m == Len(rankings)
           give(i) == Search!Share(rankings[i], d)
           Sums(g, n) == g \in [0 .. n -> Nat] /\ g[0] = 0 /\ \A i \in 1 .. n : g[i] = g[i - 1] + give(i)
           S == {n \in Nat : n <= m => \E g : Sums(g, n)}
<1>1. m \in Nat /\ \A i \in 1 .. m : rankings[i].ids \in Seq(Search!Documents) /\ rankings[i].weight \in Nat
  BY RankingsFacts
<1>2. \A i \in 1 .. m : give(i) \in Nat
  BY <1>1, ShareNat
<1>3. S \in SUBSET Nat
  OBVIOUS
<1>4. 0 \in S
  <2>1. Sums([i \in 0 .. 0 |-> 0], 0)
    OBVIOUS
  <2> HIDE DEF Sums
  <2> QED
    BY <2>1
<1>5. ASSUME NEW n \in S PROVE n + 1 \in S
  <2>1. SUFFICES ASSUME n + 1 <= m PROVE \E g : Sums(g, n + 1)
    BY <1>3, SMTT(30)
  <2>2. n \in Nat /\ n <= m
    BY <1>1, <2>1
  <2>3. PICK g : Sums(g, n)
    BY <2>2
  <2> DEFINE h == [i \in 0 .. n + 1 |-> IF i = n + 1 THEN g[n] + give(n + 1) ELSE g[i]]
  <2>4. give(n + 1) \in Nat
    BY <1>1, <1>2, <2>1, <2>2
  <2> HIDE DEF give
  <2>5. h \in [0 .. n + 1 -> Nat]
    BY <2>2, <2>3, <2>4
  <2>6. h[0] = 0
    BY <2>2, <2>3
  <2>7. ASSUME NEW i \in 1 .. n + 1 PROVE h[i] = h[i - 1] + give(i)
    <3>1. CASE i = n + 1
      BY <2>2, <3>1
    <3>2. CASE i # n + 1
      <4>1. i \in 1 .. n /\ i - 1 \in 0 .. n + 1 /\ i - 1 # n + 1 /\ i \in 0 .. n + 1
        BY <2>2, <3>2
      <4>2. h[i] = g[i] /\ h[i - 1] = g[i - 1]
        BY <3>2, <4>1
      <4> QED
        BY <2>3, <4>1, <4>2
    <3> QED
      BY <3>1, <3>2
  <2>8. Sums(h, n + 1)
    <3> HIDE DEF h
    <3> QED
      BY <2>5, <2>6, <2>7
  <2> QED
    BY <2>8
<1>6. PICK g : Sums(g, m)
  <2> HIDE DEF Sums, m
  <2>1. S = Nat
    <3> HIDE DEF S
    <3> QED
      BY <1>3, <1>4, <1>5, NatSetInduction
  <2> QED
    BY <1>1, <2>1
<1> DEFINE Step(f) == f = [i \in 0 .. m |-> IF i = 0 THEN 0 ELSE f[i - 1] + give(i)]
           sum == CHOOSE f : Step(f)
<1>7. Step(g)
  <2> HIDE DEF give, m
  <2>1. \A i \in 0 .. m : g[i] = IF i = 0 THEN 0 ELSE g[i - 1] + give(i)
    BY <1>1, <1>6
  <2> QED
    BY <1>6, <2>1
<1>8. Step(sum)
  <2> HIDE DEF Step
  <2> QED
    BY <1>7
<1>9. Search!Score(rankings, d) = sum[m]
  BY DEF Search!Score
<1> HIDE DEF sum
<1> DEFINE T == {n \in Nat : n <= m => sum[n] \in Nat}
<1>10. T \in SUBSET Nat
  OBVIOUS
<1>11. 0 \in T
  <2> HIDE DEF give, m
  <2> QED
    BY <1>1, <1>8
<1>12. ASSUME NEW n \in T PROVE n + 1 \in T
  <2>1. SUFFICES ASSUME n + 1 <= m PROVE sum[n + 1] \in Nat
    BY <1>10
  <2>2. n \in Nat /\ n <= m /\ sum[n] \in Nat /\ give(n + 1) \in Nat
    BY <1>1, <1>2, <2>1
  <2> HIDE DEF give, m
  <2>3. sum[n + 1] = sum[n] + give(n + 1)
    BY <1>1, <1>8, <2>1, <2>2
  <2> QED
    BY <2>2, <2>3
<1>13. T = Nat
  <2> HIDE DEF T
  <2> QED
    BY <1>10, <1>11, <1>12, NatSetInduction
<1>14. sum[m] \in Nat
  <2> HIDE DEF m, give
  <2> QED
    BY <1>1, <1>13
<1> QED
  BY <1>9, <1>14

LEMMA SmallestFacts ==
  ASSUME NEW S \in SUBSET Nat, S # {}
  PROVE  Search!Smallest(S) \in S
  BY Least DEF Search!Smallest

\* The lists that have a document have a first one, and a best rank for it.
LEMMA HavingFacts ==
  ASSUME NEW rankings \in SearchRankings, NEW i \in DOMAIN rankings, NEW d \in Search!ToSet(rankings[i].ids)
  PROVE  LET first == Search!First(rankings, d)
         IN  /\ first \in 1 .. Len(rankings) /\ d \in Search!ToSet(rankings[first].ids)
             /\ Search!At(rankings[first].ids, d) \in Nat /\ rankings[first].ids[Search!At(rankings[first].ids, d)] = d
             /\ Search!BestRank(rankings, d) \in Nat
<1> DEFINE having == Search!Having(rankings, d)
           first == Search!First(rankings, d)
<1>1. /\ Len(rankings) \in Nat /\ DOMAIN rankings = 1 .. Len(rankings)
      /\ \A j \in 1 .. Len(rankings) : rankings[j].ids \in Seq(Search!Documents)
  BY RankingsFacts
<1>2. having \in SUBSET (1 .. Len(rankings)) /\ having # {} /\ \A j \in having : d \in Search!ToSet(rankings[j].ids)
  BY <1>1 DEF Search!Having
<1>3. having \in SUBSET Nat
  BY <1>2
<1>4. first = Search!Smallest(having)
  BY DEF Search!First
<1> HIDE DEF having, first
<1>5. first \in having
  BY <1>2, <1>3, <1>4, SmallestFacts
<1>6. \A j \in having : Search!At(rankings[j].ids, d) \in Nat /\ rankings[j].ids[Search!At(rankings[j].ids, d)] = d
  <2> SUFFICES ASSUME NEW j \in having
               PROVE  Search!At(rankings[j].ids, d) \in Nat /\ rankings[j].ids[Search!At(rankings[j].ids, d)] = d
    OBVIOUS
  <2>1. rankings[j].ids \in Seq(Search!Documents)
    BY <1>1, <1>2
  <2>2. DOMAIN rankings[j].ids \subseteq Nat
    BY <2>1
  <2> QED
    BY <1>2, <2>2, AtFacts
<1>7. Search!BestRank(rankings, d) \in Nat
  <2> DEFINE ranks == {Search!At(rankings[j].ids, d) : j \in having}
  <2>1. ranks \in SUBSET Nat /\ ranks # {}
    BY <1>5, <1>6
  <2>2. Search!BestRank(rankings, d) = Search!Smallest(ranks)
    BY DEF Search!BestRank, having
  <2> HIDE DEF ranks
  <2>3. Search!BestRank(rankings, d) \in ranks
    BY <2>1, <2>2, SmallestFacts
  <2> QED
    BY <2>1, <2>3
<1> QED
  BY <1>2, <1>5, <1>6, <1>7 DEF first

\* The fusion loses nothing: it orders all that the lists name, by what they give each.
LEMMA FuseFacts ==
  ASSUME NEW rankings \in SearchRankings
  PROVE  /\ Search!Fuse(rankings) \in Seq(Search!Documents)
         /\ Search!ToSet(Search!Fuse(rankings)) = UNION {Search!ToSet(rankings[i].ids) : i \in DOMAIN rankings}
         /\ \A i, j \in DOMAIN Search!Fuse(rankings) :
              Search!Score(rankings, Search!Fuse(rankings)[i]) > Search!Score(rankings, Search!Fuse(rankings)[j]) => i < j
<1> DEFINE found == UNION {Search!ToSet(rankings[i].ids) : i \in DOMAIN rankings}
           R == {p \in found \X found : Search!Precedes(rankings, p[1], p[2])}
           f == [d \in found |-> Search!Score(rankings, d)]
           g == [d \in found |-> Search!BestRank(rankings, d)]
           h == [d \in found |-> Search!First(rankings, d)]
           k == [d \in found |-> Search!At(rankings[Search!First(rankings, d)].ids, d)]
           fused == Search!Fuse(rankings)
<1>1. /\ Len(rankings) \in Nat /\ DOMAIN rankings = 1 .. Len(rankings)
      /\ \A j \in 1 .. Len(rankings) : rankings[j].ids \in Seq(Search!Documents)
  BY RankingsFacts
<1>2. found \in SUBSET Search!Documents
  <2>1. ASSUME NEW j \in DOMAIN rankings PROVE Search!ToSet(rankings[j].ids) \subseteq Search!Documents
    BY <1>1 DEF Search!ToSet
  <2> QED
    BY <2>1
<1>3. IsFiniteSet(found)
  <2> HIDE DEF found
  <2> QED
    BY <1>2, SearchAssumption, FS_Subset
<1>4. ASSUME NEW d \in found
      PROVE  /\ Search!Score(rankings, d) \in Nat /\ Search!BestRank(rankings, d) \in Nat
             /\ Search!First(rankings, d) \in Nat
             /\ Search!At(rankings[Search!First(rankings, d)].ids, d) \in Nat
             /\ rankings[Search!First(rankings, d)].ids[Search!At(rankings[Search!First(rankings, d)].ids, d)] = d
  <2>1. PICK j \in DOMAIN rankings : d \in Search!ToSet(rankings[j].ids)
    OBVIOUS
  <2>2. Search!First(rankings, d) \in 1 .. Len(rankings)
    BY <2>1, HavingFacts
  <2> QED
    BY <1>1, <2>1, <2>2, HavingFacts, ScoreNat
<1>5. f \in [found -> Nat] /\ g \in [found -> Nat] /\ h \in [found -> Nat] /\ k \in [found -> Nat]
  <2> HIDE DEF found
  <2> QED
    BY <1>4
<1>6. \A a, b \in found : f[a] = f[b] /\ g[a] = g[b] /\ h[a] = h[b] /\ k[a] = k[b] => a = b
  <2> HIDE DEF found
  <2> QED
    BY <1>4
<1>7. R = {p \in found \X found :
             \/ f[p[1]] > f[p[2]]
             \/ /\ f[p[1]] = f[p[2]]
                /\ \/ g[p[1]] < g[p[2]]
                   \/ /\ g[p[1]] = g[p[2]]
                      /\ \/ h[p[1]] < h[p[2]]
                         \/ h[p[1]] = h[p[2]] /\ k[p[1]] < k[p[2]]}
  <2> HIDE DEF found
  <2>1. ASSUME NEW a \in found, NEW b \in found
        PROVE  Search!Precedes(rankings, a, b) <=>
                 \/ f[a] > f[b]
                 \/ /\ f[a] = f[b]
                    /\ \/ g[a] < g[b]
                       \/ /\ g[a] = g[b]
                          /\ \/ h[a] < h[b]
                             \/ h[a] = h[b] /\ k[a] < k[b]
    BY DEF Search!Precedes
  <2> HIDE DEF f, g, h, k
  <2> QED
    BY <2>1
<1>8. fused = Search!Ranked(found, R)
  BY DEF Search!Fuse
<1>12. \A a, b \in found : Search!Score(rankings, a) > Search!Score(rankings, b) => <<a, b>> \in R
  <2> HIDE DEF found
  <2> QED
    BY DEF Search!Precedes
<1> HIDE DEF found, R, f, g, h, k, fused
<1>9. StrictOrder(R, found)
  BY <1>5, <1>6, <1>7, TurnsOrder
<1>10. fused \in Seq(found) /\ Search!ToSet(fused) = found
  BY <1>3, <1>8, <1>9, RankedFacts
<1>11. fused \in Seq(Search!Documents)
  BY <1>2, <1>10
<1>13. \A i, j \in DOMAIN fused : Search!Score(rankings, fused[i]) > Search!Score(rankings, fused[j]) => i < j
  <2>1. DOMAIN fused = 1 .. Cardinality(found) /\ \A i \in DOMAIN fused : fused[i] \in found
    BY <1>3, <1>8, <1>9, <1>10, RankedFacts
  <2>2. \A i, j \in 1 .. Cardinality(found) : <<fused[i], fused[j]>> \in R => i < j
    BY <1>3, <1>8, <1>9, RankedFacts
  <2> QED
    BY <1>12, <2>1, <2>2
<1> QED
  BY <1>10, <1>11, <1>13 DEF fused, found

\* The page holds what is left of the cut in its order, and the superseded behind the others.
LEMMA ShownFacts ==
  ASSUME NEW cut \in Seq(Search!Documents)
  PROVE  LET shown == Search!Shown(cut)
         IN  /\ DOMAIN shown \subseteq Nat
             /\ \A i \in DOMAIN shown : shown[i] \in Search!ToSet(cut)
             /\ \A i, j \in DOMAIN shown : shown[i] \in Demoted /\ shown[j] \notin Demoted => j < i
             /\ Search!ToSet(cut) \cap stored \subseteq Search!ToSet(shown)
             /\ \A i, j \in DOMAIN shown :
                  (shown[i] \in Demoted <=> shown[j] \in Demoted) /\ Search!At(cut, shown[i]) < Search!At(cut, shown[j]) => i < j
<1> DEFINE there == Search!ToSet(cut) \cap stored
           before == {p \in there \X there :
                        IF p[1] \in Demoted <=> p[2] \in Demoted
                        THEN Search!At(cut, p[1]) < Search!At(cut, p[2]) ELSE p[2] \in Demoted}
           shown == Search!Shown(cut)
           n == Cardinality(there)
<1>1. there \in SUBSET Search!Documents
  BY DEF Search!ToSet
<1>2. IsFiniteSet(there) /\ n \in Nat
  <2> HIDE DEF there
  <2> QED
    BY <1>1, SearchAssumption, FS_Subset, FS_CardinalityType
<1>3. \A d \in there : Search!At(cut, d) \in Nat /\ cut[Search!At(cut, d)] = d
  <2>1. DOMAIN cut \subseteq Nat
    OBVIOUS
  <2> QED
    BY <2>1, AtFacts
<1>4. StrictOrder(before, there)
  <2> DEFINE Less(a, b) == IF a \in Demoted <=> b \in Demoted
                           THEN Search!At(cut, a) < Search!At(cut, b) ELSE b \in Demoted
  <2>1. \A a, b \in there : <<a, b>> \in before <=> Less(a, b)
    <3> HIDE DEF there, Less
    <3>1. before = {p \in there \X there : Less(p[1], p[2])}
      BY DEF Less
    <3> HIDE DEF before
    <3> QED
      BY <3>1
  <2> HIDE DEF there, before
  <2>2. \A a \in there : ~Less(a, a)
    BY <1>3
  <2>3. \A a, b, c \in there : Less(a, b) /\ Less(b, c) => Less(a, c)
    BY <1>3
  <2>4. \A a, b \in there : a # b => Less(a, b) \/ Less(b, a)
    BY <1>3
  <2> HIDE DEF Less
  <2> QED
    BY <2>1, <2>2, <2>3, <2>4 DEF StrictOrder
<1>5. shown = Search!Ranked(there, before)
  BY DEF Search!Shown
<1>6. there \subseteq Search!ToSet(cut)
  OBVIOUS
<1>7. /\ \A a, b \in there : a \notin Demoted /\ b \in Demoted => <<a, b>> \in before
      /\ \A a, b \in there :
           (a \in Demoted <=> b \in Demoted) /\ Search!At(cut, a) < Search!At(cut, b) => <<a, b>> \in before
  OBVIOUS
<1> HIDE DEF there, before, shown, n
<1>8. /\ shown \in Seq(there) /\ Len(shown) = n /\ Search!ToSet(shown) = there
      /\ \A i, j \in 1 .. n : <<shown[i], shown[j]>> \in before => i < j
  BY <1>2, <1>4, <1>5, RankedFacts DEF n
<1>9. DOMAIN shown = 1 .. n /\ \A i \in DOMAIN shown : shown[i] \in there
  BY <1>8
<1>10. DOMAIN shown \subseteq Nat /\ \A i \in DOMAIN shown : shown[i] \in Search!ToSet(cut)
  <2>1. 1 .. n \subseteq Nat
    BY <1>2
  <2> QED
    BY <1>6, <1>9, <2>1
<1>11. ASSUME NEW i \in DOMAIN shown, NEW j \in DOMAIN shown, shown[i] \in Demoted, shown[j] \notin Demoted
       PROVE  j < i
  <2>1. <<shown[j], shown[i]>> \in before
    BY <1>7, <1>9, <1>11
  <2> QED
    BY <1>8, <1>9, <2>1
<1>12. ASSUME NEW i \in DOMAIN shown, NEW j \in DOMAIN shown, shown[i] \in Demoted <=> shown[j] \in Demoted,
              Search!At(cut, shown[i]) < Search!At(cut, shown[j])
       PROVE  i < j
  <2>1. <<shown[i], shown[j]>> \in before
    BY <1>7, <1>9, <1>12
  <2> QED
    BY <1>8, <1>9, <2>1
<1> QED
  BY <1>8, <1>10, <1>11, <1>12 DEF shown, there

\* One more leg: what was answered stays so, and what the leg was asked for is answered.
LEMMA LegAppended ==
  ASSUME NEW order \in Seq(Search!Documents), NEW among, NEW w \in Nat,
         SearchTypes, LegsRight, among \subseteq Search!Matching(query.kbs),
         query'.rankings = Append(query.rankings, Search!Ranking(Search!Best(order, among), w)),
         query'.kbs = query.kbs, query'.filter = query.filter, late' = late
  PROVE  /\ query'.rankings \in SearchRankings
         /\ LegsRight'
         /\ \A d : Answered(d) => Answered(d)'
         /\ \A d \in Search!ToSet(order) \cap among : Answered(d)'
<1> DEFINE ids == Search!Best(order, among)
           old == query.rankings
           new == query'.rankings
           n == Len(old)
<1>1. /\ ids \in Seq(Search!Documents)
      /\ \A i \in DOMAIN ids : ids[i] \in among
      /\ \A i, j \in DOMAIN ids : ids[i] = ids[j] => i = j
      /\ \A d \in Search!ToSet(order) \cap among : d \in Search!ToSet(ids) \/ Len(ids) >= Candidates
  BY BestFacts
<1>2. \A d \in among : d[1] \in query.kbs /\ Search!Matches(d, query.filter)
  BY DEF Search!Matching, Search!Of
<1>3. old \in Seq([ids : Seq(Search!Documents), weight : Nat]) /\ n \in Nat /\ DOMAIN old = 1 .. n
  BY DEF SearchTypes, SearchRankings
<1>4. new = Append(old, [ids |-> ids, weight |-> w])
  BY DEF Search!Ranking
<1> HIDE DEF ids, old, new, n
<1>5. [ids |-> ids, weight |-> w] \in [ids : Seq(Search!Documents), weight : Nat]
  BY <1>1
<1>6. new \in SearchRankings
  <2> DEFINE R == [ids : Seq(Search!Documents), weight : Nat]
             r == [ids |-> ids, weight |-> w]
  <2>1. old \in Seq(R) /\ r \in R /\ new = Append(old, r)
    BY <1>3, <1>4, <1>5
  <2>2. SearchRankings = Seq(R)
    BY DEF SearchRankings
  <2> HIDE DEF R, r
  <2> QED
    BY <2>1, <2>2
<1>7. DOMAIN new = 1 .. n + 1 /\ (\A i \in 1 .. n : new[i] = old[i]) /\ new[n + 1] = [ids |-> ids, weight |-> w]
  <2> DEFINE R == [ids : Seq(Search!Documents), weight : Nat]
             r == [ids |-> ids, weight |-> w]
  <2>1. old \in Seq(R) /\ r \in R /\ new = Append(old, r)
    BY <1>3, <1>4, <1>5
  <2> HIDE DEF R, r
  <2>2. DOMAIN new = 1 .. n + 1 /\ (\A i \in 1 .. n : new[i] = old[i]) /\ new[n + 1] = r
    BY <1>3, <2>1 DEF n
  <2> QED
    BY <2>2 DEF r
<1>8. new[n + 1].ids = ids
  BY <1>7
<1>9. LegsRight'
  <2>1. ASSUME NEW i \in DOMAIN new
        PROVE  /\ \A m \in DOMAIN new[i].ids : new[i].ids[m][1] \in query.kbs /\ Search!Matches(new[i].ids[m], query.filter)
               /\ \A l, m \in DOMAIN new[i].ids : new[i].ids[l] = new[i].ids[m] => l = m
    <3>1. CASE i \in 1 .. n
      BY <1>3, <1>7, <3>1 DEF LegsRight, old
    <3>2. CASE i = n + 1
      BY <1>1, <1>2, <1>8, <3>2
    <3> QED
      BY <1>3, <1>7, <3>1, <3>2, SMTT(30)
  <2> QED
    BY <2>1, SMTT(30) DEF LegsRight, Search!Matches, new
<1>10. ASSUME NEW d, Answered(d) PROVE Answered(d)'
  <2>1. CASE d \in late
    BY <2>1 DEF Answered
  <2>2. CASE d \notin late
    <3>1. PICK i \in DOMAIN old : d \in Search!ToSet(old[i].ids) \/ Len(old[i].ids) >= Candidates
      BY <1>10, <2>2 DEF Answered, old
    <3>2. i \in DOMAIN new /\ new[i] = old[i]
      BY <1>3, <1>7
    <3>3. d \in Search!ToSet(new[i].ids) \/ Len(new[i].ids) >= Candidates
      BY <3>1, <3>2
    <3> QED
      BY <3>2, <3>3 DEF Answered, new, Search!ToSet
  <2> QED
    BY <2>1, <2>2
<1>11. ASSUME NEW d \in Search!ToSet(order) \cap among PROVE Answered(d)'
  <2>1. n + 1 \in DOMAIN new
    BY <1>3, <1>7
  <2>2. d \in Search!ToSet(new[n + 1].ids) \/ Len(new[n + 1].ids) >= Candidates
    BY <1>1, <1>8
  <2> QED
    BY <2>1, <2>2 DEF Answered, new, Search!ToSet
<1> QED
  BY <1>6, <1>9, <1>10, <1>11 DEF new

\* The index may change under a request: what is steady only shrinks, and what gets its vector is late.
LEMMA SearchUnderChange ==
  ASSUME SearchInv, query' = query, stored' \subseteq Search!Documents,
         steady' \subseteq steady, late \subseteq late',
         searchVectors' \subseteq stored', steady' \subseteq stored', searchVectors' \subseteq searchVectors \cup late'
  PROVE  SearchInv'
<1>1. SearchTypes'
  BY DEF SearchInv, SearchTypes
<1>2. LegsRight'
  BY DEF SearchInv, LegsRight, Search!Matches
<1>3. \A d : Wanted(d)' => Wanted(d) /\ d \in steady'
  BY DEF Wanted, Search!Matches, Search!ToSet
<1>4. \A d : Answered(d) \/ d \in late' => Answered(d)'
  BY DEF Answered, Search!ToSet
<1>5. LegsCover'
  <2>1. query'.at \in {"embedding", "nearest"} => query'.covered = {}
    BY DEF SearchInv, LegsCover
  <2>2. ASSUME query'.at = "unembedded"
        PROVE  /\ query'.weights[2] = 0 /\ query'.covered = Search!Group'
               /\ \A d \in steady' : Wanted(d)' /\ d[1] \in query'.covered => Answered(d)' \/ d \notin searchVectors'
    <3>1. query.weights[2] = 0 /\ query.covered = Search!Group
      BY <2>2 DEF SearchInv, LegsCover
    <3>2. \A d \in steady : Wanted(d) /\ d[1] \in query.covered => Answered(d) \/ d \notin searchVectors
      BY <2>2 DEF SearchInv, LegsCover
    <3>3. Search!Group' = Search!Group
      BY DEF Search!Group
    <3>4. ASSUME NEW d \in steady', Wanted(d)', d[1] \in query'.covered
          PROVE  Answered(d)' \/ d \notin searchVectors'
      BY <1>3, <1>4, <3>2, <3>4
    <3> QED
      BY <3>1, <3>3, <3>4
  <2>3. ASSUME query'.at = "fulltext", NEW d \in steady', Wanted(d)', d[1] \in query'.covered
        PROVE  query'.weights[2] > 0 \/ Answered(d)'
    BY <1>3, <1>4, <2>3 DEF SearchInv, LegsCover
  <2>4. ASSUME query'.at = "details", NEW d \in steady', Wanted(d)' PROVE Answered(d)'
    BY <1>3, <1>4, <2>4 DEF SearchInv, LegsCover
  <2> QED
    BY <2>1, <2>2, <2>3, <2>4 DEF LegsCover
<1>6. DocumentRight'
  BY DEF SearchInv, DocumentRight
<1>7. Search!NothingMissed'
  <2>1. Search!NothingMissed
    BY DEF SearchInv, Search!AnswersWhole
  <2>2. Search!Searched' <=> Search!Searched
    BY DEF Search!Searched
  <2>3. \A d : Search!Matches(d, query.filter)' <=> Search!Matches(d, query.filter)
    BY DEF Search!Matches
  <2>4. ASSUME Search!Searched, NEW d \in Search!ToSet(TextOrder), d[1] \in query.kbs,
               Search!Matches(d, query.filter), d \in steady'
        PROVE  \/ d \in query.found \cup late'
               \/ \E i \in DOMAIN query.rankings : Len(query.rankings[i].ids) >= Candidates
    BY <2>1, <2>4 DEF Search!NothingMissed
  <2> QED
    BY <2>2, <2>3, <2>4 DEF Search!NothingMissed, Search!ToSet, Search!Matches
<1>8. Search!ShownRight'
  BY DEF SearchInv, Search!AnswersWhole, Search!ShownRight, Search!Searched, Search!Matches
<1>9. Search!BestFirst'
  <2>1. Search!BestFirst
    BY DEF SearchInv, Search!AnswersWhole
  <2>2. \A d : Search!Score(query.rankings, d)' = Search!Score(query.rankings, d)
    BY DEF Search!Score, Search!Share, Search!At, Search!ToSet
  <2> QED
    BY <2>1, <2>2 DEF Search!BestFirst, Search!Searched, Search!ToSet
<1> QED
  BY <1>1, <1>2, <1>5, <1>6, <1>7, <1>8, <1>9 DEF SearchInv, Search!AnswersWhole

LEMMA SearchInit ==
  ASSUME Search!Init PROVE SearchInv
<1>1. query = Search!NoQuery /\ steady = {} /\ stored \subseteq Search!Documents /\ searchVectors \subseteq stored
  BY DEF Search!Init
<1>2. query.at = "idle" /\ query.rankings = <<>> /\ query.weights = <<0, 0>> /\ query.found = {}
  BY <1>1 DEF Search!NoQuery
<1>3. SearchTypes
  <2>1. query = [at |-> query.at, kbs |-> query.kbs, filter |-> query.filter, weights |-> query.weights,
                 rankings |-> query.rankings, models |-> query.models, text |-> query.text,
                 covered |-> query.covered, hits |-> query.hits, mode |-> query.mode, found |-> query.found]
    BY <1>1 DEF Search!NoQuery
  <2>2. query.rankings \in SearchRankings
    BY <1>2 DEF SearchRankings
  <2> QED
    BY <1>1, <1>2, <2>1, <2>2 DEF SearchTypes
<1>4. LegsRight
  <2>1. DOMAIN query.rankings = {}
    BY <1>2
  <2> QED
    BY <2>1 DEF LegsRight
<1>5. LegsCover /\ DocumentRight /\ Search!AnswersWhole
  BY <1>2 DEF LegsCover, DocumentRight, Search!AnswersWhole, Search!NothingMissed, Search!ShownRight, Search!BestFirst, Search!Searched
<1> QED
  BY <1>3, <1>4, <1>5 DEF SearchInv

\* A request that has just come holds nothing yet.
LEMMA SearchBegins ==
  ASSUME SearchInv, query' = [at |-> query'.at, kbs |-> query'.kbs, filter |-> query'.filter, weights |-> query'.weights,
                              rankings |-> <<>>, models |-> FALSE, text |-> FALSE, covered |-> {},
                              hits |-> query'.hits, mode |-> query'.mode, found |-> query'.found],
         query'.weights \in Nat \X Nat, query'.found \subseteq Search!Documents,
         query'.at \notin {"unembedded", "details"},
         stored' = stored, searchVectors' = searchVectors, steady' \subseteq stored,
         DocumentRight', Search!AnswersWhole'
  PROVE  SearchInv'
<1>1. query'.rankings = <<>> /\ query'.covered = {} /\ query'.models = FALSE /\ query'.text = FALSE
  OBVIOUS
<1>2. query' = [at |-> query'.at, kbs |-> query'.kbs, filter |-> query'.filter, weights |-> query'.weights,
                rankings |-> query'.rankings, models |-> query'.models, text |-> query'.text,
                covered |-> query'.covered, hits |-> query'.hits, mode |-> query'.mode, found |-> query'.found]
  BY <1>1
<1>3. SearchTypes'
  <2>1. query'.rankings \in SearchRankings
    BY <1>1 DEF SearchRankings
  <2> QED
    BY <1>2, <2>1 DEF SearchInv, SearchTypes
<1>4. LegsRight'
  <2>1. DOMAIN query'.rankings = {}
    BY <1>1
  <2> QED
    BY <2>1 DEF LegsRight
<1>5. LegsCover'
  BY <1>1 DEF LegsCover
<1> QED
  BY <1>3, <1>4, <1>5 DEF SearchInv

\* A request that goes on keeps what it asks for.
SameRequest == query'.kbs = query.kbs /\ query'.filter = query.filter /\ query'.weights = query.weights

LEMMA EmbedStep ==
  ASSUME SearchInv, Search!Embed(Search!Group) PROVE SearchInv'
<1>1. /\ query.at = "embedding" /\ query.covered = {}
      /\ UNCHANGED <<stored, searchVectors, steady, late, changes>>
  BY DEF SearchInv, LegsCover, Search!Embed
<1>2. PICK at \in {"nearest", "fulltext"} : query' = [query EXCEPT !.at = at]
  BY DEF Search!Embed
<1> DEFINE Q == [at |-> query.at, kbs |-> query.kbs, filter |-> query.filter, weights |-> query.weights,
                 rankings |-> query.rankings, models |-> query.models, text |-> query.text,
                 covered |-> query.covered, hits |-> query.hits, mode |-> query.mode, found |-> query.found]
<1>3. query = Q
  BY DEF SearchInv, SearchTypes
<1>4. /\ query'.at = at /\ SameRequest /\ query'.rankings = query.rankings /\ query'.covered = {} /\ query'.found = query.found
      /\ query' = [at |-> query'.at, kbs |-> query'.kbs, filter |-> query'.filter, weights |-> query'.weights,
                   rankings |-> query'.rankings, models |-> query'.models, text |-> query'.text,
                   covered |-> query'.covered, hits |-> query'.hits, mode |-> query'.mode, found |-> query'.found]
  BY <1>1, <1>2, <1>3 DEF SameRequest
<1>5. SearchTypes'
  BY <1>1, <1>4 DEF SearchInv, SearchTypes, SameRequest
<1>6. LegsRight'
  BY <1>4 DEF SearchInv, LegsRight, SameRequest, Search!Matches
<1>7. LegsCover' /\ DocumentRight' /\ Search!AnswersWhole'
  BY <1>2, <1>4 DEF LegsCover, DocumentRight, Search!AnswersWhole, Search!NothingMissed, Search!ShownRight, Search!BestFirst, Search!Searched
<1> QED
  BY <1>5, <1>6, <1>7 DEF SearchInv

\* One more leg, up to the details.
LEMMA LegStep ==
  ASSUME SearchInv, SameRequest, NEW order \in Seq(Search!Documents), NEW among, NEW w \in Nat,
         among \subseteq Search!Matching(query.kbs),
         query'.rankings = Append(query.rankings, Search!Ranking(Search!Best(order, among), w)),
         query' = [at |-> query'.at, kbs |-> query'.kbs, filter |-> query'.filter, weights |-> query'.weights,
                   rankings |-> query'.rankings, models |-> query'.models, text |-> query'.text,
                   covered |-> query'.covered, hits |-> query'.hits, mode |-> query'.mode, found |-> query'.found],
         query'.found = query.found, query'.at \in {"unembedded", "fulltext", "details"},
         UNCHANGED <<stored, searchVectors, steady, late, changes>>,
         LegsCover'
  PROVE  SearchInv'
<1>1. query'.rankings \in SearchRankings /\ LegsRight'
  BY LegAppended DEF SearchInv, SameRequest
<1>2. SearchTypes'
  BY <1>1 DEF SearchInv, SearchTypes, SameRequest
<1>3. DocumentRight' /\ Search!AnswersWhole'
  BY DEF DocumentRight, Search!AnswersWhole, Search!NothingMissed, Search!ShownRight, Search!BestFirst, Search!Searched
<1> QED
  BY <1>1, <1>2, <1>3 DEF SearchInv

LEMMA WantedKept ==
  ASSUME SameRequest, steady' = steady, NEW d, Wanted(d)'
  PROVE  Wanted(d)
  BY DEF SameRequest, Wanted, Search!Matches, Search!ToSet

LEMMA VectorLegStep ==
  ASSUME SearchInv, Search!VectorLeg PROVE SearchInv'
<1> DEFINE among == Search!Matching(Search!Group) \cap searchVectors
<1>1. query.at = "nearest" /\ UNCHANGED <<stored, searchVectors, steady, late, changes>>
  BY DEF Search!VectorLeg
<1>2. query' = [query EXCEPT !.at = IF query.weights[2] > 0 THEN "fulltext" ELSE "unembedded",
                             !.rankings = Append(query.rankings, Search!Ranking(Search!Best(VectorOrder, among), query.weights[1])),
                             !.models = TRUE, !.covered = Search!Group]
  BY DEF Search!VectorLeg, Search!Nearest
<1>3. query = [at |-> query.at, kbs |-> query.kbs, filter |-> query.filter, weights |-> query.weights,
               rankings |-> query.rankings, models |-> query.models, text |-> query.text,
               covered |-> query.covered, hits |-> query.hits, mode |-> query.mode, found |-> query.found]
  BY DEF SearchInv, SearchTypes
<1>4. among \subseteq Search!Matching(query.kbs) /\ query.weights[1] \in Nat /\ query.weights[2] \in Nat
  <2>1. Search!Matching(Search!Group) \subseteq Search!Matching(query.kbs)
    BY DEF Search!Matching, Search!Of, Search!Group
  <2> QED
    BY <2>1 DEF SearchInv, SearchTypes
<1> HIDE DEF among
<1>5. /\ query'.at = IF query.weights[2] > 0 THEN "fulltext" ELSE "unembedded"
      /\ query'.covered = Search!Group /\ query'.found = query.found
      /\ query'.rankings = Append(query.rankings, Search!Ranking(Search!Best(VectorOrder, among), query.weights[1]))
  BY <1>2, <1>3
<1>6. SameRequest
  BY <1>2, <1>3 DEF SameRequest
<1>7. query' = [at |-> query'.at, kbs |-> query'.kbs, filter |-> query'.filter, weights |-> query'.weights,
                rankings |-> query'.rankings, models |-> query'.models, text |-> query'.text,
                covered |-> query'.covered, hits |-> query'.hits, mode |-> query'.mode, found |-> query'.found]
  BY <1>2, <1>3
<1>8. \A d \in Search!ToSet(VectorOrder) \cap among : Answered(d)'
  BY <1>1, <1>4, <1>5, <1>6, SearchAssumption, LegAppended DEF SearchInv, SameRequest
<1>9. LegsCover'
  <2>1. CASE query.weights[2] > 0
    BY <1>5, <1>6, <2>1 DEF LegsCover, SameRequest
  <2>2. CASE ~(query.weights[2] > 0)
    <3>1. query'.at = "unembedded" /\ query'.weights[2] = 0
      BY <1>4, <1>5, <1>6, <2>2 DEF SameRequest
    <3>2. query'.covered = Search!Group'
      BY <1>5, <1>6 DEF Search!Group, SameRequest
    <3>3. ASSUME NEW d \in steady', Wanted(d)', d[1] \in query'.covered, d \in searchVectors'
          PROVE  Answered(d)'
      <4>1. Wanted(d) /\ d \in steady /\ d \in stored /\ d \in searchVectors /\ d[1] \in Search!Group
        BY <1>1, <1>5, <1>6, <3>3, WantedKept DEF SearchInv, SearchTypes
      <4>2. d \in among
        BY <4>1 DEF among, Search!Matching, Search!Of, Wanted
      <4>3. d \in Search!ToSet(VectorOrder)
        BY <4>1, SearchAssumption DEF SearchInv, SearchTypes
      <4> QED
        BY <1>8, <4>2, <4>3
    <3> QED
      BY <3>1, <3>2, <3>3 DEF LegsCover
  <2> QED
    BY <2>1, <2>2
<1>10. query'.at \in {"unembedded", "fulltext", "details"}
  BY <1>5
<1> QED
  BY <1>1, <1>4, <1>5, <1>6, <1>7, <1>9, <1>10, SearchAssumption, LegStep

LEMMA UnembeddedStep ==
  ASSUME SearchInv, Search!Unembedded PROVE SearchInv'
<1> DEFINE among == Search!Matching(Search!Group) \ searchVectors
           ids == Search!Best(TextOrder, among)
<1>1. /\ query.at = "unembedded" /\ UNCHANGED <<stored, searchVectors, steady, late, changes>>
      /\ query' = IF ids = <<>> THEN [query EXCEPT !.at = "fulltext"]
                  ELSE [query EXCEPT !.at = "fulltext", !.rankings = Append(query.rankings, Search!Ranking(ids, 1)), !.text = TRUE]
  BY DEF Search!Unembedded, Search!FullText
<1>2. query = [at |-> query.at, kbs |-> query.kbs, filter |-> query.filter, weights |-> query.weights,
               rankings |-> query.rankings, models |-> query.models, text |-> query.text,
               covered |-> query.covered, hits |-> query.hits, mode |-> query.mode, found |-> query.found]
  BY DEF SearchInv, SearchTypes
<1>3. among \subseteq Search!Matching(query.kbs)
  BY DEF Search!Matching, Search!Of, Search!Group
<1>4. /\ query.weights[2] = 0 /\ query.covered = Search!Group
      /\ \A d \in steady : Wanted(d) /\ d[1] \in query.covered => Answered(d) \/ d \notin searchVectors
  BY <1>1 DEF SearchInv, LegsCover
<1>5. ASSUME NEW d \in steady, Wanted(d), d[1] \in query.covered, ~Answered(d)
      PROVE  d \in Search!ToSet(TextOrder) \cap among
  <2>1. d \notin searchVectors /\ d \in stored /\ d[1] \in Search!Group
    BY <1>4, <1>5 DEF SearchInv, SearchTypes
  <2> QED
    BY <1>5, <2>1 DEF Wanted, Search!Matching, Search!Of
<1>6. /\ ids \in Seq(Search!Documents)
      /\ \A d \in Search!ToSet(TextOrder) \cap among : d \in Search!ToSet(ids) \/ Len(ids) >= Candidates
  <2> HIDE DEF among
  <2> QED
    BY SearchAssumption, BestFacts
<1> HIDE DEF among, ids
<1>7. CASE ids = <<>>
  <2>1. query' = [query EXCEPT !.at = "fulltext"]
    BY <1>1, <1>7
  <2>2. /\ query'.at = "fulltext" /\ query'.covered = query.covered /\ query'.found = query.found
        /\ query'.rankings = query.rankings
    BY <1>2, <2>1
  <2>3. SameRequest
    BY <1>2, <2>1 DEF SameRequest
  <2>4. query' = [at |-> query'.at, kbs |-> query'.kbs, filter |-> query'.filter, weights |-> query'.weights,
                  rankings |-> query'.rankings, models |-> query'.models, text |-> query'.text,
                  covered |-> query'.covered, hits |-> query'.hits, mode |-> query'.mode, found |-> query'.found]
    BY <1>2, <2>1
  <2>5. SearchTypes'
    BY <1>1, <2>2, <2>3, <2>4 DEF SearchInv, SearchTypes, SameRequest
  <2>6. LegsRight'
    BY <2>2, <2>3 DEF SearchInv, LegsRight, SameRequest, Search!Matches
  <2>7. \A d : Answered(d) => Answered(d)'
    BY <1>1, <2>2 DEF Answered, Search!ToSet
  <2>8. Search!ToSet(ids) = {} /\ Len(ids) = 0
    BY <1>7 DEF Search!ToSet
  <2>9. \A d \in Search!ToSet(TextOrder) \cap among : FALSE
    BY <1>6, <2>8, SearchAssumption
  <2>10. ASSUME NEW d \in steady', Wanted(d)', d[1] \in query'.covered
         PROVE  Answered(d)'
    <3>1. Wanted(d) /\ d \in steady /\ d[1] \in query.covered
      BY <1>1, <2>2, <2>3, <2>10, WantedKept
    <3> QED
      BY <1>5, <2>7, <2>9, <3>1
  <2>11. LegsCover'
    BY <2>2, <2>10 DEF LegsCover
  <2>12. DocumentRight' /\ Search!AnswersWhole'
    BY <2>2 DEF DocumentRight, Search!AnswersWhole, Search!NothingMissed, Search!ShownRight, Search!BestFirst, Search!Searched
  <2> QED
    BY <2>5, <2>6, <2>11, <2>12 DEF SearchInv
<1>8. CASE ids # <<>>
  <2>1. query' = [query EXCEPT !.at = "fulltext", !.rankings = Append(query.rankings, Search!Ranking(ids, 1)), !.text = TRUE]
    BY <1>1, <1>8
  <2>2. /\ query'.at = "fulltext" /\ query'.covered = query.covered /\ query'.found = query.found
        /\ query'.rankings = Append(query.rankings, Search!Ranking(Search!Best(TextOrder, among), 1))
    BY <1>2, <2>1 DEF ids
  <2>3. SameRequest
    BY <1>2, <2>1 DEF SameRequest
  <2>4. query' = [at |-> query'.at, kbs |-> query'.kbs, filter |-> query'.filter, weights |-> query'.weights,
                  rankings |-> query'.rankings, models |-> query'.models, text |-> query'.text,
                  covered |-> query'.covered, hits |-> query'.hits, mode |-> query'.mode, found |-> query'.found]
    BY <1>2, <2>1
  <2>5. /\ \A d : Answered(d) => Answered(d)'
        /\ \A d \in Search!ToSet(TextOrder) \cap among : Answered(d)'
    BY <1>1, <1>3, <2>2, <2>3, SearchAssumption, LegAppended DEF SearchInv, SameRequest
  <2>6. ASSUME NEW d \in steady', Wanted(d)', d[1] \in query'.covered
        PROVE  Answered(d)'
    <3>1. Wanted(d) /\ d \in steady /\ d[1] \in query.covered
      BY <1>1, <2>2, <2>3, <2>6, WantedKept
    <3> QED
      BY <1>5, <2>5, <3>1
  <2>7. LegsCover'
    BY <2>2, <2>6 DEF LegsCover
  <2>8. query'.at \in {"unembedded", "fulltext", "details"} /\ 1 \in Nat
    BY <2>2
  <2> QED
    BY <1>1, <1>3, <2>2, <2>3, <2>4, <2>7, <2>8, SearchAssumption, LegStep
<1> QED
  BY <1>7, <1>8

LEMMA TextLegStep ==
  ASSUME SearchInv, Search!TextLeg PROVE SearchInv'
<1> DEFINE weighted == query.weights[2] > 0
           kbs == IF weighted THEN query.kbs ELSE query.kbs \ query.covered
           among == Search!Matching(kbs) \ {}
           ids == Search!Best(TextOrder, among)
           w == IF weighted THEN query.weights[2] ELSE 1
<1>1. /\ query.at = "fulltext" /\ UNCHANGED <<stored, searchVectors, steady, late, changes>>
      /\ query' = IF kbs = {} THEN [query EXCEPT !.at = "details"]
                  ELSE [query EXCEPT !.at = "details", !.text = TRUE,
                          !.rankings = Append(query.rankings, Search!Ranking(ids, w))]
  BY DEF Search!TextLeg, Search!FullText
<1>2. query = [at |-> query.at, kbs |-> query.kbs, filter |-> query.filter, weights |-> query.weights,
               rankings |-> query.rankings, models |-> query.models, text |-> query.text,
               covered |-> query.covered, hits |-> query.hits, mode |-> query.mode, found |-> query.found]
  BY DEF SearchInv, SearchTypes
<1>3. among \subseteq Search!Matching(query.kbs)
  BY DEF Search!Matching, Search!Of
<1>4. w \in Nat
  BY DEF SearchInv, SearchTypes
<1>5. ASSUME NEW d \in steady, Wanted(d), ~Answered(d)
      PROVE  kbs # {} /\ d \in Search!ToSet(TextOrder) \cap among
  <2>1. d[1] \in kbs
    BY <1>1, <1>5 DEF SearchInv, LegsCover, Wanted
  <2>2. d \in stored
    BY <1>5 DEF SearchInv, SearchTypes
  <2>3. d \in Search!Matching(kbs)
    <3> HIDE DEF kbs
    <3> QED
      BY <1>5, <2>1, <2>2 DEF Wanted, Search!Matching, Search!Of
  <2> QED
    BY <1>5, <2>1, <2>3 DEF Wanted
<1> HIDE DEF kbs, among, ids, w
<1>6. CASE kbs = {}
  <2>1. query' = [query EXCEPT !.at = "details"]
    BY <1>1, <1>6
  <2>2. query'.at = "details" /\ query'.found = query.found /\ query'.rankings = query.rankings
    BY <1>2, <2>1
  <2>3. SameRequest
    BY <1>2, <2>1 DEF SameRequest
  <2>4. query' = [at |-> query'.at, kbs |-> query'.kbs, filter |-> query'.filter, weights |-> query'.weights,
                  rankings |-> query'.rankings, models |-> query'.models, text |-> query'.text,
                  covered |-> query'.covered, hits |-> query'.hits, mode |-> query'.mode, found |-> query'.found]
    BY <1>2, <2>1
  <2>5. SearchTypes'
    BY <1>1, <2>2, <2>3, <2>4 DEF SearchInv, SearchTypes, SameRequest
  <2>6. LegsRight'
    BY <2>2, <2>3 DEF SearchInv, LegsRight, SameRequest, Search!Matches
  <2>7. \A d : Answered(d) => Answered(d)'
    BY <1>1, <2>2 DEF Answered, Search!ToSet
  <2>8. ASSUME NEW d \in steady', Wanted(d)'
        PROVE  Answered(d)'
    <3>1. Wanted(d) /\ d \in steady
      BY <1>1, <2>3, <2>8, WantedKept
    <3> QED
      BY <1>5, <1>6, <2>7, <3>1
  <2>9. LegsCover'
    BY <2>2, <2>8 DEF LegsCover
  <2>10. DocumentRight' /\ Search!AnswersWhole'
    BY <2>2 DEF DocumentRight, Search!AnswersWhole, Search!NothingMissed, Search!ShownRight, Search!BestFirst, Search!Searched
  <2> QED
    BY <2>5, <2>6, <2>9, <2>10 DEF SearchInv
<1>7. CASE kbs # {}
  <2>1. query' = [query EXCEPT !.at = "details", !.text = TRUE,
                    !.rankings = Append(query.rankings, Search!Ranking(ids, w))]
    BY <1>1, <1>7
  <2>2. /\ query'.at = "details" /\ query'.found = query.found
        /\ query'.rankings = Append(query.rankings, Search!Ranking(Search!Best(TextOrder, among), w))
    BY <1>2, <2>1 DEF ids
  <2>3. SameRequest
    BY <1>2, <2>1 DEF SameRequest
  <2>4. query' = [at |-> query'.at, kbs |-> query'.kbs, filter |-> query'.filter, weights |-> query'.weights,
                  rankings |-> query'.rankings, models |-> query'.models, text |-> query'.text,
                  covered |-> query'.covered, hits |-> query'.hits, mode |-> query'.mode, found |-> query'.found]
    BY <1>2, <2>1
  <2>5. /\ \A d : Answered(d) => Answered(d)'
        /\ \A d \in Search!ToSet(TextOrder) \cap among : Answered(d)'
    BY <1>1, <1>3, <1>4, <2>2, <2>3, SearchAssumption, LegAppended DEF SearchInv, SameRequest
  <2>6. ASSUME NEW d \in steady', Wanted(d)'
        PROVE  Answered(d)'
    <3>1. Wanted(d) /\ d \in steady
      BY <1>1, <2>3, <2>6, WantedKept
    <3> QED
      BY <1>5, <2>5, <3>1
  <2>7. LegsCover'
    BY <2>2, <2>6 DEF LegsCover
  <2>8. query'.at \in {"unembedded", "fulltext", "details"}
    BY <2>2
  <2> QED
    BY <1>1, <1>3, <1>4, <2>2, <2>3, <2>4, <2>7, <2>8, SearchAssumption, LegStep
<1> QED
  BY <1>6, <1>7

LEMMA DetailsStep ==
  ASSUME SearchInv, Search!Details PROVE SearchInv'
<1> DEFINE fused == Search!Fuse(query.rankings)
           found == Search!ToSet(fused)
           hits == Search!Shown(Search!Cut(fused, Limit))
<1>1. /\ query.at = "details" /\ UNCHANGED <<stored, searchVectors, steady, late, changes>>
      /\ query' = [query EXCEPT !.at = "done", !.mode = Search!Mode, !.found = found, !.hits = hits]
  BY DEF Search!Details
<1>2. query = [at |-> query.at, kbs |-> query.kbs, filter |-> query.filter, weights |-> query.weights,
               rankings |-> query.rankings, models |-> query.models, text |-> query.text,
               covered |-> query.covered, hits |-> query.hits, mode |-> query.mode, found |-> query.found]
  BY DEF SearchInv, SearchTypes
<1> DEFINE score(d) == Search!Score(query.rankings, d)
<1>3. /\ fused \in Seq(Search!Documents)
      /\ found = UNION {Search!ToSet(query.rankings[i].ids) : i \in DOMAIN query.rankings}
      /\ \A i, j \in DOMAIN fused : score(fused[i]) > score(fused[j]) => i < j
  BY FuseFacts DEF SearchInv, SearchTypes
<1>4. found \subseteq Search!Documents
  BY <1>3 DEF Search!ToSet
<1>5. \A d \in found : d[1] \in query.kbs /\ Search!Matches(d, query.filter)
  <2> SUFFICES ASSUME NEW d \in found PROVE d[1] \in query.kbs /\ Search!Matches(d, query.filter)
    OBVIOUS
  <2>1. PICK i \in DOMAIN query.rankings : d \in Search!ToSet(query.rankings[i].ids)
    BY <1>3
  <2>2. PICK m \in DOMAIN query.rankings[i].ids : query.rankings[i].ids[m] = d
    BY <2>1 DEF Search!ToSet
  <2> QED
    BY <2>2 DEF SearchInv, LegsRight
<1>7. /\ \A i \in DOMAIN hits : hits[i] \in found
      /\ \A i, j \in DOMAIN hits : hits[i] \in Demoted /\ hits[j] \notin Demoted => j < i
      /\ \A i, j \in DOMAIN hits : score(hits[i]) > score(hits[j]) => i < j \/ (hits[i] \in Demoted /\ hits[j] \notin Demoted)
      /\ \A d \in found \cap steady, i \in DOMAIN hits : score(d) > score(hits[i]) => d \in Search!ToSet(hits)
  <2> DEFINE cut == Search!Cut(fused, Limit)
  <2>1. /\ cut \in Seq(Search!Documents) /\ DOMAIN cut = 1 .. Len(cut)
        /\ Len(cut) = IF Len(fused) < Limit THEN Len(fused) ELSE Limit
        /\ \A i \in 1 .. Len(cut) : i \in 1 .. Len(fused) /\ cut[i] = fused[i]
    <3> HIDE DEF fused
    <3> QED
      BY <1>3, SearchAssumption, CutFacts
  <2>2. DOMAIN fused = 1 .. Len(fused) /\ Len(fused) \in Nat /\ Len(cut) \in Nat /\ found = Search!ToSet(fused)
    <3> HIDE DEF fused, cut
    <3> QED
      BY <1>3, <2>1
  <2>3. Search!ToSet(cut) \subseteq found
    <3> HIDE DEF fused, cut
    <3> QED
      BY <2>1, <2>2 DEF Search!ToSet
  <2>4. hits = Search!Shown(cut)
    OBVIOUS
  <2>5. steady \subseteq stored
    BY DEF SearchInv, SearchTypes
  <2> HIDE DEF fused, found, cut, hits, score
  <2>6. /\ DOMAIN hits \subseteq Nat /\ \A i \in DOMAIN hits : hits[i] \in Search!ToSet(cut)
        /\ \A i, j \in DOMAIN hits : hits[i] \in Demoted /\ hits[j] \notin Demoted => j < i
        /\ Search!ToSet(cut) \cap stored \subseteq Search!ToSet(hits)
        /\ \A i, j \in DOMAIN hits :
             (hits[i] \in Demoted <=> hits[j] \in Demoted) /\ Search!At(cut, hits[i]) < Search!At(cut, hits[j]) => i < j
    BY <2>1, <2>4, ShownFacts
  <2>7. \A d \in Search!ToSet(cut) :
          Search!At(cut, d) \in 1 .. Len(cut) /\ Search!At(cut, d) \in DOMAIN fused /\ fused[Search!At(cut, d)] = d
    BY <2>1, <2>2, AtFacts
  <2>8. ASSUME NEW i \in DOMAIN hits, NEW j \in DOMAIN hits, score(hits[i]) > score(hits[j])
        PROVE  i < j \/ (hits[i] \in Demoted /\ hits[j] \notin Demoted)
    <3>1. Search!At(cut, hits[i]) < Search!At(cut, hits[j])
      BY <1>3, <2>6, <2>7, <2>8
    <3>2. CASE hits[i] \in Demoted <=> hits[j] \in Demoted
      BY <2>6, <3>1, <3>2
    <3>3. CASE hits[i] \notin Demoted /\ hits[j] \in Demoted
      BY <2>6, <3>3
    <3> QED
      BY <3>2, <3>3
  <2>9. ASSUME NEW d \in found \cap steady, NEW i \in DOMAIN hits, score(d) > score(hits[i])
        PROVE  d \in Search!ToSet(hits)
    <3> DEFINE m == Search!At(cut, hits[i])
    <3>1. PICK l \in DOMAIN fused : fused[l] = d
      BY <2>2 DEF Search!ToSet
    <3>2. m \in 1 .. Len(cut) /\ m \in DOMAIN fused /\ fused[m] = hits[i]
      BY <2>6, <2>7
    <3>3. l < m
      BY <1>3, <2>9, <3>1, <3>2
    <3> HIDE DEF m
    <3>4. l \in 1 .. Len(cut) /\ cut[l] = d
      BY <2>1, <2>2, <3>1, <3>2, <3>3
    <3>5. d \in Search!ToSet(cut)
      BY <2>1, <3>4 DEF Search!ToSet
    <3> QED
      BY <2>5, <2>6, <3>5
  <2> QED
    BY <2>3, <2>6, <2>8, <2>9
<1> HIDE DEF fused, found, hits, score
<1>8. /\ query'.at = "done" /\ query'.found = found /\ query'.hits = hits /\ query'.rankings = query.rankings
  BY <1>1, <1>2
<1>9. SameRequest
  BY <1>1, <1>2 DEF SameRequest
<1>10. query' = [at |-> query'.at, kbs |-> query'.kbs, filter |-> query'.filter, weights |-> query'.weights,
                 rankings |-> query'.rankings, models |-> query'.models, text |-> query'.text,
                 covered |-> query'.covered, hits |-> query'.hits, mode |-> query'.mode, found |-> query'.found]
  BY <1>1, <1>2
<1>11. SearchTypes'
  BY <1>1, <1>4, <1>8, <1>9, <1>10 DEF SearchInv, SearchTypes, SameRequest
<1>12. LegsRight'
  BY <1>8, <1>9 DEF SearchInv, LegsRight, SameRequest, Search!Matches
<1>13. LegsCover' /\ DocumentRight'
  BY <1>8 DEF LegsCover, DocumentRight
<1>14. Search!NothingMissed'
  <2>1. ASSUME NEW d \in Search!ToSet(TextOrder), d[1] \in query.kbs, Search!Matches(d, query.filter), d \in steady
        PROVE  \/ d \in found \cup late
               \/ \E i \in DOMAIN query.rankings : Len(query.rankings[i].ids) >= Candidates
    <3>1. Answered(d)
      BY <1>1, <2>1 DEF SearchInv, LegsCover, Wanted
    <3> QED
      BY <1>3, <3>1 DEF Answered
  <2>2. \A d : Search!Matches(d, query.filter)' <=> Search!Matches(d, query.filter)
    BY <1>9 DEF SameRequest, Search!Matches
  <2>3. Search!ToSet(TextOrder)' = Search!ToSet(TextOrder)
    BY DEF Search!ToSet
  <2> QED
    BY <1>1, <1>8, <1>9, <2>1, <2>2, <2>3 DEF Search!NothingMissed, SameRequest
<1>15. Search!ShownRight'
  <2>1. \A i \in DOMAIN query'.hits : query'.hits[i][1] \in query'.kbs /\ Search!Matches(query'.hits[i], query'.filter)
    BY <1>5, <1>7, <1>8, <1>9 DEF SameRequest
  <2>2. \A i, j \in DOMAIN query'.hits : query'.hits[i] \in Demoted /\ query'.hits[j] \notin Demoted => j < i
    BY <1>7, <1>8
  <2> QED
    BY <2>1, <2>2 DEF Search!ShownRight, Search!Matches
<1>16. Search!BestFirst'
  <2>1. \A d : Search!Score(query.rankings, d)' = score(d)
    BY <1>8 DEF score, Search!Score, Search!Share, Search!At, Search!ToSet
  <2> QED
    BY <1>1, <1>7, <1>8, <2>1 DEF Search!BestFirst, Search!ToSet
<1> QED
  BY <1>11, <1>12, <1>13, <1>14, <1>15, <1>16 DEF SearchInv, Search!AnswersWhole

LEMMA SetAsSequence ==
  ASSUME NEW S, IsFiniteSet(S)
  PROVE  Search!SetToSeq(S) \in [1 .. Cardinality(S) -> S]
<1>1. PICK f \in Bijection(1 .. Cardinality(S), S) : TRUE
  BY FS_CardinalityType DEF ExistsBijection
<1>2. f \in [1 .. Cardinality(S) -> S] /\ \A a, b \in DOMAIN f : f[a] = f[b] => a = b
  BY <1>1 DEF Bijection, Injection, IsInjective
<1>3. \E g \in [1 .. Cardinality(S) -> S] : Search!IsInjective(g)
  BY <1>2 DEF Search!IsInjective
<1>4. Search!Cardinality(S) = Cardinality(S)
  BY DEF Search!Cardinality, Cardinality
<1> QED
  BY <1>3, <1>4 DEF Search!SetToSeq

LEMMA AskStep ==
  ASSUME SearchInv, Search!Ask PROVE SearchInv'
<1>1. steady' = stored /\ late' = {} /\ UNCHANGED <<stored, searchVectors, changes>>
  BY DEF Search!Ask
<1>2. PICK readable \in SUBSET SearchBases, requested \in SUBSET SearchBases, filter \in Filters, weights \in Weights :
        LET kbs == Search!Resolve(readable, requested)
        IN  query' = IF kbs = {} /\ requested # {} THEN [Search!NoQuery EXCEPT !.at = "done", !.mode = "404"]
                     ELSE Search!Started(kbs, filter, weights)
  BY DEF Search!Ask
<1> DEFINE kbs == Search!Resolve(readable, requested)
           at == IF kbs = {} THEN "done"
                 ELSE IF weights[1] > 0 /\ kbs \cap Embedded # {} THEN "embedding" ELSE "fulltext"
<1>3. weights \in Nat \X Nat
  BY SearchAssumption
<1> HIDE DEF kbs, at
<1>4. CASE query' = [Search!NoQuery EXCEPT !.at = "done", !.mode = "404"]
  <2>1. query'.at = "done" /\ query'.mode = "404" /\ query'.hits = <<>> /\ query'.weights = <<0, 0>> /\ query'.found = {}
    BY <1>4 DEF Search!NoQuery
  <2>2. query' = [at |-> query'.at, kbs |-> query'.kbs, filter |-> query'.filter, weights |-> query'.weights,
                  rankings |-> <<>>, models |-> FALSE, text |-> FALSE, covered |-> {},
                  hits |-> query'.hits, mode |-> query'.mode, found |-> query'.found]
    BY <1>4 DEF Search!NoQuery
  <2>3. DocumentRight' /\ Search!AnswersWhole'
    BY <2>1 DEF DocumentRight, Search!AnswersWhole, Search!NothingMissed, Search!ShownRight, Search!BestFirst, Search!Searched
  <2> QED
    BY <1>1, <2>1, <2>2, <2>3, SearchBegins
<1>5. CASE query' = Search!Started(kbs, filter, weights)
  <2>1. query' = [Search!NoQuery EXCEPT !.kbs = kbs, !.filter = filter, !.weights = weights, !.mode = "FULLTEXT", !.at = at]
    BY <1>5 DEF Search!Started, at
  <2>2. /\ query'.kbs = kbs /\ query'.at = at /\ query'.weights = weights /\ query'.hits = <<>> /\ query'.found = {}
    BY <2>1 DEF Search!NoQuery
  <2>3. query' = [at |-> query'.at, kbs |-> query'.kbs, filter |-> query'.filter, weights |-> query'.weights,
                  rankings |-> <<>>, models |-> FALSE, text |-> FALSE, covered |-> {},
                  hits |-> query'.hits, mode |-> query'.mode, found |-> query'.found]
    BY <2>1 DEF Search!NoQuery
  <2>4. at \in {"done", "embedding", "fulltext"} /\ (at = "done" => kbs = {})
    BY DEF at
  <2>5. DocumentRight' /\ Search!AnswersWhole'
    BY <2>2, <2>4 DEF DocumentRight, Search!AnswersWhole, Search!NothingMissed, Search!ShownRight, Search!BestFirst, Search!Searched
  <2> QED
    BY <1>1, <1>3, <2>2, <2>3, <2>4, <2>5, SearchBegins
<1> QED
  BY <1>2, <1>4, <1>5 DEF kbs

LEMMA GetStep ==
  ASSUME SearchInv, Search!Get PROVE SearchInv'
<1>1. steady' = {} /\ late' = {} /\ UNCHANGED <<stored, searchVectors, changes>>
  BY DEF Search!Get
<1>2. PICK kbs \in SUBSET SearchBases, id \in SearchPaths :
        LET exact == {d \in Search!Of(kbs) : d[2] = id}
        IN  IF exact # {} \/ Stripped[id] = id
              THEN query' = [Search!NoQuery EXCEPT !.at = "got", !.kbs = kbs, !.found = exact]
              ELSE query' = [Search!NoQuery EXCEPT !.at = "finding", !.kbs = kbs, !.hits = <<id>>]
  BY DEF Search!Get
<1> DEFINE exact == {d \in Search!Of(kbs) : d[2] = id}
<1>3. exact \subseteq Search!Documents /\ \A d \in exact : d[1] \in kbs
  BY DEF Search!Of, SearchInv, SearchTypes
<1> HIDE DEF exact
<1>4. CASE query' = [Search!NoQuery EXCEPT !.at = "got", !.kbs = kbs, !.found = exact]
  <2>1. query'.at = "got" /\ query'.kbs = kbs /\ query'.found = exact /\ query'.filter = {} /\ query'.weights = <<0, 0>>
    BY <1>4 DEF Search!NoQuery
  <2>2. query' = [at |-> query'.at, kbs |-> query'.kbs, filter |-> query'.filter, weights |-> query'.weights,
                  rankings |-> <<>>, models |-> FALSE, text |-> FALSE, covered |-> {},
                  hits |-> query'.hits, mode |-> query'.mode, found |-> query'.found]
    BY <1>4 DEF Search!NoQuery
  <2>3. DocumentRight'
    BY <1>3, <2>1 DEF DocumentRight
  <2>4. Search!AnswersWhole'
    BY <2>1 DEF Search!AnswersWhole, Search!NothingMissed, Search!ShownRight, Search!BestFirst, Search!Searched
  <2> QED
    BY <1>1, <1>3, <2>1, <2>2, <2>3, <2>4, SearchBegins
<1>5. CASE query' = [Search!NoQuery EXCEPT !.at = "finding", !.kbs = kbs, !.hits = <<id>>]
  <2>1. query'.at = "finding" /\ query'.kbs = kbs /\ query'.found = {} /\ query'.filter = {} /\ query'.weights = <<0, 0>>
    BY <1>5 DEF Search!NoQuery
  <2>2. query' = [at |-> query'.at, kbs |-> query'.kbs, filter |-> query'.filter, weights |-> query'.weights,
                  rankings |-> <<>>, models |-> FALSE, text |-> FALSE, covered |-> {},
                  hits |-> query'.hits, mode |-> query'.mode, found |-> query'.found]
    BY <1>5 DEF Search!NoQuery
  <2>3. DocumentRight'
    BY <2>1 DEF DocumentRight
  <2>4. Search!AnswersWhole'
    BY <2>1 DEF Search!AnswersWhole, Search!NothingMissed, Search!ShownRight, Search!BestFirst, Search!Searched
  <2> QED
    BY <1>1, <2>1, <2>2, <2>3, <2>4, SearchBegins
<1> QED
  BY <1>2, <1>4, <1>5 DEF exact

LEMMA FindStrippedStep ==
  ASSUME SearchInv, Search!FindStripped PROVE SearchInv'
<1> DEFINE found == {d \in Search!Of(query.kbs) : d[2] = Stripped[query.hits[1]]}
<1>1. /\ query.at = "finding" /\ UNCHANGED <<stored, searchVectors, steady, late, changes>>
      /\ query' = [query EXCEPT !.at = "got", !.found = found, !.hits = <<>>]
  BY DEF Search!FindStripped
<1>2. query = [at |-> query.at, kbs |-> query.kbs, filter |-> query.filter, weights |-> query.weights,
               rankings |-> query.rankings, models |-> query.models, text |-> query.text,
               covered |-> query.covered, hits |-> query.hits, mode |-> query.mode, found |-> query.found]
  BY DEF SearchInv, SearchTypes
<1>3. found \subseteq Search!Documents /\ \A d \in found : d[1] \in query.kbs
  BY DEF Search!Of, SearchInv, SearchTypes
<1> HIDE DEF found
<1>4. query'.at = "got" /\ query'.found = found /\ query'.rankings = query.rankings
  BY <1>1, <1>2
<1>5. SameRequest
  BY <1>1, <1>2 DEF SameRequest
<1>6. query' = [at |-> query'.at, kbs |-> query'.kbs, filter |-> query'.filter, weights |-> query'.weights,
                rankings |-> query'.rankings, models |-> query'.models, text |-> query'.text,
                covered |-> query'.covered, hits |-> query'.hits, mode |-> query'.mode, found |-> query'.found]
  BY <1>1, <1>2
<1>7. SearchTypes'
  BY <1>1, <1>3, <1>4, <1>5, <1>6 DEF SearchInv, SearchTypes, SameRequest
<1>8. LegsRight'
  BY <1>4, <1>5 DEF SearchInv, LegsRight, SameRequest, Search!Matches
<1>9. LegsCover' /\ Search!AnswersWhole'
  BY <1>4 DEF LegsCover, Search!AnswersWhole, Search!NothingMissed, Search!ShownRight, Search!BestFirst, Search!Searched
<1>10. DocumentRight'
  BY <1>1, <1>3, <1>4, <1>5 DEF SearchInv, DocumentRight, SameRequest
<1> QED
  BY <1>7, <1>8, <1>9, <1>10 DEF SearchInv

LEMMA AnswerStep ==
  ASSUME SearchInv, Search!Answer PROVE SearchInv'
<1> DEFINE hits == IF Cardinality(query.found) = 1 THEN Search!SetToSeq(query.found) ELSE <<>>
           mode == IF query.found = {} THEN "404" ELSE IF Cardinality(query.found) = 1 THEN "200" ELSE "409"
<1>1. query.at = "got" /\ UNCHANGED <<stored, searchVectors, steady, late, changes>>
  BY DEF Search!Answer
<1>2. query' = [Search!NoQuery EXCEPT !.at = "done", !.kbs = query.kbs, !.hits = hits, !.mode = mode]
  <2>1. Search!Cardinality(query.found) = Cardinality(query.found)
    BY DEF Search!Cardinality, Cardinality
  <2> QED
    BY <2>1 DEF Search!Answer
<1>3. \A i \in DOMAIN hits : hits[i] \in query.found
  <2>1. CASE Cardinality(query.found) = 1
    <3>1. query.found \subseteq Search!Documents /\ IsFiniteSet(Search!Documents)
      BY SearchAssumption DEF SearchInv, SearchTypes
    <3>2. IsFiniteSet(query.found)
      BY <3>1, FS_Subset
    <3>3. hits = Search!SetToSeq(query.found)
      BY <2>1
    <3> HIDE DEF hits
    <3> QED
      BY <2>1, <3>2, <3>3, SetAsSequence
  <2>2. CASE Cardinality(query.found) # 1
    BY <2>2
  <2> QED
    BY <2>1, <2>2
<1>4. \A d \in query.found : d[1] \in query.kbs
  BY <1>1 DEF SearchInv, DocumentRight
<1>5. mode \in {"404", "200", "409"}
  OBVIOUS
<1> HIDE DEF hits, mode
<1>6. /\ query'.at = "done" /\ query'.kbs = query.kbs /\ query'.hits = hits /\ query'.mode = mode
      /\ query'.filter = {} /\ query'.found = {} /\ query'.weights = <<0, 0>>
  BY <1>2 DEF Search!NoQuery
<1>7. query' = [at |-> query'.at, kbs |-> query'.kbs, filter |-> query'.filter, weights |-> query'.weights,
                rankings |-> <<>>, models |-> FALSE, text |-> FALSE, covered |-> {},
                hits |-> query'.hits, mode |-> query'.mode, found |-> query'.found]
  BY <1>2 DEF Search!NoQuery
<1>8. DocumentRight'
  BY <1>6 DEF DocumentRight
<1>9. ~Search!Searched'
  BY <1>5, <1>6 DEF Search!Searched
<1>10. Search!ShownRight'
  BY <1>3, <1>4, <1>6, <1>9 DEF Search!ShownRight, Search!Matches
<1>11. Search!AnswersWhole'
  BY <1>9, <1>10 DEF Search!AnswersWhole, Search!NothingMissed, Search!BestFirst
<1>12. steady' \subseteq stored
  BY <1>1 DEF SearchInv, SearchTypes
<1> QED
  BY <1>1, <1>6, <1>7, <1>8, <1>11, <1>12, SearchBegins

LEMMA ChangesStep ==
  ASSUME SearchInv, Search!IndexChanges PROVE SearchInv'
<1>1. query' = query
  BY DEF Search!IndexChanges
<1>2. stored \subseteq Search!Documents /\ searchVectors \subseteq stored /\ steady \subseteq stored
  BY DEF SearchInv, SearchTypes
<1>3. PICK d \in Search!Documents :
        \/ stored' = stored \cup {d} /\ UNCHANGED <<searchVectors, steady, late>>
        \/ /\ stored' = stored \ {d} /\ searchVectors' = searchVectors \ {d} /\ steady' = steady \ {d}
           /\ UNCHANGED late
        \/ /\ d \in stored /\ searchVectors' = searchVectors \cup {d} /\ late' = late \cup {d}
           /\ UNCHANGED <<stored, steady>>
  BY DEF Search!IndexChanges
<1>4. /\ stored' \subseteq Search!Documents /\ steady' \subseteq steady /\ late \subseteq late'
      /\ searchVectors' \subseteq stored' /\ steady' \subseteq stored' /\ searchVectors' \subseteq searchVectors \cup late'
  BY <1>2, <1>3
<1> QED
  BY <1>1, <1>4, SearchUnderChange

LEMMA SearchStep ==
  ASSUME SearchInv, [Search!Next]_(Search!vars) PROVE SearchInv'
<1>1. CASE UNCHANGED Search!vars
  <2>1. UNCHANGED <<query, stored, searchVectors, steady, late>>
    BY <1>1 DEF Search!vars
  <2>2. stored \subseteq Search!Documents /\ searchVectors \subseteq stored /\ steady \subseteq stored
    BY DEF SearchInv, SearchTypes
  <2> QED
    BY <2>1, <2>2, SearchUnderChange
<1>2. CASE Search!Next
  BY <1>2, ChangesStep, AskStep, EmbedStep, VectorLegStep, UnembeddedStep, TextLegStep, DetailsStep, GetStep,
     FindStrippedStep, AnswerStep DEF Search!Next
<1> QED
  BY <1>1, <1>2

LEMMA SearchHolds == SearchInv => Search!AnswersWhole
  BY DEF SearchInv

----------------------------------------------------------------------------
(* The composition *)

\* A step of the composition is one of the part it is of.
LEMMA HostSteps ==
  ASSUME [HostNext]_hostVars
  PROVE  /\ part' = part
         /\ part = "DocumentWrite" => [Document!Next]_(Document!vars)
         /\ part = "EmbeddingBacklog" => [Backlog!Next]_(Backlog!vars)
         /\ part = "MarkdownChunks" => [Markdown!Next]_(Markdown!vars)
         /\ part = "KnowledgeSearch" => [Search!Next]_(Search!vars)
         /\ part = "SchemaMigration" => [Schema!Next]_(Schema!vars)
<1>1. CASE UNCHANGED hostVars
  <2>1. UNCHANGED <<part, docVars, backVars, mdVars, searchVars, schemaVars>>
    BY <1>1 DEF hostVars
  <2> QED
    BY <1>1, <2>1 DEF docVars, Document!vars, backVars, Backlog!vars, mdVars, Markdown!vars, searchVars, Search!vars, schemaVars,
          Schema!vars, Schema!store, Schema!history
<1>2. CASE HostNext
  <2>1. part' = part
    BY <1>2 DEF HostNext, LoopOnly, DocumentOnly, BacklogOnly, MarkdownOnly, SearchOnly, SchemaOnly
  <2>2. ASSUME part = "DocumentWrite" PROVE Document!Next
    BY <1>2, <2>2 DEF HostNext, Document!Next, LoopOnly, DocumentOnly, BacklogOnly, MarkdownOnly, SearchOnly, SchemaOnly
  <2>3. ASSUME part = "EmbeddingBacklog" PROVE Backlog!Next
    BY <1>2, <2>3 DEF HostNext, Backlog!Next, Backlog!Step, LoopOnly, DocumentOnly, BacklogOnly, MarkdownOnly,
                      SearchOnly, SchemaOnly
  <2>4. ASSUME part = "SchemaMigration" PROVE Schema!Next
    BY <1>2, <2>4 DEF HostNext, Schema!Next, LoopOnly, DocumentOnly, BacklogOnly, MarkdownOnly, SearchOnly, SchemaOnly
  <2>5. ASSUME part = "KnowledgeSearch" PROVE Search!Next
    BY <1>2, <2>5 DEF HostNext, Search!Next, LoopOnly, DocumentOnly, BacklogOnly, MarkdownOnly, SearchOnly, SchemaOnly
  <2>6. ASSUME part = "MarkdownChunks" PROVE Markdown!Next
    BY <1>2, <2>6 DEF HostNext, Markdown!Next, LoopOnly, DocumentOnly, BacklogOnly, MarkdownOnly, SearchOnly, SchemaOnly
  <2> QED
    BY <2>1, <2>2, <2>3, <2>4, <2>5, <2>6
<1> QED
  BY <1>1, <1>2

\* DocumentWriteService in the composition: a call makes one commit, however often it is sent, unless an answer
\* was lost and the branch was back at its version; and nobody is told of another's failure.
THEOREM HostCommitsOnce == HostSpec => []CommitsOnce
<1> DEFINE Inv == part = "DocumentWrite" => DocInv
<1>1. HostInit => Inv
  <2> SUFFICES ASSUME HostInit, part = "DocumentWrite" PROVE DocInv
    OBVIOUS
  <2>1. Document!Init
    BY DEF HostInit
  <2> QED
    BY <2>1, DocInit
<1>2. Inv /\ [HostNext]_hostVars => Inv'
  BY HostSteps, DocStep
<1>3. Inv => CommitsOnce
  BY DocHolds DEF CommitsOnce
<1> HIDE DEF Inv
<1> QED
  BY <1>1, <1>2, <1>3, PTL DEF HostSpec

\* ... and each of its commits is over the version its caller saw, within its area, and holds no secret.
THEOREM HostCommitsLawful == HostSpec => CommitsLawful
<1> DEFINE Inv == part = "DocumentWrite" => DocInv
<1>1. HostInit => Inv
  <2> SUFFICES ASSUME HostInit, part = "DocumentWrite" PROVE DocInv
    OBVIOUS
  <2>1. Document!Init
    BY DEF HostInit
  <2> QED
    BY <2>1, DocInit
<1>2. Inv /\ [HostNext]_hostVars => Inv'
  BY HostSteps, DocStep
<1>3. Inv /\ [HostNext]_hostVars =>
        [part = "DocumentWrite" => Document!SeenBeforeCommit /\ Document!WithinAreas]_hostVars
  BY HostSteps, DocActs
<1> HIDE DEF Inv
<1> QED
  BY <1>1, <1>2, <1>3, PTL DEF HostSpec, CommitsLawful

\* DocumentRepository and EmbeddingRepository in the composition: a vector is of the text its chunk has, and
\* what had one before the deletions is not embedded again while no other run writes.
THEOREM HostBacklogSound == HostSpec => []BacklogSound
<1> DEFINE Inv == part = "EmbeddingBacklog" => BacklogInv
<1>1. HostInit => Inv
  <2> SUFFICES ASSUME HostInit, part = "EmbeddingBacklog" PROVE BacklogInv
    OBVIOUS
  <2>1. Backlog!Init
    BY DEF HostInit
  <2> QED
    BY <2>1, BacklogInit
<1>2. Inv /\ [HostNext]_hostVars => Inv'
  BY HostSteps, BacklogStep
<1>3. Inv => BacklogSound
  BY BacklogHolds DEF BacklogSound
<1> HIDE DEF Inv
<1> QED
  BY <1>1, <1>2, <1>3, PTL DEF HostSpec

\* SchemaMigrator in the composition: the newest boot finds the row and the index it asked for, and chunks are in
\* the row's language unless a rewrite was torn or pods of two configurations wrote.
THEOREM HostSchemaServes == HostSpec => []SchemaServes
<1> DEFINE Inv == part = "SchemaMigration" => SchemaInv
<1>1. HostInit => Inv
  <2> SUFFICES ASSUME HostInit, part = "SchemaMigration" PROVE SchemaInv
    OBVIOUS
  <2>1. Schema!Init
    BY DEF HostInit
  <2> QED
    BY <2>1, SchemaInit
<1>2. Inv /\ [HostNext]_hostVars => Inv'
  BY HostSteps, SchemaStep
<1>3. Inv => SchemaServes
  BY SchemaHolds DEF SchemaServes
<1> HIDE DEF Inv
<1> QED
  BY <1>1, <1>2, <1>3, PTL DEF HostSpec

\* MarkdownChunkerService in the composition: whatever the document, each line is under the headings above it and each
\* chunk has its own anchor; whatever the body, every character is in a part, each part fits, none is repeated whole.
THEOREM HostChunksSound == HostSpec => []ChunksSound
<1> DEFINE Inv == part = "MarkdownChunks" => ChunksInv
<1>1. HostInit => Inv
  BY DEF HostInit, Markdown!Init, ChunksInv
<1>2. Inv /\ [HostNext]_hostVars => Inv'
  BY HostSteps, ChunksStep
<1>3. Inv => ChunksSound
  BY ChunksHold DEF ChunksSound
<1> HIDE DEF Inv
<1> QED
  BY <1>1, <1>2, <1>3, PTL DEF HostSpec

\* SearchService in the composition: whatever the index does between the legs of a search and whenever the embedder
\* fails, what full-text finds is among the candidates unless a leg was full or its vector came meanwhile, and
\* what is shown is what was asked for, the superseded last.
THEOREM HostAnswersWhole == HostSpec => []AnswersWhole
<1> DEFINE Inv == part = "KnowledgeSearch" => SearchInv
<1>1. HostInit => Inv
  <2> SUFFICES ASSUME HostInit, part = "KnowledgeSearch" PROVE SearchInv
    OBVIOUS
  <2>1. Search!Init
    BY DEF HostInit
  <2> QED
    BY <2>1, SearchInit
<1>2. Inv /\ [HostNext]_hostVars => Inv'
  BY HostSteps, SearchStep
<1>3. Inv => AnswersWhole
  BY SearchHolds DEF AnswersWhole
<1> HIDE DEF Inv
<1> QED
  BY <1>1, <1>2, <1>3, PTL DEF HostSpec
=============================================================================
