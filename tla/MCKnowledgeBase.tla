--------------------------- MODULE MCKnowledgeBase ----------------------------
(***************************************************************************)
(* The parts of knowledge-base-api one by one, for TLC: a behaviour is one *)
(* of the part it starts with, and the other parts' variables stand still. *)
(* The properties are the parts' own, each about its part's behaviours.    *)
(***************************************************************************)
EXTENDS IndexingLoop, Sequences

CONSTANTS \* DocumentWrite
          WriterPods, Writes, Texts, Secrets, Absent, Retries, MaxElsewhere, MaxSlips,
          \* EmbeddingBacklog
          IndexerRuns, DocumentPaths, Contents, Models, BatchSize,
          MaxScheduled, MaxCommits, MaxRuns, MaxFailures,
          \* MarkdownChunks
          Words, Titles, LineLengths, MaxChars, OverlapChars, MaxLines, MaxBody,
          \* KnowledgeSearch
          SearchBases, SearchPaths, Embedded, Stripped, TextOrder, VectorOrder, Demoted, Weights,
          Metadata, Filters, Candidates, Limit, RrfK, Scale, MaxChanges,
          ka, kb,
          \* SchemaMigration
          SchemaPods, Languages, Sizes, Chunks, MaxBoots, SchemaMaxFaults

\* A name for nothing is not among what it stands beside, and a document's chunks are a sequence.
ASSUME KnowledgeBaseAssumption ==
  /\ Absent \notin Texts /\ Secrets \subseteq Texts /\ Absent \notin Contents /\ Absent \notin Seq(Nat)
  /\ \A c \in Contents : Len(c) \in Nat /\ DOMAIN c = 1 .. Len(c)
  /\ None \notin SchemaPods /\ None \notin Languages

VARIABLES part,
          branch, write, line, docCommits, unheard, restored, elsewhere, slips,
          head, documents, chunks, backVectors, serial, run, seen, backCommits, started,
          failures,
          document, body,
          stored, searchVectors, query, steady, late, changes,
          tables, holder, language, fts, indexes, schemaVectors, pod, newest, torn, mixed,
          boots, schemaFaults

\* A document that shares a text with another, or has one text.
Versions == {<<"a">>, <<"b", "a">>}

\* A heading, and the same heading as GithubSlugger numbers it the second time.
TitlesTried == {<<w>> : w \in Words} \cup {<<w, 1>> : w \in Words}

\* Two knowledge bases, one of them embedded; a document, and an item of a list in it.
PathsTried == {"x", "x#s"}
Anchorless == [p \in PathsTried |-> "x"]
TextFinds == <<<<ka, "x">>, <<kb, "x">>, <<ka, "x#s">>>>
Nearest == <<<<ka, "x#s">>, <<ka, "x">>, <<kb, "x">>, <<kb, "x#s">>>>
Tags == [d \in {ka, kb} \X PathsTried |->
           IF d = <<kb, "x">> THEN {<<"area", "home">>} ELSE {<<"area", "work">>, <<"type", "fact">>}]
FiltersTried == {{}, {<<"area", "work">>, <<"area", "home">>, <<"type", "fact">>}}
Replaced == {<<ka, "x">>}
WeightsTried == {<<1, 0>>, <<2, 1>>, <<0, 1>>}

Document == INSTANCE DocumentWrite WITH
  Pods <- WriterPods, Malformed <- Secrets, MaxFaults <- MaxSlips,
  commits <- docCommits

Backlog == INSTANCE EmbeddingBacklog WITH
  Runs <- IndexerRuns, Paths <- DocumentPaths, vectors <- backVectors, commits <- backCommits

Markdown == INSTANCE MarkdownChunks WITH Lengths <- LineLengths

\* A heading says something, in words or numbers; a line may be empty.
ASSUME MarkdownAssumption ==
  /\ Titles \subseteq Seq(Words \cup Nat) \ {<<>>}
  /\ LineLengths \subseteq Nat /\ MaxChars \in Nat \ {0} /\ OverlapChars \in Nat

Search == INSTANCE KnowledgeSearch WITH
  KnowledgeBases <- SearchBases, Paths <- SearchPaths, Superseded <- Demoted, vectors <- searchVectors

\* What is ranked are documents, by the vectors any of them; a leg takes some, and a rank counts from the
\* constant on.
ASSUME SearchAssumption ==
  /\ IsFiniteSet(Search!Documents)
  /\ TextOrder \in Seq(Search!Documents) /\ VectorOrder \in Seq(Search!Documents)
  /\ Search!Documents \subseteq Search!ToSet(VectorOrder)
  /\ Weights \subseteq Nat \X Nat
  /\ Candidates \in Nat \ {0} /\ Limit \in Nat /\ RrfK \in Nat /\ Scale \in Nat

Schema == INSTANCE SchemaMigration WITH
  Pods <- SchemaPods, MaxFaults <- SchemaMaxFaults, vectors <- schemaVectors,
  faults <- schemaFaults

docVars == <<branch, write, line, docCommits, unheard, restored, elsewhere, slips>>
backVars == <<head, documents, chunks, backVectors, serial, run, seen, backCommits, started,
               failures>>
mdVars == <<document, body>>
searchVars == <<stored, searchVectors, query, steady, late, changes>>
schemaVars == <<tables, holder, language, fts, indexes, schemaVectors, pod, newest, torn,
                 mixed, boots, schemaFaults>>
hostVars == <<part, vars, docVars, backVars, mdVars, searchVars, schemaVars>>

\* A variable of a part that is not the behaviour's.
Off == "off"
DocumentOff ==
  /\ branch = Off /\ write = Off /\ line = Off /\ docCommits = Off /\ unheard = Off
  /\ restored = Off /\ elsewhere = Off /\ slips = Off
BacklogOff ==
  /\ head = Off /\ documents = Off /\ chunks = Off /\ backVectors = Off /\ serial = Off
  /\ run = Off /\ seen = Off /\ backCommits = Off /\ started = Off /\ failures = Off
MarkdownOff ==
  /\ document = Off /\ body = Off
SearchOff ==
  /\ stored = Off /\ searchVectors = Off /\ query = Off /\ steady = Off /\ late = Off
  /\ changes = Off
SchemaOff ==
  /\ tables = Off /\ holder = Off /\ language = Off /\ fts = Off /\ indexes = Off
  /\ schemaVectors = Off /\ pod = Off /\ newest = Off /\ torn = Off /\ mixed = Off
  /\ boots = Off /\ schemaFaults = Off

LoopOnly ==
  /\ part = "IndexingLoop"
  /\ UNCHANGED <<part, docVars, backVars, mdVars, searchVars, schemaVars>>
DocumentOnly ==
  /\ part = "DocumentWrite"
  /\ UNCHANGED <<part, vars, backVars, mdVars, searchVars, schemaVars>>
BacklogOnly ==
  /\ part = "EmbeddingBacklog"
  /\ UNCHANGED <<part, vars, docVars, mdVars, searchVars, schemaVars>>
MarkdownOnly ==
  /\ part = "MarkdownChunks"
  /\ UNCHANGED <<part, vars, docVars, backVars, searchVars, schemaVars>>
SearchOnly ==
  /\ part = "KnowledgeSearch"
  /\ UNCHANGED <<part, vars, docVars, backVars, mdVars, schemaVars>>
SchemaOnly ==
  /\ part = "SchemaMigration"
  /\ UNCHANGED <<part, vars, docVars, backVars, mdVars, searchVars>>

HostInit ==
  \/ part = "IndexingLoop" /\ Init /\ DocumentOff /\ BacklogOff /\ MarkdownOff /\ SearchOff
     /\ SchemaOff
  \/ part = "DocumentWrite" /\ Document!Init /\ Init /\ built = {} /\ BacklogOff /\ MarkdownOff
     /\ SearchOff /\ SchemaOff
  \/ part = "EmbeddingBacklog" /\ Backlog!Init /\ Init /\ built = {} /\ DocumentOff
     /\ MarkdownOff /\ SearchOff /\ SchemaOff
  \/ part = "MarkdownChunks" /\ Markdown!Init /\ Init /\ built = {} /\ DocumentOff /\ BacklogOff
     /\ SearchOff /\ SchemaOff
  \/ part = "KnowledgeSearch" /\ Search!Init /\ Init /\ built = {} /\ DocumentOff /\ BacklogOff
     /\ MarkdownOff /\ SchemaOff
  \/ part = "SchemaMigration" /\ Schema!Init /\ Init /\ built = {} /\ DocumentOff /\ BacklogOff
     /\ MarkdownOff /\ SearchOff

HostNext ==
  \/ LoopOnly /\ \E p \in Pods : Ready(p)
  \/ LoopOnly /\ \E p \in Pods : TimerFires(p)
  \/ LoopOnly /\ \E p \in Pods : Destroy(p)
  \/ LoopOnly /\ \E p \in Pods : Close(p)
  \/ LoopOnly /\ \E p \in Pods : Replace(p)
  \/ LoopOnly /\ \E p \in Pods : Crash(p)
  \/ LoopOnly /\ \E p \in Pods, c \in Callers : Trigger(p, c)
  \/ LoopOnly /\ \E p \in Pods, s \in Slots : TakeLock(p, s)
  \/ LoopOnly /\ \E p \in Pods, s \in Slots : Skip(p, s)
  \/ LoopOnly /\ \E p \in Pods, s \in Slots : NoDatabase(p, s)
  \/ LoopOnly /\ \E p \in Pods, s \in Slots : NextKnowledgeBase(p, s)
  \/ LoopOnly /\ \E p \in Pods, s \in Slots : NoRunRecord(p, s)
  \/ LoopOnly /\ \E p \in Pods, s \in Slots : Indexed(p, s)
  \/ LoopOnly /\ \E p \in Pods, s \in Slots : Failed(p, s)
  \/ LoopOnly /\ \E p \in Pods, s \in Slots : Interrupted(p, s)
  \/ LoopOnly /\ \E p \in Pods, s \in Slots : Unlock(p, s)
  \/ DocumentOnly /\ Document!CommitElsewhere
  \/ DocumentOnly /\ \E w \in Writes, p \in WriterPods : Document!Call(w, p)
  \/ DocumentOnly /\ \E w \in Writes : Document!Superseded(w)
  \/ DocumentOnly /\ \E w \in Writes : Document!Send(w)
  \/ DocumentOnly /\ \E w \in Writes : Document!Commit(w)
  \/ DocumentOnly /\ \E w \in Writes : Document!Refuse(w)
  \/ DocumentOnly /\ \E w \in Writes : Document!Resend(w)
  \/ DocumentOnly /\ \E w \in Writes : Document!GitHubFails(w)
  \/ DocumentOnly /\ \E w \in Writes : Document!Written(w)
  \/ DocumentOnly /\ \E w \in Writes : Document!Explain(w)
  \/ DocumentOnly /\ \E w \in Writes : Document!Tell(w)
  \/ BacklogOnly /\ Backlog!Publish
  \/ BacklogOnly /\ \E r \in IndexerRuns : Backlog!Begin(r)
  \/ BacklogOnly /\ \E r \in IndexerRuns : Backlog!UpsertNext(r)
  \/ BacklogOnly /\ \E r \in IndexerRuns : Backlog!Copy(r)
  \/ BacklogOnly /\ \E r \in IndexerRuns : Backlog!DeleteGone(r)
  \/ BacklogOnly /\ \E r \in IndexerRuns : Backlog!NextModel(r)
  \/ BacklogOnly /\ \E r \in IndexerRuns : Backlog!Ask(r)
  \/ BacklogOnly /\ \E r \in IndexerRuns : Backlog!Store(r)
  \/ BacklogOnly /\ \E r \in IndexerRuns : Backlog!EmbedFails(r)
  \/ BacklogOnly /\ \E r \in IndexerRuns : Backlog!Finish(r)
  \/ BacklogOnly /\ \E r \in IndexerRuns : Backlog!Stop(r)
  \/ MarkdownOnly /\ Markdown!WriteLine
  \/ MarkdownOnly /\ Markdown!WriteBody
  \/ SearchOnly /\ Search!IndexChanges
  \/ SearchOnly /\ Search!Ask
  \/ SearchOnly /\ Search!Embed(Search!Group)
  \/ SearchOnly /\ Search!VectorLeg
  \/ SearchOnly /\ Search!Unembedded
  \/ SearchOnly /\ Search!TextLeg
  \/ SearchOnly /\ Search!Details
  \/ SearchOnly /\ Search!Get
  \/ SearchOnly /\ Search!FindStripped
  \/ SearchOnly /\ Search!Answer
  \/ SchemaOnly /\ \E p \in SchemaPods : Schema!Boot(p)
  \/ SchemaOnly /\ \E p \in SchemaPods : Schema!RunMigrations(p)
  \/ SchemaOnly /\ \E p \in SchemaPods : Schema!Lock(p)
  \/ SchemaOnly /\ \E p \in SchemaPods : Schema!FindStale(p)
  \/ SchemaOnly /\ \E p \in SchemaPods : Schema!CheckStored(p)
  \/ SchemaOnly /\ \E p \in SchemaPods : Schema!Drop(p)
  \/ SchemaOnly /\ \E p \in SchemaPods : Schema!EnsureModelIndex(p)
  \/ SchemaOnly /\ \E p \in SchemaPods : Schema!Upsert(p)
  \/ SchemaOnly /\ \E p \in SchemaPods : Schema!Rewrite(p)
  \/ SchemaOnly /\ \E p \in SchemaPods : Schema!Unlock(p)
  \/ SchemaOnly /\ \E p \in SchemaPods : Schema!GiveUp(p)
  \/ SchemaOnly /\ \E p \in SchemaPods : Schema!StatementFails(p)
  \/ SchemaOnly /\ \E p \in SchemaPods : Schema!Stop(p)
  \/ SchemaOnly /\ \E p \in SchemaPods : Schema!InsertVector(p)
  \/ SchemaOnly /\ \E p \in SchemaPods, c \in Chunks : Schema!InsertChunk(p, c)
  \/ SchemaOnly /\ Schema!OperatorDeletes

HostSpec == HostInit /\ [][HostNext]_hostVars

-----------------------------------------------------------------------------
(* Properties *)

\* A write commits over nothing its caller has not seen: the branch still has the version the
\* call carries (DocumentWriteService.write, and GitHub's own check of the sha).  What it commits
\* keeps the rules of its area, and holds no secret (DocumentValidationService).
CommitsLawful ==
  [][part = "DocumentWrite" => Document!SeenBeforeCommit /\ Document!WithinAreas]_hostVars

\* One call, one commit, however often Octokit and DocumentWriteService send it; and nobody is
\* answered with the failure of a write that was before it in the queue.
CommitsOnce == part = "DocumentWrite" => Document!CommitsOnce /\ Document!OwnOutcome

\* reconcileChunks: a vector is that of the text its chunk has now, and while no other run is in
\* the way a text that had one is not embedded again.
BacklogSound ==
  part = "EmbeddingBacklog" =>
    Backlog!TypeOK /\ Backlog!VectorMatchesText /\ Backlog!NotEmbeddedAgain

\* MarkdownChunkerService: every line is in the section it is read under and every character of
\* a long body in a part, with anchors and sizes as promised.
ChunksSound == part = "MarkdownChunks" => Markdown!SectionsFaithful /\ Markdown!PartsCover

\* SearchService: what was stored all along and matches is among the candidates unless a leg was full, and
\* what is shown was asked for, in the order the legs' ranks give, the superseded last.
AnswersWhole == part = "KnowledgeSearch" => Search!AnswersWhole

\* SchemaMigrator: after a boot the index serves what the configuration says.
SchemaServes == part = "SchemaMigration" => Schema!SchemaServes
=============================================================================
