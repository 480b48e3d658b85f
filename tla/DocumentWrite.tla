---------------------------- MODULE DocumentWrite ----------------------------
(***************************************************************************)
(* Writes to a knowledge base: the tools of knowledge-base-mcp, the write  *)
(* handlers of knowledge-base-api, and DocumentWriteService with its queue *)
(* per pod and its second attempt, over GitHub's contents API.             *)
(*                                                                         *)
(* A document's version is its blob SHA, so here it is its content: equal  *)
(* contents have equal versions.  There is a note to create, an earlier    *)
(* one, a work/ document and a path under mirror/, which stands for any    *)
(* other.  GitHub, and Octokit's own resends, are external.                *)
(***************************************************************************)
EXTENDS Naturals, Sequences

CONSTANTS Pods,          \* replicas of the API
          Writes,        \* tool calls, each made once
          Texts,         \* contents of a document
          Secrets,       \* those SecretScanService finds something in
          Malformed,     \* those that are no valid spec or plan
          Absent,        \* no document; a create carries no version either
          Retries,       \* github.retries
          MaxElsewhere,  \* bound: commits not made by the API
          MaxFaults      \* bound: lost answers, spurious refusals, failing reads

\* MAX_ATTEMPTS
MaxAttempts == 2

Raw == {"note", "earlier"}
Paths == Raw \cup {"work", "mirror"}

Requests ==
  [kind : {"put", "delete", "note"}, id : Paths, content : Texts,
   version : Texts \cup {Absent}, named : BOOLEAN, supersedes : BOOLEAN]

VARIABLES branch,     \* the branch: path -> content or Absent
          write,      \* per call: where it is
          line,       \* per pod: DocumentWriteService.queue
          commits,    \* history variable: commits made for the call
          unheard,    \* history variable: an answer of GitHub's to the call was lost
          restored,   \* history variable: the branch was at the call's version after its commit
          elsewhere,  \* bound
          slips       \* bound on faults

vars == <<branch, write, line, commits, unheard, restored, elsewhere, slips>>

NoWrite == [at |-> "idle", request |-> [kind |-> "none"], pod |-> "none", attempt |-> 1, sent |-> 0,
            answer |-> "none", heard |-> "none"]

Init ==
  /\ branch \in [Paths -> {Absent}]
  /\ write = [w \in Writes |-> NoWrite]
  /\ line = [p \in Pods |-> <<>>]
  /\ commits = [w \in Writes |-> 0]
  /\ unheard = [w \in Writes |-> FALSE]
  /\ restored = [w \in Writes |-> FALSE]
  /\ elsewhere = 0
  /\ slips = 0

Request(w) == write[w].request
Slip == slips < MaxFaults /\ slips' = slips + 1
history == <<commits, unheard, restored>>

----------------------------------------------------------------------------
(* What the handlers refuse before anything is sent *)

\* OnBehalfOfService: a write is never made for nobody.
Named(r) == r.named

\* SecretScanService, over the document and over the words that go into the commit.
HoldsSecret(r) == r.content \in Secrets

\* MUTANT: only mirror/ is kept from being rewritten.
WritableExceptMirror(r) == r.id # "mirror" /\ r.content \notin Malformed

\* workDocument and writablePath: only work/ documents are put whole, and only valid ones.
Writable(r) == r.id = "work" /\ r.content \notin Malformed

\* deletablePath
Deletable(r) == r.id \in Raw \cup {"work"}

\* NoteRenderService.render: the path comes from the date and the title, under raw/.
Renderable(r) == r.id = "note" /\ r.version = Absent

\* The handlers.
PutDocument(r) == r.kind = "put" /\ Named(r) /\ Writable(r) /\ ~HoldsSecret(r) /\ ~r.supersedes
DeleteDocument(r) == r.kind = "delete" /\ Named(r) /\ Deletable(r) /\ r.version # Absent /\ ~r.supersedes
CreateNote(r) == r.kind = "note" /\ Named(r) /\ Renderable(r) /\ ~HoldsSecret(r)

Accepted(r) == PutDocument(r) \/ DeleteDocument(r) \/ CreateNote(r)

----------------------------------------------------------------------------
(* One write *)

Goes(w, record) == write' = [write EXCEPT ![w] = record]
Ended(w, answer) == [NoWrite EXCEPT !.at = "answered", !.answer = answer]

\* GitFileReader.read: the document as the branch holds it now.
Held(path) == branch[path]

\* A tool call reaches a handler, which refuses it, or goes on; a note that supersedes
\* another looks for that one first.
Call(w, p) ==
  /\ write[w].at = "idle"
  /\ \E r \in Requests :
       LET made == [NoWrite EXCEPT !.request = r, !.pod = p]
       IN  \/ /\ ~Accepted(r)
              /\ Goes(w, Ended(w, "400"))
              /\ UNCHANGED line
           \/ /\ Accepted(r) /\ r.supersedes
              /\ Goes(w, [made EXCEPT !.at = "superseding"])
              /\ UNCHANGED line
           \/ /\ Accepted(r) /\ ~r.supersedes
              /\ Goes(w, [made EXCEPT !.at = "queued"])
              /\ line' = [line EXCEPT ![p] = Append(@, w)]
  /\ UNCHANGED <<branch, history, elsewhere, slips>>

\* NotesPostHandler has read the note that is to be superseded.
Superseded(w) ==
  /\ write[w].at = "superseding"
  /\ \/ /\ Held("earlier") = Absent
        /\ Goes(w, Ended(w, "400"))
        /\ UNCHANGED line
     \/ /\ Held("earlier") # Absent
        /\ Goes(w, [write[w] EXCEPT !.at = "queued"])
        /\ line' = [line EXCEPT ![write[w].pod] = Append(@, w)]
  /\ UNCHANGED <<branch, history, elsewhere, slips>>

\* MUTANT: the chain is not kept alive by a catch, so a failure goes to everyone behind.
LeaveToAll(w, answer) ==
  LET p == write[w].pod
      hit == IF answer = "error" THEN {line[p][i] : i \in DOMAIN line[p]} ELSE {w}
  IN  /\ write' = [v \in Writes |-> IF v \in hit THEN Ended(v, answer) ELSE write[v]]
      /\ line' = [line EXCEPT ![p] = IF answer = "error" THEN <<>> ELSE Tail(@)]

\* The write settles, and the next in line may go.
Leave(w, answer) ==
  /\ Goes(w, Ended(w, answer))
  /\ line' = [line EXCEPT ![write[w].pod] = Tail(@)]

\* MUTANT: the sha is looked up for the request instead of being the caller's.
ShaNow(w) == branch[Request(w).id]

\* The `sha` a write sends, none for a create.
Sha(w) == Request(w).version

\* The attempt at the head of the queue is on its way to GitHub.
Send(w) ==
  /\ write[w].at = "queued"
  /\ Head(line[write[w].pod]) = w
  /\ Goes(w, [write[w] EXCEPT !.at = "sent", !.sent = 0])
  /\ UNCHANGED <<branch, line, history, elsewhere, slips>>

Outcome(w) == IF Request(w).kind = "delete" THEN Absent ELSE Request(w).content

\* The branch is at the version of a call that has committed.
Restoring(path, content) ==
  restored' = [w \in Writes |->
    restored[w] \/ (write[w].at \in {"queued", "sent", "committed", "refused"} /\ commits'[w] > 0
                      /\ Request(w).id = path /\ content = Request(w).version)]

\* External: GitHub commits when the branch holds the blob the request names.
Commit(w) ==
  /\ write[w].at = "sent"
  /\ branch[Request(w).id] = Sha(w)
  /\ branch' = [branch EXCEPT ![Request(w).id] = Outcome(w)]
  /\ commits' = [commits EXCEPT ![w] = @ + 1]
  /\ Restoring(Request(w).id, Outcome(w))
  /\ Goes(w, [write[w] EXCEPT !.at = "committed"])
  /\ UNCHANGED <<line, unheard, elsewhere, slips>>

\* External: it refuses another blob, and once in a while a branch that is moving.
Refuse(w) ==
  /\ write[w].at = "sent"
  /\ \/ branch[Request(w).id] # Sha(w) /\ UNCHANGED slips
     \/ branch[Request(w).id] = Sha(w) /\ Slip
  /\ Goes(w, [write[w] EXCEPT !.at = "refused"])
  /\ UNCHANGED <<branch, line, history, elsewhere>>

\* External: GitHub fails, or its answer is lost; Octokit sends the same request again as
\* long as it may.
Resend(w) ==
  /\ write[w].at \in {"sent", "committed"}
  /\ write[w].sent < Retries
  /\ Slip
  /\ unheard' = [unheard EXCEPT ![w] = @ \/ write[w].at = "committed"]
  /\ Goes(w, [write[w] EXCEPT !.at = "sent", !.sent = @ + 1])
  /\ UNCHANGED <<branch, line, commits, restored, elsewhere>>

\* It gives up, or the read after a refusal fails: no refusal, so the caller gets the error.
GitHubFails(w) ==
  /\ write[w].at \in {"sent", "committed", "refused"}
  /\ write[w].at # "refused" => write[w].sent = Retries
  /\ Slip
  /\ unheard' = [unheard EXCEPT ![w] = TRUE]
  /\ Leave(w, "error")
  /\ UNCHANGED <<branch, commits, restored, elsewhere>>

\* The commit's answer arrives; index starts a run and the caller does not wait for it.
Written(w) ==
  /\ write[w].at = "committed"
  /\ Leave(w, "written")
  /\ UNCHANGED <<branch, history, elsewhere, slips>>

\* The document as it is now explains the refusal, or is worth one more try.
Explain(w) ==
  LET version == Request(w).version
      current == Held(Request(w).id)
      retry == write[w].attempt < MaxAttempts
  IN  /\ write[w].at = "refused"
      /\ \/ /\ current = version /\ retry
            /\ Goes(w, [write[w] EXCEPT !.at = "queued", !.attempt = @ + 1])
            /\ UNCHANGED line
         \/ /\ current # version \/ ~retry
            /\ Leave(w, IF current # Absent THEN "409 current"
                         ELSE IF version = Absent THEN "409" ELSE "404")
      /\ UNCHANGED <<branch, history, elsewhere, slips>>

\* UpstreamErrorService.refusal: what the tool tells the agent.
ToolResult(answer) ==
  CASE answer = "written" -> "written"
    [] answer = "409 current" -> "current"
    [] answer \in {"400", "404", "409"} -> "explained"
    [] OTHER -> "failed"

\* The answer reaches the tool, or does not: a write is not sent upstream again.
Tell(w) ==
  /\ write[w].at = "answered"
  /\ \E heard \in {ToolResult(write[w].answer), "failed"} :
       Goes(w, [NoWrite EXCEPT !.at = "told", !.heard = heard])
  /\ UNCHANGED <<branch, line, history, elsewhere, slips>>

\* External: somebody commits to the branch without the API.
CommitElsewhere ==
  /\ elsewhere < MaxElsewhere
  /\ elsewhere' = elsewhere + 1
  /\ \E path \in Paths, content \in (Texts \ Secrets) \cup {Absent} :
       /\ content # branch[path]
       /\ branch' = [branch EXCEPT ![path] = content]
       /\ UNCHANGED commits
       /\ Restoring(path, content)
  /\ UNCHANGED <<write, line, unheard, slips>>

Next ==
  \/ CommitElsewhere
  \/ \E w \in Writes :
       \/ \E p \in Pods : Call(w, p)
       \/ Superseded(w) \/ Send(w) \/ Commit(w) \/ Refuse(w) \/ Resend(w) \/ GitHubFails(w)
       \/ Written(w) \/ Explain(w) \/ Tell(w)

Spec == Init /\ [][Next]_vars

----------------------------------------------------------------------------
(* Properties *)

Commits(w) == commits'[w] # commits[w]

\* DocumentWriteService answers "another version" with a 409: no write of the API replaces or
\* removes a document its caller had not seen, at whichever attempt or resend it lands.
SeenBeforeCommit == \A w \in Writes : Commits(w) => branch[Request(w).id] = Request(w).version
NothingUnseenLost == [][SeenBeforeCommit]_vars

\* However often Octokit and the second attempt send a write, it makes one commit; a second
\* one takes a lost answer and the very same version back on the branch meanwhile.
CommitsOnce == \A w \in Writes : commits[w] > 1 => unheard[w] /\ restored[w]

\* The areas' table in DocumentValidationService: raw/ is append-only, mirror/ and the rest are
\* never touched, and no secret is committed, whatever the order of the API's writes.
WithinAreas ==
  \A w \in Writes : Commits(w) =>
    LET path == Request(w).id
    IN  /\ path # "mirror"
        /\ path \in Raw => Absent \in {branch[path], branch'[path]}
        /\ branch'[path] \notin Secrets
AreaRules == [][WithinAreas]_vars

\* "The next write waits for this one, whatever its outcome": nobody is answered with the
\* failure of a write that was before it in the queue.
OwnOutcome == \A w \in Writes : write[w].answer = "error" => unheard[w]
=============================================================================
