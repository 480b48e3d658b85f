---------------------------- MODULE GitHubDiscovery ----------------------------
(***************************************************************************)
(* How a git knowledge base finds its repository and keeps a client for    *)
(* it: GitHubRepositoryService's discoveries, GitHubEndpoint's apps and    *)
(* clients, and the calls of runs and of file reads that share them.       *)
(*                                                                         *)
(* GitHub, the coverage of an App's installations or of a token, and the   *)
(* mounted secrets are external: they change under the code's feet.        *)
(***************************************************************************)
EXTENDS Naturals

CONSTANTS KnowledgeBases,
          Repositories,
          Apps, Tokens,        \* credentials, by gitHubCredentialKey
          Rotating,            \* those whose mounted secret may be replaced
          Discoveries,         \* bound: promises of discover alive at a time
          None,
          Sources,             \* the configurations tried: each knowledge base's credential and git.repository
          Coverage,            \* what each credential can read at first
          MaxChanges           \* bound: changes of coverage and of secrets, and listings that fail

Credentials == Apps \cup Tokens

VARIABLES sourced,      \* each knowledge base's credentials and git.repository
          remembered,   \* GitHubRepositoryService.discoveries, by discoveryKey
          promises,     \* the promises of discover
          apps,         \* GitHubEndpoint.apps: the private key each App was built with
          clients,      \* GitHubEndpoint.clients
          asks,         \* what each knowledge base's run or file read is at
          covered,      \* external: what each credential can read now
          secret,       \* external: the version of each secret that GitHub accepts
          changes       \* changes of the outside so far

vars == <<sourced, remembered, promises, apps, clients, asks, covered, secret, changes>>

Keys == Credentials \X (Repositories \cup {None})

\* No promise and no client is None; the configurations tried are of these names.
GitHubAssumption ==
  /\ None \notin Discoveries /\ None \notin [credential : Credentials, secret : Nat]
  /\ Sources \subseteq [KnowledgeBases -> Keys]
  /\ Coverage \in [Credentials -> SUBSET Repositories]
  /\ MaxChanges \in Nat

\* credentials and discoveryKey: spellings of one name are one name here.
Key(kb) == sourced[kb]

NoPromise == [at |-> "idle", key |-> None, secret |-> 0, seen |-> {}, stale |-> {}, repository |-> None]
Idle == [at |-> "idle", kind |-> "run", promise |-> None, repository |-> None, client |-> None, last |-> "none"]

Init ==
  /\ sourced \in Sources
  /\ remembered = [k \in Keys |-> None]
  /\ promises = [d \in Discoveries |-> NoPromise]
  /\ apps = [a \in Apps |-> None]
  /\ clients = [r \in Repositories |-> None]
  /\ asks = [kb \in KnowledgeBases |-> Idle]
  /\ covered = Coverage
  /\ secret = [c \in Credentials |-> 0]
  /\ changes = 0

----------------------------------------------------------------------------
(* Discovery *)

\* A promise is only a name, so any one that nobody refers to will do.
Free == {d \in Discoveries :
           /\ promises[d].at \in {"idle", "found", "failed"}
           /\ \A k \in Keys : remembered[k] # d
           /\ \A kb \in KnowledgeBases : asks[kb].promise # d}

\* getApp reads the private key once; getRepository reads the token on every call.
SecretRead(c) == IF c \in Apps /\ apps[c] # None THEN apps[c] ELSE secret[c]
GetApp(c) == apps' = IF c \in Apps THEN [apps EXCEPT ![c] = SecretRead(c)] ELSE apps

\* repository: the discovery remembered for the key, or a new one, up to GitHub's answer.
\* A run reads through it (changes); so do file reads and writes.
Ask(kb) ==
  /\ asks[kb].at = "idle"
  /\ \E kind \in {"run", "file"}, d \in Discoveries :
       /\ asks' = [asks EXCEPT ![kb] = [@ EXCEPT !.at = "awaiting", !.kind = kind, !.promise = d]]
       /\ \/ /\ remembered[Key(kb)] = d
             /\ UNCHANGED <<remembered, promises, apps>>
          \/ /\ remembered[Key(kb)] = None
             /\ Free # {} /\ d = CHOOSE f \in Free : TRUE
             /\ remembered' = [remembered EXCEPT ![Key(kb)] = d]
             /\ promises' = [promises EXCEPT ![d] =
                  [NoPromise EXCEPT !.at = "asked", !.key = Key(kb), !.secret = SecretRead(Key(kb)[1])]]
             /\ GetApp(Key(kb)[1])
  /\ UNCHANGED <<sourced, clients, covered, secret, changes>>

\* What the credential of a discovery lists: an App everything, a token the one it names.
Listing(key) == IF key[1] \in Apps THEN covered[key[1]] ELSE covered[key[1]] \cap {key[2]}

\* External: GitHub answers the listing, or refuses the secret, or fails.
GitHubLists(d) ==
  /\ promises[d].at = "asked"
  /\ \/ /\ promises[d].secret = secret[promises[d].key[1]]
        /\ promises' = [promises EXCEPT ![d].at = "listed", ![d].seen = Listing(promises[d].key)]
        /\ UNCHANGED changes
     \/ /\ promises[d].secret # secret[promises[d].key[1]]
        /\ promises' = [promises EXCEPT ![d].at = "refused"]
        /\ UNCHANGED changes
     \/ /\ changes < MaxChanges
        /\ changes' = changes + 1
        /\ promises' = [promises EXCEPT ![d].at = "refused"]
  /\ UNCHANGED <<sourced, remembered, apps, clients, asks, covered, secret>>

\* pick: the repository named, or the only one.
Pick(key, seen) == {r \in seen : IF key[2] = None THEN seen = {r} ELSE r = key[2]}

\* MUTANT: every client of the App goes, and those listed come back.
KeptOfNone(d) ==
  [r \in Repositories |->
     IF r \in promises[d].seen THEN [credential |-> promises[d].key[1], secret |-> promises[d].secret]
     ELSE None]

\* listRepositories' one step over clients, and getRepository's: another credential's
\* client stays unless this one reads the same repository.
Kept(d) ==
  LET key == promises[d].key
  IN  [r \in Repositories |->
         IF r \in promises[d].seen THEN [credential |-> key[1], secret |-> promises[d].secret]
         ELSE IF key[1] \in Apps /\ clients[r] # None /\ clients[r].credential = key[1] THEN None
         ELSE clients[r]]

\* discover fails: its key is forgotten, whichever discovery is remembered for it now.
Fails(d) ==
  /\ promises' = [promises EXCEPT ![d].at = "failed", ![d].seen = {}, ![d].stale = {}]
  /\ remembered' = [remembered EXCEPT ![promises[d].key] = None]

\* The rest of discover.
Discovered(d) ==
  /\ \/ promises[d].at = "refused" /\ Fails(d) /\ UNCHANGED clients
     \/ /\ promises[d].at = "listed"
        /\ clients' = Kept(d)
        /\ LET picked == Pick(promises[d].key, promises[d].seen)
           IN  \/ picked = {} /\ Fails(d)
               \/ \E r \in picked :
                    /\ promises' = [promises EXCEPT ![d] = [@ EXCEPT !.at = "found", !.repository = r, !.seen = {}, !.stale = {}]]
                    /\ UNCHANGED remembered
  /\ UNCHANGED <<sourced, apps, asks, covered, secret, changes>>

----------------------------------------------------------------------------
(* The calls of a knowledge base *)

\* MUTANT: what was discovered is never forgotten.
ForgetNothing(kb) == remembered' = remembered

\* forget: a run does, after any failure of its own; a file read or a write does not.
Forget(kb) == remembered' = IF asks[kb].kind = "run" THEN [remembered EXCEPT ![Key(kb)] = None] ELSE remembered

Over(kb, how) == asks' = [asks EXCEPT ![kb] = [Idle EXCEPT !.last = how]]

Fail(kb) == Over(kb, "failed") /\ Forget(kb)

\* client: the call goes out as the credential that discovered the repository last.
Call(kb, r) ==
  \/ clients[r] = None /\ Fail(kb)
  \/ /\ clients[r] # None
     /\ asks' = [asks EXCEPT ![kb] = [@ EXCEPT !.at = "calling", !.promise = None, !.repository = r, !.client = clients[r]]]
     /\ UNCHANGED remembered

\* The promise of repository settles for one that awaits it.
Resume(kb) ==
  /\ asks[kb].at = "awaiting"
  /\ LET d == asks[kb].promise
     IN  \/ promises[d].at = "failed" /\ Fail(kb)
         \/ promises[d].at = "found" /\ Call(kb, promises[d].repository)
  /\ UNCHANGED <<sourced, promises, apps, clients, covered, secret, changes>>

Accepted(client, r) == client.secret = secret[client.credential] /\ r \in covered[client.credential]

\* External: GitHub answers the call, and the run or the read is done or makes its next one.
Answered(kb) ==
  /\ asks[kb].at = "calling"
  /\ \/ /\ Accepted(asks[kb].client, asks[kb].repository)
        /\ \/ Over(kb, "ok") /\ UNCHANGED remembered
           \/ asks[kb].kind = "run" /\ Call(kb, asks[kb].repository)
     \/ ~Accepted(asks[kb].client, asks[kb].repository) /\ Fail(kb)
  /\ UNCHANGED <<sourced, promises, apps, clients, covered, secret, changes>>

----------------------------------------------------------------------------
(* The outside *)

\* An installation changes; a listing under way may have read it before.
CoverageChanges(c) ==
  /\ changes < MaxChanges
  /\ changes' = changes + 1
  /\ covered' \in {[covered EXCEPT ![c] = cover] : cover \in (SUBSET Repositories) \ {covered[c]}}
  /\ promises' = [d \in Discoveries |->
       IF promises[d].at \in {"asked", "listed"} /\ promises[d].key[1] = c
         THEN [promises[d] EXCEPT !.stale = @ \cup ((covered[c] \ covered'[c]) \cup (covered'[c] \ covered[c]))]
         ELSE promises[d]]
  /\ UNCHANGED <<sourced, remembered, apps, clients, asks, secret>>

\* The mounted secret is replaced, and GitHub no longer accepts the old one.
Rotate(c) ==
  /\ c \in Rotating
  /\ changes < MaxChanges
  /\ changes' = changes + 1
  /\ secret' = [secret EXCEPT ![c] = @ + 1]
  /\ UNCHANGED <<sourced, remembered, promises, apps, clients, asks, covered>>

Next ==
  \/ \E kb \in KnowledgeBases : Ask(kb) \/ Resume(kb) \/ Answered(kb)
  \/ \E d \in Discoveries : GitHubLists(d) \/ Discovered(d)
  \/ \E c \in Credentials : CoverageChanges(c) \/ Rotate(c)

\* The indexing loop asks again and again, and ends its runs; GitHub answers.
Fairness ==
  /\ \A kb \in KnowledgeBases :
       /\ WF_vars(Ask(kb)) /\ SF_vars(Ask(kb) /\ asks'[kb].kind = "run")
       /\ WF_vars(Resume(kb))
       /\ WF_vars(Answered(kb)) /\ SF_vars(Answered(kb) /\ asks'[kb].at = "idle")
  /\ \A d \in Discoveries : WF_vars(GitHubLists(d)) /\ WF_vars(Discovered(d))

Spec == Init /\ [][Next]_vars
FairSpec == Spec /\ Fairness

----------------------------------------------------------------------------
(* Properties *)

TypeOK ==
  /\ remembered \in [Keys -> Discoveries \cup {None}]
  /\ \A d \in Discoveries :
       /\ promises[d].at \in {"idle", "asked", "listed", "refused", "found", "failed"}
       /\ promises[d].at = "found" => promises[d].repository \in Repositories
  /\ apps \in [Apps -> (0 .. MaxChanges) \cup {None}]
  /\ \A r \in Repositories : clients[r] # None => clients[r].credential \in Credentials
  /\ \A kb \in KnowledgeBases :
       /\ asks[kb].at \in {"idle", "awaiting", "calling"}
       /\ asks[kb].at = "awaiting" <=> asks[kb].promise # None
  /\ changes \in 0 .. MaxChanges

\* GitHubEndpoint: "a listing that fails or is still running must not take that client away": a client goes
\* only with a listing of its own credential, and only if its repository was not covered at some moment of it.
ForgottenWhenListed ==
  \A r \in Repositories :
    clients[r] # None /\ clients'[r] = None =>
      /\ r \notin covered[clients[r].credential] \/ \E d \in Discoveries : r \in promises[d].stale
      /\ \E d \in Discoveries : promises[d].at = "listed" /\ promises[d].key[1] = clients[r].credential
ClientKept == [][ForgottenWhenListed]_vars

\* The repository a knowledge base is meant to read, while its credential covers it.
Readable(kb) == Pick(Key(kb), covered[Key(kb)[1]]) # {}

\* GitSourceAdapter: "the installation may have changed (key rotated, App moved) or the token been rotated:
\* find it again next run": a knowledge base that could be read from some point on is read.
Recovers ==
  \A kb \in KnowledgeBases : <>[]Readable(kb) => []<>(asks[kb].last = "ok")
=============================================================================
