------------------------------- MODULE QrCodes -------------------------------
(***************************************************************************)
(* The QR manager (apis/qr-manager-api): records with short slugs in a     *)
(* collection whose unique index arbitrates between creations, the REST    *)
(* operations on them, and the scans of printed labels, which look a slug  *)
(* up under a time budget, a circuit breaker and the client's connection.  *)
(*                                                                         *)
(* MongoDB is external: one statement is one step, an insert may have      *)
(* taken effect although its answer was lost.  The breaker of the lookups  *)
(* is UpstreamCall's; here it is a door that is open or not.               *)
(***************************************************************************)
EXTENDS Naturals, FiniteSets

CONSTANTS Calls,          \* REST calls and scans
          Slugs,          \* what the generator draws from
          Ids,            \* Mongo ids, given out once each
          Targets,        \* target URLs
          Malformed,      \* an id that is no ObjectId
          InsertAttempts, \* INSERT_ATTEMPTS
          MaxFaults,      \* bound on statements that fail and on clients that leave
          Nobody          \* no record

VARIABLES records,  \* the stored documents by id, or Nobody
          used,     \* ids given out
          call,     \* each call
          breaker,  \* "closed" or "open"
          faults,
          inserted, \* documents a POST has stored
          seen      \* what a scan could have been told since it arrived

vars == <<records, used, call, breaker, faults, inserted, seen>>

Documents == [slug: Slugs, target: Targets, active: BOOLEAN]
Stored == {i \in Ids: records[i] # Nobody}

Idle == [stage |-> "idle", op |-> "none", id |-> Malformed, attempt |-> 0,
         read |-> Nobody, aborted |-> FALSE, answer |-> "none"]

Init ==
    /\ records = [i \in Ids |-> Nobody]
    /\ used = {}
    /\ call = [c \in Calls |-> Idle]
    /\ breaker = "closed"
    /\ faults = 0
    /\ inserted = [c \in Calls |-> 0]
    /\ seen = [c \in Calls |-> {}]

TypeOK ==
    /\ records \in [Ids -> Documents \cup {Nobody}]
    /\ Stored \subseteq used /\ used \subseteq Ids
    /\ \A c \in Calls: /\ call[c].stage \in {"idle", "inserting", "deleting", "rendering",
                                             "looking", "found", "done"}
                       /\ call[c].attempt \in 0 .. InsertAttempts
                       /\ inserted[c] \in 0 .. InsertAttempts
    /\ breaker \in {"closed", "open"}

-----------------------------------------------------------------------------
(* The repository.  An id that is no ObjectId is looked for nowhere.       *)
FindById(id) == IF id = Malformed THEN Nobody ELSE records[id]
FindBySlug(slug) == {records[i]: i \in {j \in Stored: records[j].slug = slug}}

(* What a scan of the slug would lead to now: RedirectHandler treats an    *)
(* inactive record as none.                                                *)
LeadsTo(documents) ==
    IF \E d \in documents: d.active THEN {d.target: d \in {e \in documents: e.active}} ELSE {Nobody}

Scanning(c) == call[c].op = "scan" /\ call[c].stage = "looking"

(* Every step that changes the collection is seen by the scans under way.  *)
Witnessed ==
    seen' = [c \in Calls |->
               IF Scanning(c)
                 THEN seen[c] \cup LeadsTo({records'[i]: i \in {j \in Ids: records'[j] # Nobody
                                                                        /\ records'[j].slug = call[c].id}})
                 ELSE seen[c]]

Answered(q, answer) == [q EXCEPT !.stage = "done", !.answer = answer]
AnotherSlug(q) == [q EXCEPT !.attempt = @ + 1]

-----------------------------------------------------------------------------
(* POST: QrCodeService.create draws a slug per attempt. *)
Post(c) ==
    /\ call[c].stage = "idle"
    /\ call' = [call EXCEPT ![c] = [@ EXCEPT !.stage = "inserting", !.op = "post"]]
    /\ UNCHANGED <<records, used, breaker, faults, inserted, seen>>

(* The unique index: a duplicate-key error whose key pattern is the slug.  *)
IsSlugCollision(slug) == \E i \in Stored: records[i].slug = slug

(* A collision is the only failure that is worth another slug; the last    *)
(* one is the caller's 409.                                                *)
Collides(c) ==
    /\ call[c].stage = "inserting"
    /\ \E slug \in Slugs: IsSlugCollision(slug)
    /\ call' = [call EXCEPT ![c] = IF @.attempt + 1 < InsertAttempts
                                     THEN AnotherSlug(@) ELSE Answered(@, "409")]
    /\ UNCHANGED <<records, used, breaker, faults, inserted, seen>>

(* The document is stored and read back as the response. *)
Insert(c, slug, id) ==
    /\ call[c].stage = "inserting"
    /\ ~IsSlugCollision(slug)
    /\ id \notin used
    /\ \E target \in Targets:
         records' = [records EXCEPT ![id] = [slug |-> slug, target |-> target, active |-> TRUE]]
    /\ used' = used \cup {id}
    /\ inserted' = [inserted EXCEPT ![c] = @ + 1]
    /\ Witnessed

Created(c) ==
    /\ \E slug \in Slugs, id \in Ids: Insert(c, slug, id)
    /\ call' = [call EXCEPT ![c] = Answered(@, "201")]
    /\ UNCHANGED <<breaker, faults>>

(* mutant: any failed insert is tried again with another slug *)
CreateFailsRetried(c) ==
    /\ faults < MaxFaults
    /\ faults' = faults + 1
    /\ \/ \E slug \in Slugs, id \in Ids: Insert(c, slug, id)
       \/ call[c].stage = "inserting" /\ UNCHANGED <<records, used, inserted, seen>>
    /\ call' = [call EXCEPT ![c] = IF @.attempt + 1 < InsertAttempts
                                     THEN AnotherSlug(@) ELSE Answered(@, "409")]
    /\ UNCHANGED breaker

(* Any other failure of the statement is the caller's, whether or not the  *)
(* document was stored before the answer was lost.                         *)
CreateFails(c) ==
    /\ faults < MaxFaults
    /\ faults' = faults + 1
    /\ \/ \E slug \in Slugs, id \in Ids: Insert(c, slug, id)
       \/ call[c].stage = "inserting" /\ UNCHANGED <<records, used, inserted, seen>>
    /\ call' = [call EXCEPT ![c] = Answered(@, "500")]
    /\ UNCHANGED breaker

(* PUT: one $set of the fields given, on a document that may be gone; the  *)
(* slug is none of them.                                                   *)
BuildMongoUpdate(document) ==
    {[slug |-> document.slug, target |-> t, active |-> a]: t \in Targets, a \in BOOLEAN}

Put(c, id) ==
    /\ call[c].stage = "idle"
    /\ IF FindById(id) = Nobody
         THEN /\ call' = [call EXCEPT ![c] = Answered([@ EXCEPT !.op = "put"], "404")]
              /\ UNCHANGED <<records, seen>>
         ELSE /\ \E d \in BuildMongoUpdate(FindById(id)): records' = [records EXCEPT ![id] = d]
              /\ call' = [call EXCEPT ![c] = Answered([@ EXCEPT !.op = "put"], "200")]
              /\ Witnessed
    /\ UNCHANGED <<used, breaker, faults, inserted>>

(* DELETE: found first, deleted afterwards.  The slug becomes free.        *)
DeleteBegin(c, id) ==
    /\ call[c].stage = "idle"
    /\ call' = [call EXCEPT ![c] =
                   IF FindById(id) = Nobody THEN Answered([@ EXCEPT !.op = "delete"], "404")
                   ELSE [@ EXCEPT !.op = "delete", !.stage = "deleting", !.id = id]]
    /\ UNCHANGED <<records, used, breaker, faults, inserted, seen>>

Delete(c) ==
    /\ call[c].stage = "deleting"
    /\ records' = [records EXCEPT ![call[c].id] = Nobody]
    /\ call' = [call EXCEPT ![c] = Answered(@, "204")]
    /\ Witnessed
    /\ UNCHANGED <<used, breaker, faults, inserted>>

(* GET of one: what is read is answered. *)
Get(c, id) ==
    /\ call[c].stage = "idle"
    /\ call' = [call EXCEPT ![c] = Answered([@ EXCEPT !.op = "get", !.read = FindById(id)],
                                            IF FindById(id) = Nobody THEN "404" ELSE "200")]
    /\ UNCHANGED <<records, used, breaker, faults, inserted, seen>>

(* GET of all: what matches the filter now. *)
Matching(active) == {records[i]: i \in {j \in Stored: active = "any" \/ records[j].active = (active = "true")}}

List(c, active) ==
    /\ call[c].stage = "idle"
    /\ call' = [call EXCEPT ![c] = Answered([@ EXCEPT !.op = "list", !.read = Matching(active)], "200")]
    /\ UNCHANGED <<records, used, breaker, faults, inserted, seen>>

(* The image of a record is rendered from what was read of it. *)
ImageBegin(c, id) ==
    /\ call[c].stage = "idle"
    /\ call' = [call EXCEPT ![c] =
                   IF FindById(id) = Nobody THEN Answered([@ EXCEPT !.op = "image"], "404")
                   ELSE [@ EXCEPT !.op = "image", !.stage = "rendering", !.id = id, !.read = FindById(id)]]
    /\ UNCHANGED <<records, used, breaker, faults, inserted, seen>>

(* render: the slug under redirect.baseURL, the same text as the qrURL of  *)
(* the response.                                                           *)
Render(c) ==
    /\ call[c].stage = "rendering"
    /\ call' = [call EXCEPT ![c] = Answered(@, "200")]
    /\ UNCHANGED <<records, used, breaker, faults, inserted, seen>>

-----------------------------------------------------------------------------
(* Scans: GET /r/:slug. *)
Scan(c, slug) ==
    /\ call[c].stage = "idle"
    /\ call' = [call EXCEPT ![c] = [@ EXCEPT !.op = "scan", !.stage = "looking", !.id = slug]]
    /\ seen' = [seen EXCEPT ![c] = LeadsTo(FindBySlug(slug))]
    /\ UNCHANGED <<records, used, breaker, faults, inserted>>

(* The client's connection closes: its signal is aborted, once. *)
Disconnect(c) ==
    /\ Scanning(c) /\ ~call[c].aborted /\ faults < MaxFaults
    /\ faults' = faults + 1
    /\ call' = [call EXCEPT ![c].aborted = TRUE]
    /\ UNCHANGED <<records, used, breaker, inserted, seen>>

(* The lookup under its policy: refused by the open circuit, cut off by    *)
(* its budget or by the client, failed or answered by the collection.      *)
Lookups(c) ==
    (IF breaker = "open" THEN {"broken"} ELSE IF faults < MaxFaults THEN {"read", "failed"} ELSE {"read"})
        \cup (IF call[c].aborted THEN {"cancelled"} ELSE {})
        \cup (IF faults < MaxFaults THEN {"timedOut"} ELSE {})

(* mutant: whose cancellation it was is not asked *)
TranslatedAlike(c, outcome) ==
    CASE outcome = "broken" -> "503"
      [] outcome = "failed" -> "500"
      [] outcome \in {"timedOut", "cancelled"} -> "504"

(* RedirectHandler.lookup: an open circuit is 503, a budget used up 504,   *)
(* a cancellation by the caller and any other error pass through.          *)
Translated(c, outcome) ==
    CASE outcome = "broken" -> "503"
      [] outcome = "failed" -> "500"
      [] outcome \in {"timedOut", "cancelled"} -> IF call[c].aborted THEN "cancelled" ELSE "504"

(* execute(): a record that is missing or inactive is not found. *)
Redirect(c) ==
    /\ Scanning(c)
    /\ \E outcome \in Lookups(c):
         /\ call' = [call EXCEPT ![c] =
                        IF outcome # "read" THEN Answered(@, Translated(c, outcome))
                        ELSE LET to == CHOOSE t \in LeadsTo(FindBySlug(@.id)): TRUE
                             IN Answered([@ EXCEPT !.read = to], IF to = Nobody THEN "404" ELSE "302")]
         /\ faults' = IF outcome \in {"timedOut", "failed"} THEN faults + 1 ELSE faults
         /\ breaker' \in IF outcome \in {"timedOut", "failed"} THEN {"closed", "open"} ELSE {breaker}
    /\ UNCHANGED <<records, used, inserted, seen>>

(* External: the breaker half-opens and closes again. *)
HalfOpens ==
    /\ breaker = "open"
    /\ breaker' = "closed"
    /\ UNCHANGED <<records, used, call, faults, inserted, seen>>

Next ==
    \/ \E c \in Calls: Post(c)
    \/ \E c \in Calls: Collides(c)
    \/ \E c \in Calls: Created(c)
    \/ \E c \in Calls: CreateFails(c)
    \/ \E c \in Calls, id \in Ids \cup {Malformed}: Put(c, id)
    \/ \E c \in Calls, id \in Ids \cup {Malformed}: DeleteBegin(c, id)
    \/ \E c \in Calls: Delete(c)
    \/ \E c \in Calls, id \in Ids \cup {Malformed}: Get(c, id)
    \/ \E c \in Calls, active \in {"any", "true", "false"}: List(c, active)
    \/ \E c \in Calls, id \in Ids \cup {Malformed}: ImageBegin(c, id)
    \/ \E c \in Calls: Render(c)
    \/ \E c \in Calls, slug \in Slugs: Scan(c, slug)
    \/ \E c \in Calls: Disconnect(c)
    \/ \E c \in Calls: Redirect(c)
    \/ HalfOpens

Spec == Init /\ [][Next]_vars

-----------------------------------------------------------------------------
(* One POST stores at most one record, none when it answers 409, and one   *)
(* when it answers 201, whatever collides or fails in between.             *)
OnePerPost ==
    \A c \in Calls:
        /\ inserted[c] <= 1
        /\ call[c].op = "post" /\ call[c].answer = "409" => inserted[c] = 0
        /\ call[c].op = "post" /\ call[c].answer = "201" => inserted[c] = 1

(* A label names one record: whoever prints it, no other record answers    *)
(* its slug while the record it was printed for exists with that slug.     *)
LabelsHold ==
    \A c \in Calls:
        call[c].op = "image" /\ call[c].read # Nobody /\ records[call[c].id] # Nobody =>
            /\ records[call[c].id].slug = call[c].read.slug
            /\ Cardinality(FindBySlug(call[c].read.slug)) = 1

(* A scan is answered with something that was true while it was under way, *)
(* and with a failure only when there was one: 504 tells a budget used up, *)
(* and a client that left is never counted as one.                         *)
ScansHonest ==
    \A c \in Calls:
        call[c].op = "scan" /\ call[c].stage = "done" =>
            /\ call[c].answer \in {"302", "404"} => call[c].read \in seen[c]
            /\ call[c].answer = "504" => ~call[c].aborted

(* What the collection and the scans promise each other through any        *)
(* interleaving of REST calls and scans (QrCodeService, RedirectHandler).  *)
QrCodesSound == OnePerPost /\ LabelsHold /\ ScansHonest
=============================================================================
