------------------------- MODULE SubscriptionsProofs -------------------------
(***************************************************************************)
(* The poller's cache and the stored documents, for any number of          *)
(* properties, callers and documents: types, NothingStaleRemembered,       *)
(* CacheInSync and NoOrphans.                                              *)
(***************************************************************************)
EXTENDS MCSubscriptions, TLAPS

\* A call that removes one document knows which.
DocKnown == \A r \in Callers : op[r].at \in {"delete", "remaining", "drop"} => op[r].doc \in Documents
TypeInv == TypeOK /\ DocKnown

\* Who will take k from the cache.
Responsible(o, k) ==
  \/ o.at = "remaining" /\ o.doc.property = k
  \/ o.at = "drop" /\ o.last /\ o.doc.property = k
  \/ o.at \in {"clearCache", "clearDeviceCache"}

\* What a call relies on at its next step.
Reliable(o) ==
  /\ o.at = "create" => \A k \in o.properties \ o.todo : Stored(k)
  /\ o.at = "drop" /\ o.last => ~Stored(o.doc.property)
  /\ o.at \in {"clearCache", "clearDeviceCache", "deleteDevice"} => docs = {}
  /\ o.at = "deleteDevice" => cache = {}

NoneCrossed == \A q, r \in Callers : q # r => ~Crossed(op[q], op[r])
\* What is stored is polled, or a POST is about to add it; what is polled is stored, or about to go.
StoredIsPolled == \A k \in Properties : Stored(k) => k \in cache \/ \E r \in Callers : At(r, "create") /\ k \in op[r].properties
PolledIsStored == \A k \in cache : Stored(k) \/ \E r \in Callers : Responsible(op[r], k)
Reliance == \A r \in Callers : Reliable(op[r])
\* A deleted device has nothing left, and nobody is about to add to it.
GoneIsEmpty ==
  ~registered => docs = {} /\ cache = {} /\ \A r \in Callers : op[r].at \notin {"existing", "create"}

SyncInv == ~torn => NoneCrossed /\ StoredIsPolled /\ PolledIsStored /\ Reliance /\ GoneIsEmpty
IInv == TypeInv /\ NothingStaleRemembered /\ SyncInv

-----------------------------------------------------------------------------
(* Types *)

\* A call that goes on to a record its handler keeps leaves everything typed.
LEMMA GoesOnTyped ==
  ASSUME TypeInv, NEW r \in Callers, NEW o \in Ops, op' = [op EXCEPT ![r] = o],
         o.todo \subseteq o.properties, o.at \in {"delete", "remaining", "drop"} => o.doc \in Documents,
         torn' \in BOOLEAN, faults' \in 0 .. MaxFaults, registered' \in BOOLEAN,
         docs' \in SUBSET Documents, used' \in SUBSET Ids, \A d \in docs' : d.id \in used',
         cache' \in SUBSET Properties, last' \in [Properties -> Values \cup {None}],
         UNCHANGED <<poll, actual, shown>>
  PROVE  TypeInv'
<1>1. op' \in [Callers -> Ops] /\ op'[r] = o /\ (\A q \in Callers \ {r} : op'[q] = op[q])
  BY DEF TypeInv, TypeOK
<1>2. TypeOK'
  BY <1>1 DEF TypeInv, TypeOK
<1>3. DocKnown'
  BY <1>1 DEF TypeInv, DocKnown
<1> QED
  BY <1>2, <1>3 DEF TypeInv

LEMMA HandlerTyped ==
  ASSUME TypeInv, NEW r \in Callers,
         PostBegin(r) \/ DeleteBegin(r) \/ ClearBegin(r) \/ RemoveBegin(r) \/ Handle(r) \/ PostFails(r)
  PROVE  TypeInv'
<1>1. op[r] \in Ops /\ op[r].properties \in SUBSET Properties /\ op[r].todo \in SUBSET Properties
      /\ op[r].todo \subseteq op[r].properties
  BY DEF TypeInv, TypeOK, Ops
<1>2. /\ torn \in BOOLEAN /\ faults \in 0 .. MaxFaults /\ registered \in BOOLEAN
      /\ docs \in SUBSET Documents /\ used \in SUBSET Ids /\ \A d \in docs : d.id \in used
      /\ cache \in SUBSET Properties /\ last \in [Properties -> Values \cup {None}]
  BY DEF TypeInv, TypeOK
<1>3. NoOp \in Ops /\ NoOp.todo = {} /\ NoOp.at = "idle"
  BY DEF NoOp, Ops, Steps
<1>4. CASE PostBegin(r)
  <2>1. PICK S \in (SUBSET Properties) \ {{}} : Become(r, Post("check", S, {}))
    BY <1>4 DEF PostBegin
  <2> DEFINE o == Post("check", S, {})
  <2>2. o \in Ops /\ o.todo \subseteq o.properties /\ (o.at \in {"delete", "remaining", "drop"} => o.doc \in Documents)
    BY <1>4, <2>1, <1>1, <1>3 DEF Post, NoOp, Ops, Steps
  <2>3. Become(r, o)
    BY <1>4, <2>1 DEF PostBegin
  <2> HIDE DEF o
  <2> QED
    BY <1>4, <2>1, <2>2, <2>3, <1>1, <1>2, GoesOnTyped DEF PostBegin, Become, storage, poller, device
<1>5. CASE DeleteBegin(r)
  <2>1. PICK d \in docs : Become(r, Del("delete", d, FALSE))
    BY <1>5 DEF DeleteBegin
  <2>2. d \in Documents
    BY <2>1, <1>2
  <2> DEFINE o == Del("delete", d, FALSE)
  <2>3. o \in Ops /\ o.todo \subseteq o.properties /\ (o.at \in {"delete", "remaining", "drop"} => o.doc \in Documents)
    BY <1>5, <2>1, <2>2, <1>1, <1>3 DEF Del, NoOp, Ops, Steps
  <2>4. Become(r, o)
    BY <1>5, <2>1, <2>2 DEF DeleteBegin
  <2> HIDE DEF o
  <2> QED
    BY <1>5, <2>1, <2>2, <2>3, <2>4, <1>1, <1>2, GoesOnTyped DEF DeleteBegin, Become, storage, poller, device
<1>6. CASE ClearBegin(r)
  <2> DEFINE o == [NoOp EXCEPT !.at = "clear"]
  <2>1. o \in Ops /\ o.todo \subseteq o.properties /\ (o.at \in {"delete", "remaining", "drop"} => o.doc \in Documents)
    BY <1>6, <1>1, <1>3 DEF NoOp, Ops, Steps
  <2>2. Become(r, o)
    BY <1>6 DEF ClearBegin
  <2> HIDE DEF o
  <2> QED
    BY <1>6, <2>1, <2>2, <1>1, <1>2, GoesOnTyped DEF ClearBegin, Become, storage, poller, device
<1>7. CASE RemoveBegin(r)
  <2> DEFINE o == [NoOp EXCEPT !.at = "clearDevice"]
  <2>1. o \in Ops /\ o.todo \subseteq o.properties /\ (o.at \in {"delete", "remaining", "drop"} => o.doc \in Documents)
    BY <1>7, <1>1, <1>3 DEF NoOp, Ops, Steps
  <2>2. Become(r, o)
    BY <1>7 DEF RemoveBegin
  <2> HIDE DEF o
  <2> QED
    BY <1>7, <2>1, <2>2, <1>1, <1>2, GoesOnTyped DEF RemoveBegin, Become, storage, poller, device
<1>8. CASE PostCheck(r)
  <2> DEFINE o == IF registered THEN Post("existing", op[r].properties, {}) ELSE NoOp
  <2>1. o \in Ops /\ o.todo \subseteq o.properties /\ (o.at \in {"delete", "remaining", "drop"} => o.doc \in Documents)
    BY <1>8, <1>1, <1>3 DEF Post, NoOp, Ops, Steps
  <2>2. Become(r, o)
    BY <1>8 DEF PostCheck
  <2> HIDE DEF o
  <2> QED
    BY <1>8, <2>1, <2>2, <1>1, <1>2, GoesOnTyped DEF PostCheck, Become, storage, poller, device
<1>9. CASE PostExisting(r)
  <2> DEFINE o == Post("create", op[r].properties, {k \in op[r].properties : ~Stored(k)})
  <2>1. o \in Ops /\ o.todo \subseteq o.properties /\ (o.at \in {"delete", "remaining", "drop"} => o.doc \in Documents)
    BY <1>9, <1>1, <1>3 DEF Post, NoOp, Ops, Steps
  <2>2. Become(r, o)
    BY <1>9 DEF PostExisting
  <2> HIDE DEF o
  <2> QED
    BY <1>9, <2>1, <2>2, <1>1, <1>2, GoesOnTyped DEF PostExisting, Become, storage, poller, device
<1>10. CASE PostCreate(r)
  <2>1. PICK k \in op[r].todo, i \in Ids \ used :
          /\ docs' = docs \cup {[id |-> i, property |-> k]}
          /\ used' = used \cup {i}
          /\ Become(r, Post("create", op[r].properties, op[r].todo \ {k}))
    BY <1>10 DEF PostCreate
  <2>2. [id |-> i, property |-> k] \in Documents
    BY <2>1, <1>1 DEF Documents
  <2> DEFINE o == Post("create", op[r].properties, op[r].todo \ {k})
  <2>3. o \in Ops /\ o.todo \subseteq o.properties /\ (o.at \in {"delete", "remaining", "drop"} => o.doc \in Documents)
    BY <1>10, <2>1, <2>2, <1>1, <1>3 DEF Post, NoOp, Ops, Steps
  <2>4. Become(r, o)
    BY <1>10, <2>1, <2>2 DEF PostCreate
  <2> HIDE DEF o
  <2>5. /\ docs' \in SUBSET Documents /\ used' \in SUBSET Ids /\ \A d \in docs' : d.id \in used'
        /\ UNCHANGED <<registered, poller, device, faults>>
    BY <1>10, <2>1, <2>2, <1>2 DEF PostCreate
  <2>6. op' = [op EXCEPT ![r] = o] /\ torn' \in BOOLEAN
    BY <2>4 DEF Become
  <2> QED
    BY <2>3, <2>5, <2>6, <1>2, GoesOnTyped DEF poller, device
<1>11. CASE PostFails(r)
  <2>1. faults' \in 0 .. MaxFaults
    BY <1>11, <1>2, SubscriptionsAssumption DEF PostFails, Fault
  <2>2. op' = [op EXCEPT ![r] = NoOp] /\ torn' \in BOOLEAN /\ UNCHANGED <<storage, poller, device>>
    BY <1>11 DEF PostFails
  <2> QED
    BY <2>1, <2>2, <1>2, <1>3, GoesOnTyped DEF storage, poller, device
<1>12. CASE PostAdd(r)
  <2> QED
    BY <1>12, <1>1, <1>2, <1>3, GoesOnTyped DEF PostAdd, Become, storage, device
<1>13. CASE DeleteDoc(r)
  <2>1. op[r].doc \in Documents
    BY <1>13 DEF DeleteDoc, TypeInv, DocKnown, At
  <2> DEFINE o == Del("remaining", op[r].doc, FALSE)
  <2>2. o \in Ops /\ o.todo \subseteq o.properties /\ (o.at \in {"delete", "remaining", "drop"} => o.doc \in Documents)
    BY <1>13, <2>1, <1>1, <1>3 DEF Del, NoOp, Ops, Steps
  <2>3. Become(r, o)
    BY <1>13, <2>1 DEF DeleteDoc
  <2> HIDE DEF o
  <2> QED
    BY <1>13, <2>1, <2>2, <2>3, <1>1, <1>2, GoesOnTyped DEF DeleteDoc, Become, poller, device
<1>14. CASE DeleteRemaining(r)
  <2>1. op[r].doc \in Documents
    BY <1>14 DEF DeleteRemaining, TypeInv, DocKnown, At
  <2> DEFINE o == Del("drop", op[r].doc, ~Stored(op[r].doc.property))
  <2>2. o \in Ops /\ o.todo \subseteq o.properties /\ (o.at \in {"delete", "remaining", "drop"} => o.doc \in Documents)
    BY <1>14, <2>1, <1>1, <1>3 DEF Del, NoOp, Stored, Ops, Steps
  <2>3. Become(r, o)
    BY <1>14, <2>1 DEF DeleteRemaining
  <2> HIDE DEF o
  <2> QED
    BY <1>14, <2>1, <2>2, <2>3, <1>1, <1>2, GoesOnTyped DEF DeleteRemaining, Become, storage, poller, device
<1>15. CASE DeleteDrop(r)
  <2>1. op[r].doc \in Documents
    BY <1>15 DEF DeleteDrop, TypeInv, DocKnown, At
  <2> QED
    BY <1>15, <2>1, <1>1, <1>2, <1>3, GoesOnTyped DEF DeleteDrop, Become, storage, device, Documents
<1>16. CASE ClearDocs(r)
  <2> DEFINE o == [NoOp EXCEPT !.at = IF At(r, "clear") THEN "clearCache" ELSE "clearDeviceCache"]
  <2>1. o \in Ops /\ o.todo \subseteq o.properties /\ (o.at \in {"delete", "remaining", "drop"} => o.doc \in Documents)
    BY <1>16, <1>1, <1>3 DEF NoOp, Ops, Steps
  <2>2. Become(r, o)
    BY <1>16 DEF ClearDocs
  <2> HIDE DEF o
  <2> QED
    BY <1>16, <2>1, <2>2, <1>1, <1>2, GoesOnTyped DEF ClearDocs, Become, poller, device
<1>17. CASE ClearCache(r)
  <2> DEFINE o == IF At(r, "clearCache") THEN NoOp ELSE [NoOp EXCEPT !.at = "deleteDevice"]
  <2>1. o \in Ops /\ o.todo \subseteq o.properties /\ (o.at \in {"delete", "remaining", "drop"} => o.doc \in Documents)
    BY <1>17, <1>1, <1>3 DEF NoOp, Ops, Steps
  <2>2. Become(r, o)
    BY <1>17 DEF ClearCache
  <2> HIDE DEF o
  <2> QED
    BY <1>17, <2>1, <2>2, <1>1, <1>2, GoesOnTyped DEF ClearCache, Become, storage, device, Unknown
<1>18. CASE RemoveDevice(r)
  <2> QED
    BY <1>18, <1>1, <1>2, <1>3, GoesOnTyped DEF RemoveDevice, Become, poller, device
<1> QED
  BY <1>4, <1>5, <1>6, <1>7, <1>8, <1>9, <1>10, <1>11, <1>12, <1>13, <1>14, <1>15, <1>16, <1>17, <1>18 DEF Handle

\* The poll, the device itself, a direct command and a restart.
LEMMA PollTyped ==
  ASSUME TypeInv, Polling \/ PollRefused \/ PollFails \/ Change \/ Command \/ Restart
  PROVE  TypeInv'
<1> DEFINE Read == [at : {"idle", "reading"}, keys : SUBSET Properties, got : [Properties -> Values \cup {None}]]
<1>0. /\ poll \in Read /\ poll.keys \in SUBSET Properties /\ actual \in [Properties -> Values]
      /\ shown \in [Properties -> Values \cup {None}] /\ last \in [Properties -> Values \cup {None}]
      /\ poll.got \in [Properties -> Values \cup {None}] /\ cache \in SUBSET Properties
  BY DEF TypeInv, TypeOK
<1>1. NoPoll \in Read /\ Unknown \in [Properties -> Values \cup {None}]
  BY DEF NoPoll, Unknown
<1>2. CASE PollBegin
  <2>1. [NoPoll EXCEPT !.at = "reading", !.keys = cache] \in Read
    BY <1>0 DEF NoPoll
  <2> QED
    BY <1>2, <2>1 DEF PollBegin, TypeInv, TypeOK, DocKnown, storage, device, calls
<1>3. CASE PollRead
  <2>1. PICK k \in poll.keys : poll' = [poll EXCEPT !.keys = @ \ {k}, !.got[k] = actual[k]]
    BY <1>3 DEF PollRead
  <2>2. poll' \in Read
    BY <2>1, <1>0
  <2> QED
    BY <1>3, <2>2 DEF PollRead, TypeInv, TypeOK, DocKnown, storage, device, calls
<1>4. CASE PollRefused
  <2>1. PICK k \in poll.keys : poll' = [poll EXCEPT !.keys = @ \ {k}]
    BY <1>4 DEF PollRefused
  <2>2. poll' \in Read
    BY <2>1, <1>0
  <2>3. faults' \in 0 .. MaxFaults
    BY <1>4, SubscriptionsAssumption DEF PollRefused, Fault, TypeInv, TypeOK
  <2> QED
    BY <1>4, <2>2, <2>3 DEF PollRefused, TypeInv, TypeOK, DocKnown, storage, device, calls
<1>5. CASE PollEnd
  <2>1. last' \in [Properties -> Values \cup {None}] /\ shown' \in [Properties -> Values \cup {None}]
    BY <1>5, <1>0 DEF PollEnd, Remember
  <2> QED
    BY <1>5, <1>1, <2>1 DEF PollEnd, TypeInv, TypeOK, DocKnown, storage, calls
<1>6. CASE PollFails
  <2>1. faults' \in 0 .. MaxFaults
    BY <1>6, SubscriptionsAssumption DEF PollFails, Fault, TypeInv, TypeOK
  <2> QED
    BY <1>6, <1>1, <2>1 DEF PollFails, TypeInv, TypeOK, DocKnown, storage, device, calls
<1>7. CASE Change
  <2>1. actual' \in [Properties -> Values]
    BY <1>7, <1>0 DEF Change
  <2> QED
    BY <1>7, <2>1 DEF Change, TypeInv, TypeOK, DocKnown, storage, poller, calls
<1>8. CASE Command
  <2>1. actual' \in [Properties -> Values] /\ shown' \in [Properties -> Values \cup {None}]
    BY <1>8, <1>0 DEF Command
  <2> QED
    BY <1>8, <2>1 DEF Command, TypeInv, TypeOK, DocKnown, storage, poller, calls
<1>9. CASE Restart
  <2>1. op' \in [Callers -> Ops] /\ \A r \in Callers : op'[r].todo = {} /\ op'[r].at = "idle" /\ op'[r].properties = {}
    BY <1>9 DEF Restart, NoOp, Ops, Steps
  <2>2. faults' \in 0 .. MaxFaults
    BY <1>9, SubscriptionsAssumption DEF Restart, Fault, TypeInv, TypeOK
  <2>3. cache' \in SUBSET Properties
    BY <1>9 DEF Restart
  <2> QED
    BY <1>9, <1>1, <2>1, <2>2, <2>3 DEF Restart, TypeInv, TypeOK, DocKnown, storage, device
<1> QED
  BY <1>2, <1>3, <1>4, <1>5, <1>6, <1>7, <1>8, <1>9 DEF Polling

LEMMA TypeStep == ASSUME TypeInv, [Next]_vars PROVE TypeInv'
<1>1. CASE UNCHANGED vars
  BY <1>1 DEF vars, storage, poller, device, calls, TypeInv, TypeOK, DocKnown
<1>2. CASE Next
  BY <1>2, HandlerTyped, PollTyped DEF Next
<1> QED
  BY <1>1, <1>2

-----------------------------------------------------------------------------
(* What is remembered *)

\* Only a poll that ends remembers, what is subscribed then; who unsubscribes forgets.
LEMMA StaleStep == ASSUME TypeInv, NothingStaleRemembered, [Next]_vars PROVE NothingStaleRemembered'
<1> DEFINE Kept == UNCHANGED last /\ cache \subseteq cache'
<1>1. CASE Kept
  BY <1>1 DEF NothingStaleRemembered
<1>2. CASE PollEnd
  <2>1. cache' = cache /\ \A k \in Properties : last'[k] # last[k] => k \in cache
    BY <1>2 DEF PollEnd, Remember, Taken
  <2> QED
    BY <2>1 DEF NothingStaleRemembered
<1>3. ASSUME NEW r \in Callers, DeleteDrop(r) PROVE NothingStaleRemembered'
  <2>1. op[r].doc.property \in Properties
    BY <1>3 DEF DeleteDrop, At, TypeInv, DocKnown, Documents
  <2>2. CASE op[r].last
    <3>1. /\ cache' = cache \ {op[r].doc.property} /\ last' = [last EXCEPT ![op[r].doc.property] = None]
          /\ last \in [Properties -> Values \cup {None}]
      BY <1>3, <2>2 DEF DeleteDrop, TypeInv, TypeOK
    <3> QED
      BY <3>1, <2>1 DEF NothingStaleRemembered
  <2>3. CASE ~op[r].last
    BY <1>3, <2>3 DEF DeleteDrop, NothingStaleRemembered
  <2> QED
    BY <2>2, <2>3
<1>4. ASSUME NEW r \in Callers, ClearCache(r) PROVE NothingStaleRemembered'
  BY <1>4 DEF ClearCache, Unknown, NothingStaleRemembered
<1>5. CASE Restart
  BY <1>5 DEF Restart, Unknown, NothingStaleRemembered
<1>6. ASSUME NEW r \in Callers, PostAdd(r) PROVE Kept
  BY <1>6 DEF PostAdd
<1>7. ASSUME NEW r \in Callers,
             \/ PostBegin(r) \/ DeleteBegin(r) \/ ClearBegin(r) \/ RemoveBegin(r) \/ PostFails(r)
             \/ PostCheck(r) \/ PostExisting(r) \/ PostCreate(r) \/ DeleteDoc(r) \/ DeleteRemaining(r)
             \/ ClearDocs(r) \/ RemoveDevice(r)
      PROVE  Kept
  BY <1>7 DEF PostBegin, DeleteBegin, ClearBegin, RemoveBegin, PostFails, PostCheck, PostExisting, PostCreate,
              DeleteDoc, DeleteRemaining, ClearDocs, RemoveDevice, poller
<1>8. CASE PollBegin \/ PollRead \/ PollRefused \/ PollFails \/ Change \/ Command \/ UNCHANGED vars
  <2>1. Kept
    BY <1>8 DEF PollBegin, PollRead, PollRefused, PollFails, Change, Command, poller, vars
  <2> QED
    BY <2>1, <1>1
<1> QED
  BY <1>1, <1>2, <1>3, <1>4, <1>5, <1>6, <1>7, <1>8 DEF Next, Handle, Polling

-----------------------------------------------------------------------------
(* What is stored and what is polled *)

SyncParts == NoneCrossed /\ StoredIsPolled /\ PolledIsStored /\ Reliance /\ GoneIsEmpty

\* Until something is torn, a call that goes on crosses no other.
LEMMA Uncrossed ==
  ASSUME TypeInv, SyncParts, NEW r \in Callers, NEW o, Become(r, o), ~torn'
  PROVE  /\ NoneCrossed' /\ \A q \in Callers \ {r} : ~Crossed(o, op[q]) /\ ~Crossed(op[r], op[q])
         /\ op'[r] = o /\ \A q \in Callers \ {r} : op'[q] = op[q]
<1>1. op'[r] = o /\ \A q \in Callers \ {r} : op'[q] = op[q]
  BY DEF Become, TypeInv, TypeOK
<1>2. \A q \in Callers \ {r} : ~Crossed(o, op[q]) /\ ~Crossed(op[r], op[q]) /\ ~Crossed(op[q], o)
  BY DEF Become, SyncParts, NoneCrossed, Crossed
<1> QED
  BY <1>1, <1>2 DEF SyncParts, NoneCrossed

\* A step that stores, polls and deletes nothing.
LEMMA OnlyGoesOn ==
  ASSUME TypeInv, SyncParts, NEW r \in Callers, NEW o, Become(r, o), ~torn', UNCHANGED <<docs, cache, registered>>,
         op[r].at # "create", Reliable(o),
         \A k \in cache : Responsible(op[r], k) => Stored(k) \/ Responsible(o, k),
         ~registered => o.at \notin {"existing", "create"}
  PROVE  SyncParts'
<1>1. NoneCrossed' /\ op'[r] = o /\ \A q \in Callers \ {r} : op'[q] = op[q]
  BY Uncrossed
<1>2. \A k : Stored(k)' <=> Stored(k)
  BY DEF Stored
<1>3. StoredIsPolled'
  BY <1>1, <1>2 DEF SyncParts, StoredIsPolled, At
<1>4. PolledIsStored'
  BY <1>1, <1>2 DEF SyncParts, PolledIsStored
<1>5. Reliance'
  BY <1>1, <1>2 DEF SyncParts, Reliance, Reliable
<1>6. GoneIsEmpty'
  BY <1>1 DEF SyncParts, GoneIsEmpty
<1> QED
  BY <1>1, <1>3, <1>4, <1>5, <1>6 DEF SyncParts

\* The handlers' steps before and after what they store or remove.
LEMMA BeginSync ==
  ASSUME TypeInv, SyncParts, NEW r \in Callers, ~torn',
         PostBegin(r) \/ DeleteBegin(r) \/ ClearBegin(r) \/ RemoveBegin(r) \/ PostCheck(r) \/ PostExisting(r) \/ DeleteRemaining(r)
  PROVE  SyncParts'
<1>1. UNCHANGED <<docs, cache, registered>>
  BY DEF PostBegin, DeleteBegin, ClearBegin, RemoveBegin, PostCheck, PostExisting, DeleteRemaining, storage, poller
<1>2. CASE PostBegin(r)
  <2>1. PICK S \in (SUBSET Properties) \ {{}} : Become(r, Post("check", S, {}))
    BY <1>2 DEF PostBegin
  <2> DEFINE o == Post("check", S, {})
  <2>2. o.at = "check" /\ op[r].at = "idle"
    BY <1>2 DEF PostBegin, At, Post, NoOp
  <2>3. Become(r, o)
    BY <2>1
  <2> HIDE DEF o
  <2> QED
    BY <1>1, <2>2, <2>3, OnlyGoesOn DEF Responsible, Reliable
<1>3. CASE DeleteBegin(r)
  <2>1. PICK d \in docs : Become(r, Del("delete", d, FALSE))
    BY <1>3 DEF DeleteBegin
  <2> DEFINE o == Del("delete", d, FALSE)
  <2>2. o.at = "delete" /\ op[r].at = "idle"
    BY <1>3 DEF DeleteBegin, At, Del, NoOp
  <2>3. Become(r, o)
    BY <2>1
  <2> HIDE DEF o
  <2> QED
    BY <1>1, <2>2, <2>3, OnlyGoesOn DEF Responsible, Reliable
<1>4. CASE ClearBegin(r) \/ RemoveBegin(r)
  <2>1. PICK step \in {"clear", "clearDevice"} : Become(r, [NoOp EXCEPT !.at = step])
    BY <1>4 DEF ClearBegin, RemoveBegin
  <2> DEFINE o == [NoOp EXCEPT !.at = step]
  <2>2. o.at = step /\ op[r].at = "idle"
    BY <1>4 DEF ClearBegin, RemoveBegin, At, NoOp
  <2>3. Become(r, o)
    BY <2>1
  <2> HIDE DEF o
  <2> QED
    BY <1>1, <2>1, <2>2, <2>3, OnlyGoesOn DEF Responsible, Reliable
<1>5. CASE PostCheck(r)
  <2> DEFINE o == IF registered THEN Post("existing", op[r].properties, {}) ELSE NoOp
  <2>1. o.at = (IF registered THEN "existing" ELSE "idle") /\ op[r].at = "check"
    BY <1>5 DEF PostCheck, At, Post, NoOp
  <2>2. Become(r, o)
    BY <1>5 DEF PostCheck
  <2> HIDE DEF o
  <2> QED
    BY <1>1, <2>1, <2>2, OnlyGoesOn DEF Responsible, Reliable
<1>6. CASE PostExisting(r)
  <2> DEFINE o == Post("create", op[r].properties, {k \in op[r].properties : ~Stored(k)})
  <2>1. o.at = "create" /\ op[r].at = "existing" /\ \A k \in o.properties \ o.todo : Stored(k)
    BY <1>6 DEF PostExisting, At, Post, NoOp
  <2>2. Become(r, o)
    BY <1>6 DEF PostExisting
  <2>3. registered
    BY <2>1 DEF SyncParts, GoneIsEmpty
  <2> HIDE DEF o
  <2> QED
    BY <1>1, <2>1, <2>2, <2>3, OnlyGoesOn DEF Responsible, Reliable
<1>7. CASE DeleteRemaining(r)
  <2> DEFINE o == Del("drop", op[r].doc, ~Stored(op[r].doc.property))
  <2>1. o.at = "drop" /\ op[r].at = "remaining" /\ o.doc = op[r].doc /\ (o.last <=> ~Stored(op[r].doc.property))
    BY <1>7 DEF DeleteRemaining, At, Del, NoOp
  <2>2. Become(r, o)
    BY <1>7 DEF DeleteRemaining
  <2> HIDE DEF o
  <2> QED
    BY <1>1, <2>1, <2>2, OnlyGoesOn DEF Responsible, Reliable
<1> QED
  BY <1>2, <1>3, <1>4, <1>5, <1>6, <1>7

\* While a POST stores or adds, nobody removes.
LEMMA PostSync ==
  ASSUME TypeInv, SyncParts, NEW r \in Callers, ~torn', PostCreate(r) \/ PostAdd(r)
  PROVE  SyncParts'
<1>1. op[r].at = "create" /\ registered /\ registered' = registered /\ op[r].todo \subseteq op[r].properties
  BY DEF PostCreate, PostAdd, At, SyncParts, GoneIsEmpty, storage, TypeInv, TypeOK
<1>2. \E o : Become(r, o)
  BY DEF PostCreate, PostAdd
<1>3. \A q \in Callers \ {r} : op[q].at \in {"idle", "check", "existing", "create"}
  BY <1>1, <1>2, Uncrossed DEF Crossed, Posting, Deleting
<1>4. GoneIsEmpty'
  BY <1>1 DEF GoneIsEmpty
<1>5. CASE PostCreate(r)
  <2>1. PICK k \in op[r].todo, i \in Ids \ used :
          /\ docs' = docs \cup {[id |-> i, property |-> k]}
          /\ Become(r, Post("create", op[r].properties, op[r].todo \ {k}))
    BY <1>5 DEF PostCreate
  <2> DEFINE o == Post("create", op[r].properties, op[r].todo \ {k})
  <2>2. o.at = "create" /\ o.properties = op[r].properties /\ o.todo = op[r].todo \ {k}
    BY DEF Post, NoOp
  <2>3. \A p : Stored(p)' <=> Stored(p) \/ p = k
    <3> DEFINE e == [id |-> i, property |-> k]
    <3>1. docs' = docs \cup {e} /\ e.property = k
      BY <2>1
    <3> HIDE DEF e
    <3> QED
      BY <3>1 DEF Stored
  <2>4. Become(r, o)
    BY <2>1
  <2> HIDE DEF o
  <2>5. NoneCrossed' /\ op'[r] = o /\ \A q \in Callers \ {r} : op'[q] = op[q]
    BY <2>4, Uncrossed
  <2>6. cache' = cache
    BY <1>5 DEF PostCreate, poller
  <2>7. StoredIsPolled'
    BY <1>1, <2>1, <2>2, <2>3, <2>5, <2>6 DEF SyncParts, StoredIsPolled, At
  <2>8. PolledIsStored'
    BY <1>1, <1>3, <2>3, <2>6 DEF SyncParts, PolledIsStored, Responsible
  <2>9. Reliance'
    <3>1. Reliable(op[r])'
      BY <1>1, <2>2, <2>3, <2>5 DEF SyncParts, Reliance, Reliable
    <3>2. ASSUME NEW q \in Callers \ {r} PROVE Reliable(op[q])'
      BY <1>3, <2>3, <2>5 DEF SyncParts, Reliance, Reliable
    <3> QED
      BY <2>5, <3>1, <3>2 DEF Reliance
  <2> QED
    BY <1>4, <2>5, <2>7, <2>8, <2>9 DEF SyncParts
<1>6. CASE PostAdd(r)
  <2>1. Become(r, NoOp) /\ cache' = cache \cup op[r].properties /\ docs' = docs /\ op[r].todo = {}
    BY <1>6 DEF PostAdd, storage
  <2>2. NoOp.at = "idle"
    BY DEF NoOp
  <2>3. NoneCrossed' /\ op'[r] = NoOp /\ \A q \in Callers \ {r} : op'[q] = op[q]
    BY <2>1, Uncrossed
  <2>4. \A p : Stored(p)' <=> Stored(p)
    BY <2>1 DEF Stored
  <2>5. StoredIsPolled'
    BY <2>1, <2>3, <2>4 DEF SyncParts, StoredIsPolled, At
  <2>6. \A k \in op[r].properties : Stored(k)
    BY <1>1, <2>1 DEF SyncParts, Reliance, Reliable
  <2>7. PolledIsStored'
    BY <1>1, <1>3, <2>1, <2>4, <2>6 DEF SyncParts, PolledIsStored, Responsible
  <2>8. Reliance'
    <3>1. ASSUME NEW q \in Callers \ {r} PROVE Reliable(op[q])'
      BY <1>3, <2>3, <2>4 DEF SyncParts, Reliance, Reliable
    <3>2. Reliable(op[r])'
      BY <2>2, <2>3 DEF Reliable
    <3> QED
      BY <3>1, <3>2 DEF Reliance
  <2> QED
    BY <1>4, <2>3, <2>5, <2>7, <2>8 DEF SyncParts
<1> QED
  BY <1>5, <1>6

\* While a DELETE removes, nobody stores or adds.
LEMMA DeleteSync ==
  ASSUME TypeInv, SyncParts, NEW r \in Callers, ~torn',
         DeleteDoc(r) \/ DeleteDrop(r) \/ ClearDocs(r) \/ ClearCache(r) \/ RemoveDevice(r)
  PROVE  SyncParts'
<1>1. Deleting(op[r]) /\ \E o : Become(r, o)
  BY DEF DeleteDoc, DeleteDrop, ClearDocs, ClearCache, RemoveDevice, Deleting, Posting, At
<1>2. \A q \in Callers : op[q].at \notin {"check", "existing", "create"}
  BY <1>1, Uncrossed DEF Crossed, Posting, Deleting
<1>3. NoneCrossed'
  BY <1>1, Uncrossed
<1>4. CASE DeleteDoc(r)
  <2> DEFINE o == Del("remaining", op[r].doc, FALSE)
  <2>1. o.at = "remaining" /\ o.doc = op[r].doc
    BY DEF Del, NoOp
  <2>2. Become(r, o) /\ docs' = docs \ {op[r].doc} /\ UNCHANGED <<cache, registered>>
    BY <1>4 DEF DeleteDoc, poller
  <2> HIDE DEF o
  <2>3. op'[r] = o /\ \A q \in Callers \ {r} : op'[q] = op[q]
    BY <2>2, Uncrossed
  <2>4. \A p : Stored(p)' => Stored(p)
    BY <2>2 DEF Stored
  <2>5. \A p : Stored(p) /\ ~Stored(p)' => op[r].doc.property = p
    BY <2>2 DEF Stored
  <2>6. StoredIsPolled'
    BY <1>2, <2>2, <2>4 DEF SyncParts, StoredIsPolled, At
  <2>7. PolledIsStored'
    BY <1>4, <2>1, <2>2, <2>3, <2>5 DEF DeleteDoc, At, SyncParts, PolledIsStored, Responsible
  <2>8. Reliance'
    <3>1. Reliable(op[r])'
      BY <2>1, <2>3 DEF Reliable
    <3>2. ASSUME NEW q \in Callers \ {r} PROVE Reliable(op[q])'
      BY <1>2, <2>2, <2>3, <2>4 DEF SyncParts, Reliance, Reliable
    <3> QED
      BY <3>1, <3>2 DEF Reliance
  <2>9. GoneIsEmpty'
    BY <1>2, <2>1, <2>2, <2>3 DEF SyncParts, GoneIsEmpty
  <2> QED
    BY <1>3, <2>6, <2>7, <2>8, <2>9 DEF SyncParts
<1>5. CASE DeleteDrop(r)
  <2> DEFINE gone == IF op[r].last THEN {op[r].doc.property} ELSE {}
  <2>1. Become(r, NoOp) /\ cache' = cache \ gone /\ UNCHANGED <<docs, registered>>
    BY <1>5 DEF DeleteDrop, storage
  <2>2. NoOp.at = "idle"
    BY DEF NoOp
  <2>3. op'[r] = NoOp /\ \A q \in Callers \ {r} : op'[q] = op[q]
    BY <2>1, Uncrossed
  <2>4. \A p : Stored(p)' <=> Stored(p)
    BY <2>1 DEF Stored
  <2>5. \A p \in gone : ~Stored(p)
    BY <1>5 DEF DeleteDrop, At, SyncParts, Reliance, Reliable
  <2>6. \A p \in cache : Responsible(op[r], p) => p \in gone
    BY <1>5 DEF DeleteDrop, At, Responsible
  <2> HIDE DEF gone
  <2>7. StoredIsPolled'
    BY <1>2, <2>1, <2>4, <2>5 DEF SyncParts, StoredIsPolled, At
  <2>8. PolledIsStored'
    BY <2>1, <2>3, <2>4, <2>6 DEF SyncParts, PolledIsStored
  <2>9. Reliance'
    <3>1. Reliable(op[r])'
      BY <2>2, <2>3 DEF Reliable
    <3>2. ASSUME NEW q \in Callers \ {r} PROVE Reliable(op[q])'
      BY <1>2, <2>1, <2>3, <2>4 DEF SyncParts, Reliance, Reliable
    <3> QED
      BY <3>1, <3>2 DEF Reliance
  <2>10. GoneIsEmpty'
    BY <1>2, <2>1, <2>2, <2>3 DEF SyncParts, GoneIsEmpty
  <2> QED
    BY <1>3, <2>7, <2>8, <2>9, <2>10 DEF SyncParts
<1>6. CASE ClearDocs(r)
  <2> DEFINE o == [NoOp EXCEPT !.at = IF At(r, "clear") THEN "clearCache" ELSE "clearDeviceCache"]
  <2>1. o.at \in {"clearCache", "clearDeviceCache"}
    BY DEF NoOp
  <2>2. Become(r, o) /\ docs' = {} /\ UNCHANGED <<cache, registered>>
    BY <1>6 DEF ClearDocs, poller
  <2> HIDE DEF o
  <2>3. op'[r] = o /\ \A q \in Callers \ {r} : op'[q] = op[q]
    BY <2>2, Uncrossed
  <2>4. \A p : ~Stored(p)'
    BY <2>2 DEF Stored
  <2>5. StoredIsPolled' /\ PolledIsStored'
    BY <2>1, <2>3, <2>4 DEF StoredIsPolled, PolledIsStored, Responsible
  <2>6. Reliance'
    <3>1. Reliable(op[r])'
      BY <2>1, <2>2, <2>3 DEF Reliable
    <3>2. ASSUME NEW q \in Callers \ {r} PROVE Reliable(op[q])'
      BY <1>2, <2>2, <2>3, <2>4 DEF SyncParts, Reliance, Reliable
    <3> QED
      BY <3>1, <3>2 DEF Reliance
  <2>7. GoneIsEmpty'
    BY <1>2, <2>1, <2>2, <2>3 DEF SyncParts, GoneIsEmpty
  <2> QED
    BY <1>3, <2>5, <2>6, <2>7 DEF SyncParts
<1>7. CASE ClearCache(r)
  <2> DEFINE o == IF At(r, "clearCache") THEN NoOp ELSE [NoOp EXCEPT !.at = "deleteDevice"]
  <2>1. o.at \in {"idle", "deleteDevice"}
    BY DEF NoOp
  <2>2. Become(r, o) /\ cache' = {} /\ UNCHANGED <<docs, registered>>
    BY <1>7 DEF ClearCache, storage
  <2>3. docs = {}
    BY <1>7 DEF ClearCache, SyncParts, Reliance, Reliable
  <2> HIDE DEF o
  <2>4. op'[r] = o /\ \A q \in Callers \ {r} : op'[q] = op[q]
    BY <2>2, Uncrossed
  <2>5. StoredIsPolled' /\ PolledIsStored'
    BY <2>2, <2>3 DEF StoredIsPolled, PolledIsStored, Stored
  <2>6. Reliance'
    <3>1. Reliable(op[r])'
      BY <2>1, <2>2, <2>3, <2>4 DEF Reliable
    <3>2. ASSUME NEW q \in Callers \ {r} PROVE Reliable(op[q])'
      BY <1>2, <2>2, <2>3, <2>4 DEF SyncParts, Reliance, Reliable, Stored
    <3> QED
      BY <3>1, <3>2 DEF Reliance
  <2>7. GoneIsEmpty'
    BY <1>2, <2>1, <2>2, <2>3, <2>4 DEF SyncParts, GoneIsEmpty
  <2> QED
    BY <1>3, <2>5, <2>6, <2>7 DEF SyncParts
<1>8. CASE RemoveDevice(r)
  <2>1. Become(r, NoOp) /\ UNCHANGED <<docs, cache>>
    BY <1>8 DEF RemoveDevice, poller
  <2>2. docs = {} /\ cache = {}
    BY <1>8 DEF RemoveDevice, At, SyncParts, Reliance, Reliable
  <2>3. NoOp.at = "idle"
    BY DEF NoOp
  <2>4. op'[r] = NoOp /\ \A q \in Callers \ {r} : op'[q] = op[q]
    BY <2>1, Uncrossed
  <2>5. StoredIsPolled' /\ PolledIsStored'
    BY <2>1, <2>2 DEF StoredIsPolled, PolledIsStored, Stored
  <2>6. Reliance'
    BY <1>2, <2>1, <2>2, <2>3, <2>4 DEF Reliance, Reliable, Stored
  <2>7. GoneIsEmpty'
    BY <1>2, <2>1, <2>2, <2>3, <2>4 DEF GoneIsEmpty
  <2> QED
    BY <1>3, <2>5, <2>6, <2>7 DEF SyncParts
<1> QED
  BY <1>4, <1>5, <1>6, <1>7, <1>8

\* A step of none of the handlers; a restart fills the cache from what is stored.
LEMMA OtherSync ==
  ASSUME TypeInv, SyncParts, Polling \/ PollRefused \/ PollFails \/ Change \/ Command \/ Restart \/ UNCHANGED vars
  PROVE  SyncParts'
<1>1. CASE UNCHANGED <<docs, cache, registered, op>>
  BY <1>1 DEF SyncParts, NoneCrossed, StoredIsPolled, PolledIsStored, Reliance, GoneIsEmpty, Reliable, Stored, At
<1>2. CASE Restart
  <2>1. /\ UNCHANGED <<docs, registered>> /\ cache' = {k \in Properties : Stored(k)}
        /\ \A r \in Callers : op'[r].at = "idle"
    BY <1>2 DEF Restart, NoOp, storage
  <2>2. \A k : Stored(k)' <=> Stored(k)
    BY <2>1 DEF Stored
  <2>3. NoneCrossed' /\ StoredIsPolled' /\ PolledIsStored' /\ Reliance'
    BY <2>1, <2>2 DEF NoneCrossed, Crossed, Posting, Deleting, StoredIsPolled, PolledIsStored, Reliance, Reliable
  <2>4. GoneIsEmpty'
    BY <2>1 DEF SyncParts, GoneIsEmpty, Stored
  <2> QED
    BY <2>3, <2>4 DEF SyncParts
<1> QED
  BY <1>1, <1>2 DEF Polling, PollBegin, PollRead, PollEnd, PollRefused, PollFails, Change, Command, storage, poller, calls, vars

LEMMA SyncStep == ASSUME TypeInv, SyncInv, [Next]_vars PROVE SyncInv'
<1>1. SUFFICES ASSUME ~torn' PROVE SyncParts'
  BY DEF SyncInv, SyncParts
<1>2. ASSUME NEW r \in Callers, PostFails(r) PROVE FALSE
  BY <1>1, <1>2 DEF PostFails
<1>3. torn => torn'
  BY <1>1, <1>2 DEF Next, Handle, Become, Polling, PollBegin, PollRead, PollEnd, PollRefused, PollFails, Change, Command,
     Restart, PostBegin, DeleteBegin, ClearBegin, RemoveBegin, PostCheck, PostExisting, PostCreate, PostAdd,
     DeleteDoc, DeleteRemaining, DeleteDrop, ClearDocs, ClearCache, RemoveDevice, calls, vars
<1>4. SyncParts
  BY <1>1, <1>3 DEF SyncInv, SyncParts
<1> QED
  BY <1>1, <1>2, <1>4, BeginSync, PostSync, DeleteSync, OtherSync DEF Next, Handle

-----------------------------------------------------------------------------
(* Theorems *)

LEMMA InitInv == Init => IInv
<1> SUFFICES ASSUME Init PROVE IInv
  OBVIOUS
<1>1. TypeInv
  <2>1. op \in [Callers -> Ops] /\ \A r \in Callers : op[r].todo = {} /\ op[r].at = "idle"
    BY DEF Init, NoOp, Ops, Steps
  <2>2. poll \in [at : {"idle", "reading"}, keys : SUBSET Properties, got : [Properties -> Values \cup {None}]]
    BY DEF Init, NoPoll
  <2>3. Unknown \in [Properties -> Values \cup {None}] /\ 0 \in 0 .. MaxFaults
    BY SubscriptionsAssumption DEF Unknown
  <2> QED
    BY <2>1, <2>2, <2>3 DEF Init, TypeInv, TypeOK, DocKnown
<1>2. NothingStaleRemembered
  BY DEF Init, Unknown, NothingStaleRemembered
<1>3. SyncInv
  <2>1. docs = {} /\ cache = {} /\ registered /\ \A r \in Callers : op[r].at = "idle"
    BY DEF Init, NoOp
  <2> QED
    BY <2>1 DEF SyncInv, NoneCrossed, Crossed, Posting, Deleting, StoredIsPolled, PolledIsStored, Reliance, Reliable,
                GoneIsEmpty, Stored
<1> QED
  BY <1>1, <1>2, <1>3 DEF IInv

LEMMA Invariant == Spec => []IInv
<1>1. IInv /\ [Next]_vars => IInv'
  BY TypeStep, StaleStep, SyncStep DEF IInv
<1> QED
  BY InitInv, <1>1, PTL DEF Spec

\* DevicePropertyPollerService and the handlers: once no call is under way, what is polled is what is
\* stored, unless a POST overlapped a DELETE or failed halfway; a value is remembered only of what is
\* polled; and every variable keeps its type.
THEOREM PollerStaysHonest == Spec => []PollerHonest
<1>1. IInv => TypeOK /\ NothingStaleRemembered
  BY DEF IInv, TypeInv
<1>2. IInv => CacheInSync
  <2> SUFFICES ASSUME IInv, Quiet, ~torn PROVE cache = {k \in Properties : Stored(k)}
    BY DEF CacheInSync
  <2>1. \A k \in Properties : Stored(k) => k \in cache
    BY DEF IInv, SyncInv, StoredIsPolled, Quiet, At
  <2>2. \A k \in cache : Stored(k)
    BY DEF IInv, SyncInv, PolledIsStored, Responsible, Quiet, At
  <2> QED
    BY <2>1, <2>2 DEF IInv, TypeInv, TypeOK
<1> QED
  BY <1>1, <1>2, Invariant, PTL DEF PollerHonest

\* DeviceDeleteHandler: a deleted device leaves no document and no subscription behind, under the same
\* condition.
THEOREM NothingOrphaned == Spec => []NoOrphans
<1>1. IInv => NoOrphans
  BY DEF IInv, SyncInv, GoneIsEmpty, NoOrphans
<1> QED
  BY <1>1, Invariant, PTL
=============================================================================
