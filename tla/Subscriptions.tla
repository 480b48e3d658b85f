---------------------------- MODULE Subscriptions ----------------------------
(***************************************************************************)
(* The notification subscriptions of one device of miot-bridge-api: the    *)
(* stored documents, the poller's in-memory copy of them, the REST         *)
(* handlers that change both across several awaits, and the poll that      *)
(* reads the subscribed properties and hands what changed to the           *)
(* dispatcher (NotificationDispatch).                                      *)
(*                                                                         *)
(* One action per await of a handler.  The spec lookup that decides which  *)
(* keys may be subscribed is left out: every property here may be.         *)
(***************************************************************************)
EXTENDS Naturals, FiniteSets

CONSTANTS Properties,      \* property keys of the device
          Values,          \* what one may read as
          None,            \* no value known
          Callers,         \* REST calls that may be under way at once
          Ids,             \* bound: notification documents ever created
          DispatchOnChange,\* polling.dispatchOnChange
          Commands,        \* direct SetProperty calls happen
          MaxFaults        \* bound: restarts, failing inserts and failing reads

ASSUME SubscriptionsAssumption ==
  /\ None \notin Values
  /\ DispatchOnChange \in BOOLEAN /\ Commands \in BOOLEAN
  /\ MaxFaults \in Nat

VARIABLES registered,  \* the device is in storage
          docs,        \* notification documents: [id, property]
          used,        \* ids ever given
          cache,       \* _subscriptions of the device
          last,        \* _lastValues of its properties
          op,          \* per caller: the handler under way
          poll,        \* the read of the tick under way
          actual,      \* the device's own values
          shown,       \* the value last handed to the dispatcher
          torn,        \* history variable: a POST overlapped a DELETE, or failed halfway
          faults       \* bound on faults

storage == <<registered, docs, used>>
poller == <<cache, last, poll>>
device == <<actual, shown>>
calls == <<op, torn>>
vars == <<storage, poller, device, calls, faults>>

Documents == [id : Ids, property : Properties]
Stored(k) == \E d \in docs : d.property = k

Steps == {"idle", "check", "existing", "create", "delete", "remaining", "drop",
          "clear", "clearCache", "clearDevice", "clearDeviceCache", "deleteDevice"}
Ops == [at : Steps, properties : SUBSET Properties, todo : SUBSET Properties,
        doc : Documents \cup {None}, last : BOOLEAN]

NoOp == [at |-> "idle", properties |-> {}, todo |-> {}, doc |-> None, last |-> FALSE]
Post(step, properties, todo) == [NoOp EXCEPT !.at = step, !.properties = properties, !.todo = todo]
Del(step, d, isLast) == [NoOp EXCEPT !.at = step, !.doc = d, !.last = isLast]

NoPoll == [at |-> "idle", keys |-> {}, got |-> [k \in Properties |-> None]]
Unknown == [k \in Properties |-> None]

Init ==
  /\ registered = TRUE
  /\ docs = {} /\ used = {}
  /\ cache = {} /\ last = Unknown /\ poll = NoPoll
  /\ op = [r \in Callers |-> NoOp]
  /\ actual \in [Properties -> Values]
  /\ shown = Unknown
  /\ torn = FALSE
  /\ faults = 0

At(r, step) == op[r].at = step

\* The calls that add and those that remove, past their first step.
Posting(o) == o.at \in {"check", "existing", "create"}
Deleting(o) == o.at # "idle" /\ ~Posting(o)

Crossed(o, other) == (Posting(o) /\ Deleting(other)) \/ (Deleting(o) /\ Posting(other))

\* A call goes on to its next await.
Become(r, o) ==
  /\ op' = [op EXCEPT ![r] = o]
  /\ torn' = (torn \/ \E q \in Callers \ {r} : Crossed(o, op[q]))

Fault == faults < MaxFaults /\ faults' = faults + 1

----------------------------------------------------------------------------
(* NotificationPostHandler *)

PostBegin(r) ==
  /\ At(r, "idle")
  /\ \E S \in (SUBSET Properties) \ {{}} : Become(r, Post("check", S, {}))
  /\ UNCHANGED <<storage, poller, device, faults>>

\* The device must exist; nothing looks again later.
PostCheck(r) ==
  /\ At(r, "check")
  /\ Become(r, IF registered THEN Post("existing", op[r].properties, {}) ELSE NoOp)
  /\ UNCHANGED <<storage, poller, device, faults>>

\* getAllByDeviceId: only what is not stored yet is created.
PostExisting(r) ==
  /\ At(r, "existing")
  /\ Become(r, Post("create", op[r].properties, {k \in op[r].properties : ~Stored(k)}))
  /\ UNCHANGED <<storage, poller, device, faults>>

\* One insert; nothing in storage keeps a property from being stored twice.
PostCreate(r) ==
  /\ At(r, "create")
  /\ \E k \in op[r].todo, i \in Ids \ used :
       /\ docs' = docs \cup {[id |-> i, property |-> k]}
       /\ used' = used \cup {i}
       /\ Become(r, Post("create", op[r].properties, op[r].todo \ {k}))
  /\ UNCHANGED <<registered, poller, device, faults>>

\* An insert fails: the call is over with some documents stored and the cache as it was.
PostFails(r) ==
  /\ At(r, "create") /\ op[r].todo # {}
  /\ Fault
  /\ op' = [op EXCEPT ![r] = NoOp]
  /\ torn' = TRUE
  /\ UNCHANGED <<storage, poller, device>>

\* addSubscriptions, with every property of the request.
PostAdd(r) ==
  /\ At(r, "create") /\ op[r].todo = {}
  /\ cache' = cache \cup op[r].properties
  /\ Become(r, NoOp)
  /\ UNCHANGED <<storage, last, poll, device, faults>>

----------------------------------------------------------------------------
(* NotificationDeleteHandler and NotificationDeleteAllHandler *)

DeleteBegin(r) ==
  /\ At(r, "idle")
  /\ \E d \in docs : Become(r, Del("delete", d, FALSE))
  /\ UNCHANGED <<storage, poller, device, faults>>

DeleteDoc(r) ==
  /\ At(r, "delete")
  /\ docs' = docs \ {op[r].doc}
  /\ Become(r, Del("remaining", op[r].doc, FALSE))
  /\ UNCHANGED <<registered, used, poller, device, faults>>

\* Whether another document still subscribes the property.
DeleteRemaining(r) ==
  /\ At(r, "remaining")
  /\ Become(r, Del("drop", op[r].doc, ~Stored(op[r].doc.property)))
  /\ UNCHANGED <<storage, poller, device, faults>>

\* MUTANT: the last known value is kept.
DropKeepingValue(r) ==
  /\ At(r, "drop")
  /\ cache' = IF op[r].last THEN cache \ {op[r].doc.property} ELSE cache
  /\ Become(r, NoOp)
  /\ UNCHANGED <<storage, last, poll, device, faults>>

\* removeSubscription, if none does.
DeleteDrop(r) ==
  /\ At(r, "drop")
  /\ cache' = IF op[r].last THEN cache \ {op[r].doc.property} ELSE cache
  /\ last' = IF op[r].last THEN [last EXCEPT ![op[r].doc.property] = None] ELSE last
  /\ Become(r, NoOp)
  /\ UNCHANGED <<storage, poll, device, faults>>

ClearBegin(r) ==
  /\ At(r, "idle")
  /\ Become(r, [NoOp EXCEPT !.at = "clear"])
  /\ UNCHANGED <<storage, poller, device, faults>>

\* deleteAllByDeviceId, for its own call or as DeviceDeleteHandler's first step.
ClearDocs(r) ==
  /\ op[r].at \in {"clear", "clearDevice"}
  /\ docs' = {}
  /\ Become(r, [NoOp EXCEPT !.at = IF At(r, "clear") THEN "clearCache" ELSE "clearDeviceCache"])
  /\ UNCHANGED <<registered, used, poller, device, faults>>

\* MUTANT: the poller is not told.
ClearNothing(r) ==
  /\ op[r].at \in {"clearCache", "clearDeviceCache"}
  /\ Become(r, IF At(r, "clearCache") THEN NoOp ELSE [NoOp EXCEPT !.at = "deleteDevice"])
  /\ UNCHANGED <<storage, poller, device, faults>>

\* removeAllSubscriptions.
ClearCache(r) ==
  /\ op[r].at \in {"clearCache", "clearDeviceCache"}
  /\ cache' = {}
  /\ last' = Unknown
  /\ Become(r, IF At(r, "clearCache") THEN NoOp ELSE [NoOp EXCEPT !.at = "deleteDevice"])
  /\ UNCHANGED <<storage, poll, device, faults>>

----------------------------------------------------------------------------
(* DeviceDeleteHandler *)

\* MUTANT: the device is deleted without its notifications.
RemoveAtOnce(r) ==
  /\ At(r, "idle")
  /\ registered
  /\ Become(r, [NoOp EXCEPT !.at = "deleteDevice"])
  /\ UNCHANGED <<storage, poller, device, faults>>

RemoveBegin(r) ==
  /\ At(r, "idle")
  /\ registered
  /\ Become(r, [NoOp EXCEPT !.at = "clearDevice"])
  /\ UNCHANGED <<storage, poller, device, faults>>

RemoveDevice(r) ==
  /\ At(r, "deleteDevice")
  /\ registered' = FALSE
  /\ Become(r, NoOp)
  /\ UNCHANGED <<docs, used, poller, device, faults>>

----------------------------------------------------------------------------
(* The poll *)

\* A tick finds the device due and reads what is subscribed at that moment.
PollBegin ==
  /\ poll.at = "idle"
  /\ cache # {} /\ registered
  /\ poll' = [NoPoll EXCEPT !.at = "reading", !.keys = cache]
  /\ UNCHANGED <<storage, cache, last, device, calls, faults>>

\* One property per packet.
PollRead ==
  /\ poll.at = "reading"
  /\ \E k \in poll.keys :
       poll' = [poll EXCEPT !.keys = @ \ {k}, !.got[k] = actual[k]]
  /\ UNCHANGED <<storage, cache, last, device, calls, faults>>

\* A property the device refuses comes back without a value.
PollRefused ==
  /\ poll.at = "reading"
  /\ Fault
  /\ \E k \in poll.keys : poll' = [poll EXCEPT !.keys = @ \ {k}]
  /\ UNCHANGED <<storage, cache, last, device, calls>>

\* What counts of a read: properties still subscribed when it ends.
Taken == {k \in cache : poll.got[k] # None}

\* MUTANT: every value read is remembered, that of a property no longer subscribed too.
RememberAll(emitted) == last' = [k \in Properties |-> IF poll.got[k] # None THEN poll.got[k] ELSE last[k]]

\* A value handed on is the one the next read is compared with.
Remember(emitted) == last' = [k \in Properties |-> IF k \in emitted THEN poll.got[k] ELSE last[k]]

\* The results, in one go: what changed, or everything, is remembered and emitted.
PollEnd ==
  LET emitted == {k \in Taken : last[k] # poll.got[k] \/ ~DispatchOnChange}
  IN  /\ poll.at = "reading" /\ poll.keys = {}
      /\ Remember(emitted)
      /\ shown' = [k \in Properties |-> IF k \in emitted THEN poll.got[k] ELSE shown[k]]
      /\ poll' = NoPoll
      /\ UNCHANGED <<storage, cache, actual, calls, faults>>

\* The read fails as a whole.  Back-off only delays the next tick of the device.
PollFails ==
  /\ poll.at = "reading"
  /\ Fault
  /\ poll' = NoPoll
  /\ UNCHANGED <<storage, cache, last, device, calls>>

\* The device changes a value by itself.
Change ==
  /\ \E k \in Properties, v \in Values :
       v # actual[k] /\ actual' = [actual EXCEPT ![k] = v]
  /\ UNCHANGED <<storage, poller, shown, calls, faults>>

\* DeviceCommandService.execute with SetProperty: the device's queue keeps it apart from a
\* read, and the new value is handed to the dispatcher past the poller.  With v = actual[k]
\* it is GetProperty.
Command ==
  /\ Commands /\ registered
  /\ poll.got = Unknown
  /\ \E k \in Properties, v \in Values :
       /\ actual' = [actual EXCEPT ![k] = v]
       /\ shown' = [shown EXCEPT ![k] = v]
  /\ UNCHANGED <<storage, poller, calls, faults>>

\* The process is replaced; loadSubscriptions fills the cache before anything is served.
Restart ==
  /\ Fault
  /\ cache' = {k \in Properties : Stored(k)}
  /\ last' = Unknown
  /\ poll' = NoPoll
  /\ op' = [r \in Callers |-> NoOp]
  /\ UNCHANGED <<storage, device, torn>>

Handle(r) ==
  \/ PostCheck(r) \/ PostExisting(r) \/ PostCreate(r) \/ PostAdd(r)
  \/ DeleteDoc(r) \/ DeleteRemaining(r) \/ DeleteDrop(r)
  \/ ClearDocs(r) \/ ClearCache(r) \/ RemoveDevice(r)

Polling == PollBegin \/ PollRead \/ PollEnd

Next ==
  \/ \E r \in Callers :
       \/ PostBegin(r) \/ DeleteBegin(r) \/ ClearBegin(r) \/ RemoveBegin(r)
       \/ Handle(r) \/ PostFails(r)
  \/ Polling \/ PollRefused \/ PollFails
  \/ Change \/ Command \/ Restart

\* The poller's timer re-arms itself after every tick.
Fairness == WF_vars(Polling)

Spec == Init /\ [][Next]_vars
FairSpec == Spec /\ Fairness

----------------------------------------------------------------------------
(* Properties *)

\* Every variable holds what the code can put in it.
TypeOK ==
  /\ registered \in BOOLEAN
  /\ docs \in SUBSET Documents /\ used \in SUBSET Ids
  /\ cache \in SUBSET Properties
  /\ last \in [Properties -> Values \cup {None}]
  /\ \A d \in docs : d.id \in used
  /\ op \in [Callers -> Ops]
  /\ \A r \in Callers : op[r].todo \subseteq op[r].properties
  /\ poll \in [at : {"idle", "reading"}, keys : SUBSET Properties, got : [Properties -> Values \cup {None}]]
  /\ actual \in [Properties -> Values]
  /\ shown \in [Properties -> Values \cup {None}]
  /\ torn \in BOOLEAN
  /\ faults \in 0..MaxFaults

Quiet == \A r \in Callers : At(r, "idle")

\* A value is remembered only for a subscribed property, whatever a read in flight brings
\* back after an unsubscribe: a new subscription's first read is always a change (pollDevice:
\* "a stale value that makes the next subscription's first read look unchanged").
NothingStaleRemembered == \A k \in Properties : last[k] # None => k \in cache

\* DevicePropertyPollerService: the cache "is hydrated once on start() and kept in sync" by
\* the handlers.  Once no call is under way what is polled is what is stored, however calls
\* overlapped - as long as no POST overlapped a DELETE and none failed between two inserts.
CacheInSync == Quiet /\ ~torn => cache = {k \in Properties : Stored(k)}

\* Deleting a device leaves no subscription of it behind, under the same condition.
NoOrphans == Quiet /\ ~torn /\ ~registered => docs = {} /\ cache = {}

\* A subscribed property whose value settles is eventually the value handed on, and stays so.
SubscriberConverges ==
  \A k \in Properties, v \in Values :
    <>[](registered /\ k \in cache /\ actual[k] = v) => <>[](shown[k] = v)
=============================================================================
