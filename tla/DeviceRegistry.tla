----------------------------- MODULE DeviceRegistry -----------------------------
(***************************************************************************)
(* miot-bridge-api's device documents and the pool of clients built from    *)
(* them: registration (a discovery, a check, an insert), deletion (a read,  *)
(* the notifications, the document, the client) and the calls that read the *)
(* document, await, and only then take or build the client.                 *)
(*                                                                         *)
(* One hardware device, which may get another address on the LAN.  A client *)
(* lives until remove(): MiotDevice has what it does.                       *)
(***************************************************************************)
EXTENDS Naturals, FiniteSets

CONSTANTS Requests,   \* REST requests and poll ticks
          Ids,        \* storage ids Mongo gives
          Addresses,
          None,
          MaxMoves    \* bound: times the device changes its address

VARIABLES address,    \* where the device is
          documents,  \* storage id -> address the device was registered at, or None
          client,     \* the registry's instance: the address and the document it was built from, or None
          request,    \* request -> what it does and where it is
          moves,
          late,       \* history: the client was built from a document that was gone already
          overlapped  \* history: two registrations were both past the check

vars == <<address, documents, client, request, moves, late, overlapped>>

Kinds == {"register", "delete", "raw", "read"}
NoRequest == [kind |-> "none", at |-> "idle", id |-> None, address |-> None, result |-> "none"]

Init ==
  /\ address \in Addresses
  /\ documents = [i \in Ids |-> None]
  /\ client = None
  /\ request = [r \in Requests |-> NoRequest]
  /\ moves = 0 /\ late = FALSE /\ overlapped = FALSE

Stored == {i \in Ids : documents[i] # None}
At(r, kind, stage) == request[r].kind = kind /\ request[r].at = stage
Goes(r, stage) == request' = [request EXCEPT ![r].at = stage]
Ends(r, result) == request' = [request EXCEPT ![r].at = "done", ![r].result = result]

----------------------------------------------------------------------------
(* Storage *)

\* findOne({deviceId}): any of the device's documents.
FindByDeviceId == IF Stored = {} THEN {None} ELSE Stored

\* findById, null for what is gone.
FindById(i) == IF i \in Stored THEN i ELSE None

----------------------------------------------------------------------------
(* Registration *)

Register(r) ==
  /\ request[r].at = "idle"
  /\ \E a \in Addresses : request' = [request EXCEPT ![r] = [NoRequest EXCEPT !.kind = "register", !.at = "handshake", !.address = a]]
  /\ UNCHANGED <<address, documents, client, moves, late, overlapped>>

\* discover: only the device itself answers the handshake; a wrong address times out.
Handshake(r) ==
  /\ At(r, "register", "handshake")
  /\ IF request[r].address = address THEN Goes(r, "spec") ELSE Ends(r, "timeout")
  /\ UNCHANGED <<address, documents, client, moves, late, overlapped>>

\* findLatestInstance: the newest of the model, or 400; miot-spec.org itself may fail.
LatestInstance(r) ==
  /\ At(r, "register", "spec")
  /\ Goes(r, "check") \/ Ends(r, "refused")
  /\ UNCHANGED <<address, documents, client, moves, late, overlapped>>

\* DeviceDiscoveryHandler: the same for a look at a device that stores nothing.
Discover(r) ==
  /\ At(r, "register", "check")
  /\ Ends(r, "discovered")
  /\ UNCHANGED <<address, documents, client, moves, late, overlapped>>

\* 409 for a device there is already a document of.
Check(r) ==
  /\ At(r, "register", "check")
  /\ IF Stored # {} THEN Ends(r, "conflict") /\ UNCHANGED overlapped
     ELSE /\ Goes(r, "create")
          /\ overlapped' = (overlapped \/ \E q \in Requests : At(q, "register", "create"))
  /\ UNCHANGED <<address, documents, client, moves, late>>

Create(r) ==
  /\ At(r, "register", "create")
  /\ \E i \in Ids \ Stored : documents' = [documents EXCEPT ![i] = request[r].address]
  /\ Ends(r, "created")
  /\ UNCHANGED <<address, client, moves, late, overlapped>>

----------------------------------------------------------------------------
(* Deletion *)

DeleteBegin(r) ==
  /\ request[r].at = "idle"
  /\ \E i \in Ids : LET found == FindById(i)
                    IN  request' = [request EXCEPT ![r] = [NoRequest EXCEPT !.kind = "delete", !.id = i,
                                      !.at = IF found = None THEN "done" ELSE "notifications",
                                      !.result = IF found = None THEN "notfound" ELSE "none"]]
  /\ UNCHANGED <<address, documents, client, moves, late, overlapped>>

\* Its notifications first (Subscriptions has them); a failure ends the deletion half done.
ClearNotifications(r) ==
  /\ At(r, "delete", "notifications")
  /\ Goes(r, "document") \/ Ends(r, "error")
  /\ UNCHANGED <<address, documents, client, moves, late, overlapped>>

DeleteDocument(r) ==
  /\ At(r, "delete", "document")
  /\ \/ documents' = [documents EXCEPT ![request[r].id] = None] /\ Goes(r, "client")
     \/ UNCHANGED documents /\ Ends(r, "error")
  /\ UNCHANGED <<address, client, moves, late, overlapped>>

\* MUTANT: only the instance of the deleted document goes, by the address it is still found at.
RemoveReachable(r) ==
  /\ At(r, "delete", "client")
  /\ client' = IF client # None /\ client.address = address THEN None ELSE client
  /\ Ends(r, "deleted")
  /\ UNCHANGED <<address, documents, moves, late, overlapped>>

\* The instance goes whichever document it was built from.
Remove(r) ==
  /\ At(r, "delete", "client")
  /\ client' = None
  /\ Ends(r, "deleted")
  /\ UNCHANGED <<address, documents, moves, late, overlapped>>

----------------------------------------------------------------------------
(* Calls *)

\* executeRaw and execute read by device id, a poll by storage id.
Begin(r) ==
  /\ request[r].at = "idle"
  /\ \E i \in FindByDeviceId \cup {FindById(j) : j \in Ids} :
       request' = [request EXCEPT ![r] = IF i = None THEN [NoRequest EXCEPT !.kind = "raw", !.at = "done", !.result = "notfound"]
                                         ELSE [NoRequest EXCEPT !.kind = "raw", !.at = "read", !.id = i, !.address = documents[i]]]
  /\ UNCHANGED <<address, documents, client, moves, late, overlapped>>

\* An operation without its ids is refused before anything is read.
RefuseAtOnce(r) ==
  /\ request[r].at = "idle"
  /\ request' = [request EXCEPT ![r] = [NoRequest EXCEPT !.kind = "raw", !.at = "done", !.result = "refused"]]
  /\ UNCHANGED <<address, documents, client, moves, late, overlapped>>

\* executeRaw looks once more, before any client is built; so does execute at the resolved command.
RefuseRaw(r) ==
  /\ At(r, "raw", "read")
  /\ Ends(r, "refused")
  /\ UNCHANGED <<address, documents, client, moves, late, overlapped>>

\* getOrCreate: the instance there is, or one from the document as it was read; the call begins.
GetOrCreate(r) ==
  /\ At(r, "raw", "read")
  /\ LET made == [id |-> request[r].id, address |-> request[r].address]
     IN  /\ client' = IF client = None THEN made ELSE client
         /\ late' = IF client = None THEN request[r].id \notin Stored ELSE late
         /\ request' = [request EXCEPT ![r].at = "calling", ![r].address = client'.address]
  /\ UNCHANGED <<address, documents, moves, overlapped>>

\* The packets of the client go where it was told; the device answers if it is there.
Called(r) ==
  /\ At(r, "raw", "calling")
  /\ Ends(r, IF request[r].address = address THEN "answered" ELSE "timeout")
  /\ UNCHANGED <<address, documents, client, moves, late, overlapped>>

\* A finished request makes room for another.
Again(r) ==
  /\ request[r].at = "done"
  /\ request' = [request EXCEPT ![r] = NoRequest]
  /\ UNCHANGED <<address, documents, client, moves, late, overlapped>>

\* DHCP gives the device another address.
Move ==
  /\ moves < MaxMoves
  /\ moves' = moves + 1
  /\ \E a \in Addresses \ {address} : address' = a
  /\ UNCHANGED <<documents, client, request, late, overlapped>>

Next ==
  \/ \E r \in Requests : Register(r) \/ Handshake(r) \/ LatestInstance(r) \/ Discover(r) \/ Check(r) \/ Create(r)
  \/ \E r \in Requests : DeleteBegin(r) \/ ClearNotifications(r) \/ DeleteDocument(r) \/ Remove(r)
  \/ \E r \in Requests : RefuseAtOnce(r) \/ Begin(r) \/ RefuseRaw(r) \/ GetOrCreate(r) \/ Called(r) \/ Again(r)
  \/ Move

Spec == Init /\ [][Next]_vars

----------------------------------------------------------------------------
(* Properties *)

\* A client of a document that is gone is about to be removed, or was built from a copy read before
\* the deletion: deleting before removing leaves no other way to keep calling the old address.
ClientOfDocument ==
  client # None /\ client.id \notin Stored /\ ~late =>
    \E r \in Requests : At(r, "delete", "client")

\* Only registrations that overlap between check and insert leave two documents of one device.
OneDocument == Cardinality(Stored) > 1 => overlapped

RegistryAgrees == ClientOfDocument /\ OneDocument
=============================================================================
