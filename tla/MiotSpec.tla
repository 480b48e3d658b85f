-------------------------------- MODULE MiotSpec --------------------------------
(***************************************************************************)
(* What a command or a subscription of miot-bridge-api resolves to: the     *)
(* published spec of a device, kept in Mongo as the DTO it came as, the     *)
(* overrides of its model on top, the key of each property, and what is     *)
(* sent to the device or refused for it.                                    *)
(*                                                                         *)
(* A type is the sequence of its words and numbers, "switch-2" is           *)
(* <<"switch", 2>>; a key is a pair of types, which hold no colon.  A value *)
(* is <<"number", n>>, <<"boolean", n>> or <<"string", n>>.  Overrides      *)
(* change while commands and polls are under way.                           *)
(***************************************************************************)
EXTENDS Naturals, FiniteSets, Sequences, SequencesExt

CONSTANTS Specs,        \* the specs devices publish
          Overrides,    \* the overrides there may be, all of the device's model
          Values,       \* values commands carry
          MaxOverrides, MaxReads   \* bounds: overrides stored, bulk reads begun

VARIABLES stored,     \* the spec in Mongo
          overrides,  \* the override documents, oldest first
          request,    \* the command under way
          read,       \* the bulk read under way
          warned,     \* unresolvedLogged, with what was logged how often
          reads

vars == <<stored, overrides, request, read, warned, reads>>

----------------------------------------------------------------------------
(* Mappers *)

AccessOfDTO == [read |-> "Read", write |-> "Write", notify |-> "Notify"]
AccessToDTO == [a \in {"Read", "Write", "Notify"} |-> CHOOSE d \in DOMAIN AccessOfDTO : AccessOfDTO[d] = a]

MapServices(spec, access) ==
  [i \in DOMAIN spec |->
     [iid |-> spec[i].iid, type |-> spec[i].type, actions |-> spec[i].actions,
      properties |-> [j \in DOMAIN spec[i].properties |->
                        [spec[i].properties[j] EXCEPT !.access = {access[a] : a \in @}]]]]

\* The spec as the program uses it, and as it is stored.
MapDTOToModel(dto) == MapServices(dto, AccessOfDTO)
MapModelToDTO(spec) == MapServices(spec, AccessToDTO)

\* MUTANT: keyed on the type alone.
TypeKey(members, j) == members[j].type

\* A repeated type gets the iid appended, among the services and among the properties of one.
MemberKey(members, j) ==
  IF \E k \in DOMAIN members : k # j /\ members[k].type = members[j].type
    THEN Append(members[j].type, members[j].iid) ELSE members[j].type

ServiceKey(spec, i) == MemberKey(spec, i)

Members(spec) == UNION {{<<i, j>> : j \in DOMAIN spec[i].properties} : i \in DOMAIN spec}
KeyOf(spec, m) == <<ServiceKey(spec, m[1]), MemberKey(spec[m[1]].properties, m[2])>>

Entry(source, siid, piid, access, constraint) ==
  [source |-> source, siid |-> siid, piid |-> piid, access |-> access, constraint |-> constraint]

\* The published members.  Of two under one key the one set last stays; which that is depends on what the
\* mapping of each waits for.
Published(spec) ==
  LET Kept(k) == CHOOSE m \in Members(spec) : KeyOf(spec, m) = k
  IN  [k \in {KeyOf(spec, m) : m \in Members(spec)} |->
         LET p == spec[Kept(k)[1]].properties[Kept(k)[2]]
         IN  Entry("spec", spec[Kept(k)[1]].iid, p.iid, p.access, p.constraint)]

\* The services an override may be of: one, or none.
Places(spec, o) == {i \in DOMAIN spec : spec[i].iid = o.siid}

\* MUTANT: of the overrides under one key the oldest counts.
OverriddenFirst(spec, base, list) ==
  LET placed == {n \in DOMAIN list : Places(spec, list[n]) # {}}
      key(n) == <<ServiceKey(spec, CHOOSE i \in Places(spec, list[n]) : TRUE), list[n].key>>
      first(k) == list[CHOOSE n \in placed : key(n) = k /\ \A m \in placed : key(m) = k => m >= n]
  IN  [k \in DOMAIN base \cup {key(n) : n \in placed} |->
         IF \E n \in placed : key(n) = k
           THEN Entry("override", first(k).siid, first(k).piid, first(k).access, [kind |-> "list", values |-> first(k).values])
           ELSE base[k]]

\* The overrides on top: of those under one key the last counts, and one of a service the spec has not is
\* left out.
Overridden(spec, base, list) ==
  LET placed == {n \in DOMAIN list : Places(spec, list[n]) # {}}
      key(n) == <<ServiceKey(spec, CHOOSE i \in Places(spec, list[n]) : TRUE), list[n].key>>
      last(k) == list[CHOOSE n \in placed : key(n) = k /\ \A m \in placed : key(m) = k => m <= n]
  IN  [k \in DOMAIN base \cup {key(n) : n \in placed} |->
         IF \E n \in placed : key(n) = k
           THEN Entry("override", last(k).siid, last(k).piid, last(k).access, [kind |-> "list", values |-> last(k).values])
           ELSE base[k]]

\* An action whose input is no property of its service makes the whole map fail.
Mappable(spec) ==
  \A i \in DOMAIN spec : \A k \in DOMAIN spec[i].actions :
    \A piid \in spec[i].actions[k].in : \E j \in DOMAIN spec[i].properties : spec[i].properties[j].iid = piid

Simplified(spec, list) == Overridden(spec, Published(spec), list)

----------------------------------------------------------------------------
(* Resolution *)

\* An empty list constrains nothing, so does no list, no range and no bool.
ValidValue(value, constraint) ==
  CASE constraint.kind = "list" /\ constraint.values # {} -> value \in constraint.values
    [] constraint.kind = "range" ->
         /\ value[1] = "number" /\ value[2] \in constraint.min .. constraint.max
         /\ constraint.step > 0 => (value[2] - constraint.min) % constraint.step = 0
    [] constraint.kind = "bool" -> value[1] = "boolean"
    [] OTHER -> TRUE

Readable(entry) == entry.access \cap {"Read", "Notify"} # {}

\* resolveCommand: what is sent, or nothing.
Resolve(command, map) ==
  IF command.key \notin DOMAIN map THEN {}
  ELSE LET entry == map[command.key]
       IN  CASE command.operation = "GetProperty" -> {entry : x \in {e \in {entry} : Readable(e)}}
             [] OTHER -> {e \in {entry} : "Write" \in e.access /\ ValidValue(command.value, e.constraint)}

----------------------------------------------------------------------------

NoRequest == [at |-> "idle", seen |-> <<>>, entry |-> {}]
NoRead == [at |-> "idle", keys |-> {}]

Init ==
  /\ stored \in Specs
  /\ overrides = <<>>
  /\ request = NoRequest /\ read = NoRead
  /\ warned = <<>> /\ reads = 0

Device == MapDTOToModel(stored)

\* No check of its key against the model's others.
CreateOverride ==
  /\ Len(overrides) < MaxOverrides
  /\ \E o \in Overrides : overrides' = Append(overrides, o)
  /\ UNCHANGED <<stored, request, read, warned, reads>>

DeleteOverride ==
  /\ \E i \in DOMAIN overrides : overrides' = RemoveAt(overrides, i)
  /\ UNCHANGED <<stored, request, read, warned, reads>>

\* The keys there are, and one there is not.
Keys == DOMAIN Simplified(Device, overrides) \cup {<<<<"none">>, <<"none">>>>}

NoValue == <<"string", 0>>
Commands == [key : Keys, operation : {"GetProperty"}, value : {NoValue}] \cup [key : Keys, operation : {"SetProperty"}, value : Values]

\* getByModel: the overrides as they are now.  One command or read at a time: they share nothing.
Begin ==
  /\ request.at = "idle" /\ read.at = "idle"
  /\ request' = [NoRequest EXCEPT !.at = "overrides", !.seen = overrides]
  /\ UNCHANGED <<stored, overrides, read, warned, reads>>

\* The command is resolved and sent, or refused; a spec that cannot be mapped is an error of ours.
Command ==
  /\ request.at = "overrides"
  /\ \E command \in Commands :
       LET found == Resolve(command, Simplified(Device, request.seen))
       IN  request' = [request EXCEPT !.at = IF ~Mappable(Device) THEN "error" ELSE IF found = {} THEN "refused" ELSE "sent",
                         !.entry = IF ~Mappable(Device) \/ found = {} THEN {}
                                   ELSE {[key |-> command.key, operation |-> command.operation, value |-> command.value, entry |-> e] : e \in found}]
  /\ UNCHANGED <<stored, overrides, read, warned, reads>>

CommandEnds ==
  /\ request.at \in {"sent", "refused", "error"}
  /\ request' = NoRequest
  /\ UNCHANGED <<stored, overrides, read, warned, reads>>

\* DeviceGetHandler: the spec as it is shown, the same map.
Show == Simplified(Device, overrides)

\* A poll reads the keys of its subscriptions.
ReadBegin ==
  /\ read.at = "idle" /\ request.at = "idle" /\ reads < MaxReads /\ Mappable(Device)
  /\ reads' = reads + 1
  /\ \E k \in DOMAIN Show : read' = [at |-> "overrides", keys |-> {k}]
  /\ UNCHANGED <<stored, overrides, request, warned>>

\* MUTANT: each poll reports what it finds unresolved.
UnreportedAll(unresolved) == unresolved

\* Each unresolved key is reported once.
Unreported(unresolved) == {k \in unresolved : \A i \in DOMAIN warned : warned[i] # k}

\* getProperties with the overrides as they are when they are read: the unresolved keys are reported and the
\* others asked for.
ReadMap ==
  /\ read.at = "overrides"
  /\ LET unresolved == read.keys \ DOMAIN Simplified(Device, overrides)
     IN  /\ warned' = warned \o SetToSeq(Unreported(unresolved))
         /\ read' = IF read.keys \subseteq unresolved THEN NoRead ELSE [at |-> "asked", keys |-> read.keys \ unresolved]
  /\ UNCHANGED <<stored, overrides, request, reads>>

\* The device answers, refuses some and leaves some out: each refusal is counted with the entry's source.
ReadEnds ==
  /\ read.at = "asked"
  /\ read' = NoRead
  /\ UNCHANGED <<stored, overrides, request, warned, reads>>

\* The device is registered anew: the spec is fetched, mapped and stored as a DTO again.
Store ==
  /\ request.at = "idle" /\ read.at = "idle"
  /\ stored' = MapModelToDTO(Device)
  /\ UNCHANGED <<overrides, request, read, warned, reads>>

Next ==
  \/ CreateOverride \/ DeleteOverride \/ Store
  \/ Begin \/ Command \/ CommandEnds
  \/ ReadBegin \/ ReadMap \/ ReadEnds

Spec == Init /\ [][Next]_vars

----------------------------------------------------------------------------
(* Properties *)

\* A type that reads like another's with that one's iid behind it.
Spells(members, j, k) == members[j].type = Append(members[k].type, members[k].iid)
Spelt(members, j) == \E k \in DOMAIN members : Spells(members, j, k) \/ Spells(members, k, j)

\* Every published property keeps a key of its own, whatever types its service and the others repeat, unless a
\* type spells another's key: then one of the two is not to be had.  Else only an override can take it.
Addressable ==
  LET map == Show
  IN  \A m \in Members(Device) :
        LET entry == map[KeyOf(Device, m)]
        IN  ~Spelt(Device, m[1]) /\ ~Spelt(Device[m[1]].properties, m[2]) /\ entry.source = "spec"
              => entry.siid = Device[m[1]].iid /\ entry.piid = Device[m[1]].properties[m[2]].iid

\* An override of a service the device has is what its key means until a newer one of that key is stored.
NewestRules ==
  \A n \in DOMAIN overrides :
    /\ Places(Device, overrides[n]) # {}
    /\ \A later \in DOMAIN overrides : later > n => overrides[later].key # overrides[n].key
    => \E i \in Places(Device, overrides[n]) :
         Show[<<ServiceKey(Device, i), overrides[n].key>>] =
           Entry("override", overrides[n].siid, overrides[n].piid, overrides[n].access,
                 [kind |-> "list", values |-> overrides[n].values])

\* What is sent is what its key meant while the command was under way: an override with its own access and
\* values, or a published property of that key, and then within that one's.
SentAsSpecified ==
  request.at = "sent" =>
    \A c \in request.entry :
      /\ c.entry = Simplified(Device, request.seen)[c.key]
      /\ c.entry.source = "spec" =>
           \E m \in Members(Device) :
             /\ KeyOf(Device, m) = c.key
             /\ Device[m[1]].iid = c.entry.siid
             /\ Device[m[1]].properties[m[2]].iid = c.entry.piid
             /\ c.operation = "SetProperty" =>
                  /\ "Write" \in Device[m[1]].properties[m[2]].access
                  /\ ValidValue(c.value, Device[m[1]].properties[m[2]].constraint)

\* A key that stops resolving is reported by the first poll that asks for it, and by no other.
WarnedOnce == \A i, j \in DOMAIN warned : warned[i] = warned[j] => i = j

CommandMeansProperty == Addressable /\ NewestRules /\ SentAsSpecified /\ WarnedOnce
=============================================================================
