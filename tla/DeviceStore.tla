----------------------------- MODULE DeviceStore -----------------------------
(***************************************************************************)
(* The inventory of devices (dns/discovery), its durable subset in the      *)
(* encrypted store, and everyone who writes it: passive discovery and mDNS, *)
(* the handler of DNS UPDATE (ddns.go), the Tailscale manager, the API.     *)
(*                                                                          *)
(* A mutation of the store is one step.  It holds mutationMu from reading   *)
(* the devices to committing them, the write to disk included; a reader in  *)
(* between sees the devices as they were before, and a crash in between     *)
(* forgets the memory anyway.  The steps that interleave are those of the   *)
(* callers: DNS UPDATE looks a device up and then clears, upserts or        *)
(* removes it, and the link handler reads the protected IDs before it links.*)
(*                                                                          *)
(* A device has one LAN address here, IPv4 and IPv6 being treated alike.    *)
(* Times, display names and DNS records are left out.                       *)
(***************************************************************************)
EXTENDS Naturals, FiniteSets

CONSTANTS
    MaxDevices,  \* bound on the IDs generateID hands out
    IPs,         \* LAN and overlay addresses
    MACs,
    Names,       \* host names
    Nodes,       \* stable Tailscale node IDs
    None,
    OldDocs,     \* stored assignments the process may find when it starts
    MaxOps       \* bound on observations, requests and updates

Ids == 1 .. MaxDevices

\* nodes gives each linked node its current overlay addresses.
Device == [lan : IPs \cup {None}, macs : SUBSET MACs, names : SUBSET Names, dns : Names \cup {None},
           label : BOOLEAN, persistent : BOOLEAN, nodes : [Nodes -> {None} \cup SUBSET IPs]]
DeviceAssignment == [macs : SUBSET MACs, names : SUBSET Names, dns : Names \cup {None},
                     label : BOOLEAN, persistent : BOOLEAN, nodes : SUBSET Nodes]
Document == [version : {1, 2}, assignments : [Ids -> DeviceAssignment \cup {None}]]

ASSUME DeviceAssumption ==
    /\ MaxDevices \in Nat \ {0} /\ MaxOps \in Nat
    /\ None \notin IPs \cup MACs \cup Names \cup Nodes \cup Device \cup DeviceAssignment
    /\ \A s \in SUBSET IPs : s # None
    /\ OldDocs \subseteq Document
    /\ \A o \in OldDocs, a, b \in Ids :
         a # b /\ o.assignments[a] # None /\ o.assignments[b] # None =>
             /\ o.assignments[a].nodes \cap o.assignments[b].nodes = {}
             /\ o.assignments[a].macs \cap o.assignments[b].macs = {}

VARIABLES
    dev,       \* DeviceStore.devices
    doc,       \* the stored assignments
    up,        \* the process runs
    attached,  \* DeviceStore.persistence is set
    broken,    \* the store is quarantined until the next start
    made,      \* IDs handed out so far
    assigned,  \* IDs the policy document, an exception or a pause refers to
    ddns,      \* what the handler of DNS UPDATE is doing
    link,      \* the request of the link handler, with the protected IDs it read
    ops

vars == <<up, dev, doc, attached, broken, made, assigned, ddns, link, ops>>

Idle == [at |-> "idle", todo |-> {}, id |-> None, name |-> None, ip |-> None]
Update == [at : {"idle", "clear", "add", "upsert", "cleanup", "remove"}, todo : SUBSET Ids,
           id : Ids \cup {None}, name : Names \cup {None}, ip : IPs \cup {None}]
Request == [id : Ids, node : Nodes, ips : SUBSET IPs, protected : SUBSET Ids]

-----------------------------------------------------------------------------
(* Devices and their durable subset *)

Live == {id \in Ids : dev[id] # None}
LinkedNodes(d) == {n \in Nodes : d.nodes[n] # None}

\* deviceAddresses, and the index deviceByIPClaims of rebuildIndexes
Addresses(d) == ({d.lan} \ {None}) \cup UNION {d.nodes[n] : n \in LinkedNodes(d)}
Claims(ip) == {id \in Live : ip \in Addresses(dev[id])}

\* isDurableDevice and shouldPersistDevice, which agree on what this process makes
Durable(d) == d.persistent \/ d.label \/ LinkedNodes(d) # {}

assignmentRecord(d) ==
    [macs |-> d.macs, names |-> d.names, dns |-> d.dns, label |-> d.label,
     persistent |-> d.persistent, nodes |-> LinkedNodes(d)]

assignmentDevice(a) ==
    [lan |-> None, macs |-> a.macs, names |-> a.names, dns |-> a.dns, label |-> a.label,
     persistent |-> a.persistent, nodes |-> [n \in Nodes |-> IF n \in a.nodes THEN {} ELSE None]]

\* Mutant: a device without a label or a link is not worth a record.
PersistedLabels(S, next) ==
    [version |-> 2,
     assignments |-> [id \in Ids |->
        IF id \notin S THEN doc.assignments[id]
        ELSE IF next[id] # None /\ (next[id].label \/ LinkedNodes(next[id]) # {})
        THEN assignmentRecord(next[id]) ELSE None]]

\* persistDevicesIfChanged and remove: what the document becomes when the
\* devices of S become those of next.
Persisted(S, next) ==
    [version |-> 2,
     assignments |-> [id \in Ids |->
        IF id \notin S THEN doc.assignments[id]
        ELSE IF next[id] # None /\ Durable(next[id]) THEN assignmentRecord(next[id]) ELSE None]]

\* Mutant: the write is refused but the memory changes all the same.
MutateAnyway(S, next) ==
    /\ dev' = next
    /\ IF attached /\ ~broken THEN doc' = Persisted(S, next) \/ doc' = doc ELSE doc' = doc
    /\ UNCHANGED <<attached, broken>>

\* A mutation of the devices of S: memory follows only a successful write.
\* A write that fails after the rename leaves the store broken.
Mutate(S, next) ==
    LET new == Persisted(S, next) IN
    /\ \/ ~attached /\ dev' = next /\ UNCHANGED <<doc, broken>>
       \/ attached /\ ~broken /\ dev' = next /\ doc' = new /\ UNCHANGED broken
       \/ attached /\ ~broken /\ new # doc /\ doc' \in {doc, new} /\ broken' \in BOOLEAN /\ (doc' = new => broken')
          /\ UNCHANGED dev
       \/ attached /\ broken /\ UNCHANGED <<dev, doc, broken>>
    /\ UNCHANGED attached

\* prepareUpsertDeviceLocked
NewDevice == [lan |-> None, macs |-> {}, names |-> {}, dns |-> None, label |-> FALSE,
              persistent |-> FALSE, nodes |-> [n \in Nodes |-> None]]
Upserted(id, ip, mac, name) ==
    LET old == IF dev[id] = None THEN NewDevice ELSE dev[id] IN
    [dev EXCEPT ![id] = [old EXCEPT !.lan = ip, !.macs = @ \cup ({mac} \ {None}),
                                    !.names = @ \cup ({name} \ {None}),
                                    !.dns = IF name = None THEN @ ELSE name]]

\* A request, an observation or a message the running process takes up.
Op == up /\ ops < MaxOps /\ ops' = ops + 1

-----------------------------------------------------------------------------
(* Discovery *)

\* Mutant: the address is looked at before the MAC.
CandidatesByAddress(ip, mac) ==
    LET byIP == {id \in Claims(ip) : dev[id].lan = ip} IN
    IF byIP # {} THEN byIP ELSE {id \in Live : mac \in dev[id].macs}

\* The devices an observation may belong to: a MAC is authoritative, else the
\* address decides.
Candidates(ip, mac) ==
    LET byMAC == {id \in Live : mac \in dev[id].macs} IN
    IF byMAC # {} THEN byMAC ELSE Claims(ip)

\* ObserveDevice, for passive queries and mDNS.  An ambiguous observation,
\* and one of an overlay address only, changes nothing.
ObserveDevice(ip, mac, name) ==
    /\ Op
    /\ LET c == Candidates(ip, mac) IN
       \/ /\ c = {} /\ made < MaxDevices
          /\ made' = made + 1
          /\ Mutate({made + 1}, Upserted(made + 1, ip, mac, name))
       \/ \E id \in c :
          /\ c = {id} /\ (mac \in dev[id].macs \/ dev[id].lan = ip)
          /\ Mutate({id}, Upserted(id, ip, mac, name)) /\ UNCHANGED made
    /\ UNCHANGED <<up, assigned, ddns, link>>

-----------------------------------------------------------------------------
(* The API *)

\* UpdateManualFieldsE
SetLabel(id, label) ==
    /\ Op /\ id \in Live
    /\ Mutate({id}, [dev EXCEPT ![id].label = label, ![id].persistent = TRUE])
    /\ UNCHANGED <<up, made, assigned, ddns, link>>

\* RemoveDeviceE
RemoveDevice(id) ==
    /\ Op /\ id \in Live
    /\ Mutate({id}, [dev EXCEPT ![id] = None])
    /\ UNCHANGED <<up, made, assigned, ddns, link>>

\* GSApiDeviceAssignmentSet, and the grants that name a device.
Assign(id) ==
    /\ Op /\ id \in Live
    /\ assigned' = assigned \cup {id}
    /\ UNCHANGED <<up, dev, doc, attached, broken, made, ddns, link>>

Unassign(id) ==
    /\ Op /\ id \in assigned
    /\ assigned' = assigned \ {id}
    /\ UNCHANGED <<up, dev, doc, attached, broken, made, ddns, link>>

\* GSApiDeviceTailscaleLinkPUT up to its call of the store.
LinkRequest(id, node, ips) ==
    /\ Op /\ link = None /\ id \in Live
    /\ link' = [id |-> id, node |-> node, ips |-> ips, protected |-> assigned]
    /\ UNCHANGED <<up, dev, doc, attached, broken, made, assigned, ddns>>

\* Mutant: the owner of the node is not looked up.
LinkAllowedByAddress(l) ==
    /\ l.id \in Live
    /\ \A ip \in l.ips, o \in Ids : o \in Claims(ip) \ {l.id} => ~Durable(dev[o]) /\ o \notin l.protected

LinkAllowed(l) ==
    /\ l.id \in Live
    /\ \A o \in Live \ {l.id} : l.node \notin LinkedNodes(dev[o])
    /\ \A ip \in l.ips, o \in Ids : o \in Claims(ip) \ {l.id} => ~Durable(dev[o]) /\ o \notin l.protected

\* LinkTailscaleIdentityProtectedE; the transient holders of the address
\* leave the memory, and the document is written for the linked device only.
LinkTailscaleIdentity ==
    /\ link # None /\ link' = None
    /\ IF LinkAllowed(link)
         THEN LET d == dev[link.id]
                  ips == link.ips \cup (IF d.nodes[link.node] = None THEN {} ELSE d.nodes[link.node])
                  transient == {o \in (UNION {Claims(ip) : ip \in link.ips}) \ {link.id} :
                                  ~Durable(dev[o]) /\ o \notin link.protected} IN
              Mutate({link.id}, [id \in Ids |-> IF id \in transient THEN None
                                                ELSE IF id = link.id THEN [d EXCEPT !.nodes[link.node] = ips]
                                                ELSE dev[id]])
         ELSE UNCHANGED <<dev, doc, attached, broken>>
    /\ UNCHANGED <<up, made, assigned, ddns, ops>>

UnlinkTailscaleIdentity(id, node) ==
    /\ Op /\ id \in Live /\ node \in LinkedNodes(dev[id])
    /\ Mutate({id}, [dev EXCEPT ![id].nodes[node] = None])
    /\ UNCHANGED <<up, made, assigned, ddns, link>>

-----------------------------------------------------------------------------
(* The Tailscale manager *)

\* Every linked node gets the addresses peers gives it, none when it is not a
\* peer or is offline.
WithAddresses(peers) ==
    [id \in Ids |-> IF dev[id] = None THEN None
                    ELSE [dev[id] EXCEPT !.nodes = [n \in Nodes |-> IF @[n] = None THEN None ELSE peers[n]]]]

ApplyTailscaleSnapshot(peers) ==
    /\ Op
    /\ Mutate({id \in Live : LinkedNodes(dev[id]) # {}}, WithAddresses(peers))
    /\ UNCHANGED <<up, made, assigned, ddns, link>>

\* ClearTailscaleObservations writes nothing.
ClearTailscaleObservations ==
    /\ Op
    /\ dev' = WithAddresses([n \in Nodes |-> {}])
    /\ UNCHANGED <<up, doc, attached, broken, made, assigned, ddns, link>>

-----------------------------------------------------------------------------
(* DNS UPDATE: deletions, then additions, then the cleanup *)

\* applyDDNSDelete looks up the records of a name, of one value or of any;
\* without a value only the first record counts.
Holders(name, ip) == {id \in Live : dev[id].dns = name /\ dev[id].lan # None /\ ip \in {None, dev[id].lan}}

DDNSDelete(name, ip) ==
    /\ Op /\ ddns.at = "idle"
    /\ \E todo \in SUBSET Holders(name, ip) :
         /\ ip # None => todo = Holders(name, ip)
         /\ ip = None => Cardinality(todo) = 1 \/ Holders(name, ip) = {}
         /\ ddns' = [Idle EXCEPT !.at = IF todo = {} THEN "add" ELSE "clear", !.todo = todo]
    /\ UNCHANGED <<up, dev, doc, attached, broken, made, assigned, link>>

\* ClearDeviceAddress
DDNSClear(id) ==
    /\ ddns.at = "clear" /\ id \in ddns.todo
    /\ dev' = IF id \in Live THEN [dev EXCEPT ![id].lan = None] ELSE dev
    /\ ddns' = [ddns EXCEPT !.todo = @ \ {id}, !.at = IF ddns.todo = {id} THEN "add" ELSE @]
    /\ UNCHANGED <<up, doc, attached, broken, made, assigned, link, ops>>

\* applyDDNSAdd up to the upsert: by host name, else the first claim of the address.
Found(name, ip) ==
    LET byName == {id \in Live : name \in dev[id].names} IN
    IF byName # {} THEN byName
    ELSE IF Claims(ip) # {} THEN {CHOOSE id \in Claims(ip) : \A o \in Claims(ip) : id <= o}
    ELSE {None}

DDNSFind(name, ip) ==
    /\ \/ ddns.at = "idle" /\ Op
       \/ ddns.at = "add" /\ UNCHANGED ops
    /\ \E id \in Found(name, ip) :
         ddns' = [Idle EXCEPT !.at = "upsert", !.id = id, !.name = name, !.ip = ip]
    /\ UNCHANGED <<up, dev, doc, attached, broken, made, assigned, link>>

\* UpsertDevice, with the MAC of the address in the ARP table.
DDNSUpsert(mac) ==
    /\ ddns.at = "upsert"
    /\ ddns.id = None => made < MaxDevices
    /\ LET id == IF ddns.id = None THEN made + 1 ELSE ddns.id IN
       /\ made' = IF ddns.id = None THEN made + 1 ELSE made
       /\ Mutate({id}, Upserted(id, ddns.ip, mac, ddns.name))
    /\ ddns' = [Idle EXCEPT !.at = "cleanup"]
    /\ UNCHANGED <<up, assigned, link, ops>>

\* cleanupOrphanedDevices: a list of all devices, then one removal after the other.
DDNSList ==
    /\ ddns.at \in {"add", "cleanup"}
    /\ LET todo == {id \in Live : dev[id].lan = None /\ ~dev[id].persistent} IN
       ddns' = [Idle EXCEPT !.at = IF todo = {} THEN "idle" ELSE "remove", !.todo = todo]
    /\ UNCHANGED <<up, dev, doc, attached, broken, made, assigned, link, ops>>

DDNSRemove(id) ==
    /\ ddns.at = "remove" /\ id \in ddns.todo
    /\ IF id \in Live THEN Mutate({id}, [dev EXCEPT ![id] = None])
                      ELSE UNCHANGED <<dev, doc, attached, broken>>
    /\ ddns' = [ddns EXCEPT !.todo = @ \ {id}, !.at = IF ddns.todo = {id} THEN "idle" ELSE @]
    /\ UNCHANGED <<up, made, assigned, link, ops>>

-----------------------------------------------------------------------------
(* The process ends and starts again *)

\* migrateDeviceAssignments
Migrated ==
    [version |-> 2,
     assignments |-> [id \in Ids |->
        LET a == doc.assignments[id] IN
        IF a # None /\ doc.version = 1 /\ ~(a.persistent \/ a.label) /\ id \notin assigned
        THEN None ELSE a]]

\* AttachPersistenceWithProtectedIDs, which may fail at every point.
AttachPersistence ==
    \/ /\ attached' = TRUE /\ broken' = FALSE
       /\ doc' = Migrated
       /\ dev' = [id \in Ids |-> IF Migrated.assignments[id] = None THEN None
                                 ELSE assignmentDevice(Migrated.assignments[id])]
    \/ attached' = FALSE /\ doc' \in {doc, Migrated} /\ UNCHANGED <<dev, broken>>

Start ==
    /\ ~up /\ up' = TRUE
    /\ AttachPersistence
    /\ UNCHANGED <<made, assigned, ddns, link, ops>>

Crash ==
    /\ Op /\ up' = FALSE
    /\ dev' = [id \in Ids |-> None] /\ attached' = FALSE /\ broken' = FALSE
    /\ ddns' = Idle /\ link' = None
    /\ UNCHANGED <<doc, made, assigned>>

Init ==
    /\ doc \in OldDocs
    /\ up = FALSE /\ dev = [id \in Ids |-> None] /\ attached = FALSE /\ broken = FALSE
    /\ made = Cardinality({id \in Ids : doc.assignments[id] # None})
    /\ assigned \in SUBSET (1 .. made)
    /\ ddns = Idle /\ link = None /\ ops = 0

Next ==
    \/ \E ip \in IPs, mac \in MACs \cup {None}, name \in Names \cup {None} : ObserveDevice(ip, mac, name)
    \/ \E id \in Ids : RemoveDevice(id) \/ Assign(id) \/ Unassign(id) \/ DDNSClear(id) \/ DDNSRemove(id)
    \/ \E id \in Ids, label \in BOOLEAN : SetLabel(id, label)
    \/ \E id \in Ids, node \in Nodes : UnlinkTailscaleIdentity(id, node)
    \/ \E id \in Ids, node \in Nodes, ips \in SUBSET IPs : LinkRequest(id, node, ips)
    \/ LinkTailscaleIdentity \/ ClearTailscaleObservations
    \/ \E peers \in [Nodes -> SUBSET IPs] : ApplyTailscaleSnapshot(peers)
    \/ \E name \in Names, ip \in IPs \cup {None} : DDNSDelete(name, ip)
    \/ \E name \in Names, ip \in IPs : DDNSFind(name, ip)
    \/ \E mac \in MACs \cup {None} : DDNSUpsert(mac)
    \/ DDNSList \/ Start \/ Crash

Spec == Init /\ [][Next]_vars

-----------------------------------------------------------------------------
(* Properties *)

\* Devices, document and the callers under way keep their shape, and a store
\* that is attached has the current version (AttachPersistence).
TypeOK ==
    /\ dev \in [Ids -> Device \cup {None}] /\ doc \in Document
    /\ {up, attached, broken} \subseteq BOOLEAN /\ made \in 0 .. MaxDevices /\ assigned \subseteq Ids
    /\ ddns \in Update /\ link \in Request \cup {None} /\ ops \in 0 .. MaxOps
    /\ attached => doc.version = 2

\* While the store works, the devices worth keeping and the stored
\* assignments are the same: nothing a user entered is in memory only, and
\* no record waits for a restart to come back.  A record may be left that
\* holds nothing a user entered.
DurableMatchesMemory ==
    attached /\ ~broken =>
        \A id \in Ids :
           LET a == doc.assignments[id] IN
           /\ dev[id] # None /\ Durable(dev[id]) => a = assignmentRecord(dev[id])
           /\ a # None /\ (a.persistent \/ a.label \/ a.nodes # {}) => dev[id] # None /\ Durable(dev[id])

\* A Tailscale node is linked to at most one device, in memory and in the
\* document: decodeDeviceAssignmentsVersion refuses a document in which it is
\* not, and then no assignment is restored at all.
NodeLinkedOnce ==
    \A n \in Nodes, a, b \in Ids :
       a # b => /\ ~(dev[a] # None /\ dev[b] # None /\ n \in LinkedNodes(dev[a]) \cap LinkedNodes(dev[b]))
                /\ ~(doc.assignments[a] # None /\ doc.assignments[b] # None
                       /\ n \in doc.assignments[a].nodes \cap doc.assignments[b].nodes)

\* Two devices come to share a MAC only by the upsert of DNS UPDATE, which
\* takes the MAC from the ARP table without asking whose it is.  Once shared,
\* every observation with that MAC is ambiguous.
MACShared(m) ==
    \E a, b \in Ids :
       /\ a # b
       /\ \/ dev[a] # None /\ dev[b] # None /\ m \in dev[a].macs \cap dev[b].macs
          \/ doc.assignments[a] # None /\ doc.assignments[b] # None
             /\ m \in doc.assignments[a].macs \cap doc.assignments[b].macs
SharedMACOnlyByDDNS ==
    [][\A m \in MACs : ~MACShared(m) /\ MACShared(m)' => ddns.at = "upsert" /\ ddns'.at = "cleanup"]_vars

\* The record of a device the user has edited leaves the document only when
\* the user removes the device, or by a cleanup of DNS UPDATE that listed
\* the device before.
PersistentStays ==
    [][\A id \in Ids :
         doc.assignments[id] # None /\ doc.assignments[id].persistent /\ doc'.assignments[id] = None =>
            RemoveDevice(id) \/ (ddns.at = "remove" /\ id \in ddns.todo)]_vars

\* What the documentation of the migration says: a "stable Tailscale link
\* remains attached".  A stored link ends only when the user unlinks it or
\* removes the device.
LinkStaysAttached ==
    [][\A id \in Ids, n \in Nodes :
         doc.assignments[id] # None /\ n \in doc.assignments[id].nodes
           /\ (doc'.assignments[id] = None \/ n \notin doc'.assignments[id].nodes) =>
            RemoveDevice(id) \/ UnlinkTailscaleIdentity(id, n)]_vars

=============================================================================
