-------------------------- MODULE DeviceStoreProofs --------------------------
(***************************************************************************)
(* Proofs about DeviceStore, for every set of addresses, MACs, names and    *)
(* nodes, every number of devices and every document an older process left.*)
(*                                                                          *)
(* DurableMatchesMemory is not inductive: it lets a record stay that holds  *)
(* nothing a user entered, and says nothing about it.  Such a record comes  *)
(* from a document of version 1 and is kept because a policy names it.  The *)
(* invariant Matching says what it is: the device is in memory as the       *)
(* record describes it and has not been seen since, for the first           *)
(* observation, of whatever address, deletes the record.  So a link cannot  *)
(* drop the device and leave the record behind, and the document never says *)
(* more than the memory.                                                    *)
(***************************************************************************)
EXTENDS DeviceStore, FiniteSetTheorems, WellFoundedInduction, TLAPS

(* What the record of one device and the device have to do with each other. *)
Match(d, a) ==
    /\ d # None /\ Durable(d) => a = assignmentRecord(d)
    /\ a # None => d # None /\ a = assignmentRecord(d) /\ (Durable(d) \/ d.lan = None)

Matching == attached /\ ~broken => \A id \in Ids : Match(dev[id], doc.assignments[id])

(* The two halves of NodeLinkedOnce and of MACShared.                       *)
NodesApart(D) ==
    \A n \in Nodes, a, b \in Ids :
       a # b /\ D[a] # None /\ D[b] # None => ~(n \in LinkedNodes(D[a]) /\ n \in LinkedNodes(D[b]))
RecordsApart(A) ==
    \A n \in Nodes, a, b \in Ids :
       a # b /\ A[a] # None /\ A[b] # None => ~(n \in A[a].nodes /\ n \in A[b].nodes)
Shares(m, D) ==
    \E a, b \in Ids : a # b /\ D[a] # None /\ D[b] # None /\ m \in D[a].macs /\ m \in D[b].macs

DevicesInv == TypeOK /\ Matching /\ NodesApart(dev) /\ RecordsApart(doc.assignments)

(* What one step may do, the bodies of the two action properties.           *)
MACStep == \A m \in MACs : ~MACShared(m) /\ MACShared(m)' => ddns.at = "upsert" /\ ddns'.at = "cleanup"
RecordStep ==
    \A id \in Ids :
       doc.assignments[id] # None /\ doc.assignments[id].persistent /\ doc'.assignments[id] = None =>
          RemoveDevice(id) \/ (ddns.at = "remove" /\ id \in ddns.todo)

-----------------------------------------------------------------------------
(* Devices and records *)

(* The record of a device is a record, and its nodes are the linked ones.   *)
LEMMA RecordType ==
    ASSUME NEW d \in Device
    PROVE  /\ assignmentRecord(d) \in DeviceAssignment
           /\ assignmentRecord(d) # None /\ d # None
           /\ assignmentRecord(d).nodes = LinkedNodes(d)
           /\ assignmentRecord(d).macs = d.macs
           /\ assignmentRecord(d).persistent = d.persistent
           /\ Durable(d) \in BOOLEAN
  BY DeviceAssumption DEF assignmentRecord, LinkedNodes, Device, DeviceAssignment, Durable

(* A device restored from a record has that record: the nodes are linked,   *)
(* without an address yet (assignmentDevice).                               *)
LEMMA RestoredDevice ==
    ASSUME NEW a \in DeviceAssignment
    PROVE  /\ assignmentDevice(a) \in Device
           /\ LinkedNodes(assignmentDevice(a)) = a.nodes
           /\ assignmentRecord(assignmentDevice(a)) = a
           /\ assignmentDevice(a).lan = None
           /\ assignmentDevice(a).macs = a.macs
  <1> DEFINE d == assignmentDevice(a)
             N == [n \in Nodes |-> IF n \in a.nodes THEN {} ELSE None]
  <1>1. N \in [Nodes -> {None} \cup SUBSET IPs]
    OBVIOUS
  <1>2. d \in Device /\ d.nodes = N /\ d.lan = None /\ d.macs = a.macs
    BY <1>1 DEF assignmentDevice, Device, DeviceAssignment
  <1>3. {} \in SUBSET IPs /\ {} # None
    BY DeviceAssumption
  <1>4. LinkedNodes(d) = a.nodes
    <2>1. \A n \in Nodes : d.nodes[n] # None <=> n \in a.nodes
      BY <1>2, <1>3
    <2>2. a.nodes \subseteq Nodes
      BY DEF DeviceAssignment
    <2> QED BY <2>1, <2>2 DEF LinkedNodes
  <1>5. assignmentRecord(d) = a
    <2>1. assignmentRecord(d) = [macs |-> a.macs, names |-> a.names, dns |-> a.dns, label |-> a.label,
                                 persistent |-> a.persistent, nodes |-> a.nodes]
      BY <1>4 DEF assignmentRecord, assignmentDevice
    <2> QED BY <2>1 DEF DeviceAssignment
  <1> QED BY <1>2, <1>4, <1>5

(* A record in the document that matches a device is the record of it, so   *)
(* the document does not connect what the memory keeps apart.               *)
LEMMA DocumentFollows ==
    ASSUME NEW D \in [Ids -> Device \cup {None}], NEW A \in [Ids -> DeviceAssignment \cup {None}],
           \A id \in Ids : A[id] # None => D[id] # None /\ A[id] = assignmentRecord(D[id])
    PROVE  /\ NodesApart(D) => RecordsApart(A)
           /\ \A m \in MACs : Shares(m, A) => Shares(m, D)
  <1>1. \A id \in Ids : A[id] # None =>
            D[id] # None /\ A[id].nodes = LinkedNodes(D[id]) /\ A[id].macs = D[id].macs
    BY RecordType
  <1> QED BY <1>1 DEF NodesApart, RecordsApart, Shares

(* The properties in terms of the two halves. *)
LEMMA Halves ==
    /\ NodeLinkedOnce <=> NodesApart(dev) /\ RecordsApart(doc.assignments)
    /\ \A m : MACShared(m) <=> Shares(m, dev) \/ Shares(m, doc.assignments)
  BY DEF NodeLinkedOnce, NodesApart, RecordsApart, MACShared, Shares

-----------------------------------------------------------------------------
(* A mutation of the store *)

(* What every step owes: the invariant, and the two action properties.      *)
Owed == DevicesInv' /\ MACStep /\ RecordStep

(* The document a mutation writes has its shape and says of every device    *)
(* what memory will say, of the devices it does not touch included.         *)
LEMMA PersistedFollows ==
    ASSUME TypeOK, NEW S \in SUBSET Ids, NEW next \in [Ids -> Device \cup {None}],
           \A id \in Ids \ S : Match(next[id], doc.assignments[id])
    PROVE  /\ Persisted(S, next) \in Document
           /\ Persisted(S, next).version = 2
           /\ \A id \in Ids : Match(next[id], Persisted(S, next).assignments[id])
  <1> DEFINE A == Persisted(S, next).assignments
  <1>0. doc.assignments \in [Ids -> DeviceAssignment \cup {None}]
    BY DEF TypeOK, Document
  <1>1. A = [id \in Ids |->
               IF id \notin S THEN doc.assignments[id]
               ELSE IF next[id] # None /\ Durable(next[id]) THEN assignmentRecord(next[id]) ELSE None]
    BY DEF Persisted
  <1>2. A \in [Ids -> DeviceAssignment \cup {None}]
    BY <1>0, <1>1, RecordType
  <1>3. \A id \in Ids : Match(next[id], A[id])
    <2>1. SUFFICES ASSUME NEW id \in Ids PROVE Match(next[id], A[id])
      OBVIOUS
    <2>2. CASE id \notin S
      BY <1>1, <2>2
    <2>3. CASE id \in S
      BY <1>1, <2>3 DEF Match
    <2> QED BY <2>2, <2>3
  <1> QED BY <1>2, <1>3 DEF Persisted, Document

(* A mutation (Mutate) that keeps the nodes apart in memory keeps the       *)
(* invariant, however the write ends; a MAC comes to be shared only if      *)
(* memory was to share it; and a record of an edited device is lost only if *)
(* the mutation was to drop the device or its edit.                         *)
LEMMA MutateStep ==
    ASSUME DevicesInv, NEW S \in SUBSET Ids, NEW next \in [Ids -> Device \cup {None}],
           attached /\ ~broken => \A id \in Ids \ S : Match(next[id], doc.assignments[id]),
           NodesApart(next),
           Mutate(S, next)
    PROVE  /\ dev' \in [Ids -> Device \cup {None}] /\ doc' \in Document
           /\ attached' \in BOOLEAN /\ broken' \in BOOLEAN /\ (attached' => doc'.version = 2)
           /\ Matching' /\ NodesApart(dev') /\ RecordsApart(doc'.assignments)
           /\ \A m \in MACs : MACShared(m)' => MACShared(m) \/ Shares(m, next)
           /\ \A id \in Ids :
                 doc.assignments[id] # None /\ doc.assignments[id].persistent /\ doc'.assignments[id] = None =>
                    id \in S /\ dev[id] # None /\ dev[id].persistent /\ (next[id] = None \/ ~next[id].persistent)
  <1> DEFINE new == Persisted(S, next)
  <1>t. /\ dev \in [Ids -> Device \cup {None}] /\ doc \in Document
        /\ attached \in BOOLEAN /\ broken \in BOOLEAN /\ (attached => doc.version = 2)
        /\ Matching /\ NodesApart(dev) /\ RecordsApart(doc.assignments)
    BY DEF DevicesInv, TypeOK
  <1>h. \A m : MACShared(m)' <=> Shares(m, dev') \/ Shares(m, doc'.assignments)
    BY DEF MACShared, Shares
  <1>a. attached' = attached
    BY DEF Mutate
  <1>1. CASE ~attached /\ dev' = next /\ UNCHANGED <<doc, broken>>
    <2>1. Matching'
      BY <1>1, <1>a DEF Matching
    <2> QED BY <1>1, <1>a, <1>t, <1>h, <2>1, Halves
  <1>2. CASE attached /\ broken /\ UNCHANGED <<dev, doc, broken>>
    <2>1. Matching'
      BY <1>2, <1>a DEF Matching
    <2> QED BY <1>2, <1>a, <1>t, <1>h, <2>1, Halves
  <1>3. CASE attached /\ ~broken /\ (dev' = next \/ dev' = dev) /\ (doc' = new \/ doc' = doc)
              /\ broken' \in BOOLEAN /\ (~broken' => (dev' = next /\ doc' = new) \/ (dev' = dev /\ doc' = doc))
    <2>0. /\ new \in Document /\ new.version = 2
          /\ \A id \in Ids : Match(next[id], new.assignments[id])
      BY <1>3, PersistedFollows DEF DevicesInv
    <2>1. new.assignments \in [Ids -> DeviceAssignment \cup {None}]
      BY <2>0 DEF Document
    <2>2. \A id \in Ids : new.assignments[id] # None =>
              next[id] # None /\ new.assignments[id] = assignmentRecord(next[id])
      BY <2>0 DEF Match
    <2>3. RecordsApart(new.assignments) /\ \A m \in MACs : Shares(m, new.assignments) => Shares(m, next)
      BY <2>1, <2>2, DocumentFollows
    <2>4. Matching'
      <3>1. CASE dev' = next /\ doc' = new
        BY <3>1, <2>0 DEF Matching
      <3>2. CASE dev' = dev /\ doc' = doc
        BY <3>2, <1>t, <1>3 DEF Matching
      <3>3. CASE broken'
        BY <3>3 DEF Matching
      <3> QED BY <3>1, <3>2, <3>3, <1>3
    <2>5. \A m \in MACs : MACShared(m)' => MACShared(m) \/ Shares(m, next)
      BY <1>3, <1>h, <2>3, Halves
    <2>6. ASSUME NEW id \in Ids, doc.assignments[id] # None, doc.assignments[id].persistent,
                 doc'.assignments[id] = None
          PROVE  id \in S /\ dev[id] # None /\ dev[id].persistent /\ (next[id] = None \/ ~next[id].persistent)
      <3>1. doc' = new
        BY <1>3, <2>6
      <3>2. dev[id] # None /\ doc.assignments[id] = assignmentRecord(dev[id])
        BY <1>3, <1>t, <2>6 DEF Matching, Match
      <3>3. dev[id].persistent
        BY <3>2, <2>6, <1>t, RecordType
      <3>4. new.assignments[id] = IF id \notin S THEN doc.assignments[id]
               ELSE IF next[id] # None /\ Durable(next[id]) THEN assignmentRecord(next[id]) ELSE None
        BY DEF Persisted
      <3>5. id \in S /\ (next[id] = None \/ ~Durable(next[id]))
        BY <3>1, <3>4, <2>6, RecordType
      <3>6. next[id] # None => (next[id].persistent => Durable(next[id]))
        BY DEF Durable
      <3> QED BY <3>2, <3>3, <3>5, <3>6
    <2> QED BY <1>3, <1>a, <1>t, <2>0, <2>3, <2>4, <2>5, <2>6
  <1>4. \/ ~attached /\ dev' = next /\ UNCHANGED <<doc, broken>>
        \/ attached /\ broken /\ UNCHANGED <<dev, doc, broken>>
        \/ attached /\ ~broken /\ (dev' = next \/ dev' = dev) /\ (doc' = new \/ doc' = doc)
              /\ broken' \in BOOLEAN /\ (~broken' => (dev' = next /\ doc' = new) \/ (dev' = dev /\ doc' = doc))
    <2>1. /\ \/ ~attached /\ dev' = next /\ UNCHANGED <<doc, broken>>
             \/ attached /\ ~broken /\ dev' = next /\ doc' = new /\ UNCHANGED broken
             \/ attached /\ ~broken /\ new # doc /\ doc' \in {doc, new} /\ broken' \in BOOLEAN
                 /\ (doc' = new => broken') /\ UNCHANGED dev
             \/ attached /\ broken /\ UNCHANGED <<dev, doc, broken>>
      BY DEF Mutate
    <2> HIDE DEF new
    <2>2. CASE attached /\ ~broken /\ dev' = next /\ doc' = new /\ UNCHANGED broken
      <3>1. broken' \in BOOLEAN
        BY <2>2, <1>t, Zenon
      <3> QED BY <2>2, <3>1, Zenon
    <2>3. CASE attached /\ ~broken /\ new # doc /\ doc' \in {doc, new} /\ broken' \in BOOLEAN
                 /\ (doc' = new => broken') /\ UNCHANGED dev
      <3>1. (doc' = new \/ doc' = doc) /\ dev' = dev
        BY <2>3, Zenon
      <3> QED BY <2>3, <3>1, Zenon
    <2> QED BY <2>1, <2>2, <2>3, Zenon
  <1> QED BY <1>1, <1>2, <1>3, <1>4

-----------------------------------------------------------------------------
(* Kinds of steps *)

(* The part of the type invariant that mutations of the store do not touch. *)
Others == /\ up \in BOOLEAN /\ made \in 0 .. MaxDevices /\ assigned \subseteq Ids
          /\ ddns \in Update /\ link \in Request \cup {None} /\ ops \in 0 .. MaxOps

LEMMA TypeParts ==
    TypeOK <=> /\ dev \in [Ids -> Device \cup {None}] /\ doc \in Document
               /\ attached \in BOOLEAN /\ broken \in BOOLEAN /\ (attached => doc.version = 2)
               /\ Others
  BY DEF TypeOK, Others

(* Devices that have no other nodes than before keep the nodes apart.       *)
LEMMA ApartKept ==
    ASSUME NEW D \in [Ids -> Device \cup {None}], NEW E \in [Ids -> Device \cup {None}], NodesApart(D),
           \A id \in Ids : E[id] # None =>
              LinkedNodes(E[id]) = {} \/ (D[id] # None /\ LinkedNodes(E[id]) \subseteq LinkedNodes(D[id]))
    PROVE  NodesApart(E)
  BY DEF NodesApart

(* Devices that have no other MACs than before share no others.             *)
LEMMA SharesKept ==
    ASSUME NEW D \in [Ids -> Device \cup {None}], NEW E \in [Ids -> Device \cup {None}],
           \A id \in Ids : E[id] # None => E[id].macs = {} \/ (D[id] # None /\ E[id].macs = D[id].macs)
    PROVE  \A m \in MACs : Shares(m, E) => Shares(m, D)
  BY DEF Shares

(* Steps of the callers that leave the store alone.                         *)
LEMMA StoreUntouched ==
    ASSUME DevicesInv, UNCHANGED <<dev, doc, attached, broken>>, Others'
    PROVE  Owed
  <1>1. TypeOK'
    BY TypeParts DEF DevicesInv, TypeOK, Others
  <1>2. Matching' /\ NodesApart(dev') /\ RecordsApart(doc'.assignments)
    BY DEF DevicesInv, Matching
  <1>3. MACStep
    BY DEF MACStep, MACShared
  <1>4. RecordStep
    BY DEF RecordStep
  <1> QED BY <1>1, <1>2, <1>3, <1>4 DEF Owed, DevicesInv

(* Addresses change in memory only (ClearDeviceAddress and                  *)
(* ClearTailscaleObservations): no record changes by it.                    *)
LEMMA MemoryOnly ==
    ASSUME DevicesInv, UNCHANGED <<doc, attached, broken>>, Others',
           dev' \in [Ids -> Device \cup {None}],
           \A id \in Ids : dev'[id] # None <=> dev[id] # None,
           \A id \in Ids : dev[id] # None =>
              /\ assignmentRecord(dev'[id]) = assignmentRecord(dev[id])
              /\ dev'[id].lan \in {None, dev[id].lan}
    PROVE  Owed
  <1>0. dev \in [Ids -> Device \cup {None}]
    BY DEF DevicesInv, TypeOK
  <1>1. TypeOK'
    BY DEF DevicesInv, TypeOK, Others
  <1>2. \A id \in Ids : dev[id] # None =>
           /\ LinkedNodes(dev'[id]) = LinkedNodes(dev[id]) /\ dev'[id].macs = dev[id].macs
           /\ Durable(dev'[id]) <=> Durable(dev[id])
    <2>1. ASSUME NEW id \in Ids, dev[id] # None
          PROVE  /\ LinkedNodes(dev'[id]) = LinkedNodes(dev[id]) /\ dev'[id].macs = dev[id].macs
                 /\ dev'[id].persistent = dev[id].persistent /\ dev'[id].label = dev[id].label
      BY <1>0, <2>1 DEF assignmentRecord
    <2> QED BY <2>1 DEF Durable
  <1>3. Matching'
    BY <1>0, <1>2 DEF DevicesInv, Matching, Match
  <1>4. NodesApart(dev')
    BY <1>0, <1>2, ApartKept DEF DevicesInv
  <1>5. \A m \in MACs : Shares(m, dev') => Shares(m, dev)
    BY <1>0, <1>2, SharesKept
  <1>6. MACStep
    BY <1>5 DEF MACStep, MACShared, Shares
  <1>7. RecordStep
    BY DEF RecordStep
  <1> QED BY <1>1, <1>3, <1>4, <1>6, <1>7 DEF Owed, DevicesInv

(* A mutation that neither adds nodes to a device, except to one that has   *)
(* none of the others' nodes, nor MACs, and keeps the edited devices.       *)
LEMMA MutationOwed ==
    ASSUME DevicesInv, Others', NEW S \in SUBSET Ids, NEW next \in [Ids -> Device \cup {None}],
           attached /\ ~broken => \A id \in Ids \ S : Match(next[id], doc.assignments[id]),
           NodesApart(next),
           \A m \in MACs : Shares(m, next) => Shares(m, dev) \/ (ddns.at = "upsert" /\ ddns'.at = "cleanup"),
           \A id \in S : dev[id] # None /\ dev[id].persistent =>
              \/ next[id] # None /\ next[id].persistent
              \/ RemoveDevice(id) \/ (ddns.at = "remove" /\ id \in ddns.todo),
           Mutate(S, next)
    PROVE  Owed
  <1>1. /\ dev' \in [Ids -> Device \cup {None}] /\ doc' \in Document
        /\ attached' \in BOOLEAN /\ broken' \in BOOLEAN /\ (attached' => doc'.version = 2)
        /\ Matching' /\ NodesApart(dev') /\ RecordsApart(doc'.assignments)
        /\ \A m \in MACs : MACShared(m)' => MACShared(m) \/ Shares(m, next)
        /\ \A id \in Ids :
              doc.assignments[id] # None /\ doc.assignments[id].persistent /\ doc'.assignments[id] = None =>
                 id \in S /\ dev[id] # None /\ dev[id].persistent /\ (next[id] = None \/ ~next[id].persistent)
    BY MutateStep
  <1>2. TypeOK'
    BY <1>1 DEF TypeOK, Others
  <1>3. MACStep
    BY <1>1, Halves DEF MACStep
  <1>4. RecordStep
    BY <1>1 DEF RecordStep
  <1> QED BY <1>1, <1>2, <1>3, <1>4 DEF Owed, DevicesInv

(* A mutation of one device that gives it no nodes and no MACs.             *)
LEMMA OneDevice ==
    ASSUME DevicesInv, Others', NEW id \in Live, NEW d \in Device,
           LinkedNodes(d) \subseteq LinkedNodes(dev[id]), d.macs = dev[id].macs,
           dev[id].persistent => d.persistent,
           Mutate({id}, [dev EXCEPT ![id] = d])
    PROVE  Owed
  <1> DEFINE next == [dev EXCEPT ![id] = d]
  <1>0. dev \in [Ids -> Device \cup {None}] /\ id \in Ids /\ dev[id] # None
    BY DEF DevicesInv, TypeOK, Live
  <1>1. next \in [Ids -> Device \cup {None}] /\ next[id] = d /\ \A o \in Ids \ {id} : next[o] = dev[o]
    BY <1>0
  <1>2. d # None
    BY DeviceAssumption
  <1>3. NodesApart(next)
    BY <1>0, <1>1, <1>2, ApartKept DEF DevicesInv
  <1>4. \A m \in MACs : Shares(m, next) => Shares(m, dev)
    BY <1>0, <1>1, <1>2, SharesKept
  <1>5. attached /\ ~broken => \A o \in Ids \ {id} : Match(next[o], doc.assignments[o])
    BY <1>0, <1>1 DEF DevicesInv, Matching
  <1> HIDE DEF next
  <1>6. Mutate({id}, next)
    BY DEF next
  <1> QED BY <1>0, <1>1, <1>2, <1>3, <1>4, <1>5, <1>6, MutationOwed

(* A device leaves memory and document (RemoveDeviceE).                     *)
LEMMA RemovedDevice ==
    ASSUME DevicesInv, Others', NEW id \in Live, Mutate({id}, [dev EXCEPT ![id] = None]),
           RemoveDevice(id) \/ (ddns.at = "remove" /\ id \in ddns.todo)
    PROVE  Owed
  <1> DEFINE next == [dev EXCEPT ![id] = None]
  <1>0. dev \in [Ids -> Device \cup {None}] /\ id \in Ids
    BY DEF DevicesInv, TypeOK, Live
  <1>1. next \in [Ids -> Device \cup {None}] /\ next[id] = None /\ \A o \in Ids \ {id} : next[o] = dev[o]
    BY <1>0
  <1>2. NodesApart(next)
    BY <1>0, <1>1, ApartKept DEF DevicesInv
  <1>3. \A m \in MACs : Shares(m, next) => Shares(m, dev)
    BY <1>0, <1>1, SharesKept
  <1>4. attached /\ ~broken => \A o \in Ids \ {id} : Match(next[o], doc.assignments[o])
    BY <1>0, <1>1 DEF DevicesInv, Matching
  <1> HIDE DEF next
  <1>5. Mutate({id}, next)
    BY DEF next
  <1> QED BY <1>0, <1>1, <1>2, <1>3, <1>4, <1>5, MutationOwed

(* An upsert (prepareUpsertDeviceLocked) is safe when the MAC it brings is  *)
(* the device's own or nobody's, and is the upsert of DNS UPDATE otherwise. *)
LEMMA UpsertStep ==
    ASSUME DevicesInv, Others', NEW id \in Ids, NEW ip \in IPs \cup {None}, NEW mac \in MACs \cup {None},
           NEW name \in Names \cup {None}, Mutate({id}, Upserted(id, ip, mac, name)),
           \/ ddns.at = "upsert" /\ ddns'.at = "cleanup"
           \/ \A o \in Live \ {id} : mac \notin dev[o].macs
           \/ id \in Live /\ mac \in dev[id].macs
    PROVE  Owed
  <1> DEFINE old == IF dev[id] = None THEN NewDevice ELSE dev[id]
             d == [old EXCEPT !.lan = ip, !.macs = @ \cup ({mac} \ {None}),
                              !.names = @ \cup ({name} \ {None}), !.dns = IF name = None THEN @ ELSE name]
             next == [dev EXCEPT ![id] = d]
  <1>0. dev \in [Ids -> Device \cup {None}]
    BY DEF DevicesInv, TypeOK
  <1>1. NewDevice \in Device /\ LinkedNodes(NewDevice) = {} /\ NewDevice.macs = {}
    BY DEF NewDevice, Device, LinkedNodes
  <1>2. old \in Device
    BY <1>0, <1>1
  <1>3. d \in Device /\ d.nodes = old.nodes /\ d.macs = old.macs \cup ({mac} \ {None})
          /\ d.persistent = old.persistent
    <2> HIDE DEF old
    <2> QED BY <1>2 DEF Device
  <1>4. LinkedNodes(d) = LinkedNodes(old)
    BY <1>3 DEF LinkedNodes
  <1>5. Upserted(id, ip, mac, name) = next
    BY DEF Upserted
  <1> HIDE DEF d
  <1>6. next \in [Ids -> Device \cup {None}] /\ next[id] = d /\ \A o \in Ids \ {id} : next[o] = dev[o]
    BY <1>0, <1>3
  <1>7. d # None
    BY <1>3, DeviceAssumption
  <1>8. NodesApart(next)
    BY <1>0, <1>1, <1>4, <1>6, ApartKept DEF DevicesInv
  <1>9. \A m \in MACs : Shares(m, next) => Shares(m, dev) \/ (ddns.at = "upsert" /\ ddns'.at = "cleanup")
    <2>1. SUFFICES ASSUME NEW m \in MACs, ~(ddns.at = "upsert" /\ ddns'.at = "cleanup"), Shares(m, next)
                   PROVE  Shares(m, dev)
      OBVIOUS
    <2>2. PICK a \in Ids, b \in Ids : a # b /\ next[a] # None /\ next[b] # None
                                       /\ m \in next[a].macs /\ m \in next[b].macs
      BY <2>1 DEF Shares
    <2>3. CASE mac # m \/ (id \in Live /\ mac \in dev[id].macs)
      <3>1. m \in d.macs => dev[id] # None /\ m \in dev[id].macs
        BY <1>1, <1>3, <2>3 DEF Live
      <3> QED BY <2>2, <3>1, <1>6 DEF Shares
    <2>4. CASE mac = m /\ \A o \in Live \ {id} : mac \notin dev[o].macs
      BY <2>2, <2>4, <1>6 DEF Live
    <2> QED BY <2>1, <2>3, <2>4
  <1>10. attached /\ ~broken => \A o \in Ids \ {id} : Match(next[o], doc.assignments[o])
    BY <1>0, <1>6 DEF DevicesInv, Matching
  <1>11. dev[id] # None /\ dev[id].persistent => next[id] # None /\ next[id].persistent
    BY <1>3, <1>6, <1>7
  <1>12. Mutate({id}, next)
    BY <1>5
  <1> HIDE DEF next, old
  <1> QED BY <1>6, <1>8, <1>9, <1>10, <1>11, <1>12, MutationOwed

-----------------------------------------------------------------------------
(* The actions *)

(* A set of IDs that is not empty has a least element.                      *)
LEMMA LeastOf ==
    ASSUME NEW S \in SUBSET Nat, S # {}
    PROVE  \E n \in S : \A m \in S : n <= m
  <1> DEFINE R == OpToRel(<, Nat)
  <1>1. \A m, n \in Nat : m < n => <<m, n>> \in R
    BY DEF OpToRel
  <1>2. IsWellFoundedOn(R, Nat)
    BY NatLessThanWellFounded
  <1> HIDE DEF R
  <1>3. PICK n \in S : \A m \in S : <<m, n>> \notin R
    BY <1>2, WFMin
  <1>4. \A m \in S : ~(m < n)
    BY <1>1, <1>3
  <1>5. \A m \in S : n <= m
    BY <1>4, SMT
  <1> QED BY <1>5

(* A step that takes up a request keeps the number of operations in bounds. *)
LEMMA OpCounts ==
    ASSUME TypeOK, Op
    PROVE  ops' \in 0 .. MaxOps
  BY DeviceAssumption DEF TypeOK, Op

LEMMA ObserveDeviceOwed ==
    ASSUME DevicesInv, NEW ip \in IPs, NEW mac \in MACs \cup {None}, NEW name \in Names \cup {None},
           ObserveDevice(ip, mac, name)
    PROVE  Owed
  <1> DEFINE c == Candidates(ip, mac)
  <1>0. TypeOK /\ ops' \in 0 .. MaxOps
    BY OpCounts DEF DevicesInv, ObserveDevice
  <1>1. CASE c = {} /\ made < MaxDevices /\ made' = made + 1
              /\ Mutate({made + 1}, Upserted(made + 1, ip, mac, name))
    <2>1. Others' /\ made + 1 \in Ids
      BY <1>0, <1>1, DeviceAssumption DEF TypeOK, Others, Ids, ObserveDevice
    <2>2. \A o \in Live : mac \notin dev[o].macs
      BY <1>1 DEF Candidates
    <2> QED BY <1>1, <2>1, <2>2, UpsertStep
  <1>2. ASSUME NEW id \in c, c = {id}, UNCHANGED made, Mutate({id}, Upserted(id, ip, mac, name))
        PROVE  Owed
    <2>1. Others'
      BY <1>0, <1>2 DEF TypeOK, Others, ObserveDevice
    <2>2. id \in Ids
      BY DEF Candidates, Live, Claims
    <2>3. (\A o \in Live \ {id} : mac \notin dev[o].macs) \/ (id \in Live /\ mac \in dev[id].macs)
      BY <1>2 DEF Candidates
    <2> QED BY <1>2, <2>1, <2>2, <2>3, UpsertStep
  <1> QED BY <1>1, <1>2 DEF ObserveDevice

LEMMA SetLabelOwed ==
    ASSUME DevicesInv, NEW id \in Ids, NEW label \in BOOLEAN, SetLabel(id, label)
    PROVE  Owed
  <1> DEFINE d == [dev[id] EXCEPT !.label = label, !.persistent = TRUE]
  <1>0. dev \in [Ids -> Device \cup {None}] /\ dev[id] \in Device /\ id \in Live /\ TypeOK
    BY DEF DevicesInv, TypeOK, SetLabel, Live
  <1>1. Others'
    BY <1>0, OpCounts DEF TypeOK, Others, SetLabel
  <1>2. d \in Device /\ d.nodes = dev[id].nodes /\ d.macs = dev[id].macs /\ d.persistent
    BY <1>0 DEF Device
  <1>3. LinkedNodes(d) = LinkedNodes(dev[id])
    BY <1>2 DEF LinkedNodes
  <1>4. [dev EXCEPT ![id].label = label, ![id].persistent = TRUE] = [dev EXCEPT ![id] = d]
    BY <1>0
  <1>5. Mutate({id}, [dev EXCEPT ![id] = d])
    BY <1>4 DEF SetLabel
  <1> HIDE DEF d
  <1> QED BY <1>0, <1>1, <1>2, <1>3, <1>5, OneDevice

LEMMA RemoveDeviceOwed ==
    ASSUME DevicesInv, NEW id \in Ids, RemoveDevice(id)
    PROVE  Owed
  <1>1. Others' /\ id \in Live
    BY OpCounts DEF DevicesInv, TypeOK, Others, RemoveDevice
  <1>2. Mutate({id}, [dev EXCEPT ![id] = None])
    BY DEF RemoveDevice
  <1> QED BY <1>1, <1>2, RemovedDevice

LEMMA UnlinkOwed ==
    ASSUME DevicesInv, NEW id \in Ids, NEW node \in Nodes, UnlinkTailscaleIdentity(id, node)
    PROVE  Owed
  <1> DEFINE d == [dev[id] EXCEPT !.nodes = [dev[id].nodes EXCEPT ![node] = None]]
  <1>0. dev \in [Ids -> Device \cup {None}] /\ dev[id] \in Device /\ id \in Live /\ TypeOK
    BY DEF DevicesInv, TypeOK, UnlinkTailscaleIdentity, Live
  <1>1. Others'
    BY <1>0, OpCounts DEF TypeOK, Others, UnlinkTailscaleIdentity
  <1>2. dev[id].nodes \in [Nodes -> {None} \cup SUBSET IPs]
    BY <1>0 DEF Device
  <1>3. d \in Device /\ d.nodes = [dev[id].nodes EXCEPT ![node] = None] /\ d.macs = dev[id].macs
          /\ d.persistent = dev[id].persistent
    BY <1>0, <1>2 DEF Device
  <1>4. LinkedNodes(d) \subseteq LinkedNodes(dev[id])
    BY <1>2, <1>3 DEF LinkedNodes
  <1>5. [dev EXCEPT ![id].nodes[node] = None] = [dev EXCEPT ![id] = d]
    BY <1>0
  <1>6. Mutate({id}, [dev EXCEPT ![id] = d])
    BY <1>5 DEF UnlinkTailscaleIdentity
  <1> HIDE DEF d
  <1> QED BY <1>0, <1>1, <1>3, <1>4, <1>6, OneDevice

(* A transient holder of an address, which a link drops from memory without *)
(* writing the document, has no record there: it has been seen at that      *)
(* address, and that deleted the record.                                    *)
LEMMA TransientHasNoRecord ==
    ASSUME DevicesInv, attached, ~broken, NEW ip \in IPs, NEW o \in Claims(ip), ~Durable(dev[o])
    PROVE  doc.assignments[o] = None
  <1>1. o \in Ids /\ dev[o] # None /\ ip \in Addresses(dev[o])
    BY DEF Claims, Live
  <1>2. LinkedNodes(dev[o]) = {}
    BY DEF Durable
  <1>3. UNION {dev[o].nodes[n] : n \in LinkedNodes(dev[o])} = {}
    BY <1>2
  <1>4. dev[o].lan # None
    BY <1>1, <1>3 DEF Addresses
  <1> QED BY <1>1, <1>4 DEF DevicesInv, Matching, Match

LEMMA LinkOwed ==
    ASSUME DevicesInv, LinkTailscaleIdentity
    PROVE  Owed
  <1> DEFINE i == link.id
             d == dev[i]
             ips == link.ips \cup (IF d.nodes[link.node] = None THEN {} ELSE d.nodes[link.node])
             transient == {o \in (UNION {Claims(ip) : ip \in link.ips}) \ {i} :
                             ~Durable(dev[o]) /\ o \notin link.protected}
             linked == [d EXCEPT !.nodes = [d.nodes EXCEPT ![link.node] = ips]]
             next == [id \in Ids |-> IF id \in transient THEN None ELSE IF id = i THEN linked ELSE dev[id]]
  <1>0. dev \in [Ids -> Device \cup {None}] /\ TypeOK /\ NodesApart(dev)
    BY DEF DevicesInv, TypeOK
  <1>1. i \in Ids /\ link.node \in Nodes /\ link.ips \in SUBSET IPs
    BY DEF DevicesInv, TypeOK, LinkTailscaleIdentity, Request
  <1>2. Others'
    BY <1>0 DEF TypeOK, Others, LinkTailscaleIdentity
  <1>3. CASE ~LinkAllowed(link)
    <2>1. UNCHANGED <<dev, doc, attached, broken>>
      BY <1>3 DEF LinkTailscaleIdentity
    <2> QED BY <2>1, <1>2, StoreUntouched
  <1>4. CASE LinkAllowed(link)
    <2>1. d \in Device /\ i \in Live /\ \A o \in Live \ {i} : link.node \notin LinkedNodes(dev[o])
      BY <1>0, <1>1, <1>4 DEF LinkAllowed, Live
    <2>2. d.nodes \in [Nodes -> {None} \cup SUBSET IPs]
      BY <2>1 DEF Device
    <2>3. ips \in SUBSET IPs
      BY <1>1, <2>2
    <2> HIDE DEF ips
    <2>4. linked \in Device /\ linked.nodes = [d.nodes EXCEPT ![link.node] = ips] /\ linked.macs = d.macs
            /\ linked.persistent = d.persistent
      BY <2>1, <2>2, <2>3 DEF Device
    <2>5. LinkedNodes(linked) \subseteq LinkedNodes(d) \cup {link.node}
      BY <2>2, <2>4 DEF LinkedNodes
    <2>6. Mutate({i}, next)
      <3>1. [d EXCEPT !.nodes[link.node] = ips] = linked
        BY <2>1
      <3> QED BY <1>4, <3>1 DEF LinkTailscaleIdentity, ips
    <2>7. linked # None /\ i \notin transient
      <3>1. i \notin transient
        OBVIOUS
      <3> HIDE DEF linked, transient
      <3> QED BY <2>4, <3>1, DeviceAssumption
    <2>8. \A o \in transient : attached /\ ~broken => doc.assignments[o] = None
      BY <1>1, TransientHasNoRecord
    <2> HIDE DEF linked, transient
    <2>9. /\ next \in [Ids -> Device \cup {None}] /\ next[i] = linked
          /\ \A o \in Ids \ {i} : next[o] = dev[o] \/ (next[o] = None /\ o \in transient)
      BY <1>0, <1>1, <2>4, <2>7
    <2> HIDE DEF next
    <2>10. NodesApart(next)
      BY <1>0, <1>1, <2>1, <2>5, <2>9 DEF NodesApart, Live
    <2>11. \A m \in MACs : Shares(m, next) => Shares(m, dev)
      BY <1>0, <1>1, <2>1, <2>4, <2>9, SharesKept DEF Live
    <2>12. attached /\ ~broken => \A o \in Ids \ {i} : Match(next[o], doc.assignments[o])
      BY <2>8, <2>9 DEF DevicesInv, Matching, Match
    <2>13. dev[i].persistent => next[i] # None /\ next[i].persistent
      BY <2>4, <2>7, <2>9
    <2> QED BY <1>1, <1>2, <2>6, <2>9, <2>10, <2>11, <2>12, <2>13, MutationOwed
  <1> QED BY <1>3, <1>4

(* A snapshot gives linked nodes other addresses and links none: the record *)
(* of a device is the same afterwards.                                      *)
LEMMA AddressesKeepRecords ==
    ASSUME NEW D \in [Ids -> Device \cup {None}], D = dev, NEW peers \in [Nodes -> SUBSET IPs]
    PROVE  /\ WithAddresses(peers) \in [Ids -> Device \cup {None}]
           /\ \A id \in Ids : D[id] = None => WithAddresses(peers)[id] = None
           /\ \A id \in Ids : D[id] # None =>
                 /\ WithAddresses(peers)[id] # None
                 /\ assignmentRecord(WithAddresses(peers)[id]) = assignmentRecord(D[id])
                 /\ LinkedNodes(WithAddresses(peers)[id]) = LinkedNodes(D[id])
                 /\ WithAddresses(peers)[id].lan = D[id].lan
                 /\ WithAddresses(peers)[id].macs = D[id].macs
                 /\ WithAddresses(peers)[id].persistent = D[id].persistent
                 /\ LinkedNodes(D[id]) = {} => WithAddresses(peers)[id] = D[id]
  <1> DEFINE N(d) == [n \in Nodes |-> IF d.nodes[n] = None THEN None ELSE peers[n]]
             e(d) == [d EXCEPT !.nodes = N(d)]
  <1>1. WithAddresses(peers) = [id \in Ids |-> IF D[id] = None THEN None ELSE e(D[id])]
    BY DEF WithAddresses
  <1>2. ASSUME NEW d \in Device
        PROVE  /\ e(d) \in Device /\ e(d) # None
               /\ assignmentRecord(e(d)) = assignmentRecord(d)
               /\ LinkedNodes(e(d)) = LinkedNodes(d)
               /\ e(d).lan = d.lan /\ e(d).macs = d.macs /\ e(d).persistent = d.persistent
               /\ LinkedNodes(d) = {} => e(d) = d
    <2>1. d.nodes \in [Nodes -> {None} \cup SUBSET IPs]
      BY DEF Device
    <2>2. N(d) \in [Nodes -> {None} \cup SUBSET IPs] /\ \A n \in Nodes : N(d)[n] = None <=> d.nodes[n] = None
      BY <2>1, DeviceAssumption
    <2>3. /\ e(d) \in Device /\ e(d).nodes = N(d)
          /\ e(d).lan = d.lan /\ e(d).macs = d.macs /\ e(d).names = d.names /\ e(d).dns = d.dns
          /\ e(d).label = d.label /\ e(d).persistent = d.persistent
      BY <2>2 DEF Device
    <2>4. LinkedNodes(e(d)) = LinkedNodes(d)
      BY <2>2, <2>3 DEF LinkedNodes
    <2>5. assignmentRecord(e(d)) = assignmentRecord(d)
      BY <2>3, <2>4 DEF assignmentRecord
    <2>6. LinkedNodes(d) = {} => e(d) = d
      <3>1. SUFFICES ASSUME LinkedNodes(d) = {} PROVE e(d) = d
        OBVIOUS
      <3>2. \A n \in Nodes : d.nodes[n] = None
        BY <3>1 DEF LinkedNodes
      <3>3. N(d) = d.nodes
        BY <2>1, <3>2
      <3> QED BY <3>3 DEF Device
    <2> QED BY <2>3, <2>4, <2>5, <2>6, DeviceAssumption
  <1> HIDE DEF e
  <1> QED BY <1>1, <1>2

LEMMA ApplySnapshotOwed ==
    ASSUME DevicesInv, NEW peers \in [Nodes -> SUBSET IPs], ApplyTailscaleSnapshot(peers)
    PROVE  Owed
  <1> DEFINE S == {id \in Live : LinkedNodes(dev[id]) # {}}
             next == WithAddresses(peers)
  <1>0. dev \in [Ids -> Device \cup {None}] /\ TypeOK /\ NodesApart(dev) /\ S \in SUBSET Ids
    BY DEF DevicesInv, TypeOK, Live
  <1>1. Others'
    BY <1>0, OpCounts DEF TypeOK, Others, ApplyTailscaleSnapshot
  <1>2. Mutate(S, next)
    BY DEF ApplyTailscaleSnapshot
  <1>3. /\ next \in [Ids -> Device \cup {None}]
        /\ \A id \in Ids : dev[id] = None => next[id] = None
        /\ \A id \in Ids : dev[id] # None =>
              /\ next[id] # None /\ LinkedNodes(next[id]) = LinkedNodes(dev[id])
              /\ next[id].macs = dev[id].macs /\ next[id].persistent = dev[id].persistent
              /\ LinkedNodes(dev[id]) = {} => next[id] = dev[id]
    BY <1>0, AddressesKeepRecords
  <1>4. \A id \in Ids \ S : next[id] = dev[id]
    BY <1>3 DEF Live
  <1>5. NodesApart(next)
    BY <1>0, <1>3, ApartKept
  <1>6. \A m \in MACs : Shares(m, next) => Shares(m, dev)
    BY <1>0, <1>3, SharesKept
  <1>7. attached /\ ~broken => \A o \in Ids \ S : Match(next[o], doc.assignments[o])
    BY <1>4 DEF DevicesInv, Matching
  <1>8. \A id \in S : dev[id] # None /\ dev[id].persistent => next[id] # None /\ next[id].persistent
    BY <1>3 DEF Live
  <1> HIDE DEF S, next
  <1> QED BY <1>0, <1>1, <1>2, <1>3, <1>5, <1>6, <1>7, <1>8, MutationOwed

LEMMA ClearObservationsOwed ==
    ASSUME DevicesInv, ClearTailscaleObservations
    PROVE  Owed
  <1> DEFINE none == [n \in Nodes |-> {}]
  <1>0. dev \in [Ids -> Device \cup {None}] /\ TypeOK /\ none \in [Nodes -> SUBSET IPs]
    BY DEF DevicesInv, TypeOK
  <1>1. Others'
    BY <1>0, OpCounts DEF TypeOK, Others, ClearTailscaleObservations
  <1>2. dev' = WithAddresses(none) /\ UNCHANGED <<doc, attached, broken>>
    BY DEF ClearTailscaleObservations
  <1> HIDE DEF none
  <1>3. /\ dev' \in [Ids -> Device \cup {None}]
        /\ \A id \in Ids : dev'[id] # None <=> dev[id] # None
        /\ \A id \in Ids : dev[id] # None =>
              /\ assignmentRecord(dev'[id]) = assignmentRecord(dev[id])
              /\ dev'[id].lan = dev[id].lan
    BY <1>0, <1>2, AddressesKeepRecords
  <1> QED BY <1>1, <1>2, <1>3, MemoryOnly

LEMMA DDNSClearOwed ==
    ASSUME DevicesInv, NEW id \in Ids, DDNSClear(id)
    PROVE  Owed
  <1>0. dev \in [Ids -> Device \cup {None}] /\ TypeOK
    BY DEF DevicesInv, TypeOK
  <1>1. Others'
    BY <1>0 DEF TypeOK, Others, DDNSClear, Update
  <1>2. CASE id \in Live
    <2> DEFINE d == [dev[id] EXCEPT !.lan = None]
    <2>1. dev[id] \in Device /\ dev' = [dev EXCEPT ![id] = d]
      BY <1>0, <1>2 DEF DDNSClear, Live
    <2>2. /\ d \in Device /\ d.lan = None /\ d.nodes = dev[id].nodes /\ d.macs = dev[id].macs
          /\ d.names = dev[id].names /\ d.dns = dev[id].dns /\ d.label = dev[id].label
          /\ d.persistent = dev[id].persistent
      BY <2>1 DEF Device
    <2>3. assignmentRecord(d) = assignmentRecord(dev[id])
      BY <2>2 DEF assignmentRecord, LinkedNodes
    <2> HIDE DEF d
    <2>4. d # None /\ dev[id] # None
      BY <2>1, <2>2, DeviceAssumption
    <2>5. dev' \in [Ids -> Device \cup {None}] /\ dev'[id] = d /\ \A o \in Ids \ {id} : dev'[o] = dev[o]
      BY <1>0, <2>1, <2>2
    <2>6. UNCHANGED <<doc, attached, broken>>
      BY DEF DDNSClear
    <2> QED BY <1>1, <2>2, <2>3, <2>4, <2>5, <2>6, MemoryOnly
  <1>3. CASE id \notin Live
    BY <1>1, <1>3, StoreUntouched DEF DDNSClear
  <1> QED BY <1>2, <1>3

LEMMA DDNSRemoveOwed ==
    ASSUME DevicesInv, NEW id \in Ids, DDNSRemove(id)
    PROVE  Owed
  <1>1. Others'
    BY DEF DevicesInv, TypeOK, Others, DDNSRemove, Update
  <1>2. CASE id \in Live
    BY <1>1, <1>2, RemovedDevice DEF DDNSRemove
  <1>3. CASE id \notin Live
    BY <1>1, <1>3, StoreUntouched DEF DDNSRemove
  <1> QED BY <1>2, <1>3

LEMMA DDNSUpsertOwed ==
    ASSUME DevicesInv, NEW mac \in MACs \cup {None}, DDNSUpsert(mac)
    PROVE  Owed
  <1> DEFINE id == IF ddns.id = None THEN made + 1 ELSE ddns.id
  <1>0. TypeOK /\ Others /\ ddns \in Update
    BY DEF DevicesInv, TypeOK, Others
  <1>1. id \in Ids /\ made' \in 0 .. MaxDevices
    BY <1>0, DeviceAssumption DEF DDNSUpsert, Others, Ids, Update
  <1>2. ddns' \in Update /\ ddns'.at = "cleanup" /\ ddns.at = "upsert"
    BY DEF DDNSUpsert, Idle, Update
  <1>3. Others'
    BY <1>0, <1>1, <1>2 DEF Others, DDNSUpsert
  <1>4. Mutate({id}, Upserted(id, ddns.ip, mac, ddns.name))
    BY DEF DDNSUpsert
  <1>5. ddns.name \in Names \cup {None} /\ ddns.ip \in IPs \cup {None}
    BY <1>0 DEF Update
  <1> QED BY <1>1, <1>2, <1>3, <1>4, <1>5, UpsertStep

(* The steps of the callers that do not call the store.                     *)
LEMMA CallersOwed ==
    ASSUME DevicesInv,
           \/ \E id \in Ids : Assign(id) \/ Unassign(id)
           \/ \E id \in Ids, node \in Nodes, ips \in SUBSET IPs : LinkRequest(id, node, ips)
           \/ \E name \in Names, ip \in IPs \cup {None} : DDNSDelete(name, ip)
           \/ \E name \in Names, ip \in IPs : DDNSFind(name, ip)
           \/ DDNSList
    PROVE  Owed
  <1>0. TypeOK /\ Others
    BY DEF DevicesInv, TypeOK, Others
  <1>1. CASE \E id \in Ids : Assign(id) \/ Unassign(id)
    <2>1. Others' /\ UNCHANGED <<dev, doc, attached, broken>>
      BY <1>0, <1>1, OpCounts DEF Others, Assign, Unassign
    <2> QED BY <2>1, StoreUntouched
  <1>2. CASE \E id \in Ids, node \in Nodes, ips \in SUBSET IPs : LinkRequest(id, node, ips)
    <2>1. Others' /\ UNCHANGED <<dev, doc, attached, broken>>
      BY <1>0, <1>2, OpCounts DEF Others, LinkRequest, Request
    <2> QED BY <2>1, StoreUntouched
  <1>3. CASE \E name \in Names, ip \in IPs \cup {None} : DDNSDelete(name, ip)
    <2>1. PICK name \in Names, ip \in IPs \cup {None} : DDNSDelete(name, ip)
      BY <1>3
    <2>2. Holders(name, ip) \subseteq Ids
      BY DEF Holders, Live
    <2>3. ddns' \in Update
      BY <2>1, <2>2 DEF DDNSDelete, Idle, Update
    <2>4. Others' /\ UNCHANGED <<dev, doc, attached, broken>>
      BY <1>0, <2>1, <2>3, OpCounts DEF Others, DDNSDelete
    <2> QED BY <2>4, StoreUntouched
  <1>4. CASE \E name \in Names, ip \in IPs : DDNSFind(name, ip)
    <2>1. PICK name \in Names, ip \in IPs : DDNSFind(name, ip)
      BY <1>4
    <2>2. Found(name, ip) \subseteq Ids \cup {None}
      <3>1. CASE \E id \in Live : name \in dev[id].names
        BY <3>1 DEF Found, Live
      <3>2. CASE ~(\E id \in Live : name \in dev[id].names) /\ Claims(ip) = {}
        BY <3>2 DEF Found
      <3>3. CASE ~(\E id \in Live : name \in dev[id].names) /\ Claims(ip) # {}
        <4>1. Claims(ip) \subseteq Ids /\ IsFiniteSet(Claims(ip))
          <5>1. Claims(ip) \subseteq Ids
            BY DEF Claims, Live
          <5>2. IsFiniteSet(Ids)
            BY DeviceAssumption, FS_Interval DEF Ids
          <5> QED BY <5>1, <5>2, FS_Subset
        <4>2. \E id \in Claims(ip) : \A o \in Claims(ip) : id <= o
          BY <3>3, <4>1, LeastOf DEF Ids
        <4>3. (CHOOSE id \in Claims(ip) : \A o \in Claims(ip) : id <= o) \in Claims(ip)
          BY <4>2
        <4> HIDE DEF Claims
        <4> QED BY <3>3, <4>1, <4>3 DEF Found
      <3> QED BY <3>1, <3>2, <3>3
    <2>3. ddns' \in Update
      BY <2>1, <2>2 DEF DDNSFind, Idle, Update
    <2>4. ops' \in 0 .. MaxOps
      BY <1>0, <2>1, OpCounts DEF DDNSFind, Others
    <2>5. Others' /\ UNCHANGED <<dev, doc, attached, broken>>
      BY <1>0, <2>1, <2>3, <2>4 DEF Others, DDNSFind
    <2> QED BY <2>5, StoreUntouched
  <1>5. CASE DDNSList
    <2>1. ddns' \in Update
      BY <1>5 DEF DDNSList, Idle, Update, Live
    <2>2. Others' /\ UNCHANGED <<dev, doc, attached, broken>>
      BY <1>0, <1>5, <2>1 DEF Others, DDNSList
    <2> QED BY <2>2, StoreUntouched
  <1> QED BY <1>1, <1>2, <1>3, <1>4, <1>5

(* The migration (migrateDeviceAssignments) only drops records, and none of *)
(* a device the user has edited.                                            *)
LEMMA MigrationDrops ==
    ASSUME TypeOK
    PROVE  /\ Migrated \in Document /\ Migrated.version = 2
           /\ \A id \in Ids : Migrated.assignments[id] \in {None, doc.assignments[id]}
           /\ \A id \in Ids : doc.assignments[id] # None /\ doc.assignments[id].persistent =>
                 Migrated.assignments[id] # None
  <1>1. doc.assignments \in [Ids -> DeviceAssignment \cup {None}]
    BY DEF TypeOK, Document
  <1> QED BY <1>1 DEF Migrated, Document

LEMMA StartOwed ==
    ASSUME DevicesInv, Start
    PROVE  Owed
  <1> DEFINE A == Migrated.assignments
  <1>0. TypeOK /\ dev \in [Ids -> Device \cup {None}] /\ NodesApart(dev) /\ RecordsApart(doc.assignments)
    BY DEF DevicesInv, TypeOK
  <1>1. Others'
    BY <1>0 DEF TypeOK, Others, Start
  <1>2. /\ Migrated \in Document /\ Migrated.version = 2
        /\ \A id \in Ids : A[id] \in {None, doc.assignments[id]}
        /\ \A id \in Ids : doc.assignments[id] # None /\ doc.assignments[id].persistent => A[id] # None
    BY <1>0, MigrationDrops
  <1>3. A \in [Ids -> DeviceAssignment \cup {None}]
    BY <1>2 DEF Document
  <1>4. RecordsApart(A) /\ \A m \in MACs : Shares(m, A) => Shares(m, doc.assignments)
    BY <1>0, <1>2 DEF RecordsApart, Shares
  <1>5. /\ doc' \in {doc, Migrated} /\ doc' \in Document
        /\ RecordsApart(doc'.assignments)
        /\ \A m \in MACs : Shares(m, doc'.assignments) => Shares(m, doc.assignments)
        /\ RecordStep
    <2>1. doc' \in {doc, Migrated}
      BY DEF Start, AttachPersistence
    <2>2. doc \in Document
      BY <1>0 DEF TypeOK
    <2>3. RecordStep
      BY <1>2, <2>1 DEF RecordStep
    <2> QED BY <1>0, <1>2, <1>4, <2>1, <2>2, <2>3
  <1>6. CASE attached' = TRUE /\ broken' = FALSE /\ doc' = Migrated
              /\ dev' = [id \in Ids |-> IF A[id] = None THEN None ELSE assignmentDevice(A[id])]
    <2>1. /\ dev' \in [Ids -> Device \cup {None}]
          /\ \A id \in Ids : A[id] = None => dev'[id] = None
          /\ \A id \in Ids : A[id] # None =>
                /\ dev'[id] # None /\ assignmentRecord(dev'[id]) = A[id] /\ dev'[id].lan = None
                /\ LinkedNodes(dev'[id]) = A[id].nodes /\ dev'[id].macs = A[id].macs
      BY <1>3, <1>6, RestoredDevice, RecordType
    <2>2. Matching'
      BY <1>6, <2>1 DEF Matching, Match
    <2>3. NodesApart(dev') /\ \A m \in MACs : Shares(m, dev') => Shares(m, A)
      BY <1>4, <2>1 DEF NodesApart, RecordsApart, Shares
    <2>4. TypeOK'
      <3>1. attached' \in BOOLEAN /\ broken' \in BOOLEAN /\ (attached' => doc'.version = 2)
        BY <1>2, <1>6
      <3> QED BY <1>1, <1>5, <2>1, <3>1 DEF TypeOK, Others
    <2>5. MACStep
      BY <1>4, <1>6, <2>3 DEF MACStep, MACShared, Shares
    <2> QED BY <1>5, <2>2, <2>3, <2>4, <2>5 DEF Owed, DevicesInv
  <1>7. CASE attached' = FALSE /\ UNCHANGED <<dev, broken>>
    <2>1. Matching'
      BY <1>7 DEF Matching
    <2>2. TypeOK'
      BY <1>0, <1>1, <1>5, <1>7 DEF TypeOK, Others
    <2>3. MACStep
      BY <1>5, <1>7 DEF MACStep, MACShared, Shares
    <2> QED BY <1>0, <1>5, <1>7, <2>1, <2>2, <2>3 DEF Owed, DevicesInv
  <1> QED BY <1>6, <1>7 DEF Start, AttachPersistence

LEMMA CrashOwed ==
    ASSUME DevicesInv, Crash
    PROVE  Owed
  <1>0. TypeOK /\ Others /\ RecordsApart(doc.assignments)
    BY DEF DevicesInv, TypeOK, Others
  <1>1. Others'
    BY <1>0, OpCounts DEF Others, Crash, Idle, Update
  <1>2. /\ \A id \in Ids : dev'[id] = None
        /\ dev' \in [Ids -> Device \cup {None}] /\ doc' = doc /\ attached' = FALSE /\ broken' = FALSE
    BY DEF Crash
  <1>3. TypeOK'
    BY <1>0, <1>1, <1>2 DEF TypeOK, Others
  <1>4. Matching' /\ NodesApart(dev') /\ RecordsApart(doc'.assignments)
    BY <1>0, <1>2 DEF Matching, NodesApart
  <1>5. MACStep
    BY <1>2 DEF MACStep, MACShared
  <1>6. RecordStep
    BY <1>2 DEF RecordStep
  <1> QED BY <1>3, <1>4, <1>5, <1>6 DEF Owed, DevicesInv

-----------------------------------------------------------------------------
(* The specification *)

LEMMA InitDevices == Init => DevicesInv
  <1> SUFFICES ASSUME Init PROVE DevicesInv
    OBVIOUS
  <1>1. doc \in Document /\ doc \in OldDocs
    BY DeviceAssumption DEF Init
  <1>2. made \in 0 .. MaxDevices
    <2> DEFINE R == {id \in Ids : doc.assignments[id] # None}
    <2>1. IsFiniteSet(Ids) /\ Cardinality(Ids) = MaxDevices
      BY DeviceAssumption, FS_Interval DEF Ids
    <2>2. R \subseteq Ids
      OBVIOUS
    <2> HIDE DEF R
    <2>3. IsFiniteSet(R) /\ Cardinality(R) <= MaxDevices /\ Cardinality(R) \in Nat
      BY <2>1, <2>2, FS_Subset, FS_CardinalityType
    <2> QED BY <2>3, DeviceAssumption DEF Init, R
  <1>3. ddns \in Update /\ ops \in 0 .. MaxOps /\ assigned \subseteq Ids
    BY <1>2, DeviceAssumption DEF Init, Idle, Update, Ids
  <1>4. dev \in [Ids -> Device \cup {None}]
    BY DEF Init
  <1>5. TypeOK
    BY <1>1, <1>2, <1>3, <1>4 DEF Init, TypeOK
  <1>6. Matching
    BY DEF Init, Matching
  <1>7. NodesApart(dev)
    BY DEF Init, NodesApart
  <1>8. RecordsApart(doc.assignments)
    BY <1>1, DeviceAssumption DEF RecordsApart
  <1> QED BY <1>5, <1>6, <1>7, <1>8 DEF DevicesInv

LEMMA StepDevices == DevicesInv /\ [Next]_vars => DevicesInv' /\ [MACStep]_vars /\ [RecordStep]_vars
  <1> SUFFICES ASSUME DevicesInv, [Next]_vars PROVE DevicesInv' /\ [MACStep]_vars /\ [RecordStep]_vars
    OBVIOUS
  <1>1. CASE UNCHANGED vars
    <2>1. Others'
      BY <1>1 DEF DevicesInv, TypeOK, Others, vars
    <2>2. UNCHANGED <<dev, doc, attached, broken>>
      BY <1>1 DEF vars
    <2> QED BY <2>1, <2>2, StoreUntouched DEF Owed
  <1>2. CASE Next
    <2>1. Owed
      BY <1>2, ObserveDeviceOwed, SetLabelOwed, RemoveDeviceOwed, UnlinkOwed, LinkOwed, ApplySnapshotOwed,
         ClearObservationsOwed, DDNSClearOwed, DDNSRemoveOwed, DDNSUpsertOwed, CallersOwed, StartOwed, CrashOwed
         DEF Next
    <2> QED BY <2>1 DEF Owed
  <1> QED BY <1>1, <1>2

(* The devices, the document and the callers under way keep their shape,    *)
(* and a store that is attached has the current version (AttachPersistence).*)
THEOREM DevicesTypeCorrect == Spec => []TypeOK
  <1>1. DevicesInv => TypeOK
    BY DEF DevicesInv
  <1> QED BY InitDevices, StepDevices, <1>1, PTL DEF Spec

(* While the store works, the devices worth keeping are those with a        *)
(* record, and the record is theirs: for any number of devices, whatever    *)
(* discovery, DNS UPDATE, links, failed writes and crashes do.              *)
THEOREM MemoryAndDocumentAgree == Spec => []DurableMatchesMemory
  <1>1. DevicesInv => DurableMatchesMemory
    <2> SUFFICES ASSUME DevicesInv, attached, ~broken, NEW id \in Ids
                 PROVE  LET a == doc.assignments[id] IN
                        /\ dev[id] # None /\ Durable(dev[id]) => a = assignmentRecord(dev[id])
                        /\ a # None /\ (a.persistent \/ a.label \/ a.nodes # {}) => dev[id] # None /\ Durable(dev[id])
      BY DEF DurableMatchesMemory
    <2>1. Match(dev[id], doc.assignments[id])
      BY DEF DevicesInv, Matching
    <2> QED BY <2>1 DEF Match, assignmentRecord, Durable
  <1> QED BY InitDevices, StepDevices, <1>1, PTL DEF Spec

(* A Tailscale node is linked to at most one device, in memory and in the   *)
(* document (LinkTailscaleIdentityProtectedE), so that every document this  *)
(* process writes can be read by the next one.                              *)
THEOREM EveryNodeLinkedOnce == Spec => []NodeLinkedOnce
  <1>1. DevicesInv => NodeLinkedOnce
    BY Halves DEF DevicesInv
  <1> QED BY InitDevices, StepDevices, <1>1, PTL DEF Spec

(* Only the upsert of DNS UPDATE gives two devices one MAC: discovery never *)
(* does (ObserveDevice), and neither restoring nor any other mutation.      *)
THEOREM MACSharedOnlyByDDNS == Spec => SharedMACOnlyByDDNS
  <1>1. [MACStep]_vars =>
          [\A m \in MACs : ~MACShared(m) /\ MACShared(m)' => ddns.at = "upsert" /\ ddns'.at = "cleanup"]_vars
    BY DEF MACStep
  <1> QED BY InitDevices, StepDevices, <1>1, PTL DEF Spec, SharedMACOnlyByDDNS

(* The record of an edited device leaves the document only when the user    *)
(* removes the device, or by a cleanup of DNS UPDATE that listed it before. *)
THEOREM EditedDevicesStay == Spec => PersistentStays
  <1>1. [RecordStep]_vars =>
          [\A id \in Ids :
             doc.assignments[id] # None /\ doc.assignments[id].persistent /\ doc'.assignments[id] = None =>
                RemoveDevice(id) \/ (ddns.at = "remove" /\ id \in ddns.todo)]_vars
    BY DEF RecordStep
  <1> QED BY InitDevices, StepDevices, <1>1, PTL DEF Spec, PersistentStays

=============================================================================
