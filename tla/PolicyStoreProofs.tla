-------------------------- MODULE PolicyStoreProofs --------------------------
(***************************************************************************)
(* Proofs about the policy document and its copy in the memory of the      *)
(* policy service (PolicyStore), for any number of handlers at work, any   *)
(* policies, users, devices, legacy documents and restored backups.        *)
(***************************************************************************)
EXTENDS PolicyStore, TLAPS

\* What a handler carries from one step to the next.
HandlerOK(h) ==
    /\ h.at = "assignAll" => h.assign \in [Devices -> GroupIDs \cup {None}]
    /\ h.at = "update" => h.id \in GroupIDs /\ h.body \in Group
    /\ h.at \in {"readCats", "install"} => h.doc \in Snapshot
    /\ h.at \in {"install", "cacheCats", "restore", "rollback"} => h.cats \in Categories

\* What a handler carries and nobody has overtaken is what is stored: the
\* document s, readable if r, and the categories c.
Fresh(h, s, r, c) ==
    /\ h.at \in {"readCats", "install"} /\ "doc" \notin h.stale => r /\ h.doc = s
    /\ h.at \in {"install", "cacheCats"} /\ "cats" \notin h.stale => h.cats = c
    /\ h.at = "assignAll" /\ "doc" \notin h.stale =>
         \A d \in Devices : h.assign[d] # None => s.groups[h.assign[d]] # None

\* Handler h is going to refresh part p of memory, or to answer with an error
\* that accounts for it.
Owes(h, p) ==
    \/ h.at = "readDoc" /\ p \in h.stale
    \/ h.at \in {"readCats", "install", "rollback"}
    \/ h.at = "cacheCats" /\ p = "cats"

AllIdle == \A t \in Threads : th[t].at = "idle"

\* A part of memory is current, accounted for, or owed by a handler at work.
Accounted == \A p \in Parts : Current(p) \/ p \in behind \/ \E t \in Threads : Owes(th[t], p)

\* migrateLegacyBlockList under way: the stored policies are those in memory,
\* with the entries of the list once a policy is no longer to do.
Moving ==
    /\ doc # Broken
    /\ \A id \in GroupIDs :
         list /\ id \notin todo /\ Decode.groups[id] # None => BlockList \in Decode.groups[id].content
    /\ Default \in todo \/ ~list => mem = Decode

StoreInv ==
    /\ TypeOK
    /\ \A t \in Threads : HandlerOK(th[t]) /\ Fresh(th[t], Decode, doc # Broken, cats)
    /\ boot \in {"migrate", "blocklist"} => AllIdle /\ (Current("cats") \/ "cats" \in behind)
    /\ boot = "off" => \A t \in Threads : th[t].at \in {"idle", "restore", "rollback"}
    /\ boot = "migrate" => Current("doc")
    /\ boot = "blocklist" =>
         /\ \A id \in todo : list /\ mem.groups[id] # None
         /\ "doc" \in behind \/ Moving
    /\ boot = "up" => Accounted

-----------------------------------------------------------------------------
(* Lemmas about the operators *)

\* The groups and the assignments of a snapshot.
LEMMA SnapshotParts ==
    ASSUME NEW s \in Snapshot
    PROVE  /\ s.groups \in [GroupIDs -> Group \cup {None}] /\ s.groups[Default] # None
           /\ s.assign \in [Devices -> GroupIDs \cup {None}]
           /\ s = [groups |-> s.groups, assign |-> s.assign]
BY DEF Snapshot

\* A snapshot is made of groups with a default policy and of assignments.
LEMMA SnapshotMade ==
    ASSUME NEW gs \in [GroupIDs -> Group \cup {None}], gs[Default] # None,
           NEW as \in [Devices -> GroupIDs \cup {None}]
    PROVE  /\ [groups |-> gs, assign |-> as] \in Snapshot
           /\ [groups |-> gs, assign |-> as].groups = gs
           /\ [groups |-> gs, assign |-> as].assign = as
BY DEF Snapshot

\* A snapshot with one group replaced.
LEMMA SetGroup ==
    ASSUME NEW s \in Snapshot, NEW id \in GroupIDs, NEW g \in Group
    PROVE  /\ [s EXCEPT !.groups[id] = g] \in Snapshot
           /\ [s EXCEPT !.groups[id] = g].groups = [s.groups EXCEPT ![id] = g]
           /\ [s EXCEPT !.groups[id] = g].assign = s.assign
<1>1. [s EXCEPT !.groups[id] = g] = [groups |-> [s.groups EXCEPT ![id] = g], assign |-> s.assign]
  BY SnapshotParts
<1>2. [s.groups EXCEPT ![id] = g] \in [GroupIDs -> Group \cup {None}]
  BY SnapshotParts
<1>3. [s.groups EXCEPT ![id] = g][Default] # None
  BY SnapshotParts, StoreAssumption
<1>4. s.assign \in [Devices -> GroupIDs \cup {None}]
  BY SnapshotParts
<1> DEFINE gs == [s.groups EXCEPT ![id] = g]
<1> HIDE DEF gs
<1>5. /\ [groups |-> gs, assign |-> s.assign] \in Snapshot
      /\ [groups |-> gs, assign |-> s.assign].groups = gs
      /\ [groups |-> gs, assign |-> s.assign].assign = s.assign
  BY <1>2, <1>3, <1>4, SnapshotMade DEF gs
<1> QED
  BY <1>1, <1>5 DEF gs

\* The document without content, and what the store decodes to.
LEMMA DecodeType ==
    /\ Empty \in Snapshot
    /\ TypeOK => Decode \in Snapshot
<1>1. DefaultGroup \in Group
  BY DEF DefaultGroup, Group
<1>2. Empty \in Snapshot
  <2>1. Empty.groups \in [GroupIDs -> Group \cup {None}] /\ Empty.groups[Default] # None
    BY <1>1, StoreAssumption DEF Empty
  <2> QED
    BY <2>1 DEF Empty, Snapshot
<1> QED
  BY <1>2 DEF TypeOK, Decode

\* A stored snapshot decodes to itself.
LEMMA DecodeSnapshot ==
    ASSUME NEW snap \in Snapshot
    PROVE  (doc' = snap) => (doc' # Broken /\ Decode' = snap)
BY StoreAssumption DEF Decode

\* A handler that is done, and one that goes on to reload.
LEMMA IdleType ==
    /\ Idle \in Handler /\ Idle.at = "idle" /\ HandlerOK(Idle)
    /\ \A s, c : \A r \in BOOLEAN : Fresh(Idle, s, r, c)
    /\ \A p \in SUBSET Parts :
         LET h == [Idle EXCEPT !.at = "readDoc", !.stale = p] IN
         /\ h \in Handler /\ h.at = "readDoc" /\ h.stale = p /\ HandlerOK(h)
         /\ \A s, c : \A r \in BOOLEAN : Fresh(h, s, r, c)
BY DEF Idle, Handler, HandlerOK, Fresh, Parts

\* A handler with more of what it carries overtaken is the same otherwise.
LEMMA MarkType ==
    ASSUME NEW h \in Handler, NEW m \in SUBSET Parts
    PROVE  LET k == [h EXCEPT !.stale = @ \cup m] IN
           /\ k \in Handler /\ k.at = h.at /\ k.stale = h.stale \cup m
           /\ k.id = h.id /\ k.body = h.body /\ k.assign = h.assign /\ k.doc = h.doc /\ k.cats = h.cats
BY DEF Handler

\* What a step of handler t does to the handlers.
LEMMA GoThreads ==
    ASSUME TypeOK, NEW t \in Threads, NEW h \in Handler, NEW parts \in SUBSET Parts, Go(t, h, parts)
    PROVE  /\ th' \in [Threads -> Handler] /\ th'[t] = h /\ ops' \in Nat
           /\ \A u \in Threads \ {t} :
                /\ th[u] \in Handler
                /\ th'[u] = [th[u] EXCEPT !.stale = @ \cup (parts \cap Carried(th[u].at))]
<1>1. th \in [Threads -> Handler] /\ ops \in Nat
  BY DEF TypeOK
<1>2. th' = [u \in Threads |-> IF u = t THEN h
                 ELSE [th[u] EXCEPT !.stale = @ \cup (parts \cap Carried(th[u].at))]]
  BY DEF Go
<1>3. \A u \in Threads : [th[u] EXCEPT !.stale = @ \cup (parts \cap Carried(th[u].at))] \in Handler
  BY <1>1, MarkType
<1>4. ops' \in Nat
  BY <1>1 DEF Go
<1> QED
  BY <1>1, <1>2, <1>3, <1>4

\* What the handlers other than t carry stays fresh or is marked.
LEMMA OthersFresh ==
    ASSUME StoreInv, NEW t \in Threads, NEW h \in Handler, NEW parts \in SUBSET Parts, Go(t, h, parts),
           "doc" \notin parts => doc' = doc, "cats" \notin parts => cats' = cats,
           NEW u \in Threads \ {t}
    PROVE  /\ th'[u].at = th[u].at /\ HandlerOK(th'[u])
           /\ Fresh(th'[u], Decode', doc' # Broken, cats')
           /\ \A p \in Parts : Owes(th[u], p) => Owes(th'[u], p)
<1> DEFINE m == parts \cap Carried(th[u].at)
<1>1. th[u] \in Handler /\ th'[u] = [th[u] EXCEPT !.stale = @ \cup m] /\ m \in SUBSET Parts
  BY GoThreads DEF StoreInv
<1>2. /\ HandlerOK(th[u]) /\ Fresh(th[u], Decode, doc # Broken, cats)
      /\ doc' = doc => Decode' = Decode
  BY DEF StoreInv, Decode
<1>3. /\ "doc" \in parts /\ th[u].at \in {"assignAll", "readCats", "install"} => "doc" \in m
      /\ "cats" \in parts /\ th[u].at \in {"install", "cacheCats"} => "cats" \in m
  BY DEF Carried, Parts
<1> HIDE DEF m
<1>4. /\ th'[u].at = th[u].at /\ th'[u].stale = th[u].stale \cup m
      /\ th'[u].id = th[u].id /\ th'[u].body = th[u].body /\ th'[u].assign = th[u].assign
      /\ th'[u].doc = th[u].doc /\ th'[u].cats = th[u].cats
  BY <1>1, MarkType
<1>5. HandlerOK(th'[u])
  BY <1>2, <1>4 DEF HandlerOK
<1>6. Fresh(th'[u], Decode', doc' # Broken, cats')
  <2>1. CASE "doc" \in parts
    <3>1. CASE "cats" \in parts
      BY <1>3, <1>4, <2>1, <3>1 DEF Fresh
    <3>2. CASE "cats" \notin parts
      BY <1>2, <1>3, <1>4, <2>1, <3>2 DEF Fresh
    <3> QED
      BY <3>1, <3>2
  <2>2. CASE "doc" \notin parts
    <3>1. doc' = doc /\ Decode' = Decode
      BY <1>2, <2>2
    <3>2. CASE "cats" \in parts
      BY <1>2, <1>3, <1>4, <3>1, <3>2 DEF Fresh
    <3>3. CASE "cats" \notin parts
      BY <1>2, <1>4, <3>1, <3>3 DEF Fresh
    <3> QED
      BY <3>2, <3>3
  <2> QED
    BY <2>1, <2>2
<1>7. \A p \in Parts : Owes(th[u], p) => Owes(th'[u], p)
  BY <1>4 DEF Owes
<1> QED
  BY <1>4, <1>5, <1>6, <1>7

-----------------------------------------------------------------------------
(* The steps of a handler *)

\* A step of a handler keeps the invariant when what it writes has its type,
\* it carries nothing out of date without knowing, and it leaves each part of
\* memory current, accounted for or owed, or does not touch what is.
LEMMA HandlerStep ==
    ASSUME StoreInv, NEW t \in Threads, NEW h \in Handler, NEW parts \in SUBSET Parts, Go(t, h, parts),
           HandlerOK(h), Fresh(h, Decode', doc' # Broken, cats'),
           boot \in {"up", "off"}, boot' = boot, todo' = todo, list' = list,
           "doc" \notin parts => doc' = doc, "cats" \notin parts => cats' = cats,
           doc' \in Snapshot \cup {None, Broken}, mem' \in Snapshot, fenced' \in BOOLEAN,
           cats' \in Categories, catsMem' \in Categories, behind' \subseteq Parts,
           boot = "off" => h.at \in {"idle", "restore", "rollback"},
           \A p \in Parts : \/ Current(p)' \/ p \in behind' \/ Owes(h, p)
                            \/ /\ Current(p) => Current(p)'
                               /\ p \in behind => p \in behind'
                               /\ ~Owes(th[t], p)
    PROVE  StoreInv'
<1>1. TypeOK
  BY DEF StoreInv
<1>2. th' \in [Threads -> Handler] /\ th'[t] = h /\ ops' \in Nat
  BY <1>1, GoThreads
<1>3. TypeOK'
  BY <1>1, <1>2 DEF TypeOK
<1>4. \A u \in Threads \ {t} :
        /\ th'[u].at = th[u].at /\ HandlerOK(th'[u]) /\ Fresh(th'[u], Decode', doc' # Broken, cats')
        /\ \A p \in Parts : Owes(th[u], p) => Owes(th'[u], p)
  BY OthersFresh
<1>5. \A u \in Threads : HandlerOK(th'[u]) /\ Fresh(th'[u], Decode', doc' # Broken, cats')
  BY <1>2, <1>4
<1>6. boot' = "off" => \A u \in Threads : th'[u].at \in {"idle", "restore", "rollback"}
  BY <1>2, <1>4 DEF StoreInv
<1>7. ASSUME boot' = "up", NEW p \in Parts
      PROVE  Current(p)' \/ p \in behind' \/ \E u \in Threads : Owes(th'[u], p)
  <2>1. Current(p) \/ p \in behind \/ \E u \in Threads : Owes(th[u], p)
    BY <1>7 DEF StoreInv, Accounted
  <2>2. CASE Current(p)' \/ p \in behind' \/ Owes(h, p)
    BY <1>2, <2>2
  <2>3. CASE /\ Current(p) => Current(p)'
             /\ p \in behind => p \in behind'
             /\ ~Owes(th[t], p)
    BY <1>4, <2>1, <2>3
  <2> QED
    BY <2>2, <2>3
<1>8. boot' = "up" => Accounted'
  BY <1>7 DEF Accounted
<1>9. boot' \in {"up", "off"}
  OBVIOUS
<1> QED
  BY <1>3, <1>5, <1>6, <1>8, <1>9 DEF StoreInv

\* A handler at work that is not restoring a backup has a policy service.
LEMMA AtWorkIsUp ==
    ASSUME StoreInv, NEW t \in Threads, th[t].at # "idle"
    PROVE  /\ boot \in {"up", "off"}
           /\ th[t].at \notin {"restore", "rollback"} => boot = "up"
<1>1. boot \in {"migrate", "blocklist", "up", "off"}
  BY DEF StoreInv, TypeOK
<1> QED
  BY <1>1 DEF StoreInv, AllIdle

\* A transaction on the document, from any of the handlers that commit.
LEMMA CommitInv ==
    ASSUME StoreInv, NEW t \in Threads, th[t].at \in {"idle", "assignAll", "update"}, boot = "up",
           NEW snap \in Snapshot, Commit(t, snap)
    PROVE  StoreInv'
<1> DEFINE h == [Idle EXCEPT !.at = "readDoc", !.stale = {"doc"}]
<1>1. /\ h \in Handler /\ h.at = "readDoc" /\ h.stale = {"doc"} /\ HandlerOK(h)
      /\ Fresh(h, Decode', doc' # Broken, cats') /\ {"doc"} \in SUBSET Parts
  <2>1. {"doc"} \in SUBSET Parts
    BY DEF Parts
  <2> QED
    BY <2>1, IdleType
<1>2. /\ doc' = snap /\ Decode' = snap
      /\ UNCHANGED <<cats, mem, catsMem, list, boot, todo>>
      /\ \/ Go(t, h, {"doc"}) /\ UNCHANGED <<fenced, behind>>
         \/ Go(t, Idle, {"doc"}) /\ fenced' = TRUE /\ behind' = behind \cup {"doc"}
  BY DecodeSnapshot DEF Commit
<1>3. /\ mem' \in Snapshot /\ cats' \in Categories /\ catsMem' \in Categories
      /\ fenced \in BOOLEAN /\ behind \subseteq Parts
  BY <1>2 DEF StoreInv, TypeOK
<1>4. (Current("cats") => Current("cats")') /\ ~Owes(th[t], "cats")
  BY <1>2 DEF Current, Owes
<1> HIDE DEF h
<1>5. CASE Go(t, h, {"doc"}) /\ UNCHANGED <<fenced, behind>>
  <2>1. Owes(h, "doc")
    BY <1>1 DEF Owes
  <2>2. \A p \in Parts : \/ Current(p)' \/ p \in behind' \/ Owes(h, p)
                         \/ /\ Current(p) => Current(p)'
                            /\ p \in behind => p \in behind'
                            /\ ~Owes(th[t], p)
    BY <1>4, <1>5, <2>1 DEF Parts
  <2>3. fenced' \in BOOLEAN /\ behind' \subseteq Parts
    BY <1>3, <1>5
  <2> QED
    BY <1>1, <1>2, <1>3, <1>5, <2>2, <2>3, HandlerStep
<1>6. CASE Go(t, Idle, {"doc"}) /\ fenced' = TRUE /\ behind' = behind \cup {"doc"}
  <2>1. \A p \in Parts : \/ Current(p)' \/ p \in behind' \/ Owes(Idle, p)
                         \/ /\ Current(p) => Current(p)'
                            /\ p \in behind => p \in behind'
                            /\ ~Owes(th[t], p)
    BY <1>4, <1>6 DEF Parts
  <2>2. fenced' \in BOOLEAN /\ behind' \subseteq Parts
    BY <1>3, <1>6 DEF Parts
  <2>3. Idle \in Handler /\ Idle.at = "idle" /\ HandlerOK(Idle) /\ Fresh(Idle, Decode', doc' # Broken, cats')
    BY IdleType
  <2> QED
    BY <1>1, <1>2, <1>3, <1>6, <2>1, <2>2, <2>3, HandlerStep
<1> QED
  BY <1>2, <1>5, <1>6

\* A step that only moves the handler on: it stops, or goes on with what it
\* has read, and owes what it owed.
LEMMA QuietStep ==
    ASSUME StoreInv, NEW t \in Threads, NEW h \in Handler, HandlerOK(h), Go(t, h, {}),
           Fresh(h, Decode, doc # Broken, cats), boot \in {"up", "off"},
           boot = "off" => h.at \in {"idle", "restore", "rollback"},
           \A p \in Parts : Owes(th[t], p) => Owes(h, p),
           UNCHANGED <<doc, cats, fenced, mem, catsMem, list, boot, todo, behind>>
    PROVE  StoreInv'
<1>1. Decode' = Decode /\ (doc' # Broken) = (doc # Broken)
  BY DEF Decode
<1>2. /\ doc' \in Snapshot \cup {None, Broken} /\ mem' \in Snapshot /\ fenced' \in BOOLEAN
      /\ cats' \in Categories /\ catsMem' \in Categories /\ behind' \subseteq Parts
  BY DEF StoreInv, TypeOK
<1>3. \A p \in Parts : Current(p) => Current(p)'
  BY <1>1 DEF Current
<1>4. Fresh(h, Decode', doc' # Broken, cats')
  BY <1>1
<1>5. \A p \in Parts : \/ Current(p)' \/ p \in behind' \/ Owes(h, p)
                       \/ /\ Current(p) => Current(p)'
                          /\ p \in behind => p \in behind'
                          /\ ~Owes(th[t], p)
  BY <1>3
<1>6. {} \in SUBSET Parts
  OBVIOUS
<1> QED
  BY <1>2, <1>4, <1>5, <1>6, HandlerStep

\* Every transaction of a handler commits a snapshot.
LEMMA CreateGroupInv ==
    ASSUME StoreInv, NEW t \in Threads, NEW id \in GroupIDs, NEW g \in Group,
           CreateGroup(t, id, g) \/ UpdateGroup(t, id, g)
    PROVE  StoreInv'
<1> DEFINE snap == [Decode EXCEPT !.groups[id] = g]
<1>1. boot = "up" /\ th[t].at = "idle" /\ Commit(t, snap)
  BY DEF CreateGroup, UpdateGroup, Starts
<1>2. Decode \in Snapshot
  BY DecodeType DEF StoreInv
<1>3. snap \in Snapshot
  BY <1>2, SetGroup
<1> HIDE DEF snap
<1> QED
  BY <1>1, <1>3, CommitInv

\* DeleteGroup takes a policy and its assignments away.
LEMMA DeleteGroupInv ==
    ASSUME StoreInv, NEW t \in Threads, NEW id \in GroupIDs, DeleteGroup(t, id)
    PROVE  StoreInv'
<1> DEFINE gs == [Decode.groups EXCEPT ![id] = None]
           as == [d \in Devices |-> IF Decode.assign[d] = id THEN None ELSE Decode.assign[d]]
           snap == [groups |-> gs, assign |-> as]
<1>1. boot = "up" /\ th[t].at = "idle" /\ id # Default /\ Commit(t, snap)
  BY DEF DeleteGroup, Starts
<1>2. /\ Decode \in Snapshot
      /\ Decode.groups \in [GroupIDs -> Group \cup {None}] /\ Decode.groups[Default] # None
      /\ Decode.assign \in [Devices -> GroupIDs \cup {None}]
  BY DecodeType, SnapshotParts DEF StoreInv
<1>3. /\ gs \in [GroupIDs -> Group \cup {None}] /\ gs[Default] # None
  BY <1>1, <1>2, StoreAssumption
<1>4. as \in [Devices -> GroupIDs \cup {None}]
  BY <1>2
<1> HIDE DEF gs, as
<1>5. snap \in Snapshot
  BY <1>3, <1>4, SnapshotMade
<1> HIDE DEF snap
<1> QED
  BY <1>1, <1>5, CommitInv

\* SaveGroups replaces the policies and keeps the assignments.
LEMMA SaveGroupsInv ==
    ASSUME StoreInv, NEW t \in Threads, NEW groups \in [GroupIDs -> Bodies \cup {None}],
           SaveGroups(t, groups)
    PROVE  StoreInv'
<1> DEFINE gs == [groups EXCEPT ![Default] = IF @ = None THEN DefaultGroup ELSE @]
           snap == [Decode EXCEPT !.groups = gs]
<1>1. boot = "up" /\ th[t].at = "idle" /\ Commit(t, snap)
  BY DEF SaveGroups, Starts
<1>2. Decode \in Snapshot /\ Decode.assign \in [Devices -> GroupIDs \cup {None}]
  BY DecodeType, SnapshotParts DEF StoreInv
<1>3. DefaultGroup \in Group
  BY DEF DefaultGroup, Group
<1>4. gs \in [GroupIDs -> Group \cup {None}] /\ gs[Default] # None
  BY <1>3, StoreAssumption
<1> HIDE DEF gs
<1>5. snap = [groups |-> gs, assign |-> Decode.assign]
  BY <1>2, SnapshotParts
<1>6. snap \in Snapshot
  BY <1>2, <1>4, <1>5, SnapshotMade
<1> HIDE DEF snap
<1> QED
  BY <1>1, <1>6, CommitInv

\* The two handlers that write assignments keep the policies.
LEMMA AssignInv ==
    ASSUME StoreInv, NEW t \in Threads,
           \/ SaveAssignments(t)
           \/ \E d \in Devices, id \in GroupIDs \cup {None} : SetDeviceAssignment(t, d, id)
    PROVE  StoreInv'
<1>1. /\ Decode \in Snapshot
      /\ Decode.groups \in [GroupIDs -> Group \cup {None}] /\ Decode.groups[Default] # None
      /\ Decode.assign \in [Devices -> GroupIDs \cup {None}]
      /\ Decode = [groups |-> Decode.groups, assign |-> Decode.assign]
  BY DecodeType, SnapshotParts DEF StoreInv
<1>2. ASSUME NEW as \in [Devices -> GroupIDs \cup {None}],
             Commit(t, [groups |-> Decode.groups, assign |-> as]),
             th[t].at \in {"idle", "assignAll"}, boot = "up"
      PROVE  StoreInv'
  <2> DEFINE snap == [groups |-> Decode.groups, assign |-> as]
  <2>1. snap \in Snapshot
    BY <1>1, <1>2, SnapshotMade
  <2>2. Commit(t, snap)
    BY <1>2
  <2> HIDE DEF snap
  <2> QED
    BY <1>2, <2>1, <2>2, CommitInv
<1>3. CASE SaveAssignments(t)
  <2>1. /\ th[t].at = "assignAll" /\ th[t].assign \in [Devices -> GroupIDs \cup {None}]
        /\ Commit(t, [Decode EXCEPT !.assign = th[t].assign]) /\ boot = "up"
    BY <1>3, AtWorkIsUp DEF SaveAssignments, StoreInv, HandlerOK
  <2>2. [Decode EXCEPT !.assign = th[t].assign] = [groups |-> Decode.groups, assign |-> th[t].assign]
    BY <1>1
  <2> QED
    BY <1>2, <2>1, <2>2
<1>4. CASE \E d \in Devices, id \in GroupIDs \cup {None} : SetDeviceAssignment(t, d, id)
  <2>1. PICK d \in Devices, id \in GroupIDs \cup {None} : SetDeviceAssignment(t, d, id)
    BY <1>4
  <2> DEFINE x == IF id = Default THEN None ELSE id
             as == [Decode.assign EXCEPT ![d] = x]
  <2>2. /\ th[t].at = "idle" /\ boot = "up"
        /\ Commit(t, [Decode EXCEPT !.assign[d] = x])
    BY <2>1 DEF SetDeviceAssignment, Starts
  <2>3. x \in GroupIDs \cup {None}
    OBVIOUS
  <2> HIDE DEF x
  <2>4. as \in [Devices -> GroupIDs \cup {None}]
    BY <1>1, <2>3
  <2>5. [Decode EXCEPT !.assign[d] = x] = [groups |-> Decode.groups, assign |-> as]
    BY <1>1
  <2> HIDE DEF as
  <2> QED
    BY <1>2, <2>2, <2>4, <2>5
<1> QED
  BY <1>3, <1>4

\* The first half of the handlers that look at memory or at the store before
\* they write.
LEMMA LookInv ==
    ASSUME StoreInv, NEW t \in Threads,
           \/ \E as \in [Devices -> GroupIDs \cup {None}] : AssignAllCheck(t, as)
           \/ \E id \in GroupIDs : PresetRead(t, id)
           \/ RestoreRead(t)
    PROVE  StoreInv'
<1>1. mem \in Snapshot /\ catsMem \in Categories /\ doc \in Snapshot \cup {None, Broken} /\ cats \in Categories
  BY DEF StoreInv, TypeOK
<1>2. CASE \E as \in [Devices -> GroupIDs \cup {None}] : AssignAllCheck(t, as)
  <2>1. PICK as \in [Devices -> GroupIDs \cup {None}] : AssignAllCheck(t, as)
    BY <1>2
  <2> DEFINE s == IF mem = Decode THEN {} ELSE {"doc"}
             h == [Idle EXCEPT !.at = "assignAll", !.assign = as, !.stale = s]
  <2>2. /\ boot = "up" /\ th[t].at = "idle" /\ Go(t, h, {})
        /\ \A d \in Devices : as[d] # None => mem.groups[as[d]] # None
        /\ UNCHANGED <<doc, cats, fenced, mem, catsMem, list, boot, todo, behind>>
    BY <2>1 DEF AssignAllCheck, Starts
  <2>3. s \in SUBSET Parts /\ ("doc" \notin s => mem = Decode)
    BY DEF Parts
  <2> HIDE DEF s
  <2>4. h \in Handler /\ HandlerOK(h) /\ h.at = "assignAll" /\ h.assign = as /\ h.stale = s
    BY <2>3 DEF Idle, Handler, HandlerOK
  <2> HIDE DEF h
  <2>5. Fresh(h, Decode, doc # Broken, cats)
    BY <2>2, <2>3, <2>4 DEF Fresh
  <2>6. \A p \in Parts : ~Owes(th[t], p)
    BY <2>2 DEF Owes
  <2> QED
    BY <2>2, <2>4, <2>5, <2>6, QuietStep
<1>3. CASE \E id \in GroupIDs : PresetRead(t, id)
  <2>1. PICK id \in GroupIDs : PresetRead(t, id)
    BY <1>3
  <2> DEFINE g == [mem.groups[id] EXCEPT !.content = @ \cup {Preset}]
             h == [Idle EXCEPT !.at = "update", !.id = id, !.body = g]
  <2>2. /\ boot = "up" /\ th[t].at = "idle" /\ Go(t, h, {}) /\ mem.groups[id] # None
        /\ UNCHANGED <<doc, cats, fenced, mem, catsMem, list, boot, todo, behind>>
    BY <2>1 DEF PresetRead, Starts
  <2>3. g \in Group
    <3>1. mem.groups[id] \in Group
      BY <1>1, <2>2, SnapshotParts
    <3> QED
      BY <3>1, StoreAssumption DEF Group
  <2> HIDE DEF g
  <2>4. h \in Handler /\ HandlerOK(h) /\ h.at = "update"
    BY <2>3 DEF Idle, Handler, HandlerOK
  <2> HIDE DEF h
  <2>5. Fresh(h, Decode, doc # Broken, cats)
    BY <2>4 DEF Fresh
  <2>6. \A p \in Parts : ~Owes(th[t], p)
    BY <2>2 DEF Owes
  <2> QED
    BY <2>2, <2>4, <2>5, <2>6, QuietStep
<1>4. CASE RestoreRead(t)
  <2> DEFINE h == [Idle EXCEPT !.at = "restore", !.doc = doc, !.cats = cats]
  <2>1. /\ boot \in {"up", "off"} /\ th[t].at = "idle" /\ Go(t, h, {})
        /\ UNCHANGED <<doc, cats, fenced, mem, catsMem, list, boot, todo, behind>>
    BY <1>4 DEF RestoreRead
  <2>2. h \in Handler /\ HandlerOK(h) /\ h.at = "restore"
    BY <1>1 DEF Idle, Handler, HandlerOK
  <2> HIDE DEF h
  <2>3. Fresh(h, Decode, doc # Broken, cats)
    BY <2>2 DEF Fresh
  <2>4. \A p \in Parts : ~Owes(th[t], p)
    BY <2>1 DEF Owes
  <2> QED
    BY <2>1, <2>2, <2>3, <2>4, QuietStep
<1> QED
  BY <1>2, <1>3, <1>4

\* The second half of the preset handler saves the policy.
LEMMA PresetSaveInv ==
    ASSUME StoreInv, NEW t \in Threads, PresetSave(t)
    PROVE  StoreInv'
<1> DEFINE id == th[t].id
           g == th[t].body
           snap == [Decode EXCEPT !.groups[id] = g]
<1>1. th[t].at = "update" /\ boot = "up" /\ id \in GroupIDs /\ g \in Group /\ Commit(t, snap)
  BY AtWorkIsUp DEF PresetSave, StoreInv, HandlerOK
<1> HIDE DEF id, g
<1>2. Decode \in Snapshot
  BY DecodeType DEF StoreInv
<1>3. snap \in Snapshot
  BY <1>1, <1>2, SetGroup
<1> HIDE DEF snap
<1> QED
  BY <1>1, <1>3, CommitInv

\* A second half that does not write.
LEMMA GiveUpInv ==
    ASSUME StoreInv, NEW t \in Threads, GiveUp(t)
    PROVE  StoreInv'
<1>1. /\ th[t].at \in {"assignAll", "update", "restore"} /\ boot \in {"up", "off"} /\ Go(t, Idle, {})
      /\ UNCHANGED <<doc, cats, fenced, mem, catsMem, list, boot, todo, behind>>
  BY AtWorkIsUp DEF GiveUp
<1>2. \A p \in Parts : ~Owes(th[t], p)
  BY <1>1 DEF Owes
<1>3. Idle \in Handler /\ Idle.at = "idle" /\ HandlerOK(Idle) /\ Fresh(Idle, Decode, doc # Broken, cats)
  BY IdleType
<1> QED
  BY <1>1, <1>2, <1>3, QuietStep

\* SetEnabledCategories stores the selection, then caches it.
LEMMA CategoriesInv ==
    ASSUME StoreInv, NEW t \in Threads,
           (\E c \in Categories : SetEnabledCategories(t, c)) \/ CacheCategories(t)
    PROVE  StoreInv'
<1>1. /\ mem \in Snapshot /\ catsMem \in Categories /\ doc \in Snapshot \cup {None, Broken}
      /\ cats \in Categories /\ behind \subseteq Parts /\ fenced \in BOOLEAN
      /\ th[t] \in Handler /\ HandlerOK(th[t]) /\ Fresh(th[t], Decode, doc # Broken, cats)
  BY DEF StoreInv, TypeOK
<1>2. {"cats"} \in SUBSET Parts /\ {} \in SUBSET Parts
  BY DEF Parts
<1>3. CASE \E c \in Categories : SetEnabledCategories(t, c)
  <2>1. PICK c \in Categories : SetEnabledCategories(t, c)
    BY <1>3
  <2> DEFINE h == [Idle EXCEPT !.at = "cacheCats", !.cats = c]
  <2>2. h \in Handler /\ HandlerOK(h) /\ h.at = "cacheCats" /\ h.cats = c
    BY DEF Idle, Handler, HandlerOK
  <2>3. /\ boot = "up" /\ th[t].at = "idle" /\ cats' = c
        /\ UNCHANGED <<doc, mem, catsMem, list, boot, todo>>
        /\ \/ Go(t, h, {"cats"}) /\ UNCHANGED <<fenced, behind>>
           \/ Go(t, Idle, {"cats"}) /\ fenced' = TRUE /\ behind' = behind \cup {"cats"}
    BY <2>1 DEF SetEnabledCategories, Starts
  <2> HIDE DEF h
  <2>4. (Current("doc") => Current("doc")') /\ ~Owes(th[t], "doc")
    BY <2>3 DEF Current, Decode, Owes
  <2>5. CASE Go(t, h, {"cats"}) /\ UNCHANGED <<fenced, behind>>
    <3>1. Owes(h, "cats") /\ Fresh(h, Decode', doc' # Broken, cats')
      BY <2>2, <2>3 DEF Owes, Fresh
    <3>2. \A p \in Parts : \/ Current(p)' \/ p \in behind' \/ Owes(h, p)
                           \/ /\ Current(p) => Current(p)'
                              /\ p \in behind => p \in behind'
                              /\ ~Owes(th[t], p)
      BY <2>4, <2>5, <3>1 DEF Parts
    <3>3. fenced' \in BOOLEAN /\ behind' \subseteq Parts /\ "doc" \notin {"cats"}
      BY <1>1, <2>5
    <3> QED
      BY <1>1, <1>2, <2>2, <2>3, <2>5, <3>1, <3>2, <3>3, HandlerStep
  <2>6. CASE Go(t, Idle, {"cats"}) /\ fenced' = TRUE /\ behind' = behind \cup {"cats"}
    <3>1. \A p \in Parts : \/ Current(p)' \/ p \in behind' \/ Owes(Idle, p)
                           \/ /\ Current(p) => Current(p)'
                              /\ p \in behind => p \in behind'
                              /\ ~Owes(th[t], p)
      BY <2>4, <2>6 DEF Parts
    <3>2. fenced' \in BOOLEAN /\ behind' \subseteq Parts
      BY <1>1, <1>2, <2>6
    <3>3. Idle \in Handler /\ Idle.at = "idle" /\ HandlerOK(Idle) /\ Fresh(Idle, Decode', doc' # Broken, cats')
      BY IdleType
    <3> QED
      BY <1>1, <1>2, <2>3, <2>6, <3>1, <3>2, <3>3, HandlerStep
  <2> QED
    BY <2>3, <2>5, <2>6
<1>4. CASE CacheCategories(t)
  <2>1. /\ th[t].at = "cacheCats" /\ boot = "up" /\ th[t].cats \in Categories
        /\ Go(t, Idle, {}) /\ catsMem' = th[t].cats /\ behind' = (behind \ {"cats"}) \cup th[t].stale
        /\ UNCHANGED <<doc, cats, fenced, mem, list, boot, todo>>
    BY <1>1, <1>4, AtWorkIsUp DEF CacheCategories, HandlerOK
  <2>2. Current("cats")' \/ "cats" \in behind'
    BY <1>1, <2>1 DEF Fresh, Current
  <2>3. /\ Current("doc") => Current("doc")'
        /\ "doc" \in behind => "doc" \in behind'
        /\ ~Owes(th[t], "doc")
    BY <2>1 DEF Current, Decode, Owes
  <2>4. \A p \in Parts : \/ Current(p)' \/ p \in behind' \/ Owes(Idle, p)
                         \/ /\ Current(p) => Current(p)'
                            /\ p \in behind => p \in behind'
                            /\ ~Owes(th[t], p)
    BY <2>2, <2>3 DEF Parts
  <2>5. behind' \subseteq Parts
    BY <1>1, <2>1 DEF Handler
  <2>6. Idle \in Handler /\ Idle.at = "idle" /\ HandlerOK(Idle) /\ Fresh(Idle, Decode', doc' # Broken, cats')
    BY IdleType
  <2> QED
    BY <1>1, <1>2, <2>1, <2>4, <2>5, <2>6, HandlerStep
<1> QED
  BY <1>3, <1>4

\* A restored backup replaces both parts, and its rollback does so again.
LEMMA RestoreInv ==
    ASSUME StoreInv, NEW t \in Threads,
           (\E a \in Archives : RestoreWrite(t, a)) \/ Rollback(t)
    PROVE  StoreInv'
<1>1. /\ mem \in Snapshot /\ catsMem \in Categories /\ doc \in Snapshot \cup {None, Broken}
      /\ cats \in Categories /\ behind \subseteq Parts /\ fenced \in BOOLEAN
      /\ th[t] \in Handler /\ HandlerOK(th[t])
  BY DEF StoreInv, TypeOK
<1>2. Parts \in SUBSET Parts /\ "doc" \in Parts /\ "cats" \in Parts
  BY DEF Parts
<1>3. Idle \in Handler /\ Idle.at = "idle" /\ HandlerOK(Idle) /\ Fresh(Idle, Decode', doc' # Broken, cats')
  BY IdleType
<1>4. CASE \E a \in Archives : RestoreWrite(t, a)
  <2>1. PICK a \in Archives : RestoreWrite(t, a)
    BY <1>4
  <2> DEFINE r == [Idle EXCEPT !.at = "readDoc", !.stale = Parts]
             b == [th[t] EXCEPT !.at = "rollback", !.stale = Parts]
  <2>2. /\ th[t].at = "restore" /\ boot \in {"up", "off"} /\ doc' = a.doc /\ cats' = a.cats
        /\ UNCHANGED <<mem, catsMem, list, boot, todo>>
        /\ \/ boot = "up" /\ Go(t, r, Parts) /\ UNCHANGED <<fenced, behind>>
           \/ boot = "off" /\ Go(t, Idle, Parts) /\ UNCHANGED <<fenced, behind>>
           \/ Go(t, b, Parts) /\ UNCHANGED <<fenced, behind>>
           \/ Go(t, Idle, Parts) /\ fenced' = TRUE /\ behind' = behind \cup Parts
    BY <2>1, AtWorkIsUp DEF RestoreWrite
  <2>3. doc' \in Snapshot \cup {None, Broken} /\ cats' \in Categories
    BY <2>2, StoreAssumption
  <2>4. /\ r \in Handler /\ r.at = "readDoc" /\ r.stale = Parts /\ HandlerOK(r)
        /\ Fresh(r, Decode', doc' # Broken, cats')
    BY <1>2, IdleType
  <2>5. b \in Handler /\ b.at = "rollback" /\ HandlerOK(b) /\ Fresh(b, Decode', doc' # Broken, cats')
    <3>1. b \in Handler /\ b.at = "rollback" /\ b.cats = th[t].cats
      BY <1>1, <1>2 DEF Handler
    <3>2. th[t].cats \in Categories
      BY <1>1, <2>2 DEF HandlerOK
    <3> HIDE DEF b
    <3> QED
      BY <3>1, <3>2 DEF HandlerOK, Fresh
  <2> HIDE DEF r, b
  <2>6. CASE boot = "up" /\ Go(t, r, Parts) /\ UNCHANGED <<fenced, behind>>
    <3>1. \A p \in Parts : Owes(r, p)
      BY <2>4 DEF Owes
    <3> QED
      BY <1>1, <1>2, <2>2, <2>3, <2>4, <2>6, <3>1, HandlerStep
  <2>7. CASE boot = "off" /\ Go(t, Idle, Parts) /\ UNCHANGED <<fenced, behind>>
    <3>1. /\ th' \in [Threads -> Handler] /\ th'[t] = Idle /\ ops' \in Nat
          /\ \A u \in Threads \ {t} :
               /\ th'[u].at = th[u].at /\ HandlerOK(th'[u]) /\ Fresh(th'[u], Decode', doc' # Broken, cats')
      BY <1>2, <1>3, <2>7, GoThreads, OthersFresh DEF StoreInv
    <3>2. TypeOK'
      BY <1>1, <2>2, <2>3, <2>7, <3>1 DEF StoreInv, TypeOK
    <3>3. \A u \in Threads : /\ HandlerOK(th'[u]) /\ Fresh(th'[u], Decode', doc' # Broken, cats')
                             /\ th'[u].at \in {"idle", "restore", "rollback"}
      BY <1>3, <2>7, <3>1 DEF StoreInv
    <3>4. boot' = "off"
      BY <2>2, <2>7
    <3> QED
      BY <3>2, <3>3, <3>4 DEF StoreInv
  <2>8. CASE Go(t, b, Parts) /\ UNCHANGED <<fenced, behind>>
    <3>1. \A p \in Parts : Owes(b, p)
      BY <2>5 DEF Owes
    <3> QED
      BY <1>1, <1>2, <2>2, <2>3, <2>5, <2>8, <3>1, HandlerStep
  <2>9. CASE Go(t, Idle, Parts) /\ fenced' = TRUE /\ behind' = behind \cup Parts
    <3>1. \A p \in Parts : p \in behind'
      BY <2>9
    <3>2. behind' \subseteq Parts
      BY <1>1, <2>9
    <3>3. fenced' \in BOOLEAN
      BY <2>9
    <3> QED
      BY <1>1, <1>2, <1>3, <2>2, <2>3, <2>9, <3>1, <3>2, <3>3, HandlerStep
  <2> QED
    BY <2>2, <2>6, <2>7, <2>8, <2>9
<1>5. CASE Rollback(t)
  <2>1. /\ th[t].at = "rollback" /\ boot \in {"up", "off"} /\ Go(t, Idle, Parts)
        /\ behind' = behind \cup Parts /\ UNCHANGED <<mem, catsMem, list, boot, todo>>
    BY <1>5, AtWorkIsUp DEF Rollback
  <2>2. /\ th[t].doc \in Snapshot \cup {None, Broken} /\ th[t].cats \in Categories
    BY <1>1, <2>1 DEF Handler, HandlerOK
  <2>3. /\ doc' \in Snapshot \cup {None, Broken} /\ cats' \in Categories /\ fenced' \in BOOLEAN
    <3>1. CASE doc' = th[t].doc /\ cats' = th[t].cats /\ fenced' \in BOOLEAN
      BY <2>2, <3>1
    <3>2. CASE UNCHANGED <<doc, cats, fenced>>
      BY <1>1, <3>2
    <3> QED
      BY <1>5, <3>1, <3>2 DEF Rollback
  <2>4. (\A p \in Parts : p \in behind') /\ behind' \subseteq Parts
    BY <1>1, <2>1
  <2> QED
    BY <1>1, <1>2, <1>3, <2>1, <2>3, <2>4, HandlerStep
<1> QED
  BY <1>4, <1>5

\* Reload: read the document or fail, read the categories, install both.
LEMMA ReloadInv ==
    ASSUME StoreInv, NEW t \in Threads,
           ReloadReadDoc(t) \/ ReloadFails(t) \/ ReloadReadCats(t) \/ ReloadInstall(t)
    PROVE  StoreInv'
<1>1. /\ mem \in Snapshot /\ catsMem \in Categories /\ cats \in Categories /\ Decode \in Snapshot
      /\ doc \in Snapshot \cup {None, Broken} /\ behind \subseteq Parts /\ fenced \in BOOLEAN
      /\ th[t] \in Handler /\ HandlerOK(th[t]) /\ Fresh(th[t], Decode, doc # Broken, cats)
      /\ NoCats \in Categories
  BY DecodeType, StoreAssumption DEF StoreInv, TypeOK
<1>2. /\ Idle \in Handler /\ Idle.at = "idle" /\ HandlerOK(Idle)
      /\ Fresh(Idle, Decode', doc' # Broken, cats') /\ {} \in SUBSET Parts
  BY IdleType
<1>3. CASE ReloadReadDoc(t)
  <2> DEFINE h == [Idle EXCEPT !.at = "readCats", !.doc = Decode]
  <2>1. h \in Handler /\ HandlerOK(h) /\ h.at = "readCats" /\ h.doc = Decode
    BY <1>1 DEF Idle, Handler, HandlerOK
  <2>2. /\ boot = "up" /\ th[t].at = "readDoc" /\ Go(t, h, {}) /\ doc # Broken
        /\ UNCHANGED <<doc, cats, fenced, mem, catsMem, list, boot, todo, behind>>
    BY <1>3, AtWorkIsUp DEF ReloadReadDoc, Readable
  <2> HIDE DEF h
  <2>3. Fresh(h, Decode, doc # Broken, cats) /\ \A p \in Parts : Owes(h, p)
    BY <2>1, <2>2 DEF Fresh, Owes
  <2> QED
    BY <2>1, <2>2, <2>3, QuietStep
<1>4. CASE ReloadFails(t)
  <2>1. /\ boot = "up" /\ th[t].at = "readDoc" /\ Go(t, Idle, {}) /\ behind' = behind \cup th[t].stale
        /\ UNCHANGED <<doc, cats, fenced, mem, catsMem, list, boot, todo>>
    BY <1>4, AtWorkIsUp DEF ReloadFails
  <2>2. \A p \in Parts : \/ Current(p)' \/ p \in behind' \/ Owes(Idle, p)
                         \/ /\ Current(p) => Current(p)'
                            /\ p \in behind => p \in behind'
                            /\ ~Owes(th[t], p)
    BY <2>1 DEF Owes, Current, Decode
  <2>3. behind' \subseteq Parts
    BY <1>1, <2>1 DEF Handler
  <2> QED
    BY <1>1, <1>2, <2>1, <2>2, <2>3, HandlerStep
<1>5. CASE ReloadReadCats(t)
  <2>1. /\ boot = "up" /\ th[t].at = "readCats"
        /\ UNCHANGED <<doc, cats, fenced, mem, catsMem, list, boot, todo, behind>>
    BY <1>5, AtWorkIsUp DEF ReloadReadCats
  <2>2. ASSUME NEW c \in Categories, NEW s \in SUBSET Parts,
               \/ c = cats /\ s = th[t].stale
               \/ c = NoCats /\ s = th[t].stale \cup {"cats"},
               Go(t, [th[t] EXCEPT !.at = "install", !.cats = c, !.stale = s], {})
        PROVE  StoreInv'
    <3> DEFINE h == [th[t] EXCEPT !.at = "install", !.cats = c, !.stale = s]
    <3>1. h \in Handler /\ h.at = "install" /\ h.doc = th[t].doc /\ h.cats = c /\ h.stale = s
      BY <1>1, <2>2 DEF Handler
    <3>2. Go(t, h, {})
      BY <2>2
    <3> HIDE DEF h
    <3>3. HandlerOK(h)
      BY <1>1, <2>1, <3>1 DEF HandlerOK
    <3>4. Fresh(h, Decode, doc # Broken, cats) /\ \A p \in Parts : Owes(h, p)
      BY <1>1, <2>1, <2>2, <3>1 DEF Fresh, Owes
    <3> QED
      BY <2>1, <3>1, <3>2, <3>3, <3>4, QuietStep
  <2>3. /\ th[t].stale \in SUBSET Parts /\ th[t].stale \cup {"cats"} \in SUBSET Parts
        /\ [th[t] EXCEPT !.at = "install", !.cats = cats] =
             [th[t] EXCEPT !.at = "install", !.cats = cats, !.stale = th[t].stale]
    BY <1>1 DEF Handler, Parts
  <2>4. \/ Go(t, [th[t] EXCEPT !.at = "install", !.cats = cats, !.stale = th[t].stale], {})
        \/ Go(t, [th[t] EXCEPT !.at = "install", !.cats = NoCats, !.stale = th[t].stale \cup {"cats"}], {})
    BY <1>5, <2>3 DEF ReloadReadCats
  <2> QED
    BY <1>1, <2>2, <2>3, <2>4
<1>6. CASE ReloadInstall(t)
  <2>1. /\ boot = "up" /\ th[t].at = "install" /\ Go(t, Idle, {}) /\ behind' = th[t].stale
        /\ mem' = th[t].doc /\ catsMem' = th[t].cats
        /\ UNCHANGED <<doc, cats, fenced, list, boot, todo>>
    BY <1>6, AtWorkIsUp DEF ReloadInstall
  <2>2. mem' \in Snapshot /\ catsMem' \in Categories /\ behind' \subseteq Parts
    BY <1>1, <2>1 DEF HandlerOK, Handler
  <2>3. \A p \in Parts : Current(p)' \/ p \in behind'
    BY <1>1, <2>1 DEF Fresh, Current, Decode, Parts
  <2> QED
    BY <1>1, <1>2, <2>1, <2>2, <2>3, HandlerStep
<1> QED
  BY <1>3, <1>4, <1>5, <1>6

\* Every step of a handler keeps the invariant.
LEMMA ServeInv ==
    ASSUME StoreInv, NEW t \in Threads, Serve(t)
    PROVE  StoreInv'
<1>1. Bodies \subseteq Group
  BY StoreAssumption
<1> QED
  BY <1>1, CreateGroupInv, DeleteGroupInv, SaveGroupsInv, AssignInv, LookInv, PresetSaveInv,
     GiveUpInv, CategoriesInv, RestoreInv, ReloadInv DEF Serve

-----------------------------------------------------------------------------
(* The start of the process *)

\* What is read at the start, or after a migration, has its type.
LEMMA ReadCatsType ==
    ASSUME TypeOK, ReadCats, cats' = cats
    PROVE  /\ catsMem' \in Categories /\ behind' \subseteq Parts /\ "doc" \notin behind'
           /\ Current("cats")' \/ "cats" \in behind'
BY StoreAssumption DEF TypeOK, ReadCats, Current, Parts

\* The initial states satisfy the invariant.
LEMMA StoreInit == Init => StoreInv
<1> SUFFICES ASSUME Init PROVE StoreInv
  OBVIOUS
<1>1. doc \in Snapshot \cup {None} /\ Decode \in Snapshot
  <2>1. CASE doc = None
    BY <2>1, DecodeType DEF Decode
  <2>2. CASE doc # None
    <3>1. PICK g \in Bodies : doc = [Empty EXCEPT !.groups[Default] = g]
      BY <2>2 DEF Init
    <3>2. Empty \in Snapshot /\ g \in Group /\ Default \in GroupIDs
      BY DecodeType, StoreAssumption
    <3>3. doc \in Snapshot
      BY <3>1, <3>2, SetGroup
    <3> QED
      BY <3>3, StoreAssumption DEF Decode
  <2> QED
    BY <2>1, <2>2
<1>2. doc # Broken
  BY <1>1, StoreAssumption
<1>3. TypeOK /\ AllIdle
  BY <1>1, IdleType DEF Init, TypeOK, AllIdle
<1>4. \A t \in Threads : HandlerOK(th[t]) /\ Fresh(th[t], Decode, doc # Broken, cats)
  BY IdleType DEF Init
<1>5. Current("cats") /\ Current("doc")
  BY <1>2 DEF Init, Current
<1> QED
  BY <1>3, <1>4, <1>5 DEF Init, StoreInv

\* Restart: the service reads both stores or there is none; no handler is left.
LEMMA RestartInv == StoreInv /\ Restart => StoreInv'
<1> SUFFICES ASSUME StoreInv, Restart PROVE StoreInv'
  OBVIOUS
<1>1. /\ Decode' = Decode /\ Decode \in Snapshot /\ Empty \in Snapshot /\ TypeOK
      /\ UNCHANGED <<doc, cats, list>> /\ todo' = {} /\ th' = [t \in Threads |-> Idle] /\ fenced' = FALSE
  BY DecodeType DEF StoreInv, Restart, Decode
<1>2. th' \in [Threads -> Handler] /\ ops' \in Nat /\ fenced' \in BOOLEAN
  <2>1. ops' = ops + 1 /\ ops \in Nat
    BY <1>1 DEF TypeOK, Restart
  <2>2. ops' \in Nat
    BY <2>1
  <2>3. fenced' \in BOOLEAN
    BY <1>1
  <2> QED
    BY <1>1, <2>2, <2>3, IdleType
<1>3. /\ AllIdle' /\ \A t \in Threads : th'[t].at = "idle" /\ HandlerOK(th'[t])
                                        /\ Fresh(th'[t], Decode', doc' # Broken, cats')
  BY <1>1, IdleType DEF AllIdle
<1>4. CASE doc # Broken /\ mem' = Decode /\ ReadCats /\ boot' = "migrate"
  <2>1. TypeOK'
    BY <1>1, <1>2, <1>4, ReadCatsType DEF TypeOK
  <2>2. Current("doc")'
    BY <1>1, <1>4 DEF Current
  <2>3. Current("cats")' \/ "cats" \in behind'
    BY <1>1, <1>4, ReadCatsType
  <2> QED
    BY <1>3, <1>4, <2>1, <2>2, <2>3 DEF StoreInv
<1>5. CASE mem' = Empty /\ catsMem' = NoCats /\ behind' = {} /\ boot' = "off"
  <2>1. TypeOK'
    BY <1>1, <1>2, <1>5, StoreAssumption DEF TypeOK
  <2> QED
    BY <1>3, <1>5, <2>1 DEF StoreInv
<1> QED
  BY <1>4, <1>5 DEF Restart

\* The migration of old records: done before, stored and read, or stored only.
LEMMA MigrateInv == StoreInv /\ MigrateLegacyPolicy => StoreInv'
<1> SUFFICES ASSUME StoreInv, MigrateLegacyPolicy PROVE StoreInv'
  OBVIOUS
<1>1. /\ boot = "migrate" /\ boot' = "blocklist" /\ TypeOK /\ AllIdle /\ mem = Decode /\ doc # Broken
      /\ todo' = {id \in GroupIDs : list /\ mem'.groups[id] # None}
      /\ UNCHANGED <<cats, list, th, ops>>
      /\ Current("cats") \/ "cats" \in behind
      /\ mem \in Snapshot /\ catsMem \in Categories /\ behind \subseteq Parts
  BY DEF MigrateLegacyPolicy, StoreInv, Current, TypeOK
<1>2. \A t \in Threads : /\ th'[t] = th[t] /\ th[t].at = "idle" /\ HandlerOK(th'[t])
                         /\ Fresh(th'[t], Decode', doc' # Broken, cats')
  BY <1>1 DEF StoreInv, AllIdle, Fresh
<1>3. AllIdle'
  BY <1>2 DEF AllIdle
<1>4. \A id \in todo' : list' /\ mem'.groups[id] # None
  BY <1>1
<1>5. ASSUME mem' \in Snapshot, mem' = Decode', doc' # Broken
      PROVE  Moving'
  <2>1. \A id \in GroupIDs : list' /\ id \notin todo' => Decode'.groups[id] = None
    BY <1>1, <1>5
  <2> QED
    BY <1>5, <2>1 DEF Moving
<1>6. CASE UNCHANGED <<doc, fenced, mem, catsMem, behind>>
  <2>1. Decode' = Decode /\ (Current("cats")' \/ "cats" \in behind')
    BY <1>1, <1>6 DEF Decode, Current
  <2>2. TypeOK'
    BY <1>1, <1>6 DEF TypeOK
  <2>3. Moving'
    BY <1>1, <1>5, <1>6, <2>1
  <2> QED
    BY <1>1, <1>2, <1>3, <1>4, <2>1, <2>2, <2>3 DEF StoreInv
<1>7. CASE doc = None /\ \E l \in Legacies \ {None} : doc' = l
  <2>1. doc' \in Snapshot /\ Decode' = doc' /\ doc' # Broken
    <3>1. doc' \in Snapshot
      BY <1>7, StoreAssumption
    <3> QED
      BY <3>1, StoreAssumption DEF Decode
  <2>2. CASE mem' = doc' /\ ReadCats /\ fenced' = fenced
    <3>1. TypeOK'
      BY <1>1, <2>1, <2>2, ReadCatsType DEF TypeOK
    <3>2. Current("cats")' \/ "cats" \in behind'
      BY <1>1, <2>2, ReadCatsType
    <3>3. Moving'
      BY <1>5, <2>1, <2>2
    <3> QED
      BY <1>1, <1>2, <1>3, <1>4, <3>1, <3>2, <3>3 DEF StoreInv
  <2>3. CASE behind' = behind \cup {"doc"} /\ fenced' \in BOOLEAN /\ UNCHANGED <<mem, catsMem>>
    <3>1. TypeOK'
      BY <1>1, <2>1, <2>3 DEF TypeOK, Parts
    <3>2. Current("cats")' \/ "cats" \in behind'
      BY <1>1, <2>3 DEF Current
    <3> QED
      BY <1>1, <1>2, <1>3, <1>4, <2>3, <3>1, <3>2 DEF StoreInv
  <2> QED
    BY <1>6, <2>2, <2>3 DEF MigrateLegacyPolicy
<1> QED
  BY <1>6, <1>7 DEF MigrateLegacyPolicy

\* One policy gets the entries of the block list.
LEMMA BlockListStepInv ==
    ASSUME StoreInv, NEW id \in GroupIDs, BlockListStep(id)
    PROVE  /\ StoreInv'
           /\ \E g \in Group : Decode' = [Decode EXCEPT !.groups[id] = g]
<1> DEFINE g == [mem.groups[id] EXCEPT !.content = @ \cup {BlockList}]
<1>1. /\ boot = "blocklist" /\ id \in todo /\ (Default \in todo => id = Default)
      /\ UNCHANGED <<cats, mem, catsMem, list, th, ops>>
      /\ TypeOK /\ AllIdle /\ mem.groups[id] # None /\ doc' = [Decode EXCEPT !.groups[id] = g]
      /\ Current("cats") \/ "cats" \in behind
      /\ "doc" \in behind \/ Moving
      /\ behind \subseteq Parts /\ todo \subseteq GroupIDs /\ fenced \in BOOLEAN
      /\ \A i \in todo : list /\ mem.groups[i] # None
  BY DEF BlockListStep, StoreInv, TypeOK
<1>2. mem \in Snapshot /\ Decode \in Snapshot
  BY <1>1, DecodeType DEF TypeOK
<1>3. g \in Group /\ BlockList \in g.content
  <2>1. mem.groups[id] \in Group
    BY <1>1, <1>2, SnapshotParts
  <2> QED
    BY <2>1, StoreAssumption DEF Group
<1> HIDE DEF g
<1>4. /\ doc' \in Snapshot /\ doc'.groups = [Decode.groups EXCEPT ![id] = g]
      /\ Decode.groups \in [GroupIDs -> Group \cup {None}]
  BY <1>1, <1>2, <1>3, SetGroup, SnapshotParts
<1>5. Decode' = doc' /\ doc' # Broken
  BY <1>4, StoreAssumption DEF Decode
<1>6. \A t \in Threads : /\ th'[t] = th[t] /\ th[t].at = "idle" /\ HandlerOK(th'[t])
                         /\ Fresh(th'[t], Decode', doc' # Broken, cats')
  BY <1>1 DEF StoreInv, AllIdle, Fresh
<1>7. AllIdle'
  BY <1>6 DEF AllIdle
<1>8. (Current("cats") => Current("cats")')
  BY <1>1 DEF Current
<1>9. CASE todo' = todo \ {id} /\ UNCHANGED <<boot, fenced, behind>>
  <2>1. TypeOK'
    BY <1>1, <1>4, <1>9 DEF TypeOK
  <2>2. Moving => Moving'
    <3> SUFFICES ASSUME Moving PROVE Moving'
      OBVIOUS
    <3>1. \A i \in GroupIDs : list' /\ i \notin todo' /\ Decode'.groups[i] # None
                                => BlockList \in Decode'.groups[i].content
      BY <1>1, <1>3, <1>4, <1>5, <1>9 DEF Moving
    <3>2. Default \notin todo'
      BY <1>1, <1>9
    <3>3. list'
      BY <1>1
    <3> QED
      BY <1>5, <3>1, <3>2, <3>3 DEF Moving
  <2>3. \A i \in todo' : list' /\ mem'.groups[i] # None
    BY <1>1, <1>9
  <2>4. boot' = "blocklist" /\ ("doc" \in behind' \/ Moving')
    BY <1>1, <1>9, <2>2
  <2>5. Current("cats")' \/ "cats" \in behind'
    BY <1>1, <1>8, <1>9
  <2>6. StoreInv'
    BY <1>6, <1>7, <2>1, <2>3, <2>4, <2>5 DEF StoreInv
  <2> QED
    BY <1>1, <1>3, <1>5, <2>6
<1>10. CASE todo' = {} /\ boot' = "up" /\ fenced' = TRUE /\ behind' = behind \cup {"doc"}
  <2>1. behind' \subseteq Parts /\ todo' \subseteq GroupIDs
    BY <1>1, <1>10 DEF Parts
  <2>2. fenced' \in BOOLEAN
    BY <1>10
  <2>3. TypeOK'
    BY <1>1, <1>4, <1>10, <2>1, <2>2 DEF TypeOK
  <2>4. Accounted'
    <3>1. Current("cats")' \/ "cats" \in behind'
      BY <1>1, <1>8, <1>10
    <3> QED
      BY <1>10, <3>1 DEF Accounted, Parts
  <2>5. StoreInv'
    BY <1>6, <1>10, <2>3, <2>4 DEF StoreInv
  <2> QED
    BY <1>1, <1>3, <1>5, <2>5
<1> QED
  BY <1>9, <1>10 DEF BlockListStep

\* The migration ends, with memory read again or with an error.
LEMMA BlockListEndInv == StoreInv /\ (BlockListEnd \/ BlockListFails) => StoreInv'
<1> SUFFICES ASSUME StoreInv, BlockListEnd \/ BlockListFails PROVE StoreInv'
  OBVIOUS
<1>1. /\ boot = "blocklist" /\ boot' = "up" /\ list' \in BOOLEAN /\ todo' \subseteq GroupIDs
      /\ UNCHANGED <<doc, cats, fenced, th, ops>>
      /\ TypeOK /\ AllIdle /\ (Current("cats") \/ "cats" \in behind)
      /\ "doc" \in behind \/ Moving
      /\ mem \in Snapshot /\ catsMem \in Categories /\ behind \subseteq Parts
  BY DEF BlockListEnd, BlockListFails, StoreInv, TypeOK
<1>2. Decode' = Decode /\ Decode \in Snapshot
  BY <1>1, DecodeType DEF Decode
<1>3. \A t \in Threads : /\ th'[t] = th[t] /\ HandlerOK(th'[t])
                         /\ Fresh(th'[t], Decode', doc' # Broken, cats')
  BY <1>1, <1>2 DEF StoreInv
<1>4. ASSUME mem' \in Snapshot, catsMem' \in Categories, behind' \subseteq Parts,
             Current("doc")' \/ "doc" \in behind', Current("cats")' \/ "cats" \in behind'
      PROVE  StoreInv'
  <2>1. TypeOK'
    BY <1>1, <1>4 DEF TypeOK
  <2>2. Accounted'
    BY <1>4 DEF Accounted, Parts
  <2> QED
    BY <1>1, <1>3, <2>1, <2>2 DEF StoreInv
<1>5. CASE Readable /\ mem' = Decode /\ ReadCats
  <2>1. Current("doc")'
    BY <1>1, <1>2, <1>5 DEF Readable, Current
  <2> QED
    BY <1>1, <1>2, <1>4, <1>5, <2>1, ReadCatsType
<1>6. CASE UNCHANGED <<mem, catsMem>> /\ behind \subseteq behind' /\ behind' \subseteq behind \cup {"doc"}
           /\ (~list \/ Default \in todo \/ "doc" \in behind')
  <2>1. Current("doc")' \/ "doc" \in behind'
    <3>1. CASE Moving /\ (~list \/ Default \in todo)
      BY <1>1, <1>2, <1>6, <3>1 DEF Moving, Current
    <3>2. CASE "doc" \in behind'
      BY <3>2
    <3> QED
      BY <1>1, <1>6, <3>1, <3>2
  <2>2. Current("cats")' \/ "cats" \in behind'
    BY <1>1, <1>6 DEF Current
  <2>3. behind' \subseteq Parts
    BY <1>1, <1>6 DEF Parts
  <2> QED
    BY <1>1, <1>4, <1>6, <2>1, <2>2, <2>3
<1>7. CASE BlockListEnd
  <2>1. CASE list
    BY <1>5, <1>7, <2>1 DEF BlockListEnd
  <2>2. CASE ~list
    BY <1>6, <1>7, <2>2 DEF BlockListEnd
  <2> QED
    BY <2>1, <2>2
<1>8. CASE BlockListFails
  <2>1. CASE /\ behind' = IF list /\ Default \notin todo THEN behind \cup {"doc"} ELSE behind
             /\ UNCHANGED <<mem, catsMem>>
    BY <1>6, <2>1
  <2> QED
    BY <1>5, <1>8, <2>1 DEF BlockListFails
<1> QED
  BY <1>7, <1>8

-----------------------------------------------------------------------------
(* The theorems *)

\* Every step keeps the invariant.
LEMMA StoreNext == StoreInv /\ [Next]_vars => StoreInv'
<1>1. StoreInv /\ UNCHANGED vars => StoreInv'
  BY DEF vars, StoreInv, TypeOK, AllIdle, Moving, Accounted, Current, Decode
<1> QED
  BY <1>1, ServeInv, RestartInv, MigrateInv, BlockListStepInv, BlockListEndInv DEF Next

\* The invariant holds in every state.
LEMMA StoreInvariant == Spec => []StoreInv
BY StoreInit, StoreNext, PTL DEF Spec

\* The document, memory and every handler keep their types, and there always
\* is a default policy, whatever is restored.
THEOREM StoreTypeCorrect == Spec => []TypeOK
<1>1. StoreInv => TypeOK
  BY DEF StoreInv
<1> QED
  BY <1>1, StoreInvariant, PTL

\* When no handler is at work, the service enforces what is stored, unless the
\* last refresh of that part was overtaken, failed or could not read it.
THEOREM SettledStoreIsCurrent == Spec => []SettledIsCurrent
<1>1. StoreInv => SettledIsCurrent
  BY DEF StoreInv, Accounted, Owes, SettledIsCurrent
<1> QED
  BY <1>1, StoreInvariant, PTL

\* No handler touches the block list file.
LEMMA ServeKeepsList ==
    ASSUME NEW t \in Threads, Serve(t)
    PROVE  list' = list
<1>1. ASSUME NEW s, Commit(t, s) PROVE list' = list
  BY <1>1 DEF Commit
<1>2. ASSUME NEW id \in GroupIDs, NEW g \in Bodies, CreateGroup(t, id, g) \/ UpdateGroup(t, id, g)
      PROVE  list' = list
  BY <1>1, <1>2 DEF CreateGroup, UpdateGroup
<1>3. ASSUME NEW id \in GroupIDs, DeleteGroup(t, id) \/ PresetRead(t, id) PROVE list' = list
  BY <1>1, <1>3 DEF DeleteGroup, PresetRead
<1>4. ASSUME NEW gs, SaveGroups(t, gs) PROVE list' = list
  BY <1>1, <1>4 DEF SaveGroups
<1>5. ASSUME NEW d \in Devices, NEW id \in GroupIDs \cup {None}, SetDeviceAssignment(t, d, id)
      PROVE  list' = list
  BY <1>1, <1>5 DEF SetDeviceAssignment
<1>6. ASSUME NEW as, AssignAllCheck(t, as) PROVE list' = list
  BY <1>6 DEF AssignAllCheck
<1>7. ASSUME NEW c, SetEnabledCategories(t, c) PROVE list' = list
  BY <1>7 DEF SetEnabledCategories
<1>8. ASSUME NEW a, RestoreWrite(t, a) PROVE list' = list
  BY <1>8 DEF RestoreWrite
<1>9. SaveAssignments(t) \/ PresetSave(t) => list' = list
  BY <1>1 DEF SaveAssignments, PresetSave
<1>10. RestoreRead(t) \/ Rollback(t) \/ GiveUp(t) \/ CacheCategories(t) => list' = list
  BY DEF RestoreRead, Rollback, GiveUp, CacheCategories
<1>11. ReloadReadDoc(t) \/ ReloadFails(t) \/ ReloadReadCats(t) \/ ReloadInstall(t) => list' = list
  BY DEF ReloadReadDoc, ReloadFails, ReloadReadCats, ReloadInstall
<1> QED
  BY <1>2, <1>3, <1>4, <1>5, <1>6, <1>7, <1>8, <1>9, <1>10, <1>11 DEF Serve

\* The block list file is emptied only when every policy has its entries, or
\* the policies made from old records were stored and not read again.
THEOREM BlockListIsMovedWhole == Spec => BlockListMovedWhole
<1> DEFINE Moved == list /\ ~list' => "doc" \in behind \/ \A id \in GroupIDs :
                      Decode.groups[id] # None => BlockList \in Decode.groups[id].content
<1>1. StoreInv /\ [Next]_vars => [Moved]_vars
  <2> SUFFICES ASSUME StoreInv, Next, list, ~list', "doc" \notin behind
               PROVE  \A id \in GroupIDs :
                        Decode.groups[id] # None => BlockList \in Decode.groups[id].content
    OBVIOUS
  <2>1. ASSUME NEW t \in Threads, Serve(t) PROVE list' = list
    BY <2>1, ServeKeepsList
  <2>2. BlockListEnd
    BY <2>1 DEF Next, Restart, MigrateLegacyPolicy, BlockListStep, BlockListFails
  <2>3. todo = {} /\ Moving
    BY <2>2 DEF BlockListEnd, StoreInv
  <2> QED
    BY <2>3 DEF Moving
<1> QED
  BY <1>1, StoreInvariant, PTL DEF Spec, BlockListMovedWhole


\* A dangling assignment in terms of the document the store decodes to.
LEMMA DanglingMeans ==
    ASSUME NEW d \in Devices
    PROVE  /\ Dangling(d) <=> Decode.assign[d] # None /\ Decode.groups[Decode.assign[d]] = None
           /\ Dangling(d)' <=> Decode'.assign[d] # None /\ Decode'.groups[Decode'.assign[d]] = None
BY DEF Dangling

\* Replacing one policy by another keeps every assignment alive.
LEMMA SetGroupKeeps ==
    ASSUME TypeOK, NEW d \in Devices, NEW id \in GroupIDs, NEW g \in Group,
           Decode' = [Decode EXCEPT !.groups[id] = g], ~Dangling(d)
    PROVE  ~Dangling(d)'
<1>1. Decode \in Snapshot /\ g # None
  BY DecodeType, StoreAssumption
<1>2. /\ Decode'.groups = [Decode.groups EXCEPT ![id] = g] /\ Decode'.assign = Decode.assign
      /\ Decode.groups \in [GroupIDs -> Group \cup {None}]
      /\ Decode.assign \in [Devices -> GroupIDs \cup {None}]
  BY <1>1, SetGroup, SnapshotParts
<1> HIDE DEF Dangling
<1> QED
  BY <1>1, <1>2, DanglingMeans

\* Only a handler that replaces a whole set by one it was sent, or checked
\* against a memory that was not what is stored, leaves an assignment to a
\* policy that does not exist.
THEOREM DanglingIsByReplace == Spec => DanglingOnlyByReplace
<1> DEFINE Replaces == \E t \in Threads :
             \/ th[t].at \in {"restore", "rollback"} /\ th'[t].at # th[t].at
             \/ th[t].at = "assignAll" /\ "doc" \in th[t].stale /\ th'[t].at # "assignAll"
             \/ \E groups \in [GroupIDs -> Bodies \cup {None}] : SaveGroups(t, groups)
           Kept == \A d \in Devices : ~Dangling(d) /\ Dangling(d)' => Replaces
<1>1. StoreInv /\ [Next]_vars => [Kept]_vars
  <2> SUFFICES ASSUME StoreInv, Next, NEW d \in Devices, ~Dangling(d), ~Replaces
               PROVE  ~Dangling(d)'
    OBVIOUS
  <2>1. /\ TypeOK /\ Decode \in Snapshot /\ Bodies \subseteq Group
        /\ Decode.groups \in [GroupIDs -> Group \cup {None}] /\ Decode.groups[Default] # None
        /\ Decode.assign \in [Devices -> GroupIDs \cup {None}]
        /\ Decode = [groups |-> Decode.groups, assign |-> Decode.assign]
    BY DecodeType, SnapshotParts, StoreAssumption DEF StoreInv
  <2> HIDE DEF Dangling
  <2>2. Decode' = Decode => ~Dangling(d)'
    BY DanglingMeans
  <2>3. \A t \in Threads : \A snap \in Snapshot : Commit(t, snap) => Decode' = snap
    BY StoreAssumption DEF Commit, Decode
  <2>4. ASSUME NEW id \in GroupIDs, NEW g \in Group, NEW t \in Threads,
               Commit(t, [Decode EXCEPT !.groups[id] = g])
        PROVE  ~Dangling(d)'
    <3>1. Decode' = [Decode EXCEPT !.groups[id] = g]
      <4> DEFINE snap == [Decode EXCEPT !.groups[id] = g]
      <4>1. snap \in Snapshot
        BY <2>1, SetGroup
      <4> HIDE DEF snap
      <4>2. Commit(t, snap)
        BY <2>4 DEF snap
      <4> QED
        BY <2>3, <4>1, <4>2 DEF snap
    <3> QED
      BY <2>1, <3>1, SetGroupKeeps
  <2>5. ASSUME NEW t \in Threads, NEW id \in GroupIDs, NEW g \in Bodies,
               CreateGroup(t, id, g) \/ UpdateGroup(t, id, g)
        PROVE  ~Dangling(d)'
    BY <2>1, <2>4, <2>5 DEF CreateGroup, UpdateGroup
  <2>6. ASSUME NEW t \in Threads, NEW id \in GroupIDs, DeleteGroup(t, id)
        PROVE  ~Dangling(d)'
    <3> DEFINE gs == [Decode.groups EXCEPT ![id] = None]
               as == [e \in Devices |-> IF Decode.assign[e] = id THEN None ELSE Decode.assign[e]]
               snap == [groups |-> gs, assign |-> as]
    <3>1. Commit(t, snap) /\ id # Default
      BY <2>6 DEF DeleteGroup
    <3>2. /\ gs \in [GroupIDs -> Group \cup {None}] /\ gs[Default] # None
          /\ as \in [Devices -> GroupIDs \cup {None}]
      BY <2>1, <3>1, StoreAssumption
    <3>3. as[d] # None => as[d] = Decode.assign[d] /\ as[d] # id /\ as[d] \in GroupIDs
      BY <2>1
    <3>4. \A o \in GroupIDs \ {id} : gs[o] = Decode.groups[o]
      BY <2>1
    <3> HIDE DEF gs, as
    <3>5. snap \in Snapshot /\ snap.groups = gs /\ snap.assign = as
      BY <3>2, SnapshotMade
    <3> HIDE DEF snap
    <3>6. Decode' = snap
      BY <2>3, <3>1, <3>5
    <3> QED
      BY <3>3, <3>4, <3>5, <3>6, DanglingMeans
  <2>7. ASSUME NEW t \in Threads, NEW e \in Devices, NEW id \in GroupIDs \cup {None},
               SetDeviceAssignment(t, e, id)
        PROVE  ~Dangling(d)'
    <3> DEFINE x == IF id = Default THEN None ELSE id
               as == [Decode.assign EXCEPT ![e] = x]
               snap == [groups |-> Decode.groups, assign |-> as]
    <3>1. x \in GroupIDs \cup {None} /\ (x # None => Decode.groups[x] # None)
      BY <2>7 DEF SetDeviceAssignment
    <3>2. Commit(t, [Decode EXCEPT !.assign[e] = x])
      BY <2>7 DEF SetDeviceAssignment
    <3> HIDE DEF x
    <3>3. [Decode EXCEPT !.assign[e] = x] = snap
      BY <2>1
    <3>4. as \in [Devices -> GroupIDs \cup {None}] /\ as[d] \in {x, Decode.assign[d]}
      BY <2>1, <3>1
    <3> HIDE DEF as
    <3>5. snap \in Snapshot /\ snap.groups = Decode.groups /\ snap.assign = as
      BY <2>1, <3>4, SnapshotMade
    <3>6. Decode' = snap
      BY <2>3, <3>2, <3>3, <3>5
    <3> HIDE DEF snap
    <3> QED
      BY <3>1, <3>4, <3>5, <3>6, DanglingMeans
  <2>8. ASSUME NEW t \in Threads, SaveAssignments(t)
        PROVE  ~Dangling(d)'
    <3> DEFINE as == th[t].assign
               snap == [groups |-> Decode.groups, assign |-> as]
    <3>1. /\ th[t].at = "assignAll" /\ Commit(t, [Decode EXCEPT !.assign = as])
          /\ as \in [Devices -> GroupIDs \cup {None}] /\ th \in [Threads -> Handler]
      BY <2>1, <2>8 DEF SaveAssignments, StoreInv, HandlerOK, TypeOK
    <3>2. th'[t].at # "assignAll"
      <4>1. th'[t] \in {Idle, [Idle EXCEPT !.at = "readDoc", !.stale = {"doc"}]}
        <5>1. ASSUME NEW s, Commit(t, s)
              PROVE  th'[t] \in {Idle, [Idle EXCEPT !.at = "readDoc", !.stale = {"doc"}]}
          BY <5>1 DEF Commit, Go
        <5> QED
          BY <3>1, <5>1
      <4>2. Idle.at = "idle" /\ [Idle EXCEPT !.at = "readDoc", !.stale = {"doc"}].at = "readDoc"
        BY DEF Idle
      <4> QED
        BY <4>1, <4>2
    <3>3. "doc" \notin th[t].stale
      BY <3>1, <3>2
    <3>4. as[d] # None => Decode.groups[as[d]] # None
      BY <3>1, <3>3 DEF StoreInv, Fresh
    <3>5. [Decode EXCEPT !.assign = th[t].assign] = [groups |-> Decode.groups, assign |-> th[t].assign]
      BY <2>1
    <3> HIDE DEF as
    <3>6. snap \in Snapshot /\ snap.groups = Decode.groups /\ snap.assign = as
      BY <2>1, <3>1, SnapshotMade
    <3>7. Decode' = snap
      BY <2>3, <3>1, <3>5, <3>6 DEF as
    <3> HIDE DEF snap
    <3> QED
      BY <3>4, <3>6, <3>7, DanglingMeans
  <2>9. ASSUME NEW t \in Threads, PresetSave(t)
        PROVE  ~Dangling(d)'
    <3>1. th[t].id \in GroupIDs /\ th[t].body \in Group
      BY <2>9 DEF PresetSave, StoreInv, HandlerOK
    <3>2. Commit(t, [Decode EXCEPT !.groups[th[t].id] = th[t].body])
      BY <2>9 DEF PresetSave
    <3> QED
      BY <2>4, <3>1, <3>2
  <2>10. ASSUME NEW t \in Threads, NEW a \in Archives, RestoreWrite(t, a)
         PROVE  FALSE
    <3>1. th[t].at = "restore" /\ th[t] \in Handler /\ th \in [Threads -> Handler]
      BY <2>1, <2>10 DEF RestoreWrite, TypeOK
    <3>2. th'[t] \in {Idle, [Idle EXCEPT !.at = "readDoc", !.stale = Parts],
                      [th[t] EXCEPT !.at = "rollback", !.stale = Parts]}
      BY <3>1, <2>10 DEF RestoreWrite, Go
    <3>3. th'[t].at # "restore"
      <4>1. [th[t] EXCEPT !.at = "rollback", !.stale = Parts].at = "rollback"
        BY <3>1 DEF Handler
      <4>2. Idle.at = "idle" /\ [Idle EXCEPT !.at = "readDoc", !.stale = Parts].at = "readDoc"
        BY DEF Idle
      <4> QED
        BY <3>2, <4>1, <4>2
    <3> QED
      BY <3>1, <3>3
  <2>11. ASSUME NEW t \in Threads, Rollback(t)
         PROVE  FALSE
    <3>1. th[t].at = "rollback" /\ th'[t].at = "idle"
      BY <2>11 DEF Rollback, Go, Idle
    <3> QED
      BY <3>1
  <2>12. ASSUME NEW t \in Threads, Serve(t)
         PROVE  ~Dangling(d)'
    <3>1. CASE doc' = doc
      BY <2>2, <3>1 DEF Decode
    <3>2. CASE \E e \in Devices, id \in GroupIDs \cup {None} : SetDeviceAssignment(t, e, id)
      BY <2>7, <3>2
    <3>3. ASSUME NEW id \in GroupIDs, PresetRead(t, id) PROVE doc' = doc
      BY <3>3 DEF PresetRead
    <3>4. ASSUME NEW as, AssignAllCheck(t, as) PROVE doc' = doc
      BY <3>4 DEF AssignAllCheck
    <3>5. ASSUME NEW c, SetEnabledCategories(t, c) PROVE doc' = doc
      BY <3>5 DEF SetEnabledCategories
    <3>6. RestoreRead(t) \/ GiveUp(t) \/ CacheCategories(t) => doc' = doc
      BY DEF RestoreRead, GiveUp, CacheCategories
    <3>7. ReloadReadDoc(t) \/ ReloadFails(t) \/ ReloadReadCats(t) \/ ReloadInstall(t) => doc' = doc
      BY DEF ReloadReadDoc, ReloadFails, ReloadReadCats, ReloadInstall
    <3> QED
      BY <2>5, <2>6, <2>8, <2>9, <2>10, <2>11, <2>12, <3>1, <3>2, <3>3, <3>4, <3>5, <3>6, <3>7 DEF Serve
  <2>13. CASE MigrateLegacyPolicy
    <3>1. CASE doc' = doc
      BY <2>2, <3>1 DEF Decode
    <3>2. CASE \E l \in Legacies \ {None} : doc' = l
      <4>1. PICK l \in Legacies \ {None} : doc' = l
        BY <3>2
      <4>2. Decode' = l /\ (l.assign[d] # None => l.groups[l.assign[d]] # None)
        BY <4>1, StoreAssumption DEF Decode
      <4> QED
        BY <4>2, DanglingMeans
    <3> QED
      BY <2>13, <3>1, <3>2 DEF MigrateLegacyPolicy
  <2>14. ASSUME NEW id \in GroupIDs, BlockListStep(id)
         PROVE  ~Dangling(d)'
    BY <2>1, <2>14, BlockListStepInv, SetGroupKeeps
  <2>15. CASE Restart \/ BlockListEnd \/ BlockListFails
    BY <2>2, <2>15 DEF Restart, BlockListEnd, BlockListFails, Decode
  <2> QED
    BY <2>12, <2>13, <2>14, <2>15 DEF Next
<1> QED
  BY <1>1, StoreInvariant, PTL DEF Spec, DanglingOnlyByReplace
=============================================================================
