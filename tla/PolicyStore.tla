---------------------------- MODULE PolicyStore ----------------------------
(***************************************************************************)
(* The policy document (groups and device assignments), the selection of    *)
(* gateway-wide categories, and the copies of both in the memory of the     *)
(* policy service: Service of application/policy, its HTTP handlers, and    *)
(* the migrations of the DNS server that run before the handlers exist.     *)
(*                                                                          *)
(* A storage transaction is one step (SettingsStorage shows why), and so is *)
(* what one mutex covers.  Between them the handlers interleave: commit,    *)
(* read the document, read the categories, install.  Reads may fail at any  *)
(* time, and a write may fail after its rename: the new document is then in *)
(* the file, the handler answers with an error, and the store refuses every *)
(* access until the next start.  A handler that fails before its            *)
(* transaction changes nothing and takes no step.                           *)
(***************************************************************************)
EXTENDS Naturals, FiniteSets

CONSTANTS
    Threads,     \* HTTP handlers at work at the same time
    GroupIDs,    \* IDs of policies
    Default,     \* DefaultGroupID
    Users,       \* proxy users
    Devices,     \* canonical device IDs
    Edits,       \* parts of a policy: rules, domains, categories
    Categories,  \* selections of gateway-wide categories
    None,        \* no policy, no document, no value read yet
    Bodies,      \* policies an administrator sends
    Preset,      \* the rule GSApiSchedulePresetApply adds
    BlockList,   \* the entries of the retired block list
    Legacies,    \* documents made of old device metadata and rules, None if there are none
    NoCats,      \* no category enabled: what LoadEnabledCategories falls back to
    Broken,      \* a document decodeDocument refuses
    Archives,    \* what a restored backup may hold
    MaxOps       \* bound on the handlers served

Group == [users : SUBSET Users, content : SUBSET Edits]
Snapshot == [groups : {f \in [GroupIDs -> Group \cup {None}] : f[Default] # None},
             assign : [Devices -> GroupIDs \cup {None}]]

ASSUME StoreAssumption ==
    /\ Default \in GroupIDs /\ None \notin GroupIDs /\ None \notin Group /\ None \notin Snapshot
    /\ Broken \notin Snapshot /\ Broken # None
    /\ None \notin Categories /\ NoCats \in Categories
    /\ Archives \subseteq [doc : Snapshot \cup {None, Broken}, cats : Categories]
    /\ Bodies \subseteq Group /\ Preset \in Edits /\ BlockList \in Edits
    /\ Legacies \subseteq Snapshot \cup {None}
    /\ \A l \in Legacies \ {None} :
         \A d \in Devices : l.assign[d] # None => l.groups[l.assign[d]] # None
    /\ MaxOps \in Nat

VARIABLES
    doc,      \* the stored policy document, None while there is none
    cats,     \* the stored selection of categories
    fenced,   \* Store.durabilityErr: the settings refuse every access
    mem,      \* Service.snapshot
    catsMem,  \* Service.enabledCategories
    list,     \* filterfiles/blockedsites.json still holds entries
    boot,     \* "migrate", "blocklist", "up", or "off": there is no policy service
    todo,     \* policies the block list has still to be added to
    th,       \* what each handler is doing
    ops,      \* handlers served
    behind    \* history: the parts of memory an error or an overtaken copy may have left old

vars == <<doc, cats, fenced, mem, catsMem, list, boot, todo, th, ops, behind>>

Parts == {"doc", "cats"}

\* A handler at work.  stale is history: what it wrote and memory lacks while
\* it has not read it again, then the parts of what it carries that another
\* handler has overwritten since, or that it could not read.
Idle == [at |-> "idle", id |-> None, body |-> None, assign |-> None, doc |-> None, cats |-> None,
         stale |-> {}]
Handler == [at : {"idle", "assignAll", "update", "restore", "rollback",
                  "readDoc", "readCats", "install", "cacheCats"},
            id : GroupIDs \cup {None}, body : Group \cup {None},
            assign : [Devices -> GroupIDs \cup {None}] \cup {None},
            doc : Snapshot \cup {None, Broken}, cats : Categories \cup {None},
            stale : SUBSET Parts]

DefaultGroup == [users |-> {}, content |-> {}]
Empty == [groups |-> [id \in GroupIDs |-> IF id = Default THEN DefaultGroup ELSE None],
          assign |-> [d \in Devices |-> None]]

\* decodeDocument and snapshotFromDocument, for a document that can be read.
Decode == IF doc \in {None, Broken} THEN Empty ELSE doc
Readable == ~fenced /\ doc # Broken

\* checkUserConflicts
Conflict(groups, id, g) ==
    \E o \in GroupIDs \ {id} : groups[o] # None /\ groups[o].users \cap g.users # {}

-----------------------------------------------------------------------------
(* Handlers *)

\* The parts a handler carries from an earlier reading.
Carried(at) == CASE at \in {"assignAll", "readCats"} -> {"doc"}
                 [] at = "install" -> Parts
                 [] at = "cacheCats" -> {"cats"}
                 [] OTHER -> {}

\* Handler t goes on as h after it wrote parts: what others carry of them is
\* overtaken.  The first step of a handler also counts it.
Go(t, h, parts) ==
    /\ th' = [u \in Threads |-> IF u = t THEN h
                 ELSE [th[u] EXCEPT !.stale = @ \cup (parts \cap Carried(th[u].at))]]
    /\ IF th[t].at = "idle" THEN ops < MaxOps /\ ops' = ops + 1 ELSE ops' = ops

\* The transaction of update and what its handler does next: Reload, or, when
\* the rename was done and the directory could not be synchronized, an error.
Commit(t, snap) ==
    /\ Readable /\ snap.groups[Default] # None
    /\ doc' = snap
    /\ \/ /\ Go(t, [Idle EXCEPT !.at = "readDoc", !.stale = {"doc"}], {"doc"})
          /\ UNCHANGED <<fenced, behind>>
       \/ /\ Go(t, Idle, {"doc"})
          /\ fenced' = TRUE /\ behind' = behind \cup {"doc"}
    /\ UNCHANGED <<cats, mem, catsMem, list, boot, todo>>

Starts(t) == boot = "up" /\ th[t].at = "idle"

\* CreateGroup, for the create and the template handlers.
CreateGroup(t, id, g) ==
    /\ Starts(t) /\ Decode.groups[id] = None
    /\ ~Conflict(Decode.groups, id, g)
    /\ Commit(t, [Decode EXCEPT !.groups[id] = g])

\* The transaction of UpdateGroup.
UpdateOK(id, g) ==
    /\ Decode.groups[id] # None
    /\ ~(id = Default /\ g.users # {})
    /\ ~Conflict(Decode.groups, id, g)

UpdateGroup(t, id, g) ==
    /\ Starts(t) /\ UpdateOK(id, g)
    /\ Commit(t, [Decode EXCEPT !.groups[id] = g])

\* Mutant: the handler answers without a reload.
DeleteNotReloaded(t, id) ==
    /\ Starts(t) /\ id # Default /\ Decode.groups[id] # None
    /\ doc' = [groups |-> [Decode.groups EXCEPT ![id] = None],
               assign |-> [d \in Devices |-> IF Decode.assign[d] = id THEN None ELSE Decode.assign[d]]]
    /\ Readable /\ Go(t, Idle, {"doc"})
    /\ UNCHANGED <<cats, fenced, mem, catsMem, list, boot, todo, behind>>

DeleteGroup(t, id) ==
    /\ Starts(t) /\ id # Default /\ Decode.groups[id] # None
    /\ Commit(t, [groups |-> [Decode.groups EXCEPT ![id] = None],
                  assign |-> [d \in Devices |-> IF Decode.assign[d] = id THEN None ELSE Decode.assign[d]]])

\* SaveGroups: assignments stay; a set without a default policy gets an empty one.
SaveGroups(t, groups) ==
    /\ Starts(t)
    /\ \A id \in GroupIDs : groups[id] # None => ~Conflict(groups, id, groups[id])
    /\ Commit(t, [Decode EXCEPT !.groups = [groups EXCEPT ![Default] = IF @ = None THEN DefaultGroup ELSE @]])

\* SetDeviceAssignment; the default policy is stored as no assignment.
SetDeviceAssignment(t, d, id) ==
    /\ Starts(t)
    /\ id \notin {None, Default} => Decode.groups[id] # None
    /\ Commit(t, [Decode EXCEPT !.assign[d] = IF id = Default THEN None ELSE id])

\* Mutant: the groups of the assignments are not checked.
AssignAllUnchecked(t, assign) ==
    /\ Starts(t)
    /\ Go(t, [Idle EXCEPT !.at = "assignAll", !.assign = assign,
                          !.stale = IF mem = Decode THEN {} ELSE {"doc"}], {})
    /\ UNCHANGED <<doc, cats, fenced, mem, catsMem, list, boot, todo, behind>>

\* GSApiPolicyAssignmentsReplace checks the groups against the memory, then
\* SaveAssignments replaces the assignments without looking again.
AssignAllCheck(t, assign) ==
    /\ Starts(t)
    /\ \A d \in Devices : assign[d] # None => mem.groups[assign[d]] # None
    /\ Go(t, [Idle EXCEPT !.at = "assignAll", !.assign = assign,
                          !.stale = IF mem = Decode THEN {} ELSE {"doc"}], {})
    /\ UNCHANGED <<doc, cats, fenced, mem, catsMem, list, boot, todo, behind>>

SaveAssignments(t) ==
    /\ th[t].at = "assignAll"
    /\ Commit(t, [Decode EXCEPT !.assign = th[t].assign])

\* GSApiSchedulePresetApply adds its rule to the policy in memory and saves
\* that policy.
PresetRead(t, id) ==
    /\ Starts(t) /\ mem.groups[id] # None
    /\ Go(t, [Idle EXCEPT !.at = "update", !.id = id,
                          !.body = [mem.groups[id] EXCEPT !.content = @ \cup {Preset}]], {})
    /\ UNCHANGED <<doc, cats, fenced, mem, catsMem, list, boot, todo, behind>>

PresetSave(t) ==
    /\ th[t].at = "update" /\ UpdateOK(th[t].id, th[t].body)
    /\ Commit(t, [Decode EXCEPT !.groups[th[t].id] = th[t].body])

\* A second half that is refused or cannot be stored.
GiveUp(t) ==
    /\ th[t].at \in {"assignAll", "update", "restore"}
    /\ Go(t, Idle, {})
    /\ UNCHANGED <<doc, cats, fenced, mem, catsMem, list, boot, todo, behind>>

\* SetEnabledCategories
SetEnabledCategories(t, c) ==
    /\ Starts(t) /\ ~fenced
    /\ cats' = c
    /\ \/ /\ Go(t, [Idle EXCEPT !.at = "cacheCats", !.cats = c], {"cats"})
          /\ UNCHANGED <<fenced, behind>>
       \/ /\ Go(t, Idle, {"cats"})
          /\ fenced' = TRUE /\ behind' = behind \cup {"cats"}
    /\ UNCHANGED <<doc, mem, catsMem, list, boot, todo>>

CacheCategories(t) ==
    /\ th[t].at = "cacheCats"
    /\ catsMem' = th[t].cats
    /\ behind' = (behind \ {"cats"}) \cup th[t].stale
    /\ Go(t, Idle, {})
    /\ UNCHANGED <<doc, cats, fenced, mem, list, boot, todo>>

\* GSApiRestorePOST: RestoreBackup reads the settings for a later rollback,
\* also without a policy service ...
RestoreRead(t) ==
    /\ boot \in {"up", "off"} /\ th[t].at = "idle" /\ ~fenced
    /\ Go(t, [Idle EXCEPT !.at = "restore", !.doc = doc, !.cats = cats], {})
    /\ UNCHANGED <<doc, cats, fenced, mem, catsMem, list, boot, todo, behind>>

\* ... replaces the whole settings, policies and categories included, by those
\* of the archive without looking at them, and then the devices.  What comes
\* next: Reload, nothing when there is no policy service, the rollback of the
\* settings when the devices cannot be written, or an error.
RestoreWrite(t, a) ==
    /\ th[t].at = "restore" /\ ~fenced
    /\ doc' = a.doc /\ cats' = a.cats
    /\ \/ /\ Go(t, IF boot = "up" THEN [Idle EXCEPT !.at = "readDoc", !.stale = Parts] ELSE Idle, Parts)
          /\ UNCHANGED <<fenced, behind>>
       \/ /\ Go(t, [th[t] EXCEPT !.at = "rollback", !.stale = Parts], Parts)
          /\ UNCHANGED <<fenced, behind>>
       \/ /\ Go(t, Idle, Parts)
          /\ fenced' = TRUE /\ behind' = behind \cup Parts
    /\ UNCHANGED <<mem, catsMem, list, boot, todo>>

\* The rollback writes what was read before the restore, and answers with an
\* error; it may fail as well, before or after its rename.
Rollback(t) ==
    /\ th[t].at = "rollback"
    /\ \/ ~fenced /\ doc' = th[t].doc /\ cats' = th[t].cats /\ fenced' \in BOOLEAN
       \/ UNCHANGED <<doc, cats, fenced>>
    /\ Go(t, Idle, Parts)
    /\ behind' = behind \cup Parts
    /\ UNCHANGED <<mem, catsMem, list, boot, todo>>

\* Reload reads the document ...
ReloadReadDoc(t) ==
    /\ th[t].at = "readDoc" /\ Readable
    /\ Go(t, [Idle EXCEPT !.at = "readCats", !.doc = Decode], {})
    /\ UNCHANGED <<doc, cats, fenced, mem, catsMem, list, boot, todo, behind>>

\* ... or fails to, or to read the exceptions or the pauses: memory stays, and
\* the handler answers with an error.
ReloadFails(t) ==
    /\ th[t].at = "readDoc"
    /\ Go(t, Idle, {})
    /\ behind' = behind \cup th[t].stale
    /\ UNCHANGED <<doc, cats, fenced, mem, catsMem, list, boot, todo>>

\* LoadEnabledCategories; when they cannot be read, none is enabled.
ReloadReadCats(t) ==
    /\ th[t].at = "readCats"
    /\ \/ ~fenced /\ Go(t, [th[t] EXCEPT !.at = "install", !.cats = cats], {})
       \/ Go(t, [th[t] EXCEPT !.at = "install", !.cats = NoCats, !.stale = @ \cup {"cats"}], {})
    /\ UNCHANGED <<doc, cats, fenced, mem, catsMem, list, boot, todo, behind>>

ReloadInstall(t) ==
    /\ th[t].at = "install"
    /\ mem' = th[t].doc /\ catsMem' = th[t].cats
    /\ behind' = th[t].stale
    /\ Go(t, Idle, {})
    /\ UNCHANGED <<doc, cats, fenced, list, boot, todo>>

-----------------------------------------------------------------------------
(* Start of the process *)

\* LoadEnabledCategories at the end of NewService, and of Reload while no
\* handler is at work.
ReadCats ==
    \/ catsMem' = cats /\ behind' = {}
    \/ catsMem' = NoCats /\ behind' = {"cats"}

\* The process ends and starts again: NewService reads the stores.  When it
\* cannot, there is no policy service until the next start.
Restart ==
    /\ ops < MaxOps
    /\ ops' = ops + 1
    /\ fenced' = FALSE
    /\ \/ doc # Broken /\ mem' = Decode /\ ReadCats /\ boot' = "migrate"
       \/ mem' = Empty /\ catsMem' = NoCats /\ behind' = {} /\ boot' = "off"
    /\ todo' = {} /\ th' = [t \in Threads |-> Idle]
    /\ UNCHANGED <<doc, cats, list>>

\* migrateLegacyPolicy with SaveMigration and Reload.  It may fail before it
\* writes, with the write, or in Reload; the start goes on with the memory it
\* has, and with the policies in it to add the block list to.
MigrateLegacyPolicy ==
    /\ boot = "migrate"
    /\ \/ UNCHANGED <<doc, fenced, mem, catsMem, behind>>
       \/ /\ doc = None
          /\ \E l \in Legacies \ {None} : doc' = l
          /\ \/ mem' = doc' /\ ReadCats /\ fenced' = fenced
             \/ behind' = behind \cup {"doc"} /\ fenced' \in BOOLEAN /\ UNCHANGED <<mem, catsMem>>
    /\ boot' = "blocklist" /\ todo' = {id \in GroupIDs : list /\ mem'.groups[id] # None}
    /\ UNCHANGED <<cats, list, th, ops>>

\* migrateLegacyBlockList: one transaction for each policy in memory, then
\* the file.  The migration ends at the first transaction that fails.
BlockListStep(id) ==
    /\ boot = "blocklist" /\ id \in todo /\ (Default \in todo => id = Default)
    /\ LET g == [mem.groups[id] EXCEPT !.content = @ \cup {BlockList}] IN
       /\ ~fenced /\ UpdateOK(id, g)
       /\ doc' = [Decode EXCEPT !.groups[id] = g]
    /\ \/ todo' = todo \ {id} /\ UNCHANGED <<boot, fenced, behind>>
       \/ todo' = {} /\ boot' = "up" /\ fenced' = TRUE /\ behind' = behind \cup {"doc"}
    /\ UNCHANGED <<cats, mem, catsMem, list, th, ops>>

\* The migration fails: to read the list, to update a policy, to read what was
\* written, or to empty the file.
BlockListFails ==
    /\ boot = "blocklist"
    /\ \/ /\ behind' = IF list /\ Default \notin todo THEN behind \cup {"doc"} ELSE behind
          /\ UNCHANGED <<mem, catsMem>>
       \/ list /\ todo = {} /\ Readable /\ mem' = Decode /\ ReadCats
    /\ boot' = "up" /\ todo' = {}
    /\ UNCHANGED <<doc, cats, fenced, list, th, ops>>

\* Mutant: the file is emptied first.
BlockListEndEarly ==
    /\ boot = "blocklist"
    /\ IF list THEN list' = FALSE /\ boot' = boot ELSE boot' = "up" /\ list' = list
    /\ mem' = Decode /\ ReadCats
    /\ UNCHANGED <<doc, cats, fenced, todo, th, ops>>

BlockListEnd ==
    /\ boot = "blocklist" /\ todo = {}
    /\ IF list THEN Readable /\ mem' = Decode /\ ReadCats ELSE UNCHANGED <<mem, catsMem, behind>>
    /\ list' = FALSE /\ boot' = "up"
    /\ UNCHANGED <<doc, cats, fenced, todo, th, ops>>

-----------------------------------------------------------------------------
Init ==
    /\ doc \in {None} \cup {[Empty EXCEPT !.groups[Default] = g] : g \in Bodies}
    /\ mem = Decode
    /\ cats \in Categories /\ catsMem = cats /\ fenced = FALSE
    /\ list \in BOOLEAN
    /\ boot = "migrate" /\ todo = {}
    /\ th = [t \in Threads |-> Idle] /\ ops = 0 /\ behind = {}

Serve(t) ==
    \/ \E id \in GroupIDs, g \in Bodies : CreateGroup(t, id, g) \/ UpdateGroup(t, id, g)
    \/ \E id \in GroupIDs : DeleteGroup(t, id) \/ PresetRead(t, id)
    \/ \E groups \in [GroupIDs -> Bodies \cup {None}] : SaveGroups(t, groups)
    \/ \E d \in Devices, id \in GroupIDs \cup {None} : SetDeviceAssignment(t, d, id)
    \/ \E assign \in [Devices -> GroupIDs \cup {None}] : AssignAllCheck(t, assign)
    \/ \E c \in Categories : SetEnabledCategories(t, c)
    \/ \E a \in Archives : RestoreWrite(t, a)
    \/ RestoreRead(t) \/ Rollback(t)
    \/ SaveAssignments(t) \/ PresetSave(t) \/ GiveUp(t) \/ CacheCategories(t)
    \/ ReloadReadDoc(t) \/ ReloadFails(t) \/ ReloadReadCats(t) \/ ReloadInstall(t)

Next ==
    \/ \E t \in Threads : Serve(t)
    \/ Restart \/ MigrateLegacyPolicy \/ BlockListEnd \/ BlockListFails
    \/ \E id \in GroupIDs : BlockListStep(id)

Spec == Init /\ [][Next]_vars

-----------------------------------------------------------------------------
(* Properties *)

\* The document, the copies of the policy service and every handler keep
\* their shape, and the default policy always exists (decodeDocument,
\* Service.snapshot).
TypeOK ==
    /\ doc \in Snapshot \cup {None, Broken} /\ mem \in Snapshot
    /\ cats \in Categories /\ catsMem \in Categories /\ fenced \in BOOLEAN
    /\ list \in BOOLEAN /\ boot \in {"migrate", "blocklist", "up", "off"} /\ todo \subseteq GroupIDs
    /\ th \in [Threads -> Handler] /\ ops \in Nat /\ behind \subseteq Parts

\* What the service enforces is what is stored.
Current(p) == IF p = "doc" THEN doc # Broken /\ mem = Decode ELSE catsMem = cats

\* When no handler is at work, the service enforces the stored policies and
\* categories, however handlers overlapped, unless the last refresh of that
\* part was one of these: it installed a copy that another handler's write had
\* overtaken between its reading and its installing (service.go:325); it did
\* not happen, since a handler or a migration ended with an error after the
\* file had changed (service.go:314-323); or the categories could not be read
\* and count as none (category.go:158-170).  The next handler that reloads
\* undisturbed makes memory current again.
SettledIsCurrent ==
    boot = "up" /\ (\A t \in Threads : th[t].at = "idle")
        => \A p \in Parts : Current(p) \/ p \in behind

\* An assignment to a policy that does not exist comes only from SaveGroups,
\* which keeps the assignments of the policies it drops, from a restored backup
\* or its rollback, which are not validated, and from replacing all assignments
\* when the memory their groups were checked against was not, or no longer is,
\* what is stored.  No other writer of the document leaves one behind, nor does
\* that check when nothing comes between it and the transaction.
Dangling(d) == Decode.assign[d] # None /\ Decode.groups[Decode.assign[d]] = None
DanglingOnlyByReplace ==
    [][\A d \in Devices : ~Dangling(d) /\ Dangling(d)' =>
          \E t \in Threads :
             \/ th[t].at \in {"restore", "rollback"} /\ th'[t].at # th[t].at
             \/ th[t].at = "assignAll" /\ "doc" \in th[t].stale /\ th'[t].at # "assignAll"
             \/ \E groups \in [GroupIDs -> Bodies \cup {None}] : SaveGroups(t, groups)]_vars

\* The block list file is emptied only when every policy has its entries,
\* wherever earlier starts were interrupted and whatever failed ("which makes
\* the migration safe to run on every start"), unless the policies made from
\* old records were stored and not read again: the migration then goes by a
\* memory that lacks them (policy_migration.go:83, 138).
BlockListMovedWhole ==
    [][list /\ ~list' => "doc" \in behind \/ \A id \in GroupIDs :
          Decode.groups[id] # None => BlockList \in Decode.groups[id].content]_vars

=============================================================================
