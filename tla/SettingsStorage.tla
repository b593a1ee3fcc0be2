--------------------------- MODULE SettingsStorage ---------------------------
(***************************************************************************)
(* The encrypted settings stores (GSSettings, GSWebSettings, GSDevices) and *)
(* the installation key file that protects them: application/storage.       *)
(*                                                                          *)
(* Each process of Procs keeps one store open and runs its operations one   *)
(* at a time (the per-path lock of the store serialises them); processes    *)
(* share the data directory and so the key file.  An operation first        *)
(* reloads the store (loadLocked), which upgrades a legacy file, and then   *)
(* persists its result: find or create the key, encrypt, rename a complete  *)
(* temporary file over the store, sync the directory.  Rotation and pruning *)
(* of keys are offline: they run while no process is open.                  *)
(*                                                                          *)
(* A payload is abstracted to the number of the write that produced it.     *)
(* Directory operations reach the disk in the order they are made; a crash  *)
(* keeps any prefix of the ones made since the last successful sync.        *)
(***************************************************************************)
EXTENDS Naturals, FiniteSets

CONSTANTS
    Procs,     \* processes that open a store of the data directory
    Stores,    \* names of the encrypted stores
    Home,      \* the store a process keeps open
    Keys,      \* key material that randomKey can produce
    NoKey,     \* no key: the key file is missing, or a payload needs none
    MaxVer     \* bound on the writes made to one store

ASSUME StorageAssumption ==
    /\ Home \in [Procs -> Stores]
    /\ \A p, q \in Procs : p # q => Home[p] # Home[q]
    /\ NoKey \notin Keys
    /\ MaxVer \in Nat

VARIABLES
    disk,       \* the files as every process sees them
    survivors,  \* the disks a crash may leave behind, the visible one included
    backup,     \* the key file the operator's backup holds
    job,        \* per process: the operation under way and where it is
    obj,        \* per process: its Store object
    acked,      \* per store: the newest payload reported as saved
    tool        \* the offline key maintenance run

vars == <<disk, survivors, backup, job, obj, acked, tool>>

-----------------------------------------------------------------------------
(* Files *)

\* installationKeys: the current key and the retained previous ones.
KeyFile == [cur : Keys \cup {NoKey}, prev : SUBSET Keys]
NoKeyFile == [cur |-> NoKey, prev |-> {}]
allKeys(kf) == {kf.cur} \cup kf.prev

\* A storage envelope: absent, legacy (fixed key of old releases), or
\* authenticated with one installation key.
Envelope == [fmt : {"none", "legacy", "gcm"}, key : Keys \cup {NoKey}, ver : Nat]
gcm(k, v) == [fmt |-> "gcm", key |-> k, ver |-> v]

Disk == [key : KeyFile, store : [Stores -> Envelope]]

\* decryptEnvelope succeeds, given the keys of a key file.
Decrypts(kf, e) == e.fmt = "gcm" => kf.cur # NoKey /\ e.key \in allKeys(kf)

\* authenticatedStoresWithoutKey: the stores a replacement key would orphan.
authenticatedStores == {s \in Stores : disk.store[s].fmt = "gcm"}

\* The disk with another store file, and with another key file.
WithStore(d, s, e) == [d EXCEPT !.store[s] = e]
WithKey(d, kf) == [d EXCEPT !.key = kf]

\* A directory entry changes: visible at once, durable only after a sync.
Publish(d) == disk' = d /\ survivors' = survivors \cup {d}
SyncDir == survivors' = {disk} /\ UNCHANGED disk

-----------------------------------------------------------------------------
(* Operations of an open store *)

\* A job: pc is where the operation is, op what it is, stage whether it is
\* upgrading a legacy file or persisting its own result, key and ver what it
\* is about to write.  A Store object: its snapshot and its two errors.
Job == [pc : {"closed", "idle", "key", "scan", "reread", "create", "keySync", "rename", "sync"},
        op : {"none", "open", "get", "update", "set"}, stage : {"none", "migrate", "persist"},
        key : Keys \cup {NoKey}, ver : Nat]
Store == [data : Nat, loadErr : BOOLEAN, durErr : BOOLEAN]
NoJob(l) == [pc |-> l, op |-> "none", stage |-> "none", key |-> NoKey, ver |-> 0]
NewStore == [data |-> 0, loadErr |-> FALSE, durErr |-> FALSE]

ToolOff == tool.pc = "off"
AllClosed == \A p \in Procs : job[p].pc = "closed"
Goto(p, l) == job' = [job EXCEPT ![p].pc = l]
Return(p) == job' = [job EXCEPT ![p] = NoJob("idle")]
WriteNext(p, o, st, v) ==
    job' = [job EXCEPT ![p] = [pc |-> "key", op |-> o, stage |-> st, key |-> NoKey, ver |-> v]]

\* The reload of operation o is done with payload v: an update persists the
\* value it makes of v (or aborts, or finds nothing to change), a read returns.
Loaded(p, o, v) ==
    \/ o = "update" /\ v < MaxVer /\ WriteNext(p, o, "persist", v + 1)
    \/ Return(p)

\* loadLocked, the start of operation o.  A store with an uncertain rename
\* refuses; an unreadable file, or one no key opens, keeps the old payload and
\* records the error; a legacy file is upgraded first.
Load(p, o) ==
    LET e == disk.store[Home[p]] IN
    /\ ToolOff
    /\ job[p].pc = IF o = "open" THEN "closed" ELSE "idle"
    /\ \/ obj[p].durErr /\ Return(p) /\ UNCHANGED obj
       \/ /\ ~obj[p].durErr
          /\ obj' = [obj EXCEPT ![p].loadErr = TRUE]
          /\ Return(p)
       \/ /\ ~obj[p].durErr /\ e.fmt = "legacy"
          /\ WriteNext(p, o, "migrate", e.ver)
          /\ UNCHANGED obj
       \/ /\ ~obj[p].durErr /\ e.fmt # "legacy" /\ Decrypts(disk.key, e)
          /\ obj' = [obj EXCEPT ![p].data = e.ver, ![p].loadErr = FALSE]
          /\ Loaded(p, o, e.ver)
    /\ UNCHANGED <<disk, survivors, backup, acked, tool>>

Open(p) == Load(p, "open")
GetE(p) == Load(p, "get")
UpdateValue(p) == Load(p, "update")

\* Store.Set: persists without a reload, unless the last load failed.
Set(p) ==
    /\ ToolOff /\ job[p].pc = "idle" /\ ~obj[p].loadErr
    /\ obj[p].data < MaxVer
    /\ WriteNext(p, "set", "persist", obj[p].data + 1)
    /\ UNCHANGED <<disk, survivors, backup, obj, acked, tool>>

-----------------------------------------------------------------------------
(* loadInstallationKeys(true) *)

UseKey(p, k) == job' = [job EXCEPT ![p].key = k, ![p].pc = "rename"]

\* The first lookup of the key file.
ReadKey(p) ==
    /\ job[p].pc = "key"
    /\ IF disk.key.cur # NoKey THEN UseKey(p, disk.key.cur) ELSE Goto(p, "scan")
    /\ UNCHANGED <<disk, survivors, backup, obj, acked, tool>>

\* No key file: look for stores a fresh key would orphan.
Scan(p) ==
    /\ job[p].pc = "scan"
    /\ Goto(p, IF authenticatedStores = {} THEN "create" ELSE "reread")
    /\ UNCHANGED <<disk, survivors, backup, obj, acked, tool>>

\* Such a store exists, or another process won the creation: use its key.
RereadKey(p) ==
    /\ job[p].pc = "reread" /\ disk.key.cur # NoKey
    /\ UseKey(p, disk.key.cur)
    /\ UNCHANGED <<disk, survivors, backup, obj, acked, tool>>

\* Mutant: the new key is renamed into place, whoever was first.
CreateKeyByRename(p, k) ==
    /\ job[p].pc = "create"
    /\ Publish(WithKey(disk, [cur |-> k, prev |-> {}]))
    /\ job' = [job EXCEPT ![p].key = k, ![p].pc = "keySync"]
    /\ UNCHANGED <<backup, obj, acked, tool>>

\* atomicCreate: the hard link publishes the new key only if no file exists.
CreateKey(p, k) ==
    /\ job[p].pc = "create"
    /\ \/ /\ disk.key.cur = NoKey
          /\ Publish(WithKey(disk, [cur |-> k, prev |-> {}]))
          /\ job' = [job EXCEPT ![p].key = k, ![p].pc = "keySync"]
       \/ /\ disk.key.cur # NoKey
          /\ Goto(p, "reread")
          /\ UNCHANGED <<disk, survivors>>
    /\ UNCHANGED <<backup, obj, acked, tool>>

SyncKey(p) ==
    /\ job[p].pc = "keySync"
    /\ SyncDir
    /\ Goto(p, "rename")
    /\ UNCHANGED <<backup, obj, acked, tool>>

-----------------------------------------------------------------------------
(* atomicWrite and what its callers make of the result *)

\* Mutant: memory follows only a write that is fully durable.
RenameKeepsMemory(p) ==
    /\ job[p].pc = "rename"
    /\ Publish(WithStore(disk, Home[p], gcm(job[p].key, job[p].ver)))
    /\ Goto(p, "sync")
    /\ UNCHANGED <<backup, obj, acked, tool>>

\* The rename is the commit point; persistLocked keeps memory in step with it.
Rename(p) ==
    /\ job[p].pc = "rename"
    /\ Publish(WithStore(disk, Home[p], gcm(job[p].key, job[p].ver)))
    /\ obj' = IF job[p].stage = "persist" THEN [obj EXCEPT ![p].data = job[p].ver] ELSE obj
    /\ Goto(p, "sync")
    /\ UNCHANGED <<backup, acked, tool>>

\* Mutant: success is reported without syncing the directory.
SyncWriteSkipped(p) ==
    /\ job[p].pc = "sync" /\ job[p].stage = "persist"
    /\ acked' = [acked EXCEPT ![Home[p]] = job[p].ver]
    /\ Return(p)
    /\ UNCHANGED <<disk, survivors, backup, obj, tool>>

\* The directory sync succeeded: the write is reported as saved, or the
\* migrated file counts as loaded and the operation goes on.
SyncWrite(p) ==
    /\ job[p].pc = "sync"
    /\ SyncDir
    /\ \/ /\ job[p].stage = "persist"
          /\ acked' = [acked EXCEPT ![Home[p]] = job[p].ver]
          /\ Return(p)
          /\ UNCHANGED obj
       \/ /\ job[p].stage = "migrate"
          /\ obj' = [obj EXCEPT ![p].data = job[p].ver, ![p].loadErr = FALSE]
          /\ Loaded(p, job[p].op, job[p].ver)
          /\ UNCHANGED acked
    /\ UNCHANGED <<backup, tool>>

\* A failed load records its error, a failed persist does not.
LoadErrAfter(p) == job[p].stage = "migrate" \/ obj[p].loadErr

\* The directory sync failed after the rename: the store is quarantined.
SyncWriteFails(p) ==
    /\ job[p].pc = "sync"
    /\ obj' = [obj EXCEPT ![p].durErr = TRUE, ![p].loadErr = LoadErrAfter(p)]
    /\ Return(p)
    /\ UNCHANGED <<disk, survivors, backup, acked, tool>>

\* An I/O error anywhere before the commit point, or a missing key file next
\* to authenticated stores: the store file is left as it was.
Fail(p) ==
    /\ job[p].pc \in {"key", "scan", "reread", "create", "keySync", "rename"}
    /\ obj' = [obj EXCEPT ![p].loadErr = LoadErrAfter(p)]
    /\ Return(p)
    /\ UNCHANGED <<disk, survivors, backup, acked, tool>>

-----------------------------------------------------------------------------
(* Offline key maintenance: RotateInstallationKey, PrunePreviousInstallationKeys *)

NoTool == [pc |-> "off", todo |-> {}, ring |-> NoKeyFile]
ToolGoto(l) == tool' = [tool EXCEPT !.pc = l]

\* The keyring to install holds a new key and every key of the old ring.
Rotate(k) ==
    /\ ToolOff /\ AllClosed
    /\ disk.key.cur # NoKey /\ k \notin allKeys(disk.key)
    /\ tool' = [pc |-> "rotateKey", todo |-> Stores,
                ring |-> [cur |-> k, prev |-> allKeys(disk.key)]]
    /\ UNCHANGED <<disk, survivors, backup, job, obj, acked>>

\* Mutant: the previous keys go without a look at the stores.
PruneUnverified ==
    /\ ToolOff /\ AllClosed /\ disk.key.cur # NoKey
    /\ tool' = [pc |-> "pruneKey", todo |-> {}, ring |-> [cur |-> disk.key.cur, prev |-> {}]]
    /\ UNCHANGED <<disk, survivors, backup, job, obj, acked>>

\* Every existing store must open with the current key alone.
Prune ==
    /\ ToolOff /\ AllClosed
    /\ disk.key.cur # NoKey
    /\ LET currentOnly == [cur |-> disk.key.cur, prev |-> {}] IN
       /\ \A s \in Stores : \/ disk.store[s].fmt = "none"
                            \/ disk.store[s].fmt = "gcm" /\ Decrypts(currentOnly, disk.store[s])
       /\ tool' = [pc |-> "pruneKey", todo |-> {}, ring |-> currentOnly]
    /\ UNCHANGED <<disk, survivors, backup, job, obj, acked>>

\* writeInstallationKeys, up to its rename.
WriteKeyring ==
    /\ tool.pc \in {"rotateKey", "pruneKey"}
    /\ Publish(WithKey(disk, tool.ring))
    /\ ToolGoto(IF tool.pc = "rotateKey" THEN "rotateSync" ELSE "pruneSync")
    /\ UNCHANGED <<backup, job, obj, acked>>

\* reencryptStore, up to its rename.
Reencrypt(s) ==
    /\ tool.pc = "stores" /\ s \in tool.todo
    /\ disk.store[s].fmt # "none" /\ Decrypts(tool.ring, disk.store[s])
    /\ Publish(WithStore(disk, s, gcm(tool.ring.cur, disk.store[s].ver)))
    /\ tool' = [tool EXCEPT !.pc = "storeSync", !.todo = @ \ {s}]
    /\ UNCHANGED <<backup, job, obj, acked>>

SkipMissing(s) ==
    /\ tool.pc = "stores" /\ s \in tool.todo
    /\ disk.store[s].fmt = "none"
    /\ tool' = [tool EXCEPT !.todo = @ \ {s}]
    /\ UNCHANGED <<disk, survivors, backup, job, obj, acked>>

ToolSync ==
    /\ tool.pc \in {"rotateSync", "storeSync", "pruneSync"}
    /\ SyncDir
    /\ tool' = IF tool.pc = "pruneSync" THEN NoTool ELSE [tool EXCEPT !.pc = "stores"]
    /\ UNCHANGED <<backup, job, obj, acked>>

\* The run ends: all stores done, an error at any step, or an interruption.
ToolEnds ==
    /\ tool.pc # "off"
    /\ tool' = NoTool
    /\ UNCHANGED <<disk, survivors, backup, job, obj, acked>>

-----------------------------------------------------------------------------
(* Environment *)

Reset(P) ==
    /\ job' = [p \in Procs |-> IF p \in P THEN NoJob("closed") ELSE job[p]]
    /\ obj' = [p \in Procs |-> IF p \in P THEN NewStore ELSE obj[p]]

\* A process ends, in the middle of an operation or not.
Stop(p) ==
    /\ job[p].pc # "closed"
    /\ Reset({p})
    /\ UNCHANGED <<disk, survivors, backup, acked, tool>>

\* The host loses power: everything in memory goes, and a prefix of the
\* unsynced directory operations stays.
PowerLoss ==
    /\ \E d \in survivors : disk' = d /\ survivors' = {d}
    /\ Reset(Procs)
    /\ tool' = NoTool
    /\ UNCHANGED <<backup, acked>>

\* The operator loses the key file of a stopped installation ...
LoseKeyFile ==
    /\ ToolOff /\ AllClosed /\ disk.key.cur # NoKey /\ survivors = {disk}
    /\ backup' = disk.key
    /\ disk' = WithKey(disk, NoKeyFile)
    /\ survivors' = {WithKey(disk, NoKeyFile)}
    /\ UNCHANGED <<job, obj, acked, tool>>

\* ... and puts it back from the backup.
RestoreKeyFile ==
    /\ ToolOff /\ AllClosed /\ disk.key.cur = NoKey /\ survivors = {disk}
    /\ backup.cur # NoKey
    /\ disk' = WithKey(disk, backup)
    /\ survivors' = {WithKey(disk, backup)}
    /\ backup' = NoKeyFile
    /\ UNCHANGED <<job, obj, acked, tool>>

-----------------------------------------------------------------------------
\* A data directory of an older release, or a new one: no key file, and
\* stores that are absent or legacy.
Init ==
    /\ disk \in [key : {NoKeyFile},
                 store : [Stores -> {[fmt |-> "none", key |-> NoKey, ver |-> 0],
                                     [fmt |-> "legacy", key |-> NoKey, ver |-> 0]}]]
    /\ survivors = {disk}
    /\ backup = NoKeyFile
    /\ job = [p \in Procs |-> NoJob("closed")]
    /\ obj = [p \in Procs |-> NewStore]
    /\ acked = [s \in Stores |-> 0]
    /\ tool = NoTool

ProcNext(p) ==
    \/ Open(p) \/ GetE(p) \/ UpdateValue(p) \/ Set(p)
    \/ ReadKey(p) \/ Scan(p) \/ RereadKey(p) \/ (\E k \in Keys : CreateKey(p, k)) \/ SyncKey(p)
    \/ Rename(p) \/ SyncWrite(p) \/ SyncWriteFails(p) \/ Fail(p)
    \/ Stop(p)

ToolNext ==
    \/ \E k \in Keys : Rotate(k)
    \/ Prune
    \/ WriteKeyring
    \/ \E s \in Stores : Reencrypt(s) \/ SkipMissing(s)
    \/ ToolSync
    \/ ToolEnds

Next ==
    \/ \E p \in Procs : ProcNext(p)
    \/ ToolNext
    \/ PowerLoss \/ LoseKeyFile \/ RestoreKeyFile

Spec == Init /\ [][Next]_vars

-----------------------------------------------------------------------------
(* Properties *)

\* Every variable keeps its shape, and the visible disk is one a crash may
\* leave (Store, installationKeys and envelope in storage.go and keys.go).
TypeOK ==
    /\ disk \in Disk
    /\ survivors \subseteq Disk /\ disk \in survivors
    /\ backup \in KeyFile
    /\ job \in [Procs -> Job]
    /\ obj \in [Procs -> Store]
    /\ acked \in [Stores -> Nat]
    /\ tool \in [pc : {"off", "rotateKey", "rotateSync", "stores", "storeSync",
                       "pruneKey", "pruneSync"},
                 todo : SUBSET Stores, ring : KeyFile]

\* No store is ever orphaned: on every disk a crash can leave, a present key
\* file opens every authenticated store.  Rotation interrupted anywhere,
\* pruning, competing first writes and a lost key file are all covered
\* (RotateInstallationKey, PrunePreviousInstallationKeys, loadInstallationKeys).
NoOrphanedStore ==
    \A d \in survivors : d.key.cur # NoKey =>
        \A s \in Stores : Decrypts(d.key, d.store[s])

\* A write that was reported as saved is still there after any crash, key
\* maintenance or migration: every surviving disk holds it or a later write
\* (persistLocked returns nil only after the directory sync).
SavedSurvives ==
    \A d \in survivors : \A s \in Stores : acked[s] <= d.store[s].ver

\* Between operations the payload in memory is the one in the visible file,
\* unless the last load failed, even when a directory sync failed after the
\* rename ("keep memory consistent with the visible destination").
MemoryMatchesFile ==
    \A p \in Procs :
        job[p].pc = "idle" /\ ~obj[p].loadErr => obj[p].data = disk.store[Home[p]].ver

\* Competing creators never replace the winner's key: while a process is
\* open, a present key file does not change (atomicCreate links, never renames).
WinnersKeyKept ==
    [][disk.key.cur # NoKey /\ (\E p \in Procs : job'[p].pc # "closed")
         => disk'.key = disk.key]_vars

=============================================================================
