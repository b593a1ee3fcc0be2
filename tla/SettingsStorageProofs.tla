------------------------ MODULE SettingsStorageProofs ------------------------
(***************************************************************************)
(* Proofs about SettingsStorage, for any number of processes, stores and    *)
(* keys: its type invariant, that no store is ever orphaned, that saved     *)
(* writes survive, that memory matches the file, and that competing         *)
(* creators keep the winner's key.                                          *)
(***************************************************************************)
EXTENDS SettingsStorage, TLAPS

Labels == {"closed", "idle", "key", "scan", "reread", "create", "keySync", "rename", "sync"}
MaybeKey == Keys \cup {NoKey}

-----------------------------------------------------------------------------
(* What the helpers the actions are made of do to the state *)

LEMMA GotoEffect ==
    ASSUME job \in [Procs -> Job], NEW p \in Procs, NEW l \in Labels, Goto(p, l)
    PROVE  /\ job' \in [Procs -> Job]
           /\ job'[p].pc = l /\ job'[p].op = job[p].op /\ job'[p].stage = job[p].stage
           /\ job'[p].key = job[p].key /\ job'[p].ver = job[p].ver
           /\ \A q \in Procs \ {p} : job'[q] = job[q]
  BY DEF Job, Labels, Goto

LEMMA UseKeyEffect ==
    ASSUME job \in [Procs -> Job], NEW p \in Procs, NEW k \in MaybeKey, UseKey(p, k)
    PROVE  /\ job' \in [Procs -> Job]
           /\ job'[p].pc = "rename" /\ job'[p].stage = job[p].stage
           /\ job'[p].key = k /\ job'[p].ver = job[p].ver
           /\ \A q \in Procs \ {p} : job'[q] = job[q]
  BY DEF Job, MaybeKey, UseKey

LEMMA CreatedEffect ==
    ASSUME job \in [Procs -> Job], NEW p \in Procs, NEW k \in Keys,
           job' = [job EXCEPT ![p].key = k, ![p].pc = "keySync"]
    PROVE  /\ job' \in [Procs -> Job]
           /\ job'[p].pc = "keySync" /\ job'[p].stage = job[p].stage
           /\ job'[p].key = k /\ job'[p].ver = job[p].ver
           /\ \A q \in Procs \ {p} : job'[q] = job[q]
  BY DEF Job

LEMMA ReturnEffect ==
    ASSUME job \in [Procs -> Job], NEW p \in Procs, Return(p)
    PROVE  /\ job' \in [Procs -> Job]
           /\ job'[p].pc = "idle" /\ job'[p].stage = "none"
           /\ \A q \in Procs \ {p} : job'[q] = job[q]
  BY DEF Job, Return, NoJob

LEMMA WriteNextEffect ==
    ASSUME job \in [Procs -> Job], NEW p \in Procs, NEW o \in {"open", "get", "update", "set"},
           NEW st \in {"migrate", "persist"}, NEW v \in Nat, WriteNext(p, o, st, v)
    PROVE  /\ job' \in [Procs -> Job]
           /\ job'[p].pc = "key" /\ job'[p].stage = st /\ job'[p].ver = v
           /\ \A q \in Procs \ {p} : job'[q] = job[q]
  BY DEF Job, WriteNext

LEMMA LoadedEffect ==
    ASSUME job \in [Procs -> Job], NEW p \in Procs,
           NEW o \in {"none", "open", "get", "update", "set"}, NEW v \in Nat, Loaded(p, o, v)
    PROVE  /\ job' \in [Procs -> Job]
           /\ \/ job'[p].pc = "idle" /\ job'[p].stage = "none"
              \/ job'[p].pc = "key" /\ job'[p].stage = "persist" /\ job'[p].ver = v + 1
           /\ \A q \in Procs \ {p} : job'[q] = job[q]
  <1>1. CASE o = "update" /\ WriteNext(p, o, "persist", v + 1)
    <2>1. v + 1 \in Nat
      OBVIOUS
    <2> QED BY <1>1, <2>1, WriteNextEffect
  <1>2. CASE Return(p)
    BY <1>2, ReturnEffect
  <1> QED BY <1>1, <1>2 DEF Loaded

LEMMA NewDataEffect ==
    ASSUME obj \in [Procs -> Store], NEW p \in Procs, NEW v \in Nat,
           obj' = [obj EXCEPT ![p].data = v, ![p].loadErr = FALSE]
    PROVE  /\ obj' \in [Procs -> Store]
           /\ obj'[p].data = v /\ ~obj'[p].loadErr /\ obj'[p].durErr = obj[p].durErr
           /\ \A q \in Procs \ {p} : obj'[q] = obj[q]
  BY DEF Store

LEMMA LoadErrEffect ==
    ASSUME obj \in [Procs -> Store], NEW p \in Procs, NEW b \in BOOLEAN,
           obj' = [obj EXCEPT ![p].loadErr = b]
    PROVE  /\ obj' \in [Procs -> Store]
           /\ obj'[p].data = obj[p].data /\ obj'[p].loadErr = b /\ obj'[p].durErr = obj[p].durErr
           /\ \A q \in Procs \ {p} : obj'[q] = obj[q]
  BY DEF Store

LEMMA QuarantineEffect ==
    ASSUME obj \in [Procs -> Store], NEW p \in Procs, NEW b \in BOOLEAN,
           obj' = [obj EXCEPT ![p].durErr = TRUE, ![p].loadErr = b]
    PROVE  /\ obj' \in [Procs -> Store]
           /\ obj'[p].data = obj[p].data /\ obj'[p].loadErr = b /\ obj'[p].durErr
           /\ \A q \in Procs \ {p} : obj'[q] = obj[q]
  BY DEF Store

LEMMA PersistedEffect ==
    ASSUME obj \in [Procs -> Store], NEW p \in Procs, NEW v \in Nat,
           obj' = [obj EXCEPT ![p].data = v]
    PROVE  /\ obj' \in [Procs -> Store]
           /\ obj'[p].data = v /\ obj'[p].loadErr = obj[p].loadErr /\ obj'[p].durErr = obj[p].durErr
           /\ \A q \in Procs \ {p} : obj'[q] = obj[q]
  BY DEF Store

LEMMA GcmFields ==
    ASSUME NEW k \in MaybeKey, NEW v \in Nat
    PROVE  gcm(k, v) \in Envelope /\ gcm(k, v).fmt = "gcm" /\ gcm(k, v).key = k /\ gcm(k, v).ver = v
  BY DEF gcm, Envelope, MaybeKey

LEMMA NewStoreFile ==
    ASSUME NEW d \in Disk, NEW s \in Stores, NEW e \in Envelope
    PROVE  /\ WithStore(d, s, e) \in Disk /\ WithStore(d, s, e).key = d.key
           /\ WithStore(d, s, e).store[s] = e
           /\ \A t \in Stores \ {s} : WithStore(d, s, e).store[t] = d.store[t]
  BY DEF Disk, WithStore

LEMMA NewKeyFile ==
    ASSUME NEW d \in Disk, NEW kf \in KeyFile
    PROVE  WithKey(d, kf) \in Disk /\ WithKey(d, kf).key = kf /\ WithKey(d, kf).store = d.store
  BY DEF Disk, WithKey

LEMMA ResetEffect ==
    ASSUME job \in [Procs -> Job], obj \in [Procs -> Store], NEW P \in SUBSET Procs, Reset(P)
    PROVE  /\ job' \in [Procs -> Job] /\ obj' \in [Procs -> Store]
           /\ \A p \in P : /\ job'[p].pc = "closed" /\ job'[p].stage = "none"
                           /\ obj'[p].data = 0 /\ ~obj'[p].loadErr /\ ~obj'[p].durErr
           /\ \A p \in Procs \ P : job'[p] = job[p] /\ obj'[p] = obj[p]
  BY DEF Reset, NoJob, NewStore, Job, Store

LEMMA PublishEffect ==
    ASSUME disk \in Disk, survivors \subseteq Disk, NEW d \in Disk, Publish(d)
    PROVE  disk' = d /\ disk' \in Disk /\ survivors' = survivors \cup {d}
           /\ survivors' \subseteq Disk /\ disk' \in survivors'
  BY DEF Publish

LEMMA SyncEffect ==
    ASSUME disk \in Disk, SyncDir
    PROVE  disk' = disk /\ survivors' = {disk} /\ survivors' \subseteq Disk /\ disk' \in survivors'
  BY DEF SyncDir

LEMMA DiskFields ==
    ASSUME NEW d \in Disk
    PROVE  /\ d.key \in KeyFile /\ d.key.cur \in MaybeKey /\ d.key.prev \subseteq Keys
           /\ \A s \in Stores : /\ d.store[s] \in Envelope /\ d.store[s].ver \in Nat
                               /\ d.store[s].key \in MaybeKey
  BY DEF Disk, KeyFile, Envelope, MaybeKey

LEMMA JobFields ==
    ASSUME NEW j \in Job
    PROVE  /\ j.ver \in Nat /\ j.key \in MaybeKey /\ j.stage \in {"none", "migrate", "persist"}
           /\ j.op \in {"none", "open", "get", "update", "set"} /\ j.pc \in Labels
  BY DEF Job, MaybeKey, Labels

LEMMA StoreFields ==
    ASSUME NEW o \in Store
    PROVE  o.data \in Nat /\ o.loadErr \in BOOLEAN /\ o.durErr \in BOOLEAN
  BY DEF Store

-----------------------------------------------------------------------------
(* Type correctness *)

LEMMA InitType == ASSUME Init PROVE TypeOK
  <1>1. disk \in Disk /\ survivors \subseteq Disk /\ disk \in survivors
    BY DEF Init, Disk, KeyFile, NoKeyFile, Envelope
  <1>2. job \in [Procs -> Job] /\ obj \in [Procs -> Store] /\ acked \in [Stores -> Nat]
    BY DEF Init, Job, Store, NoJob, NewStore
  <1> QED BY <1>1, <1>2 DEF Init, TypeOK, NoTool, NoKeyFile, KeyFile

LEMMA LoadType ==
    ASSUME TypeOK, NEW p \in Procs, NEW o \in {"open", "get", "update"}, Load(p, o)
    PROVE  TypeOK'
  <1> DEFINE e == disk.store[Home[p]]
  <1>1. e.ver \in Nat
    BY StorageAssumption, DiskFields DEF TypeOK
  <1>2. obj' \in [Procs -> Store]
    BY <1>1, NewDataEffect, LoadErrEffect DEF Load, TypeOK
  <1>3. job' \in [Procs -> Job]
    BY <1>1, ReturnEffect, WriteNextEffect, LoadedEffect DEF Load, TypeOK
  <1> QED BY <1>2, <1>3 DEF Load, TypeOK

LEMMA ProcType ==
    ASSUME TypeOK, NEW p \in Procs, ProcNext(p)
    PROVE  TypeOK'
  <1> USE DEF TypeOK
  <1>a. /\ job[p].ver \in Nat /\ job[p].key \in MaybeKey /\ job[p].stage \in {"none", "migrate", "persist"}
        /\ job[p].op \in {"none", "open", "get", "update", "set"}
        /\ disk.key.cur \in MaybeKey /\ Home[p] \in Stores
    BY JobFields, DiskFields, StorageAssumption
  <1>1. CASE Open(p) \/ GetE(p) \/ UpdateValue(p)
    BY <1>1, LoadType DEF Open, GetE, UpdateValue
  <1>2. CASE Set(p)
    <2>1. obj[p].data + 1 \in Nat
      BY StoreFields
    <2> QED BY <1>2, <2>1, WriteNextEffect DEF Set
  <1>3. CASE ReadKey(p) \/ Scan(p) \/ RereadKey(p)
    <2>1. job' \in [Procs -> Job]
      BY <1>3, <1>a, UseKeyEffect, GotoEffect DEF ReadKey, Scan, RereadKey, Labels
    <2> QED BY <1>3, <2>1 DEF ReadKey, Scan, RereadKey
  <1>4. ASSUME NEW k \in Keys, CreateKey(p, k) PROVE TypeOK'
    <2>1. CASE Publish(WithKey(disk, [cur |-> k, prev |-> {}]))
               /\ job' = [job EXCEPT ![p].key = k, ![p].pc = "keySync"]
      <3>1. job' \in [Procs -> Job]
        BY <2>1, CreatedEffect
      <3>2. [cur |-> k, prev |-> {}] \in KeyFile
        BY DEF KeyFile
      <3> QED BY <1>4, <2>1, <3>1, <3>2, PublishEffect, NewKeyFile DEF CreateKey
    <2>2. CASE Goto(p, "reread") /\ UNCHANGED <<disk, survivors>>
      BY <1>4, <2>2, GotoEffect DEF CreateKey, Labels
    <2> QED BY <1>4, <2>1, <2>2 DEF CreateKey
  <1>5. CASE SyncKey(p)
    BY <1>5, SyncEffect, GotoEffect DEF SyncKey, Labels
  <1>6. CASE Rename(p)
    <2>1. gcm(job[p].key, job[p].ver) \in Envelope
      BY <1>a, GcmFields
    <2>2. disk' \in Disk /\ survivors' \subseteq Disk /\ disk' \in survivors'
      BY <1>6, <1>a, <2>1, NewStoreFile, PublishEffect DEF Rename
    <2>3. obj' \in [Procs -> Store]
      BY <1>6, <1>a, PersistedEffect DEF Rename
    <2> QED BY <1>6, <2>2, <2>3, GotoEffect DEF Rename, Labels
  <1>7. CASE SyncWrite(p)
    <2>1. job' \in [Procs -> Job]
      BY <1>7, <1>a, ReturnEffect, LoadedEffect DEF SyncWrite
    <2>2. obj' \in [Procs -> Store]
      BY <1>7, <1>a, NewDataEffect DEF SyncWrite
    <2>3. acked' \in [Stores -> Nat]
      BY <1>7, <1>a DEF SyncWrite
    <2> QED BY <1>7, <2>1, <2>2, <2>3, SyncEffect DEF SyncWrite
  <1>8. CASE SyncWriteFails(p) \/ Fail(p)
    <2>1. LoadErrAfter(p) \in BOOLEAN
      BY StoreFields DEF LoadErrAfter
    <2>2. obj' \in [Procs -> Store]
      BY <1>8, <2>1, LoadErrEffect, QuarantineEffect DEF SyncWriteFails, Fail
    <2> QED BY <1>8, <2>2, ReturnEffect DEF SyncWriteFails, Fail
  <1>9. CASE Stop(p)
    BY <1>9, ResetEffect DEF Stop
  <1> QED BY <1>1, <1>2, <1>3, <1>4, <1>5, <1>6, <1>7, <1>8, <1>9 DEF ProcNext

LEMMA ToolType ==
    ASSUME TypeOK, ToolNext
    PROVE  TypeOK'
  <1> USE DEF TypeOK
  <1>a. tool.ring \in KeyFile /\ tool.ring.cur \in MaybeKey /\ disk.key.cur \in MaybeKey /\ disk.key.prev \subseteq Keys
    BY DiskFields DEF KeyFile, MaybeKey
  <1>1. ASSUME NEW k \in Keys, Rotate(k) PROVE TypeOK'
    BY <1>1, <1>a DEF Rotate, KeyFile, MaybeKey, allKeys
  <1>2. CASE Prune
    BY <1>2, <1>a DEF Prune, KeyFile, MaybeKey
  <1>3. CASE WriteKeyring
    <2>1. disk' \in Disk /\ survivors' \subseteq Disk /\ disk' \in survivors'
      BY <1>3, <1>a, NewKeyFile, PublishEffect DEF WriteKeyring
    <2> QED BY <1>3, <2>1 DEF WriteKeyring, ToolGoto
  <1>4. ASSUME NEW s \in Stores, Reencrypt(s) PROVE TypeOK'
    <2>1. gcm(tool.ring.cur, disk.store[s].ver) \in Envelope
      BY <1>a, DiskFields, GcmFields
    <2>2. disk' \in Disk /\ survivors' \subseteq Disk /\ disk' \in survivors'
      BY <1>4, <2>1, NewStoreFile, PublishEffect DEF Reencrypt
    <2> QED BY <1>4, <2>2 DEF Reencrypt
  <1>5. ASSUME NEW s \in Stores, SkipMissing(s) PROVE TypeOK'
    BY <1>5 DEF SkipMissing
  <1>6. CASE ToolSync
    BY <1>6, SyncEffect DEF ToolSync, NoTool, KeyFile, NoKeyFile
  <1>7. CASE ToolEnds
    BY <1>7 DEF ToolEnds, NoTool, KeyFile, NoKeyFile
  <1> QED BY <1>1, <1>2, <1>3, <1>4, <1>5, <1>6, <1>7 DEF ToolNext

LEMMA StepType == ASSUME TypeOK, [Next]_vars PROVE TypeOK'
  <1> USE DEF TypeOK
  <1>a. NoKeyFile \in KeyFile
    BY DEF NoKeyFile, KeyFile
  <1>1. CASE PowerLoss
    <2>1. job' \in [Procs -> Job] /\ obj' \in [Procs -> Store]
      BY <1>1, ResetEffect DEF PowerLoss
    <2> QED BY <1>1, <2>1, <1>a DEF PowerLoss, NoTool
  <1>2. CASE LoseKeyFile
    BY <1>2, <1>a, NewKeyFile, DiskFields DEF LoseKeyFile
  <1>3. CASE RestoreKeyFile
    BY <1>3, <1>a, NewKeyFile DEF RestoreKeyFile
  <1>4. CASE UNCHANGED vars
    BY <1>4 DEF vars
  <1> QED BY <1>1, <1>2, <1>3, <1>4, ProcType, ToolType DEF Next

\* Every variable of the storage model keeps its shape, and the files visible
\* to the processes are always ones a crash may leave behind (Store in
\* storage.go, installationKeys in keys.go).
THEOREM StorageTypeCorrect == Spec => []TypeOK
  BY InitType, StepType, PTL DEF Spec

-----------------------------------------------------------------------------
(* The inductive invariants *)

\* The key file that has to open the stores of disk d: its own, or the
\* operator's backup while it is missing.
Ring(d) == IF d.key.cur = NoKey THEN backup ELSE d.key

\* Every authenticated store was written with a key of the ring of its disk.
StoresOpen ==
    \A d \in survivors : \A s \in Stores :
        d.store[s].fmt = "gcm" => d.store[s].key \in allKeys(Ring(d))

\* A process about to write a store holds a key of the key file.
JobKeys ==
    \A p \in Procs : job[p].pc \in {"keySync", "rename"} =>
        disk.key.cur # NoKey /\ job[p].key \in allKeys(disk.key)

\* A process that decided to create a key found nothing it could orphan, and
\* nothing has appeared since, unless a key file has.
CreateSafe ==
    \A p \in Procs : job[p].pc = "create" /\ disk.key.cur = NoKey =>
        \A s \in Stores : disk.store[s].fmt # "gcm"

\* While keys are maintained nobody else runs; the new ring opens every store
\* the old one opens, or (pruning) every store there is.
ToolSafe ==
    /\ tool.pc # "off" => AllClosed
    /\ tool.pc \notin {"off", "pruneSync"} => tool.ring.cur # NoKey /\ disk.key.cur # NoKey
    /\ tool.pc = "rotateKey" => allKeys(disk.key) \subseteq allKeys(tool.ring)
    /\ tool.pc \in {"rotateSync", "stores", "storeSync"} => disk.key = tool.ring
    /\ tool.pc = "pruneKey" =>
          \A s \in Stores : disk.store[s].fmt = "gcm" => disk.store[s].key = tool.ring.cur

KeyInv == TypeOK /\ StoresOpen /\ JobKeys /\ CreateSafe /\ ToolSafe

\* A closed Store object is new; one between operations, or persisting, holds
\* the payload of its file; an unsynced write is the one in the file.
MemoryInv ==
    /\ \A p \in Procs : job[p].pc = "closed" => ~obj[p].durErr /\ job[p].stage = "none"
    /\ \A p \in Procs : job[p].pc = "idle" => job[p].stage = "none"
    /\ \A p \in Procs : job[p].pc \notin {"closed", "idle"} => job[p].stage # "none"
    /\ \A p \in Procs : job[p].pc = "sync" => job[p].ver = disk.store[Home[p]].ver
    /\ \A p \in Procs : job[p].pc # "closed" /\ job[p].stage # "migrate" /\ ~obj[p].loadErr =>
          obj[p].data = disk.store[Home[p]].ver

\* What a process is about to write is no older than what was saved.
JobsNewer ==
    \A p \in Procs : job[p].pc \notin {"closed", "idle"} => acked[Home[p]] <= job[p].ver

ToolAlone == tool.pc # "off" => AllClosed

SavedInv == TypeOK /\ MemoryInv /\ JobsNewer /\ SavedSurvives /\ ToolAlone

-----------------------------------------------------------------------------
(* No store is orphaned *)

LEMMA InitKeyInv == ASSUME Init PROVE KeyInv
  <1>1. TypeOK
    BY InitType
  <1>2. \A s \in Stores : disk.store[s].fmt # "gcm"
    BY DEF Init
  <1> QED BY <1>1, <1>2 DEF Init, KeyInv, StoresOpen, JobKeys, CreateSafe, ToolSafe, NoJob, NoTool

\* A step of process p that leaves the files alone and does not bring it
\* nearer to writing one keeps KeyInv.
LEMMA QuietStep ==
    ASSUME KeyInv, TypeOK', NEW p \in Procs,
           UNCHANGED <<disk, survivors, backup, tool>>,
           job'[p].pc = "closed" \/ tool.pc = "off",
           job'[p].pc \notin {"create", "keySync", "rename"},
           \A q \in Procs \ {p} : job'[q] = job[q]
    PROVE  KeyInv'
  <1>1. StoresOpen'
    BY DEF KeyInv, StoresOpen, Ring
  <1>2. JobKeys' /\ CreateSafe'
    BY DEF KeyInv, JobKeys, CreateSafe
  <1>3. ToolSafe'
    BY DEF KeyInv, ToolSafe, AllClosed
  <1> QED BY <1>1, <1>2, <1>3 DEF KeyInv

\* The stores still open after a disk is published whose stores open.
LEMMA PublishOpens ==
    ASSUME StoresOpen, NEW d, Publish(d), UNCHANGED backup,
           \A s \in Stores : d.store[s].fmt = "gcm" => d.store[s].key \in allKeys(Ring(d))
    PROVE  StoresOpen'
  BY DEF StoresOpen, Publish, Ring

LEMMA SyncOpens ==
    ASSUME KeyInv, SyncDir, UNCHANGED backup
    PROVE  StoresOpen'
  BY DEF KeyInv, TypeOK, StoresOpen, SyncDir, Ring

LEMMA ProcKeyInv ==
    ASSUME KeyInv, NEW p \in Procs, ProcNext(p)
    PROVE  KeyInv'
  <1>a. TypeOK /\ TypeOK'
    BY ProcType DEF KeyInv
  <1>b. /\ job \in [Procs -> Job] /\ Home[p] \in Stores /\ disk \in Disk /\ survivors \subseteq Disk
        /\ disk.key.cur \in MaybeKey /\ job[p].key \in MaybeKey /\ job[p].ver \in Nat
        /\ disk.store[Home[p]].ver \in Nat /\ obj[p].data \in Nat
        /\ job[p].op \in {"none", "open", "get", "update", "set"}
        /\ job[p].stage \in {"none", "migrate", "persist"}
    BY <1>a, StorageAssumption, DiskFields, JobFields, StoreFields DEF TypeOK
  <1>c. job[p].pc # "closed" => tool.pc = "off"
    BY DEF KeyInv, ToolSafe, AllClosed
  <1>1. ASSUME NEW o \in {"open", "get", "update"}, Load(p, o) PROVE KeyInv'
    <2>1. job'[p].pc \in {"idle", "key"} /\ \A q \in Procs \ {p} : job'[q] = job[q]
      BY <1>1, <1>b, ReturnEffect, WriteNextEffect, LoadedEffect DEF Load
    <2> QED BY <1>1, <1>a, <2>1, QuietStep DEF Load, ToolOff
  <1>2. CASE Set(p)
    <2>1. job'[p].pc = "key" /\ \A q \in Procs \ {p} : job'[q] = job[q]
      BY <1>2, <1>b, obj[p].data + 1 \in Nat, WriteNextEffect DEF Set
    <2> QED BY <1>2, <1>a, <2>1, QuietStep DEF Set, ToolOff
  <1>3. CASE (ReadKey(p) \/ RereadKey(p)) /\ UseKey(p, disk.key.cur) /\ disk.key.cur # NoKey
    <2>1. /\ job'[p].pc = "rename" /\ job'[p].key = disk.key.cur
          /\ \A q \in Procs \ {p} : job'[q] = job[q]
      BY <1>3, <1>b, UseKeyEffect
    <2>2. UNCHANGED <<disk, survivors, backup, tool>> /\ job[p].pc # "closed"
      BY <1>3 DEF ReadKey, RereadKey
    <2>3. StoresOpen'
      BY <2>2 DEF KeyInv, StoresOpen, Ring
    <2>4. JobKeys' /\ CreateSafe'
      BY <1>3, <2>1, <2>2 DEF KeyInv, JobKeys, CreateSafe, allKeys
    <2>5. ToolSafe'
      BY <2>2, <1>c DEF ToolSafe
    <2> QED BY <1>a, <2>3, <2>4, <2>5 DEF KeyInv
  <1>4. CASE ReadKey(p) /\ Goto(p, "scan")
    <2>1. job'[p].pc = "scan" /\ \A q \in Procs \ {p} : job'[q] = job[q]
      BY <1>4, <1>b, GotoEffect DEF Labels
    <2> QED BY <1>4, <1>a, <1>c, <2>1, QuietStep DEF ReadKey
  <1>5. CASE Scan(p)
    <2>1. \A q \in Procs \ {p} : job'[q] = job[q]
      BY <1>5, <1>b, GotoEffect DEF Labels, Scan
    <2>2. CASE authenticatedStores = {} /\ job'[p].pc = "create"
      <3>1. \A s \in Stores : disk.store[s].fmt # "gcm"
        BY <2>2 DEF authenticatedStores
      <3>2. UNCHANGED <<disk, survivors, backup, tool>> /\ job[p].pc # "closed"
        BY <1>5 DEF Scan
      <3>3. StoresOpen'
        BY <3>2 DEF KeyInv, StoresOpen, Ring
      <3>4. JobKeys' /\ CreateSafe'
        BY <2>1, <2>2, <3>1, <3>2 DEF KeyInv, JobKeys, CreateSafe
      <3>5. ToolSafe'
        BY <3>2, <1>c DEF ToolSafe
      <3> QED BY <1>a, <3>3, <3>4, <3>5 DEF KeyInv
    <2>3. CASE job'[p].pc = "reread"
      BY <1>5, <1>a, <1>c, <2>1, <2>3, QuietStep DEF Scan
    <2> QED BY <1>5, <1>b, <2>2, <2>3, GotoEffect DEF Scan, Labels
  <1>6. ASSUME NEW k \in Keys, CreateKey(p, k) PROVE KeyInv'
    <2>1. CASE disk.key.cur = NoKey
      <3> DEFINE kf == [cur |-> k, prev |-> {}]
                 d == WithKey(disk, kf)
      <3>1. kf \in KeyFile /\ kf.cur = k /\ k # NoKey
        BY StorageAssumption DEF KeyFile
      <3>2. d \in Disk /\ d.key = kf /\ d.store = disk.store
        BY <1>b, <3>1, NewKeyFile
      <3>3. Publish(d) /\ UNCHANGED <<backup, tool>> /\ job[p].pc = "create"
        BY <1>6, <2>1 DEF CreateKey
      <3>4. /\ job'[p].pc = "keySync" /\ job'[p].key = k
            /\ \A q \in Procs \ {p} : job'[q] = job[q]
        BY <1>6, <1>b, <2>1, CreatedEffect DEF CreateKey
      <3>5. \A s \in Stores : d.store[s].fmt # "gcm"
        BY <2>1, <3>2, <3>3 DEF KeyInv, CreateSafe
      <3>6. StoresOpen'
        BY <3>3, <3>5, PublishOpens DEF KeyInv
      <3>7. disk'.key.cur # NoKey /\ k \in allKeys(disk'.key)
        BY <3>1, <3>2, <3>3 DEF Publish, allKeys
      <3>8. JobKeys' /\ CreateSafe'
        BY <2>1, <3>4, <3>7 DEF KeyInv, JobKeys, CreateSafe
      <3>9. ToolSafe'
        BY <3>3, <1>c DEF ToolSafe
      <3> QED BY <1>a, <3>6, <3>8, <3>9 DEF KeyInv
    <2>2. CASE disk.key.cur # NoKey
      <3>1. job'[p].pc = "reread" /\ \A q \in Procs \ {p} : job'[q] = job[q]
        BY <1>6, <1>b, <2>2, GotoEffect DEF CreateKey, Labels
      <3> QED BY <1>6, <1>a, <1>c, <2>2, <3>1, QuietStep DEF CreateKey
    <2> QED BY <2>1, <2>2
  <1>7. CASE SyncKey(p)
    <2>1. /\ job[p].pc = "keySync" /\ job'[p].pc = "rename" /\ job'[p].key = job[p].key
          /\ \A q \in Procs \ {p} : job'[q] = job[q]
      BY <1>7, <1>b, GotoEffect DEF SyncKey, Labels
    <2>2. SyncDir /\ disk' = disk /\ UNCHANGED <<backup, tool>>
      BY <1>7 DEF SyncKey, SyncDir
    <2>3. StoresOpen'
      BY <2>2, SyncOpens
    <2>4. JobKeys' /\ CreateSafe'
      BY <2>1, <2>2 DEF KeyInv, JobKeys, CreateSafe
    <2>5. ToolSafe'
      BY <2>1, <2>2, <1>c DEF ToolSafe
    <2> QED BY <1>a, <2>3, <2>4, <2>5 DEF KeyInv
  <1>8. CASE Rename(p)
    <2> DEFINE e == gcm(job[p].key, job[p].ver)
               d == WithStore(disk, Home[p], e)
    <2>1. e \in Envelope /\ e.key = job[p].key
      BY <1>b, GcmFields
    <2>2. /\ d \in Disk /\ d.key = disk.key /\ d.store[Home[p]] = e
          /\ \A t \in Stores \ {Home[p]} : d.store[t] = disk.store[t]
      BY <1>b, <2>1, NewStoreFile
    <2>3. Publish(d) /\ UNCHANGED <<backup, tool>> /\ job[p].pc = "rename"
      BY <1>8 DEF Rename
    <2>4. disk.key.cur # NoKey /\ job[p].key \in allKeys(disk.key)
      BY <2>3 DEF KeyInv, JobKeys
    <2>5. \A s \in Stores : d.store[s].fmt = "gcm" => d.store[s].key \in allKeys(Ring(d))
      BY <2>1, <2>2, <2>4 DEF KeyInv, StoresOpen, TypeOK, Ring
    <2>6. StoresOpen'
      BY <2>3, <2>5, PublishOpens DEF KeyInv
    <2>7. job'[p].pc = "sync" /\ \A q \in Procs \ {p} : job'[q] = job[q]
      BY <1>8, <1>b, GotoEffect DEF Rename, Labels
    <2>8. disk'.key = disk.key
      BY <2>2, <2>3 DEF Publish
    <2>9. JobKeys' /\ CreateSafe'
      BY <2>4, <2>7, <2>8 DEF KeyInv, JobKeys, CreateSafe
    <2>10. ToolSafe'
      BY <2>3, <1>c DEF ToolSafe
    <2> QED BY <1>a, <2>6, <2>9, <2>10 DEF KeyInv
  <1>9. CASE SyncWrite(p)
    <2>1. /\ job[p].pc = "sync" /\ job'[p].pc \in {"idle", "key"}
          /\ \A q \in Procs \ {p} : job'[q] = job[q]
      BY <1>9, <1>b, ReturnEffect, LoadedEffect DEF SyncWrite
    <2>2. SyncDir /\ disk' = disk /\ UNCHANGED <<backup, tool>>
      BY <1>9 DEF SyncWrite, SyncDir
    <2>3. StoresOpen'
      BY <2>2, SyncOpens
    <2>4. JobKeys' /\ CreateSafe'
      BY <2>1, <2>2 DEF KeyInv, JobKeys, CreateSafe
    <2>5. ToolSafe'
      BY <2>1, <2>2, <1>c DEF ToolSafe
    <2> QED BY <1>a, <2>3, <2>4, <2>5 DEF KeyInv
  <1>10. CASE SyncWriteFails(p) \/ Fail(p)
    <2>1. job'[p].pc = "idle" /\ \A q \in Procs \ {p} : job'[q] = job[q]
      BY <1>10, <1>b, ReturnEffect DEF SyncWriteFails, Fail
    <2> QED BY <1>10, <1>a, <1>c, <2>1, QuietStep DEF SyncWriteFails, Fail
  <1>11. CASE Stop(p)
    <2>1. job'[p].pc = "closed" /\ \A q \in Procs \ {p} : job'[q] = job[q]
      BY <1>11, <1>a, ResetEffect DEF Stop, TypeOK
    <2> QED BY <1>11, <1>a, <2>1, QuietStep DEF Stop
  <1> QED BY <1>1, <1>2, <1>3, <1>4, <1>5, <1>6, <1>7, <1>8, <1>9, <1>10, <1>11
          DEF ProcNext, Open, GetE, UpdateValue, ReadKey, RereadKey

LEMMA ToolKeyInv ==
    ASSUME KeyInv, ToolNext
    PROVE  KeyInv'
  <1>a. TypeOK /\ TypeOK'
    BY ToolType DEF KeyInv
  <1>b. /\ disk \in Disk /\ survivors \subseteq Disk /\ disk \in survivors
        /\ tool.ring \in KeyFile /\ tool.ring.cur \in MaybeKey
        /\ tool.pc \in {"off", "rotateKey", "rotateSync", "stores", "storeSync", "pruneKey", "pruneSync"}
    BY <1>a DEF TypeOK, KeyFile, MaybeKey
  <1>c. UNCHANGED <<backup, job, obj, acked>>
    BY DEF ToolNext, Rotate, Prune, WriteKeyring, Reencrypt, SkipMissing, ToolSync, ToolEnds
  <1>d. AllClosed /\ AllClosed'
    BY <1>c DEF KeyInv, ToolSafe, ToolNext, Rotate, Prune, WriteKeyring, Reencrypt, SkipMissing,
                ToolSync, ToolEnds, AllClosed
  <1>e. JobKeys' /\ CreateSafe'
    BY <1>d DEF AllClosed, JobKeys, CreateSafe
  <1>f. ASSUME UNCHANGED <<disk, survivors>> PROVE StoresOpen'
    BY <1>c, <1>f DEF KeyInv, StoresOpen, Ring
  <1>1. ASSUME NEW k \in Keys, Rotate(k) PROVE KeyInv'
    <2>1. /\ tool'.pc = "rotateKey" /\ tool'.ring = [cur |-> k, prev |-> allKeys(disk.key)]
          /\ UNCHANGED <<disk, survivors>> /\ disk.key.cur # NoKey
      BY <1>1 DEF Rotate
    <2>2. tool'.ring.cur # NoKey /\ allKeys(disk.key) \subseteq allKeys(tool'.ring)
      BY <2>1, StorageAssumption DEF allKeys
    <2>3. ToolSafe'
      BY <1>d, <2>1, <2>2 DEF ToolSafe
    <2> QED BY <1>a, <1>e, <1>f, <2>1, <2>3 DEF KeyInv
  <1>2. CASE Prune
    <2>1. /\ tool'.pc = "pruneKey" /\ tool'.ring = [cur |-> disk.key.cur, prev |-> {}]
          /\ UNCHANGED <<disk, survivors>> /\ disk.key.cur # NoKey
          /\ \A s \in Stores : disk.store[s].fmt = "gcm" => Decrypts(tool'.ring, disk.store[s])
      BY <1>2 DEF Prune
    <2>2. ToolSafe'
      BY <1>d, <2>1 DEF ToolSafe, Decrypts, allKeys
    <2> QED BY <1>a, <1>e, <1>f, <2>1, <2>2 DEF KeyInv
  <1>3. CASE WriteKeyring
    <2> DEFINE d == WithKey(disk, tool.ring)
    <2>1. d \in Disk /\ d.key = tool.ring /\ d.store = disk.store
      BY <1>b, NewKeyFile
    <2>2. /\ Publish(d) /\ tool.pc \in {"rotateKey", "pruneKey"} /\ tool'.ring = tool.ring
          /\ tool'.pc = IF tool.pc = "rotateKey" THEN "rotateSync" ELSE "pruneSync"
      BY <1>3, <1>a DEF WriteKeyring, ToolGoto, TypeOK
    <2>3. tool.ring.cur # NoKey /\ disk.key.cur # NoKey
      BY <2>2 DEF KeyInv, ToolSafe
    <2>4. \A s \in Stores : d.store[s].fmt = "gcm" => d.store[s].key \in allKeys(tool.ring)
      <3>1. CASE tool.pc = "rotateKey"
        BY <1>b, <2>1, <2>3, <3>1 DEF KeyInv, StoresOpen, ToolSafe, Ring
      <3>2. CASE tool.pc = "pruneKey"
        BY <2>1, <3>2 DEF KeyInv, ToolSafe, allKeys
      <3> QED BY <2>2, <3>1, <3>2
    <2>5. StoresOpen'
      BY <1>c, <2>1, <2>2, <2>3, <2>4, PublishOpens DEF KeyInv, Ring
    <2>6. ToolSafe'
      BY <1>d, <2>1, <2>2, <2>3 DEF ToolSafe, Publish
    <2> QED BY <1>a, <1>e, <2>5, <2>6 DEF KeyInv
  <1>4. ASSUME NEW s \in Stores, Reencrypt(s) PROVE KeyInv'
    <2> DEFINE e == gcm(tool.ring.cur, disk.store[s].ver)
               d == WithStore(disk, s, e)
    <2>1. e \in Envelope /\ e.key = tool.ring.cur
      BY <1>b, DiskFields, GcmFields
    <2>2. /\ d \in Disk /\ d.key = disk.key /\ d.store[s] = e
          /\ \A t \in Stores \ {s} : d.store[t] = disk.store[t]
      BY <1>b, <2>1, NewStoreFile
    <2>3. /\ Publish(d) /\ tool.pc = "stores" /\ tool'.ring = tool.ring /\ tool'.pc = "storeSync"
      BY <1>4, <1>a DEF Reencrypt, TypeOK
    <2>4. tool.ring.cur # NoKey /\ disk.key = tool.ring
      BY <2>3 DEF KeyInv, ToolSafe
    <2>5. \A t \in Stores : d.store[t].fmt = "gcm" => d.store[t].key \in allKeys(Ring(d))
      BY <1>b, <2>1, <2>2, <2>4 DEF KeyInv, StoresOpen, Ring, allKeys
    <2>6. StoresOpen'
      BY <1>c, <2>3, <2>5, PublishOpens DEF KeyInv
    <2>7. ToolSafe'
      BY <1>d, <2>2, <2>3, <2>4 DEF ToolSafe, Publish
    <2> QED BY <1>a, <1>e, <2>6, <2>7 DEF KeyInv
  <1>5. ASSUME NEW s \in Stores, SkipMissing(s) PROVE KeyInv'
    <2>1. UNCHANGED <<disk, survivors>> /\ tool.pc = "stores" /\ tool'.pc = "stores" /\ tool'.ring = tool.ring
      BY <1>5, <1>a DEF SkipMissing, TypeOK
    <2>2. ToolSafe'
      BY <1>d, <2>1 DEF KeyInv, ToolSafe
    <2> QED BY <1>a, <1>e, <1>f, <2>1, <2>2 DEF KeyInv
  <1>6. CASE ToolSync
    <2>1. SyncDir /\ disk' = disk
      BY <1>6 DEF ToolSync, SyncDir
    <2>2. \/ tool'.pc = "off"
          \/ tool.pc \in {"rotateSync", "storeSync"} /\ tool'.pc = "stores" /\ tool'.ring = tool.ring
      BY <1>6, <1>a DEF ToolSync, NoTool, TypeOK
    <2>3. ToolSafe'
      BY <1>d, <2>1, <2>2 DEF KeyInv, ToolSafe
    <2> QED BY <1>a, <1>c, <1>e, <2>1, <2>3, SyncOpens DEF KeyInv
  <1>7. CASE ToolEnds
    <2>1. UNCHANGED <<disk, survivors>> /\ tool'.pc = "off"
      BY <1>7 DEF ToolEnds, NoTool
    <2>2. ToolSafe'
      BY <2>1 DEF ToolSafe
    <2> QED BY <1>a, <1>e, <1>f, <2>1, <2>2 DEF KeyInv
  <1> QED BY <1>1, <1>2, <1>3, <1>4, <1>5, <1>6, <1>7 DEF ToolNext

LEMMA StepKeyInv == ASSUME KeyInv, [Next]_vars PROVE KeyInv'
  <1>a. TypeOK /\ TypeOK'
    BY StepType DEF KeyInv
  <1>1. CASE PowerLoss
    <2>1. \A p \in Procs : job'[p].pc = "closed"
      BY <1>1, <1>a, ResetEffect DEF PowerLoss, TypeOK
    <2>2. StoresOpen'
      BY <1>1 DEF PowerLoss, KeyInv, StoresOpen, Ring
    <2>3. tool'.pc = "off"
      BY <1>1 DEF PowerLoss, NoTool
    <2> QED BY <1>a, <2>1, <2>2, <2>3 DEF KeyInv, JobKeys, CreateSafe, ToolSafe
  <1>2. CASE LoseKeyFile
    <2> DEFINE d == WithKey(disk, NoKeyFile)
    <2>0. NoKeyFile \in KeyFile
      BY DEF NoKeyFile, KeyFile
    <2>1. d.key = NoKeyFile /\ d.store = disk.store
      BY <1>a, <2>0, NewKeyFile DEF TypeOK
    <2>2. /\ AllClosed /\ job' = job /\ tool' = tool /\ tool.pc = "off"
          /\ survivors' = {d} /\ backup' = disk.key /\ disk.key.cur # NoKey
      BY <1>2 DEF LoseKeyFile, ToolOff
    <2>3. StoresOpen'
      BY <1>a, <2>1, <2>2 DEF KeyInv, TypeOK, StoresOpen, Ring, NoKeyFile
    <2> QED BY <1>a, <2>2, <2>3 DEF KeyInv, JobKeys, CreateSafe, ToolSafe, AllClosed
  <1>3. CASE RestoreKeyFile
    <2> DEFINE d == WithKey(disk, backup)
    <2>1. d.key = backup /\ d.store = disk.store
      BY <1>a, NewKeyFile DEF TypeOK
    <2>2. /\ AllClosed /\ job' = job /\ tool' = tool /\ tool.pc = "off"
          /\ survivors' = {d} /\ backup.cur # NoKey /\ disk.key.cur = NoKey
      BY <1>3 DEF RestoreKeyFile, ToolOff
    <2>3. StoresOpen'
      BY <1>a, <2>1, <2>2 DEF KeyInv, TypeOK, StoresOpen, Ring
    <2> QED BY <1>a, <2>2, <2>3 DEF KeyInv, JobKeys, CreateSafe, ToolSafe, AllClosed
  <1>4. CASE UNCHANGED vars
    BY <1>a, <1>4 DEF vars, KeyInv, StoresOpen, Ring, JobKeys, CreateSafe, ToolSafe, AllClosed
  <1> QED BY <1>1, <1>2, <1>3, <1>4, ProcKeyInv, ToolKeyInv DEF Next

LEMMA KeyInvImplies == ASSUME KeyInv PROVE NoOrphanedStore
  BY DEF KeyInv, StoresOpen, Ring, NoOrphanedStore, Decrypts

\* In every installation, whatever the number of processes, stores and keys,
\* and wherever a rotation, a pruning, a first write or a power loss
\* interrupts the others, a present key file opens every authenticated store.
THEOREM NoStoreIsOrphaned == Spec => []NoOrphanedStore
  <1>1. Spec => []KeyInv
    BY InitKeyInv, StepKeyInv, PTL DEF Spec
  <1> QED BY <1>1, KeyInvImplies, PTL

-----------------------------------------------------------------------------
(* The winner's key is kept *)

LEMMA KeyFileSteps ==
    ASSUME KeyInv, Next, disk.key.cur # NoKey, NEW p \in Procs, job'[p].pc # "closed"
    PROVE  disk'.key = disk.key
  <1>a. TypeOK
    BY DEF KeyInv
  <1>1. ASSUME NEW q \in Procs, ProcNext(q) PROVE disk'.key = disk.key
    <2>1. gcm(job[q].key, job[q].ver) \in Envelope /\ Home[q] \in Stores
      BY <1>a, JobFields, GcmFields, StorageAssumption DEF TypeOK
    <2>2. CASE Rename(q)
      BY <1>a, <2>1, <2>2, NewStoreFile DEF TypeOK, Rename, Publish
    <2>3. CASE ~Rename(q)
      <3>1. disk' = disk
        BY <1>1, <2>3 DEF ProcNext, Open, GetE, UpdateValue, Load, Set, ReadKey, Scan, RereadKey,
                          CreateKey, SyncKey, SyncWrite, SyncWriteFails, Fail, Stop, SyncDir
      <3> QED BY <3>1
    <2> QED BY <2>2, <2>3
  <1>2. ~AllClosed'
    BY DEF AllClosed
  <1>3. ~ToolNext
    BY <1>2 DEF KeyInv, ToolSafe, ToolNext, Rotate, Prune, WriteKeyring, Reencrypt, SkipMissing,
                ToolSync, ToolEnds, AllClosed
  <1>4. ~PowerLoss
    BY <1>a, ResetEffect DEF PowerLoss, TypeOK
  <1>5. ~LoseKeyFile /\ ~RestoreKeyFile
    BY DEF LoseKeyFile, RestoreKeyFile, AllClosed
  <1> QED BY <1>1, <1>3, <1>4, <1>5 DEF Next

\* Whichever process creates the installation key first, no step of any other
\* process replaces it while one of them is open (atomicCreate).
THEOREM WinnersKeyIsKept == Spec => WinnersKeyKept
  <1>1. Spec => []KeyInv
    BY InitKeyInv, StepKeyInv, PTL DEF Spec
  <1>2. KeyInv /\ [Next]_vars =>
          [disk.key.cur # NoKey /\ (\E p \in Procs : job'[p].pc # "closed")
             => disk'.key = disk.key]_vars
    BY KeyFileSteps
  <1> QED BY <1>1, <1>2, PTL DEF Spec, WinnersKeyKept

-----------------------------------------------------------------------------
(* Saved writes survive, and memory matches the file *)

LEMMA InitSavedInv == ASSUME Init PROVE SavedInv
  <1>1. TypeOK
    BY InitType
  <1>2. \A s \in Stores : disk.store[s].ver = 0
    BY DEF Init
  <1>3. \A p \in Procs : job[p].pc = "closed" /\ job[p].stage = "none" /\ ~obj[p].durErr
    BY DEF Init, NoJob, NewStore
  <1>4. SavedSurvives
    BY <1>2 DEF Init, SavedSurvives
  <1> QED BY <1>1, <1>3, <1>4 DEF SavedInv, MemoryInv, JobsNewer, ToolAlone, Init, NoTool

\* A step of process p alone keeps SavedInv if the files only gain disks that
\* hold what was saved and leave the other processes' stores alone, and if p
\* itself ends in a state the invariant allows.
LEMMA ProcStep ==
    ASSUME SavedInv, TypeOK', NEW p \in Procs,
           \A q \in Procs \ {p} : job'[q] = job[q] /\ obj'[q] = obj[q],
           \A s \in Stores \ {Home[p]} : disk'.store[s].ver = disk.store[s].ver /\ acked'[s] = acked[s],
           SavedSurvives',
           tool' = tool, job'[p].pc = "closed" \/ tool.pc = "off",
           job'[p].pc = "closed" => ~obj'[p].durErr /\ job'[p].stage = "none",
           job'[p].pc = "idle" => job'[p].stage = "none",
           job'[p].pc \notin {"closed", "idle"} => job'[p].stage # "none",
           job'[p].pc = "sync" => job'[p].ver = disk'.store[Home[p]].ver,
           job'[p].pc # "closed" /\ job'[p].stage # "migrate" /\ ~obj'[p].loadErr =>
               obj'[p].data = disk'.store[Home[p]].ver,
           job'[p].pc \notin {"closed", "idle"} => acked'[Home[p]] <= job'[p].ver
    PROVE  SavedInv'
  <1>1. \A q \in Procs \ {p} : Home[q] \in Stores \ {Home[p]}
    BY StorageAssumption
  <1>2. MemoryInv'
    BY <1>1 DEF SavedInv, MemoryInv
  <1>3. JobsNewer'
    BY <1>1 DEF SavedInv, JobsNewer
  <1>4. ToolAlone'
    BY DEF SavedInv, ToolAlone, AllClosed
  <1> QED BY <1>2, <1>3, <1>4 DEF SavedInv

LEMMA ProcSavedInv ==
    ASSUME SavedInv, NEW p \in Procs, ProcNext(p)
    PROVE  SavedInv'
  <1> DEFINE h == Home[p]
             v == disk.store[h].ver
  <1>a. TypeOK /\ TypeOK'
    BY ProcType DEF SavedInv
  <1>b. /\ job \in [Procs -> Job] /\ obj \in [Procs -> Store] /\ h \in Stores
        /\ disk \in Disk /\ survivors \subseteq Disk /\ disk \in survivors
        /\ disk.key.cur \in MaybeKey /\ job[p].key \in MaybeKey /\ job[p].ver \in Nat
        /\ v \in Nat /\ obj[p].data \in Nat /\ obj[p].loadErr \in BOOLEAN
        /\ job[p].op \in {"none", "open", "get", "update", "set"}
        /\ job[p].stage \in {"none", "migrate", "persist"}
        /\ acked \in [Stores -> Nat] /\ acked[h] \in Nat
    BY <1>a, StorageAssumption, DiskFields, JobFields, StoreFields DEF TypeOK
  <1>c. job[p].pc # "closed" => tool.pc = "off"
    BY DEF SavedInv, ToolAlone, AllClosed
  <1>d. acked[h] <= v
    BY <1>b DEF SavedInv, SavedSurvives
  <1>e. ASSUME UNCHANGED <<disk, survivors, acked>> PROVE SavedSurvives'
    BY <1>e DEF SavedInv, SavedSurvives
  <1>f. ASSUME SyncDir, UNCHANGED acked PROVE SavedSurvives'
    BY <1>b, <1>f DEF SavedInv, SavedSurvives, SyncDir
  <1> HIDE DEF h, v
  <1>1. ASSUME NEW o \in {"open", "get", "update"}, Load(p, o) PROVE SavedInv'
    <2>a. /\ UNCHANGED <<disk, survivors, backup, acked, tool>> /\ tool.pc = "off"
          /\ job[p].pc \in {"closed", "idle"}
      BY <1>1 DEF Load, ToolOff
    <2>1. CASE obj[p].durErr /\ Return(p) /\ UNCHANGED obj
      <3>1. job'[p].pc = "idle" /\ job'[p].stage = "none" /\ \A q \in Procs \ {p} : job'[q] = job[q]
        BY <1>b, <2>1, ReturnEffect
      <3>2. job[p].pc = "idle" /\ job[p].stage = "none"
        BY <2>a, <2>1 DEF SavedInv, MemoryInv
      <3> QED BY <1>a, <1>e, <2>a, <2>1, <3>1, <3>2, ProcStep DEF SavedInv, MemoryInv
    <2>2. CASE obj' = [obj EXCEPT ![p].loadErr = TRUE] /\ Return(p)
      <3>1. job'[p].pc = "idle" /\ job'[p].stage = "none" /\ \A q \in Procs \ {p} : job'[q] = job[q]
        BY <1>b, <2>2, ReturnEffect
      <3>2. obj'[p].loadErr /\ \A q \in Procs \ {p} : obj'[q] = obj[q]
        BY <1>b, <2>2, LoadErrEffect
      <3> QED BY <1>a, <1>e, <2>a, <3>1, <3>2, ProcStep
    <2>3. CASE WriteNext(p, o, "migrate", v) /\ UNCHANGED obj
      <3>1. /\ job'[p].pc = "key" /\ job'[p].stage = "migrate" /\ job'[p].ver = v
            /\ \A q \in Procs \ {p} : job'[q] = job[q]
        BY <1>b, <2>3, WriteNextEffect
      <3> QED BY <1>a, <1>d, <1>e, <2>a, <2>3, <3>1, ProcStep DEF h
    <2>4. CASE obj' = [obj EXCEPT ![p].data = v, ![p].loadErr = FALSE] /\ Loaded(p, o, v)
      <3>1. obj'[p].data = v /\ \A q \in Procs \ {p} : obj'[q] = obj[q]
        BY <1>b, <2>4, NewDataEffect
      <3>2. /\ \/ job'[p].pc = "idle" /\ job'[p].stage = "none"
               \/ job'[p].pc = "key" /\ job'[p].stage = "persist" /\ job'[p].ver = v + 1
            /\ \A q \in Procs \ {p} : job'[q] = job[q]
        BY <1>b, <2>4, LoadedEffect
      <3>3. job'[p].pc \notin {"closed", "idle"} => acked[h] <= job'[p].ver
        BY <1>b, <1>d, <3>2
      <3>4. obj'[p].data = disk'.store[Home[p]].ver
        BY <2>a, <3>1 DEF v, h
      <3> QED BY <1>a, <1>e, <2>a, <3>1, <3>2, <3>3, <3>4, ProcStep DEF h
    <2> QED BY <1>1, <2>1, <2>2, <2>3, <2>4 DEF Load, v, h
  <1>2. CASE Set(p)
    <2>a. /\ UNCHANGED <<disk, survivors, obj, acked, tool>> /\ job[p].pc = "idle" /\ ~obj[p].loadErr
      BY <1>2 DEF Set
    <2>b. obj[p].data = v
      BY <2>a DEF SavedInv, MemoryInv, v, h
    <2>1. /\ job'[p].pc = "key" /\ job'[p].stage = "persist" /\ job'[p].ver = v + 1
          /\ \A q \in Procs \ {p} : job'[q] = job[q]
      <3>1. v + 1 \in Nat
        BY <1>b
      <3> QED BY <1>2, <1>b, <2>b, <3>1, WriteNextEffect DEF Set
    <2>2. acked[h] <= job'[p].ver
      BY <1>b, <1>d, <2>1
    <2> QED BY <1>a, <1>c, <1>e, <2>a, <2>b, <2>1, <2>2, ProcStep DEF v, h
  <1>g. ASSUME job[p].pc \in {"key", "scan", "reread", "create"},
               job'[p].pc \in {"rename", "scan", "create", "reread", "keySync"},
               job'[p].stage = job[p].stage, job'[p].ver = job[p].ver,
               \A q \in Procs \ {p} : job'[q] = job[q],
               UNCHANGED <<obj, acked, tool>>,
               disk'.store = disk.store, SavedSurvives'
        PROVE  SavedInv'
    BY <1>a, <1>c, <1>g, ProcStep DEF SavedInv, MemoryInv, JobsNewer
  <1>3. CASE ReadKey(p) \/ Scan(p) \/ RereadKey(p)
    <2>1. /\ job[p].pc \in {"key", "scan", "reread"}
          /\ job'[p].pc \in {"rename", "scan", "create", "reread"}
          /\ job'[p].stage = job[p].stage /\ job'[p].ver = job[p].ver
          /\ \A q \in Procs \ {p} : job'[q] = job[q]
      BY <1>3, <1>b, UseKeyEffect, GotoEffect DEF ReadKey, Scan, RereadKey, Labels
    <2>2. UNCHANGED <<disk, survivors, obj, acked, tool>>
      BY <1>3 DEF ReadKey, Scan, RereadKey
    <2> QED BY <1>e, <1>g, <2>1, <2>2
  <1>9. ASSUME NEW k \in Keys, CreateKey(p, k) PROVE SavedInv'
    <2>1. /\ job[p].pc = "create" /\ job'[p].pc \in {"reread", "keySync"}
          /\ job'[p].stage = job[p].stage /\ job'[p].ver = job[p].ver
          /\ \A q \in Procs \ {p} : job'[q] = job[q]
      BY <1>9, <1>b, GotoEffect, CreatedEffect DEF CreateKey, Labels
    <2>2. [cur |-> k, prev |-> {}] \in KeyFile
      BY DEF KeyFile
    <2>3. disk'.store = disk.store /\ \A d \in survivors' : d \in survivors \/ d.store = disk.store
      <3> DEFINE kf == [cur |-> k, prev |-> {}]
      <3>1. WithKey(disk, kf).store = disk.store
        BY <1>b, <2>2, NewKeyFile
      <3>2. UNCHANGED <<disk, survivors>> \/ Publish(WithKey(disk, kf))
        BY <1>9 DEF CreateKey
      <3> HIDE DEF kf
      <3> QED BY <3>1, <3>2 DEF Publish
    <2>4. UNCHANGED <<obj, acked, tool>>
      BY <1>9 DEF CreateKey
    <2>5. SavedSurvives'
      BY <1>b, <2>3, <2>4 DEF SavedInv, SavedSurvives
    <2> QED BY <1>g, <2>1, <2>3, <2>4, <2>5
  <1>4. CASE SyncKey(p)
    <2>1. /\ job[p].pc = "keySync" /\ job'[p].pc = "rename"
          /\ job'[p].stage = job[p].stage /\ job'[p].ver = job[p].ver
          /\ \A q \in Procs \ {p} : job'[q] = job[q]
      BY <1>4, <1>b, GotoEffect DEF SyncKey, Labels
    <2>2. UNCHANGED <<obj, acked, tool, disk>> /\ SavedSurvives'
      BY <1>4, <1>f DEF SyncKey, SyncDir
    <2> QED BY <1>a, <1>c, <2>1, <2>2, ProcStep DEF SavedInv, MemoryInv, JobsNewer
  <1>5. CASE Rename(p)
    <2> DEFINE e == gcm(job[p].key, job[p].ver)
               d == WithStore(disk, h, e)
    <2>1. e \in Envelope /\ e.ver = job[p].ver
      BY <1>b, GcmFields
    <2>2. d.store[h] = e /\ \A t \in Stores \ {h} : d.store[t] = disk.store[t]
      BY <1>b, <2>1, NewStoreFile
    <2>3. Publish(d) /\ UNCHANGED <<acked, tool>> /\ job[p].pc = "rename"
      BY <1>5 DEF Rename, h
    <2>4. acked[h] <= job[p].ver
      BY <2>3 DEF SavedInv, JobsNewer, h
    <2>5. SavedSurvives'
      BY <1>b, <2>1, <2>2, <2>3, <2>4 DEF SavedInv, SavedSurvives, Publish
    <2>6. /\ job'[p].pc = "sync" /\ job'[p].stage = job[p].stage /\ job'[p].ver = job[p].ver
          /\ \A q \in Procs \ {p} : job'[q] = job[q]
      BY <1>5, <1>b, GotoEffect DEF Rename, Labels
    <2>7. /\ job[p].stage = "persist" => obj'[p].data = job[p].ver
          /\ \A q \in Procs \ {p} : obj'[q] = obj[q]
      BY <1>5, <1>b, PersistedEffect DEF Rename
    <2>8. disk' = d
      BY <2>3 DEF Publish
    <2>9. job[p].stage # "none"
      BY <2>3 DEF SavedInv, MemoryInv
    <2> QED BY <1>a, <1>b, <1>c, <2>1, <2>2, <2>3, <2>4, <2>5, <2>6, <2>7, <2>8, <2>9, ProcStep DEF h
  <1>6. CASE SyncWrite(p)
    <2>a. /\ job[p].pc = "sync" /\ UNCHANGED <<disk, tool>> /\ SyncDir /\ job[p].ver = v
      BY <1>6 DEF SyncWrite, SyncDir, SavedInv, MemoryInv, v, h
    <2>1. CASE /\ job[p].stage = "persist" /\ acked' = [acked EXCEPT ![h] = job[p].ver]
               /\ Return(p) /\ UNCHANGED obj
      <3>1. job'[p].pc = "idle" /\ job'[p].stage = "none" /\ \A q \in Procs \ {p} : job'[q] = job[q]
        BY <1>b, <2>1, ReturnEffect
      <3>2. acked'[h] = v /\ \A s \in Stores \ {h} : acked'[s] = acked[s]
        BY <1>b, <2>a, <2>1
      <3>3. SavedSurvives'
        BY <1>b, <2>a, <3>2 DEF SavedInv, SavedSurvives, SyncDir, v
      <3> QED BY <1>a, <1>c, <2>a, <2>1, <3>1, <3>2, <3>3, ProcStep DEF SavedInv, MemoryInv, h
    <2>2. CASE /\ obj' = [obj EXCEPT ![p].data = job[p].ver, ![p].loadErr = FALSE]
               /\ Loaded(p, job[p].op, job[p].ver) /\ UNCHANGED acked
      <3>1. obj'[p].data = v /\ \A q \in Procs \ {p} : obj'[q] = obj[q]
        BY <1>b, <2>a, <2>2, NewDataEffect
      <3>2. /\ \/ job'[p].pc = "idle" /\ job'[p].stage = "none"
               \/ job'[p].pc = "key" /\ job'[p].stage = "persist" /\ job'[p].ver = v + 1
            /\ \A q \in Procs \ {p} : job'[q] = job[q]
        BY <1>b, <2>a, <2>2, LoadedEffect
      <3>3. job'[p].pc \notin {"closed", "idle"} => acked[h] <= job'[p].ver
        BY <1>b, <1>d, <3>2
      <3>4. obj'[p].data = disk'.store[Home[p]].ver
        BY <2>a, <3>1 DEF v, h
      <3> QED BY <1>a, <1>c, <1>f, <2>a, <2>2, <3>1, <3>2, <3>3, <3>4, ProcStep DEF h
    <2> QED BY <1>6, <2>1, <2>2 DEF SyncWrite, h
  <1>7. CASE SyncWriteFails(p) \/ Fail(p)
    <2>1. job'[p].pc = "idle" /\ job'[p].stage = "none" /\ \A q \in Procs \ {p} : job'[q] = job[q]
      BY <1>7, <1>b, ReturnEffect DEF SyncWriteFails, Fail
    <2>2. UNCHANGED <<disk, survivors, acked, tool>> /\ job[p].pc # "closed"
      BY <1>7 DEF SyncWriteFails, Fail
    <2>3. /\ obj'[p].data = obj[p].data /\ obj'[p].loadErr = LoadErrAfter(p)
          /\ \A q \in Procs \ {p} : obj'[q] = obj[q]
      <3>1. LoadErrAfter(p) \in BOOLEAN
        BY <1>b DEF LoadErrAfter
      <3> QED BY <1>7, <1>b, <3>1, LoadErrEffect, QuarantineEffect DEF SyncWriteFails, Fail
    <2> QED BY <1>a, <1>c, <1>e, <2>1, <2>2, <2>3, ProcStep DEF LoadErrAfter, SavedInv, MemoryInv
  <1>8. CASE Stop(p)
    <2>1. /\ job'[p].pc = "closed" /\ job'[p].stage = "none" /\ ~obj'[p].durErr
          /\ \A q \in Procs \ {p} : job'[q] = job[q] /\ obj'[q] = obj[q]
      BY <1>8, <1>b, ResetEffect DEF Stop
    <2>2. UNCHANGED <<disk, survivors, acked, tool>>
      BY <1>8 DEF Stop
    <2> QED BY <1>a, <1>e, <2>1, <2>2, ProcStep
  <1> QED BY <1>1, <1>2, <1>3, <1>4, <1>5, <1>6, <1>7, <1>8, <1>9 DEF ProcNext, Open, GetE, UpdateValue

LEMMA StepSavedInv == ASSUME SavedInv, [Next]_vars PROVE SavedInv'
  <1>a. TypeOK /\ TypeOK'
    BY StepType DEF SavedInv
  <1>b. disk \in Disk /\ disk \in survivors /\ survivors \subseteq Disk
    BY <1>a DEF TypeOK
  \* With every process closed, only the versions on disk matter.
  <1>c. ASSUME \A p \in Procs : job'[p].pc = "closed" /\ job'[p].stage = "none" /\ ~obj'[p].durErr,
               SavedSurvives'
        PROVE  SavedInv'
    BY <1>a, <1>c DEF SavedInv, MemoryInv, JobsNewer, ToolAlone, AllClosed
  <1>d. ASSUME AllClosed, UNCHANGED <<job, obj>>
        PROVE  \A p \in Procs : job'[p].pc = "closed" /\ job'[p].stage = "none" /\ ~obj'[p].durErr
    BY <1>d DEF AllClosed, SavedInv, MemoryInv
  <1>1. CASE ToolNext
    <2>1. AllClosed /\ UNCHANGED <<job, obj, acked>>
      BY <1>1 DEF SavedInv, ToolAlone, ToolNext, Rotate, Prune, WriteKeyring, Reencrypt, SkipMissing,
                  ToolSync, ToolEnds
    <2>2. CASE UNCHANGED <<disk, survivors>> \/ SyncDir
      <3>1. SavedSurvives'
        BY <1>b, <2>1, <2>2 DEF SavedInv, SavedSurvives, SyncDir
      <3> QED BY <1>c, <1>d, <2>1, <3>1
    <2>3. CASE WriteKeyring
      <3>1. WithKey(disk, tool.ring).store = disk.store
        BY <1>a, NewKeyFile DEF TypeOK
      <3>2. SavedSurvives'
        BY <1>b, <2>1, <2>3, <3>1 DEF SavedInv, SavedSurvives, WriteKeyring, Publish
      <3> QED BY <1>c, <1>d, <2>1, <3>2
    <2>4. ASSUME NEW s \in Stores, Reencrypt(s) PROVE SavedInv'
      <3> DEFINE e == gcm(tool.ring.cur, disk.store[s].ver)
      <3>1. e \in Envelope /\ e.ver = disk.store[s].ver
        BY <1>a, <1>b, DiskFields, GcmFields DEF TypeOK, KeyFile, MaybeKey
      <3>2. \A t \in Stores : WithStore(disk, s, e).store[t].ver = disk.store[t].ver
        BY <1>b, <3>1, NewStoreFile
      <3>3. survivors' = survivors \cup {WithStore(disk, s, e)}
        BY <2>4 DEF Reencrypt, Publish
      <3>4. SavedSurvives'
        BY <1>b, <2>1, <3>2, <3>3 DEF SavedInv, SavedSurvives
      <3> QED BY <1>c, <1>d, <2>1, <3>4
    <2> QED BY <1>1, <2>2, <2>3, <2>4 DEF ToolNext, Rotate, Prune, SkipMissing, ToolSync, ToolEnds
  <1>2. CASE PowerLoss
    <2>1. \A p \in Procs : job'[p].pc = "closed" /\ job'[p].stage = "none" /\ ~obj'[p].durErr
      BY <1>2, <1>a, ResetEffect DEF PowerLoss, TypeOK
    <2>2. SavedSurvives'
      BY <1>2 DEF PowerLoss, SavedInv, SavedSurvives
    <2> QED BY <1>c, <2>1, <2>2
  <1>3. CASE LoseKeyFile \/ RestoreKeyFile
    <2>1. NoKeyFile \in KeyFile
      BY DEF NoKeyFile, KeyFile
    <2>2. \A d \in survivors' : d.store = disk.store
      <3>1. WithKey(disk, NoKeyFile).store = disk.store /\ WithKey(disk, backup).store = disk.store
        BY <1>a, <2>1, NewKeyFile DEF TypeOK
      <3> QED BY <1>3, <3>1 DEF LoseKeyFile, RestoreKeyFile
    <2>3. AllClosed /\ UNCHANGED <<job, obj, acked>>
      BY <1>3 DEF LoseKeyFile, RestoreKeyFile
    <2>4. SavedSurvives'
      BY <1>b, <2>2, <2>3 DEF SavedInv, SavedSurvives
    <2> QED BY <1>c, <1>d, <2>3, <2>4
  <1>4. CASE UNCHANGED vars
    BY <1>a, <1>4 DEF vars, SavedInv, MemoryInv, JobsNewer, SavedSurvives, ToolAlone, AllClosed
  <1> QED BY <1>1, <1>2, <1>3, <1>4, ProcSavedInv DEF Next

\* A write reported as saved is on every disk a crash can leave, through
\* migration, rotation, pruning and failed directory syncs (persistLocked
\* returns nil only after the directory sync).
THEOREM SavedWritesSurvive == Spec => []SavedSurvives
  <1>1. Spec => []SavedInv
    BY InitSavedInv, StepSavedInv, PTL DEF Spec
  <1>2. SavedInv => SavedSurvives
    BY DEF SavedInv
  <1> QED BY <1>1, <1>2, PTL

\* Between operations the payload in memory is the one in the visible file,
\* unless the last load failed (loadLocked, persistLocked).
THEOREM MemoryAlwaysMatches == Spec => []MemoryMatchesFile
  <1>1. Spec => []SavedInv
    BY InitSavedInv, StepSavedInv, PTL DEF Spec
  <1>2. SavedInv => MemoryMatchesFile
    BY DEF SavedInv, MemoryInv, MemoryMatchesFile
  <1> QED BY <1>1, <1>2, PTL

=============================================================================
