------------------------------ MODULE ManagedDB ------------------------------
(***************************************************************************)
(* The managed Bolt database, Mgd of crypto/db/db.go: one lock around every*)
(* operation, a file that is opened on demand and closed for a backup, the *)
(* dirty flag that decides whether a backup is due, a status function that *)
(* turns the database off, and the copying of the file by                  *)
(* backup.FileCopy.  Bolt itself is external: a transaction commits        *)
(* atomically and survives a crash, or fails without effect.  A Close that *)
(* fails has given up file and mapping, but the handle is left: it refuses *)
(* every transaction, and closing it again does nothing and succeeds.      *)
(*                                                                         *)
(* Bounds: MaxSeconds (the clock that names the backups) and MaxCrashes.   *)
(***************************************************************************)
EXTENDS Naturals

CONSTANTS
  Clients, Keys, Values, Absent, MayCall,   \* see KVStore
  MaxSeconds,  \* the clock runs from 1 to MaxSeconds
  MaxCrashes,  \* how often the process dies and starts again
  Failures     \* the steps that may fail: a subset of FailingSteps

FailingSteps ==
  {"open", "buckets", "add", "rm", "get", "getAll", "close", "copy", "cleanup", "remove"}

ASSUME AbsentAssumption == Absent \notin Values
ASSUME BoundsAssumption == MaxSeconds \in Nat \ {0} /\ MaxCrashes \in Nat
ASSUME FailuresAssumption == Failures \subseteq FailingSteps

VARIABLES
  on,        \* what the status function (OnFn) answers
  holder,    \* the clients that hold the lock Mgd.l
  pc,        \* where each client is in its operation
  call, answer,
  bdb,       \* Mgd.bdb: "nil", "open", or "dead" after a Close that failed
  dirty,     \* Mgd.dirty
  file,      \* the master file: "none", "bare" (no buckets yet) or "ready"
  store,     \* the contents of the master file's buckets
  backups,   \* the backup file of each second
  second,    \* the clock, in the seconds that backup names tell apart
  target,    \* the second in the name of the latest backup started
  newest,    \* the latest backup completed in this process's life, or 0
  held,      \* the byte slices of GetAllValuesFromBucket a client still has
  crashes

clientVars == <<pc, call, answer, held>>
dbVars == <<bdb, dirty>>
diskVars == <<file, store, backups>>
backupVars == <<target, newest>>
vars == <<on, holder, pc, call, answer, bdb, dirty, file, store, backups,
          second, target, newest, held, crashes>>

Stage(c) == IF pc[c] = "idle" THEN "idle" ELSE IF pc[c] = "done" THEN "done" ELSE "called"
Broken == bdb = "dead"
KV == INSTANCE KVStore WITH stage <- [c \in Clients |-> Stage(c)], broken <- Broken

ASSUME MayCallAssumption == MayCall \in [Clients -> SUBSET KV!Requests]

Seconds == 1 .. MaxSeconds
DataOps == {"add", "rm", "get", "getAll"}
Inside == {"locked", "opening", "buckets", "tx", "copy", "copying", "done"}
Files == [is : {"none", "partial", "whole"}, data : KV!Contents]
NoFile == [is |-> "none", data |-> KV!Empty]
PartialFile == [is |-> "partial", data |-> KV!Empty]
Copy == [is |-> "whole", data |-> store]

\* The lock is held by the client that is inside an operation, and nobody else.
LockOK ==
  /\ \A c \in Clients : c \in holder <=> pc[c] \in Inside
  /\ \A c, d \in holder : c = d

TypeOK ==
  /\ on \in BOOLEAN /\ dirty \in BOOLEAN
  /\ holder \in SUBSET Clients
  /\ pc \in [Clients -> {"idle", "called"} \cup Inside]
  /\ call \in [Clients -> KV!Requests]
  /\ answer \in [Clients -> KV!Answers]
  /\ bdb \in {"nil", "open", "dead"} /\ file \in {"none", "bare", "ready"}
  /\ store \in KV!Contents
  /\ backups \in [Seconds -> Files]
  /\ second \in Seconds /\ target \in Seconds /\ newest \in Seconds \cup {0}
  /\ held \in [Clients -> {"none", "mapped", "unmapped"}]
  /\ crashes \in 0 .. MaxCrashes
  /\ LockOK

Init ==
  /\ on = TRUE /\ holder = {} /\ bdb = "nil" /\ dirty = FALSE
  /\ pc = [c \in Clients |-> "idle"]
  /\ call \in [Clients -> {[op |-> "close", key |-> k, val |-> v] : k \in Keys, v \in Values}]
  /\ answer = [c \in Clients |-> KV!Outcome("none")]
  /\ file = "none" /\ store = KV!Empty
  /\ backups = [t \in Seconds |-> NoFile]
  /\ second = 1 /\ target = 1 /\ newest = 0
  /\ held = [c \in Clients |-> "none"]
  /\ crashes = 0

-----------------------------------------------------------------------------
Goto(c, l) == pc' = [pc EXCEPT ![c] = l]
At(c, l, ops) == pc[c] = l /\ call[c].op \in ops

\* The operation is over; its deferred Unlock comes with Return.
Finish(c, is) ==
  /\ answer' = [answer EXCEPT ![c] = KV!Outcome(is)]
  /\ Goto(c, "done")

\* The memory mapping goes, and with it what slices point to.
Unmap ==
  held' = IF bdb = "open"
          THEN [d \in Clients |-> IF held[d] = "mapped" THEN "unmapped" ELSE held[d]]
          ELSE held

\* Mgd.close, for a handle that is there.
CloseFile == bdb' = "nil" /\ Unmap

\* Mgd.close returns before it forgets the handle.
CloseFails ==
  /\ bdb = "open" /\ "close" \in Failures
  /\ bdb' = "dead" /\ Unmap

\* A client reads the values it got before it calls again.
Call(c) ==
  /\ pc[c] = "idle" /\ held[c] = "none"
  /\ \E r \in MayCall[c] : call' = [call EXCEPT ![c] = r]
  /\ Goto(c, "called")
  /\ UNCHANGED <<on, holder, answer, held, dbVars, diskVars, second, backupVars, crashes>>

Lock(c) ==
  /\ pc[c] = "called" /\ holder = {}
  /\ holder' = {c}
  /\ Goto(c, "locked")
  /\ UNCHANGED <<on, call, answer, held, dbVars, diskVars, second, backupVars, crashes>>

\* MUTANT of Return: an operation that fails leaves without the Unlock.
Return_KeepsLock(c) ==
  /\ pc[c] = "done"
  /\ Goto(c, "idle")
  /\ holder' = IF answer[c].is = "error" THEN holder ELSE holder \ {c}
  /\ answer' = [answer EXCEPT ![c] = KV!Outcome("none")]
  /\ UNCHANGED <<on, call, held, dbVars, diskVars, second, backupVars, crashes>>

Return(c) ==
  /\ pc[c] = "done"
  /\ Goto(c, "idle")
  /\ holder' = holder \ {c}
  /\ held' = IF call[c].op = "getAll" /\ answer[c].is = "ok"
             THEN [held EXCEPT ![c] = "mapped"]
             ELSE held
  /\ answer' = [answer EXCEPT ![c] = KV!Outcome("none")]
  /\ UNCHANGED <<on, call, dbVars, diskVars, second, backupVars, crashes>>

Disabled(c) ==
  /\ At(c, "locked", DataOps \cup {"backup", "wipe"})
  /\ ~on
  /\ Finish(c, "error")
  /\ UNCHANGED <<on, holder, call, held, dbVars, diskVars, second, backupVars, crashes>>

\* MUTANT of Operate: only opening the database makes it dirty.
Operate_DirtyWhenOpened(c) ==
  /\ At(c, "locked", DataOps)
  /\ on
  /\ dirty' = (dirty \/ (bdb = "nil" /\ file = "none"))
  /\ Goto(c, IF bdb = "nil" THEN "opening" ELSE "tx")
  /\ UNCHANGED <<on, holder, call, answer, held, bdb, diskVars, second, backupVars, crashes>>

\* The database is dirty whatever becomes of the operation, a read included.
Operate(c) ==
  /\ At(c, "locked", DataOps)
  /\ on
  /\ dirty' = TRUE
  /\ Goto(c, IF bdb = "nil" THEN "opening" ELSE "tx")
  /\ UNCHANGED <<on, holder, call, answer, held, bdb, diskVars, second, backupVars, crashes>>

\* open asks the status function again; bdb is set before the buckets exist.
Open(c) ==
  /\ pc[c] = "opening"
  /\ \/ /\ ~on \/ "open" \in Failures
        /\ Finish(c, "error")
        /\ UNCHANGED <<bdb, file>>
     \/ /\ on
        /\ bdb' = "open"
        /\ file' = IF file = "none" THEN "bare" ELSE file
        /\ Goto(c, "buckets")
        /\ UNCHANGED answer
  /\ UNCHANGED <<on, holder, call, held, dirty, store, backups, second, backupVars, crashes>>

\* MUTANT of CreateBuckets: the buckets are made anew at every open.
CreateBuckets_Fresh(c) ==
  /\ pc[c] = "buckets"
  /\ file' = "ready" /\ store' = KV!Empty
  /\ Goto(c, "tx")
  /\ UNCHANGED <<on, holder, call, answer, held, dbVars, backups, second, backupVars, crashes>>

CreateBuckets(c) ==
  /\ pc[c] = "buckets"
  /\ \/ /\ "buckets" \in Failures
        /\ Finish(c, "error")
        /\ UNCHANGED file
     \/ /\ file' = "ready"
        /\ Goto(c, "tx")
        /\ UNCHANGED answer
  /\ UNCHANGED <<on, holder, call, held, dbVars, store, backups, second, backupVars, crashes>>

\* The handlers that AddKeyValueToBucket and RmKeyValueFromBucket defer set
\* the err of the enclosing function, and the closure's own nil replaces it.
TxError(op) == IF op \in {"add", "rm"} THEN "ok" ELSE "error"

\* The bolt transaction.  Without buckets tx.Bucket is nil and the call panics;
\* a dead handle begins no transaction.
Transact(c) ==
  /\ pc[c] = "tx"
  /\ \/ /\ bdb = "open" /\ file # "ready"
        /\ Finish(c, "error")
        /\ UNCHANGED store
     \/ /\ bdb = "open" /\ file = "ready"
        /\ store' = KV!After(store, call[c])
        /\ answer' = [answer EXCEPT ![c] = [is |-> "ok", shows |-> KV!Shows(store, call[c])]]
        /\ Goto(c, "done")
     \/ /\ bdb = "dead" \/ call[c].op \in Failures
        /\ Finish(c, TxError(call[c].op))
        /\ UNCHANGED store
  /\ UNCHANGED <<on, holder, call, held, dbVars, file, backups, second, backupVars, crashes>>
-----------------------------------------------------------------------------
BackupSkip(c) ==
  /\ At(c, "locked", {"backup"})
  /\ on /\ ~dirty
  /\ Finish(c, "skipped")
  /\ UNCHANGED <<on, holder, call, held, dbVars, diskVars, second, backupVars, crashes>>

\* MUTANT of BackupStart: a database that is closed is taken for clean.
BackupStart_Closed(c) ==
  /\ At(c, "locked", {"backup"})
  /\ on /\ dirty
  /\ \/ bdb # "nil" /\ CloseFile /\ target' = second /\ Goto(c, "copy") /\ UNCHANGED answer
     \/ bdb = "nil" /\ Finish(c, "skipped") /\ UNCHANGED <<bdb, held, target>>
  /\ UNCHANGED <<on, holder, call, dirty, diskVars, second, newest, crashes>>

\* The database is closed and the backup named after the current second.
BackupStart(c) ==
  /\ At(c, "locked", {"backup"})
  /\ on /\ dirty
  /\ \/ /\ CloseFile
        /\ target' = second
        /\ Goto(c, "copy")
        /\ UNCHANGED answer
     \/ /\ CloseFails
        /\ Finish(c, "error")
        /\ UNCHANGED target
  /\ UNCHANGED <<on, holder, call, dirty, diskVars, second, newest, crashes>>

\* FileCopy opens the source and creates, or truncates, the destination.
CopyStart(c) ==
  /\ pc[c] = "copy"
  /\ \/ /\ file = "none" \/ "copy" \in Failures
        /\ Finish(c, "error")
        /\ UNCHANGED backups
     \/ /\ file # "none"
        /\ backups' = [backups EXCEPT ![target] = PartialFile]
        /\ Goto(c, "copying")
        /\ UNCHANGED answer
  /\ UNCHANGED <<on, holder, call, held, dbVars, file, store, second, backupVars, crashes>>

\* Only a copy that succeeds cleans the dirty flag.
CopyDone(c) ==
  /\ pc[c] = "copying"
  /\ backups' = [backups EXCEPT ![target] = Copy]
  /\ dirty' = FALSE
  /\ newest' = target
  /\ Finish(c, "ok")
  /\ UNCHANGED <<on, holder, call, held, bdb, file, store, second, target, crashes>>

\* MUTANT of CopyFail: the half copied destination stays.
CopyFail_Leaves(c) ==
  /\ pc[c] = "copying" /\ "copy" \in Failures
  /\ Finish(c, "error")
  /\ UNCHANGED <<on, holder, call, held, dbVars, diskVars, second, backupVars, crashes>>

\* The error handler of FileCopy removes the destination, if it can.
CopyFail(c) ==
  /\ pc[c] = "copying" /\ "copy" \in Failures
  /\ \E left \in {NoFile} \cup (IF "cleanup" \in Failures THEN {PartialFile} ELSE {}) :
       backups' = [backups EXCEPT ![target] = left]
  /\ Finish(c, "error")
  /\ UNCHANGED <<on, holder, call, held, dbVars, file, store, second, backupVars, crashes>>

Wipe(c) ==
  /\ At(c, "locked", {"wipe"})
  /\ on
  /\ \/ /\ CloseFile
        /\ file' = "none" /\ store' = KV!Empty
        /\ Finish(c, "ok")
     \/ /\ CloseFile /\ "remove" \in Failures
        /\ Finish(c, "error")
        /\ UNCHANGED <<file, store>>
     \/ /\ CloseFails
        /\ Finish(c, "error")
        /\ UNCHANGED <<file, store>>
  /\ UNCHANGED <<on, holder, call, dirty, backups, second, backupVars, crashes>>

\* Close does not ask the status function; GracefulStop closes every instance.
Close(c) ==
  /\ At(c, "locked", {"close"})
  /\ \/ CloseFile /\ Finish(c, "ok")
     \/ CloseFails /\ Finish(c, "error")
  /\ UNCHANGED <<on, holder, call, dirty, diskVars, second, backupVars, crashes>>

SetStatusFn(c) ==
  /\ At(c, "locked", {"setStatusFn"})
  /\ on' \in BOOLEAN
  /\ Finish(c, "ok")
  /\ UNCHANGED <<holder, call, held, dbVars, diskVars, second, backupVars, crashes>>
-----------------------------------------------------------------------------
\* The flag behind the status function is shared, and changes at any time.
Toggle ==
  /\ on' = ~on
  /\ UNCHANGED <<holder, clientVars, dbVars, diskVars, second, backupVars, crashes>>

Tick ==
  /\ second < MaxSeconds
  /\ second' = second + 1
  /\ UNCHANGED <<on, holder, clientVars, dbVars, diskVars, backupVars, crashes>>

\* A client has read the values GetAllValuesFromBucket gave it.
DropValues(c) ==
  /\ held[c] # "none"
  /\ held' = [held EXCEPT ![c] = "none"]
  /\ UNCHANGED <<on, holder, pc, call, answer, dbVars, diskVars, second, backupVars, crashes>>

\* The process dies and starts again: only the files are left.
Crash ==
  /\ crashes < MaxCrashes
  /\ crashes' = crashes + 1
  /\ on' = TRUE /\ holder' = {} /\ bdb' = "nil" /\ dirty' = FALSE /\ newest' = 0
  /\ pc' = [c \in Clients |-> "idle"]
  /\ answer' = [c \in Clients |-> KV!Outcome("none")]
  /\ held' = [c \in Clients |-> "none"]
  /\ UNCHANGED <<call, diskVars, second, target>>

Step(c) ==
  \/ Return(c) \/ Disabled(c) \/ Operate(c) \/ Open(c) \/ CreateBuckets(c) \/ Transact(c)
  \/ BackupSkip(c) \/ BackupStart(c) \/ CopyStart(c) \/ CopyDone(c) \/ CopyFail(c)
  \/ Wipe(c) \/ Close(c) \/ SetStatusFn(c)

Next ==
  \/ Toggle \/ Tick \/ Crash
  \/ \E c \in Clients : Call(c) \/ Lock(c) \/ Step(c) \/ DropValues(c)

Spec == Init /\ [][Next]_vars

\* A goroutine that holds the lock runs on, and Go's mutex starves nobody (a
\* waiter that has failed for a millisecond is handed the lock).  The goroutine
\* of BackupTicker calls Backup again at every tick, and the disk does not
\* refuse every Close and every copy for ever.
BackupBegins(c) == BackupStart(c) /\ pc'[c] = "copy"
CopyBegins(c) == CopyStart(c) /\ pc'[c] = "copying"
Tickers == {c \in Clients : \A r \in MayCall[c] : r.op = "backup"}
Fairness ==
  /\ \A c \in Clients : WF_vars(Step(c)) /\ SF_vars(Lock(c))
  /\ \A c \in Tickers :
       /\ WF_vars(Call(c)) /\ SF_vars(BackupBegins(c))
       /\ SF_vars(CopyBegins(c)) /\ SF_vars(CopyDone(c))
FairSpec == Spec /\ Fairness
-----------------------------------------------------------------------------
(* To its callers the database is a durable map: every call takes effect at
   once or not at all, whatever is closed, reopened, copied, turned off or
   crashes in between.  A Close of the file that fails breaks it, and until it
   is mended an Add or Rm may be acknowledged and lost, but nothing else
   happens (operate, open, close, Backup, Wipe, Close of crypto/db/db.go). *)
ImplementsKVStore == KV!Spec

(* Once a backup has been taken, the database is clean only while that backup
   holds all it contains, so that skipping a clean database loses nothing
   (dirty in operate and Backup, crypto/db/db.go). *)
CleanIsBackedUp ==
  ~dirty /\ newest # 0 /\ file # "none" => backups[newest] = Copy

(* Without a crash, and while files can be removed, a half written backup is
   never left behind: FileCopy removes it when the copying fails, and ignores a
   failure of that (backup/backup.go). *)
BackupsWhole ==
  crashes = 0 /\ "cleanup" \notin Failures =>
    \A t \in Seconds : backups[t].is = "partial" =>
      target = t /\ \E c \in Clients : pc[c] = "copying"

(* Every call returns: the lock is released on every path out of an operation
   (the deferred Unlock calls of crypto/db/db.go). *)
CallsReturn == \A c \in Clients : pc[c] = "called" ~> pc[c] = "idle"

(* With a backup ticker running, a change is backed up sooner or later, as long
   as some copies work, the database is on and the file is there (BackupTicker). *)
ChangesBackedUp == dirty /\ file = "ready" ~> ~dirty \/ ~on \/ file # "ready"

(* An Add or Rm that returns no error has been done (AddKeyValueToBucket and
   RmKeyValueFromBucket of crypto/db/db.go). *)
AcknowledgedDone ==
  [][\A c \in Clients :
       pc[c] = "tx" /\ pc'[c] = "done" /\ answer'[c].is = "ok" =>
         store' = KV!After(store, call[c])]_vars

==============================================================================
