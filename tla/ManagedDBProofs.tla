--------------------------- MODULE ManagedDBProofs ---------------------------
(***************************************************************************)
(* Proofs about ManagedDB, for any clients, keys, values, bounds and       *)
(* failures: the types and the lock, and what the backups hold.            *)
(***************************************************************************)
EXTENDS ManagedDB, TLAPS

USE DEF Seconds

\* An outcome without contents is an answer, and the empty store is a store.
LEMMA OutcomeType ==
  ASSUME NEW is \in {"none", "ok", "skipped", "error"}
  PROVE  KV!Outcome(is) \in KV!Answers
BY DEF KV!Outcome, KV!Answers, KV!Empty, KV!Contents

\* The store stays a store whatever the request.
LEMMA AfterType ==
  ASSUME NEW s \in KV!Contents, NEW r \in KV!Requests
  PROVE  /\ KV!After(s, r) \in KV!Contents
         /\ [is |-> "ok", shows |-> KV!Shows(s, r)] \in KV!Answers
BY DEF KV!After, KV!Shows, KV!Answers, KV!Requests, KV!Empty, KV!Contents

\* Finishing an operation keeps the types of what it changes.
LEMMA FinishType ==
  ASSUME TypeOK, NEW c \in Clients, NEW is \in {"none", "ok", "skipped", "error"},
         Finish(c, is), pc[c] \in Inside, UNCHANGED holder
  PROVE  /\ pc' \in [Clients -> {"idle", "called"} \cup Inside]
         /\ answer' \in [Clients -> KV!Answers]
         /\ LockOK'
BY OutcomeType DEF Finish, Goto, TypeOK, LockOK, Inside

\* What a file holds: nothing, half a copy or a copy of the store.
LEMMA FileTypes ==
  ASSUME TypeOK
  PROVE  NoFile \in Files /\ PartialFile \in Files /\ Copy \in Files
BY DEF NoFile, PartialFile, Copy, Files, KV!Empty, KV!Contents, TypeOK

\* Closing, and failing to, keep the types of bdb and held.
LEMMA CloseType ==
  ASSUME TypeOK, CloseFile \/ CloseFails
  PROVE  /\ bdb' \in {"nil", "open", "dead"}
         /\ held' \in [Clients -> {"none", "mapped", "unmapped"}]
BY DEF CloseFile, CloseFails, Unmap, TypeOK

\* Going on inside the operation keeps the types and the lock.
LEMMA GotoType ==
  ASSUME TypeOK, NEW c \in Clients, NEW l \in Inside,
         Goto(c, l), pc[c] \in Inside, UNCHANGED holder
  PROVE  pc' \in [Clients -> {"idle", "called"} \cup Inside] /\ LockOK'
BY DEF Goto, TypeOK, LockOK, Inside

USE DEF clientVars, dbVars, diskVars, backupVars

\* The database that New makes has the types, and nobody holds its lock.
LEMMA TypeInit == Init => TypeOK
<1> SUFFICES ASSUME Init PROVE TypeOK
  OBVIOUS
<1>1. call \in [Clients -> KV!Requests]
  BY DEF Init, KV!Requests, KV!Ops, KV!DataOps, KV!Closing
<1>2. store \in KV!Contents
  BY DEF Init, KV!Empty, KV!Contents
<1>3. backups \in [Seconds -> Files]
  BY DEF Init, NoFile, Files, KV!Empty, KV!Contents
<1>4. answer \in [Clients -> KV!Answers]
  BY OutcomeType DEF Init
<1>5. LockOK
  BY DEF Init, LockOK, Inside
<1>6. /\ second \in Seconds /\ target \in Seconds
      /\ newest \in Seconds \cup {0} /\ crashes \in 0 .. MaxCrashes
  BY BoundsAssumption DEF Init
<1>7. /\ on \in BOOLEAN /\ dirty \in BOOLEAN /\ holder \in SUBSET Clients
      /\ pc \in [Clients -> {"idle", "called"} \cup Inside]
      /\ held \in [Clients -> {"none", "mapped", "unmapped"}]
      /\ bdb \in {"nil", "open", "dead"} /\ file \in {"none", "bare", "ready"}
  BY DEF Init
<1> QED
  BY <1>1, <1>2, <1>3, <1>4, <1>5, <1>6, <1>7 DEF TypeOK

\* Every operation of Mgd keeps the types and hands the lock on whole.
LEMMA TypeStep == TypeOK /\ [Next]_vars => TypeOK'
<1> SUFFICES ASSUME TypeOK, [Next]_vars PROVE TypeOK'
  OBVIOUS
<1>1. CASE UNCHANGED vars
  BY <1>1 DEF vars, TypeOK, LockOK, Copy
<1>2. CASE Toggle
  BY <1>2 DEF Toggle, TypeOK, LockOK
<1>3. CASE Tick
  BY <1>3, BoundsAssumption DEF Tick, TypeOK, LockOK
<1>4. CASE Crash
  <2>1. answer' \in [Clients -> KV!Answers]
    BY <1>4, OutcomeType DEF Crash
  <2>2. LockOK'
    BY <1>4 DEF Crash, LockOK, Inside
  <2>3. crashes' \in 0 .. MaxCrashes
    BY <1>4, BoundsAssumption DEF Crash, TypeOK
  <2>4. /\ pc' \in [Clients -> {"idle", "called"} \cup Inside]
        /\ held' \in [Clients -> {"none", "mapped", "unmapped"}]
    BY <1>4 DEF Crash
  <2>5. UNCHANGED <<call, file, store, backups, second, target>>
    BY <1>4 DEF Crash
  <2>6. /\ on' \in BOOLEAN /\ dirty' \in BOOLEAN /\ holder' \in SUBSET Clients
        /\ bdb' \in {"nil", "open", "dead"} /\ newest' \in Seconds \cup {0}
    BY <1>4 DEF Crash
  <2> QED
    BY <2>1, <2>2, <2>3, <2>4, <2>5, <2>6 DEF TypeOK
<1>5. ASSUME NEW c \in Clients, Call(c) PROVE TypeOK'
  <2>1. call' \in [Clients -> KV!Requests]
    BY <1>5, MayCallAssumption DEF Call, TypeOK
  <2>2. LockOK'
    BY <1>5 DEF Call, Goto, TypeOK, LockOK, Inside
  <2> QED
    BY <1>5, <2>1, <2>2 DEF Call, Goto, TypeOK
<1>6. ASSUME NEW c \in Clients, Lock(c) PROVE TypeOK'
  <2>1. LockOK'
    BY <1>6 DEF Lock, Goto, TypeOK, LockOK, Inside
  <2> QED
    BY <1>6, <2>1 DEF Lock, Goto, TypeOK, Inside
<1>7. ASSUME NEW c \in Clients, DropValues(c) PROVE TypeOK'
  BY <1>7 DEF DropValues, TypeOK, LockOK
<1>8. ASSUME NEW c \in Clients, Step(c) PROVE TypeOK'
  <2>1. CASE Return(c)
    <3>1. LockOK'
      BY <2>1 DEF Return, Goto, TypeOK, LockOK, Inside
    <3>2. answer' \in [Clients -> KV!Answers]
      BY <2>1, OutcomeType DEF Return, TypeOK
    <3> QED
      BY <2>1, <3>1, <3>2 DEF Return, Goto, TypeOK
  <2>2. CASE Disabled(c)
    BY <2>2, FinishType DEF Disabled, At, TypeOK, Inside
  <2>3. CASE Operate(c)
    BY <2>3, GotoType DEF Operate, At, TypeOK, Inside
  <2>4. CASE Open(c)
    BY <2>4, FinishType, GotoType DEF Open, TypeOK, Inside
  <2>5. CASE CreateBuckets(c)
    BY <2>5, FinishType, GotoType DEF CreateBuckets, TypeOK, Inside
  <2>6. CASE Transact(c)
    <3>1. TxError(call[c].op) \in {"ok", "error"}
      BY DEF TxError
    <3>2. store' \in KV!Contents
      BY <2>6, AfterType DEF Transact, TypeOK
    <3>3. pc[c] \in Inside
      BY <2>6 DEF Transact, Inside
    <3>4. ASSUME Finish(c, "error") \/ Finish(c, TxError(call[c].op)) PROVE TypeOK'
      BY <2>6, <3>1, <3>2, <3>3, <3>4, FinishType DEF Transact, TypeOK
    <3>5. ASSUME answer' = [answer EXCEPT ![c] = [is |-> "ok", shows |-> KV!Shows(store, call[c])]],
                 Goto(c, "done")
          PROVE  TypeOK'
      <4>1. answer' \in [Clients -> KV!Answers]
        BY <3>5, AfterType DEF TypeOK
      <4> QED
        BY <2>6, <3>2, <3>3, <3>5, <4>1, GotoType DEF Transact, TypeOK, Inside
    <3> QED
      BY <2>6, <3>4, <3>5 DEF Transact
  <2>7. CASE BackupSkip(c)
    BY <2>7, FinishType DEF BackupSkip, At, TypeOK, Inside
  <2>8. CASE BackupStart(c)
    <3>1. CASE CloseFile /\ target' = second /\ Goto(c, "copy") /\ UNCHANGED answer
      BY <2>8, <3>1, GotoType, CloseType DEF BackupStart, At, TypeOK, Inside
    <3>2. CASE CloseFails /\ Finish(c, "error") /\ UNCHANGED target
      BY <2>8, <3>2, FinishType, CloseType DEF BackupStart, At, TypeOK, Inside
    <3> QED
      BY <2>8, <3>1, <3>2 DEF BackupStart
  <2>9. CASE CopyStart(c)
    <3>1. backups' \in [Seconds -> Files]
      BY <2>9, FileTypes DEF CopyStart, TypeOK
    <3> QED
      BY <2>9, <3>1, FinishType, GotoType DEF CopyStart, TypeOK, Inside
  <2>10. CASE CopyDone(c)
    <3>1. backups' \in [Seconds -> Files]
      BY <2>10, FileTypes DEF CopyDone, TypeOK
    <3> QED
      BY <2>10, <3>1, FinishType DEF CopyDone, TypeOK, Inside
  <2>11. CASE CopyFail(c)
    <3>1. backups' \in [Seconds -> Files]
      BY <2>11, FileTypes DEF CopyFail, TypeOK
    <3> QED
      BY <2>11, <3>1, FinishType DEF CopyFail, TypeOK, Inside
  <2>12. CASE Wipe(c)
    <3>1. store' \in KV!Contents
      BY <2>12 DEF Wipe, TypeOK, KV!Empty, KV!Contents
    <3> QED
      BY <2>12, <3>1, FinishType, CloseType DEF Wipe, At, TypeOK, Inside
  <2>13. CASE Close(c)
    BY <2>13, FinishType, CloseType DEF Close, At, TypeOK, Inside
  <2>14. CASE SetStatusFn(c)
    BY <2>14, FinishType DEF SetStatusFn, At, TypeOK, Inside
  <2> QED
    BY <1>8, <2>1, <2>2, <2>3, <2>4, <2>5, <2>6, <2>7, <2>8, <2>9, <2>10, <2>11,
       <2>12, <2>13, <2>14 DEF Step
<1> QED
  BY <1>1, <1>2, <1>3, <1>4, <1>5, <1>6, <1>7, <1>8 DEF Next

(* Every variable keeps its type, and the lock is held by the one client that
   is inside an operation (db.l of crypto/db/db.go). *)
THEOREM TypeCorrect == Spec => []TypeOK
<1> QED
  BY TypeInit, TypeStep, PTL DEF Spec

-----------------------------------------------------------------------------
\* While a client may change the file or the store, or copies it, the database
\* is dirty.
Busy == {"opening", "buckets", "tx", "copy", "copying"}
BusyIsDirty == \A c \in Clients : pc[c] \in Busy => dirty

\* The inductive invariant: with one client inside an operation and BusyIsDirty,
\* a clean database cannot move away from its newest backup.
BackupInv == TypeOK /\ BusyIsDirty /\ CleanIsBackedUp /\ BackupsWhole

\* The inductive invariant holds of a database without backups.
LEMMA BackupInit == Init => BackupInv
BY TypeInit DEF Init, BackupInv, BusyIsDirty, CleanIsBackedUp, BackupsWhole, Busy, NoFile

\* A step that keeps what is on the disk, and what says how far the backups got.
LEMMA DiskUnchanged ==
  ASSUME BackupInv, NEW c \in Clients,
         \A d \in Clients : d # c => pc'[d] = pc[d],
         pc[c] # "copying", pc'[c] # "copying",
         pc'[c] \in Busy => dirty',
         dirty => dirty',
         \/ UNCHANGED <<store, file>>
         \/ dirty'
         \/ file' = "none",
         UNCHANGED <<backups, newest, crashes>>,
         target' = target \/ \A d \in Clients : pc[d] # "copying"
  PROVE  BusyIsDirty' /\ CleanIsBackedUp' /\ BackupsWhole'
BY DEF BackupInv, BusyIsDirty, CleanIsBackedUp, BackupsWhole, Busy, Copy

\* Nobody else is inside an operation.
LEMMA Alone ==
  ASSUME TypeOK, NEW c \in Clients, pc[c] \in Inside
  PROVE  \A d \in Clients : d # c => pc[d] \notin Inside
BY DEF TypeOK, LockOK

\* Every step of operate, Backup, FileCopy, Wipe and a crash keeps it.
LEMMA BackupStep == BackupInv /\ [Next]_vars => BackupInv'
<1> SUFFICES ASSUME BackupInv, [Next]_vars
             PROVE  BusyIsDirty' /\ CleanIsBackedUp' /\ BackupsWhole'
  BY TypeStep DEF BackupInv
<1> USE DEF BackupInv
<1>1. CASE UNCHANGED vars
  BY <1>1 DEF vars, BusyIsDirty, CleanIsBackedUp, BackupsWhole, Copy
<1>2. CASE Toggle
  BY <1>2 DEF Toggle, BusyIsDirty, CleanIsBackedUp, BackupsWhole, Copy
<1>3. CASE Tick
  BY <1>3 DEF Tick, BusyIsDirty, CleanIsBackedUp, BackupsWhole, Copy
<1>4. CASE Crash
  <2>1. crashes' # 0
    BY <1>4, BoundsAssumption DEF Crash, TypeOK
  <2> QED
    BY <1>4, <2>1 DEF Crash, BusyIsDirty, CleanIsBackedUp, BackupsWhole, Busy
<1>5. ASSUME NEW c \in Clients, Call(c) PROVE BusyIsDirty' /\ CleanIsBackedUp' /\ BackupsWhole'
  BY <1>5, DiskUnchanged DEF Call, Goto, TypeOK, Busy
<1>6. ASSUME NEW c \in Clients, Lock(c) PROVE BusyIsDirty' /\ CleanIsBackedUp' /\ BackupsWhole'
  BY <1>6, DiskUnchanged DEF Lock, Goto, TypeOK, Busy
<1>7. ASSUME NEW c \in Clients, DropValues(c) PROVE BusyIsDirty' /\ CleanIsBackedUp' /\ BackupsWhole'
  BY <1>7 DEF DropValues, BusyIsDirty, CleanIsBackedUp, BackupsWhole, Copy
<1>8. ASSUME NEW c \in Clients, Step(c) PROVE BusyIsDirty' /\ CleanIsBackedUp' /\ BackupsWhole'
  <2> USE DEF Finish, Goto, At, Busy
  <2>1. CASE Return(c)
    BY <2>1, DiskUnchanged DEF Return, TypeOK
  <2>2. CASE Disabled(c)
    BY <2>2, DiskUnchanged DEF Disabled, TypeOK
  <2>3. CASE Operate(c)
    BY <2>3, DiskUnchanged DEF Operate, TypeOK
  <2>4. CASE Open(c)
    BY <2>4, DiskUnchanged DEF Open, TypeOK, BusyIsDirty
  <2>5. CASE CreateBuckets(c)
    BY <2>5, DiskUnchanged DEF CreateBuckets, TypeOK, BusyIsDirty
  <2>6. CASE Transact(c)
    BY <2>6, DiskUnchanged DEF Transact, TypeOK, BusyIsDirty
  <2>7. CASE BackupSkip(c)
    BY <2>7, DiskUnchanged DEF BackupSkip, TypeOK
  <2>8. CASE BackupStart(c)
    <3>1. \A d \in Clients : pc[d] # "copying"
      BY <2>8, Alone DEF BackupStart, Inside
    <3> QED
      BY <2>8, <3>1, DiskUnchanged DEF BackupStart, TypeOK
  <2>9. CASE CopyStart(c)
    <3>1. CASE Finish(c, "error") /\ UNCHANGED backups
      BY <2>9, <3>1, DiskUnchanged DEF CopyStart, TypeOK, BusyIsDirty
    <3>2. CASE backups' = [backups EXCEPT ![target] = PartialFile] /\ Goto(c, "copying")
      <4>1. dirty /\ dirty'
        BY <2>9 DEF CopyStart, BusyIsDirty
      <4>2. \A d \in Clients : d # c => pc[d] # "copying"
        BY <2>9, Alone DEF CopyStart, Inside
      <4>3. BackupsWhole'
        BY <2>9, <3>2, <4>2 DEF CopyStart, BackupsWhole, TypeOK
      <4> QED
        BY <4>1, <4>3 DEF BusyIsDirty, CleanIsBackedUp
    <3> QED
      BY <2>9, <3>1, <3>2 DEF CopyStart
  <2>10. CASE CopyDone(c)
    <3>1. \A d \in Clients : pc'[d] \notin Busy
      BY <2>10, Alone DEF CopyDone, Inside, TypeOK
    <3>2. backups'[newest'] = Copy'
      BY <2>10 DEF CopyDone, TypeOK, Copy
    <3>3. \A t \in Seconds : t # target => backups'[t] = backups[t]
      BY <2>10 DEF CopyDone, TypeOK
    <3>4. backups'[target].is = "whole"
      BY <2>10 DEF CopyDone, TypeOK, Copy
    <3>5. \A d \in Clients : d # c => pc'[d] = pc[d]
      BY <2>10 DEF CopyDone, TypeOK
    <3>6. BackupsWhole'
      BY <2>10, <3>3, <3>4, <3>5 DEF CopyDone, BackupsWhole
    <3> QED
      BY <3>1, <3>2, <3>6 DEF BusyIsDirty, CleanIsBackedUp
  <2>11. CASE CopyFail(c)
    <3>1. dirty /\ dirty'
      BY <2>11 DEF CopyFail, BusyIsDirty
    <3>2. BackupsWhole'
      BY <2>11 DEF CopyFail, BackupsWhole, TypeOK, NoFile, PartialFile
    <3> QED
      BY <3>1, <3>2 DEF BusyIsDirty, CleanIsBackedUp
  <2>12. CASE Wipe(c)
    BY <2>12, DiskUnchanged DEF Wipe, TypeOK
  <2>13. CASE Close(c)
    BY <2>13, DiskUnchanged DEF Close, TypeOK
  <2>14. CASE SetStatusFn(c)
    BY <2>14, DiskUnchanged DEF SetStatusFn, TypeOK
  <2> QED
    BY <1>8, <2>1, <2>2, <2>3, <2>4, <2>5, <2>6, <2>7, <2>8, <2>9, <2>10, <2>11,
       <2>12, <2>13, <2>14 DEF Step
<1> QED
  BY <1>1, <1>2, <1>3, <1>4, <1>5, <1>6, <1>7, <1>8 DEF Next

(* A database that is clean after a backup contains what that backup holds, so
   that Backup loses nothing by skipping it (dirty in operate and Backup). *)
THEOREM CleanDatabasesAreBackedUp == Spec => []CleanIsBackedUp
<1>1. BackupInv => CleanIsBackedUp
  BY DEF BackupInv
<1> QED
  BY BackupInit, BackupStep, <1>1, PTL DEF Spec

(* Unless the process dies while it copies, or files cannot be removed, no half
   written backup is left (the error handler of FileCopy in backup/backup.go). *)
THEOREM NoHalfBackups == Spec => []BackupsWhole
<1>1. BackupInv => BackupsWhole
  BY DEF BackupInv
<1> QED
  BY BackupInit, BackupStep, <1>1, PTL DEF Spec

-----------------------------------------------------------------------------
(* The refinement: each step of the database is one of the store or leaves
   the store, the calls and the answers alone. *)
Stages == [c \in Clients |-> Stage(c)]

\* Moving one client moves its stage only.
LEMMA StageStep ==
  ASSUME TypeOK, NEW c \in Clients, NEW l, Goto(c, l)
  PROVE  Stages' = [Stages EXCEPT ![c] =
           IF l = "idle" THEN "idle" ELSE IF l = "done" THEN "done" ELSE "called"]
BY DEF Stages, Stage, Goto, TypeOK

\* A step inside an operation that neither changes the store nor answers.
LEMMA Stutter ==
  ASSUME TypeOK, NEW c \in Clients, NEW l \in Inside \ {"done"}, Goto(c, l),
         pc[c] \notin {"idle", "done"}, UNCHANGED <<store, call, answer, Broken>>
  PROVE  UNCHANGED KV!vars
<1>1. Stages[c] = "called"
  BY DEF Stages, Stage
<1>2. Stages' = [Stages EXCEPT ![c] = "called"]
  BY StageStep DEF Inside
<1>3. Stages' = Stages
  BY <1>1, <1>2 DEF Stages
<1> QED
  BY <1>3 DEF KV!vars, Stages

\* An operation that ends with an error, or skips a backup, declines the call.
LEMMA Declines ==
  ASSUME TypeOK, NEW c \in Clients, NEW is, Finish(c, is), pc[c] \notin {"idle", "done"},
         is = "error" \/ (is = "skipped" /\ call[c].op = "backup"),
         call[c].op \in KV!Closing \/ UNCHANGED Broken,
         UNCHANGED <<store, call>>
  PROVE  KV!Decline(c)
<1>1. Stages[c] = "called"
  BY DEF Stages, Stage
<1>2. Stages' = [Stages EXCEPT ![c] = "done"]
  BY StageStep DEF Finish
<1>3. Broken' \in IF call[c].op \in KV!Closing THEN BOOLEAN ELSE {Broken}
  BY DEF Broken
<1> QED
  BY <1>1, <1>2, <1>3 DEF Finish, KV!Decline, Stages

\* An operation that ends well, with the effect of its request, succeeds.
LEMMA Succeeds ==
  ASSUME TypeOK, NEW c \in Clients, Goto(c, "done"), pc[c] \notin {"idle", "done"},
         store' = KV!After(store, call[c]),
         answer' = [answer EXCEPT ![c] = [is |-> "ok", shows |-> KV!Shows(store, call[c])]],
         Broken => call[c].op \notin KV!DataOps,
         Broken' = (Broken /\ call[c].op \notin KV!Closing),
         UNCHANGED call
  PROVE  KV!Succeed(c)
<1>1. Stages[c] = "called"
  BY DEF Stages, Stage
<1>2. Stages' = [Stages EXCEPT ![c] = "done"]
  BY StageStep
<1> QED
  BY <1>1, <1>2 DEF KV!Succeed, Stages

\* The operations that are not about values show nothing of the store.
LEMMA PlainSucceeds ==
  ASSUME TypeOK, NEW c \in Clients, Finish(c, "ok"), pc[c] \notin {"idle", "done"},
         call[c].op \in {"backup", "wipe", "close", "setStatusFn"},
         store' = IF call[c].op = "wipe" THEN KV!Empty ELSE store,
         Broken' = (Broken /\ call[c].op \notin KV!Closing),
         UNCHANGED call
  PROVE  KV!Succeed(c)
<1>1. store' = KV!After(store, call[c])
  BY DEF KV!After
<1>2. KV!Outcome("ok") = [is |-> "ok", shows |-> KV!Shows(store, call[c])]
  BY DEF KV!Outcome, KV!Shows
<1>3. call[c].op \notin KV!DataOps
  BY DEF KV!DataOps
<1> QED
  BY <1>1, <1>2, <1>3, Succeeds DEF Finish

\* The steps of an operation belong to its requests: a backup copies a file that
\* it has closed, and a transaction is one of the data operations.
OwnSteps ==
  \A c \in Clients :
    /\ pc[c] \in {"opening", "copy", "copying"} => bdb = "nil"
    /\ pc[c] \in {"copy", "copying"} => call[c].op = "backup"
    /\ pc[c] \in {"opening", "buckets", "tx"} => call[c].op \in DataOps

\* Only Backup gets to FileCopy, so that what is copied answers a backup, and
\* nobody opens the database meanwhile.
LEMMA OwnStepsKept == TypeOK /\ OwnSteps /\ [Next]_vars => OwnSteps'
<1> SUFFICES ASSUME TypeOK, OwnSteps, [Next]_vars PROVE OwnSteps'
  OBVIOUS
<1>1. ASSUME NEW c \in Clients, Call(c) \/ Lock(c) \/ DropValues(c) PROVE OwnSteps'
  BY <1>1 DEF Call, Lock, DropValues, Goto, OwnSteps, TypeOK
<1>2. ASSUME NEW c \in Clients, Step(c) PROVE OwnSteps'
  <2>1. pc[c] \in Inside
    BY <1>2 DEF Step, Return, Disabled, Operate, Open, CreateBuckets, Transact, BackupSkip,
       BackupStart, CopyStart, CopyDone, CopyFail, Wipe, Close, SetStatusFn, At, Inside
  <2>2. \A d \in Clients : d # c => pc'[d] = pc[d] /\ pc[d] \notin Inside
    <3>1. \A d \in Clients : d # c => pc[d] \notin Inside
      BY <2>1, Alone
    <3>2. \E l : Goto(c, l)
      BY <1>2 DEF Step, Return, Disabled, Operate, Open, CreateBuckets, Transact, BackupSkip,
         BackupStart, CopyStart, CopyDone, CopyFail, Wipe, Close, SetStatusFn, Finish
    <3> QED
      BY <3>1, <3>2 DEF Goto, TypeOK
  <2>3. /\ pc'[c] \in {"opening", "copy", "copying"} => bdb' = "nil"
        /\ pc'[c] \in {"copy", "copying"} => call'[c].op = "backup"
        /\ pc'[c] \in {"opening", "buckets", "tx"} => call'[c].op \in DataOps
    BY <1>2 DEF Step, Return, Disabled, Operate, Open, CreateBuckets, Transact, BackupSkip,
       BackupStart, CopyStart, CopyDone, CopyFail, Wipe, Close, SetStatusFn, Finish, Goto, At,
       CloseFile, OwnSteps, TypeOK
  <2> QED
    BY <2>2, <2>3 DEF OwnSteps, Inside
<1>3. CASE Toggle \/ Tick \/ Crash \/ UNCHANGED vars
  BY <1>3 DEF Toggle, Tick, Crash, vars, OwnSteps
<1> QED
  BY <1>1, <1>2, <1>3 DEF Next

\* A new database is an empty map.
LEMMA RefinesInit == Init => KV!Init
<1> SUFFICES ASSUME Init PROVE KV!Init
  OBVIOUS
<1>1. call \in [Clients -> KV!Requests]
  BY DEF Init, KV!Requests, KV!Ops, KV!DataOps, KV!Closing
<1> QED
  BY <1>1 DEF Init, KV!Init, Stage, Broken

\* With a dead handle, or a transaction that fails, nothing is read or changed.
LEMMA TransactMaps ==
  ASSUME {"add", "rm"} \cap Failures = {}, TypeOK, OwnSteps, NEW c \in Clients, Transact(c)
  PROVE  KV!Succeed(c) \/ KV!Decline(c) \/ KV!Swallow(c)
<1>1. pc[c] \notin {"idle", "done"} /\ call[c].op \in DataOps /\ UNCHANGED <<call, Broken>>
  BY DEF Transact, OwnSteps, Broken
<1>2. CASE Finish(c, "error") /\ UNCHANGED store
  BY <1>1, <1>2, Declines
<1>3. CASE /\ bdb = "open"
           /\ store' = KV!After(store, call[c])
           /\ answer' = [answer EXCEPT ![c] = [is |-> "ok", shows |-> KV!Shows(store, call[c])]]
           /\ Goto(c, "done")
  <2>1. ~Broken
    BY <1>3 DEF Broken
  <2>2. Broken' = (Broken /\ call[c].op \notin KV!Closing)
    BY <1>1, <2>1 DEF Broken
  <2> QED
    BY <1>1, <1>3, <2>1, <2>2, Succeeds
<1>4. CASE /\ bdb = "dead" \/ call[c].op \in Failures
           /\ Finish(c, TxError(call[c].op)) /\ UNCHANGED store
  <2>1. CASE call[c].op \notin {"add", "rm"}
    BY <1>2, <1>4, <2>1 DEF TxError
  <2>2. CASE call[c].op \in {"add", "rm"}
    <3>1. Broken /\ Finish(c, "ok")
      BY <1>4, <2>2 DEF TxError, Broken
    <3>2. Stages[c] = "called" /\ Stages' = [Stages EXCEPT ![c] = "done"]
      BY <1>1, <3>1, StageStep DEF Stages, Stage, Finish
    <3> QED
      BY <1>1, <1>4, <2>2, <3>1, <3>2 DEF KV!Swallow, Finish, Stages
  <2> QED
    BY <2>1, <2>2
<1> QED
  BY <1>2, <1>3, <1>4 DEF Transact

\* A backup closes the database, and with it mends a dead one, before it copies.
LEMMA BackupStartMaps ==
  ASSUME TypeOK, NEW c \in Clients, BackupStart(c)
  PROVE  KV!Decline(c) \/ KV!Mend(c)
<1>1. pc[c] \notin {"idle", "done"} /\ call[c].op = "backup" /\ UNCHANGED <<store, call>>
  BY DEF BackupStart, At
<1>2. CASE CloseFails /\ Finish(c, "error")
  BY <1>1, <1>2, Declines DEF KV!Closing
<1>3. CASE CloseFile /\ Goto(c, "copy") /\ UNCHANGED answer
  <2>1. Stages[c] = "called" /\ Stages' = [Stages EXCEPT ![c] = "called"]
    BY <1>1, <1>3, StageStep DEF Stages, Stage
  <2>2. Stages' = Stages
    BY <2>1 DEF Stages
  <2>3. Broken' = FALSE
    BY <1>3 DEF CloseFile, Broken
  <2> QED
    BY <1>1, <1>3, <2>1, <2>2, <2>3 DEF KV!Mend, KV!Closing, Stages
<1> QED
  BY <1>2, <1>3 DEF BackupStart

\* A Wipe or Close that comes to its end mends, one that fails may break.
LEMMA CloseMaps ==
  ASSUME TypeOK, NEW c \in Clients, Wipe(c) \/ Close(c)
  PROVE  KV!Succeed(c) \/ KV!Decline(c)
<1>1. /\ pc[c] \notin {"idle", "done"} /\ call[c].op \in {"wipe", "close"}
      /\ UNCHANGED call /\ call[c].op \in KV!Closing
  BY DEF Wipe, Close, At, KV!Closing
<1>2. CASE /\ CloseFile /\ Finish(c, "ok")
           /\ store' = IF call[c].op = "wipe" THEN KV!Empty ELSE store
  <2>1. Broken' = (Broken /\ call[c].op \notin KV!Closing)
    <3>1. ~Broken'
      BY <1>2 DEF CloseFile, Broken
    <3> QED
      BY <1>1, <3>1 DEF Broken
  <2> QED
    BY <1>1, <1>2, <2>1, PlainSucceeds
<1>3. CASE Finish(c, "error") /\ UNCHANGED store
  BY <1>1, <1>3, Declines
<1> QED
  BY <1>2, <1>3 DEF Wipe, Close, At

\* Every step of the database is a step of the map, or none.
LEMMA RefinesStep ==
  ASSUME {"add", "rm"} \cap Failures = {}, TypeOK, OwnSteps, [Next]_vars
  PROVE  [KV!Next]_(KV!vars)
<1>1. CASE UNCHANGED vars
  BY <1>1 DEF vars, KV!vars, Stage, Broken
<1>2. CASE Toggle \/ Tick
  BY <1>2 DEF Toggle, Tick, KV!vars, Stage, Broken
<1>3. CASE Crash
  BY <1>3 DEF Crash, KV!Next, KV!Crash, Stage, Broken
<1>4. ASSUME NEW c \in Clients, Call(c) PROVE KV!Call(c)
  <2>1. Stages' = [Stages EXCEPT ![c] = "called"]
    BY <1>4, StageStep DEF Call
  <2> QED
    BY <1>4, <2>1 DEF Call, KV!Call, Stages, Stage, Broken
<1>5. ASSUME NEW c \in Clients, Lock(c) PROVE UNCHANGED KV!vars
  BY <1>5, Stutter DEF Lock, Inside, Broken
<1>6. ASSUME NEW c \in Clients, DropValues(c) PROVE UNCHANGED KV!vars
  BY <1>6 DEF DropValues, KV!vars, Stage, Broken
<1>7. ASSUME NEW c \in Clients, Step(c)
      PROVE  \/ KV!Succeed(c) \/ KV!Decline(c) \/ KV!Swallow(c) \/ KV!Mend(c) \/ KV!Return(c)
             \/ UNCHANGED KV!vars
  <2>1. CASE Return(c)
    <3>1. Stages' = [Stages EXCEPT ![c] = "idle"]
      BY <2>1, StageStep DEF Return
    <3> QED
      BY <2>1, <3>1 DEF Return, KV!Return, Stages, Stage, Broken
  <2>2. CASE Disabled(c)
    BY <2>2, Declines DEF Disabled, At, Broken
  <2>3. CASE Operate(c)
    BY <2>3, Stutter DEF Operate, At, Inside, Broken
  <2>4. CASE Open(c)
    <3>1. UNCHANGED Broken
      BY <2>4 DEF Open, OwnSteps, Broken
    <3> QED
      BY <2>4, <3>1, Stutter, Declines DEF Open, Inside
  <2>5. CASE CreateBuckets(c)
    BY <2>5, Stutter, Declines DEF CreateBuckets, Inside, Broken
  <2>6. CASE Transact(c)
    BY <2>6, TransactMaps
  <2>7. CASE BackupSkip(c)
    BY <2>7, Declines DEF BackupSkip, At, Broken
  <2>8. CASE BackupStart(c)
    BY <2>8, BackupStartMaps
  <2>9. CASE CopyStart(c)
    BY <2>9, Stutter, Declines DEF CopyStart, Inside, Broken
  <2>10. CASE CopyDone(c)
    <3>1. call[c].op = "backup" /\ bdb = "nil" /\ bdb' = "nil"
      BY <2>10 DEF CopyDone, OwnSteps
    <3>2. Broken' = (Broken /\ call[c].op \notin KV!Closing)
      BY <3>1 DEF Broken
    <3> QED
      BY <2>10, <3>1, <3>2, PlainSucceeds DEF CopyDone
  <2>11. CASE CopyFail(c)
    BY <2>11, Declines DEF CopyFail, Broken
  <2>12. CASE Wipe(c) \/ Close(c)
    BY <2>12, CloseMaps
  <2>13. CASE SetStatusFn(c)
    <3>1. Broken' = (Broken /\ call[c].op \notin KV!Closing)
      BY <2>13 DEF SetStatusFn, At, Broken, KV!Closing
    <3> QED
      BY <2>13, <3>1, PlainSucceeds DEF SetStatusFn, At
  <2> QED
    BY <1>7, <2>1, <2>2, <2>3, <2>4, <2>5, <2>6, <2>7, <2>8, <2>9, <2>10, <2>11,
       <2>12, <2>13 DEF Step
<1> QED
  BY <1>1, <1>2, <1>3, <1>4, <1>5, <1>6, <1>7 DEF Next, KV!Next

(* As long as no Add or Rm transaction fails of itself, the database is a
   durable map: each call takes effect at once or not at all, across closing,
   reopening, backups and crashes, whichever of these fail.  Changes are lost
   only between a Close of the file that fails and the call that mends it
   (operate, open, close, Backup, Wipe, Close of db.go). *)
THEOREM DatabaseIsKVStore ==
  ASSUME {"add", "rm"} \cap Failures = {}
  PROVE  Spec => ImplementsKVStore
<1>1. Init => OwnSteps
  <2> SUFFICES ASSUME Init, NEW c \in Clients PROVE pc[c] = "idle"
    BY DEF OwnSteps
  <2> QED
    BY DEF Init
<1>2. TypeOK /\ OwnSteps /\ [Next]_vars => [KV!Next]_(KV!vars)
  BY RefinesStep
<1> QED
  BY TypeInit, TypeStep, RefinesInit, OwnStepsKept, <1>1, <1>2, PTL
     DEF Spec, ImplementsKVStore, KV!Spec
==============================================================================
