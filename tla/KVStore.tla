------------------------------- MODULE KVStore -------------------------------
(***************************************************************************)
(* What a database Handle (crypto/db/handle.go) promises its callers: a    *)
(* durable map from keys to values.  Each call takes effect at one moment  *)
(* between the call and its return, or fails without any effect, and a     *)
(* crash of the process changes nothing but the calls it cuts short.       *)
(*                                                                         *)
(* One exception is stated: a call that closes the store may fail and leave*)
(* it broken.  Until another such call, or a restart, has mended it nothing*)
(* is read or changed, and an add or rm may be answered "ok" all the same. *)
(***************************************************************************)
CONSTANTS
  Clients,  \* the goroutines that call the Handle, a backup ticker among them
  Keys, Values,
  Absent,   \* what a key without a value reads as, and no value
  MayCall   \* the set of requests each client may make

DataOps == {"add", "rm", "get", "getAll"}
Closing == {"backup", "wipe", "close"}
Ops == DataOps \cup Closing \cup {"setStatusFn"}
Requests == [op : Ops, key : Keys, val : Values]

Contents == [Keys -> Values \cup {Absent}]
Empty == [k \in Keys |-> Absent]

\* An outcome and the part of the store it shows.
Answers == [is : {"none", "ok", "skipped", "error"}, shows : Contents]
Outcome(is) == [is |-> is, shows |-> Empty]

VARIABLES
  store,   \* the map
  stage,   \* of each client: "idle", "called" or "done"
  call,    \* its latest request
  answer,  \* its latest answer
  broken   \* a call that closes the store has failed
vars == <<store, stage, call, answer, broken>>

\* The store after request r, and what r's answer shows of store s.
After(s, r) ==
  CASE r.op = "add"  -> [s EXCEPT ![r.key] = r.val]
    [] r.op = "rm"   -> [s EXCEPT ![r.key] = Absent]
    [] r.op = "wipe" -> Empty
    [] OTHER -> s

Shows(s, r) ==
  CASE r.op = "get"    -> [Empty EXCEPT ![r.key] = s[r.key]]
    [] r.op = "getAll" -> s
    [] OTHER -> Empty

Init ==
  /\ store = Empty
  /\ stage = [c \in Clients |-> "idle"]
  /\ call \in [Clients -> Requests]
  /\ answer = [c \in Clients |-> Outcome("none")]
  /\ broken = FALSE

Call(c) ==
  /\ stage[c] = "idle"
  /\ \E r \in MayCall[c] : call' = [call EXCEPT ![c] = r]
  /\ stage' = [stage EXCEPT ![c] = "called"]
  /\ UNCHANGED <<store, answer, broken>>

Succeed(c) ==
  /\ stage[c] = "called"
  /\ broken => call[c].op \notin DataOps
  /\ store' = After(store, call[c])
  /\ answer' = [answer EXCEPT ![c] = [is |-> "ok", shows |-> Shows(store, call[c])]]
  /\ stage' = [stage EXCEPT ![c] = "done"]
  /\ broken' = (broken /\ call[c].op \notin Closing)
  /\ UNCHANGED call

\* A call that fails, or a backup that had nothing to do, has no effect on the
\* map.  One that closes the store may break or mend it.
Decline(c) ==
  /\ stage[c] = "called"
  /\ \E is \in {"error"} \cup (IF call[c].op = "backup" THEN {"skipped"} ELSE {}) :
       answer' = [answer EXCEPT ![c] = Outcome(is)]
  /\ stage' = [stage EXCEPT ![c] = "done"]
  /\ broken' \in IF call[c].op \in Closing THEN BOOLEAN ELSE {broken}
  /\ UNCHANGED <<store, call>>

\* The exception: a change that is acknowledged and not made.
Swallow(c) ==
  /\ stage[c] = "called" /\ broken
  /\ call[c].op \in {"add", "rm"}
  /\ answer' = [answer EXCEPT ![c] = Outcome("ok")]
  /\ stage' = [stage EXCEPT ![c] = "done"]
  /\ UNCHANGED <<store, call, broken>>

\* A call that closes the store mends it, and then goes on.
Mend(c) ==
  /\ stage[c] = "called" /\ call[c].op \in Closing
  /\ broken' = FALSE
  /\ UNCHANGED <<store, stage, call, answer>>

Return(c) ==
  /\ stage[c] = "done"
  /\ stage' = [stage EXCEPT ![c] = "idle"]
  /\ answer' = [answer EXCEPT ![c] = Outcome("none")]
  /\ UNCHANGED <<store, call, broken>>

Crash ==
  /\ broken' = FALSE
  /\ stage' = [c \in Clients |-> "idle"]
  /\ answer' = [c \in Clients |-> Outcome("none")]
  /\ UNCHANGED <<store, call>>

Next ==
  \/ Crash
  \/ \E c \in Clients : Call(c) \/ Succeed(c) \/ Decline(c) \/ Swallow(c) \/ Mend(c) \/ Return(c)

Spec == Init /\ [][Next]_vars
==============================================================================
