-------------------------------- MODULE MemDB --------------------------------
(***************************************************************************)
(* The memory database of crypto/db/mem.go, which New of db.go gives out   *)
(* for a file name that starts with MEMORY_.  It has the Handle of the     *)
(* managed database but no file: one bucket is a Go map behind its own     *)
(* lock, which is taken after the status function has been asked.          *)
(* Buckets share nothing, so one is modelled.                              *)
(***************************************************************************)
CONSTANTS Clients, Keys, Values, Absent, MayCall   \* see KVStore

VARIABLES
  on,       \* what the status function answers
  holder,   \* the clients that hold the lock of the bucket
  pc,       \* "idle", "called", "lock", "map" (using the map) or "done"
  call, answer,
  store     \* the map
vars == <<on, holder, pc, call, answer, store>>

Stage(c) == IF pc[c] \in {"idle", "done"} THEN pc[c] ELSE "called"

\* Wipe checks the status function and does nothing: it is seen as a Close.
Seen(r) == IF r.op = "wipe" THEN [r EXCEPT !.op = "close"] ELSE r
KV == INSTANCE KVStore WITH
        stage <- [c \in Clients |-> Stage(c)],
        call <- [c \in Clients |-> Seen(call[c])],
        MayCall <- [c \in Clients |-> {Seen(r) : r \in MayCall[c]}],
        broken <- FALSE

ASSUME MayCallAssumption == MayCall \in [Clients -> SUBSET KV!Requests]

DataOps == {"add", "rm", "get", "getAll"}

\* Whoever uses the map holds the lock.
TypeOK ==
  /\ on \in BOOLEAN
  /\ holder \in SUBSET Clients
  /\ pc \in [Clients -> {"idle", "called", "lock", "map", "done"}]
  /\ call \in [Clients -> KV!Requests]
  /\ answer \in [Clients -> KV!Answers]
  /\ store \in KV!Contents
  /\ \A c \in Clients : pc[c] = "map" => c \in holder

Init ==
  /\ on = TRUE /\ holder = {} /\ store = KV!Empty
  /\ pc = [c \in Clients |-> "idle"]
  /\ call \in [Clients -> {[op |-> "close", key |-> k, val |-> v] : k \in Keys, v \in Values}]
  /\ answer = [c \in Clients |-> KV!Outcome("none")]

Goto(c, l) == pc' = [pc EXCEPT ![c] = l]
Finish(c, is) ==
  /\ answer' = [answer EXCEPT ![c] = KV!Outcome(is)]
  /\ Goto(c, "done")

Call(c) ==
  /\ pc[c] = "idle"
  /\ \E r \in MayCall[c] : call' = [call EXCEPT ![c] = r]
  /\ Goto(c, "called")
  /\ UNCHANGED <<on, holder, answer, store>>

\* Everything but Close and SetStatusFn asks the status function first.
CheckIsOn(c) ==
  /\ pc[c] = "called"
  /\ call[c].op \notin {"close", "setStatusFn"}
  /\ \/ ~on /\ Finish(c, "error")
     \/ on /\ call[c].op \in DataOps /\ Goto(c, "lock") /\ UNCHANGED answer
     \/ on /\ call[c].op = "backup" /\ Finish(c, "skipped")
     \/ on /\ call[c].op = "wipe" /\ Finish(c, "ok")
  /\ UNCHANGED <<on, holder, call, store>>

Close(c) ==
  /\ pc[c] = "called" /\ call[c].op = "close"
  /\ Finish(c, "ok")
  /\ UNCHANGED <<on, holder, call, store>>

SetStatusFn(c) ==
  /\ pc[c] = "called" /\ call[c].op = "setStatusFn"
  /\ on' \in BOOLEAN
  /\ Finish(c, "ok")
  /\ UNCHANGED <<holder, call, store>>

\* MUTANT of Lock: the bucket is not locked for reading.
Lock_NotForReads(c) ==
  /\ pc[c] = "lock"
  /\ holder = {} \/ call[c].op \in {"get", "getAll"}
  /\ holder' = holder \cup {c}
  /\ Goto(c, "map")
  /\ UNCHANGED <<on, call, answer, store>>

\* MUTANT of Lock: the lock is awaited and not taken.
Lock_Peeks(c) ==
  /\ pc[c] = "lock" /\ holder = {}
  /\ Goto(c, "map")
  /\ UNCHANGED <<on, holder, call, answer, store>>

Lock(c) ==
  /\ pc[c] = "lock" /\ holder = {}
  /\ holder' = {c}
  /\ Goto(c, "map")
  /\ UNCHANGED <<on, call, answer, store>>

\* MUTANT of UseMap: Rm forgets the value but not the key.
UseMap_KeepsKey(c) ==
  /\ pc[c] = "map"
  /\ store' = IF call[c].op = "rm" THEN store ELSE KV!After(store, call[c])
  /\ answer' = [answer EXCEPT ![c] = [is |-> "ok", shows |-> KV!Shows(store, call[c])]]
  /\ Goto(c, "done")
  /\ UNCHANGED <<on, holder, call>>

\* The map is used; the deferred Unlock comes with Return.
UseMap(c) ==
  /\ pc[c] = "map"
  /\ store' = KV!After(store, call[c])
  /\ answer' = [answer EXCEPT ![c] = [is |-> "ok", shows |-> KV!Shows(store, call[c])]]
  /\ Goto(c, "done")
  /\ UNCHANGED <<on, holder, call>>

Return(c) ==
  /\ pc[c] = "done"
  /\ Goto(c, "idle")
  /\ holder' = holder \ {c}
  /\ answer' = [answer EXCEPT ![c] = KV!Outcome("none")]
  /\ UNCHANGED <<on, call, store>>

Toggle ==
  /\ on' = ~on
  /\ UNCHANGED <<holder, pc, call, answer, store>>

Next ==
  \/ Toggle
  \/ \E c \in Clients :
       Call(c) \/ CheckIsOn(c) \/ Close(c) \/ SetStatusFn(c) \/ Lock(c) \/ UseMap(c) \/ Return(c)

Spec == Init /\ [][Next]_vars
-----------------------------------------------------------------------------
(* To its callers the memory database is the same map as the managed one, but
   for a crash, and for Wipe, which is no more than a Close here (the Handle methods of crypto/db/mem.go). *)
ImplementsKVStore == KV!Spec

(* Two goroutines are never in the map at the same time, one of them writing:
   Go's runtime ends the process on that (the bucket locks of mem.go). *)
MapExclusive ==
  \A c, d \in Clients :
    c # d /\ pc[c] = "map" /\ pc[d] = "map" => {call[c].op, call[d].op} \cap {"add", "rm"} = {}
==============================================================================
