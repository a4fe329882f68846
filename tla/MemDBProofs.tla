----------------------------- MODULE MemDBProofs -----------------------------
(***************************************************************************)
(* Proofs about MemDB, for any clients, keys, values and requests: the     *)
(* types, the exclusion in the map, and the map it is to its callers.      *)
(***************************************************************************)
EXTENDS MemDB, TLAPS

\* An outcome without contents is an answer.
LEMMA OutcomeType ==
  ASSUME NEW is \in {"none", "ok", "skipped", "error"}
  PROVE  KV!Outcome(is) \in KV!Answers
BY DEF KV!Outcome, KV!Answers, KV!Empty, KV!Contents

\* The map stays a map whatever the request.
LEMMA AfterType ==
  ASSUME NEW s \in KV!Contents, NEW r \in KV!Requests
  PROVE  /\ KV!After(s, r) \in KV!Contents
         /\ [is |-> "ok", shows |-> KV!Shows(s, r)] \in KV!Answers
BY DEF KV!After, KV!Shows, KV!Answers, KV!Requests, KV!Empty, KV!Contents

\* Only the holder uses the map: the lock is held by one client at most.
HolderAlone == \A c \in Clients : pc[c] = "map" => holder = {c}
MapInv == TypeOK /\ HolderAlone
-----------------------------------------------------------------------------
\* NewMemDB makes a map that nobody uses.
LEMMA InvInit == Init => MapInv
<1> SUFFICES ASSUME Init PROVE MapInv
  OBVIOUS
<1>1. call \in [Clients -> KV!Requests]
  BY DEF Init, KV!Requests, KV!Ops, KV!DataOps, KV!Closing
<1>2. store \in KV!Contents
  BY DEF Init, KV!Empty, KV!Contents
<1>3. answer \in [Clients -> KV!Answers]
  BY OutcomeType DEF Init
<1> QED
  BY <1>1, <1>2, <1>3 DEF Init, MapInv, TypeOK, HolderAlone

\* A client that ends its call without having had the lock leaves it alone.
LEMMA FinishInv ==
  ASSUME MapInv, NEW c \in Clients, NEW is \in {"none", "ok", "skipped", "error"},
         Finish(c, is), UNCHANGED <<holder, call, store>>, on' \in BOOLEAN
  PROVE  MapInv'
BY OutcomeType DEF Finish, Goto, MapInv, TypeOK, HolderAlone

\* Every method keeps the types and the exclusion.
LEMMA InvStep == MapInv /\ [Next]_vars => MapInv'
<1> SUFFICES ASSUME MapInv, [Next]_vars PROVE MapInv'
  OBVIOUS
<1>1. CASE UNCHANGED vars
  BY <1>1 DEF vars, MapInv, TypeOK, HolderAlone
<1>2. CASE Toggle
  BY <1>2 DEF Toggle, MapInv, TypeOK, HolderAlone
<1>3. ASSUME NEW c \in Clients, Call(c) PROVE MapInv'
  <2>1. call' \in [Clients -> KV!Requests]
    BY <1>3, MayCallAssumption DEF Call, MapInv, TypeOK
  <2> QED
    BY <1>3, <2>1 DEF Call, Goto, MapInv, TypeOK, HolderAlone
<1>4. ASSUME NEW c \in Clients, CheckIsOn(c) PROVE MapInv'
  <2>1. CASE Goto(c, "lock") /\ UNCHANGED answer
    BY <1>4, <2>1 DEF CheckIsOn, Goto, MapInv, TypeOK, HolderAlone
  <2>2. CASE \E is \in {"ok", "skipped", "error"} : Finish(c, is)
    BY <1>4, <2>2, FinishInv DEF CheckIsOn, MapInv, TypeOK
  <2> QED
    BY <1>4, <2>1, <2>2 DEF CheckIsOn
<1>5. ASSUME NEW c \in Clients, Close(c) PROVE MapInv'
  BY <1>5, FinishInv DEF Close, MapInv, TypeOK
<1>6. ASSUME NEW c \in Clients, SetStatusFn(c) PROVE MapInv'
  BY <1>6, FinishInv DEF SetStatusFn
<1>7. ASSUME NEW c \in Clients, Lock(c) PROVE MapInv'
  BY <1>7 DEF Lock, Goto, MapInv, TypeOK, HolderAlone
<1>8. ASSUME NEW c \in Clients, UseMap(c) PROVE MapInv'
  <2>1. call[c] \in KV!Requests /\ store \in KV!Contents
    BY DEF MapInv, TypeOK
  <2>2. store' \in KV!Contents /\ answer' \in [Clients -> KV!Answers]
    BY <1>8, <2>1, AfterType DEF UseMap, MapInv, TypeOK
  <2>3. \A d \in Clients : pc'[d] = "map" => d # c /\ pc[d] = "map"
    BY <1>8 DEF UseMap, Goto, MapInv, TypeOK
  <2> QED
    BY <1>8, <2>2, <2>3 DEF UseMap, Goto, MapInv, TypeOK, HolderAlone
<1>9. ASSUME NEW c \in Clients, Return(c) PROVE MapInv'
  BY <1>9, OutcomeType DEF Return, Goto, MapInv, TypeOK, HolderAlone
<1> QED
  BY <1>1, <1>2, <1>3, <1>4, <1>5, <1>6, <1>7, <1>8, <1>9 DEF Next

(* The types of the variables, and that whoever uses the map holds its lock
   (the methods of mem.go). *)
THEOREM TypeCorrect == Spec => []TypeOK
BY InvInit, InvStep, PTL DEF Spec, MapInv

(* No goroutine is in a bucket's map while another one writes it, however
   many there are (the bucket locks of mem.go). *)
THEOREM OneInTheMap == Spec => []MapExclusive
<1>1. MapInv => MapExclusive
  BY DEF MapInv, HolderAlone, MapExclusive
<1> QED
  BY <1>1, InvInit, InvStep, PTL DEF Spec
-----------------------------------------------------------------------------
(* The memory database implements KVStore.                                   *)

Stages == [c \in Clients |-> Stage(c)]
Calls == [c \in Clients |-> Seen(call[c])]

\* The stages follow the moves between them.
LEMMA StageStep ==
  ASSUME TypeOK, NEW c \in Clients, NEW l \in {"idle", "called", "done"}, Goto(c, l)
  PROVE  Stages' = [Stages EXCEPT ![c] = l]
BY DEF Stages, Stage, Goto, TypeOK

\* What is seen of the calls does not change with the rest.
LEMMA SameCalls == UNCHANGED call => UNCHANGED Calls
BY DEF Calls

\* A client that goes on inside its call is not seen.
LEMMA Stutter ==
  ASSUME TypeOK, NEW c \in Clients, NEW l \in {"lock", "map"}, Goto(c, l),
         pc[c] \in {"called", "lock"}, UNCHANGED <<store, call, answer>>
  PROVE  UNCHANGED KV!vars
<1>1. \A d \in Clients : Stage(d)' = Stage(d)
  BY DEF Stage, Goto, TypeOK
<1> QED
  BY <1>1 DEF KV!vars

\* A call that ends with an error, or a skipped backup, is declined.
LEMMA Declines ==
  ASSUME TypeOK, NEW c \in Clients, pc[c] = "called", NEW is \in {"error", "skipped"},
         is = "skipped" => call[c].op = "backup", Finish(c, is), UNCHANGED <<store, call>>
  PROVE  KV!Decline(c)
<1>1. Stages' = [Stages EXCEPT ![c] = "done"]
  BY StageStep DEF Finish
<1>2. Stages[c] = "called"
  BY DEF Stages, Stage
<1>3. is = "skipped" => Calls[c].op = "backup"
  BY DEF Calls, Seen
<1>4. UNCHANGED Calls
  BY SameCalls
<1> QED
  BY <1>1, <1>2, <1>3, <1>4 DEF KV!Decline, Finish, Stages, Calls

\* An operation that has no effect on the map succeeds without one.
LEMMA PlainSucceeds ==
  ASSUME TypeOK, NEW c \in Clients, pc[c] = "called", Finish(c, "ok"), UNCHANGED <<store, call>>,
         call[c].op \in {"close", "setStatusFn", "wipe"}
  PROVE  KV!Succeed(c)
<1>1. Stages' = [Stages EXCEPT ![c] = "done"]
  BY StageStep DEF Finish
<1>2. Stages[c] = "called"
  BY DEF Stages, Stage
<1>3. call[c] \in KV!Requests
  BY DEF TypeOK
<1>4. Calls[c].op \in {"close", "setStatusFn"}
  BY <1>3 DEF Calls, Seen, KV!Requests
<1>5. KV!After(store, Calls[c]) = store /\ KV!Shows(store, Calls[c]) = KV!Empty
  BY <1>4 DEF KV!After, KV!Shows
<1>6. UNCHANGED Calls
  BY SameCalls
<1> QED
  BY <1>1, <1>2, <1>5, <1>6 DEF KV!Succeed, Finish, KV!Outcome, Stages, Calls

\* The use of the map is the moment at which the call takes effect.
LEMMA UseMapSucceeds ==
  ASSUME TypeOK, NEW c \in Clients, UseMap(c), call[c].op # "wipe"
  PROVE  KV!Succeed(c)
<1>1. Stages' = [Stages EXCEPT ![c] = "done"]
  BY StageStep DEF UseMap
<1>2. Stages[c] = "called"
  BY DEF UseMap, Stages, Stage
<1>3. Calls[c] = call[c]
  BY DEF Calls, Seen
<1>4. UNCHANGED Calls
  BY SameCalls DEF UseMap
<1> QED
  BY <1>1, <1>2, <1>3, <1>4 DEF KV!Succeed, UseMap, Stages, Calls

\* Whoever waits for the lock of the map, or uses it, has a call for it.
ForTheMap == \A c \in Clients : pc[c] \in {"lock", "map"} => call[c].op \in DataOps

\* Only a call for the map goes to its lock.
LEMMA ForTheMapStep == TypeOK /\ ForTheMap /\ [Next]_vars => ForTheMap'
<1> SUFFICES ASSUME TypeOK, ForTheMap, [Next]_vars PROVE ForTheMap'
  OBVIOUS
<1>1. CASE UNCHANGED vars \/ Toggle
  BY <1>1 DEF vars, Toggle, ForTheMap
<1>2. ASSUME NEW c \in Clients, Call(c) PROVE ForTheMap'
  <2>1. \A d \in Clients : d # c => call'[d] = call[d] /\ pc'[d] = pc[d]
    BY <1>2 DEF Call, Goto, TypeOK
  <2>2. pc'[c] = "called"
    BY <1>2 DEF Call, Goto, TypeOK
  <2> QED
    BY <2>1, <2>2 DEF ForTheMap
<1>3. ASSUME NEW c \in Clients,
             CheckIsOn(c) \/ Close(c) \/ SetStatusFn(c) \/ Lock(c) \/ UseMap(c) \/ Return(c)
      PROVE  ForTheMap'
  BY <1>3 DEF CheckIsOn, Close, SetStatusFn, Lock, UseMap, Return, Finish, Goto, ForTheMap, TypeOK
<1> QED
  BY <1>1, <1>2, <1>3 DEF Next

\* A new memory database is a new map.
LEMMA RefinesInit == Init => KV!Init
<1> SUFFICES ASSUME Init PROVE KV!Init
  OBVIOUS
<1>1. Calls \in [Clients -> KV!Requests]
  BY DEF Init, Calls, Seen, KV!Requests, KV!Ops, KV!DataOps, KV!Closing
<1> QED
  BY <1>1 DEF Init, KV!Init, Stage, Calls

\* Every step of the memory database is a step of the map, or none.
LEMMA RefinesStep ==
  ASSUME TypeOK, ForTheMap, [Next]_vars
  PROVE  [KV!Next]_(KV!vars)
<1>1. CASE UNCHANGED vars
  BY <1>1 DEF vars, KV!vars, Stage
<1>2. CASE Toggle
  BY <1>2 DEF Toggle, KV!vars, Stage
<1>3. ASSUME NEW c \in Clients, Call(c) PROVE KV!Call(c)
  <2>1. Stages' = [Stages EXCEPT ![c] = "called"] /\ Stages[c] = "idle"
    BY <1>3, StageStep DEF Call, Stages, Stage
  <2>2. PICK r \in MayCall[c] : call' = [call EXCEPT ![c] = r]
    BY <1>3 DEF Call
  <2>3. Calls' = [Calls EXCEPT ![c] = Seen(r)]
    BY <2>2 DEF Calls, TypeOK
  <2> QED
    BY <1>3, <2>1, <2>2, <2>3 DEF Call, KV!Call, Stages, Calls
<1>4. ASSUME NEW c \in Clients, CheckIsOn(c)
      PROVE  KV!Succeed(c) \/ KV!Decline(c) \/ UNCHANGED KV!vars
  BY <1>4, Declines, PlainSucceeds, Stutter DEF CheckIsOn
<1>5. ASSUME NEW c \in Clients, Close(c) \/ SetStatusFn(c) PROVE KV!Succeed(c)
  BY <1>5, PlainSucceeds DEF Close, SetStatusFn
<1>6. ASSUME NEW c \in Clients, Lock(c) PROVE UNCHANGED KV!vars
  BY <1>6, Stutter DEF Lock
<1>7. ASSUME NEW c \in Clients, UseMap(c) PROVE KV!Succeed(c)
  BY <1>7, UseMapSucceeds DEF UseMap, ForTheMap, DataOps
<1>8. ASSUME NEW c \in Clients, Return(c) PROVE KV!Return(c)
  <2>1. Stages' = [Stages EXCEPT ![c] = "idle"] /\ Stages[c] = "done"
    BY <1>8, StageStep DEF Return, Stages, Stage
  <2>2. UNCHANGED Calls
    BY <1>8, SameCalls DEF Return
  <2> QED
    BY <1>8, <2>1, <2>2 DEF Return, KV!Return, Stages, Calls
<1> QED
  BY <1>1, <1>2, <1>3, <1>4, <1>5, <1>6, <1>7, <1>8 DEF Next, KV!Next

(* To its callers the memory database is a map on which each call takes effect
   at once or not at all, however the status function changes in between; its
   Wipe counts as a Close (the Handle methods of mem.go). *)
THEOREM MemoryIsKVStore == Spec => ImplementsKVStore
<1>1. Init => ForTheMap
  BY DEF Init, ForTheMap
<1> QED
  BY InvInit, InvStep, RefinesInit, RefinesStep, ForTheMapStep, <1>1, PTL
     DEF Spec, MapInv, ImplementsKVStore, KV!Spec
==============================================================================
