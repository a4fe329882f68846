------------------------------- MODULE MCMemDB -------------------------------
(* Instances of MemDB for TLC: two users with every operation. *)
EXTENDS MemDB, TLC
CONSTANTS u1, u2

Request(op, k, v) == [op |-> op, key |-> k, val |-> v]
OneKey == CHOOSE k \in Keys : TRUE
OneValue == CHOOSE v \in Values : TRUE
Plain(ops) == {Request(op, OneKey, OneValue) : op \in ops}
KeyCalls == {Request("add", k, v) : k \in Keys, v \in Values}
              \cup {Request(op, k, OneValue) : op \in {"rm", "get"}, k \in Keys}

AllCalls ==
  (u1 :> KeyCalls \cup Plain({"getAll", "backup", "close"})) @@
  (u2 :> KeyCalls \cup Plain({"getAll", "wipe", "setStatusFn"}))
==============================================================================
