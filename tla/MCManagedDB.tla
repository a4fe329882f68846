----------------------------- MODULE MCManagedDB -----------------------------
(* Instances of ManagedDB for TLC: a user and a backup ticker. *)
EXTENDS ManagedDB, TLC
CONSTANTS u1, ticker

Request(op, k, v) == [op |-> op, key |-> k, val |-> v]
OneKey == CHOOSE k \in Keys : TRUE
OneValue == CHOOSE v \in Values : TRUE

\* Keys and values matter only to the requests that use them.
Adds == {Request("add", k, v) : k \in Keys, v \in Values}
Plain(ops) == {Request(op, OneKey, OneValue) : op \in ops}

\* A user with every operation, and the ticker.  With one key getAll reads
\* what get would.
AllCalls ==
  (u1 :> Adds \cup Plain({"rm", "getAll", "wipe", "close", "setStatusFn"})) @@
  (ticker :> Plain({"backup"}))

\* A user that writes and reads, and the ticker.
FewCalls ==
  (u1 :> Adds \cup Plain({"getAll"})) @@ (ticker :> Plain({"backup"}))
==============================================================================
