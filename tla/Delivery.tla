------------------------------ MODULE Delivery ------------------------------
(***************************************************************************)
(* What a chat bot promises about the statuses of its connections: each    *)
(* connection has a pipe to its conversation; what the agency puts in is   *)
(* offered to the conversation of that connection and to no other, in      *)
(* order, and leaves the pipe only when the conversation takes it. Only    *)
(* the end of the stream may cut off the last ones.                        *)
(***************************************************************************)
EXTENDS Naturals, Sequences

CONSTANTS Connections, Protocols

VARIABLES
  accepted, \* statuses the agency has sent
  pipe,     \* those the conversation of a connection has yet to take
  offered,  \* connections whose conversation is offered its oldest status
  ended     \* the agency sends no more

dvars == <<accepted, pipe, offered, ended>>

Init ==
  /\ accepted = {}
  /\ pipe = [c \in Connections |-> <<>>]
  /\ offered = {}
  /\ ended = FALSE

Accept(c, p) ==
  /\ ~ended
  /\ p \notin accepted
  /\ accepted' = accepted \cup {p}
  /\ pipe' = [pipe EXCEPT ![c] = Append(@, p)]
  /\ UNCHANGED <<offered, ended>>

Offer(c) ==
  /\ pipe[c] # <<>> /\ c \notin offered
  /\ offered' = offered \cup {c}
  /\ UNCHANGED <<accepted, pipe, ended>>

Take(c) ==
  /\ c \in offered
  /\ offered' = offered \ {c}
  /\ pipe' = [pipe EXCEPT ![c] = Tail(@)]
  /\ UNCHANGED <<accepted, ended>>

\* What has been offered can still be taken.
End ==
  /\ ~ended
  /\ ended' = TRUE
  /\ DOMAIN pipe' = Connections
  /\ \A c \in Connections :
       \E n \in (IF c \in offered THEN 1 ELSE 0)..Len(pipe[c]) : pipe'[c] = SubSeq(pipe[c], 1, n)
  /\ UNCHANGED <<accepted, offered>>

Next ==
  \/ \E c \in Connections :
       Offer(c) \/ Take(c) \/ \E p \in Protocols : p[1] = c /\ Accept(c, p)
  \/ End

Spec == Init /\ [][Next]_dvars
=============================================================================
