------------------------ MODULE MultiplexerDelivery ------------------------
(***************************************************************************)
(* The goroutines and channels of the bot implement Delivery: the pipe of  *)
(* a connection is what the three channels between the agency and its      *)
(* conversation hold for it, the oldest first.                             *)
(***************************************************************************)
EXTENDS Multiplexer, FiniteSets

\* The places of a channel that hold statuses of connection c, and their order.
Mine(s, c) == {i \in DOMAIN s : s[i][1] = c}
Rank(s, c, i) == Cardinality({j \in Mine(s, c) : j <= i})
Nth(s, c, k) == CHOOSE i \in Mine(s, c) : Rank(s, c, i) = k

\* The part of a channel that belongs to connection c.
Of(s, c) == [k \in 1 .. Cardinality(Mine(s, c)) |-> s[Nth(s, c, k)]]

Pipe == [c \in Connections |->
           Of(StatusChan[c], c) \o Of(Status, c) \o Of(statusCh, c)]

Accepted == {p \in Protocols : p[2] <= started[p[1]]} \ unnotified

Offered == {c \in Connections : StatusChan[c] # <<>>}

Ended == "status" \in closed

Promise == INSTANCE Delivery
             WITH accepted <- Accepted, pipe <- Pipe, offered <- Offered, ended <- Ended

\* No status is lost, duplicated, reordered or given to another conversation on
\* its way through Bot.Run, the multiplexer and the conversation's channel.
ImplementsDelivery == Promise!Spec
=============================================================================
