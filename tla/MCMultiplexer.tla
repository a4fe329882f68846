--------------------------- MODULE MCMultiplexer ---------------------------
(* Instances of Multiplexer for TLC. *)
EXTENDS MultiplexerDelivery, TLC

\* Machines that talk to the other end of the connection only.
FrontBatches == {<<>>, <<"message">>, <<"protocol">>}

\* Machines that may do anything in one transition, in small doses.
AllBatches == {<<>>, <<"message">>, <<"message", "backend">>,
               <<"protocol", "transient">>}

\* Machines that pass what they hear to the backend machine.
BackBatches == {<<>>, <<"backend">>}

Sym == Permutations(Connections)
=============================================================================
