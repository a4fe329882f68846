-------------------------------- MODULE MCCalls --------------------------------
(* A server and a client of another process.                                 *)
EXTENDS Calls

MCConfigs ==
  { [tls |-> TRUE, JWTSecret |-> "secret", NoAuthorization |-> FALSE, override |-> FALSE],
    [tls |-> FALSE, JWTSecret |-> None, NoAuthorization |-> TRUE, override |-> TRUE],
    [tls |-> TRUE, JWTSecret |-> None, NoAuthorization |-> FALSE, override |-> TRUE] }
MCOthers == {<<"DevOpsService", "Enter">>, <<"AgentService", "CreateInvitation">>}
==============================================================================
