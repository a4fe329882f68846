------------------------------- MODULE Services -------------------------------
(***************************************************************************)
(* The services of the agency and their messages, as the generated code of *)
(* grpc/agency/v1 and grpc/ops/v1 declares them, and the protocols that the*)
(* client functions start (agency/client).  Of a message only the fields   *)
(* are kept that somebody decides on; attributes, labels and texts are not.*)
(***************************************************************************)

None == "" \* the empty string

\* Protocol_Type, Protocol_Role and ProtocolState_State.
ProtocolTypes ==
  {"NONE", "DIDEXCHANGE", "ISSUE_CREDENTIAL", "PRESENT_PROOF", "TRUST_PING", "BASIC_MESSAGE"}
Roles == {"UNKNOWN", "INITIATOR", "ADDRESSEE", "RESUMER"}
States == {"RUNNING", "OK", "ERR", "WAIT_ACTION", "ACK", "NACK"}

\* The message that starts a protocol: on a connection, or with an invitation
\* to make one.
ProtocolOf(typeID, role, connectionID, invitation) ==
  [typeID |-> typeID, role |-> role, connectionID |-> connectionID, invitation |-> invitation]
Protocols(invitations) ==
  [typeID : ProtocolTypes, role : Roles, connectionID : invitations \cup {None},
   invitation : invitations \cup {None}]

\* How a started protocol is named, the state it tells, and that state as the
\* agency's hook tells it, with the connection.
ProtocolID(typeID, role, ID) == [typeID |-> typeID, role |-> role, ID |-> ID]
ProtocolState(protocolID, state) == [protocolID |-> protocolID, state |-> state]
ProtocolStatus(state) == [state |-> state]
AgencyStatus(status, connectionID) == [protocolStatus |-> status, connectionID |-> connectionID]

\* The methods of the services: what they take, what they answer and whether
\* the answer is a stream.
Unary(in, out) == [in |-> in, out |-> out, streams |-> FALSE]
Stream(in, out) == [in |-> in, out |-> out, streams |-> TRUE]

ProtocolService ==
  [ Run     |-> Stream("Protocol", "ProtocolState"),
    Start   |-> Unary("Protocol", "ProtocolID"),
    Status  |-> Unary("ProtocolID", "ProtocolStatus"),
    Resume  |-> Unary("ProtocolState", "ProtocolID"),
    Release |-> Unary("ProtocolID", "ProtocolID") ]

AgentService ==
  [ Listen           |-> Stream("ClientID", "AgentStatus"),
    Wait             |-> Stream("ClientID", "Question"),
    Give             |-> Unary("Answer", "ClientID"),
    CreateInvitation |-> Unary("InvitationBase", "Invitation"),
    Ping             |-> Unary("PingMsg", "PingMsg"),
    CreateSchema     |-> Unary("SchemaCreate", "Schema"),
    CreateCredDef    |-> Unary("CredDefCreate", "CredDef"),
    GetSchema        |-> Unary("Schema", "SchemaData"),
    GetCredDef       |-> Unary("CredDef", "CredDefData"),
    Enter            |-> Unary("ModeCmd", "ModeCmd") ]

AgencyService ==
  [PSMHook |-> Stream("DataHook", "AgencyStatus"), Onboard |-> Unary("Onboarding", "OnboardResult")]
DevOpsService == [Enter |-> Unary("Cmd", "CmdReturn")]

\* A method is named by its service and its own name, as in its path.
MethodOf(path) ==
  CASE path[1] = "ProtocolService" -> ProtocolService[path[2]]
    [] path[1] = "AgentService"    -> AgentService[path[2]]
    [] path[1] = "AgencyService"   -> AgencyService[path[2]]
    [] path[1] = "DevOpsService"   -> DevOpsService[path[2]]
-----------------------------------------------------------------------------
(* The protocols a Pairwise starts on its connection, all of them by Run, or *)
(* by Start in the package async.                                            *)

Issue(id) == ProtocolOf("ISSUE_CREDENTIAL", "INITIATOR", id, None)
ProposeIssue(id) == ProtocolOf("ISSUE_CREDENTIAL", "ADDRESSEE", id, None)
ReqProof(id) == ProtocolOf("PRESENT_PROOF", "INITIATOR", id, None)
ProposeProof(id) == ProtocolOf("PRESENT_PROOF", "ADDRESSEE", id, None)
Ping(id) == ProtocolOf("TRUST_PING", "INITIATOR", id, None)
BasicMessage(id) == ProtocolOf("BASIC_MESSAGE", "INITIATOR", id, None)

\* doConnection takes either role, the Connection of async only one.
Connection(invitation, role) == ProtocolOf("DIDEXCHANGE", role, None, invitation)

RunStarters(id, invitations) ==
  {Issue(id), ProposeIssue(id), ReqProof(id), ProposeProof(id), Ping(id), BasicMessage(id)}
  \cup {Connection(i, r) : i \in invitations, r \in {"INITIATOR", "ADDRESSEE"}}

AsyncStarters(id, invitations) ==
  {Issue(id), ProposeIssue(id), ReqProof(id), ProposeProof(id), BasicMessage(id)}
  \cup {Connection(i, "INITIATOR") : i \in invitations}
==============================================================================
