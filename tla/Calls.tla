--------------------------------- MODULE Calls ---------------------------------
(***************************************************************************)
(* Calls between clients and the agency: a client opens a connection with a*)
(* token (agency/client, rpc/client.go, jwt), the server checks the token  *)
(* and passes the call to its handler (rpc/server.go), and the client gets *)
(* an answer or a stream, which a goroutine passes on to a Go channel.     *)
(*                                                                         *)
(* Times count in units in which a token is valid for Lifetime.  A call is *)
(* checked once, when it starts.  The key of the tokens is a variable of   *)
(* the process (jwt.key); the clients are processes of their own.          *)
(*                                                                         *)
(* The agency's handlers, gRPC and the network are external: a connection  *)
(* may break at any time and loses what is on its way, a handler may fail  *)
(* or panic, and a protocol is started if it names a connection.  A call   *)
(* that cannot be sent (no server, TLS at one end only) fails at once and  *)
(* changes nothing.                                                        *)
(***************************************************************************)
EXTENDS Services, Naturals, Sequences, FiniteSets, SequencesExt

CONSTANTS
  Clients,      \* the clients
  Users,        \* who they are
  Root,         \* whom a service that overrides authorization takes all callers for
  Secrets,      \* the secrets that a process may be given
  DefaultKey,   \* the key until then
  Invitations,  \* invitations, named by their IDs
  Configs,      \* the server configurations a run looks at
  Types,        \* bound: the types of protocols that are started
  Others,       \* bound: the other unary methods that are called, as paths
  Lifetime,     \* how long a token is valid
  MaxTime,      \* bound: the time
  MaxProtocols, \* bound: how many protocols are started
  MaxStates     \* bound: how many statuses a stream tells

Server == "server"
Processes == Clients \cup {Server}
Keys == Secrets \cup {DefaultKey}
Lines == Clients \X {"unary", "stream"}

\* ServerCfg.  A server with override is the example's, which registers the
\* DevOpsService with its AuthFuncOverride; the others register the agency's.
ServerCfgs ==
  [tls : BOOLEAN, JWTSecret : Secrets \cup {None}, NoAuthorization : BOOLEAN, override : BOOLEAN]

ASSUME ConstantsAssumption ==
  /\ Server \notin Clients /\ Configs \subseteq ServerCfgs
  /\ None \notin Users \cup Keys \cup Invitations
  /\ Types \subseteq ProtocolTypes
  /\ Lifetime \in Nat /\ MaxTime \in Nat /\ MaxProtocols \in Nat /\ MaxStates \in Nat
  /\ \A path \in Others : path[1] # "ProtocolService" /\ ~MethodOf(path).streams

VARIABLES
  now,       \* the time
  cfg,       \* the server's configuration
  serving,   \* the server runs
  key,       \* jwt.key of each process
  conn,      \* each client's Conn: whether it is open and with TLS, and its token
  pairwise,  \* each client's Pairwise: its ID, and the method that gave it
  request,   \* each client's unary call and its stream, as the server has them
  stream,    \* each client's stream as its goroutine and its caller have it
  protocols  \* external: the agency's protocols
vars == <<now, cfg, serving, key, conn, pairwise, request, stream, protocols>>
-----------------------------------------------------------------------------
(* Tokens.                                                                   *)

NoToken == [user |-> None, key |-> None, expires |-> 0]
Tokens == [user : Users \cup {None}, key : Keys \cup {None}, expires : 0 .. MaxTime + Lifetime]
\* MUTANT of BuildJWT: the token lasts longer than it should.
BuildJWT_Late(p, user) == [user |-> user, key |-> key[p], expires |-> now + Lifetime + 1]
BuildJWT(p, user) == [user |-> user, key |-> key[p], expires |-> now + Lifetime]

\* ParseWithClaims in the server's process.
Parses(token) == token.key = key[Server] /\ now <= token.expires
validateAndUser(token) == IF Parses(token) THEN token.user ELSE None
-----------------------------------------------------------------------------
NoConn == [open |-> FALSE, tls |-> FALSE, token |-> NoToken]
NoPairwise == [ID |-> None, by |-> None]
NoProtocol == ProtocolOf("NONE", "UNKNOWN", None, None)
NoRequest ==
  [ stage |-> "idle", path |-> <<None, None>>, message |-> NoProtocol, protocol |-> 0,
    token |-> NoToken, user |-> None, ok |-> FALSE ]
NoStream ==
  [ pc |-> "none", status |-> <<>>, inflight |-> <<>>, ending |-> None, told |-> <<>>, heard |-> <<>> ]
ProtocolIDs == [typeID : ProtocolTypes, role : Roles, ID : 0 .. MaxProtocols]
ProtocolStates == [protocolID : ProtocolIDs, state : States]
AgencyStatuses == [protocolStatus : [state : ProtocolStates], connectionID : Invitations \cup {None}]
Statuses == ProtocolStates \cup AgencyStatuses

TypeOK ==
  /\ now \in 0 .. MaxTime /\ cfg \in Configs /\ serving \in BOOLEAN
  /\ key \in [Processes -> Keys]
  /\ conn \in [Clients -> [open : BOOLEAN, tls : BOOLEAN, token : Tokens]]
  /\ pairwise \in [Clients -> [ID : Invitations \cup {None}, by : {None, "New", "Run", "Start"}]]
  /\ DOMAIN request = Lines
  /\ \A l \in Lines :
       /\ request[l].stage \in {"idle", "sent", "validated", "handling", "replied"}
       /\ request[l].message \in Protocols(Invitations) \cup ProtocolIDs \cup ProtocolStates
       /\ request[l].protocol \in 0 .. Len(protocols)
       /\ request[l].token \in Tokens /\ request[l].user \in Users \cup {Root, None}
       /\ request[l].stage \notin {"idle", "replied"} => MethodOf(request[l].path).streams = (l[2] = "stream")
  /\ DOMAIN stream = Clients
  /\ \A c \in Clients :
       /\ stream[c].pc \in {"none", "recv", "send", "closed"}
       /\ \A i \in DOMAIN stream[c].inflight : stream[c].inflight[i] \in Statuses
       /\ Len(stream[c].told) <= MaxStates
       /\ stream[c].ending \in {None, "EOF", "error"}
  /\ Len(protocols) <= MaxProtocols
  /\ \A p \in DOMAIN protocols :
       /\ protocols[p].user \in Users \cup {Root, None} /\ protocols[p].state \in States
       /\ protocols[p].message \in Protocols(Invitations)

Init ==
  /\ now = 0 /\ cfg \in Configs /\ serving = FALSE
  /\ key = [p \in Processes |-> DefaultKey]
  /\ conn = [c \in Clients |-> NoConn]
  /\ pairwise = [c \in Clients |-> NoPairwise]
  /\ request = [l \in Lines |-> NoRequest]
  /\ stream = [c \in Clients |-> NoStream]
  /\ protocols = <<>>
-----------------------------------------------------------------------------
(* Processes and connections.                                                *)

Tick == now < MaxTime /\ now' = now + 1
        /\ UNCHANGED <<cfg, serving, key, conn, pairwise, request, stream, protocols>>

\* Of a client's process: the server's is set by Server.
SetJWTSecret(p, secret) ==
  /\ p # Server /\ key' = [key EXCEPT ![p] = secret]
  /\ UNCHANGED <<now, cfg, serving, conn, pairwise, request, stream, protocols>>

\* PrepareServe and Serve.
Serve ==
  /\ ~serving /\ serving' = TRUE
  /\ key' = [key EXCEPT ![Server] = IF cfg.JWTSecret # None THEN cfg.JWTSecret ELSE @]
  /\ UNCHANGED <<now, cfg, conn, pairwise, request, stream, protocols>>

Open(c, tls, token) ==
  /\ ~conn[c].open
  /\ conn' = [conn EXCEPT ![c] = [open |-> TRUE, tls |-> tls, token |-> token]]
  /\ UNCHANGED <<now, cfg, serving, key, pairwise, request, stream, protocols>>

\* With TLS the token is an oauth token source, without it is the ClientCfg:
\* either sends it with every call of the connection, and it is never renewed.
TryOpen(c, user) == \E tls \in BOOLEAN : Open(c, tls, BuildJWT(c, user))

\* newClient of client/main.go: without TLS there is no token.
newClient(c, user) ==
  \/ Open(c, TRUE, BuildJWT(c, user))
  \/ Open(c, FALSE, NoToken)

\* Of the package async, with the ID of a connection that was made earlier.
NewPairwise(c, id) ==
  /\ conn[c].open /\ pairwise' = [pairwise EXCEPT ![c] = [ID |-> id, by |-> "New"]]
  /\ UNCHANGED <<now, cfg, serving, key, conn, request, stream, protocols>>

\* What the client needs to know of its call when it has the answer.
Answerable(r) == IF r.path = <<"ProtocolService", "Start">> THEN r.message ELSE NoProtocol

\* External: the transport breaks, or the client cancels the stream or closes
\* the connection.  An answer and what a stream has not delivered may be lost.
BreakUnary(c) ==
  LET r == request[<<c, "unary">>] IN
  CASE r.stage = "idle" -> NoRequest
    [] r.stage = "replied" -> [r EXCEPT !.ok = FALSE]
    [] OTHER -> [NoRequest EXCEPT !.stage = "replied", !.message = Answerable(r)]
BreakStream(c) ==
  IF stream[c].pc \in {"recv", "send"} /\ stream[c].ending # "error"
  THEN {[stream[c] EXCEPT !.ending = "error", !.inflight = SubSeq(@, 1, n)] :
          n \in 0 .. Len(stream[c].inflight)}
  ELSE {stream[c]}

Break(c) ==
  /\ request' = [request EXCEPT ![<<c, "unary">>] = BreakUnary(c), ![<<c, "stream">>] = NoRequest]
  /\ \E s \in BreakStream(c) : stream' = [stream EXCEPT ![c] = s]
  /\ UNCHANGED <<now, cfg, serving, key, protocols>>

Breaks(c) == conn[c].open /\ Break(c) /\ UNCHANGED <<conn, pairwise>>
Close(c) ==
  /\ conn[c].open /\ Break(c)
  /\ conn' = [conn EXCEPT ![c] = NoConn] /\ pairwise' = [pairwise EXCEPT ![c] = NoPairwise]
Cancel(c) ==
  /\ stream[c].pc \in {"recv", "send"}
  /\ request' = [request EXCEPT ![<<c, "stream">>] = NoRequest]
  /\ \E s \in BreakStream(c) : stream' = [stream EXCEPT ![c] = s]
  /\ UNCHANGED <<now, cfg, serving, key, conn, pairwise, protocols>>
-----------------------------------------------------------------------------
(* The client's calls: one unary call and one stream at a time.              *)

Sends(c) == serving /\ conn[c].open /\ conn[c].tls = cfg.tls
Call(c, path) == [NoRequest EXCEPT !.stage = "sent", !.path = path, !.token = conn[c].token]

Invoke(c, call) ==
  /\ Sends(c) /\ request[<<c, "unary">>].stage = "idle"
  /\ request' = [request EXCEPT ![<<c, "unary">>] = call]
  /\ UNCHANGED <<now, cfg, serving, key, conn, pairwise, stream, protocols>>

CallWith(c, method, message) == [Call(c, <<"ProtocolService", method>>) EXCEPT !.message = message]
DoStart(c) ==
  \E m \in AsyncStarters(pairwise[c].ID, Invitations) :
    m.typeID \in Types /\ Invoke(c, CallWith(c, "Start", m))

\* The IDs that callers have of the agency, and the one that Resume builds.
IDOf(p, role) == ProtocolID(protocols[p].message.typeID, role, p)
DoResume(c, p) ==
  \E s \in {"ACK", "NACK"} :
    Invoke(c, CallWith(c, "Resume", ProtocolState(IDOf(p, "RESUMER"), s)))
DoRelease(c, p) == Invoke(c, CallWith(c, "Release", IDOf(p, protocols[p].message.role)))
DoStatus(c, p) == Invoke(c, CallWith(c, "Status", IDOf(p, protocols[p].message.role)))
Other(c) == \E path \in Others : Invoke(c, Call(c, path))

\* The stream opens before the server has looked at the call.
NewStream(c, call) ==
  /\ Sends(c) /\ stream[c].pc \in {"none", "closed"}
  /\ request' = [request EXCEPT ![<<c, "stream">>] = call]
  /\ stream' = [stream EXCEPT ![c] = [NoStream EXCEPT !.pc = "recv"]]
  /\ UNCHANGED <<now, cfg, serving, key, conn, protocols>>

\* doConnection sets the ID when the stream is open.
doRun(c) ==
  \E m \in RunStarters(pairwise[c].ID, Invitations) :
    /\ m.typeID \in Types
    /\ NewStream(c, CallWith(c, "Run", m))
    /\ pairwise' = IF m.typeID = "DIDEXCHANGE"
                    THEN [pairwise EXCEPT ![c] = [ID |-> m.invitation, by |-> "Run"]]
                    ELSE pairwise
PSMHook(c) == NewStream(c, Call(c, <<"AgencyService", "PSMHook">>)) /\ UNCHANGED pairwise
-----------------------------------------------------------------------------
(* The server: the interceptors, then the handler.                           *)

SetRequest(l, r) == request' = [request EXCEPT ![l] = r]
ServerUnchanged == UNCHANGED <<now, cfg, serving, key, conn, pairwise>>

\* Unknown methods are answered before the interceptors run.
Registered(path) == cfg.override <=> path[1] = "DevOpsService"

\* The answer of a call, or the end of its stream.
Answered(l, ok) ==
  /\ IF l[2] = "unary"
     THEN /\ SetRequest(l, [NoRequest EXCEPT !.stage = "replied", !.ok = ok,
                                            !.message = Answerable(request[l])])
          /\ UNCHANGED stream
     ELSE /\ SetRequest(l, NoRequest)
          /\ stream' = [stream EXCEPT ![l[1]].ending = IF ok THEN "EOF" ELSE "error"]
  /\ ServerUnchanged

Handled(l, user) ==
  /\ SetRequest(l, [request[l] EXCEPT !.stage = "handling", !.user = user, !.token = NoToken])
  /\ ServerUnchanged /\ UNCHANGED <<stream, protocols>>

\* The chain of Server; valid parses a token, and check parses it once more.
Authorize(l) ==
  LET r == request[l] IN
  /\ r.stage = "sent"
  /\ \/ ~Registered(r.path) /\ Answered(l, FALSE) /\ UNCHANGED protocols
     \/ Registered(r.path) /\ cfg.NoAuthorization /\ Handled(l, None)
     \/ Registered(r.path) /\ ~cfg.NoAuthorization /\ cfg.override /\ Handled(l, Root)
     \/ /\ Registered(r.path) /\ ~cfg.NoAuthorization /\ ~cfg.override
        /\ IF validateAndUser(r.token) # None
           THEN /\ SetRequest(l, [r EXCEPT !.stage = "validated"])
                /\ ServerUnchanged /\ UNCHANGED <<stream, protocols>>
           ELSE Answered(l, FALSE) /\ UNCHANGED protocols

\* MUTANT of Check: the token is not parsed again for its user.
Check_UserOnly(l) == request[l].stage = "validated" /\ Handled(l, request[l].token.user)
Check(l) ==
  LET r == request[l] IN
  /\ r.stage = "validated"
  /\ IF Parses(r.token) THEN Handled(l, r.token.user)
     ELSE Answered(l, FALSE) /\ UNCHANGED protocols

Handles(l, path) == request[l].stage = "handling" /\ request[l].path = path

\* An error, a panic that grpc_recovery turns into one, or Unimplemented.
HandlerFails(l) ==
  /\ request[l].stage = "handling" /\ request[l].path # <<"DevOpsService", "Enter">>
  /\ Answered(l, FALSE) /\ UNCHANGED protocols

\* devOpsServer.Enter; its noTLS is the configuration's NoAuthorization.
Enter(l) ==
  /\ Handles(l, <<"DevOpsService", "Enter">>)
  /\ Answered(l, cfg.NoAuthorization \/ request[l].user = Root) /\ UNCHANGED protocols

\* External: the handlers of the agency.  It may know a connection from
\* earlier days.
Accepts(l) ==
  LET m == request[l].message IN
  Len(protocols) < MaxProtocols /\ (m.typeID = "DIDEXCHANGE" \/ m.connectionID # None)
Started(l) == Append(protocols, [user |-> request[l].user, message |-> request[l].message, state |-> "RUNNING"])

Start(l) ==
  /\ Handles(l, <<"ProtocolService", "Start">>) /\ Accepts(l)
  /\ protocols' = Started(l) /\ Answered(l, TRUE)

Run(l) ==
  /\ Handles(l, <<"ProtocolService", "Run">>) /\ request[l].protocol = 0 /\ Accepts(l)
  /\ protocols' = Started(l)
  /\ SetRequest(l, [request[l] EXCEPT !.protocol = Len(protocols) + 1])
  /\ ServerUnchanged /\ UNCHANGED stream

Resume(l) ==
  LET state == request[l].message.state
      p == request[l].message.protocolID.ID
  IN
  /\ Handles(l, <<"ProtocolService", "Resume">>)
  /\ protocols' = [protocols EXCEPT ![p].state = IF @ = "WAIT_ACTION" THEN state ELSE @]
  /\ Answered(l, TRUE)

Answers(l) ==
  /\ request[l].stage = "handling" /\ l[2] = "unary"
  /\ request[l].path \notin {<<"DevOpsService", "Enter">>, <<"ProtocolService", "Start">>,
                              <<"ProtocolService", "Resume">>}
  /\ Answered(l, TRUE) /\ UNCHANGED protocols

Told(c, status) == [stream[c] EXCEPT !.told = Append(@, status), !.inflight = Append(@, status)]

\* A protocol goes on, and tells its stream, if it has one, and the hooks.  Its
\* stream ends with it; a hook ends when the agency likes.
Streams(c, p) ==
  LET r == request[<<c, "stream">>] IN
  r.stage = "handling" /\ (r.protocol = p \/ r.path = <<"AgencyService", "PSMHook">>)
Says(r, p, s) ==
  LET m == protocols[p].message
      state == ProtocolState(IDOf(p, m.role), s)
  IN IF r.protocol = p THEN state ELSE AgencyStatus(ProtocolStatus(state), m.connectionID)

Proceed(p, s) ==
  LET final(r) == s \in {"OK", "ERR"} /\ r.stage = "handling" /\ r.protocol = p IN
  /\ protocols[p].state \in {"RUNNING", "ACK", "NACK"} /\ s \in {"WAIT_ACTION", "OK", "ERR"}
  /\ \A c \in Clients : Streams(c, p) => Len(stream[c].told) < MaxStates
  /\ protocols' = [protocols EXCEPT ![p].state = s]
  /\ stream' = [c \in Clients |->
                  LET r == request[<<c, "stream">>] IN
                  IF ~Streams(c, p) THEN stream[c]
                  ELSE [Told(c, Says(r, p, s)) EXCEPT !.ending = IF final(r) THEN "EOF" ELSE @]]
  /\ request' = [l \in Lines |-> IF final(request[l]) THEN NoRequest ELSE request[l]]
  /\ ServerUnchanged

HookEnds(l) == Handles(l, <<"AgencyService", "PSMHook">>) /\ Answered(l, TRUE) /\ UNCHANGED protocols
-----------------------------------------------------------------------------
(* The client has its answer.                                                *)

\* MUTANT of Return: the ID is set whatever the answer is.
Return_AnyAnswer(c) ==
  LET r == request[<<c, "unary">>] IN
  /\ r.stage = "replied"
  /\ request' = [request EXCEPT ![<<c, "unary">>] = NoRequest]
  /\ pairwise' = IF r.message.typeID = "DIDEXCHANGE"
                  THEN [pairwise EXCEPT ![c] = [ID |-> r.message.invitation, by |-> "Start"]]
                  ELSE pairwise
  /\ UNCHANGED <<now, cfg, serving, key, conn, stream, protocols>>

Return(c) ==
  LET r == request[<<c, "unary">>] IN
  /\ r.stage = "replied"
  /\ request' = [request EXCEPT ![<<c, "unary">>] = NoRequest]
  /\ pairwise' = IF r.ok /\ r.message.typeID = "DIDEXCHANGE"
                  THEN [pairwise EXCEPT ![c] = [ID |-> r.message.invitation, by |-> "Start"]]
                  ELSE pairwise
  /\ UNCHANGED <<now, cfg, serving, key, conn, stream, protocols>>

SetStream(c, s) ==
  /\ stream' = [stream EXCEPT ![c] = s]
  /\ UNCHANGED <<now, cfg, serving, key, conn, pairwise, request, protocols>>

\* MUTANT of Recv: the end of the stream overtakes what it has told.
Recv_EndFirst(c) ==
  LET s == stream[c] IN
  /\ s.pc = "recv"
  /\ \/ s.inflight # <<>> /\ s.ending = None
        /\ SetStream(c, [s EXCEPT !.pc = "send", !.status = Head(s.inflight), !.inflight = Tail(@)])
     \/ s.ending # None /\ SetStream(c, [s EXCEPT !.pc = "closed"])

\* MUTANT of Recv: an error leaves the channel open.
Recv_NoClose(c) ==
  LET s == stream[c] IN
  /\ s.pc = "recv"
  /\ \/ s.inflight # <<>>
        /\ SetStream(c, [s EXCEPT !.pc = "send", !.status = Head(s.inflight), !.inflight = Tail(@)])
     \/ s.inflight = <<>> /\ s.ending = "EOF" /\ SetStream(c, [s EXCEPT !.pc = "closed"])

\* The goroutine of doRun and PSMHook: Recv, and a send that waits for the
\* caller.  An error and the end close the channel alike.
Recv(c) ==
  LET s == stream[c] IN
  /\ s.pc = "recv"
  /\ \/ s.inflight # <<>>
        /\ SetStream(c, [s EXCEPT !.pc = "send", !.status = Head(s.inflight), !.inflight = Tail(@)])
     \/ s.inflight = <<>> /\ s.ending # None /\ SetStream(c, [s EXCEPT !.pc = "closed"])

Deliver(c) ==
  LET s == stream[c] IN
  /\ s.pc = "send"
  /\ SetStream(c, [s EXCEPT !.pc = "recv", !.status = <<>>, !.heard = Append(@, s.status)])
-----------------------------------------------------------------------------
Client(c) ==
  \/ \E u \in Users : TryOpen(c, u) \/ newClient(c, u)
  \/ DoStart(c) \/ Other(c) \/ doRun(c) \/ PSMHook(c)
  \/ \E p \in DOMAIN protocols : DoResume(c, p) \/ DoRelease(c, p) \/ DoStatus(c, p)
  \/ \E id \in Invitations : NewPairwise(c, id)
  \/ Return(c) \/ Recv(c) \/ Deliver(c)
  \/ Breaks(c) \/ Close(c) \/ Cancel(c)

Serves(l) ==
  Authorize(l) \/ Check(l) \/ Enter(l) \/ Start(l) \/ Run(l) \/ Resume(l) \/ Answers(l) \/ HandlerFails(l)

Next ==
  \/ Tick \/ Serve
  \/ \E p \in Processes, s \in Secrets : SetJWTSecret(p, s)
  \/ \E c \in Clients : Client(c)
  \/ \E l \in Lines : Serves(l) \/ HookEnds(l)
  \/ \E p \in DOMAIN protocols, s \in States : Proceed(p, s)

Spec == Init /\ [][Next]_vars

\* gRPC answers a call, handlers end, and the callers read their channels.
Fairness ==
  /\ \A c \in Clients : WF_vars(Serves(<<c, "unary">>)) /\ WF_vars(Return(c))
  /\ \A c \in Clients : WF_vars(Recv(c)) /\ WF_vars(Deliver(c))
FairSpec == Spec /\ Fairness
-----------------------------------------------------------------------------
(* Properties.                                                               *)

\* A handler starts only for a token that is signed with the server's key and
\* has not expired by then, and takes the caller for the token's user, although
\* time passes between the opening of the connection, the call and its two checks,
\* and a token may have been made with another key or before the server set its
\* own; unless the server does not authorize (jwt.go 92-149).
ServedWhileValid ==
  [][\A l \in Lines :
       LET token == request[l].token IN
       request'[l].stage = "handling" /\ request[l].stage # "handling"
       /\ ~cfg.NoAuthorization /\ ~cfg.override
       => token.key = key[Server] /\ now <= token.expires
          /\ request'[l].user = token.user /\ token.user # None]_vars

\* What the caller hears from the channel of doRun or PSMHook is what the
\* agency told, in its order and without gaps, up to the point where the
\* stream broke, and all of it when the stream came to its end.
HeardIsTold ==
  \A c \in Clients :
    LET s == stream[c] IN
    /\ IsPrefix(s.heard, s.told)
    /\ s.pc = "closed" /\ s.ending = "EOF" => s.heard = s.told

\* A Pairwise of the package async that has an ID names a connection that the
\* agency started: lost answers, refused tokens and failed handlers leave it
\* without.  (Connection of the package client promises less: its stream opens
\* before the agency has answered.)
AgencyKnowsConnection ==
  \A c \in Clients :
    pairwise[c].by = "Start" =>
      \E p \in DOMAIN protocols : protocols[p].message.invitation = pairwise[c].ID

\* Every unary call returns, whatever breaks, and every stream that ended is
\* closed for its reader.
CallsReturn ==
  \A c \in Clients :
    /\ request[<<c, "unary">>].stage # "idle" ~> request[<<c, "unary">>].stage = "idle"
    /\ stream[c].ending # None ~> stream[c].pc = "closed"
==============================================================================
