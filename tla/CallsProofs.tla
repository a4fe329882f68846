------------------------------ MODULE CallsProofs ------------------------------
(***************************************************************************)
(* Proofs about Calls, for any clients, users, secrets, configurations and *)
(* bounds: the types, what a stream's caller hears, whom the server serves,*)
(* and the connections a Pairwise may name.                                *)
(***************************************************************************)
EXTENDS Calls, SequenceTheorems, TLAPS

\* The paths a client calls, and the records of its lines.
OwnMethods == {"Start", "Run", "Resume", "Release", "Status"}
Paths ==
  {<<None, None>>, <<"AgencyService", "PSMHook">>} \cup Others
  \cup {<<"ProtocolService", m>> : m \in OwnMethods}
Messages == Protocols(Invitations) \cup ProtocolIDs \cup ProtocolStates
Callers == Users \cup {Root, None}
RequestType ==
  [ stage : {"idle", "sent", "validated", "handling", "replied"}, path : Paths,
    message : Messages, protocol : 0 .. MaxProtocols, token : Tokens, user : Callers, ok : BOOLEAN ]
StreamType ==
  [ pc : {"none", "recv", "send", "closed"}, status : Statuses \cup {<<>>},
    inflight : Seq(Statuses), ending : {None, "EOF", "error"},
    told : Seq(Statuses), heard : Seq(Statuses) ]
ProtocolType == [user : Callers, message : Protocols(Invitations), state : States]
-----------------------------------------------------------------------------
(* A stream passes on what it is told.                                       *)

Held(pc) == IF pc = "send" THEN 1 ELSE 0

\* What the caller heard, what the goroutine holds and what is in flight are
\* a prefix of what was told, and all of it unless the stream broke.
AccountOf(pc, status, inflight, ending, told, heard) ==
  /\ Len(told) <= MaxStates
  /\ Len(heard) + Held(pc) + Len(inflight) <= Len(told)
  /\ ending # "error" => Len(heard) + Held(pc) + Len(inflight) = Len(told)
  /\ \A i \in 1 .. Len(heard) : heard[i] = told[i]
  /\ pc = "send" => status = told[Len(heard) + 1]
  /\ \A i \in 1 .. Len(inflight) : inflight[i] = told[Len(heard) + Held(pc) + i]
  /\ pc = "closed" => inflight = <<>> /\ ending # None
  /\ pc = "none" => ending = None
Account(s) == AccountOf(s.pc, s.status, s.inflight, s.ending, s.told, s.heard)

\* The lengths of what is told, in flight and heard.
LEMMA Lengths ==
  ASSUME NEW told \in Seq(Statuses), NEW inflight \in Seq(Statuses), NEW heard \in Seq(Statuses), NEW pc
  PROVE  /\ Len(told) \in Nat /\ Len(inflight) \in Nat /\ Len(heard) \in Nat
         /\ Held(pc) \in {0, 1} /\ Held(pc) \in Nat /\ (Held(pc) = 1 <=> pc = "send")
BY DEF Held

\* A stream that opens has told nothing.
LEMMA NewAccount ==
  ASSUME NEW pc \in {"none", "recv"}
  PROVE  AccountOf(pc, <<>>, <<>>, None, <<>>, <<>>)
<1>1. Len(<<>>) = 0 /\ Held(pc) = 0
  BY DEF Held
<1> QED
  BY <1>1, ConstantsAssumption DEF AccountOf

\* One more status is told, and perhaps the stream ends with it.
LEMMA ToldAccount ==
  ASSUME NEW told \in Seq(Statuses), NEW inflight \in Seq(Statuses), NEW heard \in Seq(Statuses),
         NEW pc, NEW status, NEW x \in Statuses, NEW e \in {None, "EOF"},
         AccountOf(pc, status, inflight, None, told, heard), Len(told) < MaxStates, pc # "none"
  PROVE  AccountOf(pc, status, Append(inflight, x), e, Append(told, x), heard)
<1>1. /\ Len(told) \in Nat /\ Len(inflight) \in Nat /\ Len(heard) \in Nat
      /\ Held(pc) \in {0, 1} /\ Held(pc) \in Nat /\ (Held(pc) = 1 <=> pc = "send")
  BY Lengths
<1>2. /\ Len(Append(told, x)) = Len(told) + 1 /\ Len(Append(inflight, x)) = Len(inflight) + 1
      /\ \A i \in 1 .. Len(told) : Append(told, x)[i] = told[i]
      /\ \A i \in 1 .. Len(inflight) : Append(inflight, x)[i] = inflight[i]
      /\ Append(told, x)[Len(told) + 1] = x /\ Append(inflight, x)[Len(inflight) + 1] = x
  OBVIOUS
<1>3. Len(heard) + Held(pc) + Len(inflight) = Len(told) /\ pc # "closed"
  BY DEF AccountOf, None
<1>4. \A i \in 1 .. Len(heard) : heard[i] = Append(told, x)[i]
  BY <1>1, <1>2, <1>3 DEF AccountOf
<1>5. pc = "send" => status = Append(told, x)[Len(heard) + 1]
  BY <1>1, <1>2, <1>3 DEF AccountOf
<1>6. ASSUME NEW i \in 1 .. Len(inflight) + 1
      PROVE  Append(inflight, x)[i] = Append(told, x)[Len(heard) + Held(pc) + i]
  <2>1. CASE i = Len(inflight) + 1
    <3>1. Len(heard) + Held(pc) + i = Len(told) + 1
      BY <2>1, <1>1, <1>3
    <3> QED
      BY <3>1, <2>1, <1>2
  <2>2. CASE i \in 1 .. Len(inflight)
    BY <2>2, <1>1, <1>2, <1>3 DEF AccountOf
  <2>3. ~(i \in 1 .. Len(inflight)) => i = Len(inflight) + 1
    BY <1>1
  <2> QED
    BY <2>1, <2>2, <2>3
<1>7. Len(Append(told, x)) <= MaxStates
  BY <1>1, <1>2, ConstantsAssumption
<1>8. Len(heard) + Held(pc) + Len(Append(inflight, x)) = Len(Append(told, x))
  <2>1. Len(heard) + Held(pc) + (Len(inflight) + 1) = Len(told) + 1
    BY <1>1, <1>3
  <2> QED
    BY <2>1, <1>2
<1> QED
  BY <1>1, <1>2, <1>3, <1>4, <1>5, <1>6, <1>7, <1>8 DEF AccountOf

\* A stream comes to its end.
LEMMA EndAccount ==
  ASSUME NEW told, NEW inflight, NEW heard, NEW pc, NEW status, NEW e \in {"EOF", "error"},
         AccountOf(pc, status, inflight, None, told, heard), pc # "none"
  PROVE  AccountOf(pc, status, inflight, e, told, heard)
BY DEF AccountOf, None

\* A stream that breaks loses the end of what is in flight.
LEMMA BreakAccount ==
  ASSUME NEW told \in Seq(Statuses), NEW inflight \in Seq(Statuses), NEW heard \in Seq(Statuses),
         NEW pc, NEW status, NEW ending, NEW n \in 0 .. Len(inflight),
         AccountOf(pc, status, inflight, ending, told, heard), pc \in {"recv", "send"}
  PROVE  /\ SubSeq(inflight, 1, n) \in Seq(Statuses)
         /\ AccountOf(pc, status, SubSeq(inflight, 1, n), "error", told, heard)
<1>1. /\ Len(told) \in Nat /\ Len(inflight) \in Nat /\ Len(heard) \in Nat
      /\ Held(pc) \in {0, 1} /\ Held(pc) \in Nat /\ (Held(pc) = 1 <=> pc = "send")
  BY Lengths
<1>2. /\ SubSeq(inflight, 1, n) \in Seq(Statuses)
      /\ Len(SubSeq(inflight, 1, n)) = n
      /\ \A i \in 1 .. n : SubSeq(inflight, 1, n)[i] = inflight[i]
  BY <1>1
<1> QED
  BY <1>1, <1>2 DEF AccountOf

\* The goroutine takes a status.
LEMMA TakeAccount ==
  ASSUME NEW told \in Seq(Statuses), NEW inflight \in Seq(Statuses), NEW heard \in Seq(Statuses),
         NEW status, NEW ending, inflight # <<>>,
         AccountOf("recv", status, inflight, ending, told, heard)
  PROVE  /\ Head(inflight) \in Statuses /\ Tail(inflight) \in Seq(Statuses)
         /\ AccountOf("send", Head(inflight), Tail(inflight), ending, told, heard)
<1>1. /\ Len(told) \in Nat /\ Len(inflight) \in Nat /\ Len(heard) \in Nat
      /\ Held("recv") = 0 /\ Held("send") = 1
  BY DEF Held
<1>2. /\ Head(inflight) \in Statuses /\ Head(inflight) = inflight[1] /\ Len(inflight) # 0
      /\ Tail(inflight) \in Seq(Statuses) /\ Len(Tail(inflight)) = Len(inflight) - 1
      /\ \A i \in 1 .. Len(inflight) - 1 : Tail(inflight)[i] = inflight[i + 1]
  OBVIOUS
<1>3. ASSUME NEW i \in 1 .. Len(Tail(inflight))
      PROVE  Tail(inflight)[i] = told[Len(heard) + 1 + i]
  <2>1. i + 1 \in 1 .. Len(inflight) /\ Tail(inflight)[i] = inflight[i + 1]
    BY <1>1, <1>2
  <2>2. inflight[i + 1] = told[Len(heard) + 0 + (i + 1)]
    BY <2>1, <1>1 DEF AccountOf
  <2> QED
    BY <2>1, <2>2, <1>1, <1>2
<1>4. Head(inflight) = told[Len(heard) + 1]
  BY <1>1, <1>2 DEF AccountOf
<1> QED
  BY <1>1, <1>2, <1>3, <1>4 DEF AccountOf

\* The caller hears a status.
LEMMA HearAccount ==
  ASSUME NEW told \in Seq(Statuses), NEW inflight \in Seq(Statuses), NEW heard \in Seq(Statuses),
         NEW status, NEW ending,
         AccountOf("send", status, inflight, ending, told, heard)
  PROVE  /\ status \in Statuses /\ Append(heard, status) \in Seq(Statuses)
         /\ AccountOf("recv", <<>>, inflight, ending, told, Append(heard, status))
<1>1. /\ Len(told) \in Nat /\ Len(inflight) \in Nat /\ Len(heard) \in Nat
      /\ Held("recv") = 0 /\ Held("send") = 1
  BY DEF Held
<1>2. Len(heard) + 1 \in 1 .. Len(told) /\ status = told[Len(heard) + 1]
  BY <1>1 DEF AccountOf
<1>3. status \in Statuses
  BY <1>2, ElementOfSeq
<1>4. /\ Append(heard, status) \in Seq(Statuses)
      /\ Len(Append(heard, status)) = Len(heard) + 1 /\ Append(heard, status)[Len(heard) + 1] = status
      /\ \A i \in 1 .. Len(heard) : Append(heard, status)[i] = heard[i]
  BY <1>3
<1>5. ASSUME NEW i \in 1 .. Len(heard) + 1 PROVE Append(heard, status)[i] = told[i]
  <2>1. CASE i = Len(heard) + 1
    BY <2>1, <1>2, <1>4
  <2>2. CASE i \in 1 .. Len(heard)
    BY <2>2, <1>4 DEF AccountOf
  <2> QED
    BY <2>1, <2>2, <1>1
<1> QED
  BY <1>1, <1>2, <1>3, <1>4, <1>5 DEF AccountOf

\* What an account says to the caller.
LEMMA AccountHeard ==
  ASSUME NEW told \in Seq(Statuses), NEW inflight \in Seq(Statuses), NEW heard \in Seq(Statuses),
         NEW pc, NEW status, NEW ending, AccountOf(pc, status, inflight, ending, told, heard)
  PROVE  /\ IsPrefix(heard, told)
         /\ pc = "closed" /\ ending = "EOF" => heard = told
<1> DEFINE h == SubSeq(heard, 1, Len(heard))
           t == SubSeq(told, 1, Len(heard))
<1>1. /\ Len(told) \in Nat /\ Len(inflight) \in Nat /\ Len(heard) \in Nat
      /\ Held(pc) \in {0, 1} /\ Held(pc) \in Nat /\ (Held(pc) = 1 <=> pc = "send")
  BY Lengths
<1>2. Len(heard) <= Len(told) /\ \A i \in 1 .. Len(heard) : heard[i] = told[i]
  BY <1>1 DEF AccountOf
<1>3. h \in Seq(Statuses) /\ Len(h) = Len(heard) /\ \A i \in 1 .. Len(heard) : h[i] = heard[i]
  BY <1>1
<1>4. t \in Seq(Statuses) /\ Len(t) = Len(heard) /\ \A i \in 1 .. Len(heard) : t[i] = told[i]
  BY <1>1, <1>2
<1>5. h = t
  <2> HIDE DEF h, t
  <2>1. Len(h) = Len(t) /\ \A i \in 1 .. Len(h) : h[i] = t[i]
    BY <1>2, <1>3, <1>4
  <2> QED
    BY <2>1, <1>3, <1>4, SeqEqual
<1>6. ASSUME pc = "closed", ending = "EOF" PROVE heard = told
  <2>1. Len(heard) = Len(told)
    BY <1>6, <1>1 DEF AccountOf
  <2> QED
    BY <2>1, <1>2, SeqEqual
<1> QED
  BY <1>2, <1>5, <1>6 DEF IsPrefix

-----------------------------------------------------------------------------
(* The same for the records of the streams.                                  *)

\* The fields of a stream.
LEMMA StreamFields ==
  ASSUME NEW s \in StreamType
  PROVE  /\ s.told \in Seq(Statuses) /\ s.inflight \in Seq(Statuses) /\ s.heard \in Seq(Statuses)
         /\ s.pc \in {"none", "recv", "send", "closed"} /\ s.ending \in {None, "EOF", "error"}
         /\ s.status \in Statuses \cup {<<>>}
BY DEF StreamType

\* A stream just opened.
LEMMA StreamOpens ==
  ASSUME NEW pc \in {"none", "recv"}, NEW t, t = [NoStream EXCEPT !.pc = pc]
  PROVE  t \in StreamType /\ Account(t)
<1>1. /\ t.pc = pc /\ t.status = <<>> /\ t.inflight = <<>> /\ t.ending = None
      /\ t.told = <<>> /\ t.heard = <<>>
  BY DEF NoStream
<1>2. <<>> \in Seq(Statuses)
  OBVIOUS
<1>3. NoStream \in StreamType
  BY <1>2, Zenon DEF NoStream, StreamType
<1>4. t \in StreamType
  BY <1>3 DEF StreamType
<1> QED
  BY <1>1, <1>4, NewAccount DEF Account

\* A stream tells a status, and may end with it.
LEMMA StreamTells ==
  ASSUME NEW s \in StreamType, Account(s), s.ending = None, s.pc # "none",
         Len(s.told) < MaxStates, NEW x \in Statuses, NEW e \in {None, "EOF"}, NEW t,
         t = [[s EXCEPT !.told = Append(@, x), !.inflight = Append(@, x)] EXCEPT !.ending = e]
  PROVE  t \in StreamType /\ Account(t)
<1>1. s.told \in Seq(Statuses) /\ s.inflight \in Seq(Statuses) /\ s.heard \in Seq(Statuses)
  BY StreamFields
<1>2. Append(s.told, x) \in Seq(Statuses) /\ Append(s.inflight, x) \in Seq(Statuses)
  BY <1>1
<1>3. /\ t.told = Append(s.told, x) /\ t.inflight = Append(s.inflight, x) /\ t.ending = e
      /\ t.pc = s.pc /\ t.status = s.status /\ t.heard = s.heard
  BY DEF StreamType
<1>4. t \in StreamType
  BY <1>2 DEF StreamType
<1>5. AccountOf(s.pc, s.status, s.inflight, None, s.told, s.heard)
  BY DEF Account
<1>6. AccountOf(s.pc, s.status, Append(s.inflight, x), e, Append(s.told, x), s.heard)
  BY <1>1, <1>5, ToldAccount
<1> QED
  BY <1>3, <1>4, <1>6 DEF Account

\* A stream ends.
LEMMA StreamEnds ==
  ASSUME NEW s \in StreamType, Account(s), s.ending = None, s.pc # "none",
         NEW e \in {"EOF", "error"}, NEW t, t = [s EXCEPT !.ending = e]
  PROVE  t \in StreamType /\ Account(t)
<1>1. /\ t.told = s.told /\ t.inflight = s.inflight /\ t.ending = e
      /\ t.pc = s.pc /\ t.status = s.status /\ t.heard = s.heard /\ t \in StreamType
  BY DEF StreamType
<1> QED
  BY <1>1, EndAccount DEF Account

\* A stream breaks.
LEMMA StreamBreaks ==
  ASSUME NEW s \in StreamType, Account(s), s.pc \in {"recv", "send"}, NEW n \in 0 .. Len(s.inflight),
         NEW t, t = [s EXCEPT !.ending = "error", !.inflight = SubSeq(@, 1, n)]
  PROVE  t \in StreamType /\ Account(t)
<1>1. s.told \in Seq(Statuses) /\ s.inflight \in Seq(Statuses) /\ s.heard \in Seq(Statuses)
  BY StreamFields
<1>2. /\ SubSeq(s.inflight, 1, n) \in Seq(Statuses)
      /\ AccountOf(s.pc, s.status, SubSeq(s.inflight, 1, n), "error", s.told, s.heard)
  BY <1>1, BreakAccount DEF Account
<1>3. /\ t.told = s.told /\ t.inflight = SubSeq(s.inflight, 1, n) /\ t.ending = "error"
      /\ t.pc = s.pc /\ t.status = s.status /\ t.heard = s.heard
  BY DEF StreamType
<1>4. t \in StreamType
  BY <1>2 DEF StreamType
<1> QED
  BY <1>2, <1>3, <1>4 DEF Account

\* The goroutine takes a status.
LEMMA StreamTakes ==
  ASSUME NEW s \in StreamType, Account(s), s.pc = "recv", s.inflight # <<>>, NEW t,
         t = [s EXCEPT !.pc = "send", !.status = Head(s.inflight), !.inflight = Tail(@)]
  PROVE  t \in StreamType /\ Account(t)
<1>1. s.told \in Seq(Statuses) /\ s.inflight \in Seq(Statuses) /\ s.heard \in Seq(Statuses)
  BY StreamFields
<1>2. /\ Head(s.inflight) \in Statuses /\ Tail(s.inflight) \in Seq(Statuses)
      /\ AccountOf("send", Head(s.inflight), Tail(s.inflight), s.ending, s.told, s.heard)
  BY <1>1, TakeAccount DEF Account
<1>3. /\ t.told = s.told /\ t.inflight = Tail(s.inflight) /\ t.ending = s.ending
      /\ t.pc = "send" /\ t.status = Head(s.inflight) /\ t.heard = s.heard
  BY DEF StreamType
<1>4. t \in StreamType
  BY <1>2 DEF StreamType
<1> QED
  BY <1>2, <1>3, <1>4 DEF Account

\* The goroutine closes the caller's channel.
LEMMA StreamCloses ==
  ASSUME NEW s \in StreamType, Account(s), s.pc = "recv", s.inflight = <<>>, s.ending # None,
         NEW t, t = [s EXCEPT !.pc = "closed"]
  PROVE  t \in StreamType /\ Account(t)
<1>1. /\ t.told = s.told /\ t.inflight = s.inflight /\ t.ending = s.ending
      /\ t.pc = "closed" /\ t.status = s.status /\ t.heard = s.heard /\ t \in StreamType
  BY DEF StreamType
<1>2. Held("closed") = Held("recv")
  BY DEF Held
<1>3. AccountOf("recv", s.status, s.inflight, s.ending, s.told, s.heard)
  BY DEF Account
<1>4. AccountOf("closed", s.status, s.inflight, s.ending, s.told, s.heard)
  BY <1>2, <1>3 DEF AccountOf
<1> QED
  BY <1>1, <1>4 DEF Account

\* The caller hears a status.
LEMMA StreamHears ==
  ASSUME NEW s \in StreamType, Account(s), s.pc = "send", NEW t,
         t = [s EXCEPT !.pc = "recv", !.status = <<>>, !.heard = Append(@, s.status)]
  PROVE  t \in StreamType /\ Account(t)
<1>1. s.told \in Seq(Statuses) /\ s.inflight \in Seq(Statuses) /\ s.heard \in Seq(Statuses)
  BY StreamFields
<1>2. /\ Append(s.heard, s.status) \in Seq(Statuses)
      /\ AccountOf("recv", <<>>, s.inflight, s.ending, s.told, Append(s.heard, s.status))
  BY <1>1, HearAccount DEF Account
<1>3. /\ t.told = s.told /\ t.inflight = s.inflight /\ t.ending = s.ending
      /\ t.pc = "recv" /\ t.status = <<>> /\ t.heard = Append(s.heard, s.status)
  BY DEF StreamType
<1>4. t \in StreamType
  BY <1>2 DEF StreamType
<1> QED
  BY <1>2, <1>3, <1>4 DEF Account

-----------------------------------------------------------------------------
(* The invariant.                                                            *)

BaseOK ==
  /\ now \in 0 .. MaxTime /\ cfg \in Configs /\ serving \in BOOLEAN
  /\ key \in [Processes -> Keys]
  /\ conn \in [Clients -> [open : BOOLEAN, tls : BOOLEAN, token : Tokens]]
PairwiseOK ==
  /\ pairwise \in [Clients -> [ID : Invitations \cup {None}, by : {None, "New", "Run", "Start"}]]
  /\ AgencyKnowsConnection
ProtocolsOK == protocols \in Seq(ProtocolType) /\ Len(protocols) <= MaxProtocols

\* What is known of a call: the message is what its method takes, a token that
\* was validated once has a user, and an accepted invitation is the agency's.
Good(l, r, known) ==
  /\ r.stage \notin {"idle", "replied"} => MethodOf(r.path).streams = (l[2] = "stream")
  /\ r.path \in {<<"ProtocolService", "Start">>, <<"ProtocolService", "Run">>}
       => r.message \in Protocols(Invitations)
  /\ r.path = <<"ProtocolService", "Resume">> => r.message \in ProtocolStates
  /\ r.protocol <= Len(known)
  /\ r.stage = "validated" => r.token.user # None
  /\ r.stage = "replied" =>
       /\ r.message \in Protocols(Invitations)
       /\ r.ok /\ r.message.typeID = "DIDEXCHANGE"
            => \E p \in DOMAIN known : known[p].message.invitation = r.message.invitation
RequestsOK ==
  /\ request \in [Lines -> RequestType]
  /\ \A l \in Lines : Good(l, request[l], protocols)
StreamsOK ==
  /\ stream \in [Clients -> StreamType]
  /\ \A c \in Clients : Account(stream[c])

\* A stream that the server serves has not ended for its client.
Linked ==
  \A c \in Clients :
    request[<<c, "stream">>].stage # "idle" => stream[c].ending = None /\ stream[c].pc # "none"

CallsInv == BaseOK /\ PairwiseOK /\ ProtocolsOK /\ RequestsOK /\ StreamsOK /\ Linked

\* Protocols are never forgotten, nor what they were started with.
Grown(ps, qs) ==
  Len(ps) <= Len(qs) /\ \A p \in DOMAIN ps : p \in DOMAIN qs /\ qs[p].message = ps[p].message

\* What is known of a call stays known.
LEMMA GoodGrows ==
  ASSUME NEW l, NEW r \in RequestType, NEW ps \in Seq(ProtocolType), NEW qs \in Seq(ProtocolType),
         Grown(ps, qs), Good(l, r, ps)
  PROVE  Good(l, r, qs)
<1>1. r.protocol \in Nat
  BY ConstantsAssumption DEF RequestType
<1>2. Len(ps) \in Nat /\ Len(qs) \in Nat /\ Len(ps) <= Len(qs)
  BY DEF Grown
<1>3. r.protocol <= Len(qs)
  BY <1>1, <1>2 DEF Good
<1>4. (\E p \in DOMAIN ps : ps[p].message.invitation = r.message.invitation)
      => (\E p \in DOMAIN qs : qs[p].message.invitation = r.message.invitation)
  BY DEF Grown
<1> QED
  BY <1>3, <1>4 DEF Good

\* A line without a call.
LEMMA NoRequestGood ==
  /\ NoRequest \in RequestType /\ NoProtocol \in Protocols(Invitations)
  /\ ProtocolsOK => \A l \in Lines : Good(l, NoRequest, protocols)
<1>1. NoProtocol \in Protocols(Invitations)
  BY DEF NoProtocol, ProtocolOf, Protocols, ProtocolTypes, Roles
<1>2. NoToken \in Tokens
  BY ConstantsAssumption DEF NoToken, Tokens
<1>3. NoRequest \in RequestType
  <2>1. <<None, None>> \in Paths
    BY DEF Paths
  <2>2. NoProtocol \in Messages /\ None \in Callers
    BY <1>1 DEF Messages, Callers
  <2>3. 0 \in 0 .. MaxProtocols
    BY ConstantsAssumption
  <2> QED
    BY <1>2, <2>1, <2>2, <2>3 DEF NoRequest, RequestType
<1>4. ASSUME ProtocolsOK, NEW l \in Lines PROVE Good(l, NoRequest, protocols)
  <2>1. /\ NoRequest.stage = "idle" /\ NoRequest.path = <<None, None>> /\ NoRequest.protocol = 0
    BY DEF NoRequest
  <2>2. Len(protocols) \in Nat
    BY <1>4 DEF ProtocolsOK
  <2>3. None # "ProtocolService"
    BY DEF None
  <2> QED
    BY <2>1, <2>2, <2>3 DEF Good
<1> QED
  BY <1>1, <1>3, <1>4

\* The process starts with nothing called.
LEMMA InvInit == Init => CallsInv
<1> SUFFICES ASSUME Init PROVE CallsInv
  OBVIOUS
<1>1. ProtocolsOK
  BY ConstantsAssumption DEF Init, ProtocolsOK
<1>2. BaseOK
  <2>1. NoConn \in [open : BOOLEAN, tls : BOOLEAN, token : Tokens]
    BY ConstantsAssumption DEF NoConn, NoToken, Tokens
  <2>2. DefaultKey \in Keys /\ 0 \in 0 .. MaxTime
    BY ConstantsAssumption DEF Keys
  <2> QED
    BY <2>1, <2>2 DEF Init, BaseOK
<1>3. PairwiseOK
  BY DEF Init, PairwiseOK, AgencyKnowsConnection, NoPairwise, None
<1>4. RequestsOK
  BY <1>1, NoRequestGood DEF Init, RequestsOK
<1>5. NoStream \in StreamType /\ Account(NoStream)
  BY StreamOpens, NoStream = [NoStream EXCEPT !.pc = "none"] DEF NoStream
<1>6. StreamsOK
  BY <1>5 DEF Init, StreamsOK
<1>7. Linked
  <2>1. \A c \in Clients : <<c, "stream">> \in Lines
    BY DEF Lines
  <2> QED
    BY <2>1 DEF Init, Linked, NoRequest
<1> QED
  BY <1>1, <1>2, <1>3, <1>4, <1>6, <1>7 DEF CallsInv

-----------------------------------------------------------------------------
(* Steps that keep it, by what they change.                                  *)

\* Protocols that are only remembered keep what the calls and clients know.
LEMMA KnownGrows ==
  ASSUME PairwiseOK, ProtocolsOK, ProtocolsOK', Grown(protocols, protocols'), UNCHANGED pairwise
  PROVE  PairwiseOK'
BY DEF PairwiseOK, AgencyKnowsConnection, Grown

\* One line changes, and perhaps the protocols.
LEMMA SetRequestKeeps ==
  ASSUME RequestsOK, ProtocolsOK, ProtocolsOK', Grown(protocols, protocols'),
         NEW l \in Lines, NEW r \in RequestType, Good(l, r, protocols'), SetRequest(l, r)
  PROVE  RequestsOK'
<1>1. request' \in [Lines -> RequestType]
  BY DEF SetRequest, RequestsOK
<1>2. ASSUME NEW k \in Lines PROVE Good(k, request'[k], protocols')
  <2>1. CASE k = l
    BY <2>1 DEF SetRequest, RequestsOK
  <2>2. CASE k # l
    <3>1. request'[k] = request[k] /\ request[k] \in RequestType /\ Good(k, request[k], protocols)
      BY <2>2 DEF SetRequest, RequestsOK
    <3> QED
      BY <3>1, GoodGrows DEF ProtocolsOK
  <2> QED
    BY <2>1, <2>2
<1>3. RequestsOK' = (request' \in [Lines -> RequestType] /\ \A k \in Lines : Good(k, request'[k], protocols'))
  BY DEF RequestsOK
<1> QED
  BY <1>1, <1>2, <1>3

\* The protocols as they are.
LEMMA GrownSame == ProtocolsOK /\ UNCHANGED protocols => ProtocolsOK' /\ Grown(protocols, protocols')
BY DEF ProtocolsOK, Grown

\* A call is made or goes on, and nothing else changes.
LEMMA RequestStep ==
  ASSUME CallsInv, NEW l \in Lines, NEW r \in RequestType, Good(l, r, protocols), SetRequest(l, r),
         l[2] = "stream" => request[l].stage # "idle",
         UNCHANGED <<now, cfg, serving, key, conn, pairwise, stream, protocols>>
  PROVE  CallsInv'
<1>1. ProtocolsOK' /\ Grown(protocols, protocols')
  BY GrownSame DEF CallsInv
<1>2. RequestsOK'
  BY <1>1, SetRequestKeeps DEF CallsInv
<1>3. Linked'
  <2> SUFFICES ASSUME NEW c \in Clients, request'[<<c, "stream">>].stage # "idle"
               PROVE  stream[c].ending = None /\ stream[c].pc # "none"
    BY DEF Linked
  <2>1. <<c, "stream">> \in Lines
    BY DEF Lines
  <2>2. request[<<c, "stream">>].stage # "idle"
    BY <2>1 DEF SetRequest, CallsInv, RequestsOK
  <2> QED
    BY <2>2 DEF CallsInv, Linked
<1>4. BaseOK' /\ StreamsOK' /\ PairwiseOK'
  BY DEF CallsInv, BaseOK, StreamsOK, PairwiseOK, AgencyKnowsConnection
<1> QED
  BY <1>1, <1>2, <1>3, <1>4 DEF CallsInv

\* A client's stream goes on, and its call is as it was.
LEMMA StreamStep ==
  ASSUME CallsInv, NEW c \in Clients, NEW s \in StreamType, Account(s), SetStream(c, s),
         s.ending = stream[c].ending, s.pc # "none"
  PROVE  CallsInv'
<1>1. StreamsOK'
  BY DEF CallsInv, StreamsOK, SetStream
<1>2. Linked'
  BY DEF CallsInv, StreamsOK, SetStream, Linked
<1>3. BaseOK' /\ PairwiseOK' /\ ProtocolsOK' /\ RequestsOK'
  BY DEF CallsInv, BaseOK, PairwiseOK, AgencyKnowsConnection, ProtocolsOK, RequestsOK, SetStream
<1> QED
  BY <1>1, <1>2, <1>3 DEF CallsInv

\* Only the process or the connections change.
LEMMA BaseStep ==
  ASSUME CallsInv, BaseOK', UNCHANGED <<pairwise, request, stream, protocols>>
  PROVE  CallsInv'
BY DEF CallsInv, PairwiseOK, AgencyKnowsConnection, ProtocolsOK, RequestsOK, StreamsOK, Linked

\* A call of a client is answered, or its stream ends.
LEMMA AnsweredStep ==
  ASSUME CallsInv, NEW l \in Lines, NEW ok \in BOOLEAN, Answered(l, ok),
         request[l].stage \notin {"idle", "replied"},
         ProtocolsOK', Grown(protocols, protocols'),
         ok /\ request[l].path = <<"ProtocolService", "Start">> =>
           \E p \in DOMAIN protocols' : protocols'[p].message.invitation = request[l].message.invitation
  PROVE  CallsInv'
<1>1. BaseOK' /\ PairwiseOK'
  BY KnownGrows DEF Answered, ServerUnchanged, CallsInv, BaseOK
<1>2. request \in [Lines -> RequestType] /\ Good(l, request[l], protocols)
  BY DEF CallsInv, RequestsOK
<1>3. CASE l[2] = "unary"
  <2> DEFINE m == Answerable(request[l])
             r == [NoRequest EXCEPT !.stage = "replied", !.ok = ok, !.message = m]
  <2>1. SetRequest(l, r) /\ UNCHANGED stream
    BY <1>3 DEF Answered
  <2>2. m \in Protocols(Invitations)
    BY <1>2, NoRequestGood DEF Answerable, Good
  <2>3. r \in RequestType
    BY <2>2, NoRequestGood DEF RequestType, Messages
  <2>4. ok /\ m.typeID = "DIDEXCHANGE" =>
          \E p \in DOMAIN protocols' : protocols'[p].message.invitation = m.invitation
    BY DEF Answerable, NoProtocol, ProtocolOf
  <2>5. Good(l, r, protocols')
    <3>1. /\ r.stage = "replied" /\ r.path = <<None, None>> /\ r.protocol = 0
          /\ r.message = m /\ r.ok = ok
      BY NoRequestGood DEF NoRequest, RequestType
    <3>2. Len(protocols') \in Nat /\ None # "ProtocolService"
      BY DEF ProtocolsOK, None
    <3> HIDE DEF m, r
    <3> QED
      BY <2>2, <2>4, <3>1, <3>2 DEF Good
  <2>6. RequestsOK'
    BY <2>1, <2>3, <2>5, SetRequestKeeps DEF CallsInv
  <2>7. StreamsOK' /\ Linked'
    <3>1. \A c \in Clients : request'[<<c, "stream">>] = request[<<c, "stream">>]
      BY <1>2, <1>3, <2>1 DEF SetRequest, Lines
    <3> QED
      BY <3>1, <2>1 DEF CallsInv, StreamsOK, Linked
  <2> QED
    BY <1>1, <2>6, <2>7 DEF CallsInv
<1>4. CASE l[2] = "stream"
  <2> DEFINE e == IF ok THEN "EOF" ELSE "error"
  <2>1. PICK c \in Clients : l = <<c, "stream">>
    BY <1>4 DEF Lines
  <2>2. SetRequest(l, NoRequest) /\ stream' = [stream EXCEPT ![c].ending = e]
    BY <1>4, <2>1 DEF Answered
  <2>3. RequestsOK'
    <3>1. Good(l, NoRequest, protocols')
      BY NoRequestGood, GoodGrows DEF CallsInv, ProtocolsOK
    <3> QED
      BY <3>1, <2>2, NoRequestGood, SetRequestKeeps DEF CallsInv
  <2>4. stream[c] \in StreamType /\ Account(stream[c]) /\ stream[c].ending = None /\ stream[c].pc # "none"
    BY <2>1 DEF CallsInv, StreamsOK, Linked
  <2>5. [stream[c] EXCEPT !.ending = e] \in StreamType /\ Account([stream[c] EXCEPT !.ending = e])
    BY <2>4, StreamEnds
  <2>6. stream' = [stream EXCEPT ![c] = [stream[c] EXCEPT !.ending = e]]
    BY <2>2
  <2>7. StreamsOK'
    BY <2>5, <2>6 DEF CallsInv, StreamsOK
  <2>8. Linked'
    <3> SUFFICES ASSUME NEW d \in Clients, request'[<<d, "stream">>].stage # "idle"
                 PROVE  stream'[d].ending = None /\ stream'[d].pc # "none"
      BY DEF Linked
    <3>1. d # c
      BY <1>2, <2>1, <2>2 DEF SetRequest, NoRequest
    <3>2. <<d, "stream">> \in Lines /\ <<d, "stream">> # l
      BY <3>1, <2>1 DEF Lines
    <3>3. request'[<<d, "stream">>] = request[<<d, "stream">>]
      BY <3>2, <1>2, <2>2 DEF SetRequest
    <3>4. stream'[d] = stream[d]
      BY <3>1, <2>6 DEF CallsInv, StreamsOK
    <3> QED
      BY <3>3, <3>4 DEF CallsInv, Linked
  <2> QED
    BY <1>1, <2>3, <2>7, <2>8 DEF CallsInv
<1> QED
  BY <1>3, <1>4 DEF Lines

-----------------------------------------------------------------------------
(* Every action keeps it.                                                    *)

\* Processes, connections and tokens.
LEMMA BaseInv ==
  ASSUME CallsInv,
         \/ Tick \/ Serve \/ \E p \in Processes, s \in Secrets : SetJWTSecret(p, s)
         \/ \E c \in Clients, u \in Users : TryOpen(c, u) \/ newClient(c, u)
  PROVE  CallsInv'
<1>1. CASE Tick
  BY <1>1, BaseStep, ConstantsAssumption DEF Tick, CallsInv, BaseOK
<1>2. CASE Serve
  <2>1. cfg.JWTSecret # None => cfg.JWTSecret \in Keys
    BY ConstantsAssumption DEF CallsInv, BaseOK, ServerCfgs, Keys
  <2> QED
    BY <1>2, <2>1, BaseStep DEF Serve, CallsInv, BaseOK
<1>3. ASSUME NEW p \in Processes, NEW s \in Secrets, SetJWTSecret(p, s) PROVE CallsInv'
  <2>1. s \in Keys
    BY DEF Keys
  <2> QED
    BY <1>3, <2>1, BaseStep DEF SetJWTSecret, CallsInv, BaseOK
<1>4. ASSUME NEW c \in Clients, NEW tls \in BOOLEAN, NEW t \in Tokens, Open(c, tls, t) PROVE CallsInv'
  BY <1>4, BaseStep DEF Open, CallsInv, BaseOK
<1>5. ASSUME NEW c \in Clients, NEW u \in Users PROVE BuildJWT(c, u) \in Tokens /\ NoToken \in Tokens
  <2>1. key[c] \in Keys /\ now \in 0 .. MaxTime
    BY DEF CallsInv, BaseOK, Processes
  <2> QED
    BY <2>1, ConstantsAssumption DEF BuildJWT, NoToken, Tokens
<1> QED
  BY <1>1, <1>2, <1>3, <1>4, <1>5 DEF TryOpen, newClient

\* A Pairwise gets an ID that its caller has.
LEMMA NewPairwiseInv ==
  ASSUME CallsInv, NEW c \in Clients, NEW id \in Invitations, NewPairwise(c, id)
  PROVE  CallsInv'
<1>1. PairwiseOK'
  BY DEF NewPairwise, CallsInv, PairwiseOK, AgencyKnowsConnection
<1> QED
  BY <1>1 DEF NewPairwise, CallsInv, BaseOK, ProtocolsOK, RequestsOK, StreamsOK, Linked

\* The IDs of a protocol, for the callers, are its own.
LEMMA IDType ==
  ASSUME ProtocolsOK, NEW p \in DOMAIN protocols, NEW role \in Roles
  PROVE  /\ protocols[p] \in ProtocolType /\ protocols[p].message \in Protocols(Invitations)
         /\ IDOf(p, role) \in ProtocolIDs /\ p \in 1 .. MaxProtocols
<1>1. protocols[p] \in ProtocolType /\ p \in 1 .. Len(protocols) /\ Len(protocols) \in Nat
  BY DEF ProtocolsOK
<1>2. protocols[p].message \in Protocols(Invitations)
  BY <1>1 DEF ProtocolType
<1>3. protocols[p].message.typeID \in ProtocolTypes
  BY <1>2 DEF Protocols
<1>4. p \in 1 .. MaxProtocols
  BY <1>1, ConstantsAssumption DEF ProtocolsOK
<1>5. p \in 0 .. MaxProtocols
  BY <1>4, ConstantsAssumption
<1> QED
  BY <1>1, <1>2, <1>3, <1>4, <1>5 DEF IDOf, ProtocolID, ProtocolIDs

\* The calls that clients make are of their methods.
LEMMA CallGood ==
  ASSUME CallsInv, NEW c \in Clients, NEW l \in Lines, NEW path \in Paths, NEW m \in Messages,
         MethodOf(path).streams = (l[2] = "stream"),
         path \in {<<"ProtocolService", "Start">>, <<"ProtocolService", "Run">>}
           => m \in Protocols(Invitations),
         path = <<"ProtocolService", "Resume">> => m \in ProtocolStates,
         NEW r, r = [Call(c, path) EXCEPT !.message = m] \/ (m = NoProtocol /\ r = Call(c, path))
  PROVE  r \in RequestType /\ Good(l, r, protocols)
<1>1. conn[c].token \in Tokens
  BY DEF CallsInv, BaseOK
<1>2. Call(c, path) \in RequestType
  BY <1>1, NoRequestGood DEF Call, RequestType
<1>3. r \in RequestType
  BY <1>2 DEF RequestType
<1>4. NoRequest.protocol = 0 /\ NoRequest.message = NoProtocol
  BY DEF NoRequest
<1>5. /\ r.stage = "sent" /\ r.path = path /\ r.message = m /\ r.protocol = 0
  BY <1>4, NoRequestGood DEF Call, RequestType
<1>6. Len(protocols) \in Nat
  BY DEF CallsInv, ProtocolsOK
<1>7. MethodOf(r.path).streams = (l[2] = "stream")
  BY <1>5, Zenon
<1>8. /\ r.path \in {<<"ProtocolService", "Start">>, <<"ProtocolService", "Run">>}
           => r.message \in Protocols(Invitations)
      /\ r.path = <<"ProtocolService", "Resume">> => r.message \in ProtocolStates
  BY <1>5, Zenon
<1>9. r.protocol <= Len(protocols) /\ r.stage \notin {"validated", "replied"}
  BY <1>5, <1>6
<1> QED
  BY <1>3, <1>7, <1>8, <1>9, Zenon DEF Good

\* A unary call starts.
LEMMA InvokeInv ==
  ASSUME CallsInv, NEW c \in Clients, NEW r \in RequestType,
         Good(<<c, "unary">>, r, protocols), Invoke(c, r)
  PROVE  CallsInv'
<1>1. <<c, "unary">> \in Lines /\ <<c, "unary">>[2] # "stream"
  BY DEF Lines
<1> QED
  BY <1>1, RequestStep DEF Invoke, SetRequest

\* The paths of the calls are those of their methods.
LEMMA PathKinds ==
  /\ \A m \in OwnMethods :
       /\ <<"ProtocolService", m>> \in Paths
       /\ MethodOf(<<"ProtocolService", m>>).streams = (m = "Run")
  /\ <<"AgencyService", "PSMHook">> \in Paths
  /\ MethodOf(<<"AgencyService", "PSMHook">>).streams = TRUE
  /\ \A path \in Others : path \in Paths /\ MethodOf(path).streams = FALSE
<1>1. ASSUME NEW m \in OwnMethods
      PROVE  /\ <<"ProtocolService", m>> \in Paths
             /\ MethodOf(<<"ProtocolService", m>>).streams = (m = "Run")
  <2>1. MethodOf(<<"ProtocolService", m>>) = ProtocolService[m]
    BY DEF MethodOf
  <2>2. ProtocolService[m].streams = (m = "Run")
    <3>1. m \in {"Start", "Run", "Resume", "Release", "Status"}
      BY DEF OwnMethods
    <3>2. CASE m = "Run"
      BY <3>2 DEF ProtocolService, Stream
    <3>3. CASE m = "Start"
      BY <3>3 DEF ProtocolService, Unary
    <3>4. CASE m = "Resume"
      BY <3>4 DEF ProtocolService, Unary
    <3>5. CASE m = "Release"
      BY <3>5 DEF ProtocolService, Unary
    <3>6. CASE m = "Status"
      BY <3>6 DEF ProtocolService, Unary
    <3> QED
      BY <3>1, <3>2, <3>3, <3>4, <3>5, <3>6
  <2> QED
    BY <2>1, <2>2 DEF Paths
<1>2. MethodOf(<<"AgencyService", "PSMHook">>).streams = TRUE
  BY DEF MethodOf, AgencyService, Stream
<1>3. ASSUME NEW path \in Others PROVE path \in Paths
  BY DEF Paths
<1>4. ASSUME NEW path \in Others PROVE MethodOf(path).streams = FALSE
  BY ConstantsAssumption
<1>5. <<"AgencyService", "PSMHook">> \in Paths
  BY DEF Paths
<1> QED
  BY <1>1, <1>2, <1>3, <1>4, <1>5

\* What a Pairwise starts protocols with.
LEMMA StarterType ==
  ASSUME NEW id \in Invitations \cup {None}
  PROVE  AsyncStarters(id, Invitations) \cup RunStarters(id, Invitations) \subseteq Protocols(Invitations)
<1>1. ASSUME NEW t \in ProtocolTypes, NEW r \in Roles, NEW i \in Invitations \cup {None},
             NEW j \in Invitations \cup {None}
      PROVE  ProtocolOf(t, r, i, j) \in Protocols(Invitations)
  BY DEF ProtocolOf, Protocols
<1>2. "INITIATOR" \in Roles /\ "ADDRESSEE" \in Roles
  BY DEF Roles
<1>3. {"DIDEXCHANGE", "ISSUE_CREDENTIAL", "PRESENT_PROOF", "TRUST_PING", "BASIC_MESSAGE"} \subseteq ProtocolTypes
  BY DEF ProtocolTypes
<1>4. None \in Invitations \cup {None} /\ Invitations \subseteq Invitations \cup {None}
  OBVIOUS
<1>5. /\ Issue(id) \in Protocols(Invitations) /\ ProposeIssue(id) \in Protocols(Invitations)
      /\ ReqProof(id) \in Protocols(Invitations) /\ ProposeProof(id) \in Protocols(Invitations)
      /\ Ping(id) \in Protocols(Invitations) /\ BasicMessage(id) \in Protocols(Invitations)
  BY <1>1, <1>2, <1>3, <1>4 DEF Issue, ProposeIssue, ReqProof, ProposeProof, Ping, BasicMessage
<1>6. \A i \in Invitations, r \in {"INITIATOR", "ADDRESSEE"} : Connection(i, r) \in Protocols(Invitations)
  BY <1>1, <1>2, <1>3, <1>4 DEF Connection
<1> QED
  BY <1>5, <1>6 DEF AsyncStarters, RunStarters

\* The unary calls of a client.
LEMMA UnaryInv ==
  ASSUME CallsInv, NEW c \in Clients,
         \/ DoStart(c) \/ Other(c)
         \/ \E p \in DOMAIN protocols : DoResume(c, p) \/ DoRelease(c, p) \/ DoStatus(c, p)
  PROVE  CallsInv'
<1> DEFINE l == <<c, "unary">>
<1>1. l \in Lines /\ (l[2] = "stream") = FALSE
  BY DEF Lines
<1>2. ASSUME NEW m \in Messages, NEW method \in OwnMethods \ {"Run"}, Invoke(c, CallWith(c, method, m)),
             method = "Start" => m \in Protocols(Invitations),
             method = "Resume" => m \in ProtocolStates
      PROVE  CallsInv'
  <2> DEFINE path == <<"ProtocolService", method>>
             r == [Call(c, path) EXCEPT !.message = m]
  <2>1. path \in Paths /\ MethodOf(path).streams = (l[2] = "stream")
    BY <1>1, PathKinds
  <2>2. r \in RequestType /\ Good(l, r, protocols)
    BY <1>1, <1>2, <2>1, CallGood
  <2>3. r = CallWith(c, method, m)
    BY DEF CallWith
  <2> QED
    BY <1>2, <2>2, <2>3, InvokeInv
<1>3. CASE DoStart(c)
  <2>1. pairwise[c].ID \in Invitations \cup {None}
    BY DEF CallsInv, PairwiseOK
  <2>2. PICK m \in AsyncStarters(pairwise[c].ID, Invitations) : Invoke(c, CallWith(c, "Start", m))
    BY <1>3 DEF DoStart
  <2>3. m \in Protocols(Invitations)
    BY <2>1, StarterType
  <2> QED
    BY <1>2, <2>2, <2>3 DEF Messages, OwnMethods
<1>4. CASE Other(c)
  <2>1. PICK path \in Others : Invoke(c, Call(c, path))
    BY <1>4 DEF Other
  <2>2. path \in Paths /\ MethodOf(path).streams = (l[2] = "stream")
    BY <1>1, PathKinds
  <2>3. path # <<"ProtocolService", "Start">> /\ path # <<"ProtocolService", "Run">>
        /\ path # <<"ProtocolService", "Resume">>
    BY ConstantsAssumption
  <2>4. NoProtocol \in Messages
    BY NoRequestGood DEF Messages
  <2>5. Call(c, path) \in RequestType /\ Good(l, Call(c, path), protocols)
    BY <1>1, <2>2, <2>3, <2>4, CallGood
  <2> QED
    BY <2>1, <2>5, InvokeInv
<1>5. ASSUME NEW p \in DOMAIN protocols, DoResume(c, p) PROVE CallsInv'
  <2>1. PICK s \in {"ACK", "NACK"} :
          Invoke(c, CallWith(c, "Resume", ProtocolState(IDOf(p, "RESUMER"), s)))
    BY <1>5 DEF DoResume
  <2>2. ProtocolState(IDOf(p, "RESUMER"), s) \in ProtocolStates
    <3>1. "RESUMER" \in Roles /\ s \in States
      BY DEF Roles, States
    <3>2. IDOf(p, "RESUMER") \in ProtocolIDs
      BY <3>1, IDType DEF CallsInv
    <3> QED
      BY <3>1, <3>2 DEF ProtocolState, ProtocolStates
  <2> QED
    BY <1>2, <2>1, <2>2 DEF Messages, OwnMethods
<1>6. ASSUME NEW p \in DOMAIN protocols, DoRelease(c, p) \/ DoStatus(c, p) PROVE CallsInv'
  <2>1. protocols[p].message.role \in Roles
    <3>1. "UNKNOWN" \in Roles
      BY DEF Roles
    <3>2. protocols[p].message \in Protocols(Invitations)
      BY <3>1, IDType DEF CallsInv
    <3> QED
      BY <3>2 DEF Protocols
  <2>2. IDOf(p, protocols[p].message.role) \in Messages
    BY <2>1, IDType DEF CallsInv, Messages
  <2> QED
    BY <1>2, <1>6, <2>2 DEF DoRelease, DoStatus, OwnMethods
<1> QED
  BY <1>3, <1>4, <1>5, <1>6

\* A stream opens, and a DID exchange gives its Pairwise the ID.
LEMMA NewStreamInv ==
  ASSUME CallsInv, NEW c \in Clients, doRun(c) \/ PSMHook(c)
  PROVE  CallsInv'
<1> DEFINE l == <<c, "stream">>
           t == [NoStream EXCEPT !.pc = "recv"]
<1>1. l \in Lines /\ (l[2] = "stream") = TRUE
  BY DEF Lines
<1>2. ASSUME NEW r \in RequestType, Good(l, r, protocols), NewStream(c, r), PairwiseOK'
      PROVE  CallsInv'
  <2>1. ProtocolsOK' /\ Grown(protocols, protocols') /\ BaseOK'
    BY <1>2, GrownSame DEF NewStream, CallsInv, BaseOK
  <2>2. RequestsOK'
    <3>1. Good(l, r, protocols') /\ SetRequest(l, r)
      BY <1>2 DEF NewStream, SetRequest
    <3> QED
      BY <3>1, <1>1, <2>1, SetRequestKeeps DEF CallsInv
  <2>3. t \in StreamType /\ Account(t) /\ t.ending = None /\ t.pc # "none"
    <3>1. t.ending = None /\ t.pc = "recv"
      BY DEF NoStream
    <3> QED
      BY <3>1, StreamOpens
  <2>4. stream' = [stream EXCEPT ![c] = t]
    BY <1>2 DEF NewStream
  <2> HIDE DEF t
  <2>5. StreamsOK'
    BY <2>3, <2>4 DEF CallsInv, StreamsOK
  <2>6. Linked'
    <3> SUFFICES ASSUME NEW d \in Clients, request'[<<d, "stream">>].stage # "idle"
                 PROVE  stream'[d].ending = None /\ stream'[d].pc # "none"
      BY DEF Linked
    <3>1. CASE d = c
      BY <3>1, <2>3, <2>4 DEF CallsInv, StreamsOK
    <3>2. CASE d # c
      <4>1. <<d, "stream">> \in Lines /\ <<d, "stream">> # l
        BY <3>2 DEF Lines
      <4>2. request'[<<d, "stream">>] = request[<<d, "stream">>]
        BY <4>1, <1>2 DEF NewStream, CallsInv, RequestsOK
      <4>3. stream'[d] = stream[d]
        BY <3>2, <2>4 DEF CallsInv, StreamsOK
      <4> QED
        BY <4>2, <4>3 DEF CallsInv, Linked
    <3> QED
      BY <3>1, <3>2
  <2> QED
    BY <1>2, <2>1, <2>2, <2>5, <2>6 DEF CallsInv
<1>3. CASE doRun(c)
  <2> DEFINE path == <<"ProtocolService", "Run">>
  <2>1. PICK m \in RunStarters(pairwise[c].ID, Invitations) :
          /\ NewStream(c, CallWith(c, "Run", m))
          /\ pairwise' = IF m.typeID = "DIDEXCHANGE"
                          THEN [pairwise EXCEPT ![c] = [ID |-> m.invitation, by |-> "Run"]]
                          ELSE pairwise
    BY <1>3 DEF doRun
  <2>2. m \in Protocols(Invitations)
    BY StarterType DEF CallsInv, PairwiseOK
  <2>3. path \in Paths /\ MethodOf(path).streams = (l[2] = "stream")
    BY <1>1, PathKinds DEF OwnMethods
  <2>4. CallWith(c, "Run", m) \in RequestType /\ Good(l, CallWith(c, "Run", m), protocols)
    BY <1>1, <2>2, <2>3, CallGood DEF CallWith, Messages
  <2>5. PairwiseOK'
    <3>1. m.invitation \in Invitations \cup {None}
      BY <2>2 DEF Protocols
    <3>2. UNCHANGED protocols
      BY <2>1 DEF NewStream
    <3> QED
      BY <2>1, <3>1, <3>2 DEF CallsInv, PairwiseOK, AgencyKnowsConnection
  <2> QED
    BY <1>2, <2>1, <2>4, <2>5
<1>4. CASE PSMHook(c)
  <2> DEFINE path == <<"AgencyService", "PSMHook">>
  <2>1. path \in Paths /\ MethodOf(path).streams = (l[2] = "stream")
    BY <1>1, PathKinds
  <2>2. NoProtocol \in Messages
    BY NoRequestGood DEF Messages
  <2>3. Call(c, path) \in RequestType /\ Good(l, Call(c, path), protocols)
    BY <1>1, <2>1, <2>2, CallGood
  <2>4. PairwiseOK'
    BY <1>4 DEF PSMHook, NewStream, CallsInv, PairwiseOK, AgencyKnowsConnection
  <2> QED
    BY <1>2, <1>4, <2>3, <2>4 DEF PSMHook
<1> QED
  BY <1>3, <1>4

\* A stream that breaks keeps its account, and one that does not is as it was.
LEMMA BreakStreamType ==
  ASSUME CallsInv, NEW c \in Clients, NEW s \in BreakStream(c)
  PROVE  s \in StreamType /\ Account(s)
<1>1. stream[c] \in StreamType /\ Account(stream[c])
  BY DEF CallsInv, StreamsOK
<1>2. CASE stream[c].pc \in {"recv", "send"} /\ stream[c].ending # "error"
  <2>1. PICK n \in 0 .. Len(stream[c].inflight) :
          s = [stream[c] EXCEPT !.ending = "error", !.inflight = SubSeq(@, 1, n)]
    BY <1>2 DEF BreakStream
  <2> QED
    BY <1>1, <1>2, <2>1, StreamBreaks
<1>3. CASE ~(stream[c].pc \in {"recv", "send"} /\ stream[c].ending # "error")
  BY <1>1, <1>3 DEF BreakStream
<1> QED
  BY <1>2, <1>3

\* The transport breaks, or the client ends a stream or its connection.
LEMMA BreakInv ==
  ASSUME CallsInv, NEW c \in Clients, Breaks(c) \/ Close(c) \/ Cancel(c)
  PROVE  CallsInv'
<1> DEFINE u == <<c, "unary">>
           l == <<c, "stream">>
           b == IF Cancel(c) THEN request[u] ELSE BreakUnary(c)
<1>1. u \in Lines /\ l \in Lines /\ u # l /\ u[2] # "stream"
  BY DEF Lines
<1>2. UNCHANGED protocols /\ ProtocolsOK' /\ ProtocolsOK
  BY GrownSame DEF Breaks, Close, Cancel, Break, CallsInv
<1>3. BaseOK'
  <2>1. NoConn \in [open : BOOLEAN, tls : BOOLEAN, token : Tokens]
    BY ConstantsAssumption DEF NoConn, NoToken, Tokens
  <2> QED
    BY <2>1 DEF Breaks, Close, Cancel, Break, CallsInv, BaseOK
<1>4. PairwiseOK'
  <2>1. CASE UNCHANGED pairwise
    BY <1>2, <2>1 DEF CallsInv, PairwiseOK, AgencyKnowsConnection
  <2>2. CASE pairwise' = [pairwise EXCEPT ![c] = NoPairwise]
    BY <1>2, <2>2 DEF CallsInv, PairwiseOK, AgencyKnowsConnection, NoPairwise, None
  <2> QED
    BY <2>1, <2>2 DEF Breaks, Close, Cancel
<1>5. request[u] \in RequestType /\ Good(u, request[u], protocols) /\ request \in [Lines -> RequestType]
  BY <1>1 DEF CallsInv, RequestsOK
<1>6. BreakUnary(c) \in RequestType /\ Good(u, BreakUnary(c), protocols)
  <2>1. CASE request[u].stage = "idle"
    BY <2>1, <1>1, <1>2, NoRequestGood DEF BreakUnary
  <2>2. CASE request[u].stage = "replied"
    <3> DEFINE r == [request[u] EXCEPT !.ok = FALSE]
    <3>1. BreakUnary(c) = r
      BY <2>2 DEF BreakUnary
    <3>2. /\ r \in RequestType /\ r.stage = "replied" /\ r.ok = FALSE /\ r.path = request[u].path
          /\ r.message = request[u].message /\ r.protocol = request[u].protocol
      BY <1>5, <2>2 DEF RequestType
    <3> HIDE DEF r
    <3> QED
      BY <1>5, <2>2, <3>1, <3>2 DEF Good
  <2>3. CASE request[u].stage \notin {"idle", "replied"}
    <3> DEFINE m == Answerable(request[u])
               r == [NoRequest EXCEPT !.stage = "replied", !.message = m]
    <3>1. BreakUnary(c) = r
      BY <2>3 DEF BreakUnary
    <3>2. m \in Protocols(Invitations)
      BY <1>5, NoRequestGood DEF Answerable, Good
    <3>3. NoRequest.path = <<None, None>> /\ NoRequest.protocol = 0 /\ NoRequest.ok = FALSE
      BY DEF NoRequest
    <3>4. /\ r \in RequestType /\ r.stage = "replied" /\ r.ok = FALSE /\ r.path = <<None, None>>
          /\ r.message = m /\ r.protocol = 0
      BY <3>2, <3>3, NoRequestGood DEF RequestType, Messages
    <3>5. Len(protocols) \in Nat /\ None # "ProtocolService"
      BY <1>2 DEF ProtocolsOK, None
    <3> HIDE DEF r, m
    <3> QED
      BY <3>1, <3>2, <3>4, <3>5 DEF Good
  <2> QED
    BY <2>1, <2>2, <2>3
<1>7. request' = [request EXCEPT ![u] = b, ![l] = NoRequest]
  BY <1>1, <1>5 DEF Breaks, Close, Cancel, Break
<1>8. b \in RequestType /\ Good(u, b, protocols)
  BY <1>5, <1>6
<1> HIDE DEF b
<1>9. RequestsOK'
  <2>1. request' \in [Lines -> RequestType]
    BY <1>5, <1>7, <1>8, NoRequestGood
  <2>2. ASSUME NEW k \in Lines PROVE Good(k, request'[k], protocols')
    <3>1. request'[k] = (IF k = l THEN NoRequest ELSE IF k = u THEN b ELSE request[k])
      BY <1>1, <1>5, <1>7
    <3>2. Good(k, request'[k], protocols)
      BY <3>1, <1>1, <1>2, <1>8, NoRequestGood DEF CallsInv, RequestsOK
    <3> QED
      BY <3>2, <1>2
  <2>3. RequestsOK' = (request' \in [Lines -> RequestType] /\ \A k \in Lines : Good(k, request'[k], protocols'))
    BY DEF RequestsOK
  <2> QED
    BY <2>1, <2>2, <2>3
<1>10. PICK s \in BreakStream(c) : stream' = [stream EXCEPT ![c] = s]
  BY DEF Breaks, Close, Cancel, Break
<1>11. StreamsOK'
  BY <1>10, BreakStreamType DEF CallsInv, StreamsOK
<1>12. Linked'
  <2> SUFFICES ASSUME NEW d \in Clients, request'[<<d, "stream">>].stage # "idle"
               PROVE  stream'[d].ending = None /\ stream'[d].pc # "none"
    BY DEF Linked
  <2>1. <<d, "stream">> \in Lines /\ <<d, "stream">> # u
    BY DEF Lines
  <2>2. d # c
    BY <1>1, <1>5, <1>7 DEF NoRequest
  <2>3. request'[<<d, "stream">>] = request[<<d, "stream">>]
    BY <2>1, <2>2, <1>5, <1>7
  <2>4. stream'[d] = stream[d]
    BY <2>2, <1>10 DEF CallsInv, StreamsOK
  <2> QED
    BY <2>3, <2>4 DEF CallsInv, Linked
<1> QED
  BY <1>2, <1>3, <1>4, <1>9, <1>11, <1>12 DEF CallsInv

\* A client gets its answer: the ID of a DID exchange is one the agency started.
LEMMA ReturnInv ==
  ASSUME CallsInv, NEW c \in Clients, Return(c)
  PROVE  CallsInv'
<1> DEFINE u == <<c, "unary">>
           r == request[u]
<1>1. u \in Lines /\ u[2] # "stream"
  BY DEF Lines
<1>2. r.stage = "replied" /\ Good(u, r, protocols) /\ SetRequest(u, NoRequest)
  BY <1>1 DEF Return, SetRequest, CallsInv, RequestsOK
<1>3. ProtocolsOK' /\ Grown(protocols, protocols') /\ UNCHANGED protocols
  BY GrownSame DEF Return, CallsInv
<1>4. RequestsOK'
  BY <1>1, <1>2, <1>3, NoRequestGood, SetRequestKeeps DEF CallsInv
<1>5. PairwiseOK'
  <2>1. r.message.invitation \in Invitations \cup {None}
    BY <1>2 DEF Good, Protocols
  <2>2. CASE r.ok /\ r.message.typeID = "DIDEXCHANGE"
    <3>1. \E p \in DOMAIN protocols : protocols[p].message.invitation = r.message.invitation
      BY <1>2, <2>2 DEF Good
    <3>2. pairwise' = [pairwise EXCEPT ![c] = [ID |-> r.message.invitation, by |-> "Start"]]
      BY <2>2 DEF Return
    <3> QED
      BY <2>1, <3>1, <3>2, <1>3 DEF CallsInv, PairwiseOK, AgencyKnowsConnection
  <2>3. CASE ~(r.ok /\ r.message.typeID = "DIDEXCHANGE")
    BY <2>3, <1>3 DEF Return, CallsInv, PairwiseOK, AgencyKnowsConnection
  <2> QED
    BY <2>2, <2>3
<1>6. Linked'
  <2> SUFFICES ASSUME NEW d \in Clients, request'[<<d, "stream">>].stage # "idle"
               PROVE  stream'[d].ending = None /\ stream'[d].pc # "none"
    BY DEF Linked
  <2>1. <<d, "stream">> \in Lines /\ <<d, "stream">> # u
    BY DEF Lines
  <2>2. request'[<<d, "stream">>] = request[<<d, "stream">>]
    BY <2>1, <1>2 DEF SetRequest, CallsInv, RequestsOK
  <2> QED
    BY <2>2 DEF Return, CallsInv, Linked
<1>7. BaseOK' /\ StreamsOK'
  BY DEF Return, CallsInv, BaseOK, StreamsOK
<1> QED
  BY <1>3, <1>4, <1>5, <1>6, <1>7 DEF CallsInv

\* The goroutine of a stream.
LEMMA GoroutineInv ==
  ASSUME CallsInv, NEW c \in Clients, Recv(c) \/ Deliver(c)
  PROVE  CallsInv'
<1> DEFINE s == stream[c]
           taken == [s EXCEPT !.pc = "send", !.status = Head(s.inflight), !.inflight = Tail(@)]
           closed == [s EXCEPT !.pc = "closed"]
           heard == [s EXCEPT !.pc = "recv", !.status = <<>>, !.heard = Append(@, s.status)]
<1>1. s \in StreamType /\ Account(s)
  BY DEF CallsInv, StreamsOK
<1>2. CASE s.pc = "recv" /\ s.inflight # <<>> /\ SetStream(c, taken)
  <2>1. taken \in StreamType /\ Account(taken)
    BY <1>1, <1>2, StreamTakes
  <2>2. taken.ending = s.ending /\ taken.pc = "send"
    BY <1>1 DEF StreamType
  <2> QED
    BY <1>2, <2>1, <2>2, StreamStep
<1>3. CASE s.pc = "recv" /\ s.inflight = <<>> /\ s.ending # None /\ SetStream(c, closed)
  <2>1. closed \in StreamType /\ Account(closed)
    BY <1>1, <1>3, StreamCloses
  <2>2. closed.ending = s.ending /\ closed.pc = "closed"
    BY <1>1 DEF StreamType
  <2> QED
    BY <1>3, <2>1, <2>2, StreamStep
<1>4. CASE s.pc = "send" /\ SetStream(c, heard)
  <2>1. heard \in StreamType /\ Account(heard)
    BY <1>1, <1>4, StreamHears
  <2>2. heard.ending = s.ending /\ heard.pc = "recv"
    BY <1>1 DEF StreamType
  <2> QED
    BY <1>4, <2>1, <2>2, StreamStep
<1> QED
  BY <1>2, <1>3, <1>4 DEF Recv, Deliver

\* The interceptors.
LEMMA AuthorizeInv ==
  ASSUME CallsInv, NEW l \in Lines, Authorize(l) \/ Check(l)
  PROVE  CallsInv'
<1> DEFINE r == request[l]
           v == [r EXCEPT !.stage = "validated"]
<1>1. r \in RequestType /\ Good(l, r, protocols) /\ r.stage \in {"sent", "validated"}
  BY DEF CallsInv, RequestsOK, Authorize, Check
<1>2. CASE UNCHANGED protocols /\ Answered(l, FALSE)
  BY <1>1, <1>2, GrownSame, AnsweredStep DEF CallsInv
<1>3. ASSUME NEW user \in Callers, Handled(l, user) PROVE CallsInv'
  <2> DEFINE h == [r EXCEPT !.stage = "handling", !.user = user, !.token = NoToken]
  <2>1. NoToken \in Tokens
    BY ConstantsAssumption DEF NoToken, Tokens
  <2>2. /\ h \in RequestType /\ h.stage = "handling" /\ h.path = r.path /\ h.message = r.message
        /\ h.protocol = r.protocol
    BY <1>1, <2>1 DEF RequestType
  <2>3. SetRequest(l, h)
    BY <1>3 DEF Handled
  <2> HIDE DEF h
  <2>4. Good(l, h, protocols)
    BY <1>1, <2>2 DEF Good
  <2> QED
    BY <1>1, <1>3, <2>2, <2>3, <2>4, RequestStep DEF Handled, ServerUnchanged
<1>4. CASE r.stage = "sent" /\ validateAndUser(r.token) # None /\ SetRequest(l, v)
           /\ ServerUnchanged /\ UNCHANGED <<stream, protocols>>
  <2>1. r.token.user # None
    BY <1>4 DEF validateAndUser
  <2>2. /\ v \in RequestType /\ v.stage = "validated" /\ v.path = r.path /\ v.message = r.message
        /\ v.protocol = r.protocol /\ v.token = r.token
    BY <1>1 DEF RequestType
  <2> HIDE DEF v
  <2>3. Good(l, v, protocols)
    BY <1>1, <2>1, <2>2 DEF Good
  <2> QED
    BY <1>1, <1>4, <2>2, <2>3, RequestStep DEF ServerUnchanged
<1>5. CASE Authorize(l)
  BY <1>2, <1>3, <1>4, <1>5 DEF Authorize, Callers
<1>6. CASE Check(l)
  <2>1. r.token.user \in Callers
    BY <1>1 DEF RequestType, Tokens, Callers
  <2> QED
    BY <1>2, <1>3, <1>6, <2>1 DEF Check
<1> QED
  BY <1>5, <1>6

\* A new protocol, of the call it is started by.
LEMMA StartedGrows ==
  ASSUME CallsInv, NEW l \in Lines, Accepts(l), request[l].message \in Protocols(Invitations),
         protocols' = Started(l)
  PROVE  /\ ProtocolsOK' /\ Grown(protocols, protocols')
         /\ Len(protocols) + 1 \in 1 .. MaxProtocols /\ Len(protocols') = Len(protocols) + 1
         /\ protocols'[Len(protocols) + 1].message = request[l].message
<1> DEFINE x == [user |-> request[l].user, message |-> request[l].message, state |-> "RUNNING"]
<1>1. x \in ProtocolType
  BY DEF CallsInv, RequestsOK, RequestType, ProtocolType, States
<1>2. protocols' = Append(protocols, x) /\ protocols \in Seq(ProtocolType) /\ Len(protocols) < MaxProtocols
  BY DEF Started, CallsInv, ProtocolsOK, Accepts
<1> HIDE DEF x
<1>3. /\ protocols' \in Seq(ProtocolType) /\ Len(protocols') = Len(protocols) + 1
      /\ protocols'[Len(protocols) + 1] = x
      /\ \A p \in 1 .. Len(protocols) : protocols'[p] = protocols[p]
  BY <1>1, <1>2
<1>4. Len(protocols) \in Nat
  BY <1>2
<1> QED
  BY <1>2, <1>3, <1>4, ConstantsAssumption DEF ProtocolsOK, Grown, x

\* The handlers that start protocols.
LEMMA StartInv ==
  ASSUME CallsInv, NEW l \in Lines, Start(l) \/ Run(l)
  PROVE  CallsInv'
<1> DEFINE r == request[l]
           n == Len(protocols) + 1
<1>1. r \in RequestType /\ Good(l, r, protocols) /\ r.stage = "handling"
  BY DEF CallsInv, RequestsOK, Start, Run, Handles
<1>2. r.message \in Protocols(Invitations)
  BY <1>1 DEF Start, Run, Handles, Good
<1>3. /\ ProtocolsOK' /\ Grown(protocols, protocols') /\ n \in 1 .. MaxProtocols
      /\ Len(protocols') = n /\ protocols'[n].message = r.message
  BY <1>2, StartedGrows DEF Start, Run
<1>4. CASE Start(l)
  <2>1. \E p \in DOMAIN protocols' : protocols'[p].message.invitation = r.message.invitation
    <3>1. n \in DOMAIN protocols'
      BY <1>3 DEF ProtocolsOK
    <3> QED
      BY <3>1, <1>3
  <2> QED
    BY <1>1, <1>3, <1>4, <2>1, AnsweredStep DEF Start
<1>5. CASE Run(l)
  <2> DEFINE q == [r EXCEPT !.protocol = n]
  <2>1. n \in 0 .. MaxProtocols
    BY <1>3
  <2>2. /\ q \in RequestType /\ q.stage = "handling" /\ q.path = r.path /\ q.message = r.message
        /\ q.protocol = n
    BY <1>1, <2>1 DEF RequestType
  <2>3. SetRequest(l, q) /\ UNCHANGED stream /\ ServerUnchanged
    BY <1>5 DEF Run
  <2> HIDE DEF q
  <2>4. Good(l, q, protocols')
    BY <1>1, <1>3, <2>2 DEF Good
  <2>5. RequestsOK'
    BY <1>3, <2>2, <2>3, <2>4, SetRequestKeeps DEF CallsInv
  <2>6. Linked'
    <3> SUFFICES ASSUME NEW c \in Clients, request'[<<c, "stream">>].stage # "idle"
                 PROVE  stream[c].ending = None /\ stream[c].pc # "none"
      BY <2>3 DEF Linked
    <3>1. <<c, "stream">> \in Lines
      BY DEF Lines
    <3>2. request[<<c, "stream">>].stage # "idle"
      BY <3>1, <1>1, <2>3 DEF SetRequest, CallsInv, RequestsOK
    <3> QED
      BY <3>2 DEF CallsInv, Linked
  <2>7. BaseOK' /\ StreamsOK' /\ PairwiseOK'
    BY <1>3, <2>3, KnownGrows DEF ServerUnchanged, CallsInv, BaseOK, StreamsOK
  <2> QED
    BY <1>3, <2>5, <2>6, <2>7 DEF CallsInv
<1> QED
  BY <1>4, <1>5

\* A protocol's state changes, and what it was started with does not.
LEMMA StateChanges ==
  ASSUME ProtocolsOK, NEW p, NEW s \in States, protocols' = [protocols EXCEPT ![p].state = s]
  PROVE  ProtocolsOK' /\ Grown(protocols, protocols')
<1>1. CASE p \notin DOMAIN protocols
  <2>1. protocols' = protocols
    BY <1>1 DEF ProtocolsOK
  <2> QED
    BY <2>1, GrownSame
<1>2. CASE p \in DOMAIN protocols
  <2> DEFINE x == [protocols[p] EXCEPT !.state = s]
  <2>1. protocols \in Seq(ProtocolType) /\ protocols[p] \in ProtocolType /\ p \in 1 .. Len(protocols)
    BY <1>2 DEF ProtocolsOK
  <2>2. x \in ProtocolType /\ x.message = protocols[p].message
    BY <2>1 DEF ProtocolType
  <2>3. protocols' = [protocols EXCEPT ![p] = x]
    OBVIOUS
  <2> HIDE DEF x
  <2>4. /\ protocols' \in Seq(ProtocolType) /\ Len(protocols') = Len(protocols)
        /\ \A q \in 1 .. Len(protocols) : protocols'[q] = IF q = p THEN x ELSE protocols[q]
    BY <2>1, <2>2, <2>3, ExceptSeq
  <2> QED
    BY <2>1, <2>2, <2>4 DEF ProtocolsOK, Grown
<1> QED
  BY <1>1, <1>2

\* The handlers that only answer, and the one that resumes a protocol.
LEMMA HandlersInv ==
  ASSUME CallsInv, NEW l \in Lines,
         Enter(l) \/ HandlerFails(l) \/ Resume(l) \/ Answers(l) \/ HookEnds(l)
  PROVE  CallsInv'
<1> DEFINE r == request[l]
<1>1. r \in RequestType /\ Good(l, r, protocols) /\ r.stage = "handling"
  BY DEF CallsInv, RequestsOK, Enter, HandlerFails, Resume, Answers, HookEnds, Handles
<1>2. ASSUME NEW ok \in BOOLEAN, Answered(l, ok), UNCHANGED protocols,
             ok => r.path # <<"ProtocolService", "Start">>
      PROVE  CallsInv'
  <2>1. ProtocolsOK' /\ Grown(protocols, protocols')
    BY <1>2, GrownSame DEF CallsInv
  <2> QED
    BY <1>1, <1>2, <2>1, AnsweredStep
<1>3. CASE Enter(l)
  <2>1. PICK ok \in BOOLEAN : Answered(l, ok)
    BY <1>3, (cfg.NoAuthorization \/ request[l].user = Root) \in BOOLEAN DEF Enter
  <2> QED
    BY <1>2, <1>3, <2>1 DEF Enter, Handles
<1>4. CASE HandlerFails(l)
  BY <1>2, <1>4 DEF HandlerFails
<1>5. CASE Answers(l)
  BY <1>2, <1>5 DEF Answers
<1>6. CASE HookEnds(l)
  <2>1. r.path # <<"ProtocolService", "Start">>
    BY <1>6 DEF HookEnds, Handles
  <2>2. Answered(l, TRUE) /\ UNCHANGED protocols
    BY <1>6 DEF HookEnds
  <2> QED
    BY <1>2, <2>1, <2>2
<1>7. CASE Resume(l)
  <2> DEFINE p == r.message.protocolID.ID
             s == IF protocols[p].state = "WAIT_ACTION" THEN r.message.state ELSE protocols[p].state
  <2>1. r.message \in ProtocolStates
    BY <1>1, <1>7 DEF Resume, Handles, Good
  <2>2. r.message.state \in States
    BY <2>1 DEF ProtocolStates
  <2>3. protocols' = [protocols EXCEPT ![p].state = s] /\ Answered(l, TRUE)
    BY <1>7 DEF Resume
  <2>4. ProtocolsOK' /\ Grown(protocols, protocols')
    <3>1. CASE p \in DOMAIN protocols
      <4>1. s \in States
        <5>1. protocols[p] \in ProtocolType
          BY <3>1 DEF CallsInv, ProtocolsOK
        <5>2. protocols[p].state \in States
          BY <5>1 DEF ProtocolType
        <5> QED
          BY <5>2, <2>2
      <4> HIDE DEF s
      <4> QED
        BY <2>3, <4>1, StateChanges DEF CallsInv
    <3>2. CASE p \notin DOMAIN protocols
      <4>1. protocols' = protocols
        BY <2>3, <3>2 DEF CallsInv, ProtocolsOK
      <4> QED
        BY <4>1, GrownSame DEF CallsInv
    <3> QED
      BY <3>1, <3>2
  <2>5. r.path # <<"ProtocolService", "Start">>
    BY <1>7 DEF Resume, Handles
  <2> QED
    BY <1>1, <2>3, <2>4, <2>5, AnsweredStep
<1> QED
  BY <1>3, <1>4, <1>5, <1>6, <1>7

\* A protocol goes on and tells the streams.
LEMMA ProceedInv ==
  ASSUME CallsInv, NEW p \in DOMAIN protocols, NEW s \in States, Proceed(p, s)
  PROVE  CallsInv'
<1> DEFINE final(r) == s \in {"OK", "ERR"} /\ r.stage = "handling" /\ r.protocol = p
           e(c) == IF final(request[<<c, "stream">>]) THEN "EOF" ELSE stream[c].ending
<1>1. ProtocolsOK' /\ Grown(protocols, protocols')
  BY StateChanges DEF Proceed, CallsInv
<1>2. BaseOK' /\ PairwiseOK'
  BY <1>1, KnownGrows DEF Proceed, ServerUnchanged, CallsInv, BaseOK
<1>3. request' = [l \in Lines |-> IF final(request[l]) THEN NoRequest ELSE request[l]]
  BY DEF Proceed
<1>4. RequestsOK'
  <2>1. request' \in [Lines -> RequestType]
    BY <1>3, NoRequestGood DEF CallsInv, RequestsOK
  <2>2. ASSUME NEW l \in Lines PROVE Good(l, request'[l], protocols')
    <3>1. request'[l] \in RequestType /\ Good(l, request'[l], protocols)
      BY <1>3, NoRequestGood DEF CallsInv, RequestsOK
    <3> QED
      BY <3>1, <1>1, GoodGrows DEF CallsInv, ProtocolsOK
  <2>3. RequestsOK' = (request' \in [Lines -> RequestType] /\ \A l \in Lines : Good(l, request'[l], protocols'))
    BY DEF RequestsOK
  <2> QED
    BY <2>1, <2>2, <2>3
<1>5. ASSUME NEW c \in Clients, Streams(c, p)
      PROVE  /\ stream'[c] \in StreamType /\ Account(stream'[c])
             /\ stream'[c].ending = e(c) /\ stream'[c].pc # "none"
  <2> DEFINE r == request[<<c, "stream">>]
             x == Says(r, p, s)
             t == [[stream[c] EXCEPT !.told = Append(@, x), !.inflight = Append(@, x)] EXCEPT !.ending = e(c)]
  <2>1. <<c, "stream">> \in Lines /\ r.stage = "handling"
    BY <1>5 DEF Streams, Lines
  <2>2. /\ stream[c] \in StreamType /\ Account(stream[c]) /\ stream[c].ending = None
        /\ stream[c].pc # "none" /\ Len(stream[c].told) < MaxStates
    BY <1>5, <2>1 DEF Proceed, CallsInv, StreamsOK, Linked
  <2>3. x \in Statuses
    <3> DEFINE m == protocols[p].message
    <3>1. m \in Protocols(Invitations)
      BY IDType DEF CallsInv, Roles
    <3>2. m.role \in Roles /\ m.connectionID \in Invitations \cup {None}
      BY <3>1 DEF Protocols
    <3>3. IDOf(p, m.role) \in ProtocolIDs
      BY <3>2, IDType DEF CallsInv
    <3>4. ProtocolState(IDOf(p, m.role), s) \in ProtocolStates
      BY <3>3 DEF ProtocolState, ProtocolStates
    <3>5. AgencyStatus(ProtocolStatus(ProtocolState(IDOf(p, m.role), s)), m.connectionID) \in AgencyStatuses
      BY <3>2, <3>4 DEF AgencyStatus, ProtocolStatus, AgencyStatuses
    <3> QED
      BY <3>4, <3>5 DEF Says, Statuses
  <2>4. e(c) \in {None, "EOF"}
    BY <2>2
  <2>5. stream'[c] = t
    BY <1>5 DEF Proceed, Told
  <2> HIDE DEF x, e
  <2>6. t \in StreamType /\ Account(t)
    BY <2>2, <2>3, <2>4, StreamTells
  <2>7. t.ending = e(c) /\ t.pc = stream[c].pc
    BY <2>2 DEF StreamType
  <2> QED
    BY <2>2, <2>5, <2>6, <2>7
<1>6. ASSUME NEW c \in Clients, ~Streams(c, p) PROVE stream'[c] = stream[c]
  BY <1>6 DEF Proceed
<1>7. StreamsOK'
  <2>1. \A c \in Clients : stream'[c] \in StreamType /\ Account(stream'[c])
    BY <1>5, <1>6 DEF CallsInv, StreamsOK
  <2>2. stream' = [c \in Clients |-> stream'[c]]
    BY DEF Proceed
  <2>3. StreamsOK' = (stream' \in [Clients -> StreamType] /\ \A c \in Clients : Account(stream'[c]))
    BY DEF StreamsOK, Account
  <2> QED
    BY <2>1, <2>2, <2>3
<1>8. Linked'
  <2> SUFFICES ASSUME NEW c \in Clients, request'[<<c, "stream">>].stage # "idle"
               PROVE  stream'[c].ending = None /\ stream'[c].pc # "none"
    BY DEF Linked
  <2>1. <<c, "stream">> \in Lines
    BY DEF Lines
  <2>2. ~final(request[<<c, "stream">>]) /\ request'[<<c, "stream">>] = request[<<c, "stream">>]
    BY <2>1, <1>3 DEF NoRequest
  <2>3. stream[c].ending = None /\ stream[c].pc # "none"
    BY <2>2 DEF CallsInv, Linked
  <2> QED
    BY <2>2, <2>3, <1>5, <1>6
<1> QED
  BY <1>1, <1>2, <1>4, <1>7, <1>8 DEF CallsInv

\* Every step keeps the invariant.
LEMMA InvStep == CallsInv /\ [Next]_vars => CallsInv'
<1> SUFFICES ASSUME CallsInv, [Next]_vars PROVE CallsInv'
  OBVIOUS
<1>1. CASE UNCHANGED vars
  BY <1>1, BaseStep DEF vars, CallsInv, BaseOK
<1>2. ASSUME NEW c \in Clients, Client(c) PROVE CallsInv'
  BY <1>2, BaseInv, UnaryInv, NewStreamInv, NewPairwiseInv, ReturnInv, GoroutineInv, BreakInv DEF Client
<1>3. ASSUME NEW l \in Lines, Serves(l) \/ HookEnds(l) PROVE CallsInv'
  BY <1>3, AuthorizeInv, HandlersInv, StartInv DEF Serves
<1> QED
  BY <1>1, <1>2, <1>3, BaseInv, ProceedInv DEF Next

-----------------------------------------------------------------------------
(* What follows from it.                                                     *)

(* Every variable keeps its type, whatever breaks, is lost or is refused: a
   call has a message of its method, and a stream tells statuses only. *)
THEOREM TypeCorrect == Spec => []TypeOK
<1>1. CallsInv => TypeOK
  <2> SUFFICES ASSUME CallsInv PROVE TypeOK
    OBVIOUS
  <2>1. request \in [Lines -> RequestType]
    BY DEF CallsInv, RequestsOK
  <2>2. ASSUME NEW l \in Lines
        PROVE  /\ request[l].stage \in {"idle", "sent", "validated", "handling", "replied"}
               /\ request[l].message \in Protocols(Invitations) \cup ProtocolIDs \cup ProtocolStates
               /\ request[l].protocol \in 0 .. Len(protocols)
               /\ request[l].token \in Tokens /\ request[l].user \in Users \cup {Root, None}
               /\ request[l].stage \notin {"idle", "replied"} => MethodOf(request[l].path).streams = (l[2] = "stream")
    <3>1. request[l] \in RequestType /\ Good(l, request[l], protocols)
      BY DEF CallsInv, RequestsOK
    <3>2. request[l].protocol \in 0 .. MaxProtocols /\ request[l].protocol <= Len(protocols)
      BY <3>1 DEF RequestType, Good
    <3>3. Len(protocols) \in Nat
      BY DEF CallsInv, ProtocolsOK
    <3>4. request[l].protocol \in 0 .. Len(protocols)
      BY <3>2, <3>3, ConstantsAssumption
    <3>5. request[l].stage \notin {"idle", "replied"} => MethodOf(request[l].path).streams = (l[2] = "stream")
      BY <3>1 DEF Good
    <3> QED
      BY <3>1, <3>4, <3>5 DEF RequestType, Messages, Callers
  <2>3. ASSUME NEW c \in Clients
        PROVE  /\ stream[c].pc \in {"none", "recv", "send", "closed"}
               /\ \A i \in DOMAIN stream[c].inflight : stream[c].inflight[i] \in Statuses
               /\ Len(stream[c].told) <= MaxStates
               /\ stream[c].ending \in {None, "EOF", "error"}
    <3>1. stream[c] \in StreamType /\ Account(stream[c])
      BY DEF CallsInv, StreamsOK
    <3>2. stream[c].inflight \in Seq(Statuses)
      BY <3>1, StreamFields
    <3>3. \A i \in DOMAIN stream[c].inflight : stream[c].inflight[i] \in Statuses
      BY <3>2
    <3>4. Len(stream[c].told) <= MaxStates
      BY <3>1 DEF Account, AccountOf
    <3> QED
      BY <3>1, <3>3, <3>4, StreamFields
  <2>4. ASSUME NEW p \in DOMAIN protocols
        PROVE  /\ protocols[p].user \in Users \cup {Root, None} /\ protocols[p].state \in States
               /\ protocols[p].message \in Protocols(Invitations)
    <3>1. protocols[p] \in ProtocolType
      BY DEF CallsInv, ProtocolsOK
    <3> QED
      BY <3>1 DEF ProtocolType, Callers
  <2>5. /\ now \in 0 .. MaxTime /\ cfg \in Configs /\ serving \in BOOLEAN
        /\ key \in [Processes -> Keys]
        /\ conn \in [Clients -> [open : BOOLEAN, tls : BOOLEAN, token : Tokens]]
        /\ pairwise \in [Clients -> [ID : Invitations \cup {None}, by : {None, "New", "Run", "Start"}]]
        /\ DOMAIN request = Lines /\ DOMAIN stream = Clients /\ Len(protocols) <= MaxProtocols
    BY <2>1 DEF CallsInv, BaseOK, PairwiseOK, StreamsOK, ProtocolsOK
  <2> QED
    BY <2>2, <2>3, <2>4, <2>5 DEF TypeOK
<1> QED
  BY <1>1, InvInit, InvStep, PTL DEF Spec

(* The caller of a stream hears what the agency told, in its order and without
   a gap, and all of it if the stream came to its end (doRun and PSMHook). *)
THEOREM HeardAsTold == Spec => []HeardIsTold
<1>1. CallsInv => HeardIsTold
  <2> SUFFICES ASSUME CallsInv, NEW c \in Clients
               PROVE  /\ IsPrefix(stream[c].heard, stream[c].told)
                      /\ stream[c].pc = "closed" /\ stream[c].ending = "EOF" => stream[c].heard = stream[c].told
    BY DEF HeardIsTold
  <2>1. stream[c] \in StreamType /\ Account(stream[c])
    BY DEF CallsInv, StreamsOK
  <2> QED
    BY <2>1, StreamFields, AccountHeard DEF Account
<1> QED
  BY <1>1, InvInit, InvStep, PTL DEF Spec

(* A Pairwise with an answered ID names a connection that the agency has
   started (Start and Return of the package async). *)
THEOREM ConnectionsKnown == Spec => []AgencyKnowsConnection
<1>1. CallsInv => AgencyKnowsConnection
  BY DEF CallsInv, PairwiseOK
<1> QED
  BY <1>1, InvInit, InvStep, PTL DEF Spec

(* No handler starts for a token that does not hold any more, or that another
   key signed (the interceptors of rpc/server.go and jwt). *)
THEOREM ServedByToken == Spec => ServedWhileValid
<1> DEFINE Handling(l) == request'[l].stage = "handling" /\ request[l].stage # "handling"
           Served(l) ==
             LET token == request[l].token IN
             /\ token.key = key[Server] /\ now <= token.expires
             /\ request'[l].user = token.user /\ token.user # None
<1>1. ASSUME CallsInv, Next, NEW l \in Lines, Handling(l), ~cfg.NoAuthorization, ~cfg.override
      PROVE  Served(l)
  <2>1. request \in [Lines -> RequestType] /\ NoRequest.stage = "idle"
    BY <1>1 DEF CallsInv, RequestsOK, NoRequest
  <2>2. Check(l)
    <3>1. UNCHANGED request => FALSE
      BY <1>1
    <3>2. ~(Tick \/ Serve \/ \E p \in Processes, s \in Secrets : SetJWTSecret(p, s))
      BY <3>1 DEF Tick, Serve, SetJWTSecret
    <3>3. ASSUME NEW c \in Clients, Client(c) PROVE FALSE
      <4>1. <<c, "unary">> \in Lines /\ <<c, "stream">> \in Lines
        BY DEF Lines
      <4>2. ASSUME NEW k \in Lines, NEW r, SetRequest(k, r), r.stage # "handling" PROVE FALSE
        BY <1>1, <2>1, <4>2 DEF SetRequest
      <4>3. \A path, m, method :
              Call(c, path).stage = "sent" /\ CallWith(c, method, m).stage = "sent"
        BY DEF Call, CallWith, NoRequest
      <4>4. ~(DoStart(c) \/ Other(c) \/ doRun(c) \/ PSMHook(c))
        BY <4>1, <4>2, <4>3 DEF DoStart, Other, doRun, PSMHook, Invoke, NewStream, SetRequest
      <4>5. ~ \E p \in DOMAIN protocols : DoResume(c, p) \/ DoRelease(c, p) \/ DoStatus(c, p)
        BY <4>1, <4>2, <4>3 DEF DoResume, DoRelease, DoStatus, Invoke, SetRequest
      <4>6. ~Return(c) /\ ~Cancel(c)
        BY <4>1, <4>2, <2>1 DEF Return, Cancel, SetRequest
      <4>7. ~Breaks(c) /\ ~Close(c)
        <5>1. BreakUnary(c).stage # "handling"
          BY <4>1, <2>1 DEF BreakUnary, RequestType, NoRequest
        <5> QED
          BY <1>1, <2>1, <4>1, <5>1 DEF Breaks, Close, Break
      <4>8. ~ \E u \in Users : TryOpen(c, u) \/ newClient(c, u)
        BY <3>1 DEF TryOpen, newClient, Open
      <4>9. ~Recv(c) /\ ~Deliver(c) /\ ~ \E id \in Invitations : NewPairwise(c, id)
        BY <3>1 DEF Recv, Deliver, SetStream, NewPairwise
      <4> QED
        BY <3>3, <4>4, <4>5, <4>6, <4>7, <4>8, <4>9 DEF Client
    <3>4. ASSUME NEW p \in DOMAIN protocols, NEW s \in States, Proceed(p, s) PROVE FALSE
      BY <1>1, <2>1, <3>4 DEF Proceed
    <3>5. ASSUME NEW k \in Lines, Serves(k) \/ HookEnds(k) PROVE Check(k) /\ k = l
      <4>1. ASSUME NEW ok, Answered(k, ok) PROVE FALSE
        BY <1>1, <2>1, <4>1 DEF Answered, SetRequest, NoRequest
      <4>2. ~Authorize(k)
        <5>1. ASSUME NEW r, SetRequest(k, [request[k] EXCEPT !.stage = "validated"]) PROVE FALSE
          BY <1>1, <2>1, <5>1 DEF SetRequest, RequestType
        <5> QED
          BY <1>1, <4>1, <5>1 DEF Authorize
      <4>3. ~Run(k)
        BY <1>1, <2>1 DEF Run, Handles, SetRequest, RequestType
      <4>4. Check(k)
        BY <3>5, <4>1, <4>2, <4>3 DEF Serves, Enter, Start, Resume, Answers, HandlerFails, HookEnds
      <4>5. k = l
        BY <1>1, <2>1, <4>1, <4>4 DEF Check, Handled, SetRequest
      <4> QED
        BY <4>4, <4>5
    <3> QED
      BY <1>1, <3>2, <3>3, <3>4, <3>5 DEF Next
  <2>3. Good(l, request[l], protocols) /\ request[l].stage = "validated"
    BY <1>1, <2>2 DEF CallsInv, RequestsOK, Check
  <2>4. ~Answered(l, FALSE)
    BY <1>1, <2>1 DEF Answered, SetRequest, NoRequest
  <2>5. Parses(request[l].token) /\ Handled(l, request[l].token.user)
    BY <2>2, <2>4 DEF Check
  <2>6. request'[l].user = request[l].token.user
    BY <2>1, <2>5 DEF Handled, SetRequest, RequestType
  <2> QED
    BY <2>3, <2>5, <2>6 DEF Parses, Good
<1>2. CallsInv /\ [Next]_vars =>
        [\A l \in Lines :
           LET token == request[l].token IN
           request'[l].stage = "handling" /\ request[l].stage # "handling"
           /\ ~cfg.NoAuthorization /\ ~cfg.override
           => token.key = key[Server] /\ now <= token.expires
              /\ request'[l].user = token.user /\ token.user # None]_vars
  BY <1>1
<1> QED
  BY <1>2, InvInit, InvStep, PTL DEF Spec, ServedWhileValid
================================================================================
