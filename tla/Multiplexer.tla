---------------------------- MODULE Multiplexer ----------------------------
(***************************************************************************)
(* The goroutines of a chat bot and the Go channels between them:          *)
(* Bot.Run (agency/client/chat/bot.go), the multiplexer, the conversation  *)
(* of every connection, and the optional backend machine that the          *)
(* multiplexer's goroutine serves (agency/client/chat/chat/chat.go).       *)
(*                                                                         *)
(* A goroutine blocks in a channel operation exactly as in Go:             *)
(*   - an unbuffered channel has one sender here, so it is a sequence of   *)
(*     at most one element: what the blocked sender is handing over;       *)
(*   - a channel of capacity 1 whose elements the properties do not tell   *)
(*     apart is the number of elements it holds.                           *)
(*                                                                         *)
(* The machines are the interpreter's data, so which transition an event   *)
(* triggers is left open: none, or one that sends any batch of Batches and *)
(* leads to a state that terminates (on a connection of Enders) or to one  *)
(* that does not.                                                          *)
(***************************************************************************)
EXTENDS Naturals, Sequences

CONSTANTS
  Connections,    \* the connections (pairwises) of the agent
  MaxProtocols,   \* bound: protocols run on each connection
  MaxQuestions,   \* bound: questions the agency asks on each connection
  Batches,        \* what a transition of a conversation machine may send
  Enders,         \* connections whose dialogue may end their machine
  Restarts,       \* does a terminating state have transitions out of it?
  HasBackend,     \* is there a backend machine?
  MaxBroadcasts,  \* messages a transition of the backend machine sends
  BackendEnds,    \* may the backend machine reach a terminating state?
  IntCap          \* capacity of the caller's interrupt channel

Kinds == {"message", "protocol", "backend", "transient"}

ASSUME ConstantsAssumption ==
  /\ MaxProtocols \in Nat
  /\ MaxQuestions \in Nat
  /\ Batches \subseteq Seq(Kinds)
  /\ Enders \subseteq Connections
  /\ Restarts \in BOOLEAN
  /\ HasBackend \in BOOLEAN
  /\ MaxBroadcasts \in Nat
  /\ BackendEnds \in BOOLEAN
  /\ IntCap \in Nat \ {0}

\* The n-th protocol on connection c, whoever started it, is <<c, n>>.
Protocols == Connections \X (1..MaxProtocols)

VARIABLES
  started,        \* agency: protocols run so far on each connection
  ours,           \* agency: the basic messages that conversations sent
  unnotified,     \* agency: our protocols whose notification is to come
  asked,          \* agency: questions asked on each connection
  statusCh,       \* stream of notifications that Bot.Run listens to
  questionCh,     \* stream of questions, by connection
  closed,         \* which of the two streams have ended
  bot,            \* Bot.Run: "select" (or blocked in a send) or "returned"
  cancelled,      \* Bot.Run has cancelled the context of the streams
  Status,         \* chat.Status, unbuffered: Bot.Run -> multiplexer
  Question,       \* chat.Question, unbuffered
  mux,            \* what the multiplexer's goroutine is doing
  targets,        \* conversations the current broadcast has not reached
  left,           \* broadcasts to do after the current one
  ending,         \* the backend machine's transition ends the machine
  conv,           \* what the goroutine of each conversation is doing
  outputs,        \* events its transition has still to send
  ends,           \* its transition leads to a terminating state
  opened,         \* protocol just started, its ID not yet recorded (or 0)
  lastProtocolID, \* IDs of its own protocols, to be discarded
  terminated,     \* conversations whose machine has signalled its end
  StatusChan,     \* Conversation.StatusChan, unbuffered
  QuestionChan,   \* Conversation.QuestionChan, unbuffered
  BackendChan,    \* Conversation.BackendChan, capacity 1
  TransientChan,  \* Conversation.TransientChan, capacity 1
  backendChan,    \* Backend.BackendChan, capacity 1
  termChan,       \* the conversations' shared TerminateChan, capacity 1
  intCh           \* InterruptCh

agencyVars == <<started, ours, unnotified, asked>>
streamVars == <<statusCh, questionCh, closed>>
botVars    == <<bot, cancelled, Status, Question>>
muxVars    == <<mux, targets, left, ending>>
convVars   == <<conv, outputs, ends, opened, lastProtocolID, terminated>>
handover   == <<StatusChan, QuestionChan>>
buffers    == <<BackendChan, TransientChan, backendChan, termChan, intCh>>
vars == <<agencyVars, streamVars, botVars, muxVars, convVars, handover, buffers>>

AgencyOK ==
  /\ started \in [Connections -> 0..MaxProtocols]
  /\ ours \subseteq Protocols
  /\ unnotified \subseteq Protocols
  /\ asked \in [Connections -> 0..MaxQuestions]

StreamOK ==
  /\ statusCh \in Seq(Protocols)
  /\ questionCh \in Seq(Connections)
  /\ closed \subseteq {"status", "question"}

BotOK ==
  /\ bot \in {"select", "returned"}
  /\ cancelled \in BOOLEAN
  /\ Status \in Seq(Protocols) /\ Len(Status) <= 1
  /\ Question \in Seq(Connections) /\ Len(Question) <= 1

MuxOK ==
  /\ mux \in {"select", "deliver", "broadcast", "terminate", "interrupt"}
  /\ targets \subseteq Connections
  /\ left \in 0..MaxBroadcasts
  /\ ending \in BOOLEAN

ConvOK ==
  /\ conv \in [Connections -> {"none", "select", "send", "record", "signal"}]
  /\ outputs \in [Connections -> Seq(Kinds)]
  /\ ends \in [Connections -> BOOLEAN]
  /\ opened \in [Connections -> 0..MaxProtocols]
  /\ \A c \in Connections : conv[c] = "record" => opened[c] > 0 /\ outputs[c] # <<>>
  /\ lastProtocolID \in [Connections -> SUBSET Protocols]
  /\ terminated \subseteq Connections

HandoverOK ==
  /\ StatusChan \in [Connections -> Seq(Protocols)]
  /\ QuestionChan \in [Connections -> 0..1]

BufferOK ==
  /\ BackendChan \in [Connections -> 0..1]
  /\ TransientChan \in [Connections -> 0..1]
  /\ backendChan \in 0..1
  /\ termChan \in 0..1
  /\ intCh \in 0..IntCap

TypeOK ==
  AgencyOK /\ StreamOK /\ BotOK /\ MuxOK /\ ConvOK /\ HandoverOK /\ BufferOK

Init ==
  /\ started = [c \in Connections |-> 0]
  /\ ours = {}
  /\ unnotified = {}
  /\ asked = [c \in Connections |-> 0]
  /\ statusCh = <<>>
  /\ questionCh = <<>>
  /\ closed = {}
  /\ bot = "select"
  /\ cancelled = FALSE
  /\ Status = <<>>
  /\ Question = <<>>
  /\ mux = "select"
  /\ targets = {}
  /\ left = 0
  /\ ending = FALSE
  /\ conv = [c \in Connections |-> "none"]
  /\ outputs = [c \in Connections |-> <<>>]
  /\ ends = [c \in Connections |-> FALSE]
  /\ opened = [c \in Connections |-> 0]
  /\ lastProtocolID = [c \in Connections |-> {}]
  /\ terminated = {}
  /\ StatusChan = [c \in Connections |-> <<>>]
  /\ QuestionChan = [c \in Connections |-> 0]
  /\ BackendChan = [c \in Connections |-> 0]
  /\ TransientChan = [c \in Connections |-> 0]
  /\ backendChan = 0
  /\ termChan = 0
  /\ intCh = 0

-----------------------------------------------------------------------------
(* The cloud agency, as the bot uses it. *)

\* The other end of c runs a protocol: we are notified of it.
PeerStarts(c) ==
  /\ "status" \notin closed
  /\ started[c] < MaxProtocols
  /\ started' = [started EXCEPT ![c] = @ + 1]
  /\ statusCh' = Append(statusCh, <<c, started[c] + 1>>)
  /\ UNCHANGED <<ours, unnotified, asked, questionCh, closed, botVars,
                 muxVars, convVars, handover, buffers>>

\* A protocol we started makes progress: we are notified of it, once.
Notify(p) ==
  /\ "status" \notin closed
  /\ p \in unnotified
  /\ unnotified' = unnotified \ {p}
  /\ statusCh' = Append(statusCh, p)
  /\ UNCHANGED <<started, ours, asked, questionCh, closed, botVars, muxVars,
                 convVars, handover, buffers>>

\* The agency needs a decision about a proof on c.
Ask(c) ==
  /\ "question" \notin closed
  /\ asked[c] < MaxQuestions
  /\ asked' = [asked EXCEPT ![c] = @ + 1]
  /\ questionCh' = Append(questionCh, c)
  /\ UNCHANGED <<started, ours, unnotified, statusCh, closed, botVars,
                 muxVars, convVars, handover, buffers>>

\* What a closing stream still delivers: all of it at the server's EOF, some
\* prefix of it when the context has been cancelled.
Delivered(s) ==
  {SubSeq(s, 1, n) : n \in IF cancelled THEN 0..Len(s) ELSE {Len(s)}}

CloseStatus ==
  /\ "status" \notin closed
  /\ closed' = closed \cup {"status"}
  /\ statusCh' \in Delivered(statusCh)
  /\ UNCHANGED <<questionCh, agencyVars, botVars, muxVars, convVars,
                 handover, buffers>>

CloseQuestion ==
  /\ "question" \notin closed
  /\ closed' = closed \cup {"question"}
  /\ questionCh' \in Delivered(questionCh)
  /\ UNCHANGED <<statusCh, agencyVars, botVars, muxVars, convVars, handover,
                 buffers>>

-----------------------------------------------------------------------------
(* Bot.Run *)

BotAtSelect == bot = "select" /\ Status = <<>> /\ Question = <<>>

\* Takes a status and blocks in chat.Status <- status.
BotStatus ==
  /\ BotAtSelect
  /\ statusCh # <<>>
  /\ Status' = <<Head(statusCh)>>
  /\ statusCh' = Tail(statusCh)
  /\ UNCHANGED <<questionCh, closed, bot, cancelled, Question, agencyVars,
                 muxVars, convVars, handover, buffers>>

BotQuestion ==
  /\ BotAtSelect
  /\ questionCh # <<>>
  /\ Question' = <<Head(questionCh)>>
  /\ questionCh' = Tail(questionCh)
  /\ UNCHANGED <<statusCh, closed, bot, cancelled, Status, agencyVars,
                 muxVars, convVars, handover, buffers>>

BotInterrupt ==
  /\ BotAtSelect
  /\ intCh > 0
  /\ intCh' = intCh - 1
  /\ cancelled' = TRUE
  /\ UNCHANGED <<bot, Status, Question, agencyVars, streamVars, muxVars,
                 convVars, handover, BackendChan, TransientChan, backendChan,
                 termChan>>

\* A closed and drained stream ends the loop; the deferred cancel runs.
BotReturn ==
  /\ BotAtSelect
  /\ \/ "status" \in closed /\ statusCh = <<>>
     \/ "question" \in closed /\ questionCh = <<>>
  /\ bot' = "returned"
  /\ cancelled' = TRUE
  /\ UNCHANGED <<Status, Question, agencyVars, streamVars, muxVars, convVars,
                 handover, buffers>>

-----------------------------------------------------------------------------
(* Multiplexer *)

\* What a conversation does once it has the events rest left to send.
Continue(rest, end) ==
  IF rest # <<>> THEN "send" ELSE IF end THEN "signal" ELSE "select"

\* newConversation, for the first event of a connection: its goroutine sends
\* what the machine's Start returns, and takes no step.
EnsureConversation(c) ==
  IF conv[c] # "none"
  THEN UNCHANGED convVars
  ELSE \E batch \in Batches :
         /\ conv' = [conv EXCEPT ![c] = Continue(batch, FALSE)]
         /\ outputs' = [outputs EXCEPT ![c] = batch]
         /\ ends' = [ends EXCEPT ![c] = FALSE]
         /\ UNCHANGED <<opened, lastProtocolID, terminated>>

\* Mutant: the conversation's channel had room for a status.
MuxStatus_NoWait ==
  /\ mux = "select"
  /\ Status # <<>>
  /\ LET c == Head(Status)[1] IN
       /\ EnsureConversation(c)
       /\ StatusChan' = [StatusChan EXCEPT ![c] = Status]
  /\ Status' = <<>>
  /\ UNCHANGED <<bot, cancelled, Question, muxVars, QuestionChan, agencyVars,
                 streamVars, buffers>>

\* Mutant: a busy conversation is passed over.
MuxStatus_SkipsBusy ==
  /\ mux = "select"
  /\ Status # <<>>
  /\ LET c == Head(Status)[1] IN
       IF conv[c] \in {"none", "select"}
       THEN /\ EnsureConversation(c)
            /\ StatusChan' = [StatusChan EXCEPT ![c] = Status]
            /\ mux' = "deliver"
       ELSE UNCHANGED <<convVars, StatusChan, mux>>
  /\ Status' = <<>>
  /\ UNCHANGED <<bot, cancelled, Question, targets, left, ending,
                 QuestionChan, agencyVars, streamVars, buffers>>

MuxStatus ==
  /\ mux = "select"
  /\ Status # <<>>
  /\ LET c == Head(Status)[1] IN
       /\ EnsureConversation(c)
       /\ StatusChan' = [StatusChan EXCEPT ![c] = Status]
  /\ Status' = <<>>
  /\ mux' = "deliver"
  /\ UNCHANGED <<bot, cancelled, Question, targets, left, ending,
                 QuestionChan, agencyVars, streamVars, buffers>>

MuxQuestion ==
  /\ mux = "select"
  /\ Question # <<>>
  /\ LET c == Head(Question) IN
       /\ EnsureConversation(c)
       /\ QuestionChan' = [QuestionChan EXCEPT ![c] = 1]
  /\ Question' = <<>>
  /\ mux' = "deliver"
  /\ UNCHANGED <<bot, cancelled, Status, targets, left, ending, StatusChan,
                 agencyVars, streamVars, buffers>>

Existing == {c \in Connections : conv[c] # "none"}

\* Backend.backendReceived: no transition, or one with n messages to send to
\* every conversation before the machine steps.
MuxBackend ==
  /\ mux = "select"
  /\ backendChan = 1
  /\ backendChan' = 0
  /\ \/ UNCHANGED muxVars
     \/ \E n \in 0..MaxBroadcasts, end \in BOOLEAN :
          /\ end => BackendEnds
          /\ mux' = IF n > 0 THEN "broadcast"
                    ELSE IF end THEN "terminate" ELSE "select"
          /\ targets' = IF n > 0 THEN Existing ELSE {}
          /\ left' = IF n > 0 THEN n - 1 ELSE 0
          /\ ending' = end
  /\ UNCHANGED <<agencyVars, streamVars, botVars, convVars, handover,
                 BackendChan, TransientChan, termChan, intCh>>

\* Backend.sendBackendData: one blocking send per conversation, in the order
\* the map is ranged over, which Go leaves open. After the last message the
\* machine steps: a terminating state is signalled on a channel nobody reads.
Broadcast(c) ==
  /\ mux = "broadcast"
  /\ c \in targets
  /\ BackendChan[c] = 0
  /\ BackendChan' = [BackendChan EXCEPT ![c] = 1]
  /\ LET rest == targets \ {c} IN
       IF rest # {}
       THEN targets' = rest /\ UNCHANGED <<mux, left, ending>>
       ELSE /\ mux' = IF left > 0 THEN "broadcast"
                      ELSE IF ending THEN "terminate" ELSE "select"
            /\ targets' = IF left > 0 THEN Existing ELSE {}
            /\ left' = IF left > 0 THEN left - 1 ELSE 0
            /\ UNCHANGED ending
  /\ UNCHANGED <<agencyVars, streamVars, botVars, convVars, handover,
                 TransientChan, backendChan, termChan, intCh>>

\* Mutant: the signal is taken and forgotten.
MuxTerminated_Forgets ==
  /\ mux = "select"
  /\ termChan = 1
  /\ termChan' = 0
  /\ UNCHANGED <<muxVars, agencyVars, streamVars, botVars, convVars, handover,
                 BackendChan, TransientChan, backendChan, intCh>>

MuxTerminated ==
  /\ mux = "select"
  /\ termChan = 1
  /\ termChan' = 0
  /\ mux' = "interrupt"
  /\ UNCHANGED <<targets, left, ending, agencyVars, streamVars, botVars,
                 convVars, handover, BackendChan, TransientChan, backendChan,
                 intCh>>

\* info.InterruptCh <- syscall.SIGTERM
MuxInterrupt ==
  /\ mux = "interrupt"
  /\ intCh < IntCap
  /\ intCh' = intCh + 1
  /\ mux' = "select"
  /\ UNCHANGED <<targets, left, ending, agencyVars, streamVars, botVars,
                 convVars, handover, BackendChan, TransientChan, backendChan,
                 termChan>>

-----------------------------------------------------------------------------
(* Conversation *)

\* The event triggers a transition: its events are sent, then it is taken.
Trigger(c) ==
  /\ c \in terminated => Restarts
  /\ \E batch \in Batches, end \in BOOLEAN :
       /\ end => c \in Enders
       /\ conv' = [conv EXCEPT ![c] = Continue(batch, end)]
       /\ outputs' = [outputs EXCEPT ![c] = batch]
       /\ ends' = [ends EXCEPT ![c] = end]
  /\ UNCHANGED <<opened, lastProtocolID, terminated>>

\* Filters, guards or the current state may leave an event without effect.
React(c) == UNCHANGED convVars \/ Trigger(c)

\* Mutant: the ID is looked up and not removed.
DiscardOwn_Keeps(c, p) == UNCHANGED convVars

\* Conversation.isOursAndRm
DiscardOwn(c, p) ==
  /\ lastProtocolID' = [lastProtocolID EXCEPT ![c] = @ \ {p}]
  /\ UNCHANGED <<conv, outputs, ends, opened, terminated>>

\* Conversation.statusReceived
ConvStatus(c) ==
  /\ conv[c] = "select"
  /\ StatusChan[c] # <<>>
  /\ StatusChan' = [StatusChan EXCEPT ![c] = <<>>]
  /\ mux' = "select"
  /\ LET p == Head(StatusChan[c]) IN
       IF p \in lastProtocolID[c] THEN DiscardOwn(c, p) ELSE React(c)
  /\ UNCHANGED <<targets, left, ending, QuestionChan, agencyVars, streamVars,
                 botVars, buffers>>

\* Conversation.questionReceived
ConvQuestion(c) ==
  /\ conv[c] = "select"
  /\ QuestionChan[c] = 1
  /\ QuestionChan' = [QuestionChan EXCEPT ![c] = 0]
  /\ mux' = "select"
  /\ React(c)
  /\ UNCHANGED <<targets, left, ending, StatusChan, agencyVars, streamVars,
                 botVars, buffers>>

\* Conversation.backendReceived
ConvBackend(c) ==
  /\ conv[c] = "select"
  /\ BackendChan[c] = 1
  /\ BackendChan' = [BackendChan EXCEPT ![c] = 0]
  /\ React(c)
  /\ UNCHANGED <<agencyVars, streamVars, botVars, muxVars, handover,
                 TransientChan, backendChan, termChan, intCh>>

\* Conversation.stepReceived
ConvTransient(c) ==
  /\ conv[c] = "select"
  /\ TransientChan[c] = 1
  /\ TransientChan' = [TransientChan EXCEPT ![c] = 0]
  /\ React(c)
  /\ UNCHANGED <<agencyVars, streamVars, botVars, muxVars, handover,
                 BackendChan, backendChan, termChan, intCh>>

\* The next event to send is of this kind.
Sending(c, kind) ==
  /\ conv[c] = "send"
  /\ outputs[c] # <<>>
  /\ Head(outputs[c]) = kind

\* The first event of the batch has been sent.
Sent(c) ==
  /\ outputs' = [outputs EXCEPT ![c] = Tail(@)]
  /\ conv' = [conv EXCEPT ![c] = Continue(Tail(outputs[c]), ends[c])]

\* sendBasicMessage: the agency starts the protocol and returns its ID, which
\* RecordID then stores. Beyond MaxProtocols the message leaves no trace here.
SendMessage(c) ==
  /\ Sending(c, "message")
  /\ IF started[c] < MaxProtocols
     THEN LET p == <<c, started[c] + 1>> IN
          /\ started' = [started EXCEPT ![c] = @ + 1]
          /\ ours' = ours \cup {p}
          /\ unnotified' = unnotified \cup {p}
          /\ opened' = [opened EXCEPT ![c] = started[c] + 1]
          /\ conv' = [conv EXCEPT ![c] = "record"]
          /\ UNCHANGED outputs
     ELSE Sent(c) /\ UNCHANGED <<started, ours, unnotified, opened>>
  /\ UNCHANGED <<asked, ends, lastProtocolID, terminated, streamVars, botVars,
                 muxVars, handover, buffers>>

\* Mutant: only the ID of the last protocol is remembered.
RecordID_LastOnly(c) ==
  /\ conv[c] = "record"
  /\ lastProtocolID' = [lastProtocolID EXCEPT ![c] = {<<c, opened[c]>>}]
  /\ opened' = [opened EXCEPT ![c] = 0]
  /\ Sent(c)
  /\ UNCHANGED <<ends, terminated, agencyVars, streamVars, botVars, muxVars,
                 handover, buffers>>

\* Conversation.SetLastProtocolID
RecordID(c) ==
  /\ conv[c] = "record"
  /\ lastProtocolID' = [lastProtocolID EXCEPT ![c] = @ \cup {<<c, opened[c]>>}]
  /\ opened' = [opened EXCEPT ![c] = 0]
  /\ Sent(c)
  /\ UNCHANGED <<ends, terminated, agencyVars, streamVars, botVars, muxVars,
                 handover, buffers>>

\* sendIssuing and sendReqProof: WantStatus is set, so the ID is not stored
\* and the notification of the protocol may trigger the next transition.
SendProtocol(c) ==
  /\ Sending(c, "protocol")
  /\ IF started[c] < MaxProtocols
     THEN /\ started' = [started EXCEPT ![c] = @ + 1]
          /\ unnotified' = unnotified \cup {<<c, started[c] + 1>>}
     ELSE UNCHANGED <<started, unnotified>>
  /\ Sent(c)
  /\ UNCHANGED <<ours, asked, ends, opened, lastProtocolID, terminated,
                 streamVars, botVars, muxVars, handover, buffers>>

\* Conversation.sendBackend: without a backend machine the data is dropped.
SendBackend(c) ==
  /\ Sending(c, "backend")
  /\ IF HasBackend
     THEN backendChan = 0 /\ backendChan' = 1
     ELSE UNCHANGED backendChan
  /\ Sent(c)
  /\ UNCHANGED <<ends, opened, lastProtocolID, terminated, agencyVars,
                 streamVars, botVars, muxVars, handover, BackendChan,
                 TransientChan, termChan, intCh>>

\* Conversation.sendTransient: a send on a channel this goroutine reads.
SendTransient(c) ==
  /\ Sending(c, "transient")
  /\ TransientChan[c] = 0
  /\ TransientChan' = [TransientChan EXCEPT ![c] = 1]
  /\ Sent(c)
  /\ UNCHANGED <<ends, opened, lastProtocolID, terminated, agencyVars,
                 streamVars, botVars, muxVars, handover, BackendChan,
                 backendChan, termChan, intCh>>

\* Mutant: the signal does not wait for room in the channel.
Signal_NoWait(c) ==
  /\ conv[c] = "signal"
  /\ termChan' = termChan + 1
  /\ terminated' = terminated \cup {c}
  /\ conv' = [conv EXCEPT ![c] = "select"]
  /\ UNCHANGED <<outputs, ends, opened, lastProtocolID, agencyVars,
                 streamVars, botVars, muxVars, handover, BackendChan,
                 TransientChan, backendChan, intCh>>

\* Mutant: the goroutine of the conversation returns after the signal.
Signal_Returns(c) ==
  /\ conv[c] = "signal"
  /\ termChan = 0
  /\ termChan' = 1
  /\ terminated' = terminated \cup {c}
  /\ conv' = [conv EXCEPT ![c] = "returned"]
  /\ UNCHANGED <<outputs, ends, opened, lastProtocolID, agencyVars,
                 streamVars, botVars, muxVars, handover, BackendChan,
                 TransientChan, backendChan, intCh>>

\* Machine.checkTerm: m.termChan <- true
Signal(c) ==
  /\ conv[c] = "signal"
  /\ termChan = 0
  /\ termChan' = 1
  /\ terminated' = terminated \cup {c}
  /\ conv' = [conv EXCEPT ![c] = "select"]
  /\ UNCHANGED <<outputs, ends, opened, lastProtocolID, agencyVars,
                 streamVars, botVars, muxVars, handover, BackendChan,
                 TransientChan, backendChan, intCh>>

-----------------------------------------------------------------------------
Agency ==
  \/ \E c \in Connections : PeerStarts(c) \/ Ask(c)
  \/ \E p \in Protocols : Notify(p)
  \/ CloseStatus
  \/ CloseQuestion

BotRun == BotStatus \/ BotQuestion \/ BotInterrupt \/ BotReturn

Multiplex ==
  \/ MuxStatus
  \/ MuxQuestion
  \/ MuxBackend
  \/ \E c \in Connections : Broadcast(c)
  \/ MuxTerminated
  \/ MuxInterrupt

\* What a conversation does with an event of one of its channels.
Receive(c) ==
  ConvStatus(c) \/ ConvQuestion(c) \/ ConvBackend(c) \/ ConvTransient(c)

\* What it does on the way back to its select.
Work(c) ==
  \/ SendMessage(c)
  \/ RecordID(c)
  \/ SendProtocol(c)
  \/ SendBackend(c)
  \/ SendTransient(c)
  \/ Signal(c)

Next ==
  \/ Agency
  \/ BotRun
  \/ Multiplex
  \/ \E c \in Connections : Receive(c) \/ Work(c)

Spec == Init /\ [][Next]_vars

\* Go runs every goroutine that can run. Nothing is assumed of which ready case
\* a select takes: every event is consumed by taking it, so no case is passed
\* over for ever. The agency notifies what it was asked to run, and ends the
\* streams of a cancelled context.
Fairness ==
  /\ WF_vars(\E p \in Protocols : Notify(p))
  /\ WF_vars(cancelled /\ CloseStatus)
  /\ WF_vars(cancelled /\ CloseQuestion)
  /\ WF_vars(BotRun)
  /\ WF_vars(Multiplex)
  /\ \A c \in Connections : WF_vars(Receive(c) \/ Work(c))

FairSpec == Spec /\ Fairness

-----------------------------------------------------------------------------
(* Properties *)

Elements(s) == {s[i] : i \in 1..Len(s)}

\* Notified, and not yet taken by the conversation.
InTransit ==
  Elements(statusCh) \cup Elements(Status)
    \cup UNION {Elements(StatusChan[c]) : c \in Connections}

\* Started by us or by the other end, and not yet taken by the conversation.
Awaited == unnotified \cup InTransit

\* The notification of one's own basic message is recognised when it comes: a
\* conversation has the ID of each that is still awaited in lastProtocolID, or
\* is about to store it (SetLastProtocolID), although the agency may notify a
\* protocol before sendBasicMessage has the ID it returned.
OwnIDsKnown ==
  \A p \in ours \cap Awaited :
    \/ p \in lastProtocolID[p[1]]
    \/ conv[p[1]] = "record" /\ opened[p[1]] = p[2]

Distinct(s) == \A i, j \in 1..Len(s) : s[i] = s[j] => i = j

\* A status is in one place at a time on its way through BotStatus, MuxStatus
\* and ConvStatus, and it reaches the conversation of its own connection: were
\* it in two, its second coming would find its ID forgotten.
OnceOnly ==
  /\ Distinct(statusCh)
  /\ unnotified \cap Elements(statusCh) = {}
  /\ Elements(Status) \cap (unnotified \cup Elements(statusCh)) = {}
  /\ \A c \in Connections : \A p \in Elements(StatusChan[c]) :
       p[1] = c /\ p \notin unnotified \cup Elements(Status) \cup Elements(statusCh)

Numbered == \A p \in ours \cup Awaited : p[2] <= started[p[1]]

\* The inductive invariant behind OwnMessagesDiscarded.
OwnInv == OnceOnly /\ Numbered /\ OwnIDsKnown

\* statusReceived discards the notification of a message the conversation sent
\* itself: it never triggers a transition (isOursAndRm).
OwnMessagesDiscarded ==
  [][\A c \in Connections :
       /\ StatusChan[c] # <<>>
       /\ StatusChan'[c] = <<>>
       /\ Head(StatusChan[c]) \in ours
       => UNCHANGED <<conv, outputs, ends>>]_vars

\* lastProtocolID does not grow without end: while the stream is open, an ID in
\* it belongs to a protocol whose notification is still to be taken.
NoStaleIDs ==
  "status" \notin closed =>
    \A c \in Connections : lastProtocolID[c] \subseteq Awaited

\* What the multiplexer hands over, it hands to a conversation it has made; the
\* goroutine that must take it is not the one that is waited for.
OneHandover ==
  \A c, d \in Connections :
    /\ StatusChan[c] # <<>> =>
         /\ mux = "deliver" /\ conv[c] # "none" /\ QuestionChan[d] = 0
         /\ StatusChan[d] # <<>> => c = d
    /\ QuestionChan[c] = 1 =>
         /\ mux = "deliver" /\ conv[c] # "none"
         /\ QuestionChan[d] = 1 => c = d

\* Every status the agency sends reaches its conversation, unless the bot stops.
StatusesTransported ==
  \A p \in Protocols :
    p \in InTransit ~> (p \notin InTransit \/ bot = "returned")

\* A conversation's machine that reaches its end stops the bot.
TerminationStopsBot == terminated # {} ~> bot = "returned"
=============================================================================
