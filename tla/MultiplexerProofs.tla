------------------------- MODULE MultiplexerProofs -------------------------
(***************************************************************************)
(* Proofs about Multiplexer, for all values of its constants: every state  *)
(* is well-typed (TypeCorrect), and a conversation always knows the        *)
(* messages it sent itself, so it never reacts to their notifications      *)
(* (OwnMessagesKnown, OwnMessagesNeverTrigger); one event is handed over at*)
(* a time (HandsOverOne), and no ID is kept for nothing (IDsNeverStale).   *)
(* Together the goroutines deliver the statuses (StatusesAreDelivered).    *)
(***************************************************************************)
EXTENDS MultiplexerDelivery, FiniteSetTheorems, TLAPS

(* The parts of TypeOK are kept by a step that leaves their variables alone. *)

\* AgencyOK depends on its own variables only.
LEMMA KeepAgency == ASSUME AgencyOK, UNCHANGED agencyVars PROVE AgencyOK'
  BY DEF AgencyOK, agencyVars

\* StreamOK depends on its own variables only.
LEMMA KeepStream == ASSUME StreamOK, UNCHANGED streamVars PROVE StreamOK'
  BY DEF StreamOK, streamVars

\* BotOK depends on its own variables only.
LEMMA KeepBot == ASSUME BotOK, UNCHANGED botVars PROVE BotOK'
  BY DEF BotOK, botVars

\* MuxOK depends on its own variables only.
LEMMA KeepMux == ASSUME MuxOK, UNCHANGED muxVars PROVE MuxOK'
  BY DEF MuxOK, muxVars

\* ConvOK depends on its own variables only.
LEMMA KeepConv == ASSUME ConvOK, UNCHANGED convVars PROVE ConvOK'
  BY DEF ConvOK, convVars

\* HandoverOK depends on its own variables only.
LEMMA KeepHandover == ASSUME HandoverOK, UNCHANGED handover PROVE HandoverOK'
  BY DEF HandoverOK, handover

\* BufferOK depends on its own variables only.
LEMMA KeepBuffer == ASSUME BufferOK, UNCHANGED buffers PROVE BufferOK'
  BY DEF BufferOK, buffers

(* Every action keeps TypeOK: the parts it disturbs, then the rest. *)

\* The types survive PeerStarts.
LEMMA PeerStartsType ==
  ASSUME TypeOK, NEW c \in Connections, PeerStarts(c)
  PROVE  TypeOK'
<1>0. <<c, started[c] + 1>> \in Protocols
  BY ConstantsAssumption DEF TypeOK, AgencyOK, PeerStarts, Protocols
<1>1. AgencyOK'
  BY ConstantsAssumption
     DEF TypeOK, AgencyOK, PeerStarts, Protocols
<1>2. StreamOK'
  BY <1>0, ConstantsAssumption
     DEF TypeOK, StreamOK, PeerStarts
<1>3. QED
  BY <1>1, <1>2,
     KeepBot, KeepMux, KeepConv, KeepHandover, KeepBuffer
     DEF TypeOK, PeerStarts

\* The types survive Notify.
LEMMA NotifyType ==
  ASSUME TypeOK, NEW p \in Protocols, Notify(p)
  PROVE  TypeOK'
<1>1. AgencyOK'
  BY ConstantsAssumption
     DEF TypeOK, AgencyOK, Notify
<1>2. StreamOK'
  BY ConstantsAssumption
     DEF TypeOK, StreamOK, Notify
<1>3. QED
  BY <1>1, <1>2,
     KeepBot, KeepMux, KeepConv, KeepHandover, KeepBuffer
     DEF TypeOK, Notify

\* The types survive Ask.
LEMMA AskType ==
  ASSUME TypeOK, NEW c \in Connections, Ask(c)
  PROVE  TypeOK'
<1>1. AgencyOK'
  BY ConstantsAssumption
     DEF TypeOK, AgencyOK, Ask
<1>2. StreamOK'
  BY ConstantsAssumption
     DEF TypeOK, StreamOK, Ask
<1>3. QED
  BY <1>1, <1>2,
     KeepBot, KeepMux, KeepConv, KeepHandover, KeepBuffer
     DEF TypeOK, Ask

\* The types survive CloseStatus.
LEMMA CloseStatusType ==
  ASSUME TypeOK, CloseStatus
  PROVE  TypeOK'
<1>1. StreamOK'
  BY ConstantsAssumption
     DEF TypeOK, StreamOK, CloseStatus, Delivered
<1>2. QED
  BY <1>1,
     KeepAgency, KeepBot, KeepMux, KeepConv, KeepHandover, KeepBuffer
     DEF TypeOK, CloseStatus

\* The types survive CloseQuestion.
LEMMA CloseQuestionType ==
  ASSUME TypeOK, CloseQuestion
  PROVE  TypeOK'
<1>1. StreamOK'
  BY ConstantsAssumption
     DEF TypeOK, StreamOK, CloseQuestion, Delivered
<1>2. QED
  BY <1>1,
     KeepAgency, KeepBot, KeepMux, KeepConv, KeepHandover, KeepBuffer
     DEF TypeOK, CloseQuestion

\* The types survive BotStatus.
LEMMA BotStatusType ==
  ASSUME TypeOK, BotStatus
  PROVE  TypeOK'
<1>0. Head(statusCh) \in Protocols /\ Len(<<Head(statusCh)>>) = 1
  BY DEF TypeOK, StreamOK, BotStatus
<1>1. StreamOK'
  BY ConstantsAssumption
     DEF TypeOK, StreamOK, BotStatus
<1>2. BotOK'
  BY <1>0, ConstantsAssumption
     DEF TypeOK, BotOK, BotStatus
<1>3. QED
  BY <1>1, <1>2,
     KeepAgency, KeepMux, KeepConv, KeepHandover, KeepBuffer
     DEF TypeOK, BotStatus

\* The types survive BotQuestion.
LEMMA BotQuestionType ==
  ASSUME TypeOK, BotQuestion
  PROVE  TypeOK'
<1>0. Head(questionCh) \in Connections /\ Len(<<Head(questionCh)>>) = 1
  BY DEF TypeOK, StreamOK, BotQuestion
<1>1. StreamOK'
  BY ConstantsAssumption
     DEF TypeOK, StreamOK, BotQuestion
<1>2. BotOK'
  BY <1>0, ConstantsAssumption
     DEF TypeOK, BotOK, BotQuestion
<1>3. QED
  BY <1>1, <1>2,
     KeepAgency, KeepMux, KeepConv, KeepHandover, KeepBuffer
     DEF TypeOK, BotQuestion

\* The types survive BotInterrupt.
LEMMA BotInterruptType ==
  ASSUME TypeOK, BotInterrupt
  PROVE  TypeOK'
<1>1. BotOK'
  BY ConstantsAssumption
     DEF TypeOK, BotOK, BotInterrupt
<1>2. BufferOK'
  BY ConstantsAssumption
     DEF TypeOK, BufferOK, BotInterrupt
<1>3. QED
  BY <1>1, <1>2,
     KeepAgency, KeepStream, KeepMux, KeepConv, KeepHandover
     DEF TypeOK, BotInterrupt

\* The types survive BotReturn.
LEMMA BotReturnType ==
  ASSUME TypeOK, BotReturn
  PROVE  TypeOK'
<1>1. BotOK'
  BY ConstantsAssumption
     DEF TypeOK, BotOK, BotReturn
<1>2. QED
  BY <1>1,
     KeepAgency, KeepStream, KeepMux, KeepConv, KeepHandover, KeepBuffer
     DEF TypeOK, BotReturn

\* A conversation that begins to send a batch keeps its types.
LEMMA BatchType ==
  ASSUME ConvOK, NEW c \in Connections, NEW batch \in Batches, NEW end \in BOOLEAN,
         conv' = [conv EXCEPT ![c] = Continue(batch, end)],
         outputs' = [outputs EXCEPT ![c] = batch],
         ends' = [ends EXCEPT ![c] = end],
         UNCHANGED <<opened, lastProtocolID, terminated>>
  PROVE  ConvOK'
<1>1. batch \in Seq(Kinds)
  BY ConstantsAssumption
<1>2. Continue(batch, end) \in {"none", "select", "send", "signal"}
  BY DEF Continue
<1>3. conv' \in [Connections -> {"none", "select", "send", "record", "signal"}]
  BY <1>2 DEF ConvOK
<1>4. outputs' \in [Connections -> Seq(Kinds)] /\ ends' \in [Connections -> BOOLEAN]
  BY <1>1 DEF ConvOK
<1>5. \A d \in Connections : conv'[d] = "record" => opened'[d] > 0 /\ outputs'[d] # <<>>
  BY <1>2 DEF ConvOK
<1>6. opened' \in [Connections -> 0..MaxProtocols] /\ terminated' \subseteq Connections
      /\ lastProtocolID' \in [Connections -> SUBSET Protocols]
  BY DEF ConvOK
<1>7. QED
  BY <1>3, <1>4, <1>5, <1>6 DEF ConvOK

\* A transition, or none, keeps them.
LEMMA ReactType ==
  ASSUME ConvOK, NEW c \in Connections, React(c)
  PROVE  ConvOK'
<1>1. CASE UNCHANGED convVars
  BY <1>1, KeepConv
<1>2. CASE Trigger(c)
  BY <1>2, BatchType DEF Trigger
<1>3. QED
  BY <1>1, <1>2 DEF React

\* So does making the conversation of a new connection.
LEMMA EnsureType ==
  ASSUME ConvOK, NEW c \in Connections, EnsureConversation(c)
  PROVE  ConvOK'
<1>1. CASE UNCHANGED convVars
  BY <1>1, KeepConv
<1>2. CASE conv[c] = "none"
  <2>1. PICK batch \in Batches :
          /\ conv' = [conv EXCEPT ![c] = Continue(batch, FALSE)]
          /\ outputs' = [outputs EXCEPT ![c] = batch]
          /\ ends' = [ends EXCEPT ![c] = FALSE]
          /\ UNCHANGED <<opened, lastProtocolID, terminated>>
    BY <1>2 DEF EnsureConversation
  <2>2. QED
    BY <2>1, BatchType
<1>3. QED
  BY <1>1, <1>2 DEF EnsureConversation

\* And recognising an own message.
LEMMA DiscardType ==
  ASSUME ConvOK, NEW c \in Connections, NEW p, DiscardOwn(c, p)
  PROVE  ConvOK'
<1>1. lastProtocolID' \in [Connections -> SUBSET Protocols]
  BY DEF ConvOK, DiscardOwn
<1>2. QED
  BY <1>1 DEF ConvOK, DiscardOwn

\* The types survive MuxStatus.
LEMMA MuxStatusType ==
  ASSUME TypeOK, MuxStatus
  PROVE  TypeOK'
<1>0. Head(Status)[1] \in Connections
  BY DEF TypeOK, BotOK, MuxStatus, Protocols
<1>1. BotOK'
  BY ConstantsAssumption
     DEF TypeOK, BotOK, MuxStatus
<1>2. MuxOK'
  BY ConstantsAssumption
     DEF TypeOK, MuxOK, MuxStatus
<1>3. ConvOK'
  BY <1>0, EnsureType DEF TypeOK, MuxStatus
<1>4. HandoverOK'
  BY <1>0, ConstantsAssumption
     DEF TypeOK, HandoverOK, BotOK, MuxStatus
<1>5. QED
  BY <1>1, <1>2, <1>3, <1>4,
     KeepAgency, KeepStream, KeepBuffer
     DEF TypeOK, MuxStatus

\* The types survive MuxQuestion.
LEMMA MuxQuestionType ==
  ASSUME TypeOK, MuxQuestion
  PROVE  TypeOK'
<1>0. Head(Question) \in Connections
  BY DEF TypeOK, BotOK, MuxQuestion
<1>1. BotOK'
  BY ConstantsAssumption
     DEF TypeOK, BotOK, MuxQuestion
<1>2. MuxOK'
  BY ConstantsAssumption
     DEF TypeOK, MuxOK, MuxQuestion
<1>3. ConvOK'
  BY <1>0, EnsureType DEF TypeOK, MuxQuestion
<1>4. HandoverOK'
  BY <1>0, ConstantsAssumption
     DEF TypeOK, HandoverOK, BotOK, MuxQuestion
<1>5. QED
  BY <1>1, <1>2, <1>3, <1>4,
     KeepAgency, KeepStream, KeepBuffer
     DEF TypeOK, MuxQuestion

\* The types survive MuxBackend.
LEMMA MuxBackendType ==
  ASSUME TypeOK, MuxBackend
  PROVE  TypeOK'
<1>1. MuxOK'
  BY ConstantsAssumption
     DEF TypeOK, MuxOK, MuxBackend, Existing, muxVars
<1>2. BufferOK'
  BY ConstantsAssumption
     DEF TypeOK, BufferOK, MuxBackend
<1>3. QED
  BY <1>1, <1>2,
     KeepAgency, KeepStream, KeepBot, KeepConv, KeepHandover
     DEF TypeOK, MuxBackend

\* The types survive Broadcast.
LEMMA BroadcastType ==
  ASSUME TypeOK, NEW c \in Connections, Broadcast(c)
  PROVE  TypeOK'
<1>1. MuxOK'
  BY ConstantsAssumption
     DEF TypeOK, MuxOK, Broadcast, Existing
<1>2. BufferOK'
  BY ConstantsAssumption
     DEF TypeOK, BufferOK, Broadcast
<1>3. QED
  BY <1>1, <1>2,
     KeepAgency, KeepStream, KeepBot, KeepConv, KeepHandover
     DEF TypeOK, Broadcast

\* The types survive MuxTerminated.
LEMMA MuxTerminatedType ==
  ASSUME TypeOK, MuxTerminated
  PROVE  TypeOK'
<1>1. MuxOK'
  BY ConstantsAssumption
     DEF TypeOK, MuxOK, MuxTerminated
<1>2. BufferOK'
  BY ConstantsAssumption
     DEF TypeOK, BufferOK, MuxTerminated
<1>3. QED
  BY <1>1, <1>2,
     KeepAgency, KeepStream, KeepBot, KeepConv, KeepHandover
     DEF TypeOK, MuxTerminated

\* The types survive MuxInterrupt.
LEMMA MuxInterruptType ==
  ASSUME TypeOK, MuxInterrupt
  PROVE  TypeOK'
<1>1. MuxOK'
  BY ConstantsAssumption
     DEF TypeOK, MuxOK, MuxInterrupt
<1>2. BufferOK'
  BY ConstantsAssumption
     DEF TypeOK, BufferOK, MuxInterrupt
<1>3. QED
  BY <1>1, <1>2,
     KeepAgency, KeepStream, KeepBot, KeepConv, KeepHandover
     DEF TypeOK, MuxInterrupt

\* The types survive ConvStatus.
LEMMA ConvStatusType ==
  ASSUME TypeOK, NEW c \in Connections, ConvStatus(c)
  PROVE  TypeOK'
<1>1. MuxOK'
  BY ConstantsAssumption
     DEF TypeOK, MuxOK, ConvStatus
<1>2. ConvOK'
  BY ReactType, DiscardType DEF TypeOK, ConvStatus
<1>3. HandoverOK'
  BY ConstantsAssumption
     DEF TypeOK, HandoverOK, ConvStatus
<1>4. QED
  BY <1>1, <1>2, <1>3,
     KeepAgency, KeepStream, KeepBot, KeepBuffer
     DEF TypeOK, ConvStatus

\* The types survive ConvQuestion.
LEMMA ConvQuestionType ==
  ASSUME TypeOK, NEW c \in Connections, ConvQuestion(c)
  PROVE  TypeOK'
<1>1. MuxOK'
  BY ConstantsAssumption
     DEF TypeOK, MuxOK, ConvQuestion
<1>2. ConvOK'
  BY ReactType DEF TypeOK, ConvQuestion
<1>3. HandoverOK'
  BY ConstantsAssumption
     DEF TypeOK, HandoverOK, ConvQuestion
<1>4. QED
  BY <1>1, <1>2, <1>3,
     KeepAgency, KeepStream, KeepBot, KeepBuffer
     DEF TypeOK, ConvQuestion

\* The types survive ConvBackend.
LEMMA ConvBackendType ==
  ASSUME TypeOK, NEW c \in Connections, ConvBackend(c)
  PROVE  TypeOK'
<1>1. ConvOK'
  BY ReactType DEF TypeOK, ConvBackend
<1>2. BufferOK'
  BY ConstantsAssumption
     DEF TypeOK, BufferOK, ConvBackend
<1>3. QED
  BY <1>1, <1>2,
     KeepAgency, KeepStream, KeepBot, KeepMux, KeepHandover
     DEF TypeOK, ConvBackend

\* The types survive ConvTransient.
LEMMA ConvTransientType ==
  ASSUME TypeOK, NEW c \in Connections, ConvTransient(c)
  PROVE  TypeOK'
<1>1. ConvOK'
  BY ReactType DEF TypeOK, ConvTransient
<1>2. BufferOK'
  BY ConstantsAssumption
     DEF TypeOK, BufferOK, ConvTransient
<1>3. QED
  BY <1>1, <1>2,
     KeepAgency, KeepStream, KeepBot, KeepMux, KeepHandover
     DEF TypeOK, ConvTransient

\* The types survive SendMessage.
LEMMA SendMessageType ==
  ASSUME TypeOK, NEW c \in Connections, SendMessage(c)
  PROVE  TypeOK'
<1>0. started[c] < MaxProtocols => <<c, started[c] + 1>> \in Protocols /\
          started[c] + 1 \in 1..MaxProtocols
  BY ConstantsAssumption DEF TypeOK, AgencyOK, Protocols
<1>1. AgencyOK'
  <2>1. CASE started[c] < MaxProtocols
    <3>0. started' = [started EXCEPT ![c] = started[c] + 1]
      BY <2>1 DEF SendMessage
    <3>1. started' \in [Connections -> 0..MaxProtocols]
      BY <1>0, <2>1, <3>0, ConstantsAssumption DEF TypeOK, AgencyOK
    <3>2. ours' \subseteq Protocols /\ unnotified' \subseteq Protocols /\ UNCHANGED asked
      BY <1>0, <2>1 DEF TypeOK, AgencyOK, SendMessage
    <3>3. QED
      BY <3>1, <3>2 DEF TypeOK, AgencyOK
  <2>2. CASE ~ (started[c] < MaxProtocols)
    BY <2>2 DEF TypeOK, AgencyOK, SendMessage
  <2>3. QED
    BY <2>1, <2>2
<1>2. ConvOK'
  <2>1. CASE started[c] < MaxProtocols
    <3>1. /\ opened' = [opened EXCEPT ![c] = started[c] + 1]
          /\ conv' = [conv EXCEPT ![c] = "record"]
          /\ outputs[c] # <<>>
          /\ UNCHANGED <<outputs, ends, lastProtocolID, terminated>>
      BY <2>1 DEF SendMessage, Sending
    <3>2. started[c] + 1 \in 0..MaxProtocols /\ started[c] + 1 > 0
      BY <1>0, <2>1, ConstantsAssumption
    <3>3. opened' \in [Connections -> 0..MaxProtocols]
      BY <3>1, <3>2 DEF TypeOK, ConvOK
    <3>4. conv' \in [Connections -> {"none", "select", "send", "record", "signal"}]
      BY <3>1 DEF TypeOK, ConvOK
    <3>5. \A d \in Connections : conv'[d] = "record" => opened'[d] > 0 /\ outputs'[d] # <<>>
      BY <3>1, <3>2 DEF TypeOK, ConvOK
    <3>6. QED
      BY <3>1, <3>3, <3>4, <3>5 DEF TypeOK, ConvOK
  <2>2. CASE ~ (started[c] < MaxProtocols)
    <3>1. /\ outputs[c] # <<>>
          /\ outputs' = [outputs EXCEPT ![c] = Tail(@)]
          /\ conv' = [conv EXCEPT
                        ![c] = Continue(Tail(outputs[c]), ends[c])]
          /\ UNCHANGED <<opened, ends, lastProtocolID, terminated>>
      BY <2>2 DEF SendMessage, Sending, Sent
    <3>2. QED
      BY <3>1 DEF TypeOK, ConvOK, Continue
  <2>3. QED
    BY <2>1, <2>2
<1>3. QED
  BY <1>1, <1>2,
     KeepStream, KeepBot, KeepMux, KeepHandover, KeepBuffer
     DEF TypeOK, SendMessage

\* The types survive RecordID.
LEMMA RecordIDType ==
  ASSUME TypeOK, NEW c \in Connections, RecordID(c)
  PROVE  TypeOK'
<1>0. <<c, opened[c]>> \in Protocols
  BY ConstantsAssumption DEF TypeOK, ConvOK, RecordID, Protocols
<1>1. ConvOK'
  <2>1. /\ conv' \in [Connections ->
                     {"none", "select", "send", "record", "signal"}]
        /\ outputs' \in [Connections -> Seq(Kinds)]
        /\ ends' \in [Connections -> BOOLEAN]
        /\ terminated' \subseteq Connections
    BY ConstantsAssumption DEF TypeOK, ConvOK, RecordID, Sent, Continue
  <2>2. opened' \in [Connections -> 0..MaxProtocols]
    BY <1>0, ConstantsAssumption DEF TypeOK, ConvOK, RecordID, Sent, Continue
  <2>3. lastProtocolID' \in [Connections -> SUBSET Protocols]
    BY <1>0 DEF TypeOK, ConvOK, RecordID, Sent, Continue
  <2>4. \A d \in Connections :
          conv'[d] = "record" => opened'[d] > 0 /\ outputs'[d] # <<>>
    BY <1>0, ConstantsAssumption DEF TypeOK, ConvOK, RecordID, Sent, Continue
  <2>5. QED
    BY <2>1, <2>2, <2>3, <2>4 DEF ConvOK
<1>2. QED
  BY <1>1,
     KeepAgency, KeepStream, KeepBot, KeepMux, KeepHandover, KeepBuffer
     DEF TypeOK, RecordID

\* The types survive SendProtocol.
LEMMA SendProtocolType ==
  ASSUME TypeOK, NEW c \in Connections, SendProtocol(c)
  PROVE  TypeOK'
<1>1. AgencyOK'
  BY ConstantsAssumption
     DEF TypeOK, AgencyOK, SendProtocol, Protocols
<1>2. ConvOK'
  BY ConstantsAssumption
     DEF TypeOK, ConvOK, SendProtocol, Sending, Sent, Continue, Protocols
<1>3. QED
  BY <1>1, <1>2,
     KeepStream, KeepBot, KeepMux, KeepHandover, KeepBuffer
     DEF TypeOK, SendProtocol

\* The types survive SendBackend.
LEMMA SendBackendType ==
  ASSUME TypeOK, NEW c \in Connections, SendBackend(c)
  PROVE  TypeOK'
<1>1. ConvOK'
  BY ConstantsAssumption
     DEF TypeOK, ConvOK, SendBackend, Sending, Sent, Continue
<1>2. BufferOK'
  BY ConstantsAssumption
     DEF TypeOK, BufferOK, SendBackend
<1>3. QED
  BY <1>1, <1>2,
     KeepAgency, KeepStream, KeepBot, KeepMux, KeepHandover
     DEF TypeOK, SendBackend

\* The types survive SendTransient.
LEMMA SendTransientType ==
  ASSUME TypeOK, NEW c \in Connections, SendTransient(c)
  PROVE  TypeOK'
<1>1. ConvOK'
  BY ConstantsAssumption
     DEF TypeOK, ConvOK, SendTransient, Sending, Sent, Continue
<1>2. BufferOK'
  BY ConstantsAssumption
     DEF TypeOK, BufferOK, SendTransient
<1>3. QED
  BY <1>1, <1>2,
     KeepAgency, KeepStream, KeepBot, KeepMux, KeepHandover
     DEF TypeOK, SendTransient

\* The types survive Signal.
LEMMA SignalType ==
  ASSUME TypeOK, NEW c \in Connections, Signal(c)
  PROVE  TypeOK'
<1>1. ConvOK'
  BY ConstantsAssumption
     DEF TypeOK, ConvOK, Signal
<1>2. BufferOK'
  BY ConstantsAssumption
     DEF TypeOK, BufferOK, Signal
<1>3. QED
  BY <1>1, <1>2,
     KeepAgency, KeepStream, KeepBot, KeepMux, KeepHandover
     DEF TypeOK, Signal

\* The types hold initially.
LEMMA InitType == ASSUME Init PROVE TypeOK
<1> USE ConstantsAssumption
<1>1. AgencyOK
  BY DEF Init, AgencyOK
<1>2. StreamOK
  BY DEF Init, StreamOK
<1>3. BotOK
  <2>1. cancelled \in BOOLEAN
    BY DEF Init
  <2>2. QED
    BY <2>1 DEF Init, BotOK
<1>4. MuxOK
  <2>1. ending \in BOOLEAN
    BY DEF Init
  <2>2. QED
    BY <2>1 DEF Init, MuxOK
<1>5. ConvOK
  BY DEF Init, ConvOK
<1>6. HandoverOK
  BY DEF Init, HandoverOK
<1>7. BufferOK
  BY DEF Init, BufferOK
<1>8. QED
  BY <1>1, <1>2, <1>3, <1>4, <1>5, <1>6, <1>7 DEF TypeOK

\* Every variable keeps its type: in particular no channel ever holds more than
\* its capacity, whatever the machines send.
THEOREM TypeCorrect == Spec => []TypeOK
<1>1. Init => TypeOK
  BY InitType
<1>2. TypeOK /\ [Next]_vars => TypeOK'
  <2> SUFFICES ASSUME TypeOK, [Next]_vars PROVE TypeOK'
    OBVIOUS
  <2>1. CASE Agency
    BY <2>1, PeerStartsType, NotifyType, AskType, CloseStatusType,
       CloseQuestionType DEF Agency
  <2>2. CASE BotRun
    BY <2>2, BotStatusType, BotQuestionType, BotInterruptType, BotReturnType
       DEF BotRun
  <2>3. CASE Multiplex
    BY <2>3, MuxStatusType, MuxQuestionType, MuxBackendType, BroadcastType,
       MuxTerminatedType, MuxInterruptType DEF Multiplex
  <2>4. ASSUME NEW c \in Connections, Receive(c) PROVE TypeOK'
    BY <2>4, ConvStatusType, ConvQuestionType, ConvBackendType,
       ConvTransientType DEF Receive
  <2>5. ASSUME NEW c \in Connections, Work(c) PROVE TypeOK'
    BY <2>5, SendMessageType, RecordIDType, SendProtocolType,
       SendBackendType, SendTransientType, SignalType DEF Work
  <2>6. CASE UNCHANGED vars
    BY <2>6, KeepAgency, KeepStream, KeepBot, KeepMux, KeepConv,
       KeepHandover, KeepBuffer DEF vars, TypeOK
  <2>7. QED
    BY <2>1, <2>2, <2>3, <2>4, <2>5, <2>6 DEF Next
<1>3. QED
  BY <1>1, <1>2, PTL DEF Spec

-----------------------------------------------------------------------------
(* Sequences and their elements. *)

\* An empty channel holds nothing.
LEMMA ElementsEmpty == Elements(<<>>) = {}
  BY DEF Elements

\* A channel with one message holds that message.
LEMMA ElementsOne == ASSUME NEW x PROVE Elements(<<x>>) = {x}
  BY DEF Elements

\* What a channel holds has the type of its messages.
LEMMA ElementsType ==
  ASSUME NEW S, NEW s \in Seq(S) PROVE Elements(s) \subseteq S
  BY DEF Elements

\* Sending adds one message to what the channel holds.
LEMMA ElementsAppend ==
  ASSUME NEW S, NEW s \in Seq(S), NEW x \in S
  PROVE  Elements(Append(s, x)) = Elements(s) \cup {x}
<1>1. Len(Append(s, x)) = Len(s) + 1 /\ Len(s) \in Nat
  OBVIOUS
<1>2. \A i \in 1..Len(s) : Append(s, x)[i] = s[i]
  OBVIOUS
<1>3. Append(s, x)[Len(s) + 1] = x
  OBVIOUS
<1>4. 1..(Len(s) + 1) = (1..Len(s)) \cup {Len(s) + 1}
  BY <1>1
<1>5. QED
  BY <1>1, <1>2, <1>3, <1>4 DEF Elements

\* Receiving takes the first message out, and leaves it nowhere behind.
LEMMA ElementsHeadTail ==
  ASSUME NEW S, NEW s \in Seq(S), s # <<>>
  PROVE  /\ Elements(s) = {Head(s)} \cup Elements(Tail(s))
         /\ Distinct(s) => Distinct(Tail(s)) /\ Head(s) \notin Elements(Tail(s))
<1>1. Len(Tail(s)) = Len(s) - 1 /\ Len(s) \in Nat \ {0} /\ Head(s) = s[1]
  OBVIOUS
<1>2. \A i \in 1..(Len(s) - 1) : Tail(s)[i] = s[i + 1]
  OBVIOUS
<1>3. \A j \in 1..Len(s) : j = 1 \/ \E i \in 1..(Len(s) - 1) : j = i + 1
  <2>1. \A j \in 1..Len(s) : j = 1 \/ (j - 1 \in 1..(Len(s) - 1) /\ j = (j - 1) + 1)
    BY <1>1
  <2>2. QED
    BY <2>1
<1>4. Elements(s) = {Head(s)} \cup Elements(Tail(s))
  <2>1. ASSUME NEW x \in Elements(s)
        PROVE  x \in {Head(s)} \cup Elements(Tail(s))
    <3>1. PICK j \in 1..Len(s) : x = s[j]
      BY DEF Elements
    <3>2. CASE j = 1
      BY <1>1, <3>1, <3>2
    <3>3. ASSUME NEW i \in 1..(Len(s) - 1), j = i + 1
          PROVE  x \in Elements(Tail(s))
      BY <1>1, <1>2, <3>1, <3>3 DEF Elements
    <3>4. QED
      BY <1>3, <3>2, <3>3
  <2>2. ASSUME NEW x \in Elements(Tail(s)) PROVE x \in Elements(s)
    BY <1>1, <1>2 DEF Elements
  <2>3. Head(s) \in Elements(s)
    BY <1>1 DEF Elements
  <2>4. QED
    BY <2>1, <2>2, <2>3
<1>5. ASSUME Distinct(s)
      PROVE  Distinct(Tail(s)) /\ Head(s) \notin Elements(Tail(s))
  BY <1>1, <1>2, <1>5 DEF Elements, Distinct
<1>6. QED
  BY <1>4, <1>5

\* A channel of capacity 1 holds at most one message.
LEMMA ElementsSingle ==
  ASSUME NEW S, NEW s \in Seq(S), s # <<>>, Len(s) <= 1
  PROVE  \A q \in Elements(s) : q = Head(s)
<1>1. \A i \in 1..Len(s) : i = 1
  OBVIOUS
<1>2. Head(s) = s[1]
  OBVIOUS
<1>3. QED
  BY <1>1, <1>2 DEF Elements

\* A prefix of a channel holds no more than the channel.
LEMMA ElementsPrefix ==
  ASSUME NEW S, NEW s \in Seq(S), NEW n \in 0..Len(s)
  PROVE  /\ Elements(SubSeq(s, 1, n)) \subseteq Elements(s)
         /\ Distinct(s) => Distinct(SubSeq(s, 1, n))
<1>1. Len(SubSeq(s, 1, n)) = n
  OBVIOUS
<1>2. \A i \in 1..n : SubSeq(s, 1, n)[i] = s[i] /\ i \in 1..Len(s)
  OBVIOUS
<1>3. QED
  BY <1>1, <1>2 DEF Elements, Distinct

\* A new message keeps the messages of a channel distinct.
LEMMA DistinctAppend ==
  ASSUME NEW S, NEW s \in Seq(S), NEW x \in S, Distinct(s), x \notin Elements(s)
  PROVE  Distinct(Append(s, x))
<1>1. Len(Append(s, x)) = Len(s) + 1 /\ Len(s) \in Nat
  OBVIOUS
<1>2. \A i \in 1..Len(s) : Append(s, x)[i] = s[i] /\ s[i] # x
  BY DEF Elements
<1>3. Append(s, x)[Len(s) + 1] = x
  OBVIOUS
<1>4. QED
  BY <1>1, <1>2, <1>3 DEF Distinct

-----------------------------------------------------------------------------
(* The invariant of a conversation's own messages. *)

\* Only protocols are awaited.
LEMMA AwaitedType == ASSUME TypeOK PROVE Awaited \subseteq Protocols
  BY ElementsType
     DEF TypeOK, AgencyOK, StreamOK, BotOK, HandoverOK, Awaited, InTransit

\* A notification is awaited in one of four places.
LEMMA InAwaited ==
  ASSUME NEW p
  PROVE  p \in Awaited <=> \/ p \in unnotified
                           \/ p \in Elements(statusCh)
                           \/ p \in Elements(Status)
                           \/ \E c \in Connections : p \in Elements(StatusChan[c])
  BY DEF Awaited, InTransit

\* The same after a step.
LEMMA InAwaitedNext ==
  ASSUME NEW p
  PROVE  p \in Awaited' <=> \/ p \in unnotified'
                            \/ p \in Elements(statusCh')
                            \/ p \in Elements(Status')
                            \/ \E c \in Connections : p \in Elements(StatusChan'[c])
  BY DEF Awaited, InTransit, Elements

ownVars == <<started, ours, unnotified, statusCh, Status, StatusChan, opened,
             lastProtocolID>>

\* Steps that touch nothing the invariant speaks of but the conversations'
\* whereabouts, and let no conversation leave "record".
LEMMA KeepOwn ==
  ASSUME OwnInv, UNCHANGED ownVars,
         \A c \in Connections : conv[c] = "record" => conv'[c] = "record",
         TypeOK
  PROVE  OwnInv'
<1>1. OnceOnly'
  <2>1. UNCHANGED <<unnotified, statusCh, Status, StatusChan>>
    BY DEF ownVars
  <2>2. Distinct(statusCh)'
    BY <2>1 DEF OwnInv, OnceOnly, Distinct
  <2>3. (unnotified \cap Elements(statusCh) = {})'
    BY <2>1 DEF OwnInv, OnceOnly
  <2>4. (Elements(Status) \cap (unnotified \cup Elements(statusCh)) = {})'
    BY <2>1 DEF OwnInv, OnceOnly
  <2>5. (\A c \in Connections : \A p \in Elements(StatusChan[c]) :
           p[1] = c /\ p \notin unnotified \cup Elements(Status) \cup Elements(statusCh))'
    BY <2>1 DEF OwnInv, OnceOnly
  <2>6. QED
    BY <2>2, <2>3, <2>4, <2>5, Zenon DEF OnceOnly
<1>2. Awaited' = Awaited
  BY DEF Awaited, InTransit, Elements, ownVars
<1>3. Numbered'
  BY <1>2 DEF OwnInv, Numbered, ownVars
<1>4. OwnIDsKnown'
  BY <1>2, AwaitedType DEF OwnInv, OwnIDsKnown, ownVars, Protocols
<1>5. QED
  BY <1>1, <1>3, <1>4 DEF OwnInv

\* A step that only moves statuses along, or loses some.
LEMMA MoveOwn ==
  ASSUME TypeOK, OwnInv, OnceOnly', Awaited' \subseteq Awaited,
         UNCHANGED <<started, ours, opened, lastProtocolID>>,
         \A c \in Connections : conv[c] = "record" => conv'[c] = "record"
  PROVE  OwnInv'
<1>1. Numbered'
  BY DEF OwnInv, Numbered
<1>2. OwnIDsKnown'
  BY AwaitedType DEF OwnInv, OwnIDsKnown, Protocols
<1>3. QED
  BY <1>1, <1>2 DEF OwnInv

\* OwnInv survives Notify.
LEMMA NotifyOwn ==
  ASSUME TypeOK, OwnInv, NEW p \in Protocols, Notify(p)
  PROVE  OwnInv'
<1>1. Elements(statusCh') = Elements(statusCh) \cup {p}
  BY ElementsAppend DEF TypeOK, StreamOK, Notify
<1>2. Distinct(statusCh')
  BY DistinctAppend DEF TypeOK, StreamOK, Notify, OwnInv, OnceOnly
<1>3. OnceOnly'
  <2>1. unnotified' = unnotified \ {p} /\ p \in unnotified
        /\ UNCHANGED <<Status, StatusChan>>
    BY DEF Notify, botVars, handover
  <2>2. (unnotified' \cap Elements(statusCh') = {})
    BY <1>1, <2>1 DEF OwnInv, OnceOnly
  <2>3. Elements(Status') \cap (unnotified' \cup Elements(statusCh')) = {}
    BY <1>1, <2>1 DEF OwnInv, OnceOnly
  <2>4. \A c \in Connections : \A q \in Elements(StatusChan'[c]) :
          q[1] = c /\ q \notin unnotified' \cup Elements(Status') \cup Elements(statusCh')
    BY <1>1, <2>1 DEF OwnInv, OnceOnly
  <2>5. QED
    BY <1>2, <2>2, <2>3, <2>4 DEF OnceOnly, Distinct, Elements
<1>4. Awaited' \subseteq Awaited
  <2> SUFFICES ASSUME NEW q \in Awaited' PROVE q \in Awaited
    OBVIOUS
  <2>1. QED
    BY <1>1, InAwaited, InAwaitedNext DEF Notify, botVars, handover
<1>5. QED
  BY <1>3, <1>4, MoveOwn DEF Notify, convVars

\* OwnInv survives CloseStatus.
LEMMA CloseStatusOwn == ASSUME TypeOK, OwnInv, CloseStatus PROVE OwnInv'
<1>1. Elements(statusCh') \subseteq Elements(statusCh) /\ Distinct(statusCh')
  <2>1. PICK n \in 0..Len(statusCh) : statusCh' = SubSeq(statusCh, 1, n)
    BY DEF CloseStatus, Delivered, TypeOK, StreamOK
  <2>2. QED
    BY <2>1, ElementsPrefix DEF TypeOK, StreamOK, OwnInv, OnceOnly
<1>2. UNCHANGED <<unnotified, Status, StatusChan>>
  BY DEF CloseStatus, agencyVars, botVars, handover
<1>3. OnceOnly'
  <2>1. unnotified' \cap Elements(statusCh') = {}
    BY <1>1, <1>2 DEF OwnInv, OnceOnly
  <2>2. Elements(Status') \cap (unnotified' \cup Elements(statusCh')) = {}
    BY <1>1, <1>2 DEF OwnInv, OnceOnly
  <2>3. \A c \in Connections : \A q \in Elements(StatusChan'[c]) :
          q[1] = c /\ q \notin unnotified' \cup Elements(Status') \cup Elements(statusCh')
    BY <1>1, <1>2 DEF OwnInv, OnceOnly
  <2>4. QED
    BY <1>1, <2>1, <2>2, <2>3 DEF OnceOnly, Distinct, Elements
<1>4. Awaited' \subseteq Awaited
  <2> SUFFICES ASSUME NEW q \in Awaited' PROVE q \in Awaited
    OBVIOUS
  <2>1. QED
    BY <1>1, <1>2, InAwaited, InAwaitedNext
<1>5. QED
  BY <1>3, <1>4, MoveOwn DEF CloseStatus, agencyVars, convVars

\* OwnInv survives BotStatus.
LEMMA BotStatusOwn == ASSUME TypeOK, OwnInv, BotStatus PROVE OwnInv'
<1> DEFINE h == Head(statusCh)
<1>1. /\ Elements(statusCh) = {h} \cup Elements(statusCh')
      /\ h \notin Elements(statusCh')
      /\ Distinct(statusCh')
  BY ElementsHeadTail DEF TypeOK, StreamOK, BotStatus, OwnInv, OnceOnly
<1>2. Elements(Status') = {h} /\ UNCHANGED <<unnotified, StatusChan>>
  BY ElementsOne DEF BotStatus, agencyVars, handover
<1>3. OnceOnly'
  <2>1. unnotified' \cap Elements(statusCh') = {}
    BY <1>1, <1>2 DEF OwnInv, OnceOnly
  <2>2. Elements(Status') \cap (unnotified' \cup Elements(statusCh')) = {}
    BY <1>1, <1>2 DEF OwnInv, OnceOnly
  <2>3. \A c \in Connections : \A q \in Elements(StatusChan'[c]) :
          q[1] = c /\ q \notin unnotified' \cup Elements(Status') \cup Elements(statusCh')
    BY <1>1, <1>2 DEF OwnInv, OnceOnly
  <2>4. QED
    BY <1>1, <2>1, <2>2, <2>3 DEF OnceOnly, Distinct, Elements
<1>4. Awaited' \subseteq Awaited
  <2> SUFFICES ASSUME NEW q \in Awaited' PROVE q \in Awaited
    OBVIOUS
  <2>1. QED
    BY <1>1, <1>2, InAwaited, InAwaitedNext
<1>5. QED
  BY <1>3, <1>4, MoveOwn DEF BotStatus, agencyVars, convVars

\* OwnInv survives MuxStatus.
LEMMA MuxStatusOwn == ASSUME TypeOK, OwnInv, MuxStatus PROVE OwnInv'
<1> DEFINE c == Head(Status)[1]
<1>1. c \in Connections
  BY DEF TypeOK, BotOK, MuxStatus, Protocols
<1>2. StatusChan' = [StatusChan EXCEPT ![c] = Status] /\ Status' = <<>>
      /\ UNCHANGED <<unnotified, statusCh>>
  BY DEF MuxStatus, agencyVars, streamVars
<1>3. Elements(Status') = {}
  BY <1>2, ElementsEmpty
<1>4. StatusChan'[c] = Status
      /\ \A d \in Connections : d # c => StatusChan'[d] = StatusChan[d]
  BY <1>1, <1>2 DEF TypeOK, HandoverOK
<1>5. \A q \in Elements(Status) : q[1] = c
  <2>1. Status \in Seq(Protocols) /\ Status # <<>> /\ Len(Status) <= 1
    BY DEF TypeOK, BotOK, MuxStatus
  <2>2. QED
    BY <2>1, ElementsSingle
<1>6. OnceOnly'
  <2>1. \A d \in Connections : \A q \in Elements(StatusChan'[d]) :
          q[1] = d /\ q \notin unnotified' \cup Elements(Status') \cup Elements(statusCh')
    <3>1. ASSUME NEW q \in Elements(StatusChan'[c])
          PROVE  q[1] = c /\ q \notin unnotified' \cup Elements(Status')
                                         \cup Elements(statusCh')
      BY <1>2, <1>3, <1>4, <1>5 DEF OwnInv, OnceOnly
    <3>2. ASSUME NEW d \in Connections, d # c, NEW q \in Elements(StatusChan'[d])
          PROVE  q[1] = d /\ q \notin unnotified' \cup Elements(Status')
                                         \cup Elements(statusCh')
      BY <1>2, <1>3, <1>4, <3>2 DEF OwnInv, OnceOnly
    <3>3. QED
      BY <3>1, <3>2
  <2>2. Distinct(statusCh') /\ unnotified' \cap Elements(statusCh') = {}
    BY <1>2 DEF OwnInv, OnceOnly
  <2>3. QED
    BY <1>3, <2>1, <2>2 DEF OnceOnly, Distinct, Elements
<1>7. Awaited' \subseteq Awaited
  <2> SUFFICES ASSUME NEW q \in Awaited' PROVE q \in Awaited
    OBVIOUS
  <2>1. QED
    BY <1>1, <1>2, <1>3, <1>4, InAwaited, InAwaitedNext
<1>8. \A d \in Connections : conv[d] = "record" => conv'[d] = "record"
  BY <1>1 DEF MuxStatus, EnsureConversation, TypeOK, ConvOK, convVars
<1>9. UNCHANGED <<opened, lastProtocolID>>
  BY DEF MuxStatus, EnsureConversation, convVars
<1>10. QED
  BY <1>6, <1>7, <1>8, <1>9, MoveOwn DEF MuxStatus, agencyVars

\* A step that starts a protocol on c gives it a number that is new.
LEMMA FreshNumber ==
  ASSUME TypeOK, OwnInv, NEW c \in Connections
  PROVE  /\ started[c] \in Nat
         /\ <<c, started[c] + 1>> \notin ours \cup Awaited
<1>1. started[c] \in Nat
  BY ConstantsAssumption DEF TypeOK, AgencyOK
<1>2. QED
  BY <1>1 DEF OwnInv, Numbered

\* Starting the next protocol keeps the protocols numbered.
LEMMA StartedNumbered ==
  ASSUME TypeOK, OwnInv, NEW c \in Connections,
         started' = [started EXCEPT ![c] = @ + 1],
         Awaited' \subseteq Awaited \cup {<<c, started[c] + 1>>},
         ours' \subseteq ours \cup {<<c, started[c] + 1>>}
  PROVE  Numbered'
<1> SUFFICES ASSUME NEW p \in ours' \cup Awaited'
             PROVE  p[2] <= started'[p[1]]
  BY DEF Numbered
<1>1. started \in [Connections -> Nat] /\ started[c] \in Nat
  BY ConstantsAssumption DEF TypeOK, AgencyOK
<1>2. CASE p = <<c, started[c] + 1>>
  BY <1>1, <1>2
<1>3. CASE p \in ours \cup Awaited
  <2>1. p[1] \in Connections /\ p[2] \in Nat /\ p[2] <= started[p[1]]
    BY <1>3, AwaitedType, ConstantsAssumption
       DEF OwnInv, Numbered, TypeOK, AgencyOK, Protocols
  <2>2. QED
    BY <1>1, <2>1
<1>4. QED
  BY <1>2, <1>3

\* OwnInv survives PeerStarts.
LEMMA PeerStartsOwn ==
  ASSUME TypeOK, OwnInv, NEW c \in Connections, PeerStarts(c)
  PROVE  OwnInv'
<1> DEFINE new == <<c, started[c] + 1>>
<1>1. new \in Protocols /\ new \notin ours \cup Awaited
  <2>1. started[c] + 1 \in 1..MaxProtocols
    BY ConstantsAssumption DEF TypeOK, AgencyOK, PeerStarts
  <2>2. new \notin ours \cup Awaited
    BY FreshNumber
  <2>3. QED
    BY <2>1, <2>2 DEF Protocols
<1>2. Elements(statusCh') = Elements(statusCh) \cup {new}
  BY <1>1, ElementsAppend DEF TypeOK, StreamOK, PeerStarts
<1>3. new \notin Elements(statusCh)
  BY <1>1, InAwaited
<1>4. Distinct(statusCh')
  BY <1>1, <1>3, DistinctAppend DEF TypeOK, StreamOK, PeerStarts, OwnInv, OnceOnly
<1>5. UNCHANGED <<ours, unnotified, Status, StatusChan, conv, opened, lastProtocolID>>
  BY DEF PeerStarts, botVars, handover, convVars
<1>6. OnceOnly'
  <2>1. unnotified' \cap Elements(statusCh') = {}
    BY <1>1, <1>2, <1>5, InAwaited DEF OwnInv, OnceOnly
  <2>2. Elements(Status') \cap (unnotified' \cup Elements(statusCh')) = {}
    BY <1>1, <1>2, <1>5, InAwaited DEF OwnInv, OnceOnly
  <2>3. \A d \in Connections : \A q \in Elements(StatusChan'[d]) :
          q[1] = d /\ q \notin unnotified' \cup Elements(Status') \cup Elements(statusCh')
    BY <1>1, <1>2, <1>5, InAwaited DEF OwnInv, OnceOnly
  <2>4. QED
    BY <1>4, <2>1, <2>2, <2>3 DEF OnceOnly, Distinct, Elements
<1>7. Awaited' \subseteq Awaited \cup {new}
  <2> SUFFICES ASSUME NEW q \in Awaited' PROVE q \in Awaited \cup {new}
    OBVIOUS
  <2>1. QED
    BY <1>2, <1>5, InAwaited, InAwaitedNext
<1>8. Numbered'
  BY <1>5, <1>7, StartedNumbered DEF PeerStarts
<1>9. OwnIDsKnown'
  BY <1>1, <1>5, <1>7 DEF OwnInv, OwnIDsKnown
<1>10. QED
  BY <1>6, <1>8, <1>9 DEF OwnInv

\* A protocol of ours starts: it is awaited, and known unless it is a message
\* whose ID RecordID is about to store.
LEMMA StartOwn ==
  ASSUME TypeOK, OwnInv, NEW c \in Connections,
         started[c] < MaxProtocols,
         started' = [started EXCEPT ![c] = @ + 1],
         unnotified' = unnotified \cup {<<c, started[c] + 1>>},
         UNCHANGED <<statusCh, Status, StatusChan>>
  PROVE  /\ OnceOnly'
         /\ Awaited' \subseteq Awaited \cup {<<c, started[c] + 1>>}
<1> DEFINE new == <<c, started[c] + 1>>
<1>1. new \notin ours \cup Awaited
  BY FreshNumber
<1>2. OnceOnly'
  <2>1. unnotified' \cap Elements(statusCh') = {}
    BY <1>1, InAwaited DEF OwnInv, OnceOnly
  <2>2. Elements(Status') \cap (unnotified' \cup Elements(statusCh')) = {}
    BY <1>1, InAwaited DEF OwnInv, OnceOnly
  <2>3. \A d \in Connections : \A q \in Elements(StatusChan'[d]) :
          q[1] = d /\ q \notin unnotified' \cup Elements(Status') \cup Elements(statusCh')
    BY <1>1, InAwaited DEF OwnInv, OnceOnly
  <2>4. Distinct(statusCh')
    BY DEF OwnInv, OnceOnly
  <2>5. QED
    BY <2>1, <2>2, <2>3, <2>4 DEF OnceOnly, Distinct, Elements
<1>3. Awaited' \subseteq Awaited \cup {new}
  <2> SUFFICES ASSUME NEW q \in Awaited' PROVE q \in Awaited \cup {new}
    OBVIOUS
  <2>1. QED
    BY InAwaited, InAwaitedNext
<1>4. QED
  BY <1>2, <1>3

\* OwnInv survives SendMessage.
LEMMA SendMessageOwn ==
  ASSUME TypeOK, OwnInv, NEW c \in Connections, SendMessage(c)
  PROVE  OwnInv'
<1> DEFINE new == <<c, started[c] + 1>>
<1>1. UNCHANGED <<statusCh, Status, StatusChan, lastProtocolID>>
      /\ conv[c] = "send"
  BY DEF SendMessage, Sending, streamVars, botVars, handover
<1>2. CASE started[c] < MaxProtocols
  <2>1. /\ started' = [started EXCEPT ![c] = @ + 1]
        /\ ours' = ours \cup {new}
        /\ unnotified' = unnotified \cup {new}
        /\ opened' = [opened EXCEPT ![c] = started[c] + 1]
        /\ conv' = [conv EXCEPT ![c] = "record"]
    BY <1>2 DEF SendMessage
  <2>2. OnceOnly' /\ Awaited' \subseteq Awaited \cup {new}
    BY <1>1, <1>2, <2>1, StartOwn
  <2>3. Numbered'
    BY <2>1, <2>2, StartedNumbered
  <2>4. OwnIDsKnown'
    <3> SUFFICES ASSUME NEW p \in ours', p \in Awaited'
                 PROVE  \/ p \in lastProtocolID'[p[1]]
                        \/ conv'[p[1]] = "record" /\ opened'[p[1]] = p[2]
      BY DEF OwnIDsKnown
    <3>1. CASE p = new
      BY <2>1, <3>1 DEF TypeOK, ConvOK
    <3>2. CASE p # new
      <4>1. p \in ours /\ p \in Awaited /\ p[1] \in Connections
        BY <2>1, <2>2, <3>2, AwaitedType DEF Protocols
      <4>2. \/ p \in lastProtocolID[p[1]]
            \/ conv[p[1]] = "record" /\ opened[p[1]] = p[2]
        BY <4>1 DEF OwnInv, OwnIDsKnown
      <4>3. CASE p[1] = c
        BY <1>1, <4>2, <4>3
      <4>4. CASE p[1] # c
        BY <1>1, <2>1, <4>1, <4>2, <4>4 DEF TypeOK, ConvOK
      <4>5. QED
        BY <4>3, <4>4
    <3>3. QED
      BY <3>1, <3>2
  <2>5. QED
    BY <2>2, <2>3, <2>4 DEF OwnInv
<1>3. CASE ~ (started[c] < MaxProtocols)
  <2>1. UNCHANGED <<started, ours, unnotified, opened>>
        /\ conv' = [conv EXCEPT ![c] = Continue(Tail(outputs[c]), ends[c])]
    BY <1>3 DEF SendMessage, Sent
  <2>2. \A d \in Connections : conv[d] = "record" => conv'[d] = "record"
    BY <1>1, <2>1 DEF TypeOK, ConvOK
  <2>3. QED
    BY <1>1, <2>1, <2>2, KeepOwn DEF ownVars
<1>4. QED
  BY <1>2, <1>3

\* OwnInv survives SendProtocol.
LEMMA SendProtocolOwn ==
  ASSUME TypeOK, OwnInv, NEW c \in Connections, SendProtocol(c)
  PROVE  OwnInv'
<1> DEFINE new == <<c, started[c] + 1>>
<1>1. UNCHANGED <<ours, statusCh, Status, StatusChan, opened, lastProtocolID>>
  BY DEF SendProtocol, streamVars, botVars, handover
<1>2. \A d \in Connections : conv[d] = "record" => conv'[d] = "record"
  BY DEF SendProtocol, Sending, Sent, TypeOK, ConvOK
<1>3. CASE started[c] < MaxProtocols
  <2>1. /\ started' = [started EXCEPT ![c] = @ + 1]
        /\ unnotified' = unnotified \cup {new}
    BY <1>3 DEF SendProtocol
  <2>2. OnceOnly' /\ Awaited' \subseteq Awaited \cup {new}
    BY <1>1, <1>3, <2>1, StartOwn
  <2>3. Numbered'
    BY <1>1, <2>1, <2>2, StartedNumbered
  <2>4. new \notin ours
    BY FreshNumber
  <2>5. OwnIDsKnown'
    BY <1>1, <1>2, <2>2, <2>4, AwaitedType DEF OwnInv, OwnIDsKnown, Protocols
  <2>6. QED
    BY <2>2, <2>3, <2>5 DEF OwnInv
<1>4. CASE ~ (started[c] < MaxProtocols)
  BY <1>1, <1>2, <1>4, KeepOwn DEF SendProtocol, ownVars
<1>5. QED
  BY <1>3, <1>4

\* OwnInv survives RecordID.
LEMMA RecordIDOwn ==
  ASSUME TypeOK, OwnInv, NEW c \in Connections, RecordID(c)
  PROVE  OwnInv'
<1>1. UNCHANGED <<started, ours, unnotified, statusCh, Status, StatusChan>>
  BY DEF RecordID, agencyVars, streamVars, botVars, handover
<1>2. OnceOnly' /\ Awaited' = Awaited
  <2>1. OnceOnly'
    <3>1. Distinct(statusCh') /\ Elements(statusCh') = Elements(statusCh)
          /\ Elements(Status') = Elements(Status)
      BY <1>1 DEF OwnInv, OnceOnly
    <3>2. \A d \in Connections :
            Elements(StatusChan'[d]) = Elements(StatusChan[d])
      BY <1>1
    <3>3. QED
      BY <1>1, <3>1, <3>2 DEF OwnInv, OnceOnly, Distinct, Elements
  <2>2. Awaited' = Awaited
    BY <1>1 DEF Awaited, InTransit, Elements
  <2>3. QED
    BY <2>1, <2>2
<1>3. Numbered'
  BY <1>1, <1>2 DEF OwnInv, Numbered
<1>4. OwnIDsKnown'
  <2> SUFFICES ASSUME NEW p \in ours, p \in Awaited
               PROVE  \/ p \in lastProtocolID'[p[1]]
                      \/ conv'[p[1]] = "record" /\ opened'[p[1]] = p[2]
    BY <1>1, <1>2 DEF OwnIDsKnown
  <2>1. p[1] \in Connections /\ p = <<p[1], p[2]>>
    BY AwaitedType DEF Protocols
  <2>2. \/ p \in lastProtocolID[p[1]]
        \/ conv[p[1]] = "record" /\ opened[p[1]] = p[2]
    BY DEF OwnInv, OwnIDsKnown
  <2>3. CASE p[1] = c
    BY <2>1, <2>2, <2>3 DEF RecordID, TypeOK, ConvOK
  <2>4. CASE p[1] # c
    BY <2>1, <2>2, <2>4 DEF RecordID, Sent, TypeOK, ConvOK
  <2>5. QED
    BY <2>3, <2>4
<1>5. QED
  BY <1>2, <1>3, <1>4 DEF OwnInv

\* OwnInv survives ConvStatus.
LEMMA ConvStatusOwn ==
  ASSUME TypeOK, OwnInv, NEW c \in Connections, ConvStatus(c)
  PROVE  OwnInv'
<1> DEFINE p == Head(StatusChan[c])
<1>1. UNCHANGED <<started, ours, unnotified, statusCh, Status, opened>>
  BY DEF ConvStatus, DiscardOwn, React, Trigger, convVars, agencyVars,
         streamVars, botVars
<1>2. /\ p \in Protocols
      /\ p \in Elements(StatusChan[c])
      /\ StatusChan'[c] = <<>>
      /\ \A d \in Connections : d # c => StatusChan'[d] = StatusChan[d]
  BY ElementsHeadTail DEF ConvStatus, TypeOK, HandoverOK
<1>3. OnceOnly'
  <2>1. \A d \in Connections : \A q \in Elements(StatusChan'[d]) :
          q[1] = d /\ q \notin unnotified' \cup Elements(Status') \cup Elements(statusCh')
    BY <1>1, <1>2, ElementsEmpty DEF OwnInv, OnceOnly
  <2>2. Distinct(statusCh') /\ unnotified' \cap Elements(statusCh') = {}
        /\ Elements(Status') \cap (unnotified' \cup Elements(statusCh')) = {}
    BY <1>1 DEF OwnInv, OnceOnly
  <2>3. QED
    BY <2>1, <2>2 DEF OnceOnly, Distinct, Elements
<1>4. Awaited' \subseteq Awaited /\ p \notin Awaited'
  <2>1. \A q : q \in Awaited' => q \in Awaited /\ q # p
    <3> SUFFICES ASSUME NEW q, q \in Awaited' PROVE q \in Awaited /\ q # p
      OBVIOUS
    <3>1. q \in Awaited
      BY <1>1, <1>2, ElementsEmpty, InAwaited, InAwaitedNext
    <3>2. q # p
      BY <1>1, <1>2, ElementsEmpty, InAwaitedNext DEF OwnInv, OnceOnly
    <3>3. QED
      BY <3>1, <3>2
  <2>2. QED
    BY <2>1
<1>5. Numbered'
  BY <1>1, <1>4 DEF OwnInv, Numbered
<1>6. OwnIDsKnown'
  <2> SUFFICES ASSUME NEW q \in ours, q \in Awaited'
               PROVE  \/ q \in lastProtocolID'[q[1]]
                      \/ conv'[q[1]] = "record" /\ opened'[q[1]] = q[2]
    BY <1>1 DEF OwnIDsKnown
  <2>1. q # p /\ q \in Awaited /\ q[1] \in Connections
    BY <1>4, AwaitedType DEF Protocols
  <2>2. \/ q \in lastProtocolID[q[1]]
        \/ conv[q[1]] = "record" /\ opened[q[1]] = q[2]
    BY <2>1 DEF OwnInv, OwnIDsKnown
  <2>3. q \in lastProtocolID[q[1]] => q \in lastProtocolID'[q[1]]
    BY <2>1 DEF ConvStatus, DiscardOwn, React, Trigger, convVars, TypeOK, ConvOK
  <2>4. conv[q[1]] = "record" => conv'[q[1]] = "record"
    BY <2>1 DEF ConvStatus, DiscardOwn, React, Trigger, convVars, TypeOK, ConvOK
  <2>5. QED
    BY <1>1, <2>2, <2>3, <2>4
<1>7. QED
  BY <1>3, <1>5, <1>6 DEF OwnInv

\* Every step keeps OwnInv.
LEMMA OwnStep ==
  ASSUME TypeOK, OwnInv, [Next]_vars PROVE OwnInv'
<1>1. ASSUME NEW c \in Connections, Ask(c) PROVE OwnInv'
  BY <1>1, KeepOwn DEF Ask, ownVars, botVars, convVars, handover
<1>2. CASE CloseQuestion
  BY <1>2, KeepOwn DEF CloseQuestion, ownVars, agencyVars, botVars, convVars,
                       handover
<1>3. CASE BotQuestion
  BY <1>3, KeepOwn DEF BotQuestion, ownVars, agencyVars, convVars, handover
<1>4. CASE BotInterrupt
  BY <1>4, KeepOwn DEF BotInterrupt, ownVars, agencyVars, streamVars,
                       convVars, handover
<1>5. CASE BotReturn
  BY <1>5, KeepOwn DEF BotReturn, ownVars, agencyVars, streamVars, convVars,
                       handover
<1>6. CASE MuxQuestion
  <2>1. \A d \in Connections : conv[d] = "record" => conv'[d] = "record"
    BY <1>6 DEF MuxQuestion, EnsureConversation, TypeOK, ConvOK, BotOK, convVars
  <2>2. QED
    BY <1>6, <2>1, KeepOwn
       DEF MuxQuestion, EnsureConversation, ownVars, agencyVars, streamVars,
           convVars
<1>7. CASE MuxBackend
  BY <1>7, KeepOwn DEF MuxBackend, ownVars, agencyVars, streamVars, botVars,
                       convVars, handover
<1>8. ASSUME NEW c \in Connections, Broadcast(c) PROVE OwnInv'
  BY <1>8, KeepOwn DEF Broadcast, ownVars, agencyVars, streamVars, botVars,
                       convVars, handover
<1>9. CASE MuxTerminated
  BY <1>9, KeepOwn DEF MuxTerminated, ownVars, agencyVars, streamVars,
                       botVars, convVars, handover
<1>10. CASE MuxInterrupt
  BY <1>10, KeepOwn DEF MuxInterrupt, ownVars, agencyVars, streamVars,
                        botVars, convVars, handover
<1>11. ASSUME NEW c \in Connections, ConvQuestion(c) PROVE OwnInv'
  <2>1. \A d \in Connections : conv[d] = "record" => conv'[d] = "record"
    BY <1>11 DEF ConvQuestion, React, Trigger, TypeOK, ConvOK, convVars
  <2>2. QED
    BY <1>11, <2>1, KeepOwn
       DEF ConvQuestion, React, Trigger, ownVars, agencyVars, streamVars,
           botVars, convVars
<1>12. ASSUME NEW c \in Connections, ConvBackend(c) PROVE OwnInv'
  <2>1. \A d \in Connections : conv[d] = "record" => conv'[d] = "record"
    BY <1>12 DEF ConvBackend, React, Trigger, TypeOK, ConvOK, convVars
  <2>2. QED
    BY <1>12, <2>1, KeepOwn
       DEF ConvBackend, React, Trigger, ownVars, agencyVars, streamVars,
           botVars, convVars, handover
<1>13. ASSUME NEW c \in Connections, ConvTransient(c) PROVE OwnInv'
  <2>1. \A d \in Connections : conv[d] = "record" => conv'[d] = "record"
    BY <1>13 DEF ConvTransient, React, Trigger, TypeOK, ConvOK, convVars
  <2>2. QED
    BY <1>13, <2>1, KeepOwn
       DEF ConvTransient, React, Trigger, ownVars, agencyVars, streamVars,
           botVars, convVars, handover
<1>14. ASSUME NEW c \in Connections, SendBackend(c) PROVE OwnInv'
  BY <1>14, KeepOwn
     DEF SendBackend, Sending, Sent, TypeOK, ConvOK, ownVars, agencyVars,
         streamVars, botVars, handover
<1>15. ASSUME NEW c \in Connections, SendTransient(c) PROVE OwnInv'
  BY <1>15, KeepOwn
     DEF SendTransient, Sending, Sent, TypeOK, ConvOK, ownVars, agencyVars,
         streamVars, botVars, handover
<1>16. ASSUME NEW c \in Connections, Signal(c) PROVE OwnInv'
  BY <1>16, KeepOwn
     DEF Signal, TypeOK, ConvOK, ownVars, agencyVars, streamVars, botVars,
         handover
<1>17. CASE UNCHANGED vars
  BY <1>17, KeepOwn DEF vars, ownVars, agencyVars, streamVars, botVars,
                        convVars, handover
<1>18. CASE Agency
  BY <1>1, <1>2, <1>18, PeerStartsOwn, NotifyOwn, CloseStatusOwn DEF Agency
<1>19. CASE BotRun
  BY <1>3, <1>4, <1>5, <1>19, BotStatusOwn DEF BotRun
<1>20. CASE Multiplex
  BY <1>6, <1>7, <1>8, <1>9, <1>10, <1>20, MuxStatusOwn DEF Multiplex
<1>21. ASSUME NEW c \in Connections, Receive(c) PROVE OwnInv'
  BY <1>11, <1>12, <1>13, <1>21, ConvStatusOwn DEF Receive
<1>22. ASSUME NEW c \in Connections, Work(c) PROVE OwnInv'
  BY <1>14, <1>15, <1>16, <1>22, SendMessageOwn, RecordIDOwn, SendProtocolOwn
     DEF Work
<1>23. QED
  BY <1>17, <1>18, <1>19, <1>20, <1>21, <1>22 DEF Next

\* OwnInv holds initially.
LEMMA InitOwn == ASSUME Init PROVE OwnInv
<1>1. Elements(statusCh) = {} /\ Elements(Status) = {}
      /\ \A c \in Connections : Elements(StatusChan[c]) = {}
  BY ElementsEmpty DEF Init
<1>2. OnceOnly
  BY <1>1 DEF Init, OnceOnly, Distinct
<1>3. ours = {} /\ Awaited = {}
  BY <1>1 DEF Init, Awaited, InTransit
<1>4. QED
  BY <1>2, <1>3 DEF OwnInv, Numbered, OwnIDsKnown

\* A conversation has the ID of every basic message it sent whose notification
\* may still come (Conversation.lastProtocolID), and a status is in one place
\* only on its way to it.
THEOREM OwnMessagesKnown == Spec => []OwnInv
<1>1. Init => OwnInv
  BY InitOwn
<1>2. TypeOK /\ OwnInv /\ [Next]_vars => OwnInv'
  BY OwnStep
<1>3. QED
  BY <1>1, <1>2, TypeCorrect, PTL DEF Spec

\* Taking a status empties the conversation's channel, and nothing else does.
LEMMA OnlyConvStatusTakes ==
  ASSUME TypeOK, [Next]_vars, NEW c \in Connections,
         StatusChan[c] # <<>>, StatusChan'[c] = <<>>
  PROVE  ConvStatus(c)
<1>1. StatusChan' # StatusChan
  OBVIOUS
<1>2. ~ UNCHANGED handover /\ ~ UNCHANGED StatusChan
  BY <1>1 DEF handover
<1>3. CASE MuxStatus
  BY <1>3 DEF MuxStatus, TypeOK, HandoverOK, BotOK, Protocols
<1>4. ASSUME NEW d \in Connections, ConvStatus(d) PROVE ConvStatus(c)
  BY <1>4 DEF ConvStatus, TypeOK, HandoverOK
<1>5. ~ Agency
  BY <1>2 DEF Agency, PeerStarts, Notify, Ask, CloseStatus, CloseQuestion
<1>6. ~ BotRun
  BY <1>2 DEF BotRun, BotStatus, BotQuestion, BotInterrupt, BotReturn
<1>7. Multiplex => MuxStatus
  BY <1>2 DEF Multiplex, MuxQuestion, MuxBackend, Broadcast, MuxTerminated,
              MuxInterrupt
<1>8. ASSUME NEW d \in Connections, Receive(d) PROVE ConvStatus(d)
  BY <1>2, <1>8 DEF Receive, ConvQuestion, ConvBackend, ConvTransient
<1>9. \A d \in Connections : ~ Work(d)
  BY <1>2 DEF Work, SendMessage, RecordID, SendProtocol, SendBackend,
              SendTransient, Signal
<1>10. QED
  BY <1>1, <1>3, <1>4, <1>5, <1>6, <1>7, <1>8, <1>9
     DEF Next, vars, handover

\* The notification of a message the conversation sent itself never makes its
\* machine react (statusReceived returns at isOursAndRm).
THEOREM OwnMessagesNeverTrigger == Spec => OwnMessagesDiscarded
<1> DEFINE Quiet == \A c \in Connections :
                      /\ StatusChan[c] # <<>>
                      /\ StatusChan'[c] = <<>>
                      /\ Head(StatusChan[c]) \in ours
                      => UNCHANGED <<conv, outputs, ends>>
<1>1. TypeOK /\ OwnInv /\ [Next]_vars => [Quiet]_vars
  <2> SUFFICES ASSUME TypeOK, OwnInv, [Next]_vars, NEW c \in Connections,
                      StatusChan[c] # <<>>, StatusChan'[c] = <<>>,
                      Head(StatusChan[c]) \in ours
               PROVE  UNCHANGED <<conv, outputs, ends>>
    OBVIOUS
  <2> DEFINE p == Head(StatusChan[c])
  <2>1. ConvStatus(c)
    BY OnlyConvStatusTakes
  <2>2. p \in Elements(StatusChan[c])
    BY ElementsHeadTail DEF TypeOK, HandoverOK
  <2>3. p[1] = c /\ p \in Awaited
    BY <2>2, InAwaited DEF OwnInv, OnceOnly
  <2>4. p \in lastProtocolID[c]
    BY <2>1, <2>3 DEF OwnInv, OwnIDsKnown, ConvStatus
  <2>5. QED
    BY <2>1, <2>4 DEF ConvStatus, DiscardOwn
<1>2. QED
  BY <1>1, TypeCorrect, OwnMessagesKnown, PTL DEF Spec, OwnMessagesDiscarded

-----------------------------------------------------------------------------
(* One handover at a time. *)

handoverVars == <<mux, conv, StatusChan, QuestionChan>>

\* A conversation that was made stays, whatever else happens to it.
LEMMA ConvStays ==
  ASSUME TypeOK, [Next]_vars, NEW c \in Connections, conv[c] # "none"
  PROVE  conv'[c] # "none"
<1>1. CASE UNCHANGED conv
  BY <1>1
<1>2. CASE MuxStatus
  BY <1>2 DEF MuxStatus, EnsureConversation, Continue, TypeOK, ConvOK, convVars
<1>3. CASE MuxQuestion
  BY <1>3 DEF MuxQuestion, EnsureConversation, Continue, TypeOK, ConvOK, convVars
<1>4. ASSUME NEW d \in Connections, React(d) PROVE conv'[c] # "none"
  BY <1>4 DEF React, Trigger, Continue, TypeOK, ConvOK, convVars
<1>5. ASSUME NEW d \in Connections, Receive(d) PROVE conv'[c] # "none"
  BY <1>4, <1>5 DEF Receive, ConvStatus, ConvQuestion, ConvBackend, ConvTransient, DiscardOwn
<1>6. ASSUME NEW d \in Connections, Work(d) PROVE conv'[c] # "none"
  <2>1. ASSUME Sent(d) PROVE conv'[c] # "none"
    BY <2>1 DEF Sent, Continue, TypeOK, ConvOK
  <2>2. CASE SendMessage(d)
    BY <2>1, <2>2 DEF SendMessage, TypeOK, ConvOK
  <2>3. CASE Signal(d)
    BY <2>3 DEF Signal, TypeOK, ConvOK
  <2> QED
    BY <1>6, <2>1, <2>2, <2>3 DEF Work, RecordID, SendProtocol, SendBackend, SendTransient
<1>7. Agency \/ BotRun => UNCHANGED conv
  BY DEF Agency, PeerStarts, Notify, Ask, CloseStatus, CloseQuestion, BotRun, BotStatus,
         BotQuestion, BotInterrupt, BotReturn, convVars
<1>8. Multiplex => MuxStatus \/ MuxQuestion \/ UNCHANGED conv
  BY DEF Multiplex, MuxBackend, Broadcast, MuxTerminated, MuxInterrupt, convVars
<1> QED
  BY <1>1, <1>2, <1>3, <1>5, <1>6, <1>7, <1>8 DEF Next, vars, convVars

\* Who does not touch the handover, does not harm it, unless the multiplexer
\* leaves its delivery.
LEMMA KeepHandedOver ==
  ASSUME TypeOK, OneHandover, [Next]_vars, UNCHANGED handover, mux = "deliver" => mux' = "deliver"
  PROVE  OneHandover'
<1>1. UNCHANGED <<StatusChan, QuestionChan>>
  BY DEF handover
<1>2. \A c \in Connections : conv[c] # "none" => conv'[c] # "none"
  BY ConvStays
<1>3. ASSUME NEW c \in Connections, NEW d \in Connections, StatusChan'[c] # <<>>
      PROVE  mux' = "deliver" /\ conv'[c] # "none" /\ QuestionChan'[d] = 0 /\ (StatusChan'[d] # <<>> => c = d)
  BY <1>1, <1>2, <1>3 DEF OneHandover
<1>4. ASSUME NEW c \in Connections, NEW d \in Connections, QuestionChan'[c] = 1
      PROVE  mux' = "deliver" /\ conv'[c] # "none" /\ (QuestionChan'[d] = 1 => c = d)
  BY <1>1, <1>2, <1>4 DEF OneHandover
<1>5. (\A c, d \in Connections :
         /\ StatusChan[c] # <<>> =>
              /\ mux = "deliver" /\ conv[c] # "none" /\ QuestionChan[d] = 0
              /\ StatusChan[d] # <<>> => c = d
         /\ QuestionChan[c] = 1 =>
              /\ mux = "deliver" /\ conv[c] # "none"
              /\ QuestionChan[d] = 1 => c = d)'
  BY <1>3, <1>4, Zenon
<1> QED
  BY <1>5, Zenon DEF OneHandover

\* While the multiplexer does not deliver, nothing is handed over.
LEMMA NothingHandedOver ==
  ASSUME TypeOK, OneHandover, mux # "deliver"
  PROVE  \A c \in Connections : StatusChan[c] = <<>> /\ QuestionChan[c] = 0
<1> SUFFICES ASSUME NEW c \in Connections PROVE StatusChan[c] = <<>> /\ QuestionChan[c] = 0
  OBVIOUS
<1>1. QuestionChan[c] = 0 \/ QuestionChan[c] = 1
  BY DEF TypeOK, HandoverOK
<1>2. ~(StatusChan[c] # <<>>) /\ QuestionChan[c] # 1
  BY DEF OneHandover
<1> QED
  BY <1>1, <1>2

\* Every step keeps OneHandover.
LEMMA HandoverStep ==
  ASSUME TypeOK, OneHandover, [Next]_vars PROVE OneHandover'
<1>1. CASE MuxStatus
  <2> DEFINE c == Head(Status)[1]
  <2>1. c \in Connections
    BY <1>1 DEF MuxStatus, TypeOK, BotOK, Protocols
  <2>2. conv'[c] # "none"
    BY <1>1, <2>1 DEF MuxStatus, EnsureConversation, Continue, TypeOK, ConvOK, convVars
  <2>3. /\ mux' = "deliver" /\ UNCHANGED QuestionChan
        /\ \A d \in Connections : d # c => StatusChan'[d] = StatusChan[d]
    BY <1>1 DEF MuxStatus, TypeOK, HandoverOK
  <2>4. \A d \in Connections : StatusChan[d] = <<>> /\ QuestionChan[d] = 0
    BY <1>1, NothingHandedOver DEF MuxStatus
  <2> QED
    BY <2>1, <2>2, <2>3, <2>4 DEF OneHandover
<1>2. CASE MuxQuestion
  <2> DEFINE c == Head(Question)
  <2>1. c \in Connections
    BY <1>2 DEF MuxQuestion, TypeOK, BotOK
  <2>2. conv'[c] # "none"
    BY <1>2, <2>1 DEF MuxQuestion, EnsureConversation, Continue, TypeOK, ConvOK, convVars
  <2>3. /\ mux' = "deliver" /\ UNCHANGED StatusChan
        /\ \A d \in Connections : d # c => QuestionChan'[d] = QuestionChan[d]
    BY <1>2 DEF MuxQuestion, TypeOK, HandoverOK
  <2>4. \A d \in Connections : StatusChan[d] = <<>> /\ QuestionChan[d] = 0
    BY <1>2, NothingHandedOver DEF MuxQuestion
  <2> QED
    BY <2>1, <2>2, <2>3, <2>4 DEF OneHandover
<1>3. CASE MuxBackend \/ (\E c \in Connections : Broadcast(c)) \/ MuxTerminated \/ MuxInterrupt
  <2>1. UNCHANGED handover /\ mux # "deliver"
    BY <1>3 DEF MuxBackend, Broadcast, MuxTerminated, MuxInterrupt
  <2> QED
    BY <2>1, KeepHandedOver
<1>4. ASSUME NEW c \in Connections, ConvStatus(c) PROVE OneHandover'
  <2>1. \A d \in Connections : StatusChan'[d] = <<>> /\ QuestionChan'[d] = 0
    BY <1>4 DEF ConvStatus, OneHandover, TypeOK, HandoverOK
  <2> QED
    BY <2>1 DEF OneHandover
<1>5. ASSUME NEW c \in Connections, ConvQuestion(c) PROVE OneHandover'
  <2>1. \A d \in Connections : StatusChan[d] = <<>> /\ QuestionChan'[d] = 0
    BY <1>5 DEF ConvQuestion, OneHandover, TypeOK, HandoverOK
  <2>2. UNCHANGED StatusChan
    BY <1>5 DEF ConvQuestion
  <2> QED
    BY <2>1, <2>2 DEF OneHandover
<1>6. ASSUME NEW c \in Connections, ConvBackend(c) \/ ConvTransient(c) \/ Work(c) PROVE OneHandover'
  <2>1. UNCHANGED handover /\ UNCHANGED mux
    BY <1>6 DEF ConvBackend, ConvTransient, Work, SendMessage, RecordID, SendProtocol,
                SendBackend, SendTransient, Signal, muxVars
  <2> QED
    BY <2>1, KeepHandedOver
<1>7. CASE Agency \/ BotRun
  <2>1. UNCHANGED handover /\ UNCHANGED mux
    BY <1>7 DEF Agency, PeerStarts, Notify, Ask, CloseStatus, CloseQuestion, BotRun, BotStatus,
                BotQuestion, BotInterrupt, BotReturn, muxVars
  <2> QED
    BY <2>1, KeepHandedOver
<1>8. CASE UNCHANGED vars
  BY <1>8, KeepHandedOver DEF vars, muxVars
<1> QED
  BY <1>1, <1>2, <1>3, <1>4, <1>5, <1>6, <1>7, <1>8 DEF Next, Multiplex, Receive

(* The multiplexer hands over one event at a time, to a conversation that it
   has made (ConversationByID and the sends of the multiplexer's loop). *)
THEOREM HandsOverOne == Spec => []OneHandover
<1>1. Init => OneHandover
  BY DEF Init, OneHandover
<1>2. TypeOK /\ OneHandover /\ [Next]_vars => OneHandover'
  BY HandoverStep
<1> QED
  BY <1>1, <1>2, TypeCorrect, PTL DEF Spec

-----------------------------------------------------------------------------
(* No ID is kept longer than its notification is awaited. *)

\* A conversation keeps IDs of its own connection.
IDsOfOwn == \A c \in Connections : \A p \in lastProtocolID[c] : p[1] = c
\* An ID that is about to be recorded is awaited.
RecordingAwaited ==
  "status" \notin closed =>
    \A c \in Connections : conv[c] = "record" => <<c, opened[c]>> \in Awaited

\* The ID that a conversation is about to record is awaited too: until it has
\* recorded it, it cannot take the notification.
StaleInv == NoStaleIDs /\ IDsOfOwn /\ RecordingAwaited

\* Steps after which the same is awaited, and more.
LEMMA KeepStale ==
  ASSUME StaleInv, closed \subseteq closed', Awaited \subseteq Awaited',
         UNCHANGED <<lastProtocolID, opened>>,
         \A c \in Connections : conv'[c] = "record" => conv[c] = "record"
  PROVE  StaleInv'
<1>1. NoStaleIDs'
  BY DEF StaleInv, NoStaleIDs
<1>2. IDsOfOwn'
  BY DEF StaleInv, IDsOfOwn
<1>3. RecordingAwaited'
  BY DEF StaleInv, RecordingAwaited
<1> QED
  BY <1>1, <1>2, <1>3 DEF StaleInv

\* Who moves nothing, awaits the same.
LEMMA SameAwaited ==
  ASSUME UNCHANGED <<unnotified, statusCh, Status, StatusChan>>
  PROVE  Awaited' = Awaited
BY DEF Awaited, InTransit, Elements

\* A status that is sent, passed on or handed over is still awaited.
LEMMA AgencyStale == ASSUME TypeOK, StaleInv, Agency PROVE StaleInv'
<1>1. ASSUME NEW c \in Connections, PeerStarts(c) PROVE Awaited \subseteq Awaited'
  <2>1. <<c, started[c] + 1>> \in Protocols
    BY <1>1, ConstantsAssumption DEF TypeOK, AgencyOK, PeerStarts, Protocols
  <2>2. Elements(statusCh) \subseteq Elements(statusCh')
    BY <1>1, <2>1, ElementsAppend DEF TypeOK, StreamOK, PeerStarts
  <2>3. UNCHANGED <<unnotified, Status, StatusChan>>
    BY <1>1 DEF PeerStarts, botVars, handover
  <2> QED
    BY <2>2, <2>3, InAwaited, InAwaitedNext
<1>2. ASSUME NEW p \in Protocols, Notify(p) PROVE Awaited \subseteq Awaited'
  <2>1. Elements(statusCh') = Elements(statusCh) \cup {p}
    BY <1>2, ElementsAppend DEF TypeOK, StreamOK, Notify
  <2>2. unnotified' = unnotified \ {p} /\ UNCHANGED <<Status, StatusChan>>
    BY <1>2 DEF Notify, botVars, handover
  <2> QED
    BY <2>1, <2>2, InAwaited, InAwaitedNext
<1>3. ASSUME NEW c \in Connections, Ask(c) PROVE Awaited \subseteq Awaited'
  BY <1>3, SameAwaited DEF Ask, botVars, handover
<1>4. CASE CloseQuestion
  BY <1>4, SameAwaited, KeepStale DEF CloseQuestion, agencyVars, botVars, handover, convVars
<1>5. CASE CloseStatus
  <2>1. "status" \in closed' /\ UNCHANGED lastProtocolID
    BY <1>5 DEF CloseStatus, convVars
  <2> QED
    BY <2>1 DEF StaleInv, NoStaleIDs, IDsOfOwn, RecordingAwaited
<1>6. CASE Awaited \subseteq Awaited' /\ ~CloseStatus /\ ~CloseQuestion
  <2>1. UNCHANGED closed /\ UNCHANGED convVars
    BY <1>6 DEF Agency, PeerStarts, Notify, Ask
  <2> QED
    BY <1>6, <2>1, KeepStale DEF convVars
<1> QED
  BY <1>1, <1>2, <1>3, <1>4, <1>5, <1>6 DEF Agency

\* Bot.Run passes a status on, out of the stream.
LEMMA BotRunStale == ASSUME TypeOK, StaleInv, BotRun PROVE StaleInv'
<1>1. CASE BotStatus
  <2>1. Elements(statusCh) = {Head(statusCh)} \cup Elements(statusCh')
    BY <1>1, ElementsHeadTail DEF BotStatus, TypeOK, StreamOK
  <2>2. Elements(Status) = {} /\ Elements(Status') = {Head(statusCh)}
    BY <1>1, ElementsEmpty, ElementsOne DEF BotStatus, BotAtSelect
  <2>3. UNCHANGED <<unnotified, StatusChan>>
    BY <1>1 DEF BotStatus, agencyVars, handover
  <2>4. Awaited \subseteq Awaited'
    BY <2>1, <2>2, <2>3, InAwaited, InAwaitedNext
  <2> QED
    BY <1>1, <2>4, KeepStale DEF BotStatus, convVars
<1>2. CASE BotQuestion
  BY <1>2, SameAwaited, KeepStale DEF BotQuestion, agencyVars, handover, convVars
<1>3. CASE BotInterrupt \/ BotReturn
  BY <1>3, SameAwaited, KeepStale DEF BotInterrupt, BotReturn, streamVars, agencyVars, handover, convVars
<1> QED
  BY <1>1, <1>2, <1>3 DEF BotRun

\* The multiplexer hands a status to a conversation whose channel is empty.
LEMMA MultiplexStale == ASSUME TypeOK, OneHandover, StaleInv, Multiplex PROVE StaleInv'
<1>1. ASSUME NEW c \in Connections, EnsureConversation(c)
      PROVE  /\ UNCHANGED <<lastProtocolID, opened>>
             /\ \A d \in Connections : conv'[d] = "record" => conv[d] = "record"
  BY <1>1 DEF EnsureConversation, Continue, TypeOK, ConvOK, convVars
<1>2. CASE MuxStatus
  <2> DEFINE c == Head(Status)[1]
  <2>1. c \in Connections /\ EnsureConversation(c)
    BY <1>2 DEF MuxStatus, TypeOK, BotOK, Protocols
  <2>2. StatusChan[c] = <<>> /\ Elements(StatusChan[c]) = {} /\ Elements(Status') = {}
    BY <1>2, <2>1, NothingHandedOver, ElementsEmpty DEF MuxStatus
  <2>3. StatusChan'[c] = Status /\ \A d \in Connections : d # c => StatusChan'[d] = StatusChan[d]
    BY <1>2, <2>1 DEF MuxStatus, TypeOK, HandoverOK
  <2>4. UNCHANGED <<unnotified, statusCh, closed>>
    BY <1>2 DEF MuxStatus, agencyVars, streamVars
  <2> HIDE DEF c
  <2>5. \A p \in Awaited : p \in Awaited'
    <3> SUFFICES ASSUME NEW p \in Awaited PROVE p \in Awaited'
      OBVIOUS
    <3>1. CASE p \in Elements(Status)
      BY <2>1, <2>3, <3>1, InAwaitedNext
    <3>2. ASSUME NEW d \in Connections, p \in Elements(StatusChan[d]) PROVE p \in Awaited'
      <4>1. d # c
        BY <2>2, <3>2
      <4>2. p \in Elements(StatusChan'[d])
        BY <2>3, <3>2, <4>1
      <4> QED
        BY <4>2, InAwaitedNext
    <3>3. CASE p \in unnotified \/ p \in Elements(statusCh)
      <4>1. p \in unnotified' \/ p \in Elements(statusCh')
        BY <2>4, <3>3
      <4> QED
        BY <4>1, InAwaitedNext
    <3> QED
      BY <3>1, <3>2, <3>3, InAwaited
  <2> QED
    BY <1>1, <2>1, <2>4, <2>5, KeepStale
<1>3. CASE MuxQuestion
  <2>1. Head(Question) \in Connections /\ EnsureConversation(Head(Question))
    BY <1>3 DEF MuxQuestion, TypeOK, BotOK
  <2> QED
    BY <1>1, <1>3, <2>1, SameAwaited, KeepStale DEF MuxQuestion, agencyVars, streamVars
<1>4. CASE MuxBackend \/ (\E c \in Connections : Broadcast(c)) \/ MuxTerminated \/ MuxInterrupt
  <2>1. UNCHANGED <<agencyVars, streamVars, botVars, handover, convVars>>
    BY <1>4 DEF MuxBackend, Broadcast, MuxTerminated, MuxInterrupt
  <2> QED
    BY <2>1, SameAwaited, KeepStale DEF agencyVars, streamVars, botVars, handover, convVars
<1> QED
  BY <1>2, <1>3, <1>4 DEF Multiplex

\* A conversation's channel never holds two statuses: it has no buffer.
OneStatus == \A c \in Connections : Len(StatusChan[c]) <= 1

\* Only the multiplexer fills it, with the one status that it has.
LEMMA OneStatusStep == ASSUME TypeOK, OneStatus, [Next]_vars PROVE OneStatus'
<1>1. CASE MuxStatus
  BY <1>1 DEF MuxStatus, TypeOK, BotOK, HandoverOK, OneStatus
<1>2. ASSUME NEW c \in Connections, ConvStatus(c) PROVE OneStatus'
  <2>1. \A d \in Connections : StatusChan'[d] = <<>> \/ StatusChan'[d] = StatusChan[d]
    BY <1>2 DEF ConvStatus, TypeOK, HandoverOK
  <2>2. Len(<<>>) <= 1
    OBVIOUS
  <2> QED
    BY <2>1, <2>2 DEF OneStatus
<1>3. CASE UNCHANGED StatusChan
  BY <1>3 DEF OneStatus
<1>4. Agency \/ BotRun \/ UNCHANGED vars => UNCHANGED StatusChan
  BY DEF Agency, PeerStarts, Notify, Ask, CloseStatus, CloseQuestion, BotRun, BotStatus, BotQuestion,
         BotInterrupt, BotReturn, vars, handover
<1>5. Multiplex => MuxStatus \/ UNCHANGED StatusChan
  BY DEF Multiplex, MuxQuestion, MuxBackend, Broadcast, MuxTerminated, MuxInterrupt, handover
<1>6. \A c \in Connections : Receive(c) \/ Work(c) => ConvStatus(c) \/ UNCHANGED StatusChan
  BY DEF Receive, ConvQuestion, ConvBackend, ConvTransient, Work, SendMessage, RecordID, SendProtocol,
         SendBackend, SendTransient, Signal, handover
<1> QED
  BY <1>1, <1>2, <1>3, <1>4, <1>5, <1>6 DEF Next

\* Taking a status forgets its ID.
LEMMA ConvStatusStale ==
  ASSUME TypeOK, OwnInv, OneStatus, StaleInv, NEW c \in Connections, ConvStatus(c) PROVE StaleInv'
<1> DEFINE p == Head(StatusChan[c])
<1>1. UNCHANGED <<unnotified, statusCh, Status, closed, opened>>
  BY DEF ConvStatus, DiscardOwn, React, Trigger, convVars, agencyVars, streamVars, botVars
<1>2. \A d \in Connections : conv'[d] = "record" => conv[d] = "record" /\ d # c
  <2>1. ASSUME React(c) PROVE \A d \in Connections : conv'[d] = "record" => conv[d] = "record" /\ d # c
    BY <2>1 DEF ConvStatus, React, Trigger, Continue, convVars, TypeOK, ConvOK
  <2> QED
    BY <2>1 DEF ConvStatus, DiscardOwn
<1>3. p \in Elements(StatusChan[c]) /\ \A q \in Elements(StatusChan[c]) : q = p
  BY ElementsHeadTail, ElementsSingle DEF ConvStatus, TypeOK, HandoverOK, OneStatus
<1>4. p[1] = c
  BY <1>3 DEF OwnInv, OnceOnly
<1>5. \A d \in Connections : d # c => StatusChan'[d] = StatusChan[d]
  BY DEF ConvStatus, TypeOK, HandoverOK
<1>6. lastProtocolID'[c] = lastProtocolID[c] \ {p}
      /\ \A d \in Connections : d # c => lastProtocolID'[d] = lastProtocolID[d]
  <2>1. CASE p \in lastProtocolID[c]
    BY <2>1 DEF ConvStatus, DiscardOwn, TypeOK, ConvOK
  <2>2. CASE p \notin lastProtocolID[c]
    <3>1. UNCHANGED lastProtocolID
      BY <2>2 DEF ConvStatus, React, Trigger, convVars
    <3>2. lastProtocolID[c] \in SUBSET Protocols
      BY DEF TypeOK, ConvOK
    <3> QED
      BY <2>2, <3>1, <3>2
  <2> QED
    BY <2>1, <2>2
<1> HIDE DEF p
<1>7. ASSUME NEW q \in Awaited, q # p PROVE q \in Awaited'
  <2>1. CASE q \in unnotified \/ q \in Elements(statusCh) \/ q \in Elements(Status)
    <3>1. q \in unnotified' \/ q \in Elements(statusCh') \/ q \in Elements(Status')
      BY <1>1, <2>1
    <3> QED
      BY <3>1, InAwaitedNext
  <2>2. ASSUME NEW d \in Connections, q \in Elements(StatusChan[d]) PROVE q \in Awaited'
    <3>1. q \in Elements(StatusChan'[d])
      BY <1>3, <1>5, <1>7, <2>2
    <3> QED
      BY <3>1, InAwaitedNext
  <2> QED
    BY <2>1, <2>2, InAwaited
<1>8. IDsOfOwn'
  BY <1>6 DEF StaleInv, IDsOfOwn
<1>9. NoStaleIDs'
  <2> SUFFICES ASSUME "status" \notin closed, NEW d \in Connections, NEW q \in lastProtocolID'[d]
               PROVE  q \in Awaited'
    BY <1>1 DEF NoStaleIDs
  <2>1. q \in lastProtocolID[d] /\ q # p
    BY <1>4, <1>6 DEF StaleInv, IDsOfOwn
  <2> QED
    BY <1>7, <2>1 DEF StaleInv, NoStaleIDs
<1>10. RecordingAwaited'
  <2> SUFFICES ASSUME "status" \notin closed, NEW d \in Connections, conv'[d] = "record"
               PROVE  <<d, opened[d]>> \in Awaited'
    BY <1>1 DEF RecordingAwaited
  <2>1. <<d, opened[d]>> # p
    BY <1>2, <1>4
  <2> QED
    BY <1>2, <1>7, <2>1 DEF StaleInv, RecordingAwaited
<1> QED
  BY <1>8, <1>9, <1>10 DEF StaleInv

\* A conversation records what it has opened.
LEMMA WorkStale == ASSUME TypeOK, StaleInv, NEW c \in Connections, Work(c) PROVE StaleInv'
<1> USE ConstantsAssumption
<1>1. ASSUME Sent(c) PROVE conv'[c] # "record" /\ \A d \in Connections : d # c => conv'[d] = conv[d]
  BY <1>1 DEF Sent, Continue, TypeOK, ConvOK
<1>2. CASE SendMessage(c) /\ started[c] < MaxProtocols
  <2> DEFINE p == <<c, started[c] + 1>>
  <2>1. unnotified' = unnotified \cup {p} /\ UNCHANGED <<statusCh, Status, StatusChan, closed, lastProtocolID>>
    BY <1>2 DEF SendMessage, streamVars, botVars, handover
  <2>2. Awaited' = Awaited \cup {p}
    BY <2>1 DEF Awaited, InTransit, Elements
  <2>3. /\ opened'[c] = started[c] + 1
        /\ \A d \in Connections : d # c => opened'[d] = opened[d] /\ conv'[d] = conv[d]
    BY <1>2 DEF SendMessage, TypeOK, ConvOK
  <2> HIDE DEF p
  <2>4. NoStaleIDs' /\ IDsOfOwn'
    BY <2>1, <2>2 DEF StaleInv, NoStaleIDs, IDsOfOwn
  <2>5. RecordingAwaited'
    <3> SUFFICES ASSUME "status" \notin closed, NEW d \in Connections, conv'[d] = "record"
                 PROVE  <<d, opened'[d]>> \in Awaited'
      BY <2>1 DEF RecordingAwaited
    <3>1. CASE d = c
      BY <2>2, <2>3, <3>1 DEF p
    <3>2. CASE d # c
      BY <2>2, <2>3, <3>2 DEF StaleInv, RecordingAwaited
    <3> QED
      BY <3>1, <3>2
  <2> QED
    BY <2>4, <2>5 DEF StaleInv
<1>3. CASE SendMessage(c) /\ ~(started[c] < MaxProtocols)
  BY <1>1, <1>3, SameAwaited, KeepStale DEF SendMessage, streamVars, botVars, handover
<1>4. CASE RecordID(c)
  <2>1. Awaited' = Awaited /\ UNCHANGED closed
    BY <1>4, SameAwaited DEF RecordID, agencyVars, streamVars, botVars, handover
  <2>2. /\ lastProtocolID'[c] = lastProtocolID[c] \cup {<<c, opened[c]>>}
        /\ \A d \in Connections : d # c => lastProtocolID'[d] = lastProtocolID[d] /\ opened'[d] = opened[d]
    BY <1>4 DEF RecordID, TypeOK, ConvOK
  <2>3. conv[c] = "record" /\ Sent(c)
    BY <1>4 DEF RecordID
  <2>4. IDsOfOwn'
    BY <2>2 DEF StaleInv, IDsOfOwn
  <2>5. NoStaleIDs'
    BY <2>1, <2>2, <2>3 DEF StaleInv, NoStaleIDs, RecordingAwaited
  <2>6. RecordingAwaited'
    BY <1>1, <2>1, <2>2, <2>3 DEF StaleInv, RecordingAwaited
  <2> QED
    BY <2>4, <2>5, <2>6 DEF StaleInv
<1>5. CASE SendProtocol(c)
  <2>1. unnotified \subseteq unnotified' /\ UNCHANGED <<statusCh, Status, StatusChan>>
    BY <1>5 DEF SendProtocol, streamVars, botVars, handover
  <2>2. Awaited \subseteq Awaited'
    BY <2>1 DEF Awaited, InTransit, Elements
  <2> QED
    BY <1>1, <1>5, <2>2, KeepStale DEF SendProtocol, streamVars
<1>6. CASE SendBackend(c) \/ SendTransient(c)
  BY <1>1, <1>6, SameAwaited, KeepStale DEF SendBackend, SendTransient, agencyVars, streamVars, botVars, handover
<1>7. CASE Signal(c)
  <2>1. \A d \in Connections : conv'[d] = "record" => conv[d] = "record"
    BY <1>7 DEF Signal, TypeOK, ConvOK
  <2> QED
    BY <1>7, <2>1, SameAwaited, KeepStale DEF Signal, agencyVars, streamVars, botVars, handover
<1> QED
  BY <1>2, <1>3, <1>4, <1>5, <1>6, <1>7 DEF Work

\* Other events trigger without touching what is awaited.
LEMMA OtherStale ==
  ASSUME TypeOK, StaleInv, NEW c \in Connections, ConvQuestion(c) \/ ConvBackend(c) \/ ConvTransient(c)
  PROVE  StaleInv'
<1>1. React(c) /\ UNCHANGED <<agencyVars, streamVars, botVars, StatusChan>>
  BY DEF ConvQuestion, ConvBackend, ConvTransient, handover
<1>2. /\ UNCHANGED <<lastProtocolID, opened>>
      /\ \A d \in Connections : conv'[d] = "record" => conv[d] = "record"
  BY <1>1 DEF React, Trigger, Continue, convVars, TypeOK, ConvOK
<1> QED
  BY <1>1, <1>2, SameAwaited, KeepStale DEF agencyVars, streamVars, botVars

(* While the stream is open, an ID that a conversation keeps belongs to a
   notification that is still to come, so the set does not grow without end and
   no later status is taken for an own one (SetLastProtocolID, isOursAndRm). *)
THEOREM IDsNeverStale == Spec => []NoStaleIDs
<1>1. Init => OneStatus /\ StaleInv
  BY DEF Init, OneStatus, StaleInv, NoStaleIDs, IDsOfOwn, RecordingAwaited
<1>2. TypeOK /\ OwnInv /\ OneHandover /\ OneStatus /\ StaleInv /\ [Next]_vars => OneStatus' /\ StaleInv'
  <2> SUFFICES ASSUME TypeOK, OwnInv, OneHandover, OneStatus, StaleInv, [Next]_vars
               PROVE  StaleInv'
    BY OneStatusStep
  <2>1. CASE UNCHANGED vars
    <3>1. Awaited' = Awaited
      BY <2>1, SameAwaited DEF vars, agencyVars, streamVars, botVars, handover
    <3>2. UNCHANGED <<closed, lastProtocolID, opened, conv>>
      BY <2>1 DEF vars, streamVars, convVars
    <3> QED
      BY <3>1, <3>2, KeepStale
  <2>2. CASE Agency
    BY <2>2, AgencyStale
  <2>3. CASE BotRun
    BY <2>3, BotRunStale
  <2>4. CASE Multiplex
    BY <2>4, MultiplexStale
  <2>5. ASSUME NEW c \in Connections, Receive(c) PROVE StaleInv'
    BY <2>5, ConvStatusStale, OtherStale DEF Receive
  <2>6. ASSUME NEW c \in Connections, Work(c) PROVE StaleInv'
    BY <2>6, WorkStale
  <2> QED
    BY <2>1, <2>2, <2>3, <2>4, <2>5, <2>6 DEF Next
<1>3. StaleInv => NoStaleIDs
  BY DEF StaleInv
<1> QED
  BY <1>1, <1>2, <1>3, TypeCorrect, OwnMessagesKnown, HandsOverOne, PTL DEF Spec

-----------------------------------------------------------------------------
(* The part of a channel that belongs to a connection. *)

\* The places of a connection's statuses are finitely many.
LEMMA MineFinite ==
  ASSUME NEW S, NEW s \in Seq(S), NEW c
  PROVE  /\ Mine(s, c) \subseteq 1 .. Len(s) /\ Mine(s, c) \subseteq Nat
         /\ IsFiniteSet(Mine(s, c)) /\ Cardinality(Mine(s, c)) \in Nat
<1>1. Mine(s, c) \subseteq 1 .. Len(s) /\ Len(s) \in Nat
  BY DEF Mine
<1>2. IsFiniteSet(1 .. Len(s))
  BY <1>1, FS_Interval
<1>3. IsFiniteSet(Mine(s, c))
  BY <1>1, <1>2, FS_Subset
<1> QED
  BY <1>1, <1>3, FS_CardinalityType

\* The places up to one of them are fewer than those up to a later one.
LEMMA RanksGrow ==
  ASSUME NEW S, NEW s \in Seq(S), NEW c, NEW i \in Mine(s, c)
  PROVE  /\ Rank(s, c, i) \in 1 .. Cardinality(Mine(s, c))
         /\ \A j \in Mine(s, c) : i < j => Rank(s, c, i) < Rank(s, c, j)
<1> DEFINE Upto(j) == {k \in Mine(s, c) : k <= j}
<1>1. Mine(s, c) \subseteq Nat /\ IsFiniteSet(Mine(s, c)) /\ Cardinality(Mine(s, c)) \in Nat
  BY MineFinite
<1>2. ASSUME NEW j
      PROVE  /\ IsFiniteSet(Upto(j)) /\ Cardinality(Upto(j)) \in Nat
             /\ Cardinality(Upto(j)) <= Cardinality(Mine(s, c))
  <2>1. Upto(j) \in SUBSET Mine(s, c)
    OBVIOUS
  <2> QED
    BY <1>1, <2>1, FS_Subset, FS_CardinalityType
<1>3. Cardinality(Upto(i)) # 0
  <2>1. i \in Upto(i)
    BY <1>1
  <2> QED
    BY <1>2, <2>1, FS_EmptySet
<1>4. ASSUME NEW j \in Mine(s, c), i < j
      PROVE  Cardinality(Upto(i)) < Cardinality(Upto(j))
  <2>1. Upto(i) \in SUBSET Upto(j) /\ j \in Upto(j) /\ j \notin Upto(i)
    BY <1>1, <1>4
  <2>2. Cardinality(Upto(i)) <= Cardinality(Upto(j)) /\ Cardinality(Upto(i)) # Cardinality(Upto(j))
    BY <1>2, <2>1, FS_Subset
  <2>3. Cardinality(Upto(i)) \in Nat /\ Cardinality(Upto(j)) \in Nat
    BY <1>2
  <2> HIDE DEF Upto
  <2> QED
    BY <2>2, <2>3
<1>5. Rank(s, c, i) \in 1 .. Cardinality(Mine(s, c))
  <2>1. Rank(s, c, i) = Cardinality(Upto(i))
    BY DEF Rank
  <2> HIDE DEF Upto
  <2> QED
    BY <1>1, <1>2, <1>3, <2>1
<1>6. ASSUME NEW j \in Mine(s, c), i < j
      PROVE  Rank(s, c, i) < Rank(s, c, j)
  BY <1>4, <1>6 DEF Rank
<1> QED
  BY <1>5, <1>6

\* Every number up to their number is the rank of one place.
LEMMA NthPlace ==
  ASSUME NEW S, NEW s \in Seq(S), NEW c
  PROVE  /\ \A i, j \in Mine(s, c) : Rank(s, c, i) = Rank(s, c, j) => i = j
         /\ \A k \in 1 .. Cardinality(Mine(s, c)) :
              Nth(s, c, k) \in Mine(s, c) /\ Rank(s, c, Nth(s, c, k)) = k
<1> DEFINE n == Cardinality(Mine(s, c))
           f == [i \in Mine(s, c) |-> Rank(s, c, i)]
<1>1. Mine(s, c) \subseteq Nat /\ IsFiniteSet(Mine(s, c)) /\ n \in Nat
  BY MineFinite
<1>2. ASSUME NEW i \in Mine(s, c), NEW j \in Mine(s, c), Rank(s, c, i) = Rank(s, c, j)
      PROVE  i = j
  <2>1. ~(i < j) /\ ~(j < i)
    BY <1>2, RanksGrow
  <2> QED
    BY <1>1, <2>1
<1>3. f \in [Mine(s, c) -> 1 .. n]
  BY RanksGrow
<1>4. f \in Injection(Mine(s, c), 1 .. n)
  BY <1>2, <1>3 DEF Injection, IsInjective
<1>5. IsFiniteSet(1 .. n) /\ Cardinality(1 .. n) = n
  BY <1>1, FS_Interval
<1>6. f \in Surjection(Mine(s, c), 1 .. n)
  BY <1>4, <1>5, FS_Injection
<1>7. ASSUME NEW k \in 1 .. n
      PROVE  Nth(s, c, k) \in Mine(s, c) /\ Rank(s, c, Nth(s, c, k)) = k
  <2>1. \E i \in Mine(s, c) : f[i] = k
    BY <1>6 DEF Surjection
  <2>2. \E i \in Mine(s, c) : Rank(s, c, i) = k
    BY <2>1
  <2> QED
    BY <2>2 DEF Nth
<1> QED
  BY <1>2, <1>7

\* What belongs to a connection are messages of the channel.
LEMMA OfType ==
  ASSUME NEW S, NEW s \in Seq(S), NEW c
  PROVE  /\ Of(s, c) \in Seq(S) /\ Len(Of(s, c)) = Cardinality(Mine(s, c))
         /\ \A i \in Mine(s, c) : Of(s, c)[Rank(s, c, i)] = s[i]
<1> DEFINE n == Cardinality(Mine(s, c))
<1>1. n \in Nat /\ Mine(s, c) \subseteq 1 .. Len(s)
  BY MineFinite
<1>2. \A k \in 1 .. n : s[Nth(s, c, k)] \in S
  BY <1>1, NthPlace
<1>3. Of(s, c) = [k \in 1 .. n |-> s[Nth(s, c, k)]]
  BY DEF Of
<1>4. ASSUME NEW i \in Mine(s, c)
      PROVE  Rank(s, c, i) \in 1 .. n /\ Nth(s, c, Rank(s, c, i)) = i
  BY <1>4, RanksGrow, NthPlace
<1> HIDE DEF n
<1>5. Of(s, c) \in [1 .. n -> S]
  BY <1>2, <1>3
<1>6. Of(s, c) \in Seq(S) /\ Len(Of(s, c)) = n
  BY <1>1, <1>5
<1> QED
  BY <1>3, <1>4, <1>6 DEF n

\* It is the only sequence of that length with those messages at their ranks.
LEMMA OfIs ==
  ASSUME NEW S, NEW s \in Seq(S), NEW c, NEW T, NEW t \in Seq(T),
         Len(t) = Cardinality(Mine(s, c)),
         \A i \in Mine(s, c) : t[Rank(s, c, i)] = s[i]
  PROVE  Of(s, c) = t
<1> DEFINE n == Cardinality(Mine(s, c))
<1>1. \A k \in 1 .. n : t[k] = s[Nth(s, c, k)]
  BY NthPlace
<1>2. t = [k \in 1 .. n |-> t[k]]
  OBVIOUS
<1>3. Of(s, c) = [k \in 1 .. n |-> s[Nth(s, c, k)]]
  BY DEF Of
<1> HIDE DEF n
<1> QED
  BY <1>1, <1>2, <1>3

\* An empty channel has nothing of a connection.
LEMMA OfEmpty == ASSUME NEW c PROVE Of(<<>>, c) = <<>>
<1>1. Mine(<<>>, c) = {}
  BY DEF Mine
<1>2. Cardinality(Mine(<<>>, c)) = 0
  BY <1>1, FS_EmptySet
<1> QED
  BY <1>2 DEF Of

\* What is sent last belongs to its connection, after what was there.
LEMMA OfAppend ==
  ASSUME NEW S, NEW s \in Seq(S), NEW p \in S, NEW c
  PROVE  Of(Append(s, p), c) = IF p[1] = c THEN Append(Of(s, c), p) ELSE Of(s, c)
<1> DEFINE t == Append(s, p)
           n == Len(s) + 1
<1>1. /\ t \in Seq(S) /\ DOMAIN t = 1 .. n /\ DOMAIN s = 1 .. Len(s) /\ Len(s) \in Nat
      /\ t[n] = p /\ \A i \in 1 .. Len(s) : t[i] = s[i]
  OBVIOUS
<1>2. /\ Mine(s, c) \subseteq 1 .. Len(s) /\ IsFiniteSet(Mine(s, c))
      /\ Cardinality(Mine(s, c)) \in Nat
  BY MineFinite
<1>3. 1 .. n = (1 .. Len(s)) \cup {n}
  BY <1>1
<1> HIDE DEF t
<1>4. \A i \in 1 .. Len(s) : i \in Mine(t, c) <=> i \in Mine(s, c)
  BY <1>1 DEF Mine
<1>5. \A i \in Mine(s, c) : Rank(t, c, i) = Rank(s, c, i)
  <2> SUFFICES ASSUME NEW i \in Mine(s, c) PROVE {j \in Mine(t, c) : j <= i} = {j \in Mine(s, c) : j <= i}
    BY DEF Rank
  <2>1. \A j \in Mine(t, c) : j \in 1 .. Len(s) \/ j = n
    BY <1>1, <1>3 DEF Mine
  <2>2. ~(n <= i)
    BY <1>1, <1>2
  <2> QED
    BY <1>2, <1>4, <2>1, <2>2
<1>6. Of(s, c) \in Seq(S) /\ Len(Of(s, c)) = Cardinality(Mine(s, c))
      /\ \A i \in Mine(s, c) : Of(s, c)[Rank(s, c, i)] = s[i] /\ Rank(s, c, i) \in 1 .. Cardinality(Mine(s, c))
  BY OfType, RanksGrow
<1>7. CASE p[1] = c
  <2>1. Mine(t, c) = Mine(s, c) \cup {n} /\ n \notin Mine(s, c)
    BY <1>1, <1>2, <1>3, <1>4, <1>7 DEF Mine
  <2>2. Cardinality(Mine(t, c)) = Cardinality(Mine(s, c)) + 1
    BY <1>2, <2>1, FS_AddElement
  <2>3. Rank(t, c, n) = Cardinality(Mine(t, c))
    <3>1. {j \in Mine(t, c) : j <= n} = Mine(t, c)
      BY <1>1, <1>2, <2>1
    <3> QED
      BY <3>1 DEF Rank
  <2> DEFINE o == Append(Of(s, c), p)
  <2>4. o \in Seq(S) /\ Len(o) = Cardinality(Mine(t, c))
    BY <1>6, <2>2
  <2>5. o[Rank(t, c, n)] = t[n]
    BY <1>1, <1>2, <1>6, <2>2, <2>3
  <2>6. \A i \in Mine(s, c) : o[Rank(t, c, i)] = t[i]
    BY <1>1, <1>2, <1>5, <1>6
  <2> HIDE DEF o, n
  <2>7. \A i \in Mine(t, c) : o[Rank(t, c, i)] = t[i]
    BY <2>1, <2>5, <2>6
  <2>8. Of(t, c) = o
    BY <1>1, <2>4, <2>7, OfIs
  <2> QED
    BY <1>7, <2>8 DEF o, t
<1>8. CASE p[1] # c
  <2>1. Mine(t, c) = Mine(s, c)
    BY <1>1, <1>2, <1>3, <1>4, <1>8 DEF Mine
  <2>2. \A i \in Mine(t, c) : Of(s, c)[Rank(t, c, i)] = t[i]
    BY <1>1, <1>2, <1>5, <1>6, <2>1
  <2>3. Of(t, c) = Of(s, c)
    BY <1>1, <1>6, <2>1, <2>2, OfIs
  <2> QED
    BY <1>8, <2>3 DEF t
<1> QED
  BY <1>7, <1>8

\* Moving the places by one does not change their number.
LEMMA Shifted ==
  ASSUME NEW M \in SUBSET Nat, IsFiniteSet(M)
  PROVE  IsFiniteSet({j + 1 : j \in M}) /\ Cardinality({j + 1 : j \in M}) = Cardinality(M)
<1> DEFINE N == {j + 1 : j \in M}
           f == [j \in M |-> j + 1]
<1>1. f \in [M -> N] /\ (\A j, k \in M : f[j] = f[k] => j = k) /\ \A n \in N : \E j \in M : f[j] = n
  OBVIOUS
<1>2. ExistsBijection(M, N)
  BY <1>1 DEF ExistsBijection, Bijection, Injection, IsInjective, Surjection
<1> QED
  BY <1>2, FS_Bijection

\* A channel's first message belongs to its connection, before what follows it.
LEMMA OfHeadTail ==
  ASSUME NEW S, NEW s \in Seq(S), s # <<>>, NEW c
  PROVE  Of(s, c) = IF Head(s)[1] = c THEN <<Head(s)>> \o Of(Tail(s), c) ELSE Of(Tail(s), c)
<1> DEFINE t == Tail(s)
           first == IF Head(s)[1] = c THEN {1} ELSE {}
           b == IF Head(s)[1] = c THEN 1 ELSE 0
           moved(M) == {j + 1 : j \in M}
<1>1. /\ t \in Seq(S) /\ DOMAIN s = 1 .. Len(s) /\ DOMAIN t = 1 .. (Len(s) - 1) /\ Len(s) \in Nat \ {0}
      /\ s[1] = Head(s) /\ \A i \in 1 .. (Len(s) - 1) : t[i] = s[i + 1]
      /\ Len(t) = Len(s) - 1 /\ Head(s) \in S
  OBVIOUS
<1> HIDE DEF t
<1>2. /\ Mine(t, c) \subseteq 1 .. (Len(s) - 1) /\ Mine(t, c) \subseteq Nat /\ IsFiniteSet(Mine(t, c))
      /\ Cardinality(Mine(t, c)) \in Nat
  BY <1>1, MineFinite
<1>3. Mine(s, c) = first \cup moved(Mine(t, c))
  <2>1. ASSUME NEW i \in Mine(s, c) PROVE i \in first \cup moved(Mine(t, c))
    <3>1. i \in 1 .. Len(s) /\ s[i][1] = c
      BY <1>1 DEF Mine
    <3>2. CASE i = 1
      BY <1>1, <3>1, <3>2
    <3>3. CASE i # 1
      <4>1. i - 1 \in 1 .. (Len(s) - 1) /\ (i - 1) + 1 = i
        BY <1>1, <3>1, <3>3
      <4>2. t[i - 1][1] = c
        BY <1>1, <3>1, <4>1
      <4>3. i - 1 \in Mine(t, c)
        BY <1>1, <4>1, <4>2 DEF Mine
      <4> QED
        BY <4>1, <4>3
    <3> QED
      BY <3>2, <3>3
  <2>2. first \subseteq Mine(s, c)
    BY <1>1 DEF Mine
  <2>3. ASSUME NEW j \in Mine(t, c) PROVE j + 1 \in Mine(s, c)
    <3>1. j \in 1 .. (Len(s) - 1) /\ t[j][1] = c
      BY <1>1 DEF Mine
    <3> QED
      BY <1>1, <3>1 DEF Mine
  <2> QED
    BY <2>1, <2>2, <2>3
<1>4. ASSUME NEW M \in SUBSET Mine(t, c)
      PROVE  IsFiniteSet(M) /\ Cardinality(M) \in Nat /\ Cardinality(first \cup moved(M)) = Cardinality(M) + b
  <2>1. IsFiniteSet(M) /\ M \in SUBSET Nat /\ M \subseteq 1 .. (Len(s) - 1)
    BY <1>2, <1>4, FS_Subset
  <2>2. IsFiniteSet(moved(M)) /\ Cardinality(moved(M)) = Cardinality(M)
    BY <2>1, Shifted
  <2>3. Cardinality(M) \in Nat /\ 1 \notin moved(M)
    BY <2>1, FS_CardinalityType
  <2>4. CASE Head(s)[1] = c
    <3>1. first \cup moved(M) = moved(M) \cup {1} /\ b = 1
      BY <2>4
    <3> HIDE DEF first, moved, b
    <3> QED
      BY <2>1, <2>2, <2>3, <3>1, FS_AddElement
  <2>5. CASE Head(s)[1] # c
    <3>1. first \cup moved(M) = moved(M) /\ b = 0
      BY <2>5
    <3>2. Cardinality(first \cup moved(M)) = Cardinality(M)
      BY <2>2, <3>1
    <3> HIDE DEF first, moved, b
    <3> QED
      BY <2>1, <2>3, <3>1, <3>2
  <2> QED
    BY <2>4, <2>5
<1>5. \A i \in Mine(t, c) : Rank(s, c, i + 1) = Rank(t, c, i) + b
  <2> SUFFICES ASSUME NEW i \in Mine(t, c) PROVE Rank(s, c, i + 1) = Rank(t, c, i) + b
    OBVIOUS
  <2> DEFINE M == {j \in Mine(t, c) : j <= i}
  <2>1. {j \in Mine(s, c) : j <= i + 1} = first \cup moved(M)
    BY <1>2, <1>3
  <2>2. M \in SUBSET Mine(t, c)
    OBVIOUS
  <2>3. Cardinality({j \in Mine(s, c) : j <= i + 1}) = Cardinality(M) + b
    BY <1>4, <2>1, <2>2
  <2> QED
    BY <2>3 DEF Rank
<1>6. Of(t, c) \in Seq(S) /\ Len(Of(t, c)) = Cardinality(Mine(t, c))
      /\ \A i \in Mine(t, c) : Of(t, c)[Rank(t, c, i)] = t[i] /\ Rank(t, c, i) \in 1 .. Cardinality(Mine(t, c))
  BY <1>1, OfType, RanksGrow
<1>7. Cardinality(Mine(s, c)) = Cardinality(Mine(t, c)) + b
  BY <1>3, <1>4
<1>8. CASE Head(s)[1] = c
  <2> DEFINE o == <<Head(s)>> \o Of(t, c)
  <2>1. /\ o \in Seq(S) /\ Len(o) = Cardinality(Mine(s, c)) /\ o[1] = Head(s)
        /\ \A k \in 1 .. Cardinality(Mine(t, c)) : o[k + 1] = Of(t, c)[k]
    BY <1>1, <1>2, <1>6, <1>7, <1>8
  <2>2. Rank(s, c, 1) = 1
    <3>1. {j \in Mine(s, c) : j <= 1} = {1}
      BY <1>2, <1>3, <1>8
    <3> QED
      BY <3>1, FS_Singleton DEF Rank
  <2>3. \A i \in Mine(t, c) : o[Rank(s, c, i + 1)] = s[i + 1]
    BY <1>1, <1>2, <1>5, <1>6, <1>8, <2>1
  <2> HIDE DEF o
  <2>4. \A i \in Mine(s, c) : o[Rank(s, c, i)] = s[i]
    BY <1>1, <1>3, <1>8, <2>1, <2>2, <2>3
  <2>5. Of(s, c) = o
    BY <2>1, <2>4, OfIs
  <2> QED
    BY <1>8, <2>5 DEF o, t
<1>9. CASE Head(s)[1] # c
  <2>1. \A i \in Mine(t, c) : Of(t, c)[Rank(s, c, i + 1)] = s[i + 1]
    BY <1>1, <1>2, <1>5, <1>6, <1>9
  <2>2. \A i \in Mine(s, c) : Of(t, c)[Rank(s, c, i)] = s[i]
    BY <1>3, <1>9, <2>1
  <2>3. Len(Of(t, c)) = Cardinality(Mine(s, c))
    BY <1>2, <1>6, <1>7, <1>9
  <2>4. Of(s, c) = Of(t, c)
    BY <1>6, <2>2, <2>3, OfIs
  <2> QED
    BY <1>9, <2>4 DEF t
<1> QED
  BY <1>8, <1>9

\* A prefix of a channel has a prefix of what belongs to a connection.
LEMMA OfPrefix ==
  ASSUME NEW S, NEW s \in Seq(S), NEW n \in 0 .. Len(s), NEW c
  PROVE  \E m \in 0 .. Len(Of(s, c)) : Of(SubSeq(s, 1, n), c) = SubSeq(Of(s, c), 1, m)
<1> DEFINE t == SubSeq(s, 1, n)
           m == Cardinality(Mine(t, c))
<1>1. /\ t \in Seq(S) /\ DOMAIN t = 1 .. n /\ DOMAIN s = 1 .. Len(s) /\ Len(s) \in Nat /\ n \in Nat
      /\ n <= Len(s) /\ \A i \in 1 .. n : t[i] = s[i]
  OBVIOUS
<1> HIDE DEF t
<1>2. Mine(t, c) = {i \in Mine(s, c) : i <= n}
  BY <1>1 DEF Mine
<1>3. \A i \in Mine(t, c) : Rank(t, c, i) = Rank(s, c, i)
  <2> SUFFICES ASSUME NEW i \in Mine(t, c) PROVE {j \in Mine(t, c) : j <= i} = {j \in Mine(s, c) : j <= i}
    BY DEF Rank
  <2>1. Mine(s, c) \subseteq Nat
    BY MineFinite
  <2> QED
    BY <1>1, <1>2, <2>1
<1>4. IsFiniteSet(Mine(s, c)) /\ Cardinality(Mine(s, c)) \in Nat /\ m \in Nat
  BY <1>1, MineFinite
<1>5. m <= Cardinality(Mine(s, c))
  <2>1. Mine(t, c) \in SUBSET Mine(s, c)
    BY <1>2
  <2> QED
    BY <1>4, <2>1, FS_Subset
<1>6. /\ Of(s, c) \in Seq(S) /\ Len(Of(s, c)) = Cardinality(Mine(s, c))
      /\ \A i \in Mine(s, c) : Of(s, c)[Rank(s, c, i)] = s[i]
  BY OfType
<1>7. \A i \in Mine(t, c) : Rank(t, c, i) \in 1 .. m
  BY <1>1, RanksGrow
<1> HIDE DEF m
<1> DEFINE o == SubSeq(Of(s, c), 1, m)
<1>8. o \in Seq(S) /\ Len(o) = m /\ \A k \in 1 .. m : o[k] = Of(s, c)[k]
  BY <1>4, <1>5, <1>6
<1> HIDE DEF o
<1>9. \A i \in Mine(t, c) : o[Rank(t, c, i)] = t[i]
  <2> SUFFICES ASSUME NEW i \in Mine(t, c) PROVE o[Rank(t, c, i)] = t[i]
    OBVIOUS
  <2>1. i \in Mine(s, c) /\ t[i] = s[i]
    BY <1>1, <1>2 DEF Mine
  <2> QED
    BY <1>3, <1>6, <1>7, <1>8, <2>1
<1>10. Of(t, c) = o
  BY <1>1, <1>8, <1>9, OfIs DEF m
<1> QED
  BY <1>4, <1>5, <1>6, <1>10 DEF o, t

\* A channel that holds one message.
LEMMA OfOne ==
  ASSUME NEW S, NEW p \in S, NEW c PROVE Of(<<p>>, c) = IF p[1] = c THEN <<p>> ELSE <<>>
<1>1. <<>> \in Seq(S) /\ Append(<<>>, p) = <<p>>
  OBVIOUS
<1>2. Of(Append(<<>>, p), c) = IF p[1] = c THEN Append(Of(<<>>, c), p) ELSE Of(<<>>, c)
  BY <1>1, OfAppend
<1> QED
  BY <1>1, <1>2, OfEmpty

-----------------------------------------------------------------------------
(* The channels implement the pipes of Delivery. *)

\* The three parts of a pipe hold protocols.
LEMMA PipeType ==
  ASSUME TypeOK, NEW c \in Connections
  PROVE  /\ Of(StatusChan[c], c) \in Seq(Protocols) /\ Of(Status, c) \in Seq(Protocols)
         /\ Of(statusCh, c) \in Seq(Protocols) /\ Pipe[c] \in Seq(Protocols)
<1>1. StatusChan[c] \in Seq(Protocols) /\ Status \in Seq(Protocols) /\ statusCh \in Seq(Protocols)
  BY DEF TypeOK, StreamOK, BotOK, HandoverOK
<1>2. /\ Of(StatusChan[c], c) \in Seq(Protocols) /\ Of(Status, c) \in Seq(Protocols)
      /\ Of(statusCh, c) \in Seq(Protocols)
  BY <1>1, OfType
<1>3. Pipe[c] = Of(StatusChan[c], c) \o Of(Status, c) \o Of(statusCh, c)
  BY DEF Pipe
<1> QED
  BY <1>2, <1>3

\* The pipes after a step are what the channels then hold.
LEMMA PipeNext ==
  /\ DOMAIN Pipe = Connections /\ DOMAIN Pipe' = Connections
  /\ \A c \in Connections :
       /\ Pipe[c] = Of(StatusChan[c], c) \o Of(Status, c) \o Of(statusCh, c)
       /\ Pipe'[c] = Of(StatusChan'[c], c) \o Of(Status', c) \o Of(statusCh', c)
  BY DEF Pipe, Of, Nth, Rank, Mine

\* One pipe may be changed, the others not.
LEMMA PipeExcept ==
  ASSUME NEW c \in Connections, NEW s, Pipe'[c] = s, \A d \in Connections \ {c} : Pipe'[d] = Pipe[d]
  PROVE  Pipe' = [Pipe EXCEPT ![c] = s]
  BY DEF Pipe

\* If no pipe changes, nothing does.
LEMMA PipeSame ==
  ASSUME \A d \in Connections : Pipe'[d] = Pipe[d]
  PROVE  Pipe' = Pipe
  BY DEF Pipe

\* A notification of the agency is accepted.
LEMMA Accepts ==
  ASSUME TypeOK, NEW p \in Protocols, "status" \notin closed, p \notin Accepted,
         Accepted' = Accepted \cup {p}, statusCh' = Append(statusCh, p),
         UNCHANGED <<closed, Status, StatusChan>>
  PROVE  p[1] \in Connections /\ Promise!Accept(p[1], p)
<1> DEFINE c == p[1]
<1>1. c \in Connections
  BY DEF Protocols
<1>2. statusCh \in Seq(Protocols)
  BY DEF TypeOK, StreamOK
<1>3. \A d \in Connections : Of(statusCh', d) = IF c = d THEN Append(Of(statusCh, d), p) ELSE Of(statusCh, d)
  BY <1>2, OfAppend
<1>4. ASSUME NEW d \in Connections \ {c} PROVE Pipe'[d] = Pipe[d]
  <2>1. Of(statusCh', d) = Of(statusCh, d)
    BY <1>3
  <2> QED
    BY <2>1, PipeNext
<1>5. Pipe'[c] = Append(Pipe[c], p)
  <2> DEFINE x == Of(StatusChan[c], c) \o Of(Status, c)
             y == Of(statusCh, c)
  <2>1. x \in Seq(Protocols) /\ y \in Seq(Protocols)
    BY <1>1, PipeType
  <2>2. Pipe[c] = x \o y /\ Pipe'[c] = x \o Append(y, p)
    BY <1>1, <1>3, PipeNext
  <2> HIDE DEF x, y
  <2>3. x \o Append(y, p) = Append(x \o y, p)
    BY <2>1
  <2> QED
    BY <2>2, <2>3
<1>6. Pipe' = [Pipe EXCEPT ![c] = Append(@, p)]
  BY <1>1, <1>4, <1>5, PipeExcept
<1>7. ~ Ended /\ UNCHANGED <<Offered, Ended>>
  BY DEF Offered, Ended
<1> QED
  BY <1>1, <1>6, <1>7 DEF Promise!Accept

\* The end of the stream cuts off statuses that are not offered yet.
LEMMA CloseEnds ==
  ASSUME TypeOK, OnceOnly, CloseStatus PROVE Promise!End
<1>1. statusCh \in Seq(Protocols) /\ "status" \notin closed /\ "status" \in closed'
  BY DEF TypeOK, StreamOK, CloseStatus
<1>2. PICK n \in 0 .. Len(statusCh) : statusCh' = SubSeq(statusCh, 1, n)
  BY <1>1 DEF CloseStatus, Delivered
<1>3. UNCHANGED <<started, unnotified, Status, StatusChan>>
  BY DEF CloseStatus, agencyVars, botVars, handover
<1>4. ~ Ended /\ Ended' = TRUE /\ UNCHANGED <<Accepted, Offered>>
  BY <1>1, <1>3 DEF Ended, Accepted, Offered
<1>5. ASSUME NEW c \in Connections
      PROVE  \E k \in (IF c \in Offered THEN 1 ELSE 0) .. Len(Pipe[c]) : Pipe'[c] = SubSeq(Pipe[c], 1, k)
  <2> DEFINE x == Of(StatusChan[c], c) \o Of(Status, c)
             y == Of(statusCh, c)
  <2>1. PICK m \in 0 .. Len(y) : Of(statusCh', c) = SubSeq(y, 1, m)
    BY <1>1, <1>2, OfPrefix
  <2>2. x \in Seq(Protocols) /\ y \in Seq(Protocols)
    BY PipeType
  <2>3. Pipe[c] = x \o y /\ Pipe'[c] = x \o SubSeq(y, 1, m)
    BY <1>3, <2>1, PipeNext
  <2>4. c \in Offered => Len(x) >= 1
    <3> SUFFICES ASSUME StatusChan[c] # <<>> PROVE Len(x) >= 1
      BY DEF Offered
    <3>1. StatusChan[c] \in Seq(Protocols)
      BY DEF TypeOK, HandoverOK
    <3>2. Head(StatusChan[c]) \in Elements(StatusChan[c])
      BY <3>1, ElementsHeadTail
    <3>3. Head(StatusChan[c])[1] = c
      BY <3>2 DEF OnceOnly
    <3>4. Of(StatusChan[c], c) = <<Head(StatusChan[c])>> \o Of(Tail(StatusChan[c]), c)
      BY <3>1, <3>3, OfHeadTail
    <3>5. Head(StatusChan[c]) \in Protocols /\ Tail(StatusChan[c]) \in Seq(Protocols)
      BY <3>1
    <3>6. Of(Tail(StatusChan[c]), c) \in Seq(Protocols) /\ Of(Status, c) \in Seq(Protocols)
      BY <3>5, PipeType, OfType
    <3> QED
      BY <3>4, <3>5, <3>6
  <2> HIDE DEF x, y
  <2>5. x \o SubSeq(y, 1, m) = SubSeq(x \o y, 1, Len(x) + m) /\ Len(x) + m \in 0 .. Len(x \o y)
    BY <2>1, <2>2
  <2>6. Len(x) + m \in (IF c \in Offered THEN 1 ELSE 0) .. Len(Pipe[c])
    BY <2>1, <2>2, <2>3, <2>4, <2>5
  <2> QED
    BY <2>3, <2>5, <2>6
<1>6. DOMAIN Pipe' = Connections
  BY PipeNext
<1> QED
  BY <1>4, <1>5, <1>6 DEF Promise!End

\* What Bot.Run passes on stays in its pipe.
LEMMA BotStatusStutters ==
  ASSUME TypeOK, BotStatus PROVE UNCHANGED Promise!dvars
<1>1. statusCh \in Seq(Protocols) /\ statusCh # <<>> /\ Status = <<>>
  BY DEF TypeOK, StreamOK, BotStatus, BotAtSelect
<1> DEFINE p == Head(statusCh)
<1>2. p \in Protocols /\ Status' = <<p>> /\ statusCh' = Tail(statusCh) /\ Tail(statusCh) \in Seq(Protocols)
  BY <1>1 DEF BotStatus
<1>3. UNCHANGED <<started, unnotified, closed, StatusChan>>
  BY DEF BotStatus, agencyVars, handover
<1>4. ASSUME NEW c \in Connections PROVE Pipe'[c] = Pipe[c]
  <2>1. Of(Status', c) = IF p[1] = c THEN <<p>> ELSE <<>>
    BY <1>2, OfOne
  <2>2. Of(Status, c) = <<>>
    BY <1>1, OfEmpty
  <2>3. Of(statusCh, c) = IF p[1] = c THEN <<p>> \o Of(statusCh', c) ELSE Of(statusCh', c)
    BY <1>1, <1>2, OfHeadTail
  <2> DEFINE x == Of(StatusChan[c], c)
             y == Of(statusCh', c)
  <2>4. x \in Seq(Protocols) /\ y \in Seq(Protocols)
    BY <1>2, PipeType, OfType
  <2>5. Pipe[c] = x \o <<>> \o Of(statusCh, c) /\ Pipe'[c] = x \o Of(Status', c) \o y
    BY <1>3, <2>2, PipeNext
  <2> HIDE DEF x
  <2>6. CASE p[1] = c
    <3>1. Of(statusCh, c) = <<p>> \o y /\ Of(Status', c) = <<p>>
      BY <2>1, <2>3, <2>6
    <3> HIDE DEF y, p
    <3>2. x \o <<>> \o (<<p>> \o y) = x \o <<p>> \o y
      BY <1>2, <2>4
    <3> QED
      BY <2>5, <3>1, <3>2
  <2>7. CASE p[1] # c
    BY <2>1, <2>3, <2>5, <2>7
  <2> QED
    BY <2>6, <2>7
<1>5. Pipe' = Pipe
  BY <1>4, PipeSame
<1>6. UNCHANGED <<Accepted, Offered, Ended>>
  BY <1>3 DEF Accepted, Offered, Ended
<1> QED
  BY <1>5, <1>6 DEF Promise!dvars

\* A channel that is not empty and has no buffer holds one message.
LEMMA OnlyOne ==
  ASSUME NEW S, NEW s \in Seq(S), s # <<>>, Len(s) <= 1
  PROVE  Head(s) \in S /\ s = <<Head(s)>>
<1>1. Len(s) = 1 /\ Head(s) = s[1] /\ Head(s) \in S /\ DOMAIN s = 1 .. 1
  OBVIOUS
<1>2. s = [i \in 1 .. 1 |-> s[i]]
  BY <1>1
<1>3. s = [i \in 1 .. 1 |-> Head(s)]
  BY <1>1, <1>2
<1> QED
  BY <1>1, <1>3

\* The one status of a conversation's channel is of its own connection.
LEMMA OneOffered ==
  ASSUME TypeOK, OnceOnly, OneStatus, NEW c \in Connections, StatusChan[c] # <<>>
  PROVE  /\ Head(StatusChan[c]) \in Protocols /\ Head(StatusChan[c])[1] = c
         /\ Of(StatusChan[c], c) = <<Head(StatusChan[c])>>
<1>1. StatusChan[c] \in Seq(Protocols) /\ Len(StatusChan[c]) <= 1
  BY DEF TypeOK, HandoverOK, OneStatus
<1>2. Head(StatusChan[c]) \in Protocols /\ StatusChan[c] = <<Head(StatusChan[c])>>
  BY <1>1, OnlyOne
<1>3. Head(StatusChan[c]) \in Elements(StatusChan[c])
  BY <1>1, ElementsHeadTail
<1>4. Head(StatusChan[c])[1] = c
  BY <1>3 DEF OnceOnly
<1>5. Of(<<Head(StatusChan[c])>>, c) = <<Head(StatusChan[c])>>
  BY <1>2, <1>4, OfOne
<1> QED
  BY <1>2, <1>4, <1>5

\* The multiplexer offers its status to the conversation of the connection.
LEMMA MuxStatusOffers ==
  ASSUME TypeOK, OneHandover, MuxStatus
  PROVE  Head(Status)[1] \in Connections /\ Promise!Offer(Head(Status)[1])
<1> DEFINE p == Head(Status)
           c == p[1]
<1>1. Status \in Seq(Protocols) /\ Len(Status) <= 1 /\ Status # <<>>
  BY DEF TypeOK, BotOK, MuxStatus
<1>2. p \in Protocols /\ Status = <<p>>
  BY <1>1, OnlyOne
<1>3. c \in Connections
  BY <1>2 DEF Protocols
<1>4. \A d \in Connections : StatusChan[d] = <<>>
  BY NothingHandedOver DEF MuxStatus
<1>5. /\ StatusChan'[c] = Status /\ Status' = <<>>
      /\ \A d \in Connections \ {c} : StatusChan'[d] = StatusChan[d]
  BY <1>3 DEF MuxStatus, TypeOK, HandoverOK
<1>6. UNCHANGED <<started, unnotified, closed, statusCh>>
  BY DEF MuxStatus, agencyVars, streamVars
<1>7. ASSUME NEW d \in Connections
      PROVE  /\ Of(Status, d) \in Seq(Protocols) /\ Of(statusCh, d) \in Seq(Protocols)
             /\ Of(StatusChan[d], d) = <<>> /\ Of(Status', d) = <<>>
             /\ Of(StatusChan'[d], d) = Of(Status, d)
  <2>1. Of(Status, d) \in Seq(Protocols) /\ Of(statusCh, d) \in Seq(Protocols)
    BY PipeType
  <2>2. Of(StatusChan[d], d) = <<>> /\ Of(Status', d) = <<>>
    BY <1>4, <1>5, OfEmpty
  <2>3. Of(<<p>>, d) = IF c = d THEN <<p>> ELSE <<>>
    BY <1>2, OfOne
  <2>4. CASE d = c
    BY <1>5, <2>1, <2>2, <2>4
  <2>5. CASE d # c
    <3>1. StatusChan'[d] = StatusChan[d]
      BY <1>5, <2>5
    <3>2. Of(Status, d) = <<>>
      BY <1>2, <2>3, <2>5
    <3> QED
      BY <2>1, <2>2, <3>1, <3>2
  <2> QED
    BY <2>4, <2>5
<1>8. ASSUME NEW d \in Connections PROVE Pipe'[d] = Pipe[d]
  <2>1. Pipe[d] = <<>> \o Of(Status, d) \o Of(statusCh, d)
    BY <1>7, PipeNext
  <2>2. Pipe'[d] = Of(Status, d) \o <<>> \o Of(statusCh, d)
    BY <1>6, <1>7, PipeNext
  <2> QED
    BY <1>7, <2>1, <2>2
<1>9. Pipe' = Pipe
  BY <1>8, PipeSame
<1>10. Pipe[c] # <<>>
  <2>1. Of(Status, c) = <<p>>
    BY <1>2, OfOne
  <2>2. Pipe[c] = <<>> \o <<p>> \o Of(statusCh, c) /\ Of(statusCh, c) \in Seq(Protocols)
    BY <1>3, <1>7, <2>1, PipeNext
  <2> HIDE DEF p, c
  <2> QED
    BY <1>2, <2>2
<1>11. Offered' = {d \in Connections : StatusChan'[d] # <<>>}
  BY DEF Offered
<1>12. c \notin Offered /\ Offered' = Offered \cup {c}
  BY <1>1, <1>3, <1>4, <1>5, <1>11 DEF Offered
<1>13. UNCHANGED <<Accepted, Ended>>
  BY <1>6 DEF Accepted, Ended
<1> QED
  BY <1>3, <1>9, <1>10, <1>12, <1>13 DEF Promise!Offer

\* A conversation takes the oldest status of its pipe.
LEMMA ConvStatusTakes ==
  ASSUME TypeOK, OnceOnly, OneStatus, NEW c \in Connections, ConvStatus(c)
  PROVE  Promise!Take(c)
<1> DEFINE p == Head(StatusChan[c])
           x == Of(Status, c)
           y == Of(statusCh, c)
<1>1. StatusChan[c] # <<>> /\ StatusChan'[c] = <<>> /\ \A d \in Connections \ {c} : StatusChan'[d] = StatusChan[d]
  BY DEF ConvStatus, TypeOK, HandoverOK
<1>2. UNCHANGED <<started, unnotified, closed, Status, statusCh>>
  BY DEF ConvStatus, agencyVars, streamVars, botVars
<1>3. p \in Protocols /\ Of(StatusChan[c], c) = <<p>> /\ Of(StatusChan'[c], c) = <<>>
  BY <1>1, OneOffered, OfEmpty
<1>4. x \in Seq(Protocols) /\ y \in Seq(Protocols)
  BY PipeType
<1>5. Pipe[c] = <<p>> \o x \o y /\ Pipe'[c] = <<>> \o x \o y
  BY <1>2, <1>3, PipeNext
<1>6. \A d \in Connections \ {c} : Pipe'[d] = Pipe[d]
  BY <1>1, <1>2, PipeNext
<1> HIDE DEF p, x, y
<1>7. Pipe'[c] = Tail(Pipe[c])
  BY <1>3, <1>4, <1>5
<1>8. Pipe' = [Pipe EXCEPT ![c] = Tail(@)]
  BY <1>6, <1>7, PipeExcept
<1>9. Offered' = {d \in Connections : StatusChan'[d] # <<>>}
  BY DEF Offered
<1>10. c \in Offered /\ Offered' = Offered \ {c}
  BY <1>1, <1>9 DEF Offered
<1>11. UNCHANGED <<Accepted, Ended>>
  BY <1>2 DEF Accepted, Ended
<1> QED
  BY <1>8, <1>10, <1>11 DEF Promise!Take

\* A protocol that a conversation starts is not accepted before its notification.
LEMMA StartIsHidden ==
  ASSUME TypeOK, OwnInv, NEW c \in Connections,
         started' = [started EXCEPT ![c] = @ + 1],
         unnotified' = unnotified \cup {<<c, started[c] + 1>>}
  PROVE  Accepted' = Accepted
<1> DEFINE new == <<c, started[c] + 1>>
<1>1. started \in [Connections -> Nat]
  BY ConstantsAssumption DEF TypeOK, AgencyOK
<1>2. \A q \in Protocols : q # new => (q[2] <= started'[q[1]] <=> q[2] <= started[q[1]])
  BY <1>1, ConstantsAssumption DEF Protocols
<1>3. ~(new[2] <= started[new[1]])
  BY <1>1
<1> QED
  BY <1>2, <1>3 DEF Accepted

\* The pipes stay if their channels do.
LEMMA ChannelsSame ==
  ASSUME UNCHANGED <<closed, statusCh, Status, StatusChan>>
  PROVE  UNCHANGED <<Pipe, Offered, Ended>>
<1>1. Pipe' = Pipe
  BY PipeNext, PipeSame
<1> QED
  BY <1>1 DEF Offered, Ended

\* What the other end runs is accepted under the number that comes next.
LEMMA PeerStartsAccepts ==
  ASSUME TypeOK, OwnInv, NEW c \in Connections, PeerStarts(c)
  PROVE  <<c, started[c] + 1>> \in Protocols /\ Promise!Accept(c, <<c, started[c] + 1>>)
<1> DEFINE p == <<c, started[c] + 1>>
<1>1. started \in [Connections -> Nat] /\ started[c] \in Nat
  BY ConstantsAssumption DEF TypeOK, AgencyOK
<1>2. p \in Protocols /\ p[1] = c /\ p[2] = started[c] + 1
  BY <1>1, ConstantsAssumption DEF PeerStarts, Protocols
<1>3. p \notin unnotified
  BY FreshNumber DEF Awaited
<1>4. "status" \notin closed /\ started' = [started EXCEPT ![c] = @ + 1] /\ statusCh' = Append(statusCh, p)
      /\ UNCHANGED <<unnotified, closed, Status, StatusChan>>
  BY DEF PeerStarts, botVars, handover
<1>5. \A q \in Protocols : q[2] <= started'[q[1]] <=> (q[2] <= started[q[1]] \/ q = p)
  <2> SUFFICES ASSUME NEW q \in Protocols
               PROVE  q[2] <= started'[q[1]] <=> (q[2] <= started[q[1]] \/ q = p)
    OBVIOUS
  <2>1. q[1] \in Connections /\ q[2] \in Nat /\ q = <<q[1], q[2]>>
    BY ConstantsAssumption DEF Protocols
  <2>2. CASE q[1] = c
    <3>1. started'[q[1]] = started[c] + 1
      BY <1>1, <1>4, <2>2
    <3>2. q = p <=> q[2] = started[c] + 1
      BY <2>1, <2>2
    <3> QED
      BY <1>1, <2>1, <2>2, <3>1, <3>2
  <2>3. CASE q[1] # c
    BY <1>1, <1>2, <1>4, <2>1, <2>3
  <2> QED
    BY <2>2, <2>3
<1>6. ~(p[2] <= started[p[1]])
  BY <1>1, <1>2
<1> HIDE DEF p
<1>7. p \notin Accepted /\ Accepted' = Accepted \cup {p}
  BY <1>2, <1>3, <1>4, <1>5, <1>6 DEF Accepted
<1> QED
  BY <1>2, <1>4, <1>7, Accepts DEF p

\* A protocol of ours is accepted when its notification comes.
LEMMA NotifyAccepts ==
  ASSUME TypeOK, OwnInv, NEW p \in Protocols, Notify(p)
  PROVE  p[1] \in Connections /\ Promise!Accept(p[1], p)
<1>1. p \in unnotified /\ unnotified' = unnotified \ {p} /\ statusCh' = Append(statusCh, p) /\ "status" \notin closed
      /\ UNCHANGED <<started, closed, Status, StatusChan>>
  BY DEF Notify, botVars, handover
<1>2. p[2] <= started[p[1]]
  BY <1>1 DEF OwnInv, Numbered, Awaited
<1>3. p \notin Accepted /\ Accepted' = Accepted \cup {p}
  BY <1>1, <1>2 DEF Accepted
<1> QED
  BY <1>1, <1>3, Accepts

\* Every step is a step of the pipes, or none.
LEMMA DeliveryStep ==
  ASSUME TypeOK, OwnInv, OneHandover, OneStatus, [Next]_vars
  PROVE  [Promise!Next]_(Promise!dvars)
<1>1. ASSUME UNCHANGED <<started, unnotified, closed, statusCh, Status, StatusChan>>
      PROVE  UNCHANGED Promise!dvars
  <2>1. Accepted' = Accepted
    BY <1>1 DEF Accepted
  <2> QED
    BY <1>1, <2>1, ChannelsSame DEF Promise!dvars
<1>2. OnceOnly
  BY DEF OwnInv
<1>3. CASE Agency
  <2>1. ASSUME NEW c \in Connections, PeerStarts(c) PROVE Promise!Next
    <3>1. <<c, started[c] + 1>>[1] = c
      OBVIOUS
    <3> QED
      BY <2>1, <3>1, PeerStartsAccepts DEF Promise!Next
  <2>2. ASSUME NEW p \in Protocols, Notify(p) PROVE Promise!Next
    BY <2>2, NotifyAccepts DEF Promise!Next
  <2>3. CASE CloseStatus
    BY <1>2, <2>3, CloseEnds DEF Promise!Next
  <2>4. ASSUME NEW c \in Connections, Ask(c) PROVE UNCHANGED Promise!dvars
    BY <1>1, <2>4 DEF Ask, botVars, handover
  <2>5. CASE CloseQuestion
    <3>1. UNCHANGED <<started, unnotified, statusCh, Status, StatusChan>> /\ closed' = closed \cup {"question"}
      BY <2>5 DEF CloseQuestion, agencyVars, botVars, handover
    <3>2. Pipe' = Pipe
      BY <3>1, PipeNext, PipeSame
    <3>3. Ended' = Ended
      BY <3>1 DEF Ended
    <3>4. UNCHANGED <<Offered, Accepted>>
      BY <3>1 DEF Offered, Accepted
    <3> QED
      BY <3>2, <3>3, <3>4 DEF Promise!dvars
  <2> QED
    BY <1>3, <2>1, <2>2, <2>3, <2>4, <2>5 DEF Agency
<1>4. CASE BotRun
  <2>1. CASE BotStatus
    BY <2>1, BotStatusStutters
  <2>2. CASE BotQuestion \/ BotInterrupt \/ BotReturn
    BY <1>1, <2>2 DEF BotQuestion, BotInterrupt, BotReturn, agencyVars, streamVars, handover
  <2> QED
    BY <1>4, <2>1, <2>2 DEF BotRun
<1>5. CASE Multiplex
  <2>1. CASE MuxStatus
    BY <2>1, MuxStatusOffers DEF Promise!Next
  <2>2. ASSUME MuxQuestion \/ MuxBackend \/ (\E c \in Connections : Broadcast(c)) \/ MuxTerminated \/ MuxInterrupt
        PROVE  UNCHANGED <<started, unnotified, closed, statusCh, Status, StatusChan>>
    BY <2>2 DEF MuxQuestion, MuxBackend, Broadcast, MuxTerminated, MuxInterrupt, agencyVars, streamVars,
                botVars, handover
  <2> QED
    BY <1>1, <1>5, <2>1, <2>2 DEF Multiplex
<1>6. ASSUME NEW c \in Connections, Receive(c) PROVE Promise!Next \/ UNCHANGED Promise!dvars
  <2>1. CASE ConvStatus(c)
    BY <1>2, <2>1, ConvStatusTakes DEF Promise!Next
  <2>2. CASE ConvQuestion(c) \/ ConvBackend(c) \/ ConvTransient(c)
    BY <1>1, <2>2 DEF ConvQuestion, ConvBackend, ConvTransient, agencyVars, streamVars, botVars, handover
  <2> QED
    BY <1>6, <2>1, <2>2 DEF Receive
<1>7. ASSUME NEW c \in Connections, Work(c) PROVE UNCHANGED Promise!dvars
  <2>1. UNCHANGED <<closed, statusCh, Status, StatusChan>>
    BY <1>7 DEF Work, SendMessage, RecordID, SendProtocol, SendBackend, SendTransient, Signal, agencyVars,
                streamVars, botVars, handover
  <2>2. \/ UNCHANGED <<started, unnotified>>
        \/ /\ started' = [started EXCEPT ![c] = @ + 1]
           /\ unnotified' = unnotified \cup {<<c, started[c] + 1>>}
    BY <1>7 DEF Work, SendMessage, RecordID, SendProtocol, SendBackend, SendTransient, Signal, agencyVars
  <2>3. CASE UNCHANGED <<started, unnotified>>
    BY <1>1, <2>1, <2>3
  <2>4. CASE started' = [started EXCEPT ![c] = @ + 1] /\ unnotified' = unnotified \cup {<<c, started[c] + 1>>}
    BY <2>1, <2>4, StartIsHidden, ChannelsSame DEF Promise!dvars
  <2> QED
    BY <2>2, <2>3, <2>4
<1>8. CASE UNCHANGED vars
  BY <1>1, <1>8 DEF vars, agencyVars, streamVars, botVars, handover
<1> QED
  BY <1>3, <1>4, <1>5, <1>6, <1>7, <1>8 DEF Next

\* At first all pipes are empty.
LEMMA DeliveryInit == ASSUME Init PROVE Promise!Init
<1>1. Accepted = {}
  BY ConstantsAssumption DEF Init, Accepted, Protocols
<1>2. Pipe = [c \in Connections |-> <<>>]
  <2>1. \A c \in Connections : Of(StatusChan[c], c) = <<>> /\ Of(Status, c) = <<>> /\ Of(statusCh, c) = <<>>
    BY OfEmpty DEF Init
  <2>2. <<>> \o <<>> \o <<>> = <<>>
    OBVIOUS
  <2> QED
    BY <2>1, <2>2 DEF Pipe
<1>3. Offered = {} /\ Ended = FALSE
  BY DEF Init, Offered, Ended
<1> QED
  BY <1>1, <1>2, <1>3 DEF Promise!Init

(* Every status that the agency sends reaches the conversation of its connection
   once and in order, whatever the goroutines of Bot.Run, of the multiplexer and
   of the conversations do in between; only the end of the stream cuts off what
   is not offered yet (Bot.Run, Multiplexer, statusReceived). *)
THEOREM StatusesAreDelivered == Spec => ImplementsDelivery
<1>1. Init => OneStatus
  <2>1. Len(<<>>) <= 1
    OBVIOUS
  <2> QED
    BY <2>1 DEF Init, OneStatus
<1>2. TypeOK /\ OneStatus /\ [Next]_vars => OneStatus'
  BY OneStatusStep
<1>3. TypeOK /\ OwnInv /\ OneHandover /\ OneStatus /\ [Next]_vars => [Promise!Next]_(Promise!dvars)
  BY DeliveryStep
<1> QED
  BY <1>1, <1>2, <1>3, DeliveryInit, TypeCorrect, OwnMessagesKnown, HandsOverOne, PTL
     DEF Spec, ImplementsDelivery, Promise!Spec
=============================================================================
