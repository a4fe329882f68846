-------------------------------- MODULE Machine --------------------------------
(***************************************************************************)
(* The FSM interpreter of agency/fsm (machine.go, event.go, transition.go) *)
(* and the handlers that drive it (statusReceived and questionReceived of  *)
(* chat/chat.go), for one conversation that runs one built-in machine.     *)
(*                                                                         *)
(* What reaches it are two streams, statuses and questions, each in order. *)
(* The state of a protocol is not in the notification: the handler asks    *)
(* the agency for it when it handles the notification.  Statuses about the *)
(* bot's own texts are left out: Multiplexer shows that they never reach   *)
(* the machine.  The other end of the connection may offer credentials and *)
(* ask for proofs too, and their completions are told in the same stream;  *)
(* what else is told or asked of them triggers nothing and is left out.    *)
(* The rules no built-in machine uses (Lua, sessions, hooks, backend and   *)
(* transient messages) are left out.                                       *)
(*                                                                         *)
(* The agency and the user at the other end are external, and so is the    *)
(* mail: sendEmail is a stub that logs what it should send.  The user reads*)
(* the mail of its own addresses and says only PINs it has read; a PIN is  *)
(* a fresh value, so equal random PINs and guessed ones are left out.      *)
(***************************************************************************)
EXTENDS Machines, Naturals, FiniteSets

CONSTANTS
  Running,    \* the machines a run looks at
  Own, Other, \* the addresses whose mail the user reads, and others
  Words,      \* what else the user says, the machines' commands included
  Pins,       \* bound: how many PINs are generated
  MaxStarted, \* bound: how many protocols the bot starts
  MaxForeign, \* bound: how many protocols the other end completes
  MaxQueue    \* bound: how many notifications wait

ASSUME BoundsAssumption ==
  /\ MaxStarted \in Nat /\ MaxForeign \in Nat /\ MaxQueue \in Nat \ {0}
  /\ Own \cap Other = {} /\ (Own \cup Other) \cap (Words \cup Pins) = {} /\ Words \cap Pins = {}

VARIABLES
  machine,   \* the description that is run
  current,   \* Machine.Current, the name of a state
  memory,    \* Machine.Memory, a function from the registers written
  reported,  \* Machine.KeepMemoryReported
  statuses,  \* notifications on the way to statusReceived
  questions, \* protocols whose question is on the way to questionReceived
  protocols, \* the agency: what became of the protocols the bot has started
  foreign,   \* the agency: the kinds of protocols the other end has started and completed
  mails,     \* the mails the bot has sent
  sent,      \* what the last step of the machine sent
  panicked,  \* a handler has panicked, which ends the process
  session    \* ghost: registers written since the machine last left its initial state
machineVars == <<current, memory, reported, session>>
vars == <<machine, machineVars, statuses, questions, protocols, foreign, mails, sent, panicked>>

Addresses == Own \cup Other
Contents == Addresses \cup Words \cup Pins
Empty == <<>>

\* A value for a register, and values written over a memory.
Save(r, v) == [x \in {r} |-> v]
Write(values, old) ==
  [r \in DOMAIN values \cup DOMAIN old |-> IF r \in DOMAIN values THEN values[r] ELSE old[r]]

\* The values a proof may reveal.
Attribute(name, credDefId, value) == [name |-> name, credDefId |-> credDefId, value |-> value]
Revealed ==
  {<<>>}
  \cup {<<Attribute(EmailAttribute.name, EmailAttribute.credDefId, a)>> : a \in Addresses}
  \cup {<<Attribute(EmailAttribute.name, "other-schema", a)>> : a \in Own}
  \cup {<<Attribute("phone", EmailAttribute.credDefId, a)>> : a \in Own}

\* A status of a protocol of the other end is about 0, which is none of ours.
Kinds == {"issue_cred", "present_proof"}
Status(protocol, about) == [protocol |-> protocol, about |-> about]
Statuses == [protocol : {"basic_message"}, about : Contents] \cup [protocol : {"connection"}, about : {0}]
  \cup [protocol : Kinds, about : 0 .. MaxStarted]

TypeOK ==
  /\ current \in DOMAIN machine.states
  /\ \A r \in DOMAIN memory : memory[r] \in Contents
  /\ reported \in BOOLEAN
  /\ Len(statuses) <= MaxQueue /\ \A i \in DOMAIN statuses : statuses[i] \in Statuses
  /\ \A i \in DOMAIN questions : questions[i] \in DOMAIN protocols
  /\ Len(protocols) <= MaxStarted
  /\ \A p \in DOMAIN protocols :
       /\ protocols[p].state \in {"RUNNING", "WAITING", "ANSWERED", "OK", "ERR"}
       /\ protocols[p].attributes \in Revealed /\ protocols[p].ack \in BOOLEAN
  /\ Len(foreign) <= MaxForeign /\ \A i \in DOMAIN foreign : foreign[i] \in Kinds
  /\ mails \subseteq [to : Contents, pin : Pins]
  /\ panicked \in BOOLEAN
  /\ session \subseteq {"EMAIL", "PIN", "LINE", EmailAttribute.name}

\* Initialize and Start: the initial state, an empty memory, the first sends.
\* The conversation was created by its first status.
Init ==
  /\ machine \in Running
  /\ current = machine.initial.target
  /\ memory = Empty /\ reported = FALSE /\ session = {}
  /\ statuses \in {<<>>, <<Status("connection", 0)>>}
  /\ questions = <<>> /\ protocols = <<>> /\ foreign = <<>> /\ mails = {} /\ panicked = FALSE
  /\ sent = [i \in DOMAIN machine.initial.sends |->
               [protocol |-> machine.initial.sends[i].protocol, rule |-> "", data |-> Empty]]
-----------------------------------------------------------------------------
(* Triggers: which transition of the current state a status or a question    *)
(* fires, the first one in the machine's order.                              *)

Transitions == machine.states[current]
Register(r) == IF r \in DOMAIN memory THEN memory[r] ELSE ""
FirstOf(S) == CHOOSE i \in S : \A j \in S : i <= j

\* Event.Triggers: only texts are compared, other protocols always match.
Triggers(trigger, n) ==
  \/ n.protocol # "basic_message"
  \/ trigger.rule = "INPUT_VALIDATE_NOT_EQUAL" /\ Register(trigger.data) # n.about
  \/ trigger.rule = "INPUT_VALIDATE_EQUAL" /\ Register(trigger.data) = n.about
  \/ trigger.rule = "INPUT_EQUAL" /\ trigger.data = n.about
  \/ trigger.rule \in {"", "INPUT", "INPUT_SAVE"}

Triggered(n) ==
  {i \in DOMAIN Transitions :
     Transitions[i].trigger.protocol = n.protocol /\ Triggers(Transitions[i].trigger, n)}

\* MUTANT of NotAccepted: an attribute of another credential will do.
NotAccepted_NamesOnly(wanted, given) ==
  \/ Len(wanted) # Len(given)
  \/ \E i \in DOMAIN wanted : \A j \in DOMAIN given : given[j].name # wanted[i].name

NotAccepted(wanted, given) ==
  \/ Len(wanted) # Len(given)
  \/ \E i \in DOMAIN wanted : \A j \in DOMAIN given :
       given[j].name # wanted[i].name \/ given[j].credDefId # wanted[i].credDefId

Named(wanted, given) ==
  {ij \in (DOMAIN wanted) \X (DOMAIN given) : wanted[ij[1]].name = given[ij[2]].name}

\* Event.Answers for a question that waits for a verification.  Its data must
\* be a list of attributes, which only these two rules have.
Readable(trigger) == trigger.rule \in {"NOT_ACCEPT_VALUES", "ACCEPT_AND_INPUT_VALUES"}

Answers(trigger, given) ==
  \/ trigger.rule = "NOT_ACCEPT_VALUES" /\ NotAccepted(trigger.data, given)
  \/ /\ trigger.rule = "ACCEPT_AND_INPUT_VALUES"
     /\ Cardinality(Named(trigger.data, given)) = Len(given)

Answering(given) ==
  {i \in DOMAIN Transitions :
     Transitions[i].trigger.protocol = "present_proof" /\ Answers(Transitions[i].trigger, given)}

\* Triggers are asked in order up to the one that answers: one that cannot be
\* read panics.
Panics(given) ==
  \E i \in DOMAIN Transitions :
    /\ Transitions[i].trigger.protocol = "present_proof" /\ ~Readable(Transitions[i].trigger)
    /\ \A j \in Answering(given) : i < j

\* The accepting triggers that are asked, up to the first that answers, store
\* the values they name, whatever they answer.
AnswerWrites(given) ==
  LET asked == {i \in DOMAIN Transitions :
                  /\ Transitions[i].trigger.rule = "ACCEPT_AND_INPUT_VALUES"
                  /\ \A j \in Answering(given) : i <= j}
      stored == {j \in DOMAIN given :
                   \E i \in asked : \E w \in DOMAIN Transitions[i].trigger.data :
                     Transitions[i].trigger.data[w].name = given[j].name}
  IN  [r \in {given[j].name : j \in stored} |->
         given[CHOOSE j \in stored : given[j].name = r].value]
-----------------------------------------------------------------------------
(* Firing a transition: what it writes, what it sends, and the step.         *)

Said(t, word) == \E i \in DOMAIN t.sends : t.sends[i].protocol = "answer" /\ t.sends[i].data = word
Generates(t, i) == \E j \in 1 .. i : t.sends[j].rule = "GEN_PIN"

\* MUTANT of InputWrites: a register keeps the first value saved to it.
InputWrites_Once(t, n) ==
  IF n.protocol = "basic_message" /\ t.trigger.rule = "INPUT_SAVE" /\ t.trigger.data \notin DOMAIN memory
    THEN Save(t.trigger.data, n.about) ELSE Empty

\* MUTANT of InputWrites: the register's name is saved for the content.
InputWrites_Name(t, n) ==
  IF n.protocol = "basic_message" /\ t.trigger.rule = "INPUT_SAVE" THEN Save(t.trigger.data, t.trigger.data) ELSE Empty

\* buildInputEvent: of these machines' rules only INPUT_SAVE writes.
InputWrites(t, n) ==
  IF n.protocol = "basic_message" /\ t.trigger.rule = "INPUT_SAVE" THEN Save(t.trigger.data, n.about) ELSE Empty

\* MUTANT of GenPIN: a PIN that was generated before is used again.
GenPIN_Once(t) ==
  IF ~Generates(t, Len(t.sends)) THEN {Empty}
  ELSE {Save("PIN", p) : p \in IF "PIN" \in DOMAIN memory THEN {memory["PIN"]} ELSE Pins}

GenPIN(t) ==
  IF Generates(t, Len(t.sends)) THEN {Save("PIN", p) : p \in Pins \ {m.pin : m \in mails}} ELSE {Empty}

\* doBuildSendEvents, buildBMSend and FmtFromMem: a template takes the values
\* the registers have when the send is built.
Build(send, m, n) ==
  [ protocol |-> send.protocol, rule |-> send.rule,
    data |-> CASE send.rule \in {"FORMAT_MEM", "GEN_PIN"} ->
                    [r \in send.data |-> IF r \in DOMAIN m THEN m[r] ELSE "<no value>"]
               [] send.rule = "INPUT" -> Save("INPUT", n.about)
               [] OTHER -> Empty ]

\* Conversation.send with sendIssuing and sendReqProof: new protocols.
IsStart(output) == output.protocol \in {"issue_cred", "present_proof"}
StartOf(output) ==
  [kind |-> output.protocol, state |-> "RUNNING", values |-> output.data, attributes |-> <<>>, ack |-> FALSE]
Started(outputs) ==
  LET starts == {i \in DOMAIN outputs : IsStart(outputs[i])}
      Nth(k) == CHOOSE i \in starts : Cardinality({j \in starts : j <= i}) = k
  IN  [k \in 1 .. Cardinality(starts) |-> StartOf(outputs[Nth(k)])]

\* Conversation.reply: Give for the question or status the machine reacts to.
\* The agency drops an answer to what is no open question.
Replied(t, about) ==
  IF Said(t, "ACK") \/ Said(t, "NACK")
  THEN [p \in DOMAIN protocols |->
          IF p = about /\ protocols[p].state = "WAITING"
          THEN [protocols[p] EXCEPT !.state = "ANSWERED", !.ack = Said(t, "ACK")] ELSE protocols[p]]
  ELSE protocols

\* Machine.Step.  KeepMemoryReported, there to log once, also decides about
\* clearing: only the first return to the initial state clears the memory.
Step(t, m) ==
  /\ current' = t.target
  /\ reported' = (reported \/ t.target = machine.initial.target)
  /\ memory' = IF t.target = machine.initial.target /\ ~machine.keepMemory /\ ~reported
               THEN Empty ELSE m

\* BuildSendEvents or BuildSendAnswers, Conversation.send and Step.
Fire(t, writes, n) ==
  \E pin \in GenPIN(t) :
    LET before == Write(writes, memory)
        after == Write(pin, before)
        outputs == [i \in DOMAIN t.sends |->
                      Build(t.sends[i], IF Generates(t, i) THEN after ELSE before, n)]
    IN  /\ sent' = outputs
        /\ mails' = mails \cup
             {[to |-> outputs[i].data["EMAIL"], pin |-> outputs[i].data["PIN"]] :
                i \in {j \in DOMAIN outputs : outputs[j].protocol = "email"}}
        /\ protocols' = Replied(t, n.about) \o Started(outputs)
        /\ Len(protocols') <= MaxStarted
        /\ session' = (IF current = machine.initial.target THEN {} ELSE session)
                        \cup DOMAIN writes \cup DOMAIN pin
        /\ Step(t, after)
-----------------------------------------------------------------------------
(* The handlers.                                                             *)

\* getStatus: what the agency says of the protocol now.
StateOf(n) == IF n.protocol \in Kinds /\ n.about # 0 THEN protocols[n.about].state ELSE "OK"

\* MUTANT of StatusSteps: a protocol that is not completed steps the machine too.
StatusSteps_Any(n) == Triggered(n) # {}

StatusSteps(n) == Triggered(n) # {} /\ StateOf(n) = "OK"

StatusReceived ==
  /\ ~panicked /\ statuses # <<>>
  /\ LET n == Head(statuses)
         t == Transitions[FirstOf(Triggered(n))]
     IN  \/ StatusSteps(n) /\ Fire(t, InputWrites(t, n), n)
         \/ ~StatusSteps(n) /\ sent' = <<>> /\ UNCHANGED <<machineVars, protocols, mails>>
  /\ statuses' = Tail(statuses)
  /\ UNCHANGED <<machine, questions, foreign, panicked>>

\* MUTANT of TakeQuestion: a question is handled again.
TakeQuestion_Again == UNCHANGED questions

TakeQuestion == questions' = Tail(questions)

QuestionReceived ==
  /\ ~panicked /\ questions # <<>>
  /\ LET q == Head(questions)
         given == protocols[q].attributes
         t == Transitions[FirstOf(Answering(given))]
     IN  \/ /\ Panics(given) /\ panicked' = TRUE /\ sent' = <<>>
            /\ UNCHANGED <<machineVars, protocols, mails>>
         \/ /\ ~Panics(given) /\ Answering(given) # {}
            /\ Fire(t, AnswerWrites(given), Status("present_proof", q)) /\ UNCHANGED panicked
         \/ /\ ~Panics(given) /\ Answering(given) = {} /\ sent' = <<>>
            /\ memory' = Write(AnswerWrites(given), memory)
            /\ UNCHANGED <<current, reported, session, protocols, mails, panicked>>
  /\ TakeQuestion
  /\ UNCHANGED <<machine, statuses, foreign>>
-----------------------------------------------------------------------------
(* External: the user and the agency.                                        *)

Notify(status) == Len(statuses) < MaxQueue /\ statuses' = Append(statuses, status)
Becomes(p, state) == protocols' = [protocols EXCEPT ![p].state = state]
\* What happens outside ends with the process too.
Outside == ~panicked /\ sent' = <<>> /\ UNCHANGED <<machine, machineVars, mails, panicked>>

Say ==
  /\ \E c \in Words \cup Addresses \cup {m.pin : m \in {x \in mails : x.to \in Own}} :
       Notify(Status("basic_message", c))
  /\ Outside /\ UNCHANGED <<questions, protocols, foreign>>

\* A notification about a protocol that goes on.
Progress(p) ==
  /\ protocols[p].state \in {"RUNNING", "WAITING", "ANSWERED"}
  /\ Notify(Status(protocols[p].kind, p))
  /\ Outside /\ UNCHANGED <<questions, protocols, foreign>>

\* The user presents a proof: the agency asks the bot to verify it.
Present(p) ==
  /\ protocols[p].kind = "present_proof" /\ protocols[p].state = "RUNNING"
  /\ \E attributes \in Revealed :
       protocols' = [protocols EXCEPT ![p].state = "WAITING", ![p].attributes = attributes]
  /\ questions' = Append(questions, p)
  /\ Outside /\ UNCHANGED <<statuses, foreign>>

\* The protocol ends: a credential is taken or not, a proof is declined by the
\* user, or the answered one completed or not.
Settle(p) ==
  /\ \/ protocols[p].kind = "issue_cred" /\ protocols[p].state = "RUNNING" /\ Becomes(p, "OK")
     \/ protocols[p].kind = "present_proof" /\ protocols[p].ack
          /\ protocols[p].state = "ANSWERED" /\ Becomes(p, "OK")
     \/ protocols[p].state \in {"RUNNING", "ANSWERED"} /\ Becomes(p, "ERR")
  /\ Notify(Status(protocols[p].kind, p))
  /\ Outside /\ UNCHANGED <<questions, foreign>>

\* The other end has issued a credential to the bot's agent, or had a proof of it.
OtherCompletes ==
  /\ Len(foreign) < MaxForeign
  /\ \E kind \in Kinds : foreign' = Append(foreign, kind) /\ Notify(Status(kind, 0))
  /\ Outside /\ UNCHANGED <<questions, protocols>>

Next ==
  \/ StatusReceived \/ QuestionReceived \/ Say \/ OtherCompletes
  \/ \E p \in DOMAIN protocols : Progress(p) \/ Present(p) \/ Settle(p)

Spec == Init /\ [][Next]_vars
-----------------------------------------------------------------------------
(* A credential names an address whose mail the user reads: the PIN that is
   compared (INPUT_VALIDATE_EQUAL) is the one mailed to the address that is
   issued, whatever was said, mailed and reset before (EmailIssuerMachine of
   machines.go run by event.go and transition.go). *)
IssuedToReader ==
  \A p \in DOMAIN protocols :
    protocols[p].kind = "issue_cred" => protocols[p].values["EMAIL"] \in Own

(* The email issuer says that it is ready only when the credential it issued
   last is completed, or one that the other end of the connection has issued to
   the bot: Triggers compares no protocols (event.go 116-118).  Notifications of
   its own earlier credentials may still be on their way, and the state is read
   when one is handled (statusReceived of chat.go), but they end no wait. *)
ReadyWhenIssued ==
  [][current = "WAITING_ISSUING_STATUS" /\ current' = "IDLE"
       => \/ protocols[Len(protocols)].state = "OK"
          \/ \E i \in DOMAIN foreign : foreign[i] = "issue_cred"]_vars

(* An email the proof machine speaks of was revealed by a proof that the bot
   has accepted, as the one attribute, of the credential, it had asked for
   (Answers of event.go, ReqProofMachine of machines.go). *)
SpeaksOfAccepted ==
  \A i \in DOMAIN sent : EmailAttribute.name \in DOMAIN sent[i].data =>
    \E p \in DOMAIN protocols :
      /\ protocols[p].ack
      /\ protocols[p].attributes =
           <<Attribute(EmailAttribute.name, EmailAttribute.credDefId, sent[i].data[EmailAttribute.name])>>

(* What the bot formats was written since it last left its initial state, so no
   user sees the values of an earlier session, although the memory keeps them
   (Step of machine.go, FmtFromMem of transition.go). *)
FormatsOwnSession ==
  \A i \in DOMAIN sent : sent[i].rule \in {"FORMAT_MEM", "GEN_PIN"} => DOMAIN sent[i].data \subseteq session

(* The proof machine's last trigger has no attributes, so a question in that
   state ends the process (Answers of event.go, WAITING2_EMAIL_PROOF of
   machines.go).  That takes a user who says "reset", is asked for a second
   proof and presents both: with one open proof it never happens. *)
PanicNeedsTwoProofs ==
  panicked => \E p, q \in DOMAIN protocols :
                p # q /\ protocols[p].ack /\ protocols[q].state = "WAITING"

==============================================================================
