----------------------------- MODULE MachineProofs -----------------------------
(***************************************************************************)
(* Proofs about Machine, run with the built-in machines, for all addresses,*)
(* words and PINs and any number of protocols and waiting notifications.   *)
(***************************************************************************)
EXTENDS Machine, TLAPS, FiniteSetTheorems, WellFoundedInduction

Registers == {"EMAIL", "PIN", "LINE", EmailAttribute.name}
Values == {Empty} \cup [{"EMAIL"} -> Contents \cup {"<no value>"}]
Protocols ==
  [kind : Kinds, state : {"RUNNING", "WAITING", "ANSWERED", "OK", "ERR"},
   values : Values, attributes : Revealed, ack : BOOLEAN]
-----------------------------------------------------------------------------
(* The inductive invariant.                                                  *)

Typed ==
  /\ machine \in Running
  /\ current \in DOMAIN machine.states
  /\ DOMAIN memory \subseteq Registers /\ \A r \in DOMAIN memory : memory[r] \in Contents
  /\ reported \in BOOLEAN
  /\ statuses \in Seq(Statuses) /\ Len(statuses) <= MaxQueue
  /\ protocols \in Seq(Protocols) /\ Len(protocols) <= MaxStarted
  /\ questions \in Seq(DOMAIN protocols)
  /\ foreign \in Seq(Kinds) /\ Len(foreign) <= MaxForeign
  /\ mails \subseteq [to : Contents, pin : Pins]
  /\ panicked \in BOOLEAN
  /\ session \subseteq Registers

\* The agency asks once about a protocol, and the bot answers what it was asked.
Asked ==
  /\ \A i \in DOMAIN questions :
       LET q == protocols[questions[i]] IN q.kind = "present_proof" /\ q.state = "WAITING"
  /\ \A i, j \in DOMAIN questions : i # j => questions[i] # questions[j]
  /\ \A p \in DOMAIN protocols : protocols[p].ack => protocols[p].state \in {"ANSWERED", "OK", "ERR"}

\* A PIN goes to one address, and a user who says it has read it there.
Mailed ==
  /\ \A m, n \in mails : m.pin = n.pin => m = n
  /\ \A i \in DOMAIN statuses :
       statuses[i].protocol = "basic_message" /\ statuses[i].about \in Pins =>
         \E m \in mails : m.pin = statuses[i].about /\ m.to \in Own

\* The email issuer waits for the PIN it has mailed to the address it remembers.
KnowsMail ==
  current = "WAITING_EMAIL_PIN" =>
    /\ {"EMAIL", "PIN"} \subseteq DOMAIN memory
    /\ [to |-> memory["EMAIL"], pin |-> memory["PIN"]] \in mails
    /\ {"EMAIL", "PIN"} \subseteq session

\* The other end of the connection has issued a credential to the bot.
OtherIssued == \E i \in DOMAIN foreign : foreign[i] = "issue_cred"

\* Credentials are issued one after the other, and what was notified of one is
\* taken before the PIN that leads to the next: the user says it later.
InTurn ==
  /\ \A p \in DOMAIN protocols :
       protocols[p].state # "OK" => current = "WAITING_ISSUING_STATUS" /\ p = Len(protocols)
  /\ \A i \in DOMAIN statuses : statuses[i].protocol = "issue_cred" => statuses[i].about # 0
  /\ current = "WAITING_EMAIL_PIN" =>
       \A i, j \in DOMAIN statuses :
         i < j /\ statuses[i] = Status("basic_message", memory["PIN"]) => statuses[j].protocol # "issue_cred"
  /\ current = "WAITING_ISSUING_STATUS" =>
       \A i \in DOMAIN statuses : statuses[i].protocol = "issue_cred" => statuses[i].about = Len(protocols)

\* A credential of the other end may end the wait for the bot's own too early.
OneIssue ==
  /\ \A p \in DOMAIN protocols : protocols[p].kind = "issue_cred"
  /\ current = "WAITING_ISSUING_STATUS" => "EMAIL" \in session
  /\ OtherIssued \/ InTurn

\* The bot has accepted the proof that reveals this.
Accepted(value) ==
  \E p \in DOMAIN protocols :
    protocols[p].ack
    /\ protocols[p].attributes = <<Attribute(EmailAttribute.name, EmailAttribute.credDefId, value)>>

\* The proof machine remembers what was revealed by a proof it has accepted.
KnowsProof ==
  current \in {"WAITING2_EMAIL_PROOF", "WAITING_NEXT_CMD"} =>
    "email" \in DOMAIN memory /\ "email" \in session /\ Accepted(memory["email"])

Issues == machine = EmailIssuerMachine => KnowsMail /\ OneIssue
Proves == machine = ReqProofMachine => KnowsProof /\ \A p \in DOMAIN protocols : protocols[p].kind = "present_proof"
Echoes == machine = EchoMachine => protocols = <<>>

Inv ==
  /\ Typed /\ Asked /\ Mailed /\ Issues /\ Proves /\ Echoes
  /\ IssuedToReader /\ SpeaksOfAccepted /\ FormatsOwnSession /\ PanicNeedsTwoProofs
-----------------------------------------------------------------------------
(* Operators.                                                                *)

\* A set of numbers has a least one, by the well-foundedness of the numbers.
LEMMA LeastNumber ==
  ASSUME NEW S, S \subseteq Nat, S # {}
  PROVE  \E i \in S : \A j \in S : i <= j
<1>1. IsWellFoundedOn(OpToRel(<, Nat), Nat)
  BY NatLessThanWellFounded
<1>2. \A i, j \in Nat : i < j => <<i, j>> \in OpToRel(<, Nat)
  BY DEF OpToRel
<1> HIDE DEF OpToRel
<1>3. PICK i \in S : \A j \in S : ~(<<j, i>> \in OpToRel(<, Nat))
  BY <1>1, WFMin
<1>4. \A j \in S : ~(j < i)
  BY <1>2, <1>3
<1> QED BY <1>4

\* The first transition is one, and no other comes before it.
LEMMA FirstIsLeast ==
  ASSUME NEW S, S \subseteq Nat, S # {}
  PROVE  FirstOf(S) \in S /\ \A j \in S : FirstOf(S) <= j
<1>1. \E i \in S : \A j \in S : i <= j
  BY LeastNumber
<1> QED BY <1>1 DEF FirstOf

\* A transition without a start starts nothing.
LEMMA NothingStarted ==
  ASSUME NEW outputs, \A i \in DOMAIN outputs : ~IsStart(outputs[i])
  PROVE  Started(outputs) = <<>>
<1> DEFINE starts == {i \in DOMAIN outputs : IsStart(outputs[i])}
           Nth(k) == CHOOSE i \in starts : Cardinality({j \in starts : j <= i}) = k
<1>1. Cardinality(starts) = 0
  BY FS_EmptySet
<1>2. Started(outputs) = [k \in 1 .. Cardinality(starts) |-> StartOf(outputs[Nth(k)])]
  BY DEF Started
<1> HIDE DEF starts, Nth
<1> QED BY <1>1, <1>2

\* A transition with one start starts that.
LEMMA OneStarted ==
  ASSUME NEW outputs, NEW i \in DOMAIN outputs, i \in Nat, IsStart(outputs[i]),
         \A j \in DOMAIN outputs : j # i => ~IsStart(outputs[j])
  PROVE  Started(outputs) = <<StartOf(outputs[i])>>
<1> DEFINE starts == {j \in DOMAIN outputs : IsStart(outputs[j])}
           Nth(k) == CHOOSE j \in starts : Cardinality({l \in starts : l <= j}) = k
<1>1. starts = {i} /\ {l \in starts : l <= i} = {i}
  OBVIOUS
<1>2. Cardinality({i}) = 1
  BY FS_Singleton
<1>3. Nth(1) = i
  BY <1>1, <1>2
<1>4. Started(outputs) = [k \in 1 .. Cardinality(starts) |-> StartOf(outputs[Nth(k)])]
  BY DEF Started
<1>5. Cardinality(starts) = 1
  BY <1>1, <1>2
<1> HIDE DEF starts, Nth
<1> QED BY <1>3, <1>4, <1>5
-----------------------------------------------------------------------------
(* The built-in machines, transition by transition.                          *)

\* The email issuer (EmailIssuerMachine of machines.go).
LEMMA IssuerStates ==
  /\ EmailIssuerMachine.initial = [sends |-> <<Says>>, target |-> "IDLE"]
  /\ DOMAIN EmailIssuerMachine.states =
       {"IDLE", "WAITING_EMAIL_ADDRESS", "WAITING_EMAIL_PIN", "WAITING_ISSUING_STATUS"}
  /\ EmailIssuerMachine.states["IDLE"] = <<Transition(Hears("", ""), <<Says>>, "WAITING_EMAIL_ADDRESS")>>
  /\ EmailIssuerMachine.states["WAITING_EMAIL_ADDRESS"] =
       << Transition(Hears("INPUT_SAVE", "EMAIL"),
            <<Formats({"EMAIL"}), Event("email", "GEN_PIN", {"EMAIL", "PIN"})>>, "WAITING_EMAIL_PIN") >>
  /\ EmailIssuerMachine.states["WAITING_EMAIL_PIN"] =
       << Transition(Hears("INPUT_EQUAL", "reset"), <<Says>>, "WAITING_EMAIL_ADDRESS"),
          Transition(Hears("INPUT_VALIDATE_NOT_EQUAL", "PIN"), <<Formats({"EMAIL"})>>, "WAITING_EMAIL_PIN"),
          Transition(Hears("INPUT_VALIDATE_EQUAL", "PIN"),
            <<Formats({"EMAIL"}), Event("issue_cred", "FORMAT_MEM", {"EMAIL"})>>, "WAITING_ISSUING_STATUS") >>
  /\ EmailIssuerMachine.states["WAITING_ISSUING_STATUS"] =
       <<Transition(Event("issue_cred", "OUR_STATUS", ""), <<Formats({"EMAIL"})>>, "IDLE")>>
BY DEF EmailIssuerMachine

\* The machine that asks for a proof (ReqProofMachine of machines.go).
LEMMA ProverStates ==
  /\ ReqProofMachine.initial = [sends |-> <<Says>>, target |-> "INITIAL"]
  /\ DOMAIN ReqProofMachine.states =
       {"INITIAL", "WAITING_EMAIL_PROOF_QA", "WAITING2_EMAIL_PROOF", "WAITING_NEXT_CMD"}
  /\ ReqProofMachine.states["INITIAL"] =
       << Transition(Event("connection", "", ""), <<Says>>, "INITIAL"),
          Transition(Hears("", ""), <<Event("present_proof", "", {})>>, "WAITING_EMAIL_PROOF_QA") >>
  /\ ReqProofMachine.states["WAITING_EMAIL_PROOF_QA"] =
       << Transition(Hears("INPUT_EQUAL", "reset"), <<Says>>, "INITIAL"),
          Transition(Event("present_proof", "NOT_ACCEPT_VALUES", <<EmailAttribute>>),
            <<Event("answer", "", "NACK")>>, "INITIAL"),
          Transition(Event("present_proof", "ACCEPT_AND_INPUT_VALUES", <<EmailAttribute>>),
            <<Event("answer", "", "ACK")>>, "WAITING2_EMAIL_PROOF") >>
  /\ ReqProofMachine.states["WAITING2_EMAIL_PROOF"] =
       <<Transition(Event("present_proof", "", ""), <<Formats({"email"})>>, "WAITING_NEXT_CMD")>>
  /\ ReqProofMachine.states["WAITING_NEXT_CMD"] =
       << Transition(Hears("INPUT_EQUAL", "reset"), <<Says>>, "INITIAL"),
          Transition(Hears("INPUT_SAVE", "LINE"), <<Formats({"email", "LINE"})>>, "WAITING_NEXT_CMD") >>
BY DEF ReqProofMachine

\* The echo (EchoMachine of machines.go).
LEMMA EchoStates ==
  /\ EchoMachine.initial = [sends |-> <<Says>>, target |-> "INITIAL"]
  /\ DOMAIN EchoMachine.states = {"INITIAL", "IDLE"}
  /\ EchoMachine.states["INITIAL"] =
       << Transition(Event("connection", "", ""), <<Says>>, "INITIAL"),
          Transition(Hears("INPUT_EQUAL", "run"), <<Says>>, "IDLE"),
          Transition(Hears("", ""), <<Says>>, "INITIAL") >>
  /\ EchoMachine.states["IDLE"] =
       << Transition(Hears("INPUT_EQUAL", "reset"), <<Says>>, "INITIAL"),
          Transition(Hears("INPUT", ""), <<Event("basic_message", "INPUT", {})>>, "IDLE") >>
BY DEF EchoMachine

\* Where they start and what their states are.
LEMMA InitialStates ==
  /\ EmailIssuerMachine.initial.target = "IDLE"
  /\ DOMAIN EmailIssuerMachine.states =
       {"IDLE", "WAITING_EMAIL_ADDRESS", "WAITING_EMAIL_PIN", "WAITING_ISSUING_STATUS"}
  /\ ReqProofMachine.initial.target = "INITIAL"
  /\ DOMAIN ReqProofMachine.states =
       {"INITIAL", "WAITING_EMAIL_PROOF_QA", "WAITING2_EMAIL_PROOF", "WAITING_NEXT_CMD"}
  /\ EchoMachine.initial.target = "INITIAL"
  /\ DOMAIN EchoMachine.states = {"INITIAL", "IDLE"}
<1>1. EmailIssuerMachine.initial.target = "IDLE"
  BY DEF EmailIssuerMachine
<1>2. ReqProofMachine.initial.target = "INITIAL"
  BY DEF ReqProofMachine
<1>3. EchoMachine.initial.target = "INITIAL"
  BY DEF EchoMachine
<1> QED BY <1>1, <1>2, <1>3, IssuerStates, ProverStates, EchoStates

\* They are three machines.
LEMMA ThreeMachines ==
  /\ EmailIssuerMachine # ReqProofMachine
  /\ EmailIssuerMachine # EchoMachine
  /\ ReqProofMachine # EchoMachine
<1>1. "IDLE" # "INITIAL" /\ "WAITING_NEXT_CMD" \notin {"INITIAL", "IDLE"}
  OBVIOUS
<1> QED BY <1>1, IssuerStates, ProverStates, EchoStates
-----------------------------------------------------------------------------
(* What firing a transition does.                                            *)

\* The machine's step after new values have been written to its memory.
Steps(t, values) ==
  /\ current' = t.target /\ reported' \in BOOLEAN
  /\ DOMAIN memory' \subseteq DOMAIN values \cup DOMAIN memory
  /\ \A r \in DOMAIN memory' : memory'[r] = IF r \in DOMAIN values THEN values[r] ELSE memory[r]
  /\ t.target # machine.initial.target => DOMAIN memory' = DOMAIN values \cup DOMAIN memory
  /\ session' = (IF current = machine.initial.target THEN {} ELSE session) \cup DOMAIN values

\* An output that a send gives with these values over the memory.
Gives(output, send, values) ==
  /\ output.protocol = send.protocol /\ output.rule = send.rule
  /\ send.rule \in {"FORMAT_MEM", "GEN_PIN"} =>
       /\ output.data \in [send.data -> {output.data[r] : r \in send.data}]
       /\ \A r \in send.data :
            /\ r \in DOMAIN values => output.data[r] = values[r]
            /\ r \in DOMAIN memory \ DOMAIN values => output.data[r] = memory[r]
            /\ r \notin DOMAIN memory \cup DOMAIN values => output.data[r] = "<no value>"
  /\ send.rule = "INPUT" => DOMAIN output.data = {"INPUT"}
  /\ send.rule \notin {"FORMAT_MEM", "GEN_PIN", "INPUT"} => output.data = Empty

\* A send is built from the values and what the memory has besides.
LEMMA BuildGives ==
  ASSUME NEW send, NEW values, NEW n
  PROVE  Gives(Build(send, Write(values, memory), n), send, values)
<1> DEFINE m == Write(values, memory)
           output == Build(send, m, n)
<1>1. DOMAIN m = DOMAIN values \cup DOMAIN memory
      /\ \A r \in DOMAIN m : m[r] = IF r \in DOMAIN values THEN values[r] ELSE memory[r]
  BY DEF Write
<1> HIDE DEF m
<1>2. output.protocol = send.protocol /\ output.rule = send.rule
  BY DEF Build
<1>3. ASSUME send.rule \in {"FORMAT_MEM", "GEN_PIN"}
      PROVE  output.data = [r \in send.data |-> IF r \in DOMAIN m THEN m[r] ELSE "<no value>"]
  BY <1>3 DEF Build
<1>4. ASSUME send.rule = "INPUT"
      PROVE  DOMAIN output.data = {"INPUT"}
  BY <1>4 DEF Build, Save
<1>5. ASSUME send.rule \notin {"FORMAT_MEM", "GEN_PIN", "INPUT"}
      PROVE  output.data = Empty
  BY <1>5 DEF Build
<1> HIDE DEF output
<1>6. ASSUME send.rule \in {"FORMAT_MEM", "GEN_PIN"}
      PROVE  /\ output.data \in [send.data -> {output.data[r] : r \in send.data}]
             /\ \A r \in send.data :
                  /\ r \in DOMAIN values => output.data[r] = values[r]
                  /\ r \in DOMAIN memory \ DOMAIN values => output.data[r] = memory[r]
                  /\ r \notin DOMAIN memory \cup DOMAIN values => output.data[r] = "<no value>"
  BY <1>1, <1>3, <1>6
<1> QED BY <1>2, <1>4, <1>5, <1>6 DEF Gives, output, m

\* Answers keep the protocols a sequence, and how many there are.
LEMMA RepliedTyped ==
  ASSUME protocols \in Seq(Protocols), NEW t, NEW about
  PROVE  /\ Replied(t, about) \in Seq(Protocols)
         /\ Len(Replied(t, about)) = Len(protocols)
         /\ \A p \in DOMAIN protocols :
              Replied(t, about)[p] = IF (Said(t, "ACK") \/ Said(t, "NACK")) /\ p = about /\ protocols[p].state = "WAITING"
                                     THEN [protocols[p] EXCEPT !.state = "ANSWERED", !.ack = Said(t, "ACK")]
                                     ELSE protocols[p]
<1> DEFINE answered(p) == [protocols[p] EXCEPT !.state = "ANSWERED", !.ack = Said(t, "ACK")]
           one(p) == IF p = about /\ protocols[p].state = "WAITING" THEN answered(p) ELSE protocols[p]
<1>1. \A p \in DOMAIN protocols : protocols[p] \in Protocols
  OBVIOUS
<1>2. Said(t, "ACK") \in BOOLEAN
  BY DEF Said
<1>3. \A p \in DOMAIN protocols : one(p) \in Protocols
  BY <1>1, <1>2 DEF Protocols
<1>4. DOMAIN protocols = 1 .. Len(protocols) /\ Len(protocols) \in Nat
  OBVIOUS
<1>5. CASE Said(t, "ACK") \/ Said(t, "NACK")
  <2>1. Replied(t, about) = [p \in 1 .. Len(protocols) |-> one(p)]
    BY <1>4, <1>5 DEF Replied
  <2> HIDE DEF one
  <2>2. Replied(t, about) \in Seq(Protocols) /\ Len(Replied(t, about)) = Len(protocols)
    BY <1>3, <1>4, <2>1
  <2>3. \A p \in DOMAIN protocols : Replied(t, about)[p] = one(p)
    BY <1>4, <2>1
  <2> QED BY <1>5, <2>2, <2>3 DEF one
<1>6. CASE ~(Said(t, "ACK") \/ Said(t, "NACK"))
  BY <1>6 DEF Replied
<1> QED BY <1>5, <1>6

\* A step, with the memory as the transition has left it.
LEMMA StepSteps ==
  ASSUME Typed, NEW t, NEW values, NEW m, Step(t, m),
         DOMAIN m = DOMAIN values \cup DOMAIN memory,
         \A r \in DOMAIN m : m[r] = IF r \in DOMAIN values THEN values[r] ELSE memory[r],
         session' = (IF current = machine.initial.target THEN {} ELSE session) \cup DOMAIN values
  PROVE  Steps(t, values)
<1>1. current' = t.target /\ reported' \in BOOLEAN
  BY DEF Step, Typed
<1>2. memory' = Empty \/ memory' = m
  BY DEF Step
<1>3. t.target # machine.initial.target => memory' = m
  BY DEF Step
<1>4. DOMAIN Empty = {}
  BY DEF Empty
<1> QED BY <1>1, <1>2, <1>3, <1>4 DEF Steps

\* A transition with one send that is no mail and starts nothing.
LEMMA FirePlain ==
  ASSUME Typed, NEW t, NEW send, t.sends = <<send>>,
         send.protocol \notin {"email", "issue_cred", "present_proof"}, send.rule # "GEN_PIN",
         NEW writes, NEW n, Fire(t, writes, n)
  PROVE  /\ Steps(t, writes) /\ mails' = mails
         /\ protocols' = Replied(t, n.about)
         /\ \E output : sent' = <<output>> /\ Gives(output, send, writes)
<1>1. DOMAIN t.sends = {1} /\ t.sends[1] = send /\ Len(t.sends) = 1
  OBVIOUS
<1>2. \A i \in {0, 1} : ~Generates(t, i)
  BY <1>1 DEF Generates
<1>3. GenPIN(t) = {Empty}
  BY <1>1, <1>2 DEF GenPIN
<1> DEFINE before == Write(writes, memory)
           after == Write(Empty, before)
           output == Build(send, before, n)
           outputs == [i \in DOMAIN t.sends |-> Build(t.sends[i], IF Generates(t, i) THEN after ELSE before, n)]
<1>4. /\ sent' = outputs
      /\ mails' = mails \cup {[to |-> outputs[i].data["EMAIL"], pin |-> outputs[i].data["PIN"]] :
                               i \in {j \in DOMAIN outputs : outputs[j].protocol = "email"}}
      /\ protocols' = Replied(t, n.about) \o Started(outputs)
      /\ session' = (IF current = machine.initial.target THEN {} ELSE session) \cup DOMAIN writes \cup DOMAIN Empty
      /\ Step(t, after)
  BY <1>3 DEF Fire
<1>5. DOMAIN Empty = {}
  BY DEF Empty
<1>6. DOMAIN after = DOMAIN writes \cup DOMAIN memory
      /\ \A r \in DOMAIN after : after[r] = IF r \in DOMAIN writes THEN writes[r] ELSE memory[r]
  BY <1>5 DEF Write
<1>7. outputs = <<output>>
  BY <1>1, <1>2
<1>8. Gives(output, send, writes)
  BY BuildGives
<1> HIDE DEF before, after, output, outputs
<1>9. Steps(t, writes)
  BY <1>4, <1>5, <1>6, StepSteps
<1>10. output.protocol = send.protocol
  BY <1>8 DEF Gives
<1>11. mails' = mails /\ Started(outputs) = <<>>
  <2>1. DOMAIN outputs = {1} /\ outputs[1] = output
    BY <1>7
  <2>2. {j \in DOMAIN outputs : outputs[j].protocol = "email"} = {}
    BY <1>10, <2>1
  <2>3. Started(outputs) = <<>>
    BY <1>10, <2>1, NothingStarted DEF IsStart
  <2> QED BY <1>4, <2>2, <2>3
<1>12. protocols' = Replied(t, n.about)
  <2>1. Replied(t, n.about) \in Seq(Protocols)
    BY RepliedTyped DEF Typed
  <2> QED BY <1>4, <1>11, <2>1
<1> QED BY <1>4, <1>7, <1>8, <1>9, <1>11, <1>12

\* A transition with a text and the mail of a new PIN (GenPIN of transition.go).
LEMMA FireMail ==
  ASSUME Typed, NEW t, NEW text, NEW mail, t.sends = <<text, mail>>,
         text.protocol = "basic_message", text.rule = "FORMAT_MEM",
         mail.protocol = "email", mail.rule = "GEN_PIN", mail.data = {"EMAIL", "PIN"},
         NEW writes, DOMAIN writes = {"EMAIL"}, NEW n, Fire(t, writes, n)
  PROVE  \E p \in Pins \ {m.pin : m \in mails} :
           /\ Steps(t, Write(Save("PIN", p), writes))
           /\ mails' = mails \cup {[to |-> writes["EMAIL"], pin |-> p]}
           /\ protocols' = protocols
           /\ \E o1, o2 : sent' = <<o1, o2>> /\ Gives(o1, text, writes)
                          /\ Gives(o2, mail, Write(Save("PIN", p), writes))
<1>1. /\ DOMAIN t.sends = {1, 2} /\ t.sends[1] = text /\ t.sends[2] = mail /\ Len(t.sends) = 2
      /\ 1 .. 1 = {1} /\ 1 .. 2 = {1, 2}
  OBVIOUS
<1>2. Generates(t, 2) /\ ~Generates(t, 1)
  BY <1>1 DEF Generates
<1>3. GenPIN(t) = {Save("PIN", p) : p \in Pins \ {m.pin : m \in mails}}
  BY <1>1, <1>2 DEF GenPIN
<1> DEFINE before == Write(writes, memory)
           after(pin) == Write(pin, before)
           outputs(pin) ==
             [i \in DOMAIN t.sends |-> Build(t.sends[i], IF Generates(t, i) THEN after(pin) ELSE before, n)]
<1>4. PICK pin \in GenPIN(t) :
        /\ sent' = outputs(pin)
        /\ mails' = mails \cup {[to |-> outputs(pin)[i].data["EMAIL"], pin |-> outputs(pin)[i].data["PIN"]] :
                                 i \in {j \in DOMAIN outputs(pin) : outputs(pin)[j].protocol = "email"}}
        /\ protocols' = Replied(t, n.about) \o Started(outputs(pin))
        /\ session' = (IF current = machine.initial.target THEN {} ELSE session) \cup DOMAIN writes \cup DOMAIN pin
        /\ Step(t, after(pin))
  BY DEF Fire
<1>5. PICK p \in Pins \ {m.pin : m \in mails} : pin = Save("PIN", p)
  BY <1>3
<1> DEFINE values == Write(pin, writes)
           o1 == Build(text, before, n)
           o2 == Build(mail, after(pin), n)
<1>6. DOMAIN pin = {"PIN"} /\ pin["PIN"] = p /\ "PIN" # "EMAIL"
  BY <1>5 DEF Save
<1>7. DOMAIN values = {"EMAIL", "PIN"} /\ values["EMAIL"] = writes["EMAIL"] /\ values["PIN"] = p
  BY <1>6 DEF Write
<1>8. after(pin) = Write(values, memory)
  BY DEF Write
<1>9. DOMAIN after(pin) = DOMAIN values \cup DOMAIN memory
      /\ \A r \in DOMAIN after(pin) : after(pin)[r] = IF r \in DOMAIN values THEN values[r] ELSE memory[r]
  BY <1>8 DEF Write
<1>10. outputs(pin) = <<o1, o2>>
  BY <1>1, <1>2
<1>11. Gives(o1, text, writes)
  BY BuildGives
<1>12. Gives(o2, mail, values)
  BY <1>8, BuildGives
<1> HIDE DEF before, after, outputs, values, o1, o2
<1>13. o1.protocol = "basic_message" /\ o2.protocol = "email"
       /\ o2.data["EMAIL"] = writes["EMAIL"] /\ o2.data["PIN"] = p
  BY <1>7, <1>11, <1>12 DEF Gives
<1>14. DOMAIN outputs(pin) = {1, 2} /\ outputs(pin)[1] = o1 /\ outputs(pin)[2] = o2
  BY <1>10
<1>15. mails' = mails \cup {[to |-> writes["EMAIL"], pin |-> p]}
  <2>1. {j \in DOMAIN outputs(pin) : outputs(pin)[j].protocol = "email"} = {2}
    BY <1>13, <1>14
  <2> QED BY <1>4, <1>13, <1>14, <2>1
<1>16. protocols' = protocols
  <2>1. Started(outputs(pin)) = <<>>
    BY <1>13, <1>14, NothingStarted DEF IsStart
  <2>2. ~Said(t, "ACK") /\ ~Said(t, "NACK")
    BY <1>1 DEF Said
  <2>3. Replied(t, n.about) = protocols
    BY <2>2 DEF Replied
  <2>4. protocols \in Seq(Protocols)
    BY DEF Typed
  <2> QED BY <1>4, <2>1, <2>3, <2>4
<1>17. Steps(t, values)
  <2>1. session' = (IF current = machine.initial.target THEN {} ELSE session) \cup DOMAIN values
    BY <1>4, <1>6, <1>7
  <2> QED BY <1>4, <1>9, <2>1, StepSteps
<1> QED BY <1>4, <1>5, <1>10, <1>11, <1>12, <1>15, <1>16, <1>17 DEF values

\* What a protocol is when the bot starts it.
LEMMA FireStart ==
  ASSUME Typed, NEW t, NEW writes, DOMAIN writes = {}, NEW n, Fire(t, writes, n),
         DOMAIN t.sends \subseteq Nat, NEW k \in DOMAIN t.sends,
         t.sends[k].protocol \in {"issue_cred", "present_proof"}, t.sends[k].rule # "GEN_PIN",
         Len(t.sends) \in Nat, DOMAIN t.sends = 1 .. Len(t.sends),
         \A j \in DOMAIN t.sends : j # k => t.sends[j].protocol = "basic_message" /\ t.sends[j].rule # "GEN_PIN"
  PROVE  /\ Steps(t, Empty) /\ mails' = mails
         /\ DOMAIN sent' = DOMAIN t.sends
         /\ \A i \in DOMAIN t.sends : Gives(sent'[i], t.sends[i], Empty)
         /\ protocols' = Append(protocols, StartOf(sent'[k]))
         /\ Len(protocols') <= MaxStarted
<1>1. \A i \in DOMAIN t.sends \cup {Len(t.sends)} : ~Generates(t, i)
  BY DEF Generates
<1>2. GenPIN(t) = {Empty}
  BY <1>1 DEF GenPIN
<1> DEFINE before == Write(writes, memory)
           after == Write(Empty, before)
           outputs == [i \in DOMAIN t.sends |-> Build(t.sends[i], IF Generates(t, i) THEN after ELSE before, n)]
<1>3. /\ sent' = outputs
      /\ mails' = mails \cup {[to |-> outputs[i].data["EMAIL"], pin |-> outputs[i].data["PIN"]] :
                               i \in {j \in DOMAIN outputs : outputs[j].protocol = "email"}}
      /\ protocols' = Replied(t, n.about) \o Started(outputs) /\ Len(protocols') <= MaxStarted
      /\ session' = (IF current = machine.initial.target THEN {} ELSE session) \cup DOMAIN writes \cup DOMAIN Empty
      /\ Step(t, after)
  BY <1>2 DEF Fire
<1>4. DOMAIN Empty = {}
  BY DEF Empty
<1>5. before = Write(Empty, memory)
  BY <1>4 DEF Write
<1>6. DOMAIN after = DOMAIN Empty \cup DOMAIN memory
      /\ \A r \in DOMAIN after : after[r] = IF r \in DOMAIN Empty THEN Empty[r] ELSE memory[r]
  BY <1>4 DEF Write
<1>7. DOMAIN outputs = DOMAIN t.sends /\ \A i \in DOMAIN t.sends : outputs[i] = Build(t.sends[i], before, n)
  BY <1>1
<1>8. \A i \in DOMAIN t.sends : Gives(outputs[i], t.sends[i], Empty)
  BY <1>5, <1>7, BuildGives
<1> HIDE DEF before, after, outputs
<1>9. Steps(t, Empty)
  BY <1>3, <1>4, <1>6, StepSteps
<1>10. \A i \in DOMAIN t.sends : outputs[i].protocol = t.sends[i].protocol
  BY <1>8 DEF Gives
<1>11. mails' = mails
  <2>1. {j \in DOMAIN outputs : outputs[j].protocol = "email"} = {}
    BY <1>7, <1>10
  <2> QED BY <1>3, <2>1
<1>12. Started(outputs) = <<StartOf(outputs[k])>>
  BY <1>7, <1>10, OneStarted DEF IsStart
<1>13. Replied(t, n.about) = protocols
  BY DEF Replied, Said
<1>14. protocols' = Append(protocols, StartOf(outputs[k]))
  <2>1. protocols \in Seq(Protocols)
    BY DEF Typed
  <2> QED BY <1>3, <1>12, <1>13, <2>1
<1> QED BY <1>3, <1>7, <1>8, <1>9, <1>11, <1>14
-----------------------------------------------------------------------------
(* Which transition is fired.                                                *)

\* What is fired by a status is the first transition that it triggers.
LEMMA FirstTriggered ==
  ASSUME NEW n, NEW k \in Nat, DOMAIN Transitions = 1 .. k, Triggered(n) # {}
  PROVE  /\ FirstOf(Triggered(n)) \in 1 .. k
         /\ Transitions[FirstOf(Triggered(n))].trigger.protocol = n.protocol
         /\ Triggers(Transitions[FirstOf(Triggered(n))].trigger, n)
<1>1. Triggered(n) \subseteq Nat
  BY DEF Triggered
<1>2. FirstOf(Triggered(n)) \in Triggered(n)
  BY <1>1, FirstIsLeast
<1> QED BY <1>2 DEF Triggered

\* In a state with one transition it is that one.
LEMMA OnlyTransition ==
  ASSUME NEW n, NEW t, Transitions = <<t>>, Triggered(n) # {}
  PROVE  /\ Transitions[FirstOf(Triggered(n))] = t
         /\ t.trigger.protocol = n.protocol /\ Triggers(t.trigger, n)
<1>1. DOMAIN Transitions = 1 .. 1 /\ Transitions[1] = t
  OBVIOUS
<1>2. FirstOf(Triggered(n)) = 1
  BY <1>1, FirstTriggered
<1> QED BY <1>1, <1>2, FirstTriggered

\* What the email issuer does with a status, state by state.
LEMMA IssuerHears ==
  ASSUME Typed, machine = EmailIssuerMachine, NEW n, StatusSteps(n)
  PROVE  LET t == Transitions[FirstOf(Triggered(n))]
             writes == InputWrites(t, n)
         IN  \/ /\ current = "IDLE" /\ n.protocol = "basic_message" /\ writes = Empty
                /\ t.sends = <<Says>> /\ t.target = "WAITING_EMAIL_ADDRESS"
             \/ /\ current = "WAITING_EMAIL_ADDRESS" /\ n.protocol = "basic_message"
                /\ writes = Save("EMAIL", n.about)
                /\ t.sends = <<Formats({"EMAIL"}), Event("email", "GEN_PIN", {"EMAIL", "PIN"})>>
                /\ t.target = "WAITING_EMAIL_PIN"
             \/ /\ current = "WAITING_EMAIL_PIN" /\ n.protocol = "basic_message" /\ writes = Empty
                /\ \/ t.sends = <<Says>> /\ t.target = "WAITING_EMAIL_ADDRESS"
                   \/ t.sends = <<Formats({"EMAIL"})>> /\ t.target = "WAITING_EMAIL_PIN"
                   \/ /\ Register("PIN") = n.about
                      /\ t.sends = <<Formats({"EMAIL"}), Event("issue_cred", "FORMAT_MEM", {"EMAIL"})>>
                      /\ t.target = "WAITING_ISSUING_STATUS"
             \/ /\ current = "WAITING_ISSUING_STATUS" /\ n.protocol = "issue_cred" /\ writes = Empty
                /\ t.sends = <<Formats({"EMAIL"})>> /\ t.target = "IDLE"
<1> DEFINE i == FirstOf(Triggered(n))
           t == Transitions[i]
<1>1. Triggered(n) # {}
  BY DEF StatusSteps
<1>2. Transitions = EmailIssuerMachine.states[current]
      /\ current \in {"IDLE", "WAITING_EMAIL_ADDRESS", "WAITING_EMAIL_PIN", "WAITING_ISSUING_STATUS"}
  BY IssuerStates DEF Transitions, Typed
<1>3. CASE current = "IDLE"
  <2> DEFINE tr == Transition(Hears("", ""), <<Says>>, "WAITING_EMAIL_ADDRESS")
  <2>1. Transitions = <<tr>>
    BY <1>2, <1>3, IssuerStates
  <2>2. /\ tr.trigger.protocol = "basic_message" /\ tr.trigger.rule = ""
        /\ tr.sends = <<Says>> /\ tr.target = "WAITING_EMAIL_ADDRESS"
    BY DEF Transition, Hears, Event
  <2> HIDE DEF t, tr
  <2>3. t = tr /\ t.trigger.protocol = n.protocol
    BY <1>1, <2>1, OnlyTransition DEF t
  <2>4. InputWrites(t, n) = Empty
    BY <2>2, <2>3 DEF InputWrites
  <2> QED BY <1>3, <2>2, <2>3, <2>4 DEF t
<1>4. CASE current = "WAITING_EMAIL_ADDRESS"
  <2> DEFINE tr == Transition(Hears("INPUT_SAVE", "EMAIL"),
                     <<Formats({"EMAIL"}), Event("email", "GEN_PIN", {"EMAIL", "PIN"})>>, "WAITING_EMAIL_PIN")
  <2>1. Transitions = <<tr>>
    BY <1>2, <1>4, IssuerStates
  <2>2. /\ tr.trigger.protocol = "basic_message" /\ tr.trigger.rule = "INPUT_SAVE" /\ tr.trigger.data = "EMAIL"
        /\ tr.sends = <<Formats({"EMAIL"}), Event("email", "GEN_PIN", {"EMAIL", "PIN"})>>
        /\ tr.target = "WAITING_EMAIL_PIN"
    BY DEF Transition, Hears, Event
  <2> HIDE DEF t, tr
  <2>3. t = tr /\ t.trigger.protocol = n.protocol
    BY <1>1, <2>1, OnlyTransition DEF t
  <2>4. InputWrites(t, n) = Save("EMAIL", n.about)
    BY <2>2, <2>3 DEF InputWrites
  <2> QED BY <1>4, <2>2, <2>3, <2>4 DEF t
<1>5. CASE current = "WAITING_EMAIL_PIN"
  <2> DEFINE t1 == Transition(Hears("INPUT_EQUAL", "reset"), <<Says>>, "WAITING_EMAIL_ADDRESS")
             t2 == Transition(Hears("INPUT_VALIDATE_NOT_EQUAL", "PIN"), <<Formats({"EMAIL"})>>, "WAITING_EMAIL_PIN")
             t3 == Transition(Hears("INPUT_VALIDATE_EQUAL", "PIN"),
                     <<Formats({"EMAIL"}), Event("issue_cred", "FORMAT_MEM", {"EMAIL"})>>, "WAITING_ISSUING_STATUS")
  <2>1. Transitions = <<t1, t2, t3>>
    BY <1>2, <1>5, IssuerStates
  <2>2. DOMAIN Transitions = 1 .. 3
    BY <2>1
  <2>3. i \in 1 .. 3 /\ t.trigger.protocol = n.protocol /\ Triggers(t.trigger, n)
    BY <1>1, <2>2, FirstTriggered
  <2>4. t \in {t1, t2, t3}
    BY <2>1, <2>3
  <2>5. /\ t1.trigger.protocol = "basic_message" /\ t1.trigger.rule = "INPUT_EQUAL"
        /\ t1.sends = <<Says>> /\ t1.target = "WAITING_EMAIL_ADDRESS"
    BY DEF Transition, Hears, Event
  <2>6. /\ t2.trigger.protocol = "basic_message" /\ t2.trigger.rule = "INPUT_VALIDATE_NOT_EQUAL"
        /\ t2.sends = <<Formats({"EMAIL"})>> /\ t2.target = "WAITING_EMAIL_PIN"
    BY DEF Transition, Hears, Event
  <2>7. /\ t3.trigger.protocol = "basic_message" /\ t3.trigger.rule = "INPUT_VALIDATE_EQUAL"
        /\ t3.trigger.data = "PIN" /\ t3.target = "WAITING_ISSUING_STATUS"
        /\ t3.sends = <<Formats({"EMAIL"}), Event("issue_cred", "FORMAT_MEM", {"EMAIL"})>>
    BY DEF Transition, Hears, Event
  <2> HIDE DEF t, t1, t2, t3
  <2>8. n.protocol = "basic_message" /\ InputWrites(t, n) = Empty
    BY <2>3, <2>4, <2>5, <2>6, <2>7 DEF InputWrites
  <2>9. t = t3 => Register("PIN") = n.about
    BY <2>3, <2>7, <2>8 DEF Triggers
  <2> QED BY <1>5, <2>4, <2>5, <2>6, <2>7, <2>8, <2>9 DEF t
<1>6. CASE current = "WAITING_ISSUING_STATUS"
  <2> DEFINE tr == Transition(Event("issue_cred", "OUR_STATUS", ""), <<Formats({"EMAIL"})>>, "IDLE")
  <2>1. Transitions = <<tr>>
    BY <1>2, <1>6, IssuerStates
  <2>2. /\ tr.trigger.protocol = "issue_cred" /\ tr.trigger.rule = "OUR_STATUS"
        /\ tr.sends = <<Formats({"EMAIL"})>> /\ tr.target = "IDLE"
    BY DEF Transition, Event
  <2> HIDE DEF t, tr
  <2>3. t = tr /\ t.trigger.protocol = n.protocol
    BY <1>1, <2>1, OnlyTransition DEF t
  <2>4. InputWrites(t, n) = Empty
    BY <2>2, <2>3 DEF InputWrites
  <2> QED BY <1>6, <2>2, <2>3, <2>4 DEF t
<1> QED BY <1>2, <1>3, <1>4, <1>5, <1>6

\* The echo machine says something and stays, or goes to its other state.
LEMMA EchoHears ==
  ASSUME Typed, machine = EchoMachine, NEW n, StatusSteps(n)
  PROVE  LET t == Transitions[FirstOf(Triggered(n))]
         IN  /\ InputWrites(t, n) = Empty /\ t.target \in {"INITIAL", "IDLE"}
             /\ t.sends = <<Says>> \/ t.sends = <<Event("basic_message", "INPUT", {})>>
<1> DEFINE t == Transitions[FirstOf(Triggered(n))]
           t1 == Transition(Event("connection", "", ""), <<Says>>, "INITIAL")
           t2 == Transition(Hears("INPUT_EQUAL", "run"), <<Says>>, "IDLE")
           t3 == Transition(Hears("", ""), <<Says>>, "INITIAL")
           t4 == Transition(Hears("INPUT_EQUAL", "reset"), <<Says>>, "INITIAL")
           t5 == Transition(Hears("INPUT", ""), <<Event("basic_message", "INPUT", {})>>, "IDLE")
<1>1. Triggered(n) # {}
  BY DEF StatusSteps
<1>2. Transitions = EchoMachine.states[current] /\ current \in {"INITIAL", "IDLE"}
  BY EchoStates DEF Transitions, Typed
<1>3. Transitions = <<t1, t2, t3>> \/ Transitions = <<t4, t5>>
  BY <1>2, EchoStates
<1>4. /\ t1.trigger.rule = "" /\ t1.sends = <<Says>> /\ t1.target = "INITIAL"
      /\ t2.trigger.rule = "INPUT_EQUAL" /\ t2.sends = <<Says>> /\ t2.target = "IDLE"
      /\ t3.trigger.rule = "" /\ t3.sends = <<Says>> /\ t3.target = "INITIAL"
      /\ t4.trigger.rule = "INPUT_EQUAL" /\ t4.sends = <<Says>> /\ t4.target = "INITIAL"
      /\ t5.trigger.rule = "INPUT" /\ t5.target = "IDLE"
      /\ t5.sends = <<Event("basic_message", "INPUT", {})>>
  BY DEF Transition, Hears, Event
<1> HIDE DEF t, t1, t2, t3, t4, t5
<1>5. t \in {t1, t2, t3, t4, t5}
  <2>1. CASE Transitions = <<t1, t2, t3>>
    <3>1. DOMAIN Transitions = 1 .. 3
      BY <2>1
    <3>2. FirstOf(Triggered(n)) \in 1 .. 3
      BY <1>1, <3>1, FirstTriggered
    <3> QED BY <2>1, <3>2 DEF t
  <2>2. CASE Transitions = <<t4, t5>>
    <3>1. DOMAIN Transitions = 1 .. 2
      BY <2>2
    <3>2. FirstOf(Triggered(n)) \in 1 .. 2
      BY <1>1, <3>1, FirstTriggered
    <3> QED BY <2>2, <3>2 DEF t
  <2> QED BY <1>3, <2>1, <2>2
<1>6. t.trigger.rule # "INPUT_SAVE" /\ t.target \in {"INITIAL", "IDLE"}
      /\ (t.sends = <<Says>> \/ t.sends = <<Event("basic_message", "INPUT", {})>>)
  BY <1>4, <1>5
<1>7. InputWrites(t, n) = Empty
  BY <1>6 DEF InputWrites
<1> QED BY <1>6, <1>7 DEF t

\* What the proof machine does with a status.  A status of a proof while the
\* question about one is open declines, since that trigger comes first.
LEMMA ProverHears ==
  ASSUME Typed, machine = ReqProofMachine, NEW n, StatusSteps(n)
  PROVE  LET t == Transitions[FirstOf(Triggered(n))]
             writes == InputWrites(t, n)
         IN  \/ t.sends = <<Says>> /\ t.target = "INITIAL" /\ writes = Empty
             \/ /\ current = "INITIAL" /\ t.sends = <<Event("present_proof", "", {})>>
                /\ t.target = "WAITING_EMAIL_PROOF_QA" /\ writes = Empty
             \/ /\ current = "WAITING_EMAIL_PROOF_QA" /\ n.protocol = "present_proof"
                /\ t.sends = <<Event("answer", "", "NACK")>> /\ t.target = "INITIAL" /\ writes = Empty
             \/ /\ current = "WAITING2_EMAIL_PROOF" /\ t.sends = <<Formats({"email"})>>
                /\ t.target = "WAITING_NEXT_CMD" /\ writes = Empty
             \/ /\ current = "WAITING_NEXT_CMD" /\ n.protocol = "basic_message"
                /\ t.sends = <<Formats({"email", "LINE"})>> /\ t.target = "WAITING_NEXT_CMD"
                /\ writes = Save("LINE", n.about)
<1> DEFINE i == FirstOf(Triggered(n))
           t == Transitions[i]
<1>1. Triggered(n) # {}
  BY DEF StatusSteps
<1>2. Transitions = ReqProofMachine.states[current]
      /\ current \in {"INITIAL", "WAITING_EMAIL_PROOF_QA", "WAITING2_EMAIL_PROOF", "WAITING_NEXT_CMD"}
  BY ProverStates DEF Transitions, Typed
<1>3. CASE current = "INITIAL"
  <2> DEFINE t1 == Transition(Event("connection", "", ""), <<Says>>, "INITIAL")
             t2 == Transition(Hears("", ""), <<Event("present_proof", "", {})>>, "WAITING_EMAIL_PROOF_QA")
  <2>1. Transitions = <<t1, t2>>
    BY <1>2, <1>3, ProverStates
  <2>2. /\ t1.trigger.rule = "" /\ t1.sends = <<Says>> /\ t1.target = "INITIAL"
        /\ t2.trigger.rule = "" /\ t2.sends = <<Event("present_proof", "", {})>>
        /\ t2.target = "WAITING_EMAIL_PROOF_QA"
    BY DEF Transition, Hears, Event
  <2> HIDE DEF t, t1, t2
  <2>3. DOMAIN Transitions = 1 .. 2
    BY <2>1
  <2>4. i \in 1 .. 2
    BY <1>1, <2>3, FirstTriggered
  <2>5. t \in {t1, t2}
    BY <2>1, <2>4 DEF t
  <2>6. InputWrites(t, n) = Empty
    BY <2>2, <2>5 DEF InputWrites
  <2> QED BY <1>3, <2>2, <2>5, <2>6 DEF t
<1>4. CASE current = "WAITING_EMAIL_PROOF_QA"
  <2> DEFINE t1 == Transition(Hears("INPUT_EQUAL", "reset"), <<Says>>, "INITIAL")
             t2 == Transition(Event("present_proof", "NOT_ACCEPT_VALUES", <<EmailAttribute>>),
                     <<Event("answer", "", "NACK")>>, "INITIAL")
             t3 == Transition(Event("present_proof", "ACCEPT_AND_INPUT_VALUES", <<EmailAttribute>>),
                     <<Event("answer", "", "ACK")>>, "WAITING2_EMAIL_PROOF")
  <2>1. Transitions = <<t1, t2, t3>>
    BY <1>2, <1>4, ProverStates
  <2>2. /\ t1.trigger.protocol = "basic_message" /\ t1.trigger.rule = "INPUT_EQUAL"
        /\ t1.sends = <<Says>> /\ t1.target = "INITIAL"
        /\ t2.trigger.protocol = "present_proof" /\ t2.trigger.rule = "NOT_ACCEPT_VALUES"
        /\ t2.sends = <<Event("answer", "", "NACK")>> /\ t2.target = "INITIAL"
        /\ t3.trigger.protocol = "present_proof"
    BY DEF Transition, Hears, Event
  <2> HIDE DEF t, i, t1, t2, t3
  <2>3. DOMAIN Transitions = 1 .. 3 /\ Transitions[2] = t2 /\ Transitions[3] = t3
    BY <2>1
  <2>4. i \in 1 .. 3 /\ t.trigger.protocol = n.protocol
    BY <1>1, <2>3, FirstTriggered DEF i, t
  <2>5. i # 3
    <3>1. SUFFICES ASSUME i = 3 PROVE FALSE
      OBVIOUS
    <3>2. n.protocol = "present_proof"
      BY <2>2, <2>3, <2>4, <3>1 DEF t
    <3>3. Triggers(Transitions[2].trigger, n)
      BY <3>2 DEF Triggers
    <3>4. Transitions[2].trigger.protocol = n.protocol
      BY <2>2, <2>3, <3>2
    <3>5. 2 \in Triggered(n)
      BY <2>3, <3>3, <3>4 DEF Triggered
    <3>6. Triggered(n) \subseteq Nat
      BY <2>3 DEF Triggered
    <3>7. i <= 2
      BY <3>5, <3>6, FirstIsLeast DEF i
    <3> QED BY <3>1, <3>7
  <2>6. t \in {t1, t2}
    BY <2>1, <2>4, <2>5 DEF t
  <2>7. InputWrites(t, n) = Empty
    BY <2>2, <2>6 DEF InputWrites
  <2> QED BY <1>4, <2>2, <2>4, <2>6, <2>7 DEF t, i
<1>5. CASE current = "WAITING2_EMAIL_PROOF"
  <2> DEFINE tr == Transition(Event("present_proof", "", ""), <<Formats({"email"})>>, "WAITING_NEXT_CMD")
  <2>1. Transitions = <<tr>>
    BY <1>2, <1>5, ProverStates
  <2>2. /\ tr.trigger.rule = "" /\ tr.sends = <<Formats({"email"})>> /\ tr.target = "WAITING_NEXT_CMD"
    BY DEF Transition, Event
  <2> HIDE DEF t, tr
  <2>3. t = tr
    BY <1>1, <2>1, OnlyTransition DEF t
  <2>4. InputWrites(t, n) = Empty
    BY <2>2, <2>3 DEF InputWrites
  <2> QED BY <1>5, <2>2, <2>3, <2>4 DEF t
<1>6. CASE current = "WAITING_NEXT_CMD"
  <2> DEFINE t1 == Transition(Hears("INPUT_EQUAL", "reset"), <<Says>>, "INITIAL")
             t2 == Transition(Hears("INPUT_SAVE", "LINE"), <<Formats({"email", "LINE"})>>, "WAITING_NEXT_CMD")
  <2>1. Transitions = <<t1, t2>>
    BY <1>2, <1>6, ProverStates
  <2>2. /\ t1.trigger.rule = "INPUT_EQUAL" /\ t1.sends = <<Says>> /\ t1.target = "INITIAL"
        /\ t2.trigger.protocol = "basic_message" /\ t2.trigger.rule = "INPUT_SAVE" /\ t2.trigger.data = "LINE"
        /\ t2.sends = <<Formats({"email", "LINE"})>> /\ t2.target = "WAITING_NEXT_CMD"
    BY DEF Transition, Hears, Event
  <2> HIDE DEF t, t1, t2
  <2>3. DOMAIN Transitions = 1 .. 2
    BY <2>1
  <2>4. i \in 1 .. 2 /\ t.trigger.protocol = n.protocol
    BY <1>1, <2>3, FirstTriggered DEF t
  <2>5. t \in {t1, t2}
    BY <2>1, <2>4 DEF t
  <2>6. t = t1 => InputWrites(t, n) = Empty
    BY <2>2 DEF InputWrites
  <2>7. t = t2 => InputWrites(t, n) = Save("LINE", n.about) /\ n.protocol = "basic_message"
    BY <2>2, <2>4 DEF InputWrites
  <2> QED BY <1>6, <2>2, <2>5, <2>6, <2>7 DEF t
<1> QED BY <1>2, <1>3, <1>4, <1>5, <1>6
-----------------------------------------------------------------------------
(* What a question fires (Answers of event.go).                              *)

\* The attribute that was asked for, revealed and nothing else, is accepted,
\* and everything else is not.
LEMMA AcceptsOne ==
  ASSUME NEW given \in Revealed, ~NotAccepted(<<EmailAttribute>>, given)
  PROVE  /\ \E a \in Addresses : given = <<Attribute(EmailAttribute.name, EmailAttribute.credDefId, a)>>
         /\ Cardinality(Named(<<EmailAttribute>>, given)) = Len(given)
<1> DEFINE wanted == <<EmailAttribute>>
<1>1. Len(wanted) = 1 /\ DOMAIN wanted = {1} /\ wanted[1] = EmailAttribute
  OBVIOUS
<1> HIDE DEF wanted
<1>2. Len(given) = 1
        /\ \A i \in DOMAIN wanted : \E j \in DOMAIN given :
             given[j].name = wanted[i].name /\ given[j].credDefId = wanted[i].credDefId
  BY <1>1 DEF NotAccepted, wanted
<1>3. PICK j \in DOMAIN given : given[j].name = EmailAttribute.name /\ given[j].credDefId = EmailAttribute.credDefId
  BY <1>1, <1>2
<1>4. EmailAttribute.name = "email" /\ EmailAttribute.credDefId = "my-schema"
  BY DEF EmailAttribute
<1>5. PICK a \in Addresses : given = <<Attribute(EmailAttribute.name, EmailAttribute.credDefId, a)>>
  <2>1. given # <<>>
    BY <1>2
  <2>2. CASE \E a \in Own : given = <<Attribute(EmailAttribute.name, "other-schema", a)>>
    <3>1. PICK a \in Own : given = <<Attribute(EmailAttribute.name, "other-schema", a)>>
      BY <2>2
    <3>2. DOMAIN given = {1} /\ given[1].credDefId = "other-schema"
      BY <3>1 DEF Attribute
    <3> QED BY <1>3, <1>4, <3>2
  <2>3. CASE \E a \in Own : given = <<Attribute("phone", EmailAttribute.credDefId, a)>>
    <3>1. PICK a \in Own : given = <<Attribute("phone", EmailAttribute.credDefId, a)>>
      BY <2>3
    <3>2. DOMAIN given = {1} /\ given[1].name = "phone"
      BY <3>1 DEF Attribute
    <3> QED BY <1>3, <1>4, <3>2
  <2> QED BY <2>1, <2>2, <2>3 DEF Revealed
<1>6. DOMAIN given = {1} /\ given[1].name = EmailAttribute.name
  BY <1>5 DEF Attribute
<1>7. Named(wanted, given) = {<<1, 1>>}
  BY <1>1, <1>6 DEF Named
<1>8. Cardinality({<<1, 1>>}) = 1
  BY FS_Singleton
<1> QED BY <1>2, <1>5, <1>7, <1>8 DEF wanted

\* Only a machine that asks for proofs has triggers for a question, and only in
\* two states.
LEMMA AnswersNothing ==
  ASSUME NEW given, \A i \in DOMAIN Transitions : Transitions[i].trigger.protocol # "present_proof",
         \A i \in DOMAIN Transitions : Transitions[i].trigger.rule # "ACCEPT_AND_INPUT_VALUES"
  PROVE  ~Panics(given) /\ Answering(given) = {} /\ AnswerWrites(given) = Empty
<1>1. ~Panics(given) /\ Answering(given) = {}
  BY DEF Panics, Answering
<1>2. AnswerWrites(given) = [r \in {} |-> {}]
  BY DEF AnswerWrites
<1>3. Empty = [r \in {} |-> {}]
  BY DEF Empty
<1> QED BY <1>1, <1>2, <1>3

\* What the proof machine does with a question, state by state: the proof it
\* asks for is what it stores.
LEMMA ProverAnswers ==
  ASSUME Typed, machine = ReqProofMachine, NEW given \in Revealed
  PROVE  LET t == Transitions[FirstOf(Answering(given))]
         IN  \/ Panics(given) /\ current = "WAITING2_EMAIL_PROOF"
             \/ /\ ~Panics(given) /\ Answering(given) # {} /\ current = "WAITING_EMAIL_PROOF_QA"
                /\ \/ t.sends = <<Event("answer", "", "NACK")>> /\ t.target = "INITIAL"
                      /\ DOMAIN AnswerWrites(given) = {}
                   \/ /\ t.sends = <<Event("answer", "", "ACK")>> /\ t.target = "WAITING2_EMAIL_PROOF"
                      /\ \E a \in Addresses :
                           /\ given = <<Attribute(EmailAttribute.name, EmailAttribute.credDefId, a)>>
                           /\ AnswerWrites(given) = Save("email", a)
             \/ ~Panics(given) /\ Answering(given) = {} /\ DOMAIN AnswerWrites(given) = {}
<1> DEFINE t == Transitions[FirstOf(Answering(given))]
<1>1. Transitions = ReqProofMachine.states[current]
      /\ current \in {"INITIAL", "WAITING_EMAIL_PROOF_QA", "WAITING2_EMAIL_PROOF", "WAITING_NEXT_CMD"}
  BY ProverStates DEF Transitions, Typed
<1>2. DOMAIN Empty = {}
  BY DEF Empty
<1>3. CASE current = "INITIAL"
  <2> DEFINE t1 == Transition(Event("connection", "", ""), <<Says>>, "INITIAL")
             t2 == Transition(Hears("", ""), <<Event("present_proof", "", {})>>, "WAITING_EMAIL_PROOF_QA")
  <2>1. Transitions = <<t1, t2>>
    BY <1>1, <1>3, ProverStates
  <2>2. /\ t1.trigger.protocol = "connection" /\ t1.trigger.rule = ""
        /\ t2.trigger.protocol = "basic_message" /\ t2.trigger.rule = ""
    BY DEF Transition, Hears, Event
  <2> HIDE DEF t1, t2
  <2>3. \A i \in DOMAIN Transitions : Transitions[i] \in {t1, t2}
    BY <2>1
  <2> QED BY <1>2, <2>2, <2>3, AnswersNothing
<1>4. CASE current = "WAITING_NEXT_CMD"
  <2> DEFINE t1 == Transition(Hears("INPUT_EQUAL", "reset"), <<Says>>, "INITIAL")
             t2 == Transition(Hears("INPUT_SAVE", "LINE"), <<Formats({"email", "LINE"})>>, "WAITING_NEXT_CMD")
  <2>1. Transitions = <<t1, t2>>
    BY <1>1, <1>4, ProverStates
  <2>2. /\ t1.trigger.protocol = "basic_message" /\ t1.trigger.rule = "INPUT_EQUAL"
        /\ t2.trigger.protocol = "basic_message" /\ t2.trigger.rule = "INPUT_SAVE"
    BY DEF Transition, Hears, Event
  <2> HIDE DEF t1, t2
  <2>3. \A i \in DOMAIN Transitions : Transitions[i] \in {t1, t2}
    BY <2>1
  <2> QED BY <1>2, <2>2, <2>3, AnswersNothing
<1>5. CASE current = "WAITING2_EMAIL_PROOF"
  <2> DEFINE tr == Transition(Event("present_proof", "", ""), <<Formats({"email"})>>, "WAITING_NEXT_CMD")
  <2>1. Transitions = <<tr>>
    BY <1>1, <1>5, ProverStates
  <2>2. tr.trigger.protocol = "present_proof" /\ tr.trigger.rule = ""
    BY DEF Transition, Event
  <2> HIDE DEF tr
  <2>3. DOMAIN Transitions = {1} /\ Transitions[1] = tr
    BY <2>1
  <2>4. Answering(given) = {}
    BY <2>2, <2>3 DEF Answering, Answers
  <2>5. Panics(given)
    BY <2>2, <2>3, <2>4 DEF Panics, Readable
  <2> QED BY <1>5, <2>5
<1>6. CASE current = "WAITING_EMAIL_PROOF_QA"
  <2> DEFINE wanted == <<EmailAttribute>>
             t1 == Transition(Hears("INPUT_EQUAL", "reset"), <<Says>>, "INITIAL")
             t2 == Transition(Event("present_proof", "NOT_ACCEPT_VALUES", wanted),
                     <<Event("answer", "", "NACK")>>, "INITIAL")
             t3 == Transition(Event("present_proof", "ACCEPT_AND_INPUT_VALUES", wanted),
                     <<Event("answer", "", "ACK")>>, "WAITING2_EMAIL_PROOF")
  <2>1. Transitions = <<t1, t2, t3>>
    BY <1>1, <1>6, ProverStates
  <2>2. /\ t1.trigger.protocol = "basic_message" /\ t1.trigger.rule = "INPUT_EQUAL"
        /\ t2.trigger.protocol = "present_proof" /\ t2.trigger.rule = "NOT_ACCEPT_VALUES"
        /\ t2.trigger.data = wanted
        /\ t2.sends = <<Event("answer", "", "NACK")>> /\ t2.target = "INITIAL"
        /\ t3.trigger.protocol = "present_proof" /\ t3.trigger.rule = "ACCEPT_AND_INPUT_VALUES"
        /\ t3.trigger.data = wanted
        /\ t3.sends = <<Event("answer", "", "ACK")>> /\ t3.target = "WAITING2_EMAIL_PROOF"
    BY DEF Transition, Hears, Event
  <2>3. DOMAIN wanted = {1} /\ wanted[1].name = "email" /\ EmailAttribute.name = "email"
    BY DEF EmailAttribute
  <2> HIDE DEF t, t1, t2, t3, wanted
  <2>4. DOMAIN Transitions = 1 .. 3 /\ Transitions[1] = t1 /\ Transitions[2] = t2 /\ Transitions[3] = t3
        /\ 1 .. 3 = {1, 2, 3}
    BY <2>1
  <2> DEFINE Accepts(i) == Transitions[i].trigger.rule = "ACCEPT_AND_INPUT_VALUES"
  <2>5. ~Accepts(1) /\ ~Accepts(2) /\ Accepts(3) /\ Transitions[3].trigger.data = wanted
    BY <2>2, <2>4
  <2>6. \A i \in DOMAIN Transitions : Accepts(i) <=> i = 3
    BY <2>4, <2>5
  <2> HIDE DEF Accepts
  <2>7. ~Panics(given)
    BY <2>2, <2>4 DEF Panics, Readable
  <2>8. 1 \notin Answering(given) /\ (2 \in Answering(given) <=> NotAccepted(wanted, given))
        /\ Answering(given) \subseteq {1, 2, 3}
    BY <2>2, <2>4 DEF Answering, Answers
  <2>9. CASE NotAccepted(wanted, given)
    <3>1. FirstOf(Answering(given)) = 2
      <4>1. FirstOf(Answering(given)) \in Answering(given) /\ FirstOf(Answering(given)) <= 2
        BY <2>8, <2>9, FirstIsLeast
      <4> QED BY <2>8, <4>1
    <3>2. \A i \in DOMAIN Transitions : Accepts(i) => ~(\A j \in Answering(given) : i <= j)
      BY <2>8, <2>9, <2>6
    <3>3. DOMAIN AnswerWrites(given) = {}
      BY <3>2 DEF AnswerWrites, Accepts
    <3> QED BY <1>6, <2>2, <2>4, <2>7, <2>8, <2>9, <3>1, <3>3 DEF t
  <2>10. CASE ~NotAccepted(wanted, given)
    <3>1. PICK a \in Addresses : given = <<Attribute(EmailAttribute.name, EmailAttribute.credDefId, a)>>
      BY <2>10, AcceptsOne DEF wanted
    <3>2. 3 \in Answering(given)
      <4>1. Cardinality(Named(wanted, given)) = Len(given)
        BY <2>10, AcceptsOne DEF wanted
      <4> QED BY <2>2, <2>4, <4>1 DEF Answering, Answers
    <3>3. Answering(given) = {3}
      BY <2>8, <2>10, <3>2
    <3>4. FirstOf(Answering(given)) = 3
      BY <3>3, FirstIsLeast
    <3>5. DOMAIN given = {1} /\ given[1].name = "email" /\ given[1].value = a
      BY <2>3, <3>1 DEF Attribute
    <3>6. AnswerWrites(given) = Save("email", a)
      <4> DEFINE asked == {i \in DOMAIN Transitions :
                             /\ Transitions[i].trigger.rule = "ACCEPT_AND_INPUT_VALUES"
                             /\ \A j \in Answering(given) : i <= j}
                 stored == {j \in DOMAIN given :
                              \E i \in asked : \E w \in DOMAIN Transitions[i].trigger.data :
                                Transitions[i].trigger.data[w].name = given[j].name}
      <4>1. asked = {3}
        <5>1. asked = {i \in DOMAIN Transitions : Accepts(i) /\ \A j \in {3} : i <= j}
          BY <3>3 DEF Accepts
        <5> QED BY <2>4, <2>6, <5>1
      <4>2. stored = {1}
        <5>1. stored = {j \in DOMAIN given : \E w \in DOMAIN wanted : wanted[w].name = given[j].name}
          BY <2>5, <4>1
        <5> QED BY <2>3, <3>5, <5>1
      <4>3. AnswerWrites(given) = [r \in {given[j].name : j \in stored} |->
                                    given[CHOOSE j \in stored : given[j].name = r].value]
        BY DEF AnswerWrites
      <4> HIDE DEF asked, stored
      <4>4. {given[j].name : j \in stored} = {"email"} /\ (CHOOSE j \in stored : given[j].name = "email") = 1
        BY <3>5, <4>2
      <4>5. \A r \in {"email"} : given[CHOOSE j \in stored : given[j].name = r].value = a
        BY <3>5, <4>4
      <4>6. AnswerWrites(given) = [r \in {"email"} |-> a]
        BY <4>3, <4>4, <4>5
      <4> QED BY <4>6 DEF Save
    <3> QED BY <1>6, <2>2, <2>4, <2>7, <3>1, <3>3, <3>4, <3>6 DEF t
  <2> QED BY <2>9, <2>10
<1> QED BY <1>1, <1>3, <1>4, <1>5, <1>6
-----------------------------------------------------------------------------
(* The parts of a step that the machines share.                              *)

\* A handler takes a notification: those behind it keep their order.
Receives ==
  /\ ~panicked /\ statuses # <<>> /\ statuses' = Tail(statuses)
  /\ UNCHANGED <<machine, questions, foreign, panicked>>

\* The statuses that are left, and the one that was taken.
LEMMA Received ==
  ASSUME Typed, statuses # <<>>, statuses' = Tail(statuses)
  PROVE  /\ statuses' \in Seq(Statuses) /\ Len(statuses') <= MaxQueue
         /\ 1 \in DOMAIN statuses /\ Head(statuses) = statuses[1] /\ Head(statuses) \in Statuses
         /\ \A i \in DOMAIN statuses' :
              i \in Nat /\ 1 < i + 1 /\ i + 1 \in DOMAIN statuses /\ statuses'[i] = statuses[i + 1]
<1>1. statuses \in Seq(Statuses) /\ Len(statuses) <= MaxQueue /\ MaxQueue \in Nat
  BY BoundsAssumption DEF Typed
<1>2. Len(statuses) \in Nat /\ Len(statuses) # 0 /\ DOMAIN statuses = 1 .. Len(statuses)
  BY <1>1
<1>3. statuses' \in Seq(Statuses) /\ Len(statuses') = Len(statuses) - 1
      /\ \A i \in 1 .. Len(statuses') : statuses'[i] = statuses[i + 1]
  BY <1>1, <1>2
<1>4. Head(statuses) = statuses[1] /\ statuses[1] \in Statuses
  BY <1>1, <1>2
<1> QED BY <1>1, <1>2, <1>3, <1>4

\* A notification is put behind those that wait.
LEMMA Notified ==
  ASSUME Typed, NEW status \in Statuses, Notify(status)
  PROVE  /\ statuses' \in Seq(Statuses) /\ Len(statuses') <= MaxQueue
         /\ \A i \in DOMAIN statuses' :
              \/ i \in DOMAIN statuses /\ statuses'[i] = statuses[i]
              \/ statuses'[i] = status /\ i = Len(statuses')
<1>1. statuses \in Seq(Statuses) /\ Len(statuses) < MaxQueue /\ MaxQueue \in Nat
      /\ statuses' = Append(statuses, status)
  BY BoundsAssumption DEF Typed, Notify
<1>2. Len(statuses) \in Nat /\ DOMAIN statuses = 1 .. Len(statuses)
  BY <1>1
<1>3. statuses' \in Seq(Statuses) /\ Len(statuses') = Len(statuses) + 1
      /\ \A i \in 1 .. Len(statuses') : statuses'[i] = IF i = Len(statuses) + 1 THEN status ELSE statuses[i]
  BY <1>1
<1> QED BY <1>1, <1>2, <1>3

\* What was said and what is about a protocol, of the notifications there are.
LEMMA StatusKinds ==
  ASSUME NEW n \in Statuses
  PROVE  /\ n.protocol = "basic_message" => n.about \in Contents /\ n = Status("basic_message", n.about)
         /\ n.protocol \in {"basic_message", "connection", "issue_cred", "present_proof"}
BY DEF Statuses, Status, Kinds

\* The address a PIN was mailed to is no PIN, nor a word the user says.
LEMMA ContentsDiffer ==
  \A c \in Words \cup Addresses : c \notin Pins
BY BoundsAssumption DEF Addresses

\* The new memory holds what was remembered or written.
LEMMA StepsTyped ==
  ASSUME Typed, NEW t, t.target \in DOMAIN machine.states, machine' = machine, NEW values, Steps(t, values),
         DOMAIN values \subseteq Registers, \A r \in DOMAIN values : values[r] \in Contents
  PROVE  /\ current' \in DOMAIN machine'.states
         /\ DOMAIN memory' \subseteq Registers /\ \A r \in DOMAIN memory' : memory'[r] \in Contents
         /\ reported' \in BOOLEAN /\ session' \subseteq Registers
BY DEF Typed, Steps

\* A text answers no question.
LEMMA NoReply ==
  ASSUME NEW t, NEW send, t.sends = <<send>>, send.protocol # "answer", NEW about
  PROVE  Replied(t, about) = protocols
<1>1. DOMAIN t.sends = {1} /\ t.sends[1] = send
  OBVIOUS
<1> QED BY <1>1 DEF Replied, Said

\* No registers.
LEMMA EmptyRegisters ==
  DOMAIN Empty = {}
BY DEF Empty

\* A sequence of one element.
LEMMA OneElement ==
  ASSUME NEW s, NEW x, s = <<x>>
  PROVE  DOMAIN s = {1} /\ s[1] = x /\ Len(s) = 1
OBVIOUS

\* Nothing is sent.
LEMMA Silent ==
  ASSUME sent' = <<>>
  PROVE  SpeaksOfAccepted' /\ FormatsOwnSession'
<1>1. DOMAIN sent' = {}
  OBVIOUS
<1> QED BY <1>1 DEF SpeaksOfAccepted, FormatsOwnSession

\* One text is sent, whose template has these registers.
LEMMA OneText ==
  ASSUME NEW output, NEW send, NEW values, sent' = <<output>>, Gives(output, send, values),
         send.rule \in {"", "FORMAT_MEM", "INPUT"}
  PROVE  /\ send.rule # "FORMAT_MEM" \/ send.data \subseteq session' => FormatsOwnSession'
         /\ send.rule # "FORMAT_MEM" \/ "email" \notin send.data => SpeaksOfAccepted'
<1>1. DOMAIN sent' = {1} /\ sent'[1] = output
  BY OneElement
<1>2. DOMAIN Empty = {} /\ EmailAttribute.name = "email"
  BY EmptyRegisters DEF EmailAttribute
<1>3. output.rule = send.rule /\ DOMAIN output.data = IF send.rule = "FORMAT_MEM" THEN send.data
                                                       ELSE IF send.rule = "INPUT" THEN {"INPUT"} ELSE {}
  BY <1>2 DEF Gives
<1>4. ASSUME send.rule # "FORMAT_MEM" \/ send.data \subseteq session'
      PROVE  FormatsOwnSession'
  BY <1>1, <1>3, <1>4 DEF FormatsOwnSession
<1>5. ASSUME send.rule # "FORMAT_MEM" \/ "email" \notin send.data
      PROVE  SpeaksOfAccepted'
  BY <1>1, <1>2, <1>3, <1>5 DEF SpeaksOfAccepted
<1> QED BY <1>4, <1>5

\* What the invariant says of the parts that a status leaves alone.
LEMMA Untouched ==
  ASSUME Inv, Receives, UNCHANGED <<protocols, mails>>
  PROVE  Asked' /\ Mailed' /\ Echoes' /\ IssuedToReader' /\ PanicNeedsTwoProofs'
<1>1. Asked' /\ Echoes' /\ IssuedToReader' /\ PanicNeedsTwoProofs'
  BY DEF Inv, Receives, Asked, Echoes, IssuedToReader, PanicNeedsTwoProofs
<1>2. \A i \in DOMAIN statuses' : i + 1 \in DOMAIN statuses /\ statuses'[i] = statuses[i + 1]
  BY Received DEF Inv, Receives
<1>3. Mailed'
  BY <1>2 DEF Inv, Mailed
<1> QED BY <1>1, <1>3

\* A status that steps no machine is taken, and nothing else happens.
LEMMA StatusDropped ==
  ASSUME Inv, Receives, sent' = <<>>, UNCHANGED <<machineVars, protocols, mails>>
  PROVE  Inv'
<1>1. Asked' /\ Mailed' /\ Echoes' /\ IssuedToReader' /\ PanicNeedsTwoProofs'
  BY Untouched
<1>2. SpeaksOfAccepted' /\ FormatsOwnSession'
  BY Silent
<1>3. /\ statuses' \in Seq(Statuses) /\ Len(statuses') <= MaxQueue
      /\ \A i \in DOMAIN statuses' :
           i \in Nat /\ 1 < i + 1 /\ i + 1 \in DOMAIN statuses /\ statuses'[i] = statuses[i + 1]
  BY Received DEF Inv, Receives
<1>4. Typed'
  BY <1>3 DEF Inv, Typed, Receives, machineVars
<1>5. Issues'
  <2> SUFFICES ASSUME machine = EmailIssuerMachine PROVE KnowsMail' /\ OneIssue'
    BY DEF Issues, Receives
  <2>1. KnowsMail /\ OneIssue
    BY DEF Inv, Issues
  <2>2. KnowsMail'
    BY <2>1 DEF KnowsMail, machineVars
  <2>3. \A i, j \in DOMAIN statuses' : i < j => i + 1 < j + 1
    BY <1>3
  <2>4. OneIssue'
    <3>1. ASSUME InTurn PROVE InTurn'
      BY <1>3, <2>3, <3>1 DEF InTurn, machineVars
    <3>2. ASSUME OtherIssued PROVE OtherIssued'
      BY <3>2 DEF OtherIssued, Receives
    <3> QED BY <2>1, <3>1, <3>2 DEF OneIssue, machineVars
  <2> QED BY <2>2, <2>4
<1>6. Proves'
  BY DEF Inv, Proves, KnowsProof, Accepted, Receives, machineVars
<1> QED BY <1>1, <1>2, <1>4, <1>5, <1>6 DEF Inv

\* A transition with one text, whose registers belong to the session.
LEMMA TextSent ==
  ASSUME Inv, Receives, NEW t, NEW send, t.sends = <<send>>, t.target \in DOMAIN machine.states,
         send.protocol \in {"basic_message", "answer"}, send.rule \in {"", "FORMAT_MEM", "INPUT"},
         NEW writes, DOMAIN writes \subseteq Registers, \A r \in DOMAIN writes : writes[r] \in Contents,
         NEW n, Replied(t, n.about) = protocols, Fire(t, writes, n),
         send.rule = "FORMAT_MEM" =>
           current # machine.initial.target /\ send.data \subseteq session \cup DOMAIN writes
  PROVE  /\ Typed' /\ Asked' /\ Mailed' /\ Echoes' /\ IssuedToReader' /\ PanicNeedsTwoProofs' /\ FormatsOwnSession'
         /\ protocols' = protocols /\ mails' = mails /\ Steps(t, writes)
         /\ \E output : sent' = <<output>> /\ Gives(output, send, writes)
<1>1. /\ Steps(t, writes) /\ mails' = mails /\ protocols' = protocols
      /\ \E output : sent' = <<output>> /\ Gives(output, send, writes)
  BY FirePlain DEF Inv
<1>2. Asked' /\ Mailed' /\ Echoes' /\ IssuedToReader' /\ PanicNeedsTwoProofs'
  BY <1>1, Untouched
<1>3. /\ current' \in DOMAIN machine'.states
      /\ DOMAIN memory' \subseteq Registers /\ \A r \in DOMAIN memory' : memory'[r] \in Contents
      /\ reported' \in BOOLEAN /\ session' \subseteq Registers
  BY <1>1, StepsTyped DEF Inv, Receives
<1>4. statuses' \in Seq(Statuses) /\ Len(statuses') <= MaxQueue
  BY Received DEF Inv, Receives
<1>5. Typed'
  BY <1>1, <1>3, <1>4 DEF Inv, Typed, Receives
<1>6. send.rule # "FORMAT_MEM" \/ send.data \subseteq session'
  BY <1>1 DEF Steps
<1>7. FormatsOwnSession'
  BY <1>1, <1>6, OneText
<1> QED BY <1>1, <1>2, <1>5, <1>7
-----------------------------------------------------------------------------
(* The email issuer.                                                         *)

\* A sequence without elements is empty.
LEMMA NoElements ==
  ASSUME NEW S, NEW s \in Seq(S), \A i \in DOMAIN s : FALSE
  PROVE  s = <<>>
<1>1. DOMAIN s = 1 .. Len(s) /\ Len(s) \in Nat
  OBVIOUS
<1>2. Len(s) = 0
  BY <1>1
<1> QED BY <1>2

\* Nobody asks the email issuer or the echo anything.
LEMMA NoQuestions ==
  ASSUME Inv, Running \subseteq BuiltIn, machine # ReqProofMachine
  PROVE  questions = <<>>
<1>1. machine \in {EmailIssuerMachine, EchoMachine} /\ questions \in Seq(DOMAIN protocols)
  BY DEF Inv, Typed, BuiltIn
<1>2. \A p \in DOMAIN protocols : protocols[p].kind = "issue_cred"
  <2>1. CASE machine = EmailIssuerMachine
    BY <2>1 DEF Inv, Issues, OneIssue
  <2>2. CASE machine = EchoMachine
    <3>1. protocols = <<>>
      BY <2>2 DEF Inv, Echoes
    <3> QED BY <3>1
  <2> QED BY <1>1, <2>1, <2>2
<1>3. \A i \in DOMAIN questions : FALSE
  <2> SUFFICES ASSUME NEW i \in DOMAIN questions PROVE FALSE
    OBVIOUS
  <2>1. protocols[questions[i]].kind = "present_proof" /\ questions[i] \in DOMAIN protocols
    BY <1>1 DEF Inv, Asked
  <2> QED BY <1>2, <2>1
<1> QED BY <1>1, <1>3, NoElements

\* A text that moves the email issuer to a state where it waits for nothing to
\* be issued.
LEMMA IssuerText ==
  ASSUME Inv, Receives, machine = EmailIssuerMachine, NEW t, NEW send, t.sends = <<send>>,
         \/ send = Says /\ t.target = "WAITING_EMAIL_ADDRESS" /\ current \in {"IDLE", "WAITING_EMAIL_PIN"}
         \/ /\ send = Formats({"EMAIL"}) /\ current = "WAITING_EMAIL_PIN" /\ t.target = "WAITING_EMAIL_PIN"
         \/ /\ send = Formats({"EMAIL"}) /\ current = "WAITING_ISSUING_STATUS" /\ t.target = "IDLE"
            /\ OtherIssued \/ protocols[Len(protocols)].state = "OK",
         NEW n, Fire(t, Empty, n)
  PROVE  Inv' /\ protocols' = protocols
<1>1. KnowsMail /\ OneIssue
  BY DEF Inv, Issues
<1>2. /\ send.protocol = "basic_message" /\ send.rule \in {"", "FORMAT_MEM"}
      /\ send.rule = "FORMAT_MEM" => send.data = {"EMAIL"} /\ current # "IDLE" /\ "EMAIL" \in session
  <2>1. current \in {"WAITING_EMAIL_PIN", "WAITING_ISSUING_STATUS"} => "EMAIL" \in session
    BY <1>1 DEF KnowsMail, OneIssue
  <2>2. CASE send = Says
    BY <2>2 DEF Says, Event
  <2>3. CASE send = Formats({"EMAIL"}) /\ current \in {"WAITING_EMAIL_PIN", "WAITING_ISSUING_STATUS"}
    BY <2>1, <2>3 DEF Formats, Event
  <2> QED BY <2>2, <2>3
<1>3. t.target \in DOMAIN machine.states /\ machine.initial.target = "IDLE"
  BY InitialStates
<1>4. Replied(t, n.about) = protocols
  BY <1>2, NoReply
<1>5. DOMAIN Empty = {}
  BY EmptyRegisters
<1>6. /\ Typed' /\ Asked' /\ Mailed' /\ Echoes' /\ IssuedToReader' /\ PanicNeedsTwoProofs' /\ FormatsOwnSession'
      /\ protocols' = protocols /\ mails' = mails /\ Steps(t, Empty)
      /\ \E output : sent' = <<output>> /\ Gives(output, send, Empty)
  BY <1>2, <1>3, <1>4, <1>5, TextSent
<1>7. SpeaksOfAccepted'
  <2>1. "email" \notin {"EMAIL"}
    OBVIOUS
  <2> QED BY <1>2, <1>6, <2>1, OneText
<1>8. /\ current' = t.target
      /\ t.target # "IDLE" => DOMAIN memory' = DOMAIN memory /\ \A r \in DOMAIN memory : memory'[r] = memory[r]
      /\ current # "IDLE" => session' = session
  BY <1>3, <1>5, <1>6 DEF Steps
<1>9. KnowsMail'
  BY <1>1, <1>6, <1>8 DEF KnowsMail
<1>10. OneIssue'
  <2>1. \A i \in DOMAIN statuses' :
          i \in Nat /\ i + 1 \in DOMAIN statuses /\ statuses'[i] = statuses[i + 1]
    BY Received DEF Inv, Receives
  <2>2. \A i, j \in DOMAIN statuses' : i < j => i + 1 < j + 1
    BY <2>1
  <2>3. current' # "WAITING_ISSUING_STATUS"
    BY <1>8
  <2>4. CASE OtherIssued
    BY <1>1, <1>6, <2>3, <2>4 DEF OneIssue, OtherIssued, Receives
  <2>5. CASE InTurn /\ ~OtherIssued
    <3>1. \A p \in DOMAIN protocols : protocols[p].state = "OK"
      BY <2>5 DEF InTurn
    <3>2. ASSUME current' = "WAITING_EMAIL_PIN"
          PROVE  \A i, j \in DOMAIN statuses' :
                   i < j /\ statuses'[i] = Status("basic_message", memory'["PIN"])
                     => statuses'[j].protocol # "issue_cred"
      <4>1. current = "WAITING_EMAIL_PIN" /\ memory'["PIN"] = memory["PIN"]
        BY <1>1, <1>8, <3>2 DEF KnowsMail
      <4> QED BY <2>1, <2>2, <2>5, <4>1 DEF InTurn
    <3>3. \A i \in DOMAIN statuses' : statuses'[i].protocol = "issue_cred" => statuses'[i].about # 0
      BY <2>1, <2>5 DEF InTurn
    <3>4. InTurn'
      BY <1>6, <2>3, <3>1, <3>2, <3>3 DEF InTurn
    <3> QED BY <1>1, <1>6, <2>3, <3>4 DEF OneIssue
  <2> QED BY <1>1, <2>4, <2>5 DEF OneIssue
<1>11. Issues' /\ Proves'
  BY <1>9, <1>10, ThreeMachines DEF Issues, Proves, Receives
<1> QED BY <1>6, <1>7, <1>11 DEF Inv

\* The email issuer mails a new PIN to the address it was told.
LEMMA IssuerMails ==
  ASSUME Inv, Receives, machine = EmailIssuerMachine, current = "WAITING_EMAIL_ADDRESS", NEW t,
         t.sends = <<Formats({"EMAIL"}), Event("email", "GEN_PIN", {"EMAIL", "PIN"})>>,
         t.target = "WAITING_EMAIL_PIN", NEW n \in Statuses, n.protocol = "basic_message",
         Fire(t, Save("EMAIL", n.about), n)
  PROVE  Inv' /\ protocols' = protocols
<1> DEFINE text == Formats({"EMAIL"})
           mail == Event("email", "GEN_PIN", {"EMAIL", "PIN"})
           writes == Save("EMAIL", n.about)
<1>1. OneIssue
  BY DEF Inv, Issues
<1>2. /\ text.protocol = "basic_message" /\ text.rule = "FORMAT_MEM" /\ text.data = {"EMAIL"}
      /\ mail.protocol = "email" /\ mail.rule = "GEN_PIN" /\ mail.data = {"EMAIL", "PIN"}
  BY DEF Formats, Event
<1>3. DOMAIN writes = {"EMAIL"} /\ writes["EMAIL"] = n.about /\ n.about \in Contents
  BY StatusKinds DEF Save
<1>4. t.target \in DOMAIN machine.states /\ machine.initial.target = "IDLE"
  BY InitialStates
<1> HIDE DEF text, mail, writes
<1>5. PICK p \in Pins \ {m.pin : m \in mails} :
        /\ Steps(t, Write(Save("PIN", p), writes))
        /\ mails' = mails \cup {[to |-> writes["EMAIL"], pin |-> p]}
        /\ protocols' = protocols
        /\ \E o1, o2 : sent' = <<o1, o2>> /\ Gives(o1, text, writes)
                       /\ Gives(o2, mail, Write(Save("PIN", p), writes))
  <2>1. t.sends = <<text, mail>> /\ Fire(t, writes, n)
    BY DEF text, mail, writes
  <2>2. Typed
    BY DEF Inv
  <2> QED BY <1>2, <1>3, <2>1, <2>2, FireMail
<1> DEFINE values == Write(Save("PIN", p), writes)
<1>6. DOMAIN values = {"EMAIL", "PIN"} /\ values["EMAIL"] = n.about /\ values["PIN"] = p
  BY <1>3 DEF Write, Save
<1> HIDE DEF values
<1>7. p \in Contents /\ "EMAIL" \in Registers /\ "PIN" \in Registers
  BY DEF Contents, Registers
<1>8. /\ current' \in DOMAIN machine'.states
      /\ DOMAIN memory' \subseteq Registers /\ \A r \in DOMAIN memory' : memory'[r] \in Contents
      /\ reported' \in BOOLEAN /\ session' \subseteq Registers
  <2>1. Typed /\ machine' = machine /\ Steps(t, values)
    BY <1>5 DEF Inv, Receives, values
  <2>2. DOMAIN values \subseteq Registers /\ \A r \in DOMAIN values : values[r] \in Contents
    BY <1>3, <1>6, <1>7
  <2> QED BY <1>4, <2>1, <2>2, StepsTyped
<1>9. /\ current' = "WAITING_EMAIL_PIN" /\ {"EMAIL", "PIN"} \subseteq DOMAIN memory'
      /\ memory'["EMAIL"] = n.about /\ memory'["PIN"] = p /\ {"EMAIL", "PIN"} \subseteq session'
  BY <1>4, <1>5, <1>6 DEF Steps, values
<1>10. /\ statuses' \in Seq(Statuses) /\ Len(statuses') <= MaxQueue
       /\ \A i \in DOMAIN statuses' : i + 1 \in DOMAIN statuses /\ statuses'[i] = statuses[i + 1]
  BY Received DEF Inv, Receives
<1>11. Typed'
  BY <1>3, <1>5, <1>8, <1>10 DEF Inv, Typed, Receives
<1>12. Asked' /\ Echoes' /\ IssuedToReader' /\ PanicNeedsTwoProofs'
  BY <1>5 DEF Inv, Receives, Asked, Echoes, IssuedToReader, PanicNeedsTwoProofs
<1>13. Mailed'
  <2>1. \A m, o \in mails' : m.pin = o.pin => m = o
    BY <1>5 DEF Inv, Mailed
  <2>2. \A i \in DOMAIN statuses' :
          statuses'[i].protocol = "basic_message" /\ statuses'[i].about \in Pins =>
            \E m \in mails' : m.pin = statuses'[i].about /\ m.to \in Own
    BY <1>5, <1>10 DEF Inv, Mailed
  <2> QED BY <2>1, <2>2 DEF Mailed
<1>14. SpeaksOfAccepted' /\ FormatsOwnSession'
  <2>1. PICK o1, o2 : sent' = <<o1, o2>> /\ Gives(o1, text, writes) /\ Gives(o2, mail, values)
    BY <1>5 DEF values
  <2>2. DOMAIN sent' = {1, 2} /\ sent'[1] = o1 /\ sent'[2] = o2
    BY <2>1
  <2>3. DOMAIN o1.data = {"EMAIL"} /\ DOMAIN o2.data = {"EMAIL", "PIN"}
    BY <1>2, <2>1 DEF Gives
  <2>4. EmailAttribute.name = "email" /\ "email" \notin {"EMAIL", "PIN"}
    BY DEF EmailAttribute
  <2>5. \A i \in DOMAIN sent' : DOMAIN sent'[i].data \subseteq {"EMAIL", "PIN"}
    BY <2>2, <2>3
  <2> QED BY <1>9, <2>4, <2>5 DEF SpeaksOfAccepted, FormatsOwnSession
<1>15. KnowsMail'
  BY <1>3, <1>5, <1>9 DEF KnowsMail
<1>16. OneIssue'
  <2>1. \A i \in DOMAIN statuses' : statuses'[i] # Status("basic_message", p)
    <3> SUFFICES ASSUME NEW i \in DOMAIN statuses', statuses'[i] = Status("basic_message", p) PROVE FALSE
      OBVIOUS
    <3>1. statuses[i + 1].protocol = "basic_message" /\ statuses[i + 1].about = p /\ i + 1 \in DOMAIN statuses
      BY <1>10 DEF Status
    <3>2. \E m \in mails : m.pin = p
      BY <3>1 DEF Inv, Mailed
    <3> QED BY <3>2
  <2>2. ASSUME InTurn PROVE InTurn'
    <3>1. \A q \in DOMAIN protocols : protocols[q].state = "OK"
      BY <2>2 DEF InTurn
    <3>2. \A i \in DOMAIN statuses' : statuses'[i].protocol = "issue_cred" => statuses'[i].about # 0
      BY <1>10, <2>2 DEF InTurn
    <3> QED BY <1>5, <1>9, <2>1, <3>1, <3>2 DEF InTurn
  <2>3. ASSUME OtherIssued PROVE OtherIssued'
    BY <2>3 DEF OtherIssued, Receives
  <2> QED BY <1>1, <1>5, <1>9, <2>2, <2>3 DEF OneIssue
<1>17. Issues' /\ Proves'
  BY <1>15, <1>16, ThreeMachines DEF Issues, Proves, Receives
<1> QED BY <1>5, <1>11, <1>12, <1>13, <1>14, <1>17 DEF Inv

\* The email issuer starts to issue: the PIN that was said is the one it has
\* mailed to the address it remembers, so the user reads that mail.
LEMMA IssuerIssues ==
  ASSUME Inv, Receives, machine = EmailIssuerMachine, current = "WAITING_EMAIL_PIN", NEW t,
         t.sends = <<Formats({"EMAIL"}), Event("issue_cred", "FORMAT_MEM", {"EMAIL"})>>,
         t.target = "WAITING_ISSUING_STATUS", NEW n, n = Head(statuses), n.protocol = "basic_message",
         Register("PIN") = n.about, Fire(t, Empty, n)
  PROVE  Inv'
<1> DEFINE text == Formats({"EMAIL"})
           issue == Event("issue_cred", "FORMAT_MEM", {"EMAIL"})
<1>1. KnowsMail /\ OneIssue
  BY DEF Inv, Issues
<1>2. /\ text.protocol = "basic_message" /\ text.rule = "FORMAT_MEM" /\ text.data = {"EMAIL"}
      /\ issue.protocol = "issue_cred" /\ issue.rule = "FORMAT_MEM" /\ issue.data = {"EMAIL"}
  BY DEF Formats, Event
<1>3. t.target \in DOMAIN machine.states /\ machine.initial.target = "IDLE"
  BY InitialStates
<1> HIDE DEF text, issue
<1>4. DOMAIN t.sends = {1, 2} /\ t.sends[1] = text /\ t.sends[2] = issue /\ Len(t.sends) = 2
  BY DEF text, issue
<1>5. DOMAIN Empty = {}
  BY EmptyRegisters
<1>6. /\ Steps(t, Empty) /\ mails' = mails
      /\ DOMAIN sent' = {1, 2}
      /\ Gives(sent'[1], text, Empty) /\ Gives(sent'[2], issue, Empty)
      /\ protocols' = Append(protocols, StartOf(sent'[2]))
      /\ Len(protocols') <= MaxStarted
  <2>1. {1, 2} = 1 .. 2 /\ {1, 2} \subseteq Nat
    OBVIOUS
  <2>2. Typed
    BY DEF Inv
  <2>3. \A j \in DOMAIN t.sends : j # 2 => t.sends[j].protocol = "basic_message" /\ t.sends[j].rule # "GEN_PIN"
    BY <1>2, <1>4
  <2>4. /\ 2 \in DOMAIN t.sends
        /\ t.sends[2].protocol \in {"issue_cred", "present_proof"} /\ t.sends[2].rule # "GEN_PIN"
    BY <1>2, <1>4
  <2> QED BY <1>4, <1>5, <2>1, <2>2, <2>3, <2>4, FireStart
<1>7. /\ current' = "WAITING_ISSUING_STATUS" /\ session' = session
      /\ {"EMAIL", "PIN"} \subseteq DOMAIN memory /\ {"EMAIL", "PIN"} \subseteq session
  BY <1>1, <1>3, <1>5, <1>6 DEF Steps, KnowsMail
<1> DEFINE new == StartOf(sent'[2])
<1>8. /\ new.kind = "issue_cred" /\ new.state = "RUNNING" /\ new.ack = FALSE /\ new.attributes = <<>>
      /\ new.values = sent'[2].data /\ DOMAIN sent'[1].data = {"EMAIL"} /\ DOMAIN sent'[2].data = {"EMAIL"}
      /\ sent'[2].data["EMAIL"] = memory["EMAIL"] /\ sent'[2].data \in [{"EMAIL"} -> {memory["EMAIL"]}]
  <2>1. /\ sent'[1].data \in [{"EMAIL"} -> {sent'[1].data[r] : r \in {"EMAIL"}}]
        /\ sent'[2].data \in [{"EMAIL"} -> {sent'[2].data[r] : r \in {"EMAIL"}}]
    BY <1>2, <1>6 DEF Gives
  <2>2. sent'[2].data["EMAIL"] = memory["EMAIL"] /\ sent'[2].protocol = "issue_cred"
    BY <1>2, <1>5, <1>6, <1>7 DEF Gives
  <2> QED BY <2>1, <2>2 DEF StartOf
<1>9. new \in Protocols
  <2>1. new.values \in Values
    <3>1. memory["EMAIL"] \in Contents
      BY <1>7 DEF Inv, Typed
    <3> QED BY <1>8, <3>1 DEF Values
  <2>2. <<>> \in Revealed
    BY DEF Revealed
  <2>3. new = [kind |-> new.kind, state |-> new.state, values |-> new.values, attributes |-> <<>>, ack |-> FALSE]
    BY <1>8 DEF StartOf
  <2> HIDE DEF new
  <2> QED BY <1>8, <2>1, <2>2, <2>3 DEF Protocols, Kinds
<1> HIDE DEF new
<1>10. /\ protocols' \in Seq(Protocols) /\ Len(protocols) \in Nat /\ Len(protocols') = Len(protocols) + 1
       /\ DOMAIN protocols = 1 .. Len(protocols) /\ DOMAIN protocols' = 1 .. Len(protocols')
       /\ \A p \in DOMAIN protocols : protocols'[p] = protocols[p]
       /\ protocols'[Len(protocols')] = new
  <2>1. protocols \in Seq(Protocols)
    BY DEF Inv, Typed
  <2> QED BY <1>6, <1>9, <2>1 DEF new
<1>11. \A p \in DOMAIN protocols' : p \in DOMAIN protocols \/ p = Len(protocols')
  BY <1>10
<1>12. /\ statuses' \in Seq(Statuses) /\ Len(statuses') <= MaxQueue
       /\ 1 \in DOMAIN statuses /\ statuses[1] = n /\ n \in Statuses
       /\ \A i \in DOMAIN statuses' :
            1 < i + 1 /\ i + 1 \in DOMAIN statuses /\ statuses'[i] = statuses[i + 1]
  BY Received DEF Inv, Receives
<1>13. /\ current' \in DOMAIN machine'.states
       /\ DOMAIN memory' \subseteq Registers /\ \A r \in DOMAIN memory' : memory'[r] \in Contents
       /\ reported' \in BOOLEAN /\ session' \subseteq Registers
  BY <1>3, <1>5, <1>6, StepsTyped DEF Inv, Receives
<1>14. Typed'
  <2>1. questions' \in Seq(DOMAIN protocols')
    <3>1. questions \in Seq(DOMAIN protocols) /\ DOMAIN protocols \subseteq DOMAIN protocols'
      BY <1>10 DEF Inv, Typed
    <3> QED BY <3>1 DEF Receives
  <2> QED BY <1>6, <1>10, <1>12, <1>13, <2>1 DEF Inv, Typed, Receives
<1>15. Asked'
  <2>1. \A i \in DOMAIN questions : questions[i] \in DOMAIN protocols
    BY DEF Inv, Typed
  <2> QED BY <1>8, <1>10, <1>11, <2>1 DEF Inv, Asked, Receives
<1>16. Mailed'
  BY <1>6, <1>12 DEF Inv, Mailed
<1>17. IssuedToReader'
  <2>1. memory["EMAIL"] \in Own
    <3>1. /\ [to |-> memory["EMAIL"], pin |-> memory["PIN"]] \in mails
          /\ mails \subseteq [to : Contents, pin : Pins]
      BY <1>1 DEF KnowsMail, Inv, Typed
    <3>2. n.about = memory["PIN"] /\ memory["PIN"] \in Pins
      BY <1>7, <3>1 DEF Register
    <3>3. PICK m \in mails : m.pin = memory["PIN"] /\ m.to \in Own
      BY <1>12, <3>2 DEF Inv, Mailed
    <3>4. m = [to |-> memory["EMAIL"], pin |-> memory["PIN"]]
      BY <3>1, <3>3 DEF Inv, Mailed
    <3> QED BY <3>3, <3>4
  <2> QED BY <1>8, <1>10, <1>11, <2>1 DEF Inv, IssuedToReader
<1>18. OneIssue'
  <2>1. \A p \in DOMAIN protocols' : protocols'[p].kind = "issue_cred"
    BY <1>1, <1>8, <1>10, <1>11 DEF OneIssue
  <2>2. ASSUME InTurn PROVE InTurn'
    <3>1. \A p \in DOMAIN protocols : protocols[p].state = "OK"
      BY <2>2 DEF InTurn
    <3>2. \A p \in DOMAIN protocols' : protocols'[p].state # "OK" => p = Len(protocols')
      BY <1>8, <1>10, <1>11, <3>1
    <3>3. statuses[1] = Status("basic_message", memory["PIN"])
      BY <1>7, <1>12, StatusKinds DEF Register
    <3>4. \A i \in DOMAIN statuses' : statuses'[i].protocol # "issue_cred"
      BY <1>12, <2>2, <3>3 DEF InTurn
    <3> QED BY <1>7, <3>2, <3>4 DEF InTurn
  <2>3. ASSUME OtherIssued PROVE OtherIssued'
    BY <2>3 DEF OtherIssued, Receives
  <2> QED BY <1>1, <1>7, <2>1, <2>2, <2>3 DEF OneIssue
<1>19. SpeaksOfAccepted' /\ FormatsOwnSession'
  <2>1. \A i \in DOMAIN sent' : DOMAIN sent'[i].data = {"EMAIL"}
    BY <1>6, <1>8
  <2>2. EmailAttribute.name = "email" /\ "email" \notin {"EMAIL"}
    BY DEF EmailAttribute
  <2> QED BY <1>7, <2>1, <2>2 DEF SpeaksOfAccepted, FormatsOwnSession
<1>20. PanicNeedsTwoProofs'
  BY DEF PanicNeedsTwoProofs, Receives
<1>21. KnowsMail'
  BY <1>7 DEF KnowsMail
<1>22. Issues' /\ Proves' /\ Echoes'
  BY <1>18, <1>21, ThreeMachines DEF Issues, Proves, Echoes, Receives
<1> QED BY <1>14, <1>15, <1>16, <1>17, <1>19, <1>20, <1>22 DEF Inv

\* Every status the email issuer reacts to.
LEMMA IssuerStatus ==
  ASSUME Inv, Receives, machine = EmailIssuerMachine, NEW n, n = Head(statuses), StatusSteps(n),
         Fire(Transitions[FirstOf(Triggered(n))], InputWrites(Transitions[FirstOf(Triggered(n))], n), n)
  PROVE  Inv' /\ (current = "WAITING_ISSUING_STATUS" /\ current' = "IDLE"
                    => OtherIssued \/ protocols[Len(protocols)].state = "OK")
<1> DEFINE t == Transitions[FirstOf(Triggered(n))]
           writes == InputWrites(t, n)
<1>1. \/ /\ current = "IDLE" /\ n.protocol = "basic_message" /\ writes = Empty
         /\ t.sends = <<Says>> /\ t.target = "WAITING_EMAIL_ADDRESS"
      \/ /\ current = "WAITING_EMAIL_ADDRESS" /\ n.protocol = "basic_message"
         /\ writes = Save("EMAIL", n.about)
         /\ t.sends = <<Formats({"EMAIL"}), Event("email", "GEN_PIN", {"EMAIL", "PIN"})>>
         /\ t.target = "WAITING_EMAIL_PIN"
      \/ /\ current = "WAITING_EMAIL_PIN" /\ n.protocol = "basic_message" /\ writes = Empty
         /\ \/ t.sends = <<Says>> /\ t.target = "WAITING_EMAIL_ADDRESS"
            \/ t.sends = <<Formats({"EMAIL"})>> /\ t.target = "WAITING_EMAIL_PIN"
            \/ /\ Register("PIN") = n.about
               /\ t.sends = <<Formats({"EMAIL"}), Event("issue_cred", "FORMAT_MEM", {"EMAIL"})>>
               /\ t.target = "WAITING_ISSUING_STATUS"
      \/ /\ current = "WAITING_ISSUING_STATUS" /\ n.protocol = "issue_cred" /\ writes = Empty
         /\ t.sends = <<Formats({"EMAIL"})>> /\ t.target = "IDLE"
  BY IssuerHears DEF Inv
<1>2. Fire(t, writes, n)
  OBVIOUS
<1>3. n \in Statuses /\ \E i \in DOMAIN statuses : n = statuses[i]
  BY Received DEF Inv, Receives
<1> HIDE DEF t, writes
<1>4. CASE current = "IDLE"
  BY <1>1, <1>2, <1>4, IssuerText
<1>5. CASE current = "WAITING_EMAIL_ADDRESS"
  <2>1. /\ n.protocol = "basic_message" /\ Fire(t, Save("EMAIL", n.about), n) /\ t.target = "WAITING_EMAIL_PIN"
        /\ t.sends = <<Formats({"EMAIL"}), Event("email", "GEN_PIN", {"EMAIL", "PIN"})>>
    BY <1>1, <1>2, <1>5
  <2> QED BY <1>3, <1>5, <2>1, IssuerMails
<1>6. CASE current = "WAITING_EMAIL_PIN"
  <2>1. Fire(t, Empty, n) /\ n.protocol = "basic_message"
    BY <1>1, <1>2, <1>6
  <2>2. CASE t.sends = <<Says>> /\ t.target = "WAITING_EMAIL_ADDRESS"
    BY <1>6, <2>1, <2>2, IssuerText
  <2>3. CASE t.sends = <<Formats({"EMAIL"})>> /\ t.target = "WAITING_EMAIL_PIN"
    BY <1>6, <2>1, <2>3, IssuerText
  <2>4. CASE /\ Register("PIN") = n.about /\ t.target = "WAITING_ISSUING_STATUS"
             /\ t.sends = <<Formats({"EMAIL"}), Event("issue_cred", "FORMAT_MEM", {"EMAIL"})>>
    BY <1>6, <2>1, <2>4, IssuerIssues
  <2> QED BY <1>1, <1>6, <2>2, <2>3, <2>4
<1>7. CASE current = "WAITING_ISSUING_STATUS"
  <2>1. Fire(t, Empty, n) /\ n.protocol = "issue_cred" /\ t.sends = <<Formats({"EMAIL"})>> /\ t.target = "IDLE"
    BY <1>1, <1>2, <1>7
  <2>2. ASSUME InTurn PROVE protocols[Len(protocols)].state = "OK"
    <3>1. n.about = Len(protocols) /\ n.about # 0
      BY <1>3, <1>7, <2>1, <2>2 DEF InTurn
    <3> QED BY <2>1, <3>1 DEF StatusSteps, StateOf, Kinds
  <2>3. OtherIssued \/ protocols[Len(protocols)].state = "OK"
    BY <2>2 DEF Inv, Issues, OneIssue
  <2> QED BY <1>7, <2>1, <2>3, IssuerText
<1> QED BY <1>1, <1>4, <1>5, <1>6, <1>7
-----------------------------------------------------------------------------
(* The proof machine and the echo.                                           *)

\* The machine that asks for proofs goes back to its first state, where it
\* claims nothing.
LEMMA ProverRestarts ==
  ASSUME Inv, Receives, machine = ReqProofMachine, NEW t, NEW send, t.sends = <<send>>,
         send.protocol \in {"basic_message", "answer"}, send.rule = "", t.target = "INITIAL",
         NEW n, Replied(t, n.about) = protocols, Fire(t, Empty, n)
  PROVE  Inv'
<1>1. t.target \in DOMAIN machine.states
  BY InitialStates
<1>2. DOMAIN Empty = {}
  BY EmptyRegisters
<1>3. /\ Typed' /\ Asked' /\ Mailed' /\ Echoes' /\ IssuedToReader' /\ PanicNeedsTwoProofs' /\ FormatsOwnSession'
      /\ protocols' = protocols /\ Steps(t, Empty)
      /\ \E output : sent' = <<output>> /\ Gives(output, send, Empty)
  BY <1>1, <1>2, TextSent
<1>4. SpeaksOfAccepted'
  BY <1>3, OneText
<1>5. Proves' /\ Issues'
  BY <1>3, ThreeMachines DEF Inv, Proves, Issues, KnowsProof, Steps, Receives
<1> QED BY <1>3, <1>4, <1>5 DEF Inv

\* It speaks of the proof it has accepted, and of the line it was told.
LEMMA ProverSpeaks ==
  ASSUME Inv, Receives, machine = ReqProofMachine, NEW t, NEW registers, t.sends = <<Formats(registers)>>,
         current \in {"WAITING2_EMAIL_PROOF", "WAITING_NEXT_CMD"}, t.target = "WAITING_NEXT_CMD",
         NEW writes, registers = {"email"} \cup DOMAIN writes,
         DOMAIN writes \subseteq {"LINE"}, \A r \in DOMAIN writes : writes[r] \in Contents,
         NEW n, Fire(t, writes, n)
  PROVE  Inv'
<1> DEFINE send == Formats(registers)
<1>1. send.protocol = "basic_message" /\ send.rule = "FORMAT_MEM" /\ send.data = registers
  BY DEF Formats, Event
<1>2. KnowsProof
  BY DEF Inv, Proves
<1>3. "email" \in DOMAIN memory /\ "email" \in session /\ Accepted(memory["email"]) /\ "email" # "LINE"
  BY <1>2 DEF KnowsProof
<1>4. t.target \in DOMAIN machine.states /\ machine.initial.target = "INITIAL"
  BY InitialStates
<1>5. DOMAIN writes \subseteq Registers
  BY DEF Registers
<1> HIDE DEF send
<1>6. t.sends = <<send>>
  BY DEF send
<1>7. Replied(t, n.about) = protocols
  BY <1>1, <1>6, NoReply
<1>8. /\ Typed' /\ Asked' /\ Mailed' /\ Echoes' /\ IssuedToReader' /\ PanicNeedsTwoProofs' /\ FormatsOwnSession'
      /\ protocols' = protocols /\ Steps(t, writes)
      /\ \E output : sent' = <<output>> /\ Gives(output, send, writes)
  BY <1>1, <1>3, <1>4, <1>5, <1>6, <1>7, TextSent
<1>9. Accepted(memory["email"])'  <=> Accepted(memory'["email"])
  BY <1>8 DEF Accepted
<1>10. /\ current' = "WAITING_NEXT_CMD" /\ "email" \in DOMAIN memory' /\ memory'["email"] = memory["email"]
       /\ "email" \in session'
  BY <1>3, <1>4, <1>8 DEF Steps
<1>11. SpeaksOfAccepted'
  <2>1. PICK output : sent' = <<output>> /\ Gives(output, send, writes)
    BY <1>8
  <2>2. DOMAIN sent' = {1} /\ sent'[1] = output
    BY <2>1, OneElement
  <2>3. output.data["email"] = memory["email"] /\ EmailAttribute.name = "email"
    BY <1>1, <1>3, <2>1 DEF Gives, EmailAttribute
  <2> QED BY <1>3, <1>8, <2>2, <2>3 DEF SpeaksOfAccepted, Accepted
<1>12. KnowsProof'
  BY <1>3, <1>8, <1>10 DEF KnowsProof, Accepted
<1>13. Proves' /\ Issues'
  BY <1>8, <1>12, ThreeMachines DEF Inv, Proves, Issues, Receives
<1> QED BY <1>8, <1>11, <1>13 DEF Inv

\* It asks for a proof: a new protocol, of which nothing is known.
LEMMA ProverAsks ==
  ASSUME Inv, Receives, machine = ReqProofMachine, NEW t, NEW ask,
         DOMAIN t.sends = {1}, t.sends[1] = ask, Len(t.sends) = 1,
         ask.protocol = "present_proof", ask.rule \notin {"FORMAT_MEM", "GEN_PIN", "INPUT"},
         t.target = "WAITING_EMAIL_PROOF_QA", NEW n, Fire(t, Empty, n)
  PROVE  Inv'
<1>1. t.target \in DOMAIN machine.states
  BY InitialStates
<1>2. DOMAIN Empty = {}
  BY EmptyRegisters
<1>3. {1} = 1 .. 1 /\ {1} \subseteq Nat
  OBVIOUS
<1>4. /\ Steps(t, Empty) /\ mails' = mails
      /\ DOMAIN sent' = {1} /\ Gives(sent'[1], ask, Empty)
      /\ protocols' = Append(protocols, StartOf(sent'[1]))
      /\ Len(protocols') <= MaxStarted
  <2>1. Typed
    BY DEF Inv
  <2>2. 1 \in DOMAIN t.sends /\ t.sends[1].protocol \in {"issue_cred", "present_proof"} /\ t.sends[1].rule # "GEN_PIN"
    OBVIOUS
  <2> QED BY <1>2, <1>3, <2>1, <2>2, FireStart
<1> DEFINE new == StartOf(sent'[1])
<1>5. sent'[1].data = Empty /\ sent'[1].protocol = "present_proof" /\ sent'[1].rule \notin {"FORMAT_MEM", "GEN_PIN"}
  BY <1>4 DEF Gives
<1>6. new = [kind |-> "present_proof", state |-> "RUNNING", values |-> Empty, attributes |-> <<>>, ack |-> FALSE]
  BY <1>5 DEF StartOf
<1> HIDE DEF new
<1>7. new \in Protocols
  <2>1. <<>> \in Revealed /\ Empty \in Values
    BY DEF Revealed, Values
  <2> QED BY <1>6, <2>1 DEF Protocols, Kinds
<1>8. /\ protocols' \in Seq(Protocols) /\ Len(protocols) \in Nat /\ Len(protocols') = Len(protocols) + 1
      /\ DOMAIN protocols = 1 .. Len(protocols) /\ DOMAIN protocols' = 1 .. Len(protocols')
      /\ \A p \in DOMAIN protocols : protocols'[p] = protocols[p]
      /\ protocols'[Len(protocols')] = new
  <2>1. protocols \in Seq(Protocols)
    BY DEF Inv, Typed
  <2> QED BY <1>4, <1>7, <2>1 DEF new
<1>9. \A p \in DOMAIN protocols' : p \in DOMAIN protocols \/ p = Len(protocols')
  BY <1>8
<1>10. new.kind = "present_proof" /\ new.state = "RUNNING" /\ new.ack = FALSE
  BY <1>6
<1>11. /\ statuses' \in Seq(Statuses) /\ Len(statuses') <= MaxQueue
       /\ \A i \in DOMAIN statuses' : i + 1 \in DOMAIN statuses /\ statuses'[i] = statuses[i + 1]
  BY Received DEF Inv, Receives
<1>12. /\ current' \in DOMAIN machine'.states
       /\ DOMAIN memory' \subseteq Registers /\ \A r \in DOMAIN memory' : memory'[r] \in Contents
       /\ reported' \in BOOLEAN /\ session' \subseteq Registers
  BY <1>1, <1>2, <1>4, StepsTyped DEF Inv, Receives
<1>13. Typed'
  <2>1. questions' \in Seq(DOMAIN protocols')
    <3>1. questions \in Seq(DOMAIN protocols) /\ DOMAIN protocols \subseteq DOMAIN protocols'
      BY <1>8 DEF Inv, Typed
    <3> QED BY <3>1 DEF Receives
  <2> QED BY <1>4, <1>8, <1>11, <1>12, <2>1 DEF Inv, Typed, Receives
<1>14. Asked'
  <2>1. \A i \in DOMAIN questions : questions[i] \in DOMAIN protocols
    BY DEF Inv, Typed
  <2> QED BY <1>8, <1>9, <1>10, <2>1 DEF Inv, Asked, Receives
<1>15. Mailed'
  BY <1>4, <1>11 DEF Inv, Mailed
<1>16. IssuedToReader'
  BY <1>8, <1>9, <1>10 DEF Inv, IssuedToReader
<1>17. SpeaksOfAccepted' /\ FormatsOwnSession'
  BY <1>2, <1>4, <1>5 DEF SpeaksOfAccepted, FormatsOwnSession
<1>18. PanicNeedsTwoProofs'
  BY DEF PanicNeedsTwoProofs, Receives
<1>19. current' = "WAITING_EMAIL_PROOF_QA"
  BY <1>4 DEF Steps
<1>20. Proves'
  BY <1>8, <1>9, <1>10, <1>19 DEF Inv, Proves, KnowsProof, Receives
<1>21. Issues' /\ Echoes'
  BY ThreeMachines DEF Issues, Echoes, Receives
<1> QED BY <1>13, <1>14, <1>15, <1>16, <1>17, <1>18, <1>20, <1>21 DEF Inv

\* A proof the agency says is completed is no open question, so the answer that
\* its status sends changes nothing.
LEMMA LateAnswer ==
  ASSUME Inv, NEW t, NEW n, n.protocol = "present_proof", StateOf(n) = "OK"
  PROVE  Replied(t, n.about) = protocols
<1>1. protocols \in Seq(Protocols) /\ DOMAIN protocols = 1 .. Len(protocols) /\ Len(protocols) \in Nat
  BY DEF Inv, Typed
<1>2. /\ Replied(t, n.about) \in Seq(Protocols) /\ Len(Replied(t, n.about)) = Len(protocols)
      /\ \A p \in DOMAIN protocols : p # n.about => Replied(t, n.about)[p] = protocols[p]
      /\ \A p \in DOMAIN protocols : protocols[p].state # "WAITING" => Replied(t, n.about)[p] = protocols[p]
  BY <1>1, RepliedTyped
<1>3. n.about = 0 \/ protocols[n.about].state = "OK"
  BY DEF StateOf, Kinds
<1>4. \A p \in DOMAIN protocols : Replied(t, n.about)[p] = protocols[p]
  BY <1>1, <1>2, <1>3
<1> QED BY <1>1, <1>2, <1>4

\* Every status the proof machine reacts to.
LEMMA ProverStatus ==
  ASSUME Inv, Receives, machine = ReqProofMachine, NEW n, n = Head(statuses), StatusSteps(n),
         Fire(Transitions[FirstOf(Triggered(n))], InputWrites(Transitions[FirstOf(Triggered(n))], n), n)
  PROVE  Inv'
<1> DEFINE t == Transitions[FirstOf(Triggered(n))]
           writes == InputWrites(t, n)
           nack == Event("answer", "", "NACK")
           ask == Event("present_proof", "", {})
<1>1. \/ t.sends = <<Says>> /\ t.target = "INITIAL" /\ writes = Empty
      \/ /\ current = "INITIAL" /\ t.sends = <<ask>>
         /\ t.target = "WAITING_EMAIL_PROOF_QA" /\ writes = Empty
      \/ /\ current = "WAITING_EMAIL_PROOF_QA" /\ n.protocol = "present_proof"
         /\ t.sends = <<nack>> /\ t.target = "INITIAL" /\ writes = Empty
      \/ /\ current = "WAITING2_EMAIL_PROOF" /\ t.sends = <<Formats({"email"})>>
         /\ t.target = "WAITING_NEXT_CMD" /\ writes = Empty
      \/ /\ current = "WAITING_NEXT_CMD" /\ n.protocol = "basic_message"
         /\ t.sends = <<Formats({"email", "LINE"})>> /\ t.target = "WAITING_NEXT_CMD"
         /\ writes = Save("LINE", n.about)
  BY ProverHears DEF Inv
<1>2. Fire(t, writes, n) /\ StateOf(n) = "OK"
  BY DEF StatusSteps
<1>3. n \in Statuses
  BY Received DEF Inv, Receives
<1>4. Says.protocol = "basic_message" /\ Says.rule = "" /\ nack.protocol = "answer" /\ nack.rule = ""
      /\ ask.protocol = "present_proof" /\ ask.rule \notin {"FORMAT_MEM", "GEN_PIN", "INPUT"}
  BY DEF Says, Event
<1> HIDE DEF t, writes, nack, ask
<1>5. CASE t.sends = <<Says>> /\ t.target = "INITIAL" /\ writes = Empty
  <2>1. Replied(t, n.about) = protocols
    BY <1>4, <1>5, NoReply
  <2> QED BY <1>2, <1>4, <1>5, <2>1, ProverRestarts
<1>6. CASE t.sends = <<ask>> /\ t.target = "WAITING_EMAIL_PROOF_QA" /\ writes = Empty
  <2>1. DOMAIN t.sends = {1} /\ t.sends[1] = ask /\ Len(t.sends) = 1
    BY <1>6, OneElement
  <2> QED BY <1>2, <1>4, <1>6, <2>1, ProverAsks
<1>7. CASE n.protocol = "present_proof" /\ t.sends = <<nack>> /\ t.target = "INITIAL" /\ writes = Empty
  <2>1. Replied(t, n.about) = protocols
    BY <1>2, <1>7, LateAnswer
  <2> QED BY <1>2, <1>4, <1>7, <2>1, ProverRestarts
<1>8. CASE /\ current = "WAITING2_EMAIL_PROOF" /\ t.sends = <<Formats({"email"})>>
           /\ t.target = "WAITING_NEXT_CMD" /\ writes = Empty
  <2>1. DOMAIN writes = {}
    BY <1>8, EmptyRegisters
  <2>2. {"email"} = {"email"} \cup DOMAIN writes
    BY <2>1
  <2> QED BY <1>2, <1>8, <2>1, <2>2, ProverSpeaks
<1>9. CASE /\ current = "WAITING_NEXT_CMD" /\ n.protocol = "basic_message"
           /\ t.sends = <<Formats({"email", "LINE"})>> /\ t.target = "WAITING_NEXT_CMD"
           /\ writes = Save("LINE", n.about)
  <2>1. DOMAIN writes = {"LINE"} /\ writes["LINE"] \in Contents
    BY <1>3, <1>9, StatusKinds DEF Save
  <2>2. {"email", "LINE"} = {"email"} \cup DOMAIN writes
    BY <2>1
  <2> QED BY <1>2, <1>9, <2>1, <2>2, ProverSpeaks
<1> QED BY <1>1, <1>5, <1>6, <1>7, <1>8, <1>9

\* The echo starts no protocol.
LEMMA EchoStatus ==
  ASSUME Inv, Receives, machine = EchoMachine, NEW n, StatusSteps(n),
         Fire(Transitions[FirstOf(Triggered(n))], InputWrites(Transitions[FirstOf(Triggered(n))], n), n)
  PROVE  Inv'
<1> DEFINE t == Transitions[FirstOf(Triggered(n))]
<1>1. /\ InputWrites(t, n) = Empty /\ t.target \in {"INITIAL", "IDLE"}
      /\ t.sends = <<Says>> \/ t.sends = <<Event("basic_message", "INPUT", {})>>
  BY EchoHears DEF Inv
<1>2. Fire(t, Empty, n)
  BY <1>1
<1> HIDE DEF t
<1>3. PICK send : t.sends = <<send>> /\ send.protocol = "basic_message" /\ send.rule \in {"", "INPUT"}
  <2>1. Says.protocol = "basic_message" /\ Says.rule = ""
    BY DEF Says, Event
  <2>2. Event("basic_message", "INPUT", {}).protocol = "basic_message"
        /\ Event("basic_message", "INPUT", {}).rule = "INPUT"
    BY DEF Event
  <2> QED BY <1>1, <2>1, <2>2
<1>4. t.target \in DOMAIN machine.states /\ DOMAIN Empty = {}
  BY <1>1, InitialStates, EmptyRegisters
<1>5. Replied(t, n.about) = protocols
  BY <1>3, NoReply
<1>6. /\ Typed' /\ Asked' /\ Mailed' /\ Echoes' /\ IssuedToReader' /\ PanicNeedsTwoProofs' /\ FormatsOwnSession'
      /\ \E output : sent' = <<output>> /\ Gives(output, send, Empty)
  BY <1>2, <1>3, <1>4, <1>5, TextSent
<1>7. SpeaksOfAccepted'
  BY <1>3, <1>6, OneText
<1>8. Issues' /\ Proves'
  BY ThreeMachines DEF Issues, Proves, Receives
<1> QED BY <1>6, <1>7, <1>8 DEF Inv

\* The answer the machine gives is the agency's state of the protocol.
LEMMA Answered ==
  ASSUME Typed, NEW t, NEW send, t.sends = <<send>>, send.protocol = "answer", send.data \in {"ACK", "NACK"},
         NEW q \in DOMAIN protocols, protocols[q].state = "WAITING"
  PROVE  /\ Replied(t, q) \in Seq(Protocols) /\ Len(Replied(t, q)) = Len(protocols)
         /\ DOMAIN Replied(t, q) = DOMAIN protocols
         /\ \A p \in DOMAIN protocols : p # q => Replied(t, q)[p] = protocols[p]
         /\ Replied(t, q)[q].state = "ANSWERED" /\ Replied(t, q)[q].kind = protocols[q].kind
         /\ Replied(t, q)[q].attributes = protocols[q].attributes
         /\ Replied(t, q)[q].values = protocols[q].values
         /\ Replied(t, q)[q].ack = (send.data = "ACK")
<1>1. DOMAIN t.sends = {1} /\ t.sends[1] = send
  BY OneElement
<1>2. (Said(t, "ACK") \/ Said(t, "NACK")) /\ Said(t, "ACK") = (send.data = "ACK")
  BY <1>1 DEF Said
<1>3. protocols \in Seq(Protocols) /\ protocols[q] \in Protocols
  BY DEF Typed
<1>4. /\ Replied(t, q) \in Seq(Protocols) /\ Len(Replied(t, q)) = Len(protocols)
      /\ \A p \in DOMAIN protocols : p # q => Replied(t, q)[p] = protocols[p]
      /\ Replied(t, q)[q] = [protocols[q] EXCEPT !.state = "ANSWERED", !.ack = Said(t, "ACK")]
  BY <1>2, <1>3, RepliedTyped
<1>5. DOMAIN Replied(t, q) = DOMAIN protocols
  BY <1>3, <1>4
<1>6. LET new == [protocols[q] EXCEPT !.state = "ANSWERED", !.ack = Said(t, "ACK")]
      IN  /\ new.state = "ANSWERED" /\ new.kind = protocols[q].kind /\ new.ack = Said(t, "ACK")
          /\ new.attributes = protocols[q].attributes /\ new.values = protocols[q].values
  BY <1>3 DEF Protocols
<1> QED BY <1>2, <1>4, <1>5, <1>6

\* The question that is handled, and those behind it.
LEMMA Questioned ==
  ASSUME Inv, questions # <<>>, questions' = Tail(questions)
  PROVE  /\ questions' \in Seq(DOMAIN protocols)
         /\ Head(questions) \in DOMAIN protocols
         /\ protocols[Head(questions)].state = "WAITING" /\ protocols[Head(questions)].kind = "present_proof"
         /\ protocols[Head(questions)].attributes \in Revealed /\ ~protocols[Head(questions)].ack
         /\ \A i \in DOMAIN questions' :
              i + 1 \in DOMAIN questions /\ questions'[i] = questions[i + 1]
              /\ questions'[i] \in DOMAIN protocols /\ questions'[i] # Head(questions)
<1>1. questions \in Seq(DOMAIN protocols) /\ protocols \in Seq(Protocols)
  BY DEF Inv, Typed
<1>2. DOMAIN questions = 1 .. Len(questions) /\ Len(questions) \in Nat /\ Len(questions) # 0
      /\ Head(questions) = questions[1] /\ questions[1] \in DOMAIN protocols
  BY <1>1
<1>3. questions' \in Seq(DOMAIN protocols) /\ Len(questions') = Len(questions) - 1
      /\ \A i \in 1 .. Len(questions') : questions'[i] = questions[i + 1]
  BY <1>1, <1>2
<1>4. \A i \in DOMAIN questions' :
        i + 1 \in DOMAIN questions /\ i + 1 # 1 /\ questions'[i] = questions[i + 1] /\ questions'[i] \in DOMAIN protocols
  BY <1>2, <1>3
<1>5. 1 \in DOMAIN questions
  BY <1>2
<1>6. protocols[Head(questions)] \in Protocols
  BY <1>1, <1>2
<1>7. protocols[Head(questions)].state = "WAITING" /\ protocols[Head(questions)].kind = "present_proof"
  BY <1>2, <1>5 DEF Inv, Asked
<1>8. ~protocols[Head(questions)].ack
  BY <1>2, <1>7 DEF Inv, Asked
<1>9. \A i \in DOMAIN questions' : questions'[i] # Head(questions)
  BY <1>2, <1>4, <1>5 DEF Inv, Asked
<1> QED BY <1>2, <1>3, <1>4, <1>6, <1>7, <1>8, <1>9 DEF Protocols

\* What a question leaves alone.
LEMMA QuestionFrame ==
  ASSUME Inv, machine = ReqProofMachine, UNCHANGED <<machine, statuses, mails>>
  PROVE  Mailed' /\ Issues' /\ Echoes'
<1>1. Mailed'
  BY DEF Inv, Mailed
<1>2. Issues' /\ Echoes'
  BY ThreeMachines DEF Issues, Echoes
<1> QED BY <1>1, <1>2

\* The proof machine is asked and answers.
LEMMA ProverReplies ==
  ASSUME Inv, machine = ReqProofMachine, ~panicked, questions # <<>>, questions' = Tail(questions),
         UNCHANGED <<machine, statuses, foreign, panicked>>, NEW q, q = Head(questions),
         NEW t, NEW send, t.sends = <<send>>, send.protocol = "answer", send.rule \notin {"FORMAT_MEM", "GEN_PIN", "INPUT"},
         NEW writes, NEW n, n.about = q, Fire(t, writes, n),
         \/ send.data = "NACK" /\ t.target = "INITIAL" /\ DOMAIN writes = {}
         \/ /\ send.data = "ACK" /\ t.target = "WAITING2_EMAIL_PROOF"
            /\ \E a \in Addresses :
                 /\ protocols[q].attributes = <<Attribute(EmailAttribute.name, EmailAttribute.credDefId, a)>>
                 /\ writes = Save("email", a)
  PROVE  Inv'
<1>1. Typed
  BY DEF Inv
<1>2. /\ Steps(t, writes) /\ mails' = mails /\ protocols' = Replied(t, q)
      /\ \E output : sent' = <<output>> /\ Gives(output, send, writes)
  BY <1>1, FirePlain
<1>3. /\ questions' \in Seq(DOMAIN protocols) /\ q \in DOMAIN protocols
      /\ protocols[q].state = "WAITING" /\ protocols[q].kind = "present_proof"
      /\ \A i \in DOMAIN questions' :
           i + 1 \in DOMAIN questions /\ questions'[i] = questions[i + 1]
           /\ questions'[i] \in DOMAIN protocols /\ questions'[i] # q
  BY Questioned
<1>4. /\ protocols' \in Seq(Protocols) /\ Len(protocols') = Len(protocols) /\ DOMAIN protocols' = DOMAIN protocols
      /\ \A p \in DOMAIN protocols : p # q => protocols'[p] = protocols[p]
      /\ protocols'[q].state = "ANSWERED" /\ protocols'[q].kind = protocols[q].kind
      /\ protocols'[q].attributes = protocols[q].attributes
      /\ protocols'[q].ack = (send.data = "ACK")
  BY <1>1, <1>2, <1>3, Answered
<1>5. DOMAIN writes \subseteq Registers /\ \A r \in DOMAIN writes : writes[r] \in Contents
  <2>1. CASE DOMAIN writes = {}
    BY <2>1
  <2>2. CASE \E a \in Addresses : writes = Save("email", a)
    <3>1. "email" \in Registers /\ Addresses \subseteq Contents
      BY DEF Registers, EmailAttribute, Contents
    <3> QED BY <2>2, <3>1 DEF Save
  <2> QED BY <2>1, <2>2
<1>6. t.target \in DOMAIN machine.states /\ machine.initial.target = "INITIAL"
  BY InitialStates
<1>7. /\ current' \in DOMAIN machine'.states
      /\ DOMAIN memory' \subseteq Registers /\ \A r \in DOMAIN memory' : memory'[r] \in Contents
      /\ reported' \in BOOLEAN /\ session' \subseteq Registers
  BY <1>1, <1>2, <1>5, <1>6, StepsTyped
<1>8. Typed'
  BY <1>2, <1>3, <1>4, <1>7 DEF Inv, Typed
<1>9. Asked'
  <2>1. \A i, j \in DOMAIN questions' : i # j => questions'[i] # questions'[j]
    <3>1. questions' \in Seq(DOMAIN protocols)
      BY <1>3
    <3>2. \A i, j \in DOMAIN questions' : i # j => i + 1 # j + 1
      BY <3>1
    <3> QED BY <1>3, <3>2 DEF Inv, Asked
  <2>2. \A i \in DOMAIN questions' :
          protocols'[questions'[i]].kind = "present_proof" /\ protocols'[questions'[i]].state = "WAITING"
    <3>1. \A i \in DOMAIN questions :
            protocols[questions[i]].kind = "present_proof" /\ protocols[questions[i]].state = "WAITING"
      BY DEF Inv, Asked
    <3> QED BY <1>3, <1>4, <3>1
  <2>3. \A p \in DOMAIN protocols' : protocols'[p].ack => protocols'[p].state \in {"ANSWERED", "OK", "ERR"}
    <3>1. \A p \in DOMAIN protocols : protocols[p].ack => protocols[p].state \in {"ANSWERED", "OK", "ERR"}
      BY DEF Inv, Asked
    <3> QED BY <1>4, <3>1
  <2> QED BY <2>1, <2>2, <2>3 DEF Asked
<1>10. Mailed' /\ Issues' /\ Echoes'
  BY <1>2, QuestionFrame
<1>11. \A p \in DOMAIN protocols' : protocols'[p].kind = "present_proof"
  BY <1>4 DEF Inv, Proves
<1>12. IssuedToReader' /\ PanicNeedsTwoProofs'
  BY <1>11 DEF IssuedToReader, PanicNeedsTwoProofs
<1>13. SpeaksOfAccepted' /\ FormatsOwnSession'
  <2>1. PICK output : sent' = <<output>> /\ Gives(output, send, writes)
    BY <1>2
  <2>2. DOMAIN sent' = {1} /\ sent'[1] = output
    BY <2>1, OneElement
  <2>3. DOMAIN output.data = {} /\ output.rule \notin {"FORMAT_MEM", "GEN_PIN"}
    BY <2>1, EmptyRegisters DEF Gives
  <2> QED BY <2>2, <2>3 DEF SpeaksOfAccepted, FormatsOwnSession
<1>14. KnowsProof'
  <2>1. CASE t.target = "INITIAL"
    BY <1>2, <2>1 DEF KnowsProof, Steps
  <2>2. CASE /\ send.data = "ACK" /\ t.target = "WAITING2_EMAIL_PROOF"
             /\ \E a \in Addresses :
                  /\ protocols[q].attributes = <<Attribute(EmailAttribute.name, EmailAttribute.credDefId, a)>>
                  /\ writes = Save("email", a)
    <3>1. PICK a \in Addresses :
            /\ protocols[q].attributes = <<Attribute(EmailAttribute.name, EmailAttribute.credDefId, a)>>
            /\ writes = Save("email", a)
      BY <2>2
    <3>2. DOMAIN writes = {"email"} /\ writes["email"] = a
      BY <3>1 DEF Save
    <3>3. "email" \in DOMAIN memory' /\ memory'["email"] = a /\ "email" \in session'
      BY <1>2, <1>6, <2>2, <3>2 DEF Steps
    <3>4. q \in DOMAIN protocols' /\ protocols'[q].ack
            /\ protocols'[q].attributes = <<Attribute(EmailAttribute.name, EmailAttribute.credDefId, a)>>
      BY <1>3, <1>4, <2>2, <3>1
    <3> QED BY <3>3, <3>4 DEF KnowsProof, Accepted
  <2> QED BY <2>1, <2>2
<1>15. Proves'
  BY <1>11, <1>14 DEF Proves
<1> QED BY <1>8, <1>9, <1>10, <1>12, <1>13, <1>15 DEF Inv

\* A question in a state that does not answer it.
LEMMA ProverPasses ==
  ASSUME Inv, machine = ReqProofMachine, ~panicked, questions # <<>>, questions' = Tail(questions),
         UNCHANGED <<machine, statuses, foreign, current, reported, session, protocols, mails>>, sent' = <<>>,
         DOMAIN memory' = DOMAIN memory, \A r \in DOMAIN memory : memory'[r] = memory[r],
         panicked' \in BOOLEAN, panicked' => current = "WAITING2_EMAIL_PROOF"
  PROVE  Inv'
<1>1. /\ questions' \in Seq(DOMAIN protocols) /\ Head(questions) \in DOMAIN protocols
      /\ protocols[Head(questions)].state = "WAITING" /\ ~protocols[Head(questions)].ack
      /\ \A i \in DOMAIN questions' : i + 1 \in DOMAIN questions /\ questions'[i] = questions[i + 1]
  BY Questioned
<1>2. Typed'
  BY <1>1 DEF Inv, Typed
<1>3. Asked'
  <2>1. \A i, j \in DOMAIN questions' : i # j => i + 1 # j + 1
    BY <1>1
  <2> QED BY <1>1, <2>1 DEF Inv, Asked
<1>4. Mailed' /\ Issues' /\ Echoes'
  BY QuestionFrame
<1>5. IssuedToReader' /\ SpeaksOfAccepted' /\ FormatsOwnSession'
  BY Silent DEF Inv, IssuedToReader
<1>6. Proves'
  BY DEF Inv, Proves, KnowsProof, Accepted
<1>7. PanicNeedsTwoProofs'
  <2> SUFFICES ASSUME current = "WAITING2_EMAIL_PROOF" PROVE PanicNeedsTwoProofs'
    BY DEF PanicNeedsTwoProofs
  <2>1. PICK p \in DOMAIN protocols : protocols[p].ack
    BY DEF Inv, Proves, KnowsProof, Accepted
  <2> QED BY <1>1, <2>1 DEF PanicNeedsTwoProofs
<1> QED BY <1>2, <1>3, <1>4, <1>5, <1>6, <1>7 DEF Inv

\* A question, to whatever machine.
LEMMA QuestionStep ==
  ASSUME Inv, Running \subseteq BuiltIn, QuestionReceived
  PROVE  Inv'
<1> DEFINE q == Head(questions)
           given == protocols[q].attributes
           t == Transitions[FirstOf(Answering(given))]
           writes == AnswerWrites(given)
           n == Status("present_proof", q)
           nack == Event("answer", "", "NACK")
           ack == Event("answer", "", "ACK")
<1>1. /\ ~panicked /\ questions # <<>> /\ questions' = Tail(questions)
      /\ UNCHANGED <<machine, statuses, foreign>>
      /\ \/ /\ Panics(given) /\ panicked' = TRUE /\ sent' = <<>> /\ UNCHANGED <<machineVars, protocols, mails>>
         \/ /\ ~Panics(given) /\ Answering(given) # {} /\ Fire(t, writes, n) /\ UNCHANGED panicked
         \/ /\ ~Panics(given) /\ Answering(given) = {} /\ sent' = <<>> /\ memory' = Write(writes, memory)
            /\ UNCHANGED <<current, reported, session, protocols, mails, panicked>>
  BY DEF QuestionReceived, TakeQuestion
<1>2. machine = ReqProofMachine
  BY <1>1, NoQuestions
<1>3. given \in Revealed
  BY <1>1, Questioned
<1>4. \/ Panics(given) /\ current = "WAITING2_EMAIL_PROOF"
      \/ /\ ~Panics(given) /\ Answering(given) # {} /\ current = "WAITING_EMAIL_PROOF_QA"
         /\ \/ t.sends = <<nack>> /\ t.target = "INITIAL" /\ DOMAIN writes = {}
            \/ /\ t.sends = <<ack>> /\ t.target = "WAITING2_EMAIL_PROOF"
               /\ \E a \in Addresses :
                    /\ given = <<Attribute(EmailAttribute.name, EmailAttribute.credDefId, a)>>
                    /\ writes = Save("email", a)
      \/ ~Panics(given) /\ Answering(given) = {} /\ DOMAIN writes = {}
  BY <1>2, <1>3, ProverAnswers DEF Inv
<1>5. /\ nack.protocol = "answer" /\ nack.rule \notin {"FORMAT_MEM", "GEN_PIN", "INPUT"} /\ nack.data = "NACK"
      /\ ack.protocol = "answer" /\ ack.rule \notin {"FORMAT_MEM", "GEN_PIN", "INPUT"} /\ ack.data = "ACK"
      /\ n.about = q
  BY DEF Event, Status
<1> HIDE DEF writes, t, n, nack, ack
<1>6. CASE Panics(given)
  BY <1>1, <1>2, <1>4, <1>6, ProverPasses DEF machineVars
<1>7. CASE ~Panics(given) /\ Answering(given) # {}
  <2>1. Fire(t, writes, n) /\ UNCHANGED panicked
    BY <1>1, <1>7
  <2>2. CASE t.sends = <<nack>> /\ t.target = "INITIAL" /\ DOMAIN writes = {}
    BY <1>1, <1>2, <1>5, <2>1, <2>2, ProverReplies
  <2>3. CASE /\ t.sends = <<ack>> /\ t.target = "WAITING2_EMAIL_PROOF"
             /\ \E a \in Addresses :
                  /\ given = <<Attribute(EmailAttribute.name, EmailAttribute.credDefId, a)>>
                  /\ writes = Save("email", a)
    BY <1>1, <1>2, <1>5, <2>1, <2>3, ProverReplies
  <2> QED BY <1>4, <1>7, <2>2, <2>3
<1>8. CASE ~Panics(given) /\ Answering(given) = {}
  <2>1. memory' = Write(writes, memory) /\ DOMAIN writes = {}
    BY <1>1, <1>4, <1>8
  <2>2. DOMAIN memory' = DOMAIN memory /\ \A r \in DOMAIN memory : memory'[r] = memory[r]
    BY <2>1 DEF Write
  <2>3. panicked' \in BOOLEAN /\ ~panicked'
    BY <1>1, <1>8 DEF Inv, Typed
  <2>4. /\ ~panicked /\ questions # <<>> /\ questions' = Tail(questions) /\ sent' = <<>>
        /\ UNCHANGED <<machine, statuses, foreign, current, reported, session, protocols, mails>>
    BY <1>1, <1>8
  <2> QED BY <1>2, <2>2, <2>3, <2>4, ProverPasses
<1> QED BY <1>6, <1>7, <1>8
-----------------------------------------------------------------------------
(* The user and the agency.                                                  *)

\* What happens outside leaves the machine where it is.
LEMMA OutsideFrame ==
  ASSUME Inv, Outside
  PROVE  /\ SpeaksOfAccepted' /\ FormatsOwnSession' /\ PanicNeedsTwoProofs'
         /\ UNCHANGED <<machine, current, memory, reported, session, mails, panicked>>
<1>1. ~panicked' /\ sent' = <<>>
      /\ UNCHANGED <<machine, current, memory, reported, session, mails, panicked>>
  BY DEF Outside, machineVars
<1> QED BY <1>1, Silent DEF PanicNeedsTwoProofs

\* A notification of the agency, or what the user says after reading its mail.
LEMMA NotifiedOutside ==
  ASSUME Inv, Outside, NEW status \in Statuses, Notify(status),
         status.protocol = "basic_message" /\ status.about \in Pins =>
           \E m \in mails : m.pin = status.about /\ m.to \in Own
  PROVE  Mailed'
<1>1. \A i \in DOMAIN statuses' :
        \/ i \in DOMAIN statuses /\ statuses'[i] = statuses[i]
        \/ statuses'[i] = status
  BY Notified DEF Inv
<1>2. mails' = mails
  BY OutsideFrame
<1> QED BY <1>1, <1>2 DEF Inv, Mailed

\* The user says something: a PIN only when it has read it.
LEMMA SayStep ==
  ASSUME Inv, Say
  PROVE  Inv'
<1>1. PICK c \in Words \cup Addresses \cup {m.pin : m \in {x \in mails : x.to \in Own}} :
        Notify(Status("basic_message", c))
  BY DEF Say
<1> DEFINE status == Status("basic_message", c)
<1>2. Outside /\ UNCHANGED <<questions, protocols, foreign>>
  BY DEF Say
<1>3. /\ SpeaksOfAccepted' /\ FormatsOwnSession' /\ PanicNeedsTwoProofs'
      /\ UNCHANGED <<machine, current, memory, reported, session, mails, panicked>>
  BY <1>2, OutsideFrame
<1>4. status.protocol = "basic_message" /\ status.about = c
  BY DEF Status
<1>5. c \in Contents
  <2>1. mails \subseteq [to : Contents, pin : Pins]
    BY DEF Inv, Typed
  <2> QED BY <2>1 DEF Contents
<1>6. status \in Statuses
  BY <1>5 DEF Status, Statuses
<1> HIDE DEF status
<1>7. c \in Pins => \E m \in mails : m.pin = c /\ m.to \in Own
  BY ContentsDiffer
<1>8. Mailed'
  BY <1>1, <1>2, <1>4, <1>6, <1>7, NotifiedOutside DEF status
<1>9. /\ statuses' \in Seq(Statuses) /\ Len(statuses') <= MaxQueue
      /\ \A i \in DOMAIN statuses' :
           \/ i \in DOMAIN statuses /\ statuses'[i] = statuses[i]
           \/ statuses'[i] = status /\ i = Len(statuses')
  BY <1>1, <1>6, Notified DEF Inv, status
<1>10. Typed'
  BY <1>2, <1>3, <1>9 DEF Inv, Typed
<1>11. Asked' /\ IssuedToReader' /\ Echoes' /\ Proves'
  BY <1>2, <1>3 DEF Inv, Asked, IssuedToReader, Echoes, Proves, KnowsProof, Accepted
<1>12. Issues'
  <2> SUFFICES ASSUME machine = EmailIssuerMachine PROVE KnowsMail' /\ OneIssue'
    BY <1>3 DEF Issues
  <2>1. KnowsMail /\ OneIssue
    BY DEF Inv, Issues
  <2>2. KnowsMail'
    BY <1>3, <2>1 DEF KnowsMail
  <2>3. \A i, j \in DOMAIN statuses' : i < j => i # Len(statuses')
    BY <1>9
  <2>4. OneIssue'
    <3>1. ASSUME InTurn PROVE InTurn'
      BY <1>2, <1>3, <1>4, <1>9, <2>3, <3>1 DEF InTurn
    <3> QED BY <1>2, <1>3, <2>1, <3>1 DEF OneIssue, OtherIssued
  <2> QED BY <2>2, <2>4
<1> QED BY <1>3, <1>8, <1>10, <1>11, <1>12 DEF Inv

\* A status about a protocol of the bot.
LEMMA ProtocolStatus ==
  ASSUME Typed, NEW p \in DOMAIN protocols
  PROVE  /\ Status(protocols[p].kind, p) \in Statuses
         /\ Status(protocols[p].kind, p).protocol = protocols[p].kind
         /\ Status(protocols[p].kind, p).about = p
         /\ protocols[p].kind \in {"issue_cred", "present_proof"}
<1>1. protocols \in Seq(Protocols) /\ Len(protocols) <= MaxStarted /\ MaxStarted \in Nat
  BY BoundsAssumption DEF Typed
<1>2. p \in 0 .. MaxStarted
  BY <1>1
<1>3. protocols[p] \in Protocols
  BY <1>1
<1>4. protocols[p].kind \in {"issue_cred", "present_proof"}
  BY <1>3 DEF Protocols, Kinds
<1> QED BY <1>2, <1>4 DEF Status, Statuses, Kinds

\* The email issuer is told of a protocol that goes on or ends: it waits for it.
LEMMA IssueNotified ==
  ASSUME Inv, machine = EmailIssuerMachine, Outside, NEW p \in DOMAIN protocols,
         protocols[p].state # "OK", Notify(Status(protocols[p].kind, p)), foreign' = foreign,
         DOMAIN protocols' = DOMAIN protocols, Len(protocols') = Len(protocols),
         \A q \in DOMAIN protocols : protocols'[q].kind = protocols[q].kind,
         \A q \in DOMAIN protocols : q # p => protocols'[q].state = protocols[q].state
  PROVE  Issues'
<1>1. KnowsMail /\ OneIssue
  BY DEF Inv, Issues
<1>2. UNCHANGED <<machine, current, memory, reported, session, mails, panicked>>
  BY OutsideFrame
<1>3. \A i \in DOMAIN statuses' :
        \/ i \in DOMAIN statuses /\ statuses'[i] = statuses[i]
        \/ statuses'[i] = Status(protocols[p].kind, p)
  BY ProtocolStatus, Notified DEF Inv
<1>4. ASSUME InTurn PROVE InTurn'
  <2>1. current = "WAITING_ISSUING_STATUS" /\ p = Len(protocols) /\ p # 0
    <3>1. protocols \in Seq(Protocols)
      BY DEF Inv, Typed
    <3>2. p # 0
      BY <3>1
    <3> QED BY <1>4, <3>2 DEF InTurn
  <2>2. \A i \in DOMAIN statuses' :
          statuses'[i].protocol = "issue_cred" => statuses'[i].about = Len(protocols) /\ statuses'[i].about # 0
    BY <1>3, <1>4, <2>1, ProtocolStatus DEF InTurn, Inv
  <2>3. \A q \in DOMAIN protocols : protocols'[q].state # "OK" => q = Len(protocols)
    BY <1>4, <2>1 DEF InTurn
  <2> QED BY <1>2, <2>1, <2>2, <2>3 DEF InTurn
<1>5. OneIssue'
  BY <1>1, <1>2, <1>4 DEF OneIssue, OtherIssued
<1>6. KnowsMail'
  BY <1>1, <1>2 DEF KnowsMail
<1> QED BY <1>5, <1>6 DEF Issues

\* A protocol that goes on is notified of.
LEMMA ProgressStep ==
  ASSUME Inv, NEW p \in DOMAIN protocols, Progress(p)
  PROVE  Inv'
<1> DEFINE status == Status(protocols[p].kind, p)
<1>1. /\ Notify(status) /\ Outside /\ UNCHANGED <<questions, protocols, foreign>>
      /\ protocols[p].state \in {"RUNNING", "WAITING", "ANSWERED"}
  BY DEF Progress
<1>2. /\ SpeaksOfAccepted' /\ FormatsOwnSession' /\ PanicNeedsTwoProofs'
      /\ UNCHANGED <<machine, current, memory, reported, session, mails, panicked>>
  BY <1>1, OutsideFrame
<1>3. status \in Statuses /\ status.protocol # "basic_message"
  BY ProtocolStatus DEF Inv
<1>4. Issues'
  <2>1. CASE machine = EmailIssuerMachine
    BY <1>1, <2>1, IssueNotified
  <2>2. CASE machine # EmailIssuerMachine
    BY <1>2, <2>2 DEF Issues
  <2> QED BY <2>1, <2>2
<1> HIDE DEF status
<1>5. Mailed'
  BY <1>1, <1>3, NotifiedOutside
<1>6. statuses' \in Seq(Statuses) /\ Len(statuses') <= MaxQueue
  BY <1>1, <1>3, Notified DEF Inv
<1>7. Typed'
  BY <1>1, <1>2, <1>6 DEF Inv, Typed
<1>8. Asked' /\ IssuedToReader' /\ Echoes' /\ Proves'
  BY <1>1, <1>2 DEF Inv, Asked, IssuedToReader, Echoes, Proves, KnowsProof, Accepted
<1> QED BY <1>2, <1>4, <1>5, <1>7, <1>8 DEF Inv

\* A proof that was accepted stays so when another protocol goes on.
LEMMA StaysAccepted ==
  ASSUME Inv, machine = ReqProofMachine, UNCHANGED <<machine, current, memory, session>>,
         DOMAIN protocols' = DOMAIN protocols,
         \A q \in DOMAIN protocols :
           /\ protocols'[q].kind = protocols[q].kind
           /\ protocols[q].ack => protocols'[q].ack /\ protocols'[q].attributes = protocols[q].attributes
  PROVE  Proves'
<1>1. KnowsProof /\ \A q \in DOMAIN protocols : protocols[q].kind = "present_proof"
  BY DEF Inv, Proves
<1>2. \A value : Accepted(value) => \E q \in DOMAIN protocols' : protocols'[q].ack
        /\ protocols'[q].attributes = <<Attribute(EmailAttribute.name, EmailAttribute.credDefId, value)>>
  BY DEF Accepted
<1>3. KnowsProof'
  BY <1>1, <1>2 DEF KnowsProof, Accepted
<1> QED BY <1>1, <1>3 DEF Proves

\* The user presents a proof, and the bot is asked about it.
LEMMA PresentStep ==
  ASSUME Inv, NEW p \in DOMAIN protocols, Present(p)
  PROVE  Inv'
<1>1. PICK attributes \in Revealed :
        protocols' = [protocols EXCEPT ![p].state = "WAITING", ![p].attributes = attributes]
  BY DEF Present
<1>2. /\ protocols[p].kind = "present_proof" /\ protocols[p].state = "RUNNING"
      /\ questions' = Append(questions, p) /\ Outside /\ UNCHANGED <<statuses, foreign>>
  BY DEF Present
<1>3. /\ SpeaksOfAccepted' /\ FormatsOwnSession' /\ PanicNeedsTwoProofs'
      /\ UNCHANGED <<machine, current, memory, reported, session, mails, panicked>>
  BY <1>2, OutsideFrame
<1>4. protocols \in Seq(Protocols) /\ questions \in Seq(DOMAIN protocols) /\ Len(protocols) <= MaxStarted
  BY DEF Inv, Typed
<1>5. /\ protocols' \in Seq(Protocols) /\ Len(protocols') = Len(protocols) /\ DOMAIN protocols' = DOMAIN protocols
      /\ \A q \in DOMAIN protocols : q # p => protocols'[q] = protocols[q]
      /\ protocols'[p].state = "WAITING" /\ protocols'[p].kind = protocols[p].kind
      /\ protocols'[p].ack = protocols[p].ack /\ protocols'[p].values = protocols[p].values
  <2> DEFINE new == [protocols[p] EXCEPT !.state = "WAITING", !.attributes = attributes]
  <2>1. protocols[p] \in Protocols
    BY <1>4
  <2>2. /\ new \in Protocols /\ new.state = "WAITING" /\ new.kind = protocols[p].kind
        /\ new.ack = protocols[p].ack /\ new.values = protocols[p].values
    BY <2>1 DEF Protocols
  <2>3. protocols' = [protocols EXCEPT ![p] = new]
    BY <1>1, <2>1 DEF Protocols
  <2> HIDE DEF new
  <2> QED BY <1>4, <2>2, <2>3
<1>6. ~protocols[p].ack /\ \A i \in DOMAIN questions : questions[i] # p
  BY <1>2 DEF Inv, Asked
<1>7. /\ questions' \in Seq(DOMAIN protocols) /\ Len(questions) \in Nat
      /\ \A i \in DOMAIN questions' :
           \/ i \in DOMAIN questions /\ questions'[i] = questions[i]
           \/ i = Len(questions) + 1 /\ questions'[i] = p
  BY <1>2, <1>4
<1>8. Typed'
  BY <1>2, <1>3, <1>5, <1>7 DEF Inv, Typed
<1>9. Asked'
  <2>1. \A i \in DOMAIN questions' :
          protocols'[questions'[i]].kind = "present_proof" /\ protocols'[questions'[i]].state = "WAITING"
    <3>1. \A i \in DOMAIN questions : /\ questions[i] \in DOMAIN protocols
                                      /\ protocols[questions[i]].kind = "present_proof"
                                      /\ protocols[questions[i]].state = "WAITING"
      BY <1>4 DEF Inv, Asked
    <3> QED BY <1>2, <1>5, <1>6, <1>7, <3>1
  <2>2. \A i, j \in DOMAIN questions' : i # j => questions'[i] # questions'[j]
    BY <1>6, <1>7 DEF Inv, Asked
  <2>3. \A q \in DOMAIN protocols' : protocols'[q].ack => protocols'[q].state \in {"ANSWERED", "OK", "ERR"}
    BY <1>5, <1>6 DEF Inv, Asked
  <2> QED BY <2>1, <2>2, <2>3 DEF Asked
<1>10. Mailed'
  BY <1>2, <1>3 DEF Inv, Mailed
<1>11. IssuedToReader'
  BY <1>5 DEF Inv, IssuedToReader
<1>12. Echoes' /\ Issues'
  <2>1. machine # EmailIssuerMachine
    BY <1>2 DEF Inv, Issues, OneIssue
  <2>2. machine # EchoMachine
    <3> SUFFICES ASSUME machine = EchoMachine PROVE FALSE
      OBVIOUS
    <3>1. protocols = <<>>
      BY DEF Inv, Echoes
    <3> QED BY <3>1
  <2> QED BY <1>3, <2>1, <2>2 DEF Echoes, Issues
<1>13. Proves'
  <2>1. CASE machine = ReqProofMachine
    BY <1>3, <1>5, <1>6, <2>1, StaysAccepted
  <2>2. CASE machine # ReqProofMachine
    BY <1>3, <2>2 DEF Proves
  <2> QED BY <2>1, <2>2
<1> QED BY <1>3, <1>8, <1>9, <1>10, <1>11, <1>12, <1>13 DEF Inv

\* A protocol ends.
LEMMA SettleStep ==
  ASSUME Inv, NEW p \in DOMAIN protocols, Settle(p)
  PROVE  Inv'
<1> DEFINE status == Status(protocols[p].kind, p)
<1>1. PICK state \in {"OK", "ERR"} : Becomes(p, state)
  BY DEF Settle
<1>2. /\ protocols[p].state \in {"RUNNING", "ANSWERED"}
      /\ Notify(status) /\ Outside /\ UNCHANGED <<questions, foreign>>
  BY DEF Settle
<1>3. /\ SpeaksOfAccepted' /\ FormatsOwnSession' /\ PanicNeedsTwoProofs'
      /\ UNCHANGED <<machine, current, memory, reported, session, mails, panicked>>
  BY <1>2, OutsideFrame
<1>4. protocols \in Seq(Protocols) /\ questions \in Seq(DOMAIN protocols) /\ Len(protocols) <= MaxStarted
  BY DEF Inv, Typed
<1>5. /\ protocols' \in Seq(Protocols) /\ Len(protocols') = Len(protocols) /\ DOMAIN protocols' = DOMAIN protocols
      /\ \A q \in DOMAIN protocols : q # p => protocols'[q] = protocols[q]
      /\ protocols'[p].state = state /\ protocols'[p].kind = protocols[p].kind
      /\ protocols'[p].ack = protocols[p].ack /\ protocols'[p].values = protocols[p].values
      /\ protocols'[p].attributes = protocols[p].attributes
  <2> DEFINE new == [protocols[p] EXCEPT !.state = state]
  <2>1. protocols[p] \in Protocols
    BY <1>4
  <2>2. /\ new \in Protocols /\ new.state = state /\ new.kind = protocols[p].kind
        /\ new.ack = protocols[p].ack /\ new.values = protocols[p].values /\ new.attributes = protocols[p].attributes
    BY <2>1 DEF Protocols
  <2>3. protocols' = [protocols EXCEPT ![p] = new]
    BY <1>1 DEF Becomes
  <2> HIDE DEF new
  <2> QED BY <1>4, <2>2, <2>3
<1>6. \A i \in DOMAIN questions : questions[i] # p
  BY <1>2 DEF Inv, Asked
<1>7. status \in Statuses /\ status.protocol # "basic_message"
  BY ProtocolStatus DEF Inv
<1>8. Issues'
  <2>1. CASE machine = EmailIssuerMachine
    <3>1. protocols[p].state # "OK"
      BY <1>2
    <3>2. \A q \in DOMAIN protocols : /\ protocols'[q].kind = protocols[q].kind
                                      /\ q # p => protocols'[q].state = protocols[q].state
      BY <1>5
    <3> QED BY <1>2, <1>5, <2>1, <3>1, <3>2, IssueNotified
  <2>2. CASE machine # EmailIssuerMachine
    BY <1>3, <2>2 DEF Issues
  <2> QED BY <2>1, <2>2
<1> HIDE DEF status
<1>9. Mailed'
  BY <1>2, <1>7, NotifiedOutside
<1>10. statuses' \in Seq(Statuses) /\ Len(statuses') <= MaxQueue
  BY <1>2, <1>7, Notified DEF Inv
<1>11. Typed'
  BY <1>2, <1>3, <1>5, <1>10 DEF Inv, Typed
<1>12. Asked'
  <2>1. \A i \in DOMAIN questions : questions[i] \in DOMAIN protocols
    BY <1>4
  <2>2. \A q \in DOMAIN protocols' : protocols'[q].ack => protocols'[q].state \in {"ANSWERED", "OK", "ERR"}
    BY <1>5 DEF Inv, Asked
  <2> QED BY <1>2, <1>5, <1>6, <2>1, <2>2 DEF Inv, Asked
<1>13. IssuedToReader'
  BY <1>5 DEF Inv, IssuedToReader
<1>14. Echoes'
  <2>1. machine # EchoMachine
    <3> SUFFICES ASSUME machine = EchoMachine PROVE FALSE
      OBVIOUS
    <3>1. protocols = <<>>
      BY DEF Inv, Echoes
    <3> QED BY <3>1
  <2> QED BY <1>3, <2>1 DEF Echoes
<1>15. Proves'
  <2>1. CASE machine = ReqProofMachine
    BY <1>3, <1>5, <2>1, StaysAccepted
  <2>2. CASE machine # ReqProofMachine
    BY <1>3, <2>2 DEF Proves
  <2> QED BY <2>1, <2>2
<1> QED BY <1>3, <1>8, <1>9, <1>11, <1>12, <1>13, <1>14, <1>15 DEF Inv

\* The other end has issued a credential or had a proof: none of the bot's own.
LEMMA OtherStep ==
  ASSUME Inv, OtherCompletes
  PROVE  Inv'
<1>1. PICK kind \in Kinds : foreign' = Append(foreign, kind) /\ Notify(Status(kind, 0))
  BY DEF OtherCompletes
<1>2. Outside /\ UNCHANGED <<questions, protocols>> /\ Len(foreign) < MaxForeign
  BY DEF OtherCompletes
<1>3. /\ SpeaksOfAccepted' /\ FormatsOwnSession' /\ PanicNeedsTwoProofs'
      /\ UNCHANGED <<machine, current, memory, reported, session, mails, panicked>>
  BY <1>2, OutsideFrame
<1> DEFINE status == Status(kind, 0)
<1>4. status \in Statuses /\ status.protocol = kind /\ kind # "basic_message"
  <2>1. 0 \in 0 .. MaxStarted
    BY BoundsAssumption
  <2> QED BY <2>1 DEF Status, Statuses, Kinds
<1> HIDE DEF status
<1>5. Mailed'
  BY <1>1, <1>2, <1>4, NotifiedOutside DEF status
<1>6. /\ statuses' \in Seq(Statuses) /\ Len(statuses') <= MaxQueue
      /\ \A i \in DOMAIN statuses' :
           \/ i \in DOMAIN statuses /\ statuses'[i] = statuses[i]
           \/ statuses'[i] = status
  BY <1>1, <1>4, Notified DEF Inv, status
<1>7. /\ foreign' \in Seq(Kinds) /\ Len(foreign') <= MaxForeign
      /\ Len(foreign) \in Nat /\ Len(foreign') = Len(foreign) + 1
      /\ \A i \in DOMAIN foreign : i \in DOMAIN foreign' /\ foreign'[i] = foreign[i]
      /\ Len(foreign') \in DOMAIN foreign' /\ foreign'[Len(foreign')] = kind
  <2>1. foreign \in Seq(Kinds) /\ MaxForeign \in Nat
    BY BoundsAssumption DEF Inv, Typed
  <2> QED BY <1>1, <1>2, <2>1
<1>8. Typed'
  BY <1>2, <1>3, <1>6, <1>7 DEF Inv, Typed
<1>9. Asked' /\ IssuedToReader' /\ Echoes' /\ Proves'
  BY <1>2, <1>3 DEF Inv, Asked, IssuedToReader, Echoes, Proves, KnowsProof, Accepted
<1>10. Issues'
  <2> SUFFICES ASSUME machine = EmailIssuerMachine PROVE KnowsMail' /\ OneIssue'
    BY <1>3 DEF Issues
  <2>1. KnowsMail /\ OneIssue
    BY DEF Inv, Issues
  <2>2. KnowsMail'
    BY <1>3, <2>1 DEF KnowsMail
  <2>3. CASE OtherIssued \/ kind = "issue_cred"
    <3>1. OtherIssued'
      BY <1>7, <2>3 DEF OtherIssued
    <3> QED BY <1>2, <1>3, <2>1, <2>2, <3>1 DEF OneIssue
  <2>4. CASE InTurn /\ kind # "issue_cred"
    <3>1. \A i \in DOMAIN statuses' : statuses'[i].protocol = "issue_cred" =>
            i \in DOMAIN statuses /\ statuses'[i] = statuses[i]
      BY <1>4, <1>6, <2>4
    <3>2. InTurn'
      BY <1>2, <1>3, <1>4, <1>6, <2>4, <3>1 DEF InTurn, Status
    <3> QED BY <1>2, <1>3, <2>1, <2>2, <3>2 DEF OneIssue
  <2> QED BY <2>1, <2>3, <2>4 DEF OneIssue
<1> QED BY <1>3, <1>5, <1>8, <1>9, <1>10 DEF Inv
-----------------------------------------------------------------------------
(* The theorems.                                                             *)

\* A status, to whatever machine.
LEMMA StatusStep ==
  ASSUME Inv, Running \subseteq BuiltIn, StatusReceived
  PROVE  /\ Inv'
         /\ machine = EmailIssuerMachine /\ current = "WAITING_ISSUING_STATUS" /\ current' = "IDLE"
              => OtherIssued \/ protocols[Len(protocols)].state = "OK"
<1> DEFINE n == Head(statuses)
           t == Transitions[FirstOf(Triggered(n))]
<1>1. Receives
  BY DEF StatusReceived, Receives
<1>2. CASE StatusSteps(n) /\ Fire(t, InputWrites(t, n), n)
  <2>1. CASE machine = EmailIssuerMachine
    BY <1>1, <1>2, <2>1, IssuerStatus
  <2>2. CASE machine = ReqProofMachine
    BY <1>1, <1>2, <2>2, ProverStatus, ThreeMachines
  <2>3. CASE machine = EchoMachine
    BY <1>1, <1>2, <2>3, EchoStatus, ThreeMachines
  <2> QED BY <2>1, <2>2, <2>3 DEF Inv, Typed, BuiltIn
<1>3. CASE sent' = <<>> /\ UNCHANGED <<machineVars, protocols, mails>>
  <2>1. Inv'
    BY <1>1, <1>3, StatusDropped
  <2>2. current' = current
    BY <1>3 DEF machineVars
  <2> QED BY <2>1, <2>2
<1> QED BY <1>2, <1>3 DEF StatusReceived

\* The machine starts with nothing remembered, asked or mailed.
LEMMA Starts ==
  ASSUME Init, Running \subseteq BuiltIn
  PROVE  Inv
<1>1. /\ machine \in BuiltIn /\ machine \in Running /\ current = machine.initial.target
      /\ memory = Empty /\ reported = FALSE /\ session = {} /\ mails = {} /\ panicked = FALSE
  BY DEF Init
<1>2. current \in DOMAIN machine.states /\ current \in {"IDLE", "INITIAL"}
  BY <1>1, InitialStates DEF BuiltIn
<1>3. questions = <<>> /\ protocols = <<>> /\ foreign = <<>>
  BY DEF Init
<1>4. /\ statuses \in Seq(Statuses) /\ Len(statuses) <= MaxQueue
      /\ \A i \in DOMAIN statuses : statuses[i].protocol = "connection"
  <2> DEFINE status == Status("connection", 0)
  <2>1. status \in Statuses /\ status.protocol = "connection"
    BY DEF Status, Statuses
  <2>2. statuses \in {<<>>, <<status>>}
    BY DEF Init
  <2> HIDE DEF status
  <2>3. MaxQueue \in Nat \ {0}
    BY BoundsAssumption
  <2>4. CASE statuses = <<>>
    BY <2>3, <2>4
  <2>5. CASE statuses = <<status>>
    <3>1. DOMAIN statuses = {1} /\ statuses[1] = status /\ Len(statuses) = 1
      BY <2>5, OneElement
    <3>2. statuses \in Seq(Statuses)
      BY <2>1, <2>5
    <3> QED BY <2>1, <2>3, <3>1, <3>2
  <2> QED BY <2>2, <2>4, <2>5
<1>5. DOMAIN memory = {}
  BY <1>1, EmptyRegisters
<1>6. DOMAIN protocols = {} /\ DOMAIN questions = {} /\ Len(protocols) = 0
      /\ protocols \in Seq(Protocols) /\ questions \in Seq(DOMAIN protocols)
  BY <1>3
<1>7. Typed
  <2>1. Len(protocols) <= MaxStarted /\ foreign \in Seq(Kinds) /\ Len(foreign) <= MaxForeign
    BY <1>3, <1>6, BoundsAssumption
  <2>2. reported \in BOOLEAN /\ panicked \in BOOLEAN /\ session \subseteq Registers
    BY <1>1
  <2>3. machine \in Running /\ mails \subseteq [to : Contents, pin : Pins]
    BY <1>1
  <2>4. DOMAIN memory \subseteq Registers /\ \A r \in DOMAIN memory : memory[r] \in Contents
    BY <1>5
  <2> QED BY <1>2, <1>4, <1>6, <2>1, <2>2, <2>3, <2>4 DEF Typed
<1>8. Asked /\ IssuedToReader
  BY <1>6 DEF Asked, IssuedToReader
<1>9. PanicNeedsTwoProofs
  BY <1>1 DEF PanicNeedsTwoProofs
<1>10. Mailed
  BY <1>1, <1>4 DEF Mailed
<1>11. Issues /\ Proves /\ Echoes
  <2>1. InTurn
    BY <1>2, <1>4, <1>6 DEF InTurn
  <2> QED BY <1>2, <1>3, <1>6, <2>1 DEF Issues, Proves, Echoes, KnowsMail, OneIssue, KnowsProof
<1>12. \A i \in DOMAIN sent : sent[i].data = Empty /\ sent[i].rule \notin {"FORMAT_MEM", "GEN_PIN"}
  BY DEF Init
<1>13. SpeaksOfAccepted /\ FormatsOwnSession
  BY <1>12, EmptyRegisters DEF SpeaksOfAccepted, FormatsOwnSession
<1> QED BY <1>7, <1>8, <1>9, <1>10, <1>11, <1>13 DEF Inv

\* Every step keeps the invariant.
LEMMA Preserved ==
  ASSUME Inv, Running \subseteq BuiltIn, [Next]_vars
  PROVE  Inv'
<1>1. CASE StatusReceived
  BY <1>1, StatusStep
<1>2. CASE QuestionReceived
  BY <1>2, QuestionStep
<1>3. CASE Say
  BY <1>3, SayStep
<1>4. CASE \E p \in DOMAIN protocols : Progress(p) \/ Present(p) \/ Settle(p)
  BY <1>4, ProgressStep, PresentStep, SettleStep
<1>5. CASE OtherCompletes
  BY <1>5, OtherStep
<1>6. CASE UNCHANGED vars
  <2>1. /\ UNCHANGED <<machine, current, memory, reported, session, statuses, questions>>
        /\ UNCHANGED <<protocols, foreign, mails, sent, panicked>>
    BY <1>6 DEF vars, machineVars
  <2>2. Typed' /\ Asked' /\ Mailed'
    BY <2>1 DEF Inv, Typed, Asked, Mailed
  <2>3. Issues' /\ Proves' /\ Echoes'
    BY <2>1 DEF Inv, Issues, KnowsMail, OneIssue, OtherIssued, InTurn, Proves, KnowsProof, Accepted, Echoes
  <2>4. IssuedToReader' /\ SpeaksOfAccepted' /\ FormatsOwnSession' /\ PanicNeedsTwoProofs'
    BY <2>1 DEF Inv, IssuedToReader, SpeaksOfAccepted, FormatsOwnSession, PanicNeedsTwoProofs
  <2> QED BY <2>2, <2>3, <2>4 DEF Inv
<1> QED BY <1>1, <1>2, <1>3, <1>4, <1>5, <1>6 DEF Next

\* The invariant holds of every run of the built-in machines.
LEMMA Invariant ==
  Running \subseteq BuiltIn => (Spec => []Inv)
<1> SUFFICES ASSUME Running \subseteq BuiltIn PROVE Spec => []Inv
  OBVIOUS
<1>1. Init => Inv
  BY Starts
<1>2. Inv /\ [Next]_vars => Inv'
  BY Preserved
<1> QED BY <1>1, <1>2, PTL DEF Spec

\* The invariant says what its parts say.
LEMMA TypedIsTypeOK ==
  ASSUME Typed
  PROVE  TypeOK
<1>1. /\ protocols \in Seq(Protocols) /\ Len(protocols) <= MaxStarted
      /\ statuses \in Seq(Statuses) /\ Len(statuses) <= MaxQueue
      /\ questions \in Seq(DOMAIN protocols)
      /\ foreign \in Seq(Kinds) /\ Len(foreign) <= MaxForeign
  BY DEF Typed
<1>2. \A p \in DOMAIN protocols :
        /\ protocols[p].state \in {"RUNNING", "WAITING", "ANSWERED", "OK", "ERR"}
        /\ protocols[p].attributes \in Revealed /\ protocols[p].ack \in BOOLEAN
  <2>1. \A p \in DOMAIN protocols : protocols[p] \in Protocols
    BY <1>1
  <2> QED BY <2>1 DEF Protocols
<1>3. \A i \in DOMAIN statuses : statuses[i] \in Statuses
  BY <1>1
<1>4. \A i \in DOMAIN questions : questions[i] \in DOMAIN protocols
  BY <1>1
<1>5. \A i \in DOMAIN foreign : foreign[i] \in Kinds
  BY <1>1
<1> QED BY <1>1, <1>2, <1>3, <1>4, <1>5 DEF Typed, TypeOK, Registers

\* Every variable has its type: the machine is always in one of its states and
\* remembers contents, and a question is about a protocol the bot has started.
THEOREM TypeCorrect == Running \subseteq BuiltIn => (Spec => []TypeOK)
<1>1. Inv => TypeOK
  BY TypedIsTypeOK DEF Inv
<1> QED BY <1>1, Invariant, PTL

\* Every credential the email issuer sends names an address whose mail the user
\* reads, for any addresses, words and PINs and any number of sessions.
THEOREM OnlyReadersAreIssued == Running \subseteq BuiltIn => (Spec => []IssuedToReader)
<1>1. Inv => IssuedToReader
  BY DEF Inv
<1> QED BY <1>1, Invariant, PTL

\* An email the bot speaks of was revealed by a proof it has accepted.
THEOREM OnlyAcceptedIsSpokenOf == Running \subseteq BuiltIn => (Spec => []SpeaksOfAccepted)
<1>1. Inv => SpeaksOfAccepted
  BY DEF Inv
<1> QED BY <1>1, Invariant, PTL

\* What the bot formats was written in the session that it is in.
THEOREM OnlyOwnSessionIsFormatted == Running \subseteq BuiltIn => (Spec => []FormatsOwnSession)
<1>1. Inv => FormatsOwnSession
  BY DEF Inv
<1> QED BY <1>1, Invariant, PTL

\* A question ends the process only when a second proof is open beside the one
\* that was accepted.
THEOREM PanicTakesTwoProofs == Running \subseteq BuiltIn => (Spec => []PanicNeedsTwoProofs)
<1>1. Inv => PanicNeedsTwoProofs
  BY DEF Inv
<1> QED BY <1>1, Invariant, PTL

\* No built-in machine but the email issuer waits for a credential.
LEMMA OnlyIssuerWaits ==
  ASSUME Inv, Running \subseteq BuiltIn, current = "WAITING_ISSUING_STATUS"
  PROVE  machine = EmailIssuerMachine /\ questions = <<>>
<1>1. machine = EmailIssuerMachine
  BY InitialStates DEF Inv, Typed, BuiltIn
<1> QED BY <1>1, NoQuestions, ThreeMachines

\* The email issuer says it is ready only when the credential it has issued last
\* is completed, whatever was notified of its own before, unless the other end
\* of the connection has issued a credential to the bot.
THEOREM ReadyMeansIssued == Running \subseteq BuiltIn => (Spec => ReadyWhenIssued)
<1> SUFFICES ASSUME Running \subseteq BuiltIn PROVE Spec => ReadyWhenIssued
  OBVIOUS
<1> DEFINE Issued == protocols[Len(protocols)].state = "OK" \/ \E i \in DOMAIN foreign : foreign[i] = "issue_cred"
           Ready == current = "WAITING_ISSUING_STATUS" /\ current' = "IDLE" => Issued
<1>1. ASSUME Inv, [Next]_vars
      PROVE  [Ready]_vars
  <2> SUFFICES ASSUME current = "WAITING_ISSUING_STATUS", current' = "IDLE"
               PROVE  Issued
    OBVIOUS
  <2>1. machine = EmailIssuerMachine /\ questions = <<>>
    BY <1>1, OnlyIssuerWaits
  <2>2. CASE StatusReceived
    BY <1>1, <2>1, <2>2, StatusStep DEF OtherIssued
  <2>3. CASE QuestionReceived
    BY <2>1, <2>3 DEF QuestionReceived
  <2>4. CASE Outside \/ UNCHANGED vars
    BY <2>4 DEF Outside, vars, machineVars
  <2> QED BY <1>1, <2>2, <2>3, <2>4 DEF Next, Say, OtherCompletes, Progress, Present, Settle
<1>2. Spec => []Inv
  BY Invariant
<1>3. Inv /\ [Next]_vars => [Ready]_vars
  BY <1>1
<1> QED BY <1>2, <1>3, PTL DEF Spec, ReadyWhenIssued
==============================================================================
