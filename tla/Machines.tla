------------------------------- MODULE Machines -------------------------------
(***************************************************************************)
(* The built-in machines of agency/client/chat/machines.go, as data for    *)
(* the interpreter in Machine.  A text is reduced to the set of registers  *)
(* its template formats (a constant text uses none), and a credential's    *)
(* definition to its name.                                                 *)
(***************************************************************************)
EXTENDS Sequences

\* An event (a trigger or a send), a transition and a machine.  Data is the
\* text or the register a trigger compares with or saves to, the attributes of
\* a proof, the answer, or the registers that a send formats.
Event(protocol, rule, data) == [protocol |-> protocol, rule |-> rule, data |-> data]
Transition(trigger, sends, target) == [trigger |-> trigger, sends |-> sends, target |-> target]
Says == Event("basic_message", "", {})
Formats(registers) == Event("basic_message", "FORMAT_MEM", registers)
Hears(rule, data) == Event("basic_message", rule, data)

\* The one attribute the proof request asks for, and with it the proof triggers.
EmailAttribute == [name |-> "email", credDefId |-> "my-schema"]

EmailIssuerMachine ==
  [ keepMemory |-> FALSE,
    initial |-> [sends |-> <<Says>>, target |-> "IDLE"],
    states |->
      [ IDLE |-> <<Transition(Hears("", ""), <<Says>>, "WAITING_EMAIL_ADDRESS")>>,
        WAITING_EMAIL_ADDRESS |->
          << Transition(Hears("INPUT_SAVE", "EMAIL"),
               <<Formats({"EMAIL"}), Event("email", "GEN_PIN", {"EMAIL", "PIN"})>>,
               "WAITING_EMAIL_PIN") >>,
        WAITING_EMAIL_PIN |->
          << Transition(Hears("INPUT_EQUAL", "reset"), <<Says>>, "WAITING_EMAIL_ADDRESS"),
             Transition(Hears("INPUT_VALIDATE_NOT_EQUAL", "PIN"), <<Formats({"EMAIL"})>>,
               "WAITING_EMAIL_PIN"),
             Transition(Hears("INPUT_VALIDATE_EQUAL", "PIN"),
               <<Formats({"EMAIL"}), Event("issue_cred", "FORMAT_MEM", {"EMAIL"})>>,
               "WAITING_ISSUING_STATUS") >>,
        WAITING_ISSUING_STATUS |->
          <<Transition(Event("issue_cred", "OUR_STATUS", ""), <<Formats({"EMAIL"})>>, "IDLE")>> ] ]

ReqProofMachine ==
  [ keepMemory |-> FALSE,
    initial |-> [sends |-> <<Says>>, target |-> "INITIAL"],
    states |->
      [ INITIAL |->
          << Transition(Event("connection", "", ""), <<Says>>, "INITIAL"),
             Transition(Hears("", ""), <<Event("present_proof", "", {})>>,
               "WAITING_EMAIL_PROOF_QA") >>,
        WAITING_EMAIL_PROOF_QA |->
          << Transition(Hears("INPUT_EQUAL", "reset"), <<Says>>, "INITIAL"),
             Transition(Event("present_proof", "NOT_ACCEPT_VALUES", <<EmailAttribute>>),
               <<Event("answer", "", "NACK")>>, "INITIAL"),
             Transition(Event("present_proof", "ACCEPT_AND_INPUT_VALUES", <<EmailAttribute>>),
               <<Event("answer", "", "ACK")>>, "WAITING2_EMAIL_PROOF") >>,
        WAITING2_EMAIL_PROOF |->
          <<Transition(Event("present_proof", "", ""), <<Formats({"email"})>>, "WAITING_NEXT_CMD")>>,
        WAITING_NEXT_CMD |->
          << Transition(Hears("INPUT_EQUAL", "reset"), <<Says>>, "INITIAL"),
             Transition(Hears("INPUT_SAVE", "LINE"), <<Formats({"email", "LINE"})>>,
               "WAITING_NEXT_CMD") >> ] ]

EchoMachine ==
  [ keepMemory |-> FALSE,
    initial |-> [sends |-> <<Says>>, target |-> "INITIAL"],
    states |->
      [ INITIAL |->
          << Transition(Event("connection", "", ""), <<Says>>, "INITIAL"),
             Transition(Hears("INPUT_EQUAL", "run"), <<Says>>, "IDLE"),
             Transition(Hears("", ""), <<Says>>, "INITIAL") >>,
        IDLE |->
          << Transition(Hears("INPUT_EQUAL", "reset"), <<Says>>, "INITIAL"),
             Transition(Hears("INPUT", ""), <<Event("basic_message", "INPUT", {})>>, "IDLE") >> ] ]

BuiltIn == {EmailIssuerMachine, ReqProofMachine, EchoMachine}
==============================================================================
