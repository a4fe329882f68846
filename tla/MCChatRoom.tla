------------------------------ MODULE MCChatRoom ------------------------------
(* Instances of ChatRoom for TLC.  The repository has no chat machines; these *)
(* follow its plan of one (State of fsm.go) and its backend tests: users join *)
(* a room first, or talk in a hall from which they may go to a room.          *)
EXTENDS ChatRoom

CONSTANT leave  \* the command the machines understand

Talk(echo) ==
  << Transition(Hears("INPUT_EQUAL", leave), <<Says>>, "JOIN"),
     Transition(Hears("INPUT", ""), <<Event("backend", "INPUT", echo)>>, "TALK"),
     Transition(Event("backend", "INPUT", ""), <<Event("basic_message", "INPUT", "")>>, "TALK") >>
JoinRoom == <<Transition(Hears("INPUT_SAVE_SESSION_ID", ""), <<Says>>, "TALK")>>
Chat(initial, echo) ==
  [ keepMemory |-> FALSE, initial |-> [sends |-> <<>>, target |-> initial],
    states |-> [JOIN |-> JoinRoom, TALK |-> Talk(echo)] ]
Broker ==
  [ keepMemory |-> FALSE, initial |-> [sends |-> <<>>, target |-> "IDLE"],
    states |-> [IDLE |-> <<Transition(Event("backend", "INPUT", ""),
                                      <<Event("backend", "INPUT", "")>>, "IDLE")>>] ]

ChatPairs ==
  {[conversation |-> Chat("JOIN", "no_echo"), backend |-> Broker],
   [conversation |-> Chat("TALK", "no_echo"), backend |-> Broker]}

\* What the theorems of ChatRoomProofs ask of the machines holds of these.
ASSUME MachinesAssumption == WholeMachines /\ SendsOnInput
==============================================================================
