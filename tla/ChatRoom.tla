------------------------------- MODULE ChatRoom -------------------------------
(***************************************************************************)
(* Chat rooms: the conversations of a bot talk to each other through the   *)
(* backend machine (chat/chat.go; transition.go and event.go of            *)
(* agency/fsm).  A conversation joins a room by saving its name as the     *)
(* SESSION_ID; what its user says goes to the backend machine, which sends *)
(* it to all conversations, and each takes what is of its own session.     *)
(*                                                                         *)
(* The channels carry pointers.  A rule that sends backend data fills one  *)
(* BackendData again and again, so a later message overwrites what a slow  *)
(* reader was to read.  That is a data race: a reader here reads twice     *)
(* (what it filters by, then the rest), and sees each time what is there.  *)
(* Finer mixtures of two messages are left out.                            *)
(*                                                                         *)
(* The machines are the user's, described as in Machines; of the memory    *)
(* only the session matters.  What a transition sends besides backend data *)
(* blocks nobody and is sent when it is built, and a step of the machine   *)
(* is part of the last send before it.  A conversation hears its user      *)
(* directly: the way of statuses is in Multiplexer.                        *)
(***************************************************************************)
EXTENDS Machines, Naturals

CONSTANTS
  Conns,    \* the conversations
  Backend,  \* the backend machine
  Pairs,    \* the machines a run looks at: records of a conversation and a backend machine
  Rooms,    \* the rooms a user may name
  Commands, \* the other words the machines compare with
  MaxMsgs,  \* bound: how many messages are said
  MaxMoves, \* bound: how often users name a room or say a command
  Paced     \* a user waits until the message before has been handled by all

None == "" \* the empty string: no session, no connection

\* A send that passes the content on to the user.
Passes(send) == send.protocol = "basic_message" /\ send.rule = "INPUT"

\* The sends of a machine that send backend data, each with its transition.
\* There is at most one, hence one BackendData per machine.
IsBackend(send) == send.protocol = "backend"
Publishes(t) == \E i \in DOMAIN t.sends : IsBackend(t.sends[i])
Publishing(machine) ==
  UNION {UNION {{<<s, i, j>> : j \in {k \in DOMAIN machine.states[s][i].sends :
                                        IsBackend(machine.states[s][i].sends[k])}} :
                  i \in DOMAIN machine.states[s]} :
           s \in DOMAIN machine.states}

ASSUME ConstantsAssumption ==
  /\ MaxMsgs \in Nat /\ MaxMoves \in Nat /\ Paced \in BOOLEAN
  /\ Backend \notin Conns /\ None \notin Rooms \cup Conns
  /\ \A p \in Pairs : \A machine \in {p.conversation, p.backend} :
       \A x, y \in Publishing(machine) : x = y

\* What the theorems ask of the machines.  They are whole: a state is a list of
\* transitions to states.
Whole(machine) ==
  /\ machine.initial.target \in DOMAIN machine.states
  /\ \A s \in DOMAIN machine.states :
       LET transitions == machine.states[s]
       IN  /\ Len(transitions) \in Nat /\ DOMAIN transitions = 1 .. Len(transitions)
           /\ \A i \in DOMAIN transitions : transitions[i].target \in DOMAIN machine.states
WholeMachines == \A p \in Pairs : Whole(p.conversation) /\ Whole(p.backend)

\* A conversation sends on what its user says, only that, and not back to it.
SendsOnInput ==
  \A p \in Pairs : \A s \in DOMAIN p.conversation.states :
    \A i \in DOMAIN p.conversation.states[s] :
      LET t == p.conversation.states[s][i]
      IN  Publishes(t) => /\ t.trigger.protocol = "basic_message" /\ t.trigger.rule = "INPUT"
                          /\ \A j \in DOMAIN t.sends : ~Passes(t.sends[j])

VARIABLES
  pair,        \* the machines that are run
  current,     \* Machine.Current
  session,     \* Machine.Memory[LUA_SESSION_ID]
  reported,    \* Machine.KeepMemoryReported
  cell,        \* the BackendData of the machine's rule
  BackendChan, \* the channel of each machine: the machines whose cells are in it
  pc,          \* each goroutine: "select", "read" or "send"
  reading,     \* the machine whose cell the backend machine reads
  target,      \* the state a machine that sends steps to afterwards
  waiting,     \* the conversations a broadcast still has to reach
  moves,       \* how often users have moved
  said,        \* ghost: who said each message, in which room, and its members since
  heard        \* ghost: who heard which message, and in which room it was before
machineVars == <<current, session, reported, cell>>
goroutineVars == <<pc, reading, target, waiting>>
vars == <<pair, machineVars, BackendChan, goroutineVars, moves, said, heard>>

Machines == Conns \cup {Backend}
MachineOf(m) == IF m = Backend THEN pair.backend ELSE pair.conversation
Messages == 1 .. MaxMsgs
Sessions == Rooms \cup {None}
BackendData == [conn : Conns \cup {None}, sid : Sessions, content : Messages \cup {0}, noEcho : BOOLEAN]
NoData == [conn |-> None, sid |-> None, content |-> 0, noEcho |-> FALSE]

TypeOK ==
  /\ pair \in Pairs
  /\ \A m \in Machines : current[m] \in DOMAIN MachineOf(m).states /\ target[m] \in DOMAIN MachineOf(m).states
  /\ session \in [Machines -> Sessions]
  /\ reported \in [Machines -> BOOLEAN]
  /\ cell \in [Machines -> BackendData]
  /\ \A m \in Machines : Len(BackendChan[m]) <= 1
  /\ pc \in [Machines -> {"select", "read", "send"}]
  /\ reading \in Conns /\ waiting \subseteq Conns
  /\ heard \subseteq [who : Conns, msg : Messages, room : Sessions]

Init ==
  /\ pair \in Pairs
  /\ current = [m \in Machines |-> MachineOf(m).initial.target]
  /\ session = [m \in Machines |-> None]
  /\ reported = [m \in Machines |-> FALSE]
  /\ cell = [m \in Machines |-> NoData]
  /\ BackendChan = [m \in Machines |-> <<>>]
  /\ pc = [m \in Machines |-> "select"]
  /\ reading \in Conns /\ waiting = Conns
  /\ target = current
  /\ moves = 0 /\ said = <<>> /\ heard = {}
-----------------------------------------------------------------------------
(* Triggering and building.                                                  *)

Transitions(m) == MachineOf(m).states[current[m]]
Fitting(m, protocol, content) ==
  {i \in DOMAIN Transitions(m) :
     LET trigger == Transitions(m)[i].trigger
     IN  trigger.protocol = protocol /\ (trigger.rule = "INPUT_EQUAL" => trigger.data = content)}
First(m, protocol, content) ==
  Transitions(m)[CHOOSE i \in Fitting(m, protocol, content) :
                   \A j \in Fitting(m, protocol, content) : i <= j]

\* copyBackendDataValuesToMemory: every backend trigger that is asked adopts
\* the session of the data, whether it fits or not.
Adopted(m, data) ==
  IF data.sid # None /\ \E i \in DOMAIN Transitions(m) : Transitions(m)[i].trigger.protocol = "backend"
  THEN data.sid ELSE session[m]

\* MUTANT of Filled: the sender of the data is always the machine itself.
Filled_OwnConn(m, send, input, content, memory) ==
  [conn |-> m, sid |-> memory, content |-> content, noEcho |-> input.noEcho \/ send.data = "no_echo"]

\* buildBackendSend, for the rule INPUT.  A conversation always takes the
\* session it remembers; the backend machine does so when there is no other:
\* neither the input's, which it has just adopted, nor the cell's last one.
Filled(m, send, input, content, memory) ==
  LET sessionID == IF input.sid = None THEN cell[m].sid ELSE None
  IN  [ conn    |-> IF input.conn # None THEN input.conn
                    ELSE IF cell[m].conn # None THEN cell[m].conn ELSE m,
        sid     |-> IF m # Backend \/ sessionID = None THEN memory ELSE sessionID,
        content |-> content,
        noEcho  |-> input.noEcho \/ send.data = "no_echo" ]

\* Machine.Step, with the memory as the transition has left it.
Step(m, state, memory) ==
  LET initial == MachineOf(m).initial.target
  IN  /\ current' = [current EXCEPT ![m] = state]
      /\ session' = [session EXCEPT ![m] =
           IF state = initial /\ ~MachineOf(m).keepMemory /\ ~reported[m] THEN None ELSE memory]
      /\ reported' = [reported EXCEPT ![m] = @ \/ state = initial]

\* BuildSendEvents and BuildSendEventsFromBackendData: the outputs are built,
\* the machine's cell among them, before the first is sent.  Input is the
\* backend data that a backend machine reacts to.  Backend.send sends nothing
\* but backend data.
Fire(m, t, input, content, memory) ==
  /\ IF Publishes(t)
     THEN /\ cell' = [cell EXCEPT ![m] =
               Filled(m, CHOOSE s \in {t.sends[i] : i \in DOMAIN t.sends} : IsBackend(s),
                      input, content, memory)]
          /\ session' = [session EXCEPT ![m] = memory]
          /\ target' = [target EXCEPT ![m] = t.target]
          /\ pc' = [pc EXCEPT ![m] = "send"]
          /\ UNCHANGED <<current, reported>>
     ELSE /\ Step(m, t.target, memory)
          /\ pc' = [pc EXCEPT ![m] = "select"]
          /\ UNCHANGED <<cell, target>>
  /\ heard' = IF m # Backend /\ content # 0 /\ \E i \in DOMAIN t.sends : Passes(t.sends[i])
              THEN heard \cup {[who |-> m, msg |-> content, room |-> session[m]]} ELSE heard
-----------------------------------------------------------------------------
(* The user of a conversation speaks (statusReceived).  The user is external:*)
(* it names a room where the machine asks for one, says commands where they  *)
(* are understood, and a new message where one is sent on.                   *)

Quiet == \A m \in Machines : BackendChan[m] = <<>> /\ pc[m] = "select"

Triggered(c, word) == pc[c] = "select" /\ Fitting(c, "basic_message", word) # {}

\* Ghost: who hears what is said in a room, unless its user acts before.
Listens(c) == \E i \in DOMAIN Transitions(c) : Transitions(c)[i].trigger.protocol = "backend"
Members(room) == {c \in Conns : session[c] = room /\ Listens(c)}
Moves(c) ==
  /\ moves < MaxMoves /\ moves' = moves + 1
  /\ said' = [n \in DOMAIN said |-> [said[n] EXCEPT !.members = @ \ {c}]]

\* INPUT_SAVE_SESSION_ID of buildInputEvent.
Join(c, room) ==
  /\ Triggered(c, room)
  /\ First(c, "basic_message", room).trigger.rule = "INPUT_SAVE_SESSION_ID"
  /\ Fire(c, First(c, "basic_message", room), NoData, 0, room)
  /\ Moves(c)
  /\ UNCHANGED <<pair, BackendChan, reading, waiting>>

SayCommand(c, word) ==
  /\ Triggered(c, word)
  /\ First(c, "basic_message", word).trigger.rule = "INPUT_EQUAL"
  /\ Fire(c, First(c, "basic_message", word), NoData, 0, session[c])
  /\ Moves(c)
  /\ UNCHANGED <<pair, BackendChan, reading, waiting>>

Say(c) ==
  LET msg == Len(said) + 1
      room == session[c]
  IN  /\ msg \in Messages /\ (Paced => Quiet)
      /\ Triggered(c, msg) /\ Publishes(First(c, "basic_message", msg))
      /\ said' = Append(said, [by |-> c, room |-> room,
                               members |-> IF room = None THEN {} ELSE Members(room) \ {c}])
      /\ Fire(c, First(c, "basic_message", msg), NoData, msg, room)
      /\ UNCHANGED <<pair, moves, BackendChan, reading, waiting>>
-----------------------------------------------------------------------------
(* Backend data arrive.                                                      *)

\* MUTANT of Filtered: only a conversation of another session is passed over,
\* not one that is the speaker.
Filtered_Echo(c, data) == session[c] # None /\ session[c] # data.sid

\* MUTANT of Filtered: the session is not looked at.
Filtered_AnySession(c, data) == data.noEcho /\ data.conn = c

Filtered(c, data) ==
  \/ session[c] # None /\ session[c] # data.sid
  \/ data.noEcho /\ data.conn = c

\* Conversation.backendReceived, up to its return or its trigger.
Receive(c) ==
  /\ pc[c] = "select" /\ BackendChan[c] # <<>>
  /\ BackendChan' = [BackendChan EXCEPT ![c] = Tail(@)]
  /\ pc' = [pc EXCEPT ![c] = IF Filtered(c, cell[Backend]) THEN "select" ELSE "read"]
  /\ UNCHANGED <<pair, machineVars, reading, target, waiting, moves, said, heard>>

\* The multiplexer takes the next data for the backend machine.
ReceiveBackend ==
  /\ pc[Backend] = "select" /\ BackendChan[Backend] # <<>>
  /\ reading' = Head(BackendChan[Backend])
  /\ BackendChan' = [BackendChan EXCEPT ![Backend] = Tail(@)]
  /\ pc' = [pc EXCEPT ![Backend] = "read"]
  /\ UNCHANGED <<pair, machineVars, target, waiting, moves, said, heard>>

\* TriggersByBackendData, and the build when a transition fits.
Trigger(m) ==
  LET data == IF m = Backend THEN cell[reading] ELSE cell[Backend]
  IN  /\ pc[m] = "read"
      /\ IF Fitting(m, "backend", data.content) # {}
         THEN Fire(m, First(m, "backend", data.content), IF m = Backend THEN data ELSE NoData,
                   data.content, Adopted(m, data))
         ELSE /\ session' = [session EXCEPT ![m] = Adopted(m, data)]
              /\ pc' = [pc EXCEPT ![m] = "select"]
              /\ UNCHANGED <<current, reported, cell, target, heard>>
      /\ UNCHANGED <<pair, BackendChan, reading, waiting, moves, said>>
-----------------------------------------------------------------------------
(* Sending, and the step when all is sent.                                   *)

StepAfterSend(m) == Step(m, target[m], session[m]) /\ pc' = [pc EXCEPT ![m] = "select"]

\* Conversation.sendBackend.
SendBackend(c) ==
  /\ pc[c] = "send" /\ Len(BackendChan[Backend]) < 1
  /\ BackendChan' = [BackendChan EXCEPT ![Backend] = Append(@, c)]
  /\ StepAfterSend(c)
  /\ UNCHANGED <<pair, cell, reading, target, waiting, moves, said, heard>>

\* MUTANT of Reached: the broadcast ends after its first conversation.
Reached_First(c) == waiting' = Conns /\ StepAfterSend(Backend)

Reached(c) ==
  \/ waiting = {c} /\ waiting' = Conns /\ StepAfterSend(Backend)
  \/ waiting # {c} /\ waiting' = waiting \ {c} /\ UNCHANGED <<current, session, reported, pc>>

\* Backend.sendBackendData, which ranges over the conversations in any order.
Broadcast(c) ==
  /\ pc[Backend] = "send"
  /\ c \in waiting /\ Len(BackendChan[c]) < 1
  /\ BackendChan' = [BackendChan EXCEPT ![c] = Append(@, Backend)]
  /\ Reached(c)
  /\ UNCHANGED <<pair, cell, reading, target, moves, said, heard>>
-----------------------------------------------------------------------------
Speak(c) == (\E r \in Rooms : Join(c, r)) \/ (\E w \in Commands : SayCommand(c, w)) \/ Say(c)
Converse(c) == Receive(c) \/ Trigger(c) \/ SendBackend(c)
Serve == ReceiveBackend \/ Trigger(Backend) \/ (\E c \in Conns : Broadcast(c))

Next == Serve \/ \E c \in Conns : Speak(c) \/ Converse(c)
Spec == Init /\ [][Next]_vars

\* The goroutines run; users may be silent.
Fairness == WF_vars(Serve) /\ \A c \in Conns : WF_vars(Converse(c))
FairSpec == Spec /\ Fairness
-----------------------------------------------------------------------------
(* What is said in a room is heard by its members, and by conversations that
   are in none: the session "must be the same" (fsm.go, backendReceived of
   chat.go). *)
HearsOwnRoom ==
  \A h \in heard : said[h.msg].room # None => h.room \in {said[h.msg].room, None}

\* The machine of the conversations asks for no echo.
EchoOff ==
  \E p \in Publishing(pair.conversation) :
    pair.conversation.states[p[1]][p[2]].sends[p[3]].data = "no_echo"

(* With no_echo nobody hears what it has said itself, although the speaker's
   connection goes through two machines and their data (buildBackendSend of
   transition.go, backendReceived of chat.go). *)
NoOwnEcho == EchoOff => \A h \in heard : said[h.msg].by # h.who

(* A conversation that is in a room is moved to another one only by its own
   user, never by what it hears, although it adopts the session of all it
   hears (copyBackendDataValuesToMemory of event.go). *)
MovedByOwnUser ==
  [][\A c \in Conns : session[c] # None /\ session'[c] \notin {session[c], None}
       => pc[c] = "select"]_vars

(* What is said in a room is heard by every other member that does not leave
   before, whatever the members of other rooms do (sendBackendData and
   backendReceived of chat.go). *)
MembersHear ==
  \A n \in Messages, c \in Conns :
    n \in DOMAIN said /\ c \in said[n].members
      ~> (n \in DOMAIN said => c \notin said[n].members) \/ \E h \in heard : h.who = c /\ h.msg = n
==============================================================================
