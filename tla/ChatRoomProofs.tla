---------------------------- MODULE ChatRoomProofs ----------------------------
(***************************************************************************)
(* Proofs about ChatRoom, for every number of conversations, rooms and     *)
(* messages, and for every pair of machines that are whole.  What is heard *)
(* depends on the users' waiting for each other (Paced), since the cells   *)
(* are otherwise overwritten while they are read (the run chat_race).      *)
(***************************************************************************)
EXTENDS ChatRoom, TLAPS, WellFoundedInduction

States == DOMAIN pair.conversation.states \cup DOMAIN pair.backend.states
Spoken == [by : Conns, room : Sessions, members : SUBSET Conns]
-----------------------------------------------------------------------------
(* The inductive invariant.                                                  *)

MachinesTyped ==
  /\ current \in [Machines -> States] /\ target \in [Machines -> States]
  /\ \A m \in Machines : current[m] \in DOMAIN MachineOf(m).states /\ target[m] \in DOMAIN MachineOf(m).states
  /\ session \in [Machines -> Sessions]
  /\ reported \in [Machines -> BOOLEAN]
  /\ cell \in [Machines -> BackendData]

GoroutinesTyped ==
  /\ BackendChan \in [Machines -> Seq(Machines)]
  /\ \A m \in Machines : Len(BackendChan[m]) <= 1
  /\ BackendChan[Backend] \in Seq(Conns)
  /\ pc \in [Machines -> {"select", "read", "send"}]
  /\ reading \in Conns /\ waiting \subseteq Conns

SpeechTyped ==
  /\ said \in Seq(Spoken)
  /\ heard \subseteq [who : Conns, msg : Messages, room : Sessions]

\* The cell of a conversation on its way to the backend machine names the
\* conversation (assert.NotEmpty of buildBackendSend).
OnItsWay(c) ==
  \/ pc[c] = "send"
  \/ \E i \in DOMAIN BackendChan[Backend] : BackendChan[Backend][i] = c
  \/ pc[Backend] = "read" /\ reading = c
ConnNamed == \A c \in Conns : OnItsWay(c) => cell[c].conn # None

Typed == pair \in Pairs /\ MachinesTyped /\ GoroutinesTyped /\ SpeechTyped

\* Nothing is under way but what m does.
Alone(m) ==
  /\ \A n \in Machines : BackendChan[n] = <<>>
  /\ \A n \in Machines : n # m => pc[n] = "select"

\* Users who wait for each other have one message under way: while it is on
\* its way up to the backend machine, nothing is on its way down.
OneMessage ==
  /\ \A c \in Conns : pc[c] = "send" => Alone(c)
  /\ pc[Backend] = "read" => Alone(Backend)
  /\ BackendChan[Backend] # <<>> =>
       /\ \A m \in Machines : pc[m] = "select"
       /\ \A c \in Conns : BackendChan[c] = <<>>

\* What a cell says of its content: who said it, in which room, and whether it
\* is to come back.
Carries(data) ==
  data.content # 0 =>
    /\ data.content \in DOMAIN said
    /\ data.conn = said[data.content].by
    /\ said[data.content].room # None => data.sid = said[data.content].room
    /\ EchoOff => data.noEcho

Labelled ==
  /\ \A m \in Machines : Carries(cell[m])
  /\ \A c \in Conns : cell[c].conn \in {None, c}

\* What a conversation has let through is still there when it reads on.
ReadsWhatPassed == \A c \in Conns : pc[c] = "read" => ~Filtered(c, cell[Backend])

HeardWasSaid == \A h \in heard : h.msg \in DOMAIN said

Heard == HeardWasSaid /\ HearsOwnRoom /\ NoOwnEcho

\* What is proved inductive: Correct for any machines and users, and Orderly
\* with it for users who wait for each other.
Correct == Typed /\ ConnNamed
Orderly == OneMessage /\ Labelled /\ ReadsWhatPassed /\ Heard
-----------------------------------------------------------------------------
(* Operators.                                                                *)

\* A set of numbers has a least one, by the well-foundedness of the numbers.
LEMMA LeastNumber ==
  ASSUME NEW S, S \subseteq Nat, S # {}
  PROVE  \E i \in S : \A j \in S : i <= j
<1>1. IsWellFoundedOn(OpToRel(<, Nat), Nat)
  BY NatLessThanWellFounded
<1>2. \A i, j \in Nat : i < j => <<i, j>> \in OpToRel(<, Nat)
  BY DEF OpToRel
<1> HIDE DEF OpToRel
<1>3. PICK i \in S : \A j \in S : ~(<<j, i>> \in OpToRel(<, Nat))
  BY <1>1, WFMin
<1>4. \A j \in S : ~(j < i)
  BY <1>2, <1>3
<1> QED BY <1>4

\* First chooses among the transitions that fit (TriggersByBackendData).
LEMMA FirstFits ==
  ASSUME WholeMachines, Typed, NEW m \in Machines, NEW protocol, NEW content,
         Fitting(m, protocol, content) # {}
  PROVE  \E i \in Fitting(m, protocol, content) : First(m, protocol, content) = Transitions(m)[i]
<1> DEFINE S == Fitting(m, protocol, content)
<1>1. Whole(MachineOf(m)) /\ current[m] \in DOMAIN MachineOf(m).states
  BY DEF WholeMachines, Typed, MachinesTyped, MachineOf
<1>2. DOMAIN Transitions(m) \subseteq Nat
  BY <1>1 DEF Whole, Transitions
<1>3. S \subseteq Nat
  BY <1>2 DEF Fitting
<1>4. \E i \in S : \A j \in S : i <= j
  BY <1>3, LeastNumber
<1> QED BY <1>4 DEF First

\* What fits is a transition of the current state, to a state of the machine.
LEMMA FirstIsTransition ==
  ASSUME WholeMachines, Typed, NEW m \in Machines, NEW protocol, NEW content,
         Fitting(m, protocol, content) # {}
  PROVE  /\ \E i \in DOMAIN Transitions(m) : First(m, protocol, content) = Transitions(m)[i]
         /\ First(m, protocol, content).trigger.protocol = protocol
         /\ First(m, protocol, content).target \in DOMAIN MachineOf(m).states
<1>1. Whole(MachineOf(m)) /\ current[m] \in DOMAIN MachineOf(m).states
  BY DEF WholeMachines, Typed, MachinesTyped, MachineOf
<1>2. PICK i \in Fitting(m, protocol, content) : First(m, protocol, content) = Transitions(m)[i]
  BY FirstFits
<1>3. i \in DOMAIN Transitions(m) /\ Transitions(m)[i].trigger.protocol = protocol
  BY DEF Fitting
<1>4. Transitions(m)[i].target \in DOMAIN MachineOf(m).states
  BY <1>1, <1>3 DEF Whole, Transitions
<1> QED BY <1>2, <1>3, <1>4

\* A conversation sends backend data on what its user says, and does not pass
\* that on to the user itself.
LEMMA OnlyInputPublishes ==
  ASSUME SendsOnInput, WholeMachines, Typed, NEW c \in Conns, NEW protocol, NEW content,
         Fitting(c, protocol, content) # {},
         Publishes(First(c, protocol, content))
  PROVE  /\ protocol = "basic_message"
         /\ First(c, protocol, content).trigger.rule = "INPUT"
         /\ \A j \in DOMAIN First(c, protocol, content).sends :
              ~Passes(First(c, protocol, content).sends[j])
<1>1. c \in Machines /\ c # Backend
  BY ConstantsAssumption DEF Machines
<1>2. PICK i \in DOMAIN Transitions(c) : First(c, protocol, content) = Transitions(c)[i]
  BY <1>1, FirstIsTransition
<1>3. Transitions(c) = pair.conversation.states[current[c]]
      /\ current[c] \in DOMAIN pair.conversation.states /\ pair \in Pairs
  BY <1>1 DEF Transitions, MachineOf, Typed, MachinesTyped
<1>4. /\ Transitions(c)[i].trigger.protocol = "basic_message"
      /\ Transitions(c)[i].trigger.rule = "INPUT"
      /\ \A j \in DOMAIN Transitions(c)[i].sends : ~Passes(Transitions(c)[i].sends[j])
  BY <1>2, <1>3 DEF SendsOnInput
<1> QED BY <1>1, <1>2, <1>4, FirstIsTransition

\* The send that fills the cell is one of the transition's.
LEMMA ChosenSend ==
  ASSUME NEW t, Publishes(t)
  PROVE  LET s == CHOOSE s \in {t.sends[i] : i \in DOMAIN t.sends} : IsBackend(s)
         IN  IsBackend(s) /\ \E i \in DOMAIN t.sends : s = t.sends[i]
BY DEF Publishes
-----------------------------------------------------------------------------
(* Type correctness, for any machines and any pace.                          *)

\* Building a send fills the cell with backend data.  The backend machine has
\* no connection of its own to fall back to.
LEMMA FilledTyped ==
  ASSUME Typed, NEW m \in Machines, NEW send, NEW input \in BackendData,
         m = Backend => input.conn # None,
         NEW content \in Messages \cup {0}, NEW memory \in Sessions
  PROVE  /\ Filled(m, send, input, content, memory) \in BackendData
         /\ Filled(m, send, input, content, memory).conn # None
<1> DEFINE data == Filled(m, send, input, content, memory)
<1>1. cell[m] \in BackendData
  BY DEF Typed, MachinesTyped
<1>2. m \in Conns \/ m = Backend
  BY DEF Machines
<1>3. cell[m].conn \in Conns \cup {None} /\ input.conn \in Conns \cup {None}
      /\ cell[m].sid \in Sessions /\ input.sid \in Sessions
  BY <1>1 DEF BackendData
<1>4. None \notin Conns /\ None \in Sessions
  BY ConstantsAssumption DEF Sessions
<1>5. data.conn \in Conns /\ data.conn # None
  BY <1>2, <1>3, <1>4 DEF Filled
<1>6. data.sid \in Sessions
  BY <1>3, <1>4 DEF Filled
<1>7. data.content = content /\ data.noEcho = (input.noEcho \/ send.data = "no_echo")
  BY DEF Filled
<1>8. data = [conn |-> data.conn, sid |-> data.sid, content |-> data.content, noEcho |-> data.noEcho]
  BY DEF Filled
<1>9. data.noEcho \in BOOLEAN
  BY <1>7
<1> HIDE DEF data
<1>10. data \in BackendData
  BY <1>5, <1>6, <1>7, <1>8, <1>9 DEF BackendData
<1> QED BY <1>5, <1>10 DEF data

\* A step leaves a machine in a state of its own, and the session one of the
\* sessions.
LEMMA StepTyped ==
  ASSUME WholeMachines, Typed, NEW m \in Machines, NEW state \in DOMAIN MachineOf(m).states,
         NEW memory \in Sessions, Step(m, state, memory), pair' = pair
  PROVE  /\ current' \in [Machines -> States']
         /\ \A n \in Machines : current'[n] \in DOMAIN MachineOf(n)'.states
         /\ session' \in [Machines -> Sessions]
         /\ reported' \in [Machines -> BOOLEAN]
<1>1. States' = States /\ \A n : MachineOf(n)' = MachineOf(n)
  BY DEF States, MachineOf
<1>2. state \in States
  BY DEF States, MachineOf
<1>3. None \in Sessions
  BY DEF Sessions
<1>4. current' \in [Machines -> States] /\ \A n \in Machines : current'[n] \in DOMAIN MachineOf(n).states
  BY <1>2 DEF Step, Typed, MachinesTyped
<1>5. session' \in [Machines -> Sessions]
  BY <1>3 DEF Step, Typed, MachinesTyped
<1>6. reported' \in [Machines -> BOOLEAN]
  BY DEF Step, Typed, MachinesTyped
<1> QED BY <1>1, <1>4, <1>5, <1>6

\* A transition that is fired leaves the variables of its machine well typed.
LEMMA FireTyped ==
  ASSUME WholeMachines, Typed, NEW m \in Machines, NEW t, t.target \in DOMAIN MachineOf(m).states,
         NEW input \in BackendData, m = Backend => input.conn # None,
         NEW content \in Messages \cup {0}, NEW memory \in Sessions,
         Fire(m, t, input, content, memory), pair' = pair
  PROVE  /\ MachinesTyped'
         /\ pc' \in [Machines -> {"select", "read", "send"}]
         /\ heard' \subseteq [who : Conns, msg : Messages, room : Sessions]
         /\ \A n \in Machines : cell'[n] # cell[n] => n = m
         /\ pc'[m] \in {"select", "send"} /\ (pc'[m] = "send" => cell'[m].conn # None)
         /\ \A n \in Machines : n # m => pc'[n] = pc[n]
<1>1. States' = States /\ \A n : MachineOf(n)' = MachineOf(n)
  BY DEF States, MachineOf
<1>2. t.target \in States
  BY DEF States, MachineOf
<1>3. /\ current \in [Machines -> States] /\ target \in [Machines -> States]
      /\ \A n \in Machines : current[n] \in DOMAIN MachineOf(n).states /\ target[n] \in DOMAIN MachineOf(n).states
      /\ session \in [Machines -> Sessions] /\ reported \in [Machines -> BOOLEAN]
      /\ cell \in [Machines -> BackendData] /\ pc \in [Machines -> {"select", "read", "send"}]
      /\ heard \subseteq [who : Conns, msg : Messages, room : Sessions]
  BY DEF Typed, MachinesTyped, GoroutinesTyped, SpeechTyped
<1>4. heard' \subseteq [who : Conns, msg : Messages, room : Sessions]
  <2>1. m # Backend => m \in Conns /\ session[m] \in Sessions
    BY <1>3 DEF Machines
  <2> QED BY <1>3, <2>1 DEF Fire
<1>5. CASE Publishes(t)
  <2>1. PICK data \in BackendData : cell' = [cell EXCEPT ![m] = data] /\ data.conn # None
    BY <1>5, FilledTyped DEF Fire
  <2>2. cell' \in [Machines -> BackendData] /\ cell'[m].conn # None
        /\ \A n \in Machines : cell'[n] # cell[n] => n = m
    BY <1>3, <2>1
  <2>3. /\ session' = [session EXCEPT ![m] = memory] /\ target' = [target EXCEPT ![m] = t.target]
        /\ pc' = [pc EXCEPT ![m] = "send"] /\ current' = current /\ reported' = reported
    BY <1>5 DEF Fire
  <2>4. target' \in [Machines -> States] /\ \A n \in Machines : target'[n] \in DOMAIN MachineOf(n).states
    BY <1>2, <1>3, <2>3
  <2>5. MachinesTyped'
    BY <1>1, <1>3, <2>2, <2>3, <2>4 DEF MachinesTyped
  <2> QED BY <1>3, <1>4, <2>2, <2>3, <2>5
<1>6. CASE ~Publishes(t)
  <2>1. /\ Step(m, t.target, memory) /\ pc' = [pc EXCEPT ![m] = "select"]
        /\ cell' = cell /\ target' = target
    BY <1>6 DEF Fire
  <2>2. MachinesTyped'
    BY <1>1, <1>3, <2>1, StepTyped DEF MachinesTyped
  <2> QED BY <1>3, <1>4, <2>1, <2>2
<1> QED BY <1>5, <1>6

\* The data a machine of a conversation reacts to when its user speaks.
LEMMA NoDataTyped == NoData \in BackendData
BY DEF NoData, BackendData, Sessions

\* A machine that builds what it sends is on its way only with a connection.
LEMMA FireNamed ==
  ASSUME WholeMachines, Correct, NEW m \in Machines, NEW t, t.target \in DOMAIN MachineOf(m).states,
         NEW input \in BackendData, m = Backend => input.conn # None,
         NEW content \in Messages \cup {0}, NEW memory \in Sessions,
         Fire(m, t, input, content, memory), UNCHANGED <<pair, BackendChan, reading>>
  PROVE  ConnNamed'
<1> SUFFICES ASSUME NEW c \in Conns, OnItsWay(c)'
             PROVE  cell'[c].conn # None
  BY DEF ConnNamed
<1>1. /\ \A n \in Machines : cell'[n] # cell[n] => n = m
      /\ pc'[m] \in {"select", "send"} /\ (pc'[m] = "send" => cell'[m].conn # None)
      /\ \A n \in Machines : n # m => pc'[n] = pc[n]
  BY FireTyped DEF Correct
<1>2. c \in Machines /\ c # Backend /\ Backend \in Machines
  BY ConstantsAssumption DEF Machines
<1>3. pc'[Backend] = "read" => pc[Backend] = "read"
  BY <1>1, <1>2
<1>4. CASE c = m /\ pc'[m] = "send"
  BY <1>1, <1>4
<1>5. CASE ~(c = m /\ pc'[m] = "send")
  <2>1. OnItsWay(c)
    BY <1>1, <1>2, <1>3, <1>5 DEF OnItsWay
  <2>2. cell[c].conn # None
    BY <2>1 DEF Correct, ConnNamed
  <2>3. c = m => Publishes(t) = FALSE
    <3>1. Publishes(t) => pc' = [pc EXCEPT ![m] = "send"]
      BY DEF Fire
    <3>2. pc \in [Machines -> {"select", "read", "send"}]
      BY DEF Correct, Typed, GoroutinesTyped
    <3> QED BY <1>5, <3>1, <3>2
  <2>4. ~Publishes(t) => cell' = cell
    BY DEF Fire
  <2> QED BY <1>1, <1>2, <2>2, <2>3, <2>4
<1> QED BY <1>4, <1>5

\* A chat starts with nothing on its way.
LEMMA InitCorrect ==
  ASSUME WholeMachines, Init
  PROVE  Correct
<1>1. \A m \in Machines : MachineOf(m).initial.target \in DOMAIN MachineOf(m).states
  BY DEF Init, WholeMachines, Whole, MachineOf
<1>2. \A m \in Machines : MachineOf(m).initial.target \in States
  BY <1>1 DEF States, MachineOf
<1>3. MachinesTyped
  <2>1. cell \in [Machines -> BackendData]
    BY NoDataTyped DEF Init
  <2>2. session \in [Machines -> Sessions] /\ reported \in [Machines -> BOOLEAN]
    BY DEF Init, Sessions
  <2> QED BY <1>1, <1>2, <2>1, <2>2 DEF Init, MachinesTyped
<1>4. \A m \in Machines : BackendChan[m] = <<>> /\ pc[m] = "select"
  BY DEF Init
<1>5. Backend \in Machines /\ \A c \in Conns : c \in Machines
  BY DEF Machines
<1>6. GoroutinesTyped
  <2>1. BackendChan \in [Machines -> Seq(Machines)] /\ pc \in [Machines -> {"select", "read", "send"}]
    BY DEF Init
  <2>2. reading \in Conns /\ waiting \subseteq Conns
    BY DEF Init
  <2> QED BY <1>4, <1>5, <2>1, <2>2 DEF GoroutinesTyped
<1>7. SpeechTyped
  BY DEF Init, SpeechTyped
<1>8. ConnNamed
  BY <1>4, <1>5 DEF ConnNamed, OnItsWay
<1> QED BY <1>3, <1>6, <1>7, <1>8 DEF Init, Correct, Typed

\* What the users do takes no speech away.
LEMMA MovesTyped ==
  ASSUME Typed, NEW c \in Conns, Moves(c)
  PROVE  /\ said' \in Seq(Spoken) /\ DOMAIN said' = DOMAIN said
         /\ \A n \in DOMAIN said : said'[n].by = said[n].by /\ said'[n].room = said[n].room
<1>1. said \in Seq(Spoken)
  BY DEF Typed, SpeechTyped
<1>2. Len(said) \in Nat /\ DOMAIN said = 1 .. Len(said) /\ \A n \in DOMAIN said : said[n] \in Spoken
  BY <1>1
<1>3. \A n \in DOMAIN said : [said[n] EXCEPT !.members = @ \ {c}] \in Spoken
  BY <1>2 DEF Spoken
<1>4. said' = [n \in 1 .. Len(said) |-> [said[n] EXCEPT !.members = @ \ {c}]]
  BY <1>2 DEF Moves
<1>5. said' \in Seq(Spoken)
  BY <1>2, <1>3, <1>4
<1>6. \A n \in DOMAIN said : said'[n].by = said[n].by /\ said'[n].room = said[n].room
  BY <1>2, <1>4 DEF Spoken
<1> QED BY <1>2, <1>4, <1>5, <1>6

\* A user names a room (INPUT_SAVE_SESSION_ID): the session becomes a room.
LEMMA JoinCorrect ==
  ASSUME WholeMachines, Correct, NEW c \in Conns, NEW room \in Rooms, Join(c, room)
  PROVE  Correct'
<1> DEFINE t == First(c, "basic_message", room)
<1>1. c \in Machines /\ c # Backend /\ room \in Sessions /\ Typed
  BY ConstantsAssumption DEF Machines, Sessions, Correct
<1>2. t.target \in DOMAIN MachineOf(c).states
  BY <1>1, FirstIsTransition DEF Join, Triggered
<1>3. Fire(c, t, NoData, 0, room) /\ UNCHANGED <<pair, BackendChan, reading, waiting>> /\ Moves(c)
  BY DEF Join
<1> HIDE DEF t
<1>4. /\ MachinesTyped' /\ pc' \in [Machines -> {"select", "read", "send"}]
      /\ heard' \subseteq [who : Conns, msg : Messages, room : Sessions]
  BY <1>1, <1>2, <1>3, NoDataTyped, FireTyped
<1>5. ConnNamed'
  BY <1>1, <1>2, <1>3, NoDataTyped, FireNamed
<1>6. SpeechTyped'
  BY <1>1, <1>3, <1>4, MovesTyped DEF SpeechTyped
<1>7. GoroutinesTyped'
  BY <1>1, <1>3, <1>4 DEF Typed, GoroutinesTyped
<1> QED BY <1>1, <1>3, <1>4, <1>5, <1>6, <1>7 DEF Correct, Typed

\* A user says a command: the session stays what it is.
LEMMA SayCommandCorrect ==
  ASSUME WholeMachines, Correct, NEW c \in Conns, NEW word \in Commands, SayCommand(c, word)
  PROVE  Correct'
<1> DEFINE t == First(c, "basic_message", word)
<1>1. c \in Machines /\ c # Backend /\ Typed
  BY ConstantsAssumption DEF Machines, Correct
<1>2. session[c] \in Sessions
  BY <1>1 DEF Typed, MachinesTyped
<1>3. t.target \in DOMAIN MachineOf(c).states
  BY <1>1, FirstIsTransition DEF SayCommand, Triggered
<1>4. Fire(c, t, NoData, 0, session[c]) /\ UNCHANGED <<pair, BackendChan, reading, waiting>> /\ Moves(c)
  BY DEF SayCommand
<1> HIDE DEF t
<1>5. /\ MachinesTyped' /\ pc' \in [Machines -> {"select", "read", "send"}]
      /\ heard' \subseteq [who : Conns, msg : Messages, room : Sessions]
  BY <1>1, <1>2, <1>3, <1>4, NoDataTyped, FireTyped
<1>6. ConnNamed'
  BY <1>1, <1>2, <1>3, <1>4, NoDataTyped, FireNamed
<1>7. SpeechTyped'
  BY <1>1, <1>4, <1>5, MovesTyped DEF SpeechTyped
<1>8. GoroutinesTyped'
  BY <1>1, <1>4, <1>5 DEF Typed, GoroutinesTyped
<1> QED BY <1>1, <1>4, <1>5, <1>6, <1>7, <1>8 DEF Correct, Typed

\* A user says something new: it is recorded with its room.
LEMMA SayCorrect ==
  ASSUME WholeMachines, Correct, NEW c \in Conns, Say(c)
  PROVE  Correct'
<1> DEFINE msg == Len(said) + 1
           t == First(c, "basic_message", msg)
           speech == [by |-> c, room |-> session[c],
                      members |-> IF session[c] = None THEN {} ELSE Members(session[c]) \ {c}]
<1>1. c \in Machines /\ c # Backend /\ Typed
  BY ConstantsAssumption DEF Machines, Correct
<1>2. session[c] \in Sessions
  BY <1>1 DEF Typed, MachinesTyped
<1>3. t.target \in DOMAIN MachineOf(c).states
  BY <1>1, FirstIsTransition DEF Say, Triggered
<1>4. /\ Fire(c, t, NoData, msg, session[c]) /\ UNCHANGED <<pair, moves, BackendChan, reading, waiting>>
      /\ msg \in Messages /\ said' = Append(said, speech)
  BY DEF Say
<1> HIDE DEF t
<1>5. /\ MachinesTyped' /\ pc' \in [Machines -> {"select", "read", "send"}]
      /\ heard' \subseteq [who : Conns, msg : Messages, room : Sessions]
  BY <1>1, <1>2, <1>3, <1>4, NoDataTyped, FireTyped
<1>6. ConnNamed'
  BY <1>1, <1>2, <1>3, <1>4, NoDataTyped, FireNamed
<1>7. speech \in Spoken
  BY <1>2 DEF Spoken, Members
<1> HIDE DEF speech
<1>8. SpeechTyped'
  BY <1>1, <1>4, <1>5, <1>7 DEF SpeechTyped, Typed
<1>9. GoroutinesTyped'
  BY <1>1, <1>4, <1>5 DEF Typed, GoroutinesTyped
<1> QED BY <1>1, <1>4, <1>5, <1>6, <1>8, <1>9 DEF Correct, Typed

\* The cells, the machines and what was said are untouched.
LEMMA Untouched ==
  ASSUME Correct, UNCHANGED <<pair, machineVars, target, said, heard>>, GoroutinesTyped',
         \A c \in Conns : OnItsWay(c)' => OnItsWay(c)
  PROVE  Correct'
<1>1. MachinesTyped' /\ SpeechTyped' /\ pair' \in Pairs
  BY DEF Correct, Typed, MachinesTyped, SpeechTyped, machineVars, States, MachineOf
<1>2. ConnNamed'
  BY DEF Correct, ConnNamed, machineVars
<1> QED BY <1>1, <1>2 DEF Correct, Typed

\* A queue of at most one loses its head.
LEMMA TailOfOne ==
  ASSUME NEW T, NEW s \in Seq(T), s # <<>>, Len(s) <= 1
  PROVE  s = <<Head(s)>> /\ Head(s) \in T /\ Tail(s) = <<>>
<1>1. Len(s) \in Nat /\ Len(s) # 0
  OBVIOUS
<1>2. Len(s) = 1
  BY <1>1
<1>3. s = [i \in 1 .. 1 |-> s[i]] /\ s[1] \in T /\ Head(s) = s[1]
  BY <1>2
<1>4. s = <<s[1]>>
  BY <1>3
<1>5. Tail(s) \in Seq(T) /\ Len(Tail(s)) = 0
  BY <1>2
<1>6. Tail(s) = <<>>
  BY <1>5
<1> QED BY <1>3, <1>4, <1>6

\* Conversation.backendReceived, up to its filter.
LEMMA ReceiveCorrect ==
  ASSUME Correct, NEW c \in Conns, Receive(c)
  PROVE  Correct'
<1>1. c \in Machines /\ c # Backend /\ Backend \in Machines /\ Typed
  BY ConstantsAssumption DEF Machines, Correct
<1>2. /\ BackendChan' = [BackendChan EXCEPT ![c] = Tail(@)]
      /\ pc' = [pc EXCEPT ![c] = IF Filtered(c, cell[Backend]) THEN "select" ELSE "read"]
      /\ BackendChan[c] # <<>>
      /\ UNCHANGED <<pair, machineVars, reading, target, waiting, moves, said, heard>>
  BY DEF Receive
<1>3. BackendChan[c] \in Seq(Machines) /\ Len(BackendChan[c]) <= 1
  BY <1>1 DEF Typed, GoroutinesTyped
<1>4. Tail(BackendChan[c]) = <<>>
  BY <1>2, <1>3, TailOfOne
<1>5. BackendChan' = [BackendChan EXCEPT ![c] = <<>>]
  BY <1>2, <1>4
<1>6. GoroutinesTyped'
  BY <1>1, <1>2, <1>5 DEF Typed, GoroutinesTyped
<1>7. BackendChan'[Backend] = BackendChan[Backend] /\ pc'[Backend] = pc[Backend] /\ pc'[c] # "send"
      /\ \A d \in Conns : d # c => pc'[d] = pc[d]
  BY <1>1, <1>2, <1>5 DEF Typed, GoroutinesTyped, Machines
<1>8. \A d \in Conns : OnItsWay(d)' => OnItsWay(d)
  BY <1>2, <1>7 DEF OnItsWay
<1> QED BY <1>2, <1>6, <1>8, Untouched

\* The multiplexer hands the next data to the backend machine: what was in the
\* channel is what is read.
LEMMA ReceiveBackendCorrect ==
  ASSUME Correct, ReceiveBackend
  PROVE  Correct'
<1>1. Backend \notin Conns /\ Backend \in Machines /\ Conns \subseteq Machines /\ Typed
  BY ConstantsAssumption DEF Machines, Correct
<1>2. /\ BackendChan' = [BackendChan EXCEPT ![Backend] = Tail(@)]
      /\ reading' = Head(BackendChan[Backend])
      /\ pc' = [pc EXCEPT ![Backend] = "read"]
      /\ BackendChan[Backend] # <<>>
      /\ UNCHANGED <<pair, machineVars, target, waiting, moves, said, heard>>
  BY DEF ReceiveBackend
<1>3. BackendChan[Backend] \in Seq(Conns) /\ Len(BackendChan[Backend]) <= 1
  BY <1>1 DEF Typed, GoroutinesTyped
<1>4. /\ BackendChan[Backend] = <<Head(BackendChan[Backend])>> /\ Head(BackendChan[Backend]) \in Conns
      /\ Tail(BackendChan[Backend]) = <<>>
  BY <1>2, <1>3, TailOfOne
<1>5. BackendChan' = [BackendChan EXCEPT ![Backend] = <<>>]
  BY <1>2, <1>4
<1>6. GoroutinesTyped'
  BY <1>1, <1>2, <1>4, <1>5 DEF Typed, GoroutinesTyped
<1>7. BackendChan'[Backend] = <<>> /\ \A d \in Conns : pc'[d] = pc[d]
  BY <1>1, <1>2, <1>5 DEF Typed, GoroutinesTyped, Machines
<1>8. BackendChan[Backend][1] = Head(BackendChan[Backend]) /\ 1 \in DOMAIN BackendChan[Backend]
  BY <1>2, <1>3
<1>9. \A d \in Conns : OnItsWay(d)' => OnItsWay(d)
  BY <1>2, <1>7, <1>8 DEF OnItsWay
<1> QED BY <1>2, <1>6, <1>9, Untouched

\* The session a machine adopts is a session.
LEMMA AdoptedTyped ==
  ASSUME Typed, NEW m \in Machines, NEW data \in BackendData
  PROVE  Adopted(m, data) \in Sessions
BY DEF Typed, MachinesTyped, BackendData, Adopted

\* A machine reacts to backend data, the backend machine to data that name
\* their conversation.
LEMMA TriggerCorrect ==
  ASSUME WholeMachines, Correct, NEW m \in Machines, Trigger(m)
  PROVE  Correct'
<1> DEFINE data == IF m = Backend THEN cell[reading] ELSE cell[Backend]
           input == IF m = Backend THEN data ELSE NoData
           t == First(m, "backend", data.content)
<1>1. Backend \notin Conns /\ Backend \in Machines /\ Conns \subseteq Machines /\ Typed
  BY ConstantsAssumption DEF Machines, Correct
<1>2. reading \in Conns
  BY <1>1 DEF Typed, GoroutinesTyped
<1>3. data \in BackendData
  BY <1>1, <1>2 DEF Typed, MachinesTyped
<1>4. input \in BackendData /\ data.content \in Messages \cup {0} /\ Adopted(m, data) \in Sessions
  BY <1>1, <1>3, NoDataTyped, AdoptedTyped DEF BackendData
<1>5. pc[m] = "read" /\ UNCHANGED <<pair, BackendChan, reading, waiting, moves, said>>
  BY DEF Trigger
<1>6. m = Backend => input.conn # None
  BY <1>2, <1>5 DEF Correct, ConnNamed, OnItsWay
<1>7. CASE Fitting(m, "backend", data.content) # {}
  <2>1. Fire(m, t, input, data.content, Adopted(m, data))
    BY <1>7 DEF Trigger
  <2>2. t.target \in DOMAIN MachineOf(m).states
    BY <1>1, <1>7, FirstIsTransition
  <2> HIDE DEF t, input, data
  <2>3. /\ MachinesTyped' /\ pc' \in [Machines -> {"select", "read", "send"}]
        /\ heard' \subseteq [who : Conns, msg : Messages, room : Sessions]
    BY <1>1, <1>4, <1>5, <1>6, <2>1, <2>2, FireTyped
  <2>4. ConnNamed'
    BY <1>4, <1>5, <1>6, <2>1, <2>2, FireNamed
  <2>5. SpeechTyped' /\ GoroutinesTyped' /\ pair' \in Pairs
    BY <1>1, <1>5, <2>3 DEF Typed, SpeechTyped, GoroutinesTyped
  <2> QED BY <2>3, <2>4, <2>5 DEF Correct, Typed
<1>8. CASE Fitting(m, "backend", data.content) = {}
  <2>1. /\ session' = [session EXCEPT ![m] = Adopted(m, data)] /\ pc' = [pc EXCEPT ![m] = "select"]
        /\ UNCHANGED <<current, reported, cell, target, heard>>
    BY <1>8 DEF Trigger
  <2> HIDE DEF t, input, data
  <2>2. MachinesTyped'
    BY <1>1, <1>4, <1>5, <2>1 DEF Typed, MachinesTyped, States, MachineOf
  <2>3. SpeechTyped' /\ GoroutinesTyped' /\ pair' \in Pairs
    BY <1>1, <1>5, <2>1 DEF Typed, SpeechTyped, GoroutinesTyped
  <2>4. \A c \in Conns : OnItsWay(c)' => OnItsWay(c)
    BY <1>1, <1>5, <2>1 DEF OnItsWay, Typed, GoroutinesTyped
  <2>5. ConnNamed'
    BY <2>1, <2>4 DEF Correct, ConnNamed
  <2> QED BY <2>2, <2>3, <2>5 DEF Correct, Typed
<1> QED BY <1>7, <1>8

\* StepAfterSend, for the two machines that send.
LEMMA StepAfterSendTyped ==
  ASSUME WholeMachines, Typed, NEW m \in Machines, StepAfterSend(m), UNCHANGED <<pair, cell, target>>
  PROVE  MachinesTyped'
<1>1. target[m] \in DOMAIN MachineOf(m).states /\ session[m] \in Sessions /\ Step(m, target[m], session[m])
  BY DEF StepAfterSend, Typed, MachinesTyped
<1>2. /\ current' \in [Machines -> States']
      /\ \A n \in Machines : current'[n] \in DOMAIN MachineOf(n)'.states
      /\ session' \in [Machines -> Sessions]
      /\ reported' \in [Machines -> BOOLEAN]
  BY <1>1, StepTyped
<1>3. States' = States /\ \A n : MachineOf(n)' = MachineOf(n)
  BY DEF States, MachineOf
<1>4. /\ target' \in [Machines -> States'] /\ cell' \in [Machines -> BackendData]
      /\ \A n \in Machines : target'[n] \in DOMAIN MachineOf(n)'.states
  BY <1>3 DEF Typed, MachinesTyped
<1> QED BY <1>2, <1>4 DEF MachinesTyped

\* Conversation.sendBackend, into an empty channel.
LEMMA SendBackendCorrect ==
  ASSUME WholeMachines, Correct, NEW c \in Conns, SendBackend(c)
  PROVE  Correct'
<1>1. Backend \notin Conns /\ Backend \in Machines /\ Conns \subseteq Machines /\ Typed
  BY ConstantsAssumption DEF Machines, Correct
<1>2. /\ pc[c] = "send" /\ Len(BackendChan[Backend]) < 1
      /\ BackendChan' = [BackendChan EXCEPT ![Backend] = Append(@, c)]
      /\ StepAfterSend(c) /\ pc' = [pc EXCEPT ![c] = "select"]
      /\ UNCHANGED <<pair, cell, reading, target, waiting, moves, said, heard>>
  BY DEF SendBackend, StepAfterSend
<1>3. BackendChan[Backend] \in Seq(Conns) /\ BackendChan[Backend] \in Seq(Machines)
  BY <1>1 DEF Typed, GoroutinesTyped
<1>4. BackendChan[Backend] = <<>>
  BY <1>2, <1>3
<1>5. BackendChan' = [BackendChan EXCEPT ![Backend] = <<c>>]
  BY <1>2, <1>4
<1>6. MachinesTyped'
  BY <1>1, <1>2, StepAfterSendTyped
<1>7. GoroutinesTyped'
  <2>1. BackendChan' \in [Machines -> Seq(Machines)] /\ \A n \in Machines : Len(BackendChan'[n]) <= 1
    BY <1>1, <1>5 DEF Typed, GoroutinesTyped
  <2>2. BackendChan'[Backend] = <<c>>
    BY <1>1, <1>5 DEF Typed, GoroutinesTyped
  <2> QED BY <1>1, <1>2, <2>1, <2>2 DEF Typed, GoroutinesTyped
<1>8. SpeechTyped' /\ pair' \in Pairs
  BY <1>1, <1>2 DEF Typed, SpeechTyped
<1>9. \A d \in Conns : OnItsWay(d)' => OnItsWay(d)
  <2>1. BackendChan'[Backend] = <<c>> /\ pc'[Backend] = pc[Backend] /\ \A d \in Conns : pc'[d] = "send" => pc[d] = "send"
    BY <1>1, <1>2, <1>5 DEF Typed, GoroutinesTyped
  <2> QED BY <1>2, <2>1 DEF OnItsWay
<1>10. ConnNamed'
  BY <1>2, <1>9 DEF Correct, ConnNamed
<1> QED BY <1>6, <1>7, <1>8, <1>10 DEF Correct, Typed

\* Backend.sendBackendData, to one conversation after the other.
LEMMA BroadcastCorrect ==
  ASSUME WholeMachines, Correct, NEW c \in Conns, Broadcast(c)
  PROVE  Correct'
<1>1. Backend \notin Conns /\ Backend \in Machines /\ Conns \subseteq Machines /\ Typed
  BY ConstantsAssumption DEF Machines, Correct
<1>2. /\ pc[Backend] = "send" /\ Len(BackendChan[c]) < 1
      /\ BackendChan' = [BackendChan EXCEPT ![c] = Append(@, Backend)]
      /\ UNCHANGED <<pair, cell, reading, target, moves, said, heard>>
      /\ Reached(c)
  BY DEF Broadcast
<1>3. BackendChan[c] \in Seq(Machines)
  BY <1>1 DEF Typed, GoroutinesTyped
<1>4. BackendChan[c] = <<>>
  BY <1>2, <1>3
<1>5. BackendChan' = [BackendChan EXCEPT ![c] = <<Backend>>]
  BY <1>2, <1>4
<1>6. MachinesTyped'
  <2>1. CASE StepAfterSend(Backend)
    BY <1>1, <1>2, <2>1, StepAfterSendTyped
  <2>2. CASE UNCHANGED <<current, session, reported, pc>>
    BY <1>1, <1>2, <2>2 DEF Typed, MachinesTyped, States, MachineOf
  <2> QED BY <1>2, <2>1, <2>2 DEF Reached
<1>7. waiting' \subseteq Conns /\ (pc' = pc \/ pc' = [pc EXCEPT ![Backend] = "select"])
  BY <1>1, <1>2 DEF Reached, StepAfterSend, Typed, GoroutinesTyped
<1>8. BackendChan'[Backend] = BackendChan[Backend] /\ \A d \in Conns : pc'[d] = pc[d]
  BY <1>1, <1>5, <1>7 DEF Typed, GoroutinesTyped
<1>9. GoroutinesTyped'
  <2>1. BackendChan' \in [Machines -> Seq(Machines)] /\ \A n \in Machines : Len(BackendChan'[n]) <= 1
    BY <1>1, <1>5 DEF Typed, GoroutinesTyped
  <2> QED BY <1>1, <1>2, <1>7, <1>8, <2>1 DEF Typed, GoroutinesTyped
<1>10. SpeechTyped' /\ pair' \in Pairs
  BY <1>1, <1>2 DEF Typed, SpeechTyped
<1>11. pc'[Backend] = "read" => pc[Backend] = "read"
  BY <1>1, <1>7 DEF Typed, GoroutinesTyped
<1>12. \A d \in Conns : OnItsWay(d)' => OnItsWay(d)
  BY <1>2, <1>8, <1>11 DEF OnItsWay
<1>13. ConnNamed'
  BY <1>2, <1>12 DEF Correct, ConnNamed
<1> QED BY <1>6, <1>9, <1>10, <1>13 DEF Correct, Typed

\* Every step of the bot keeps what is correct so.
LEMMA NextCorrect ==
  ASSUME WholeMachines, Correct, [Next]_vars
  PROVE  Correct'
<1>1. Backend \in Machines /\ Conns \subseteq Machines
  BY DEF Machines
<1>2. CASE Serve
  BY <1>1, <1>2, ReceiveBackendCorrect, TriggerCorrect, BroadcastCorrect DEF Serve
<1>3. ASSUME NEW c \in Conns, Speak(c)
      PROVE  Correct'
  BY <1>3, JoinCorrect, SayCommandCorrect, SayCorrect DEF Speak
<1>4. ASSUME NEW c \in Conns, Converse(c)
      PROVE  Correct'
  BY <1>1, <1>4, ReceiveCorrect, TriggerCorrect, SendBackendCorrect DEF Converse
<1>5. CASE UNCHANGED vars
  BY <1>5, Untouched DEF vars, machineVars, goroutineVars, Correct, Typed, GoroutinesTyped, OnItsWay
<1> QED BY <1>2, <1>3, <1>4, <1>5 DEF Next

\* The invariant has the types of the model in it.
LEMMA CorrectIsTypeOK ==
  ASSUME Correct
  PROVE  TypeOK
BY DEF Correct, Typed, MachinesTyped, GoroutinesTyped, SpeechTyped, TypeOK

(* Whatever the machines and whoever speaks, the channels hold at most one
   message, machines are in states of their own, and each conversation is
   moved only between rooms that users have named. *)
THEOREM TypeCorrect == WholeMachines => (Spec => []TypeOK)
<1> SUFFICES ASSUME WholeMachines
             PROVE  Spec => []TypeOK
  OBVIOUS
<1>1. Init => Correct
  BY InitCorrect
<1>2. Correct /\ [Next]_vars => Correct'
  BY NextCorrect
<1>3. Correct => TypeOK
  BY CorrectIsTypeOK
<1> QED BY <1>1, <1>2, <1>3, PTL DEF Spec

(* A cell that a conversation has handed over names the conversation, so
   assert.NotEmpty of buildBackendSend does not fail for the backend machine,
   which has no connection of its own. *)
THEOREM ConnAlwaysNamed == WholeMachines => (Spec => []ConnNamed)
<1> SUFFICES ASSUME WholeMachines
             PROVE  Spec => []ConnNamed
  OBVIOUS
<1>1. Init => Correct
  BY InitCorrect
<1>2. Correct /\ [Next]_vars => Correct'
  BY NextCorrect
<1>3. Correct => ConnNamed
  BY DEF Correct
<1> QED BY <1>1, <1>2, <1>3, PTL DEF Spec
-----------------------------------------------------------------------------
(* Rooms, for users who wait for each other.                                 *)

\* What was said stays said.
SaidKept ==
  /\ DOMAIN said \subseteq DOMAIN said'
  /\ \A n \in DOMAIN said : said'[n].by = said[n].by /\ said'[n].room = said[n].room

\* Whether there is an echo is a matter of the machines, which do not change.
LEMMA EchoOffKept == ASSUME pair' = pair PROVE EchoOff' = EchoOff
BY DEF EchoOff

\* Cells that do not change keep what they say of their content.
LEMMA LabelledKept ==
  ASSUME Labelled, SaidKept, pair' = pair, cell' = cell
  PROVE  Labelled'
<1>1. ASSUME NEW m \in Machines
      PROVE  Carries(cell[m])'
  BY <1>1, EchoOffKept DEF Labelled, Carries, SaidKept
<1> QED BY <1>1 DEF Labelled

\* What was heard stays right as long as nothing else is heard.
LEMMA HeardKept ==
  ASSUME Heard, SaidKept, pair' = pair, heard' = heard
  PROVE  Heard'
<1>1. HeardWasSaid' /\ HearsOwnRoom'
  BY DEF Heard, HeardWasSaid, HearsOwnRoom, SaidKept
<1>2. NoOwnEcho'
  BY EchoOffKept DEF Heard, HeardWasSaid, NoOwnEcho, SaidKept
<1> QED BY <1>1, <1>2 DEF Heard

\* A machine that steps has the session it is given, or none.
LEMMA StepSession ==
  ASSUME Typed, NEW m \in Machines, NEW state, NEW memory, Step(m, state, memory)
  PROVE  /\ session'[m] \in {None, memory}
         /\ \A n \in Machines : n # m => session'[n] = session[n]
BY DEF Step, Typed, MachinesTyped

\* Firing what sends no backend data is one step, which leaves the cells alone.
LEMMA FireSilent ==
  ASSUME Typed, NEW m \in Machines, NEW t, ~Publishes(t), NEW input, NEW content, NEW memory,
         Fire(m, t, input, content, memory)
  PROVE  /\ cell' = cell /\ target' = target
         /\ pc' = [pc EXCEPT ![m] = "select"]
         /\ pc'[m] = "select" /\ \A n \in Machines : n # m => pc'[n] = pc[n]
         /\ session'[m] \in {None, memory}
         /\ \A n \in Machines : n # m => session'[n] = session[n]
<1>1. Step(m, t.target, memory) /\ pc' = [pc EXCEPT ![m] = "select"] /\ cell' = cell /\ target' = target
  BY DEF Fire
<1> QED BY <1>1, StepSession DEF Typed, GoroutinesTyped

\* At first all cells are empty and nothing is heard.
LEMMA OrderlyInit ==
  ASSUME Init
  PROVE  Orderly
<1>1. \A m \in Machines : BackendChan[m] = <<>> /\ pc[m] = "select" /\ cell[m] = NoData
  BY DEF Init
<1>2. Backend \in Machines /\ \A c \in Conns : c \in Machines
  BY DEF Machines
<1>3. OneMessage /\ ReadsWhatPassed
  BY <1>1, <1>2 DEF OneMessage, ReadsWhatPassed
<1>4. Labelled
  BY <1>1, <1>2 DEF Labelled, Carries, NoData
<1>5. heard = {}
  BY DEF Init
<1>6. Heard
  BY <1>5 DEF Heard, HeardWasSaid, HearsOwnRoom, NoOwnEcho
<1> QED BY <1>3, <1>4, <1>6 DEF Orderly

\* A user who names a room or says a command sends nothing to the others.
LEMMA MoveOrderly ==
  ASSUME SendsOnInput, WholeMachines, Correct, Orderly, NEW c \in Conns, NEW word, NEW memory,
         Triggered(c, word), First(c, "basic_message", word).trigger.rule # "INPUT",
         Fire(c, First(c, "basic_message", word), NoData, 0, memory), Moves(c),
         UNCHANGED <<pair, BackendChan, reading, waiting>>
  PROVE  Orderly'
<1> DEFINE t == First(c, "basic_message", word)
<1>1. c \in Machines /\ Typed /\ pc[c] = "select" /\ Fitting(c, "basic_message", word) # {}
  BY DEF Machines, Correct, Triggered
<1>2. ~Publishes(t)
  BY <1>1, OnlyInputPublishes
<1>3. SaidKept
  BY <1>1, MovesTyped DEF SaidKept
<1>4. heard' = heard
  BY DEF Fire
<1> HIDE DEF t
<1>5. /\ cell' = cell /\ pc'[c] = "select" /\ pc' = [pc EXCEPT ![c] = "select"]
      /\ \A n \in Machines : n # c => session'[n] = session[n]
  BY <1>1, <1>2, FireSilent DEF t
<1>6. pc' = pc
  BY <1>1, <1>5 DEF Typed, GoroutinesTyped
<1>7. OneMessage'
  BY <1>6 DEF Orderly, OneMessage, Alone
<1>8. ReadsWhatPassed'
  <2> SUFFICES ASSUME NEW d \in Conns, pc'[d] = "read"
               PROVE  ~Filtered(d, cell[Backend])'
    BY DEF ReadsWhatPassed
  <2>1. d # c /\ pc[d] = "read" /\ d \in Machines
    BY <1>1, <1>6 DEF Machines
  <2>2. session'[d] = session[d] /\ ~Filtered(d, cell[Backend])
    BY <1>5, <2>1 DEF Orderly, ReadsWhatPassed
  <2> QED BY <1>5, <2>2 DEF Filtered
<1>9. Labelled' /\ Heard'
  BY <1>3, <1>4, <1>5, LabelledKept, HeardKept DEF Orderly
<1> QED BY <1>7, <1>8, <1>9 DEF Orderly

\* With no_echo, every send of backend data asks for no echo: there is one.
LEMMA EchoOffSends ==
  ASSUME EchoOff, Typed, NEW c \in Conns, NEW i \in DOMAIN Transitions(c),
         NEW j \in DOMAIN Transitions(c)[i].sends, IsBackend(Transitions(c)[i].sends[j])
  PROVE  Transitions(c)[i].sends[j].data = "no_echo"
<1>1. c # Backend /\ c \in Machines /\ pair \in Pairs
  BY ConstantsAssumption DEF Machines, Typed
<1>2. Transitions(c) = pair.conversation.states[current[c]] /\ current[c] \in DOMAIN pair.conversation.states
  BY <1>1 DEF Transitions, MachineOf, Typed, MachinesTyped
<1>3. <<current[c], i, j>> \in Publishing(pair.conversation)
  BY <1>2 DEF Publishing
<1>4. PICK p \in Publishing(pair.conversation) :
        pair.conversation.states[p[1]][p[2]].sends[p[3]].data = "no_echo"
  BY DEF EchoOff
<1>5. p = <<current[c], i, j>>
  BY <1>1, <1>3, <1>4, ConstantsAssumption
<1> QED BY <1>2, <1>4, <1>5

\* A message of the user fills the conversation's cell with what it is: who
\* said it, in which room, and whether it is to come back.
LEMMA SayOrderly ==
  ASSUME Paced, SendsOnInput, WholeMachines, Correct, Orderly, NEW c \in Conns, Say(c)
  PROVE  Orderly'
<1> DEFINE msg == Len(said) + 1
           t == First(c, "basic_message", msg)
           send == CHOOSE s \in {t.sends[i] : i \in DOMAIN t.sends} : IsBackend(s)
           data == Filled(c, send, NoData, msg, session[c])
           speech == [by |-> c, room |-> session[c],
                      members |-> IF session[c] = None THEN {} ELSE Members(session[c]) \ {c}]
<1>1. c \in Machines /\ c # Backend /\ Typed /\ Backend \in Machines /\ Conns \subseteq Machines /\ None \notin Conns
  BY ConstantsAssumption DEF Machines, Correct
<1>2. /\ Quiet /\ Fitting(c, "basic_message", msg) # {} /\ Publishes(t) /\ msg \in Messages
      /\ said' = Append(said, speech) /\ Fire(c, t, NoData, msg, session[c])
      /\ UNCHANGED <<pair, moves, BackendChan, reading, waiting>>
  BY DEF Say, Triggered
<1>3. said \in Seq(Spoken) /\ Len(said) \in Nat
  BY <1>1 DEF Typed, SpeechTyped
<1> HIDE DEF speech
<1>4. msg \in DOMAIN said' /\ said'[msg] = speech /\ SaidKept
  BY <1>2, <1>3 DEF SaidKept
<1>5. cell' = [cell EXCEPT ![c] = data] /\ pc' = [pc EXCEPT ![c] = "send"]
  BY <1>2 DEF Fire
<1>6. IsBackend(send) /\ \E j \in DOMAIN t.sends : send = t.sends[j]
  BY <1>2, ChosenSend
<1>7. PICK i \in DOMAIN Transitions(c) : t = Transitions(c)[i]
  BY <1>1, <1>2, FirstIsTransition
<1>8. EchoOff => send.data = "no_echo"
  BY <1>1, <1>6, <1>7, EchoOffSends
<1>9. data.conn = c
  BY <1>1 DEF Filled, NoData, Orderly, Labelled
<1>10. data.content = msg /\ data.sid = session[c] /\ (EchoOff => data.noEcho)
  BY <1>1, <1>8 DEF Filled
<1>11. heard' = heard
  BY <1>1, <1>2, OnlyInputPublishes DEF Fire
<1> HIDE DEF data, send, t, msg
<1>12. cell'[c] = data /\ \A n \in Machines : n # c => cell'[n] = cell[n]
  BY <1>1, <1>5 DEF Typed, MachinesTyped
<1>13. Labelled'
  <2>1. ASSUME NEW m \in Machines
        PROVE  Carries(cell[m])'
    <3>1. CASE m = c
      <4>1. cell'[m].content = msg /\ cell'[m].conn = c /\ cell'[m].sid = session[c]
            /\ (EchoOff' => cell'[m].noEcho)
        BY <1>2, <1>9, <1>10, <1>12, <3>1, EchoOffKept
      <4>2. said'[msg].by = c /\ said'[msg].room = session[c]
        BY <1>4 DEF speech
      <4> QED BY <1>4, <4>1, <4>2 DEF Carries
    <3>2. CASE m # c
      <4>1. Carries(cell[m]) /\ cell'[m] = cell[m]
        BY <1>12, <2>1, <3>2 DEF Orderly, Labelled
      <4> QED BY <1>2, <1>4, <4>1, EchoOffKept DEF Carries, SaidKept
    <3> QED BY <3>1, <3>2
  <2>2. \A d \in Conns : cell'[d].conn \in {None, d}
    BY <1>1, <1>9, <1>12 DEF Orderly, Labelled
  <2> QED BY <2>1, <2>2 DEF Labelled
<1>14. pc'[c] = "send" /\ \A n \in Machines : BackendChan'[n] = <<>> /\ (n # c => pc'[n] = "select")
  BY <1>1, <1>2, <1>5 DEF Quiet, Typed, GoroutinesTyped
<1>15. OneMessage' /\ ReadsWhatPassed'
  BY <1>1, <1>14 DEF OneMessage, Alone, ReadsWhatPassed
<1>16. Heard'
  BY <1>2, <1>4, <1>11, HeardKept DEF Orderly
<1> QED BY <1>13, <1>15, <1>16 DEF Orderly

\* What leaves the messages, the cells and the sessions alone.
LEMMA LabelsAndHeardKept ==
  ASSUME Orderly, UNCHANGED <<pair, cell, said, heard>>
  PROVE  Labelled' /\ Heard'
<1>1. SaidKept
  BY DEF SaidKept
<1> QED BY <1>1, LabelledKept, HeardKept DEF Orderly

\* A message on its way down leaves nothing on its way up.
LEMMA ReceiveOrderly ==
  ASSUME Correct, Orderly, NEW c \in Conns, Receive(c)
  PROVE  Orderly'
<1>1. c \in Machines /\ c # Backend /\ Typed /\ Backend \in Machines /\ Conns \subseteq Machines /\ Backend \notin Conns
  BY ConstantsAssumption DEF Machines, Correct
<1>2. /\ BackendChan[c] # <<>>
      /\ BackendChan' = [BackendChan EXCEPT ![c] = Tail(@)]
      /\ pc' = [pc EXCEPT ![c] = IF Filtered(c, cell[Backend]) THEN "select" ELSE "read"]
      /\ UNCHANGED <<pair, machineVars, reading, target, waiting, moves, said, heard>>
  BY DEF Receive
<1>3. /\ \A d \in Conns : pc[d] # "send"
      /\ pc[Backend] # "read" /\ BackendChan[Backend] = <<>>
  BY <1>1, <1>2 DEF Orderly, OneMessage, Alone
<1>4. /\ \A n \in Machines : n # c => pc'[n] = pc[n]
      /\ pc'[c] = IF Filtered(c, cell[Backend]) THEN "select" ELSE "read"
      /\ BackendChan'[Backend] = BackendChan[Backend]
  BY <1>1, <1>2 DEF Typed, GoroutinesTyped
<1>5. OneMessage'
  BY <1>1, <1>3, <1>4 DEF OneMessage
<1>6. session' = session /\ cell' = cell
  BY <1>2 DEF machineVars
<1>7. ReadsWhatPassed'
  BY <1>1, <1>4, <1>6 DEF Orderly, ReadsWhatPassed, Filtered
<1> QED BY <1>2, <1>5, <1>6, <1>7, LabelsAndHeardKept DEF Orderly

\* The message on its way up reaches the backend machine, with nobody else
\* at work.
LEMMA ReceiveBackendOrderly ==
  ASSUME Correct, Orderly, ReceiveBackend
  PROVE  Orderly'
<1>1. Backend \notin Conns /\ Backend \in Machines /\ Conns \subseteq Machines /\ Typed
  BY ConstantsAssumption DEF Machines, Correct
<1>2. /\ BackendChan[Backend] # <<>>
      /\ BackendChan' = [BackendChan EXCEPT ![Backend] = Tail(@)]
      /\ pc' = [pc EXCEPT ![Backend] = "read"]
      /\ UNCHANGED <<pair, machineVars, target, waiting, moves, said, heard>>
  BY DEF ReceiveBackend
<1>3. Tail(BackendChan[Backend]) = <<>>
  BY <1>1, <1>2, TailOfOne DEF Typed, GoroutinesTyped
<1>4. /\ \A m \in Machines : pc[m] = "select"
      /\ \A c \in Conns : BackendChan[c] = <<>>
  BY <1>2 DEF Orderly, OneMessage
<1>5. \A m \in Machines : BackendChan'[m] = <<>> /\ (m # Backend => pc'[m] = "select")
  BY <1>1, <1>2, <1>3, <1>4 DEF Typed, GoroutinesTyped, Machines
<1>6. OneMessage' /\ ReadsWhatPassed'
  BY <1>1, <1>5 DEF OneMessage, Alone, ReadsWhatPassed
<1>7. UNCHANGED <<pair, cell, said, heard>>
  BY <1>2 DEF machineVars
<1> QED BY <1>6, <1>7, LabelsAndHeardKept DEF Orderly

\* The backend machine's turn, which nobody else has: its cell takes over what
\* the conversation's says.
LEMMA TriggerBackendOrderly ==
  ASSUME WholeMachines, Correct, Orderly, Trigger(Backend)
  PROVE  Orderly'
<1> DEFINE data == cell[reading]
           t == First(Backend, "backend", data.content)
           send == CHOOSE s \in {t.sends[i] : i \in DOMAIN t.sends} : IsBackend(s)
           memory == Adopted(Backend, data)
           filled == Filled(Backend, send, data, data.content, memory)
<1>1. Backend \notin Conns /\ Backend \in Machines /\ Conns \subseteq Machines /\ Typed
      /\ reading \in Machines /\ None \notin Conns
  BY ConstantsAssumption DEF Machines, Correct, Typed, GoroutinesTyped
<1>2. pc[Backend] = "read" /\ UNCHANGED <<pair, BackendChan, reading, waiting, moves, said>>
  BY DEF Trigger
<1>3. Alone(Backend)
  BY <1>2 DEF Orderly, OneMessage
<1>4. pc' = [pc EXCEPT ![Backend] = "send"] \/ pc' = [pc EXCEPT ![Backend] = "select"]
  BY DEF Trigger, Fire
<1>5. \A n \in Machines : BackendChan'[n] = <<>> /\ (n # Backend => pc'[n] = "select")
  BY <1>1, <1>2, <1>3, <1>4 DEF Alone, Typed, GoroutinesTyped
<1>6. pc'[Backend] # "read"
  BY <1>1, <1>4 DEF Typed, GoroutinesTyped
<1>7. OneMessage' /\ ReadsWhatPassed'
  BY <1>1, <1>5, <1>6 DEF OneMessage, ReadsWhatPassed
<1>8. heard' = heard
  BY DEF Trigger, Fire
<1>9. SaidKept
  BY <1>2 DEF SaidKept
<1>10. Carries(data)
  BY <1>1 DEF Orderly, Labelled
<1>11. CASE Fitting(Backend, "backend", data.content) # {} /\ Publishes(t)
  <2>1. cell' = [cell EXCEPT ![Backend] = filled]
    BY <1>11 DEF Trigger, Fire
  <2>2. data.sid # None => memory = data.sid
    <3>1. \E i \in DOMAIN Transitions(Backend) : Transitions(Backend)[i].trigger.protocol = "backend"
      BY <1>11 DEF Fitting
    <3> QED BY <3>1 DEF Adopted
  <2>3. data.content # 0 => data.conn # None
    <3>1. data.content # 0 => data.content \in DOMAIN said /\ data.conn = said[data.content].by
      BY <1>10 DEF Carries
    <3>2. said \in Seq(Spoken)
      BY <1>1 DEF Typed, SpeechTyped
    <3>3. \A n \in DOMAIN said : said[n] \in Spoken
      BY <3>2
    <3>4. \A n \in DOMAIN said : said[n].by \in Conns
      BY <3>3 DEF Spoken
    <3> QED BY <1>1, <3>1, <3>4
  <2> HIDE DEF send, memory
  <2>4. /\ filled.content = data.content
        /\ data.conn # None => filled.conn = data.conn
        /\ data.sid # None => filled.sid = memory
        /\ data.noEcho => filled.noEcho
    BY <1>1 DEF Filled
  <2> HIDE DEF filled, data
  <2>5. Carries(filled)
    <3>1. SUFFICES ASSUME data.content # 0
                   PROVE  /\ data.content \in DOMAIN said
                          /\ filled.conn = said[data.content].by
                          /\ said[data.content].room # None => filled.sid = said[data.content].room
                          /\ EchoOff => filled.noEcho
      BY <2>4 DEF Carries
    <3>2. /\ data.content \in DOMAIN said /\ data.conn = said[data.content].by
          /\ said[data.content].room # None => data.sid = said[data.content].room
          /\ EchoOff => data.noEcho
      BY <1>10, <3>1 DEF Carries
    <3> QED BY <2>2, <2>3, <2>4, <3>1, <3>2
  <2>6. cell'[Backend] = filled /\ \A n \in Machines : n # Backend => cell'[n] = cell[n]
    BY <1>1, <2>1 DEF Typed, MachinesTyped
  <2>7. ASSUME NEW m \in Machines
        PROVE  Carries(cell[m])'
    <3>1. Carries(cell'[m])
      BY <2>5, <2>6, <2>7 DEF Orderly, Labelled
    <3> QED BY <1>2, <3>1, EchoOffKept DEF Carries
  <2>8. Labelled'
    BY <1>1, <2>6, <2>7 DEF Orderly, Labelled
  <2> QED BY <1>2, <1>7, <1>8, <1>9, <2>8, HeardKept DEF Orderly
<1>12. CASE ~(Fitting(Backend, "backend", data.content) # {} /\ Publishes(t))
  <2>1. cell' = cell
    BY <1>12 DEF Trigger, Fire
  <2> QED BY <1>2, <1>7, <1>8, <1>9, <2>1, LabelledKept, HeardKept DEF Orderly
<1> QED BY <1>11, <1>12

\* A conversation reads what it has let through: of its own room, and not what
\* it said itself if that is not to come back.
LEMMA TriggerOrderly ==
  ASSUME SendsOnInput, WholeMachines, Correct, Orderly, NEW c \in Conns, Trigger(c)
  PROVE  Orderly'
<1> DEFINE data == cell[Backend]
           t == First(c, "backend", data.content)
           h == [who |-> c, msg |-> data.content, room |-> session[c]]
<1>1. c \in Machines /\ c # Backend /\ Typed /\ Backend \in Machines /\ Conns \subseteq Machines /\ Backend \notin Conns
  BY ConstantsAssumption DEF Machines, Correct
<1>2. /\ pc[c] = "read" /\ UNCHANGED <<pair, BackendChan, reading, waiting, moves, said>>
  BY DEF Trigger
<1>3. /\ cell' = cell /\ pc' = [pc EXCEPT ![c] = "select"]
      /\ \A n \in Machines : n # c => session'[n] = session[n]
  <2>1. CASE Fitting(c, "backend", data.content) # {}
    <3>1. Fire(c, t, NoData, data.content, Adopted(c, data))
      BY <1>1, <2>1 DEF Trigger
    <3>2. ~Publishes(t)
      BY <2>1, <1>1, OnlyInputPublishes
    <3> QED BY <1>1, <3>1, <3>2, FireSilent
  <2>2. CASE Fitting(c, "backend", data.content) = {}
    BY <1>1, <2>2 DEF Trigger, Typed, MachinesTyped
  <2> QED BY <2>1, <2>2
<1>4. heard' = heard \/ (data.content # 0 /\ heard' = heard \cup {h})
  BY <1>1 DEF Trigger, Fire
<1>5. Carries(data) /\ ~Filtered(c, data)
  BY <1>1, <1>2 DEF Orderly, Labelled, ReadsWhatPassed
<1>6. pc'[c] = "select" /\ \A n \in Machines : n # c => pc'[n] = pc[n]
  BY <1>1, <1>3 DEF Typed, GoroutinesTyped
<1>7. /\ \A d \in Conns : pc[d] # "send"
      /\ pc[Backend] # "read" /\ BackendChan[Backend] = <<>>
  BY <1>1, <1>2 DEF Orderly, OneMessage, Alone
<1>8. OneMessage'
  BY <1>1, <1>2, <1>6, <1>7 DEF OneMessage
<1>9. ReadsWhatPassed'
  BY <1>1, <1>3, <1>6 DEF Orderly, ReadsWhatPassed, Filtered
<1>10. SaidKept
  BY <1>2 DEF SaidKept
<1>11. Heard'
  <2>1. CASE heard' = heard
    BY <1>2, <1>10, <2>1, HeardKept DEF Orderly
  <2>2. CASE data.content # 0 /\ heard' = heard \cup {h}
    <3>1. /\ data.content \in DOMAIN said /\ data.conn = said[data.content].by
          /\ said[data.content].room # None => data.sid = said[data.content].room
          /\ EchoOff => data.noEcho
      BY <1>5, <2>2 DEF Carries
    <3>2. said[data.content].room # None => session[c] \in {said[data.content].room, None}
      BY <1>5, <3>1 DEF Filtered
    <3>3. EchoOff => said[data.content].by # c
      BY <1>5, <3>1 DEF Filtered
    <3> HIDE DEF data
    <3>4. HeardWasSaid' /\ HearsOwnRoom'
      BY <1>2, <2>2, <3>1, <3>2 DEF Orderly, Heard, HeardWasSaid, HearsOwnRoom
    <3>5. ASSUME EchoOff, NEW g \in heard'
          PROVE  said[g.msg].by # g.who
      <4>1. CASE g \in heard
        BY <3>5, <4>1 DEF Orderly, Heard, NoOwnEcho
      <4>2. CASE g = h
        BY <3>3, <3>5, <4>2
      <4> QED BY <2>2, <3>5, <4>1, <4>2
    <3>6. NoOwnEcho'
      BY <1>2, <3>5, EchoOffKept DEF NoOwnEcho
    <3> QED BY <3>4, <3>6 DEF Heard
  <2> QED BY <1>4, <2>1, <2>2
<1>12. Labelled'
  BY <1>2, <1>3, <1>10, LabelledKept DEF Orderly
<1> QED BY <1>8, <1>9, <1>11, <1>12 DEF Orderly

\* The message is handed over, and its sender is done.
LEMMA SendBackendOrderly ==
  ASSUME Correct, Orderly, NEW c \in Conns, SendBackend(c)
  PROVE  Orderly'
<1>1. c \in Machines /\ c # Backend /\ Typed /\ Backend \in Machines /\ Conns \subseteq Machines /\ Backend \notin Conns
  BY ConstantsAssumption DEF Machines, Correct
<1>2. /\ pc[c] = "send"
      /\ BackendChan' = [BackendChan EXCEPT ![Backend] = Append(@, c)]
      /\ Step(c, target[c], session[c]) /\ pc' = [pc EXCEPT ![c] = "select"]
      /\ UNCHANGED <<pair, cell, reading, target, waiting, moves, said, heard>>
  BY DEF SendBackend, StepAfterSend
<1>3. Alone(c)
  BY <1>2 DEF Orderly, OneMessage
<1>4. \A m \in Machines : pc'[m] = "select" /\ (m # Backend => BackendChan'[m] = <<>>)
  BY <1>1, <1>2, <1>3 DEF Alone, Typed, GoroutinesTyped
<1>5. OneMessage' /\ ReadsWhatPassed'
  BY <1>1, <1>4 DEF OneMessage, ReadsWhatPassed
<1> QED BY <1>2, <1>5, LabelsAndHeardKept DEF Orderly

\* A broadcast fills the channels of conversations only.
LEMMA BroadcastOrderly ==
  ASSUME Correct, Orderly, NEW c \in Conns, Broadcast(c)
  PROVE  Orderly'
<1>1. Backend \notin Conns /\ Backend \in Machines /\ Conns \subseteq Machines /\ Typed
  BY ConstantsAssumption DEF Machines, Correct
<1>2. /\ pc[Backend] = "send"
      /\ BackendChan' = [BackendChan EXCEPT ![c] = Append(@, Backend)]
      /\ UNCHANGED <<pair, cell, reading, target, moves, said, heard>>
      /\ Reached(c)
  BY DEF Broadcast
<1>3. BackendChan[Backend] = <<>> /\ \A d \in Conns : pc[d] # "send"
  BY <1>1, <1>2 DEF Orderly, OneMessage, Alone
<1>4. BackendChan'[Backend] = <<>>
  BY <1>1, <1>2, <1>3 DEF Typed, GoroutinesTyped
<1>5. (pc' = pc /\ session' = session)
      \/ (pc' = [pc EXCEPT ![Backend] = "select"] /\ Step(Backend, target[Backend], session[Backend]))
  BY <1>2 DEF Reached, StepAfterSend
<1>6. /\ \A d \in Conns : pc'[d] = pc[d] /\ session'[d] = session[d]
      /\ pc'[Backend] # "read"
  BY <1>1, <1>2, <1>5, StepSession DEF Typed, GoroutinesTyped
<1>7. OneMessage'
  BY <1>3, <1>4, <1>6 DEF OneMessage
<1>8. ReadsWhatPassed'
  BY <1>2, <1>6 DEF Orderly, ReadsWhatPassed, Filtered
<1> QED BY <1>2, <1>7, <1>8, LabelsAndHeardKept DEF Orderly

\* Every step keeps the rooms in order.
LEMMA NextOrderly ==
  ASSUME Paced, SendsOnInput, WholeMachines, Correct, Orderly, [Next]_vars
  PROVE  Orderly'
<1>1. CASE Serve
  BY <1>1, ReceiveBackendOrderly, TriggerBackendOrderly, BroadcastOrderly DEF Serve
<1>2. ASSUME NEW c \in Conns, Speak(c)
      PROVE  Orderly'
  <2>1. ASSUME NEW room \in Rooms, Join(c, room)
        PROVE  Orderly'
    BY <2>1, MoveOrderly DEF Join
  <2>2. ASSUME NEW word \in Commands, SayCommand(c, word)
        PROVE  Orderly'
    BY <2>2, MoveOrderly DEF SayCommand
  <2> QED BY <1>2, <2>1, <2>2, SayOrderly DEF Speak
<1>3. ASSUME NEW c \in Conns, Converse(c)
      PROVE  Orderly'
  BY <1>3, ReceiveOrderly, TriggerOrderly, SendBackendOrderly DEF Converse
<1>4. CASE UNCHANGED vars
  <2>1. OneMessage' /\ ReadsWhatPassed'
    BY <1>4 DEF vars, machineVars, goroutineVars, Orderly, OneMessage, Alone, ReadsWhatPassed, Filtered
  <2>2. UNCHANGED <<pair, cell, said, heard>>
    BY <1>4 DEF vars, machineVars
  <2> QED BY <2>1, <2>2, LabelsAndHeardKept DEF Orderly
<1> QED BY <1>1, <1>2, <1>3, <1>4 DEF Next

\* What holds of a chat whose users wait for each other.
LEMMA AlwaysOrderly ==
  ASSUME Paced, SendsOnInput, WholeMachines
  PROVE  Spec => [](Correct /\ Orderly)
<1>1. Init => Correct /\ Orderly
  BY InitCorrect, OrderlyInit
<1>2. Correct /\ Orderly /\ [Next]_vars => (Correct /\ Orderly)'
  BY NextCorrect, NextOrderly
<1> QED BY <1>1, <1>2, PTL DEF Spec

(* When users wait for each other, what is said in a room is heard by its
   members, and by conversations that are in none (backendReceived of chat.go):
   the cells are shared, but one message is under way at a time. *)
THEOREM RoomsAreKept == Paced /\ SendsOnInput /\ WholeMachines => (Spec => []HearsOwnRoom)
<1> SUFFICES ASSUME Paced, SendsOnInput, WholeMachines
             PROVE  Spec => []HearsOwnRoom
  OBVIOUS
<1>1. Correct /\ Orderly => HearsOwnRoom
  BY DEF Orderly, Heard
<1> QED BY <1>1, AlwaysOrderly, PTL

(* With no_echo nobody hears what it has said itself (buildBackendSend of
   transition.go, backendReceived of chat.go): the label of the speaker goes up
   and down with the content. *)
THEOREM NoEchoComesBack == Paced /\ SendsOnInput /\ WholeMachines => (Spec => []NoOwnEcho)
<1> SUFFICES ASSUME Paced, SendsOnInput, WholeMachines
             PROVE  Spec => []NoOwnEcho
  OBVIOUS
<1>1. Correct /\ Orderly => NoOwnEcho
  BY DEF Orderly, Heard
<1> QED BY <1>1, AlwaysOrderly, PTL

\* Where a session comes from.
LEMMA SessionsMove ==
  ASSUME SendsOnInput, WholeMachines, Correct, Orderly, [Next]_vars,
         NEW c \in Conns, session[c] # None, session'[c] \notin {session[c], None}
  PROVE  pc[c] = "select"
<1>1. c \in Machines /\ c # Backend /\ Typed /\ Backend \in Machines /\ Conns \subseteq Machines /\ Backend \notin Conns
  BY ConstantsAssumption DEF Machines, Correct
<1>2. ASSUME NEW m \in Machines, Step(m, target[m], session[m])
      PROVE  FALSE
  BY <1>1, <1>2, StepSession
<1>3. CASE Serve
  <2>1. CASE ReceiveBackend
    BY <2>1 DEF ReceiveBackend, machineVars
  <2>2. CASE Trigger(Backend)
    BY <1>1, <2>2, StepSession DEF Trigger, Fire, Typed, MachinesTyped
  <2>3. ASSUME NEW d \in Conns, Broadcast(d)
        PROVE  FALSE
    BY <1>1, <1>2, <2>3 DEF Broadcast, Reached, StepAfterSend
  <2> QED BY <1>3, <2>1, <2>2, <2>3 DEF Serve
<1>4. ASSUME NEW d \in Conns, Speak(d)
      PROVE  pc[c] = "select"
  <2>1. pc[d] = "select"
    BY <1>4 DEF Speak, Join, SayCommand, Say, Triggered
  <2>2. d \in Machines
    BY <1>1
  <2>3. ASSUME NEW t, NEW input, NEW content, NEW memory, Fire(d, t, input, content, memory), d # c
        PROVE  FALSE
    BY <1>1, <2>2, <2>3, StepSession DEF Fire, Typed, MachinesTyped
  <2> QED BY <1>4, <2>1, <2>3 DEF Speak, Join, SayCommand, Say
<1>5. ASSUME NEW d \in Conns, Converse(d)
      PROVE  pc[c] = "select"
  <2>1. CASE Receive(d)
    BY <2>1 DEF Receive, machineVars
  <2>2. CASE SendBackend(d)
    BY <1>1, <1>2, <2>2 DEF SendBackend, StepAfterSend
  <2>3. CASE Trigger(d)
    <3> DEFINE data == cell[Backend]
               t == First(d, "backend", data.content)
    <3>1. pc[d] = "read" /\ d # Backend
      BY <1>1, <2>3 DEF Trigger
    <3>2. ~Filtered(d, data)
      BY <3>1 DEF Orderly, ReadsWhatPassed
    <3>3. session[d] # None => Adopted(d, data) = session[d]
      BY <3>2 DEF Filtered, Adopted
    <3>4. session'[d] \in {None, Adopted(d, data)} /\ \A n \in Machines : n # d => session'[n] = session[n]
      <4>1. CASE Fitting(d, "backend", data.content) # {}
        <5>1. Fire(d, t, NoData, data.content, Adopted(d, data))
          BY <3>1, <4>1, <2>3 DEF Trigger
        <5>2. ~Publishes(t)
          BY <1>1, <4>1, OnlyInputPublishes
        <5> QED BY <1>1, <5>1, <5>2, FireSilent
      <4>2. CASE Fitting(d, "backend", data.content) = {}
        BY <1>1, <3>1, <4>2, <2>3 DEF Trigger, Typed, MachinesTyped
      <4> QED BY <4>1, <4>2
    <3> QED BY <1>1, <3>3, <3>4
  <2> QED BY <1>5, <2>1, <2>2, <2>3 DEF Converse
<1>6. CASE UNCHANGED vars
  BY <1>6 DEF vars, machineVars
<1> QED BY <1>3, <1>4, <1>5, <1>6 DEF Next

(* A conversation in a room is moved to another one only when it takes what its
   own user says, although it adopts the session of all the backend data it
   reacts to (copyBackendDataValuesToMemory of event.go). *)
THEOREM OnlyItsUserMovesIt == Paced /\ SendsOnInput /\ WholeMachines => (Spec => MovedByOwnUser)
<1> SUFFICES ASSUME Paced, SendsOnInput, WholeMachines
             PROVE  Spec => MovedByOwnUser
  OBVIOUS
<1> DEFINE Moved == \A c \in Conns : session[c] # None /\ session'[c] \notin {session[c], None}
                                       => pc[c] = "select"
<1>1. Correct /\ Orderly /\ [Next]_vars => [Moved]_vars
  BY SessionsMove
<1>2. Spec => [][Moved]_vars
  BY <1>1, AlwaysOrderly, PTL DEF Spec
<1> QED BY <1>2 DEF MovedByOwnUser
==============================================================================
