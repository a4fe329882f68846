---------------------------- MODULE ListenerProofs ----------------------------
(***************************************************************************)
(* Proofs about Listener, for any streams, any number of messages and any  *)
(* streams that end: the types, and the order of the caller's messages.    *)
(***************************************************************************)
EXTENDS Listener, TLAPS

\* The places a received message waits in: the merger, the retrier and the
\* transport, each for at most one.
InMerger(s) == IF merger = "send" /\ item.from = s THEN 1 ELSE 0
InRetrier(s) == IF retry /\ retrier[s] = "forward" THEN 1 ELSE 0
InTransport(s) == IF transport[s] = "send" THEN 1 ELSE 0

\* Without ListenAndRetry there are no retriers, and a retrier that opens its
\* stream has no transport.
RetriersKnown ==
  \A s \in Sources :
    /\ ~retry => retrier[s] = "opening"
    /\ retry /\ retrier[s] \in {"opening", "sleeping"} => transport[s] = "none"

\* Nothing that was received is lost on its way, and each place has its own number.
Accounted ==
  \A s \in Sources :
    /\ received[s] = got[s] + InMerger(s) + InRetrier(s) + InTransport(s)
    /\ InMerger(s) = 1 => item.nr = got[s] + 1
    /\ InRetrier(s) = 1 => forward[s] = got[s] + InMerger(s) + 1

ListenerInv == TypeOK /\ RetriersKnown /\ Accounted
-----------------------------------------------------------------------------
\* Nothing has been received when the listening starts.
LEMMA InvInit == Init => ListenerInv
<1> SUFFICES ASSUME Init PROVE ListenerInv
  OBVIOUS
<1>1. item \in [from : Sources, nr : 0 .. MaxMsgs]
  <2>1. PICK from \in Sources, nr \in {0} : item = [from |-> from, nr |-> nr]
    BY DEF Init
  <2> QED
    BY <2>1, BoundsAssumption
<1>2. transport \in [Sources -> {"none", "recv", "send", "fail", "closed"}]
  BY DEF Init
<1>3. 0 \in 0 .. MaxMsgs /\ 0 \in 0 .. 1
  BY BoundsAssumption
<1>4. TypeOK
  BY <1>1, <1>2, <1>3, Zenon DEF Init, TypeOK
<1>5. RetriersKnown /\ Accounted
  BY DEF Init, RetriersKnown, Accounted, InMerger, InRetrier, InTransport
<1> QED
  BY <1>4, <1>5 DEF ListenerInv

\* Every step of the goroutines keeps the account.
LEMMA InvStep == ListenerInv /\ [Next]_vars => ListenerInv'
<1> SUFFICES ASSUME ListenerInv, [Next]_vars PROVE ListenerInv'
  OBVIOUS
<1> USE BoundsAssumption DEF ListenerInv, TypeOK, RetriersKnown, Accounted, InMerger, InRetrier, InTransport
<1>1. CASE UNCHANGED vars
  BY <1>1 DEF vars, mergeVars
<1>2. CASE Cancel
  BY <1>2 DEF Cancel, mergeVars
<1>3. ASSUME NEW s \in Sources, Receive(s) PROVE ListenerInv'
  BY <1>3 DEF Receive, Transport, mergeVars
<1>4. ASSUME NEW s \in Sources, EndOfStream(s) \/ Break(s) PROVE ListenerInv'
  BY <1>4 DEF EndOfStream, Break, Transport, mergeVars
<1>5. ASSUME NEW s \in Sources, OpenStream(s) \/ OpenFails(s) \/ Sleep(s) \/ Done(s) \/ TakeClosed(s)
      PROVE  ListenerInv'
  BY <1>5 DEF OpenStream, OpenFails, Sleep, Done, TakeClosed, Transport, Retrier, mergeVars
<1>6. ASSUME NEW s \in Sources, TakeError(s) PROVE ListenerInv'
  BY <1>6 DEF TakeError, Transport, Retrier, mergeVars
<1>7. ASSUME NEW s \in Sources, TakeMessage(s) PROVE ListenerInv'
  BY <1>7 DEF TakeMessage, Transport, Retrier, mergeVars
<1>8. ASSUME NEW s \in Sources, MergeTake(s) PROVE ListenerInv'
  BY <1>8 DEF MergeTake, Offered, Transport, Retrier
<1>9. ASSUME NEW s \in Sources, MergeClosed(s) PROVE ListenerInv'
  BY <1>9 DEF MergeClosed
<1>10. CASE Read
  BY <1>10 DEF Read
<1> QED
  BY <1>1, <1>2, <1>3, <1>4, <1>5, <1>6, <1>7, <1>8, <1>9, <1>10 DEF Next, Merging, Retrying

(* The types of the variables of Listen and ListenAndRetry (client.go). *)
THEOREM TypeCorrect == Spec => []TypeOK
BY InvInit, InvStep, PTL DEF Spec, ListenerInv

(* The caller gets the messages of every stream in the order in which they
   were received, without a gap and without a repetition, through any breaks,
   reopenings and cancellation (transportStatus, ListenStatusAndRetry, merge). *)
THEOREM ReadInOrder == Spec => InOrder
<1>1. ListenerInv /\ [Next]_vars => [\A s \in Sources : got'[s] # got[s] => got'[s] = got[s] + 1]_vars
  <2> SUFFICES ASSUME ListenerInv, Next, NEW s \in Sources, got'[s] # got[s] PROVE got'[s] = got[s] + 1
    OBVIOUS
  <2>1. Read
    BY DEF Next, Cancel, Merging, MergeTake, MergeClosed, Receive, EndOfStream, Break, Retrying,
           OpenStream, OpenFails, Sleep, Done, TakeError, TakeMessage, TakeClosed, mergeVars
  <2> QED
    BY <2>1 DEF Read, ListenerInv, TypeOK, Accounted, InMerger
<1> QED
  BY <1>1, InvInit, InvStep, PTL DEF Spec, InOrder
===============================================================================
