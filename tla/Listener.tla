------------------------------- MODULE Listener -------------------------------
(***************************************************************************)
(* Conn.Listen and Conn.ListenAndRetry of agency/client/client.go: for each*)
(* source (statuses and questions) a goroutine that transports what the    *)
(* gRPC stream receives, with ListenAndRetry a second one that reopens a   *)
(* stream that broke, and one that merges both sources for the caller.     *)
(* All channels are unbuffered: a send and its receive are one step.       *)
(*                                                                         *)
(* The streams are external: they receive, end (EOF) or break at any time, *)
(* and fail to open once the context is cancelled.  Messages are numbered  *)
(* as they are received, up to the bound MaxMsgs; keepalives are left out. *)
(***************************************************************************)
EXTENDS Naturals

CONSTANTS
  Sources,   \* the two streams, statuses and questions
  MaxMsgs,   \* how many messages a source receives
  Ending     \* the sources whose stream the agency may end

ASSUME BoundsAssumption == MaxMsgs \in Nat /\ Ending \subseteq Sources

VARIABLES
  retry,      \* the caller has used ListenAndRetry, not Listen
  cancelled,  \* the context is cancelled
  transport,  \* transportStatus, transportWait: "none", "recv", "send", "fail" or "closed"
  received,   \* how many messages each source has received
  retrier,    \* "opening", "sleeping", "select", "forward" or "closed"
  forward,    \* the message a retrier passes on, by its number
  merger,     \* "select", "send" or "closed"
  item,       \* what the merger is sending: a source and a number
  exitCount,
  got         \* the number of the last message of each source the caller got
vars == <<retry, cancelled, transport, received, retrier, forward, merger, item, exitCount, got>>
mergeVars == <<merger, item, exitCount, got>>

TypeOK ==
  /\ retry \in BOOLEAN /\ cancelled \in BOOLEAN
  /\ transport \in [Sources -> {"none", "recv", "send", "fail", "closed"}]
  /\ received \in [Sources -> 0 .. MaxMsgs]
  /\ retrier \in [Sources -> {"opening", "sleeping", "select", "forward", "closed"}]
  /\ forward \in [Sources -> 0 .. MaxMsgs]
  /\ merger \in {"select", "send", "closed"}
  /\ item \in [from : Sources, nr : 0 .. MaxMsgs]
  /\ exitCount \in 0 .. 1
  /\ got \in [Sources -> 0 .. MaxMsgs]

\* Listen has opened both streams before it returns; the retriers open theirs.
Init ==
  /\ retry \in BOOLEAN /\ cancelled = FALSE
  /\ transport = [s \in Sources |-> IF retry THEN "none" ELSE "recv"]
  /\ received = [s \in Sources |-> 0]
  /\ retrier = [s \in Sources |-> "opening"]
  /\ forward = [s \in Sources |-> 0]
  /\ merger = "select" /\ exitCount = 0
  /\ item \in [from : Sources, nr : {0}]
  /\ got = [s \in Sources |-> 0]

Transport(s, l) == transport' = [transport EXCEPT ![s] = l]
Retrier(s, l) == retrier' = [retrier EXCEPT ![s] = l]

Cancel == ~cancelled /\ cancelled' = TRUE /\ UNCHANGED <<retry, transport, received, retrier, forward, mergeVars>>
-----------------------------------------------------------------------------
Receive(s) ==
  /\ transport[s] = "recv" /\ received[s] < MaxMsgs
  /\ received' = [received EXCEPT ![s] = @ + 1]
  /\ Transport(s, "send")
  /\ UNCHANGED <<retry, cancelled, forward, retrier, mergeVars>>

\* The stream has ended: the transport closes its channel.
EndOfStream(s) ==
  /\ transport[s] = "recv" /\ s \in Ending
  /\ Transport(s, "closed")
  /\ UNCHANGED <<retry, cancelled, forward, received, retrier, mergeVars>>

\* Reading fails: the error goes to errCh, or without one the channel closes.
Break(s) ==
  /\ transport[s] = "recv"
  /\ Transport(s, IF retry THEN "fail" ELSE "closed")
  /\ UNCHANGED <<retry, cancelled, forward, received, retrier, mergeVars>>
-----------------------------------------------------------------------------
OpenStream(s) ==
  /\ retry /\ retrier[s] = "opening" /\ ~cancelled
  /\ Retrier(s, "select")
  /\ Transport(s, "recv")
  /\ UNCHANGED <<retry, cancelled, forward, received, mergeVars>>

\* Opening fails, and the context is not asked before the next attempt.
OpenFails(s) ==
  /\ retry /\ retrier[s] = "opening"
  /\ Retrier(s, "sleeping")
  /\ UNCHANGED <<retry, cancelled, forward, transport, received, mergeVars>>

Sleep(s) ==
  /\ retrier[s] = "sleeping"
  /\ Retrier(s, "opening")
  /\ UNCHANGED <<retry, cancelled, forward, transport, received, mergeVars>>

\* The cases of the retrier's select: ctx.Done, errCh and the statuses.
Done(s) ==
  /\ retrier[s] = "select" /\ cancelled
  /\ Retrier(s, "closed")
  /\ UNCHANGED <<retry, cancelled, forward, transport, received, mergeVars>>

\* MUTANT of TakeError: the stream is not opened again.
TakeError_Stays(s) ==
  /\ retrier[s] = "select" /\ transport[s] = "fail"
  /\ Transport(s, "none")
  /\ UNCHANGED <<retry, cancelled, forward, received, retrier, mergeVars>>

TakeError(s) ==
  /\ retrier[s] = "select" /\ transport[s] = "fail"
  /\ Transport(s, "none")
  /\ Retrier(s, "sleeping")
  /\ UNCHANGED <<retry, cancelled, forward, received, mergeVars>>

\* MUTANT of TakeMessage: a message the merger is not ready for is dropped.
TakeMessage_Drops(s) ==
  /\ retrier[s] = "select" /\ transport[s] = "send"
  /\ Transport(s, "recv")
  /\ Retrier(s, IF merger = "select" THEN "forward" ELSE "select")
  /\ forward' = [forward EXCEPT ![s] = received[s]]
  /\ UNCHANGED <<retry, cancelled, received, mergeVars>>

TakeMessage(s) ==
  /\ retrier[s] = "select" /\ transport[s] = "send"
  /\ Transport(s, "recv")
  /\ Retrier(s, "forward")
  /\ forward' = [forward EXCEPT ![s] = received[s]]
  /\ UNCHANGED <<retry, cancelled, received, mergeVars>>

TakeClosed(s) ==
  /\ retrier[s] = "select" /\ transport[s] = "closed"
  /\ Retrier(s, "closed")
  /\ UNCHANGED <<retry, cancelled, forward, transport, received, mergeVars>>
-----------------------------------------------------------------------------
\* What the merger reads: the retriers' channels, or the transports'.
Offered(s) == IF retry THEN retrier[s] = "forward" ELSE transport[s] = "send"
Closed(s) == IF retry THEN retrier[s] = "closed" ELSE transport[s] = "closed"

MergeTake(s) ==
  /\ merger = "select" /\ Offered(s)
  /\ merger' = "send"
  /\ item' = [from |-> s, nr |-> IF retry THEN forward[s] ELSE received[s]]
  /\ IF retry THEN Retrier(s, "select") /\ UNCHANGED transport
              ELSE Transport(s, "recv") /\ UNCHANGED retrier
  /\ UNCHANGED <<retry, cancelled, forward, received, exitCount, got>>

\* MUTANT of MergeClosed: the count never ends the loop.
MergeClosed_Counts(s) ==
  /\ merger = "select" /\ Closed(s)
  /\ exitCount' = exitCount + 1
  /\ UNCHANGED <<retry, cancelled, forward, transport, received, retrier, merger, item, got>>

\* MUTANT of MergeClosed: a closed source is counted and the loop goes on.
MergeClosed_Ignores(s) ==
  /\ merger = "select" /\ Closed(s)
  /\ exitCount' = 1
  /\ UNCHANGED <<retry, cancelled, forward, transport, received, retrier, merger, item, got>>

\* A closed channel stays ready to be read, and may be the one counted twice.
MergeClosed(s) ==
  /\ merger = "select" /\ Closed(s)
  /\ IF exitCount = 1 THEN merger' = "closed" /\ UNCHANGED exitCount
                      ELSE exitCount' = exitCount + 1 /\ UNCHANGED merger
  /\ UNCHANGED <<retry, cancelled, forward, transport, received, retrier, item, got>>

\* The caller reads the merged channel.
Read ==
  /\ merger = "send"
  /\ merger' = "select"
  /\ got' = [got EXCEPT ![item.from] = item.nr]
  /\ UNCHANGED <<retry, cancelled, forward, transport, received, retrier, item, exitCount>>

Retrying(s) ==
  OpenStream(s) \/ OpenFails(s) \/ Sleep(s) \/ Done(s) \/ TakeError(s) \/ TakeMessage(s) \/ TakeClosed(s)
Merging == \E s \in Sources : MergeTake(s) \/ MergeClosed(s)

Next ==
  \/ Cancel \/ Merging \/ Read
  \/ \E s \in Sources : Receive(s) \/ EndOfStream(s) \/ Break(s) \/ Retrying(s)

Spec == Init /\ [][Next]_vars

\* Runnable goroutines run, the caller reads, a read on a cancelled context
\* fails, and an agency that is asked for a stream again and again opens one.
Fairness ==
  /\ WF_vars(Merging) /\ WF_vars(Read)
  /\ \A s \in Sources :
       WF_vars(Retrying(s)) /\ WF_vars(cancelled /\ Break(s)) /\ SF_vars(OpenStream(s))
FairSpec == Spec /\ Fairness
-----------------------------------------------------------------------------
(* The caller gets each source's messages in the order in which they were
   received, none missing and none twice, broken and reopened streams included
   (transportStatus, ListenStatusAndRetry and merge of client.go). *)
InOrder ==
  [][\A s \in Sources : got'[s] # got[s] => got'[s] = got[s] + 1]_vars

(* A stream of ListenAndRetry that broke is read again, unless the context is
   cancelled or the caller's channel closed (the errCh case of
   ListenStatusAndRetry and WaitAndRetry). *)
BrokenStreamReopened ==
  \A s \in Sources :
    transport[s] = "fail" ~> transport[s] = "recv" \/ cancelled \/ merger = "closed"

(* Once the context of a Listen is cancelled its caller's channel is closed
   (Listen, transportStatus, transportWait and merge of client.go). *)
ListenEndsOnCancel == ~retry /\ cancelled ~> merger = "closed"

==============================================================================
