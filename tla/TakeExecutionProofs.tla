------------------------- MODULE TakeExecutionProofs -------------------------
(***************************************************************************)
(* Proofs about TakeExecution for every set of post-end runs, any Runtime  *)
(* and any number of messages: what a take leaves behind is true of it,    *)
(* and a published result stays.                                           *)
(***************************************************************************)
EXTENDS TakeExecution, RequestArbiterProofs, SequenceTheorems

-----------------------------------------------------------------------------
\* The inductive invariant.

\* What is still to come fits in the bound on messages.
CountsAreBounded ==
    /\ seen.count + Len(data) <= MaxMessages
    /\ seen.at.terminals <= seen.count

\* The arbiter is told only when execute_check_replay has returned.
Answered == {"unwind", "returned", "settled"}
NotYetAnswered ==
    /\ returned = "none" <=> step \notin Answered
    /\ step # "settled" => arb = BeginTake(NewArbiter)

\* The forwarder watches only between the request and the end of the take.
ForwarderFollows ==
    /\ step \in {"prepare", "deliver"} => watcher = "off" /\ control = <<>>
    /\ step = "deliver" => controlOpen
    /\ watcher = "watching" => control = <<"request">> /\ controlOpen

\* Where a message that is taken now belongs.
Before == {"prepare", "deliver", "admission"}
MomentIsKnown ==
    /\ step \in Before => dirs = {}
    /\ step \in Before \/ (step = "stream" /\ ~paused) =>
          /\ seen.at.terminals = 0
          /\ post = None
          /\ results[Take] = None
          /\ ~paused
    /\ step = "stream" => Take \in dirs
    /\ step = "stream" /\ post # None =>
          /\ seen.at.opened = post
          /\ ~seen.at.closed

\* A result is published in the directory of its run, and once.
ResultsAreInTheirRun ==
    /\ \A r \in Runs : results[r] # None => r \in dirs
    /\ step = "stream" /\ post # None => post \in dirs /\ results[post] = None

\* From its terminal on the result of the take is the one that was published.
TerminalIsPublished ==
    /\ paused \/ step \in {"close", "exit"} \/ returned = "evidence" =>
          results[Take] = replay /\ replay # None
    /\ step = "exit" => cessation.closed
    /\ step \in {"deliver", "admission", "stream", "close", "exit"} => cessation.launched

TakeInv ==
    /\ TakeIsTruthful
    /\ CountsAreBounded
    /\ NotYetAnswered
    /\ ForwarderFollows
    /\ MomentIsKnown
    /\ ResultsAreInTheirRun
    /\ TerminalIsPublished

-----------------------------------------------------------------------------
\* Typing.

\* A terminal is one of Terminals, and a run that opens is a run.
LEMMA MessageKinds ==
    ASSUME NEW m \in Messages
    PROVE  /\ m.type = "terminal" => m \in Terminals
           /\ m.type = "opened" => m.run \in Runs
BY DEF Messages, Terminals

\* pop() takes one message, which was counted when it was written.
LEMMA TakeMessageTypes ==
    ASSUME TypeOK, CountsAreBounded, data # <<>>, TakeMessage
    PROVE  /\ Message \in Messages
           /\ data' \in Seq(Messages)
           /\ seen' \in [count : 0..MaxMessages, at : Moments, over : BOOLEAN]
           /\ CountsAreBounded'
<1>1. Message \in Messages /\ data' \in Seq(Messages) /\ Len(data') = Len(data) - 1
  BY DEF TypeOK, TakeMessage, Message
<1>2. Len(data) > 0
  BY DEF TypeOK
<1>3. seen.count + 1 \in 0..MaxMessages /\ seen.at \in Moments /\ seen.count \in Nat
  BY <1>2, BoundsAssumption DEF TypeOK, CountsAreBounded
<1>4. /\ MomentAfter(Message) \in Moments
      /\ MomentAfter(Message).terminals <= seen.count + 1
  <2>1. CASE Message.type = "terminal"
    <3>1. MomentAfter(Message) =
            [seen.at EXCEPT !.terminals = seen.at.terminals + 1, !.closed = TRUE]
      BY <2>1 DEF MomentAfter
    <3>2. seen.at.terminals + 1 \in 0..MaxMessages
      BY <1>3, BoundsAssumption DEF Moments, CountsAreBounded
    <3>3. MomentAfter(Message) \in Moments
      BY <1>3, <3>1, <3>2, Zenon DEF Moments
    <3>4. MomentAfter(Message).terminals = seen.at.terminals + 1
      BY <1>3, <3>1 DEF Moments
    <3>. QED  BY <1>3, <3>3, <3>4 DEF Moments, CountsAreBounded
  <2>2. CASE Message.type = "opened"
    <3>1. MomentAfter(Message) = [seen.at EXCEPT !.opened = Message.run, !.closed = FALSE]
      BY <2>2 DEF MomentAfter
    <3>2. Message.run \in Runs
      BY <1>1, <2>2, MessageKinds
    <3>3. MomentAfter(Message) \in Moments
      BY <1>3, <3>1, <3>2, Zenon DEF Moments
    <3>4. MomentAfter(Message).terminals = seen.at.terminals
      BY <1>3, <3>1 DEF Moments
    <3>. QED  BY <1>3, <3>3, <3>4 DEF Moments, CountsAreBounded
  <2>3. CASE Message.type \notin {"terminal", "opened"}
    BY <1>3, <2>3, BoundsAssumption DEF MomentAfter, Moments, CountsAreBounded
  <2>. QED  BY <2>1, <2>2, <2>3
<1>5. seen' = [count |-> seen.count + 1, at |-> MomentAfter(Message), over |-> Message.type = "unreadable"]
  BY DEF TakeMessage
<1>6. (Message.type = "unreadable") \in BOOLEAN
  OBVIOUS
<1>7. seen' \in [count : 0..MaxMessages, at : Moments, over : BOOLEAN]
  BY <1>3, <1>4, <1>5, <1>6
<1>8. CountsAreBounded'
  BY <1>1, <1>3, <1>4, <1>5, BoundsAssumption DEF CountsAreBounded, TypeOK
<1>. QED  BY <1>1, <1>7, <1>8

\* A step that takes a message keeps the types if what it does with it is well typed.
LEMMA TakingKeepsTypes ==
    ASSUME TypeOK, CountsAreBounded, data # <<>>, TakeMessage,
           step' \in {"prepare", "deliver", "admission", "stream"} \cup Over,
           paused' \in BOOLEAN, broken' \in BOOLEAN, dirs' \subseteq Runs,
           stored' \in [Runs -> SUBSET Moments], results' \in [Runs -> Terminals \cup {None}],
           post' \in PostRuns \cup {None}, replay' \in Terminals \cup {None},
           returned' \in {"none", "evidence", "error"}
    PROVE  TypeOK' /\ CountsAreBounded'
<1>1. UNCHANGED <<runtime, token, watcher, control, controlOpen, cessation, arb>>
  BY DEF TakeMessage, cancelling
<1>2. {controlOpen, paused, broken}' \subseteq BOOLEAN
  BY <1>1 DEF TypeOK
<1>. QED  BY <1>1, <1>2, TakeMessageTypes DEF TypeOK

\* Evidence is kept by the moment at which it was received.
LEMMA KeptTypes ==
    ASSUME TypeOK, NEW r \in Runs
    PROVE  Kept(r) \in [Runs -> SUBSET Moments]
<1>1. seen.at \in Moments
  BY DEF TypeOK
<1>. QED  BY <1>1 DEF Kept, TypeOK

\* A result is published of a run, or the publication fails.
LEMMA PublishTypes ==
    ASSUME TypeOK, NEW r \in Runs, NEW m \in Terminals, NEW outcome, Publish(r, m, outcome)
    PROVE  results' \in [Runs -> Terminals \cup {None}] /\ UNCHANGED <<dirs, stored>>
BY DEF Publish, TypeOK

\* However the take returned, the arbiter has a result for it.
LEMMA SettledArbiter ==
    ASSUME TakeInv, step = "returned"
    PROVE  Settle(arb, Requested, IF returned = "evidence" THEN replay.playback ELSE "error") \in Arbiters
<1>1. arb \in Arbiters /\ arb.active /\ ~arb.confirmed
  BY ArbiterTypes DEF TakeInv, NotYetAnswered, BeginTake, NewArbiter
<1>2. (IF returned = "evidence" THEN replay.playback ELSE "error") \in PlaybackKinds \cup {"error"}
  <2>1. CASE returned = "evidence"
    <3>1. replay \in Terminals
      BY <2>1 DEF TakeInv, TakeIsTruthful, TypeOK, TerminalIsPublished
    <3>. QED  BY <2>1, <3>1, PlaybacksAssumption DEF Terminals
  <2>2. CASE returned # "evidence"
    BY <2>2
  <2>. QED  BY <2>1, <2>2
<1>3. Requested \in BOOLEAN
  BY DEF Requested
<1>. QED  BY <1>1, <1>2, <1>3, SettledTake

\* Every step keeps the types and the bound on messages.
LEMMA TypesKept ==
    ASSUME TakeInv, [Next]_vars
    PROVE  TypeOK' /\ CountsAreBounded'
<1>. USE DEF TakeInv, TakeIsTruthful, cancelling, process, files, locals
<1>1. CASE PrepareFails
  BY <1>1 DEF PrepareFails, Return, TypeOK, CountsAreBounded, Over, Gone
<1>2. CASE Launch
  BY <1>2 DEF Launch, TypeOK, CountsAreBounded, Over, Gone
<1>3. CASE Deliver
  BY <1>3 DEF Deliver, TypeOK, CountsAreBounded, Over, Gone
<1>4. CASE DeliveryFails
  BY <1>4 DEF DeliveryFails, Return, TypeOK, CountsAreBounded, Over, Gone
<1>5. CASE CloseEvidence
  BY <1>5 DEF CloseEvidence, TypeOK, CountsAreBounded, Over, Gone
<1>6. CASE ProcessExited
  BY <1>6 DEF ProcessExited, Return, StopForwarder, TypeOK, CountsAreBounded, Over, Gone
<1>7. CASE Unwind
  BY <1>7 DEF Unwind, StopForwarder, TypeOK, CountsAreBounded, Over, Gone
<1>8. CASE ExitTimeout
  BY <1>8 DEF ExitTimeout, Return, TypeOK, CountsAreBounded, Over, Gone
<1>9. CASE WatchToken
  BY <1>9 DEF WatchToken, TypeOK, CountsAreBounded, Over, Gone
<1>10. CASE SendCancel
  BY <1>10 DEF SendCancel, TypeOK, CountsAreBounded, Over, Gone
<1>11. CASE RequestCancel
  BY <1>11 DEF RequestCancel, TypeOK, CountsAreBounded, Over, Gone
<1>12. CASE RuntimeExits
  BY <1>12 DEF RuntimeExits, TypeOK, CountsAreBounded, Over, Gone
<1>13. CASE SettleTake
  BY <1>13, SettledArbiter DEF SettleTake, TypeOK, CountsAreBounded, Over
<1>14. CASE Admitted
  BY <1>14, TakingKeepsTypes DEF Admitted, TypeOK, Return, Here, Runs, Over
<1>15. CASE NotAdmitted
  <2>1. CASE data # <<>> /\ TakeMessage
    BY <1>15, <2>1, TakingKeepsTypes DEF NotAdmitted, TypeOK, Return, Over
  <2>2. CASE UNCHANGED <<process, seen, cancelling, cessation, arb>>
    BY <1>15, <2>2 DEF NotAdmitted, TypeOK, CountsAreBounded, Return, Over
  <2>. QED  BY <1>15, <2>1, <2>2 DEF NotAdmitted, Here
<1>16. CASE StreamEnds
  <2>1. CASE data # <<>> /\ TakeMessage
    BY <1>16, <2>1, TakingKeepsTypes DEF StreamEnds, TypeOK, Return, Over
  <2>2. CASE UNCHANGED <<process, seen, cancelling, cessation, arb>>
    BY <1>16, <2>2 DEF StreamEnds, TypeOK, CountsAreBounded, Return, Over
  <2>. QED  BY <1>16, <2>1, <2>2 DEF StreamEnds, Here
<1>17. CASE InvalidStream
  BY <1>17, TakingKeepsTypes DEF InvalidStream, TypeOK, Return, Here, Runs, Over
<1>18. CASE Status
  BY <1>18, TakingKeepsTypes DEF Status, TypeOK, Return, Here, Runs, Over
<1>19. CASE KeepEvidence
  <2>1. stored' \in [Runs -> SUBSET Moments]
    BY <1>19, KeptTypes DEF KeepEvidence, TypeOK, Runs
  <2>. QED  BY <1>19, <2>1, TakingKeepsTypes DEF KeepEvidence, TypeOK, Here
<1>20. CASE Terminal
  <2>1. Message \in Terminals
    BY <1>20, TakeMessageTypes, MessageKinds DEF Terminal, Here
  <2>2. results' \in [Runs -> Terminals \cup {None}] /\ UNCHANGED <<dirs, stored>>
    BY <1>20, <2>1, PublishTypes DEF Terminal, Runs
  <2>. QED  BY <1>20, <2>1, <2>2, TakingKeepsTypes DEF Terminal, TypeOK, Here, Return, Over
<1>21. CASE OpenPostRun
  <2>1. Message.run \in Runs /\ Take \in dirs
    BY <1>21, TakeMessageTypes, MessageKinds DEF OpenPostRun, Here, MomentIsKnown
  <2>2. Message.run \in PostRuns
    BY <1>21, <2>1 DEF OpenPostRun, CanOpen, Runs
  <2>. QED  BY <1>21, <2>1, <2>2, TakingKeepsTypes DEF OpenPostRun, TypeOK, Here, Return, Over
<1>22. CASE KeepPostFacts
  <2>1. stored' \in [Runs -> SUBSET Moments]
    BY <1>22, KeptTypes DEF KeepPostFacts, TypeOK, Runs
  <2>. QED  BY <1>22, <2>1, TakingKeepsTypes DEF KeepPostFacts, TypeOK, Here
<1>23. CASE ClosePostRun
  <2>1. Message \in Terminals
    BY <1>23, TakeMessageTypes, MessageKinds DEF ClosePostRun, Here
  <2>2. results' \in [Runs -> Terminals \cup {None}] /\ UNCHANGED <<dirs, stored>>
    BY <1>23, <2>1, PublishTypes DEF ClosePostRun, TypeOK, Runs
  <2>. QED  BY <1>23, <2>1, <2>2, TakingKeepsTypes DEF ClosePostRun, TypeOK, Here, Return, Over
<1>24. ASSUME NEW m \in Messages, RuntimeWrites(m) PROVE TypeOK' /\ CountsAreBounded'
  <2>1. data' \in Seq(Messages) /\ Len(data') = Len(data) + 1
    BY <1>24 DEF RuntimeWrites, TypeOK
  <2>2. UNCHANGED <<step, token, watcher, control, controlOpen, runtime, seen, dirs, stored,
                    results, paused, post, replay, broken, cessation, returned, arb>>
    BY <1>24 DEF RuntimeWrites
  <2>3. CountsAreBounded'
    BY <1>24, <2>1, <2>2, BoundsAssumption DEF RuntimeWrites, CountsAreBounded, TypeOK
  <2>. QED  BY <2>1, <2>2, <2>3 DEF TypeOK
<1>25. CASE UNCHANGED vars
  <2>1. UNCHANGED <<step, token, watcher, control, controlOpen, runtime, data, seen, dirs, stored,
                    results, paused, post, replay, broken, cessation, returned, arb>>
    BY <1>25 DEF vars
  <2>. QED  BY <2>1 DEF TypeOK, CountsAreBounded
<1>. QED
  BY <1>1, <1>2, <1>3, <1>4, <1>5, <1>6, <1>7, <1>8, <1>9, <1>10, <1>11, <1>12, <1>13, <1>14, <1>15, <1>16, <1>17, <1>18, <1>19, <1>20, <1>21, <1>22, <1>23, <1>24, <1>25 DEF Next, Supervise

-----------------------------------------------------------------------------
\* The threads and the answer.

\* The arbiter and the answer wait for the end of execute_check_replay.
LEMMA AnswerKept ==
    ASSUME TakeInv, [Next]_vars
    PROVE  NotYetAnswered'
<1>. USE DEF TakeInv, TakeIsTruthful, cancelling, process, files, locals
<1>1. CASE PrepareFails
  BY <1>1 DEF PrepareFails, Return, NotYetAnswered, Answered
<1>2. CASE Launch
  BY <1>2 DEF Launch, NotYetAnswered, Answered
<1>3. CASE Deliver
  BY <1>3 DEF Deliver, NotYetAnswered, Answered
<1>4. CASE DeliveryFails
  BY <1>4 DEF DeliveryFails, Return, NotYetAnswered, Answered
<1>5. CASE Admitted
  BY <1>5 DEF Admitted, Return, TakeMessage, Here, NotYetAnswered, Answered
<1>6. CASE NotAdmitted
  BY <1>6 DEF NotAdmitted, Return, TakeMessage, Here, NotYetAnswered, Answered
<1>7. CASE StreamEnds
  BY <1>7 DEF StreamEnds, Return, TakeMessage, Here, NotYetAnswered, Answered
<1>8. CASE InvalidStream
  BY <1>8 DEF InvalidStream, Return, TakeMessage, Here, NotYetAnswered, Answered
<1>9. CASE Status
  BY <1>9 DEF Status, TakeMessage, Here, NotYetAnswered, Answered
<1>10. CASE KeepEvidence
  BY <1>10 DEF KeepEvidence, TakeMessage, Here, NotYetAnswered, Answered
<1>11. CASE Terminal
  BY <1>11 DEF Terminal, Return, TakeMessage, Here, NotYetAnswered, Answered
<1>12. CASE OpenPostRun
  BY <1>12 DEF OpenPostRun, Return, TakeMessage, Here, NotYetAnswered, Answered
<1>13. CASE KeepPostFacts
  BY <1>13 DEF KeepPostFacts, TakeMessage, Here, NotYetAnswered, Answered
<1>14. CASE ClosePostRun
  BY <1>14 DEF ClosePostRun, Return, TakeMessage, Here, NotYetAnswered, Answered
<1>15. CASE CloseEvidence
  BY <1>15 DEF CloseEvidence, NotYetAnswered, Answered
<1>16. CASE ProcessExited
  BY <1>16 DEF ProcessExited, Return, StopForwarder, NotYetAnswered, Answered
<1>17. CASE Unwind
  BY <1>17 DEF Unwind, StopForwarder, NotYetAnswered, Answered
<1>18. CASE SettleTake
  BY <1>18 DEF SettleTake, NotYetAnswered, Answered
<1>19. CASE ExitTimeout
  BY <1>19 DEF ExitTimeout, Return, NotYetAnswered, Answered
<1>20. CASE WatchToken
  BY <1>20 DEF WatchToken, NotYetAnswered, Answered
<1>21. CASE SendCancel
  BY <1>21 DEF SendCancel, NotYetAnswered, Answered
<1>22. CASE RequestCancel
  BY <1>22 DEF RequestCancel, NotYetAnswered, Answered
<1>23. CASE RuntimeExits
  BY <1>23 DEF RuntimeExits, NotYetAnswered, Answered
<1>24. ASSUME NEW m \in Messages, RuntimeWrites(m) PROVE NotYetAnswered'
  BY <1>24 DEF RuntimeWrites, NotYetAnswered, Answered
<1>25. CASE UNCHANGED vars
  BY <1>25 DEF vars, NotYetAnswered, Answered
<1>. QED
  BY <1>1, <1>2, <1>3, <1>4, <1>5, <1>6, <1>7, <1>8, <1>9, <1>10, <1>11, <1>12, <1>13, <1>14, <1>15, <1>16, <1>17, <1>18, <1>19, <1>20, <1>21, <1>22, <1>23, <1>24, <1>25 DEF Next, Supervise

\* The control channel holds the request, then `cancel'.
LEMMA CancelAfterRequest == Append(<<"request">>, "cancel") = <<"request", "cancel">>
<1> DEFINE S == {"request", "cancel"}
           s == Append(<<"request">>, "cancel")
           t == <<"request", "cancel">>
<1>1. s \in Seq(S) /\ t \in Seq(S)
  OBVIOUS
<1>2. Len(s) = 2 /\ Len(t) = 2
  OBVIOUS
<1>3. \A i \in 1 .. Len(s) : s[i] = t[i]
  <2>1. s[1] = "request" /\ s[2] = "cancel"
    OBVIOUS
  <2>. QED  BY <1>2, <2>1
<1> HIDE DEF s, t, S
<1>4. s = t
  BY <1>1, <1>2, <1>3, SeqEqual
<1>. QED  BY <1>4 DEF s, t

\* The forwarder follows the take.
LEMMA ForwarderKept ==
    ASSUME TakeInv, [Next]_vars
    PROVE  ForwarderFollows' /\ CancelFollowsRequest'
<1>. USE DEF TakeInv, TakeIsTruthful, cancelling, process, files, locals
<1>1. CASE PrepareFails
  BY <1>1 DEF PrepareFails, Return, ForwarderFollows, CancelFollowsRequest, TypeOK, Requested
<1>2. CASE Launch
  BY <1>2 DEF Launch, ForwarderFollows, CancelFollowsRequest, TypeOK, Requested
<1>3. CASE Deliver
  BY <1>3 DEF Deliver, ForwarderFollows, CancelFollowsRequest, TypeOK, Requested
<1>4. CASE DeliveryFails
  BY <1>4 DEF DeliveryFails, Return, ForwarderFollows, CancelFollowsRequest, TypeOK, Requested
<1>5. CASE Admitted
  BY <1>5 DEF Admitted, Return, TakeMessage, Here, ForwarderFollows, CancelFollowsRequest, TypeOK, Requested
<1>6. CASE NotAdmitted
  BY <1>6 DEF NotAdmitted, Return, TakeMessage, Here, ForwarderFollows, CancelFollowsRequest, TypeOK, Requested
<1>7. CASE StreamEnds
  BY <1>7 DEF StreamEnds, Return, TakeMessage, Here, ForwarderFollows, CancelFollowsRequest, TypeOK, Requested
<1>8. CASE InvalidStream
  BY <1>8 DEF InvalidStream, Return, TakeMessage, Here, ForwarderFollows, CancelFollowsRequest, TypeOK, Requested
<1>9. CASE Status
  BY <1>9 DEF Status, TakeMessage, Here, ForwarderFollows, CancelFollowsRequest, TypeOK, Requested
<1>10. CASE KeepEvidence
  BY <1>10 DEF KeepEvidence, TakeMessage, Here, ForwarderFollows, CancelFollowsRequest, TypeOK, Requested
<1>11. CASE Terminal
  BY <1>11 DEF Terminal, Return, TakeMessage, Here, ForwarderFollows, CancelFollowsRequest, TypeOK, Requested
<1>12. CASE OpenPostRun
  BY <1>12 DEF OpenPostRun, Return, TakeMessage, Here, ForwarderFollows, CancelFollowsRequest, TypeOK, Requested
<1>13. CASE KeepPostFacts
  BY <1>13 DEF KeepPostFacts, TakeMessage, Here, ForwarderFollows, CancelFollowsRequest, TypeOK, Requested
<1>14. CASE ClosePostRun
  BY <1>14 DEF ClosePostRun, Return, TakeMessage, Here, ForwarderFollows, CancelFollowsRequest, TypeOK, Requested
<1>15. CASE CloseEvidence
  BY <1>15 DEF CloseEvidence, ForwarderFollows, CancelFollowsRequest, TypeOK, Requested
<1>16. CASE ProcessExited
  BY <1>16 DEF ProcessExited, Return, StopForwarder, ForwarderFollows, CancelFollowsRequest, TypeOK, Requested
<1>17. CASE Unwind
  BY <1>17 DEF Unwind, StopForwarder, ForwarderFollows, CancelFollowsRequest, TypeOK, Requested
<1>18. CASE SettleTake
  BY <1>18 DEF SettleTake, ForwarderFollows, CancelFollowsRequest, TypeOK, Requested
<1>19. CASE ExitTimeout
  BY <1>19 DEF ExitTimeout, Return, ForwarderFollows, CancelFollowsRequest, TypeOK, Requested
<1>20. CASE WatchToken
  BY <1>20 DEF WatchToken, ForwarderFollows, CancelFollowsRequest, TypeOK, Requested
<1>21. CASE SendCancel
  <2>1. control = <<"request">> /\ watcher' = "done"
    BY <1>21 DEF SendCancel, CancelFollowsRequest
  <2>2. control' = <<"request", "cancel">>
    BY <1>21, <2>1, CancelAfterRequest DEF SendCancel
  <2>3. step' \notin {"prepare", "deliver"}
    BY <1>21 DEF SendCancel, ForwarderFollows
  <2>. QED  BY <2>1, <2>2, <2>3 DEF ForwarderFollows, CancelFollowsRequest
<1>22. CASE RequestCancel
  BY <1>22 DEF RequestCancel, ForwarderFollows, CancelFollowsRequest, TypeOK, Requested
<1>23. CASE RuntimeExits
  BY <1>23 DEF RuntimeExits, ForwarderFollows, CancelFollowsRequest, TypeOK, Requested
<1>24. ASSUME NEW m \in Messages, RuntimeWrites(m) PROVE ForwarderFollows' /\ CancelFollowsRequest'
  BY <1>24 DEF RuntimeWrites, ForwarderFollows, CancelFollowsRequest, TypeOK, Requested
<1>25. CASE UNCHANGED vars
  BY <1>25 DEF vars, ForwarderFollows, CancelFollowsRequest, TypeOK, Requested
<1>. QED
  BY <1>1, <1>2, <1>3, <1>4, <1>5, <1>6, <1>7, <1>8, <1>9, <1>10, <1>11, <1>12, <1>13, <1>14, <1>15, <1>16, <1>17, <1>18, <1>19, <1>20, <1>21, <1>22, <1>23, <1>24, <1>25 DEF Next, Supervise

-----------------------------------------------------------------------------
\* Where evidence and results go.

\* Only a terminal and the opening of a run change the moment.
LEMMA MomentOfMessage ==
    ASSUME TypeOK, data # <<>>, TakeMessage
    PROVE  /\ Message.type = "opened" =>
                /\ seen'.at.terminals = seen.at.terminals
                /\ seen'.at.opened = Message.run
                /\ ~seen'.at.closed
           /\ Message.type \notin {"opened", "terminal"} => seen'.at = seen.at
<1>1. seen.at \in Moments /\ seen'.at = MomentAfter(Message)
  BY DEF TypeOK, TakeMessage
<1>2. CASE Message.type = "opened"
  BY <1>1, <1>2 DEF MomentAfter, Moments
<1>3. CASE Message.type \notin {"opened", "terminal"}
  BY <1>1, <1>3 DEF MomentAfter
<1>. QED  BY <1>2, <1>3

\* A message is taken at the moment at which its evidence belongs to the run that is open.
LEMMA EvidenceKept ==
    ASSUME TakeInv, [Next]_vars
    PROVE  MomentIsKnown' /\ EvidenceStaysInItsRun'
<1>. USE DEF TakeInv, TakeIsTruthful, cancelling, process, files, locals
<1>1. CASE PrepareFails
  BY <1>1 DEF PrepareFails, Return, MomentIsKnown, EvidenceStaysInItsRun, Before, TypeOK, Runs
<1>2. CASE Launch
  BY <1>2 DEF Launch, MomentIsKnown, EvidenceStaysInItsRun, Before, TypeOK, Runs
<1>3. CASE Deliver
  BY <1>3 DEF Deliver, MomentIsKnown, EvidenceStaysInItsRun, Before, TypeOK, Runs
<1>4. CASE DeliveryFails
  BY <1>4 DEF DeliveryFails, Return, MomentIsKnown, EvidenceStaysInItsRun, Before, TypeOK, Runs
<1>5. CASE Admitted
  <2>1. seen'.at = seen.at
    BY <1>5, MomentOfMessage DEF Admitted, Here
  <2>. QED  BY <1>5, <2>1 DEF Admitted, Return, TakeMessage, Here, MomentIsKnown, EvidenceStaysInItsRun, Before
<1>6. CASE NotAdmitted
  BY <1>6 DEF NotAdmitted, Return, TakeMessage, Here, MomentIsKnown, EvidenceStaysInItsRun, Before, TypeOK, Runs
<1>7. CASE StreamEnds
  BY <1>7 DEF StreamEnds, Return, TakeMessage, Here, MomentIsKnown, EvidenceStaysInItsRun, Before, TypeOK, Runs
<1>8. CASE InvalidStream
  BY <1>8 DEF InvalidStream, Return, TakeMessage, Here, MomentIsKnown, EvidenceStaysInItsRun, Before, TypeOK, Runs
<1>9. CASE Status
  <2>1. seen'.at = seen.at
    BY <1>9, MomentOfMessage DEF Status, Here
  <2>. QED  BY <1>9, <2>1 DEF Status, MomentIsKnown, EvidenceStaysInItsRun, Before
<1>10. CASE KeepEvidence
  <2>1. seen'.at = seen.at
    BY <1>10, MomentOfMessage DEF KeepEvidence, Here
  <2>2. MomentIsKnown'
    BY <1>10, <2>1 DEF KeepEvidence, MomentIsKnown, Before
  <2>3. stored' = stored \/ stored' = Kept(Take)
    BY <1>10 DEF KeepEvidence
  <2>4. seen.at.terminals = 0
    BY <1>10 DEF KeepEvidence, MomentIsKnown
  <2>5. CASE stored' = Kept(Take)
    <3>1. stored'[Take] = stored[Take] \cup {seen.at}
      BY <2>5 DEF Kept, TypeOK, Runs
    <3>2. \A r \in PostRuns : stored'[r] = stored[r]
      BY <2>5, TakeAssumption DEF Kept, TypeOK, Runs
    <3>. QED  BY <2>2, <2>4, <3>1, <3>2 DEF EvidenceStaysInItsRun
  <2>. QED  BY <2>2, <2>3, <2>5 DEF EvidenceStaysInItsRun
<1>11. CASE Terminal
  <2>1. UNCHANGED <<post, stored, dirs>> /\ post = None /\ step' \in {"stream", "close", "unwind"}
    BY <1>11 DEF Terminal, Publish, Return, MomentIsKnown
  <2>2. step' = "stream" => paused' /\ Take \in dirs'
    BY <1>11, <2>1 DEF Terminal, Publish, Return, MomentIsKnown
  <2>. QED  BY <2>1, <2>2 DEF MomentIsKnown, EvidenceStaysInItsRun, Before
<1>12. CASE OpenPostRun
  <2>1. seen'.at.opened = Message.run /\ ~seen'.at.closed
    BY <1>12, MomentOfMessage DEF OpenPostRun, Here
  <2>2. step' \in {"stream", "unwind"} /\ paused' /\ Take \in dirs' /\ UNCHANGED stored
    BY <1>12 DEF OpenPostRun, Return, MomentIsKnown, TypeOK
  <2>3. post' = Message.run \/ post' = None
    BY <1>12 DEF OpenPostRun
  <2>. QED  BY <2>1, <2>2, <2>3 DEF MomentIsKnown, EvidenceStaysInItsRun, Before
<1>13. CASE KeepPostFacts
  <2>1. seen'.at = seen.at
    BY <1>13, MomentOfMessage DEF KeepPostFacts, Here
  <2>2. MomentIsKnown'
    BY <1>13, <2>1 DEF KeepPostFacts, MomentIsKnown, Before
  <2>3. stored' = stored \/ stored' = Kept(post)
    BY <1>13 DEF KeepPostFacts
  <2>4. post \in PostRuns /\ seen.at.opened = post /\ ~seen.at.closed
    BY <1>13 DEF KeepPostFacts, MomentIsKnown, TypeOK
  <2>5. CASE stored' = Kept(post)
    <3>1. stored'[post] = stored[post] \cup {seen.at}
      BY <2>4, <2>5 DEF Kept, TypeOK, Runs
    <3>2. \A r \in Runs \ {post} : stored'[r] = stored[r]
      BY <2>5 DEF Kept, TypeOK, Runs
    <3>3. Take # post
      BY <2>4, TakeAssumption
    <3>4. \A at \in stored'[Take] : at.terminals = 0
      BY <3>2, <3>3 DEF EvidenceStaysInItsRun, Runs
    <3>5. \A at \in stored'[post] : at.opened = post /\ ~at.closed
      BY <2>4, <3>1 DEF EvidenceStaysInItsRun
    <3>6. \A r \in PostRuns \ {post} : stored'[r] = stored[r]
      BY <3>2 DEF Runs
    <3>. QED  BY <2>2, <3>4, <3>5, <3>6 DEF EvidenceStaysInItsRun
  <2>. QED  BY <2>2, <2>3, <2>5 DEF EvidenceStaysInItsRun
<1>14. CASE ClosePostRun
  <2>1. UNCHANGED <<paused, stored, dirs>> /\ paused
    BY <1>14 DEF ClosePostRun, Publish
  <2>2. step' \in {"stream", "unwind"} /\ Take \in dirs
    BY <1>14 DEF ClosePostRun, Return, MomentIsKnown
  <2>3. step' = "stream" => post' = None
    BY <1>14 DEF ClosePostRun, Return
  <2>. QED  BY <2>1, <2>2, <2>3 DEF MomentIsKnown, EvidenceStaysInItsRun, Before
<1>15. CASE CloseEvidence
  BY <1>15 DEF CloseEvidence, MomentIsKnown, EvidenceStaysInItsRun, Before, TypeOK, Runs
<1>16. CASE ProcessExited
  BY <1>16 DEF ProcessExited, Return, StopForwarder, MomentIsKnown, EvidenceStaysInItsRun, Before, TypeOK, Runs
<1>17. CASE Unwind
  BY <1>17 DEF Unwind, StopForwarder, MomentIsKnown, EvidenceStaysInItsRun, Before, TypeOK, Runs
<1>18. CASE SettleTake
  BY <1>18 DEF SettleTake, MomentIsKnown, EvidenceStaysInItsRun, Before, TypeOK, Runs
<1>19. CASE ExitTimeout
  BY <1>19 DEF ExitTimeout, Return, MomentIsKnown, EvidenceStaysInItsRun, Before, TypeOK, Runs
<1>20. CASE WatchToken
  BY <1>20 DEF WatchToken, MomentIsKnown, EvidenceStaysInItsRun, Before, TypeOK, Runs
<1>21. CASE SendCancel
  BY <1>21 DEF SendCancel, MomentIsKnown, EvidenceStaysInItsRun, Before, TypeOK, Runs
<1>22. CASE RequestCancel
  BY <1>22 DEF RequestCancel, MomentIsKnown, EvidenceStaysInItsRun, Before, TypeOK, Runs
<1>23. CASE RuntimeExits
  BY <1>23 DEF RuntimeExits, MomentIsKnown, EvidenceStaysInItsRun, Before, TypeOK, Runs
<1>24. ASSUME NEW m \in Messages, RuntimeWrites(m) PROVE MomentIsKnown' /\ EvidenceStaysInItsRun'
  BY <1>24 DEF RuntimeWrites, MomentIsKnown, EvidenceStaysInItsRun, Before, TypeOK, Runs
<1>25. CASE UNCHANGED vars
  BY <1>25 DEF vars, MomentIsKnown, EvidenceStaysInItsRun, Before, TypeOK, Runs
<1>. QED
  BY <1>1, <1>2, <1>3, <1>4, <1>5, <1>6, <1>7, <1>8, <1>9, <1>10, <1>11, <1>12, <1>13, <1>14, <1>15, <1>16, <1>17, <1>18, <1>19, <1>20, <1>21, <1>22, <1>23, <1>24, <1>25 DEF Next, Supervise

\* A result is published at the place of its run only.
LEMMA PublishedPlaces ==
    ASSUME TypeOK, NEW r \in Runs, NEW m, NEW outcome, Publish(r, m, outcome)
    PROVE  /\ \A s \in Runs \ {r} : results'[s] = results[s]
           /\ outcome = "published" => results'[r] = m
           /\ UNCHANGED dirs
BY DEF Publish, TypeOK

\* A result is published once, in the directory of its run.
LEMMA ResultsKept ==
    ASSUME TakeInv, [Next]_vars
    PROVE  ResultsAreInTheirRun' /\ (\A r \in Runs : results[r] # None => results'[r] = results[r])
<1>. USE DEF TakeInv, TakeIsTruthful, cancelling, process, files, locals
<1>1. CASE PrepareFails
  BY <1>1 DEF PrepareFails, Return, ResultsAreInTheirRun, TypeOK
<1>2. CASE Launch
  BY <1>2 DEF Launch, ResultsAreInTheirRun, TypeOK
<1>3. CASE Deliver
  BY <1>3 DEF Deliver, ResultsAreInTheirRun, TypeOK
<1>4. CASE DeliveryFails
  BY <1>4 DEF DeliveryFails, Return, ResultsAreInTheirRun, TypeOK
<1>5. CASE Admitted
  <2>1. step' # "stream" \/ post = None
    BY <1>5 DEF Admitted, MomentIsKnown, Before
  <2>2. UNCHANGED <<results, post>> /\ dirs \subseteq dirs'
    BY <1>5 DEF Admitted
  <2>. QED  BY <2>1, <2>2 DEF ResultsAreInTheirRun
<1>6. CASE NotAdmitted
  BY <1>6 DEF NotAdmitted, Return, TakeMessage, Here, ResultsAreInTheirRun, TypeOK
<1>7. CASE StreamEnds
  BY <1>7 DEF StreamEnds, Return, TakeMessage, Here, ResultsAreInTheirRun, TypeOK
<1>8. CASE InvalidStream
  BY <1>8 DEF InvalidStream, Return, TakeMessage, Here, ResultsAreInTheirRun, TypeOK
<1>9. CASE Status
  BY <1>9 DEF Status, TakeMessage, Here, ResultsAreInTheirRun, TypeOK
<1>10. CASE KeepEvidence
  BY <1>10 DEF KeepEvidence, TakeMessage, Here, ResultsAreInTheirRun, TypeOK
<1>11. CASE Terminal
  <2>1. post' = None /\ Take \in dirs /\ results[Take] = None
    BY <1>11 DEF Terminal, MomentIsKnown
  <2>2. \A s \in Runs \ {Take} : results'[s] = results[s]
    BY <1>11, PublishedPlaces DEF Terminal, Runs
  <2>3. UNCHANGED dirs
    BY <1>11 DEF Terminal, Publish
  <2>. QED  BY <2>1, <2>2, <2>3 DEF ResultsAreInTheirRun
<1>12. CASE OpenPostRun
  <2>1. UNCHANGED results /\ dirs \subseteq dirs'
    BY <1>12 DEF OpenPostRun
  <2>2. Message.run \in Runs /\ Message.run \notin dirs
    BY <1>12, TakeMessageTypes, MessageKinds DEF OpenPostRun, Here, CanOpen
  <2>3. results[Message.run] = None
    BY <2>2 DEF ResultsAreInTheirRun
  <2>4. step' = "stream" => post' = Message.run /\ Message.run \in dirs'
    BY <1>12 DEF OpenPostRun, Return
  <2>. QED  BY <2>1, <2>3, <2>4 DEF ResultsAreInTheirRun
<1>13. CASE KeepPostFacts
  BY <1>13 DEF KeepPostFacts, TakeMessage, Here, ResultsAreInTheirRun, TypeOK
<1>14. CASE ClosePostRun
  <2>1. post \in Runs /\ post \in dirs /\ results[post] = None
    BY <1>14 DEF ClosePostRun, ResultsAreInTheirRun, TypeOK, Runs
  <2>2. \A s \in Runs \ {post} : results'[s] = results[s]
    BY <1>14, <2>1, PublishedPlaces DEF ClosePostRun
  <2>3. UNCHANGED dirs /\ (step' = "stream" => post' = None)
    BY <1>14 DEF ClosePostRun, Publish, Return
  <2>. QED  BY <2>1, <2>2, <2>3 DEF ResultsAreInTheirRun
<1>15. CASE CloseEvidence
  BY <1>15 DEF CloseEvidence, ResultsAreInTheirRun, TypeOK
<1>16. CASE ProcessExited
  BY <1>16 DEF ProcessExited, Return, StopForwarder, ResultsAreInTheirRun, TypeOK
<1>17. CASE Unwind
  BY <1>17 DEF Unwind, StopForwarder, ResultsAreInTheirRun, TypeOK
<1>18. CASE SettleTake
  BY <1>18 DEF SettleTake, ResultsAreInTheirRun, TypeOK
<1>19. CASE ExitTimeout
  BY <1>19 DEF ExitTimeout, Return, ResultsAreInTheirRun, TypeOK
<1>20. CASE WatchToken
  BY <1>20 DEF WatchToken, ResultsAreInTheirRun, TypeOK
<1>21. CASE SendCancel
  BY <1>21 DEF SendCancel, ResultsAreInTheirRun, TypeOK
<1>22. CASE RequestCancel
  BY <1>22 DEF RequestCancel, ResultsAreInTheirRun, TypeOK
<1>23. CASE RuntimeExits
  BY <1>23 DEF RuntimeExits, ResultsAreInTheirRun, TypeOK
<1>24. ASSUME NEW m \in Messages, RuntimeWrites(m) PROVE ResultsAreInTheirRun' /\ (\A r \in Runs : results[r] # None => results'[r] = results[r])
  BY <1>24 DEF RuntimeWrites, ResultsAreInTheirRun, TypeOK
<1>25. CASE UNCHANGED vars
  BY <1>25 DEF vars, ResultsAreInTheirRun, TypeOK
<1>. QED
  BY <1>1, <1>2, <1>3, <1>4, <1>5, <1>6, <1>7, <1>8, <1>9, <1>10, <1>11, <1>12, <1>13, <1>14, <1>15, <1>16, <1>17, <1>18, <1>19, <1>20, <1>21, <1>22, <1>23, <1>24, <1>25 DEF Next, Supervise

\* From the terminal on the result stays with the take.
LEMMA TerminalKept ==
    ASSUME TakeInv, [Next]_vars
    PROVE  TerminalIsPublished'
<1>. USE DEF TakeInv, TakeIsTruthful, cancelling, process, files, locals
<1>1. CASE PrepareFails
  BY <1>1 DEF PrepareFails, Return, TerminalIsPublished, TypeOK
<1>2. CASE Launch
  BY <1>2 DEF Launch, TerminalIsPublished, TypeOK
<1>3. CASE Deliver
  BY <1>3 DEF Deliver, TerminalIsPublished, TypeOK
<1>4. CASE DeliveryFails
  BY <1>4 DEF DeliveryFails, Return, TerminalIsPublished, TypeOK
<1>5. CASE Admitted
  BY <1>5 DEF Admitted, Return, TakeMessage, Here, TerminalIsPublished, TypeOK
<1>6. CASE NotAdmitted
  BY <1>6 DEF NotAdmitted, Return, TakeMessage, Here, TerminalIsPublished, TypeOK
<1>7. CASE StreamEnds
  BY <1>7 DEF StreamEnds, Return, TakeMessage, Here, TerminalIsPublished, TypeOK
<1>8. CASE InvalidStream
  BY <1>8 DEF InvalidStream, Return, TakeMessage, Here, TerminalIsPublished, TypeOK
<1>9. CASE Status
  BY <1>9 DEF Status, TakeMessage, Here, TerminalIsPublished, TypeOK
<1>10. CASE KeepEvidence
  BY <1>10 DEF KeepEvidence, TakeMessage, Here, TerminalIsPublished, TypeOK
<1>11. CASE Terminal
  <2>1. cessation'.launched /\ step' # "exit"
    BY <1>11 DEF Terminal, Return, TakeMessage, TerminalIsPublished
  <2>2. Message \in Terminals
    BY <1>11, TakeMessageTypes, MessageKinds DEF Terminal, Here
  <2>3. CASE Publish(Take, Message, "published")
    <3>1. results'[Take] = Message
      BY <2>3, PublishedPlaces DEF Runs
    <3>. QED  BY <1>11, <2>1, <2>2, <3>1, NoneAssumption DEF Terminal, TerminalIsPublished
  <2>4. CASE Return("error") /\ UNCHANGED paused
    BY <1>11, <2>1, <2>4 DEF Return, Terminal, TerminalIsPublished
  <2>. QED  BY <1>11, <2>3, <2>4 DEF Terminal
<1>12. CASE OpenPostRun
  BY <1>12 DEF OpenPostRun, Return, TakeMessage, Here, TerminalIsPublished, TypeOK
<1>13. CASE KeepPostFacts
  BY <1>13 DEF KeepPostFacts, TakeMessage, Here, TerminalIsPublished, TypeOK
<1>14. CASE ClosePostRun
  <2>1. post \in Runs /\ post # Take
    BY <1>14, TakeAssumption DEF ClosePostRun, TypeOK, Runs
  <2>2. results'[Take] = results[Take]
    BY <1>14, <2>1, PublishedPlaces DEF ClosePostRun, Runs
  <2>3. UNCHANGED <<paused, replay, cessation>> /\ step' \in {"stream", "unwind"}
    BY <1>14 DEF ClosePostRun, TakeMessage, Return
  <2>. QED  BY <1>14, <2>2, <2>3 DEF ClosePostRun, TerminalIsPublished
<1>15. CASE CloseEvidence
  BY <1>15 DEF CloseEvidence, TerminalIsPublished, TypeOK
<1>16. CASE ProcessExited
  BY <1>16 DEF ProcessExited, Return, StopForwarder, TerminalIsPublished, TypeOK
<1>17. CASE Unwind
  BY <1>17 DEF Unwind, StopForwarder, TerminalIsPublished, TypeOK
<1>18. CASE SettleTake
  BY <1>18 DEF SettleTake, TerminalIsPublished, TypeOK
<1>19. CASE ExitTimeout
  BY <1>19 DEF ExitTimeout, Return, TerminalIsPublished, TypeOK
<1>20. CASE WatchToken
  BY <1>20 DEF WatchToken, TerminalIsPublished, TypeOK
<1>21. CASE SendCancel
  BY <1>21 DEF SendCancel, TerminalIsPublished, TypeOK
<1>22. CASE RequestCancel
  BY <1>22 DEF RequestCancel, TerminalIsPublished, TypeOK
<1>23. CASE RuntimeExits
  BY <1>23 DEF RuntimeExits, TerminalIsPublished, TypeOK
<1>24. ASSUME NEW m \in Messages, RuntimeWrites(m) PROVE TerminalIsPublished'
  BY <1>24 DEF RuntimeWrites, TerminalIsPublished, TypeOK
<1>25. CASE UNCHANGED vars
  BY <1>25 DEF vars, TerminalIsPublished, TypeOK
<1>. QED
  BY <1>1, <1>2, <1>3, <1>4, <1>5, <1>6, <1>7, <1>8, <1>9, <1>10, <1>11, <1>12, <1>13, <1>14, <1>15, <1>16, <1>17, <1>18, <1>19, <1>20, <1>21, <1>22, <1>23, <1>24, <1>25 DEF Next, Supervise

\* Evidence comes back from a finished execution.
LEMMA FinishKept ==
    ASSUME TakeInv, [Next]_vars
    PROVE  EvidenceMeansFinished'
<1>. USE DEF TakeInv, TakeIsTruthful, cancelling, process, files, locals
<1>1. CASE PrepareFails
  BY <1>1 DEF PrepareFails, Return, EvidenceMeansFinished, TypeOK, NotYetAnswered, Answered
<1>2. CASE Launch
  BY <1>2 DEF Launch, EvidenceMeansFinished, TypeOK, NotYetAnswered, Answered
<1>3. CASE Deliver
  BY <1>3 DEF Deliver, EvidenceMeansFinished, TypeOK, NotYetAnswered, Answered
<1>4. CASE DeliveryFails
  BY <1>4 DEF DeliveryFails, Return, EvidenceMeansFinished, TypeOK, NotYetAnswered, Answered
<1>5. CASE Admitted
  BY <1>5 DEF Admitted, Return, TakeMessage, Here, EvidenceMeansFinished, TypeOK, NotYetAnswered, Answered
<1>6. CASE NotAdmitted
  BY <1>6 DEF NotAdmitted, Return, TakeMessage, Here, EvidenceMeansFinished, TypeOK, NotYetAnswered, Answered
<1>7. CASE StreamEnds
  BY <1>7 DEF StreamEnds, Return, TakeMessage, Here, EvidenceMeansFinished, TypeOK, NotYetAnswered, Answered
<1>8. CASE InvalidStream
  BY <1>8 DEF InvalidStream, Return, TakeMessage, Here, EvidenceMeansFinished, TypeOK, NotYetAnswered, Answered
<1>9. CASE Status
  BY <1>9 DEF Status, TakeMessage, Here, EvidenceMeansFinished, TypeOK, NotYetAnswered, Answered
<1>10. CASE KeepEvidence
  BY <1>10 DEF KeepEvidence, TakeMessage, Here, EvidenceMeansFinished, TypeOK, NotYetAnswered, Answered
<1>11. CASE Terminal
  BY <1>11 DEF Terminal, Return, TakeMessage, Here, EvidenceMeansFinished, TypeOK, NotYetAnswered, Answered
<1>12. CASE OpenPostRun
  BY <1>12 DEF OpenPostRun, Return, TakeMessage, Here, EvidenceMeansFinished, TypeOK, NotYetAnswered, Answered
<1>13. CASE KeepPostFacts
  BY <1>13 DEF KeepPostFacts, TakeMessage, Here, EvidenceMeansFinished, TypeOK, NotYetAnswered, Answered
<1>14. CASE ClosePostRun
  BY <1>14 DEF ClosePostRun, Return, TakeMessage, Here, EvidenceMeansFinished, TypeOK, NotYetAnswered, Answered
<1>15. CASE CloseEvidence
  BY <1>15 DEF CloseEvidence, EvidenceMeansFinished, TypeOK, NotYetAnswered, Answered
<1>16. CASE ProcessExited
  <2>1. results[Take] = replay /\ cessation.closed /\ cessation.launched
    BY <1>16 DEF ProcessExited, TerminalIsPublished
  <2>2. cessation' = [launched |-> TRUE, exited |-> TRUE, closed |-> TRUE]
    BY <1>16, <2>1 DEF ProcessExited, TypeOK
  <2>. QED  BY <1>16, <2>1, <2>2 DEF ProcessExited, Return, StopForwarder, EvidenceMeansFinished
<1>17. CASE Unwind
  BY <1>17 DEF Unwind, StopForwarder, EvidenceMeansFinished, TypeOK, NotYetAnswered, Answered
<1>18. CASE SettleTake
  BY <1>18 DEF SettleTake, EvidenceMeansFinished, TypeOK, NotYetAnswered, Answered
<1>19. CASE ExitTimeout
  BY <1>19 DEF ExitTimeout, Return, EvidenceMeansFinished, TypeOK, NotYetAnswered, Answered
<1>20. CASE WatchToken
  BY <1>20 DEF WatchToken, EvidenceMeansFinished, TypeOK, NotYetAnswered, Answered
<1>21. CASE SendCancel
  BY <1>21 DEF SendCancel, EvidenceMeansFinished, TypeOK, NotYetAnswered, Answered
<1>22. CASE RequestCancel
  BY <1>22 DEF RequestCancel, EvidenceMeansFinished, TypeOK, NotYetAnswered, Answered
<1>23. CASE RuntimeExits
  <2>1. runtime \notin Gone
    BY <1>23 DEF RuntimeExits, Gone
  <2>. QED  BY <1>23, <2>1 DEF RuntimeExits, EvidenceMeansFinished
<1>24. ASSUME NEW m \in Messages, RuntimeWrites(m) PROVE EvidenceMeansFinished'
  BY <1>24 DEF RuntimeWrites, EvidenceMeansFinished, TypeOK, NotYetAnswered, Answered
<1>25. CASE UNCHANGED vars
  BY <1>25 DEF vars, EvidenceMeansFinished, TypeOK, NotYetAnswered, Answered
<1>. QED
  BY <1>1, <1>2, <1>3, <1>4, <1>5, <1>6, <1>7, <1>8, <1>9, <1>10, <1>11, <1>12, <1>13, <1>14, <1>15, <1>16, <1>17, <1>18, <1>19, <1>20, <1>21, <1>22, <1>23, <1>24, <1>25 DEF Next, Supervise

\* A natural end was proved by the result.
LEMMA NaturalEndKept ==
    ASSUME TakeInv, [Next]_vars
    PROVE  NaturalEndIsProved'
<1>. USE DEF TakeInv, TakeIsTruthful, cancelling, process, files, locals
<1>1. CASE PrepareFails
  BY <1>1 DEF PrepareFails, Return, NaturalEndIsProved, TypeOK, Requested
<1>2. CASE Launch
  BY <1>2 DEF Launch, NaturalEndIsProved, TypeOK, Requested
<1>3. CASE Deliver
  BY <1>3 DEF Deliver, NaturalEndIsProved, TypeOK, Requested
<1>4. CASE DeliveryFails
  BY <1>4 DEF DeliveryFails, Return, NaturalEndIsProved, TypeOK, Requested
<1>5. CASE Admitted
  BY <1>5 DEF Admitted, Return, TakeMessage, Here, NaturalEndIsProved, TypeOK, Requested
<1>6. CASE NotAdmitted
  BY <1>6 DEF NotAdmitted, Return, TakeMessage, Here, NaturalEndIsProved, TypeOK, Requested
<1>7. CASE StreamEnds
  BY <1>7 DEF StreamEnds, Return, TakeMessage, Here, NaturalEndIsProved, TypeOK, Requested
<1>8. CASE InvalidStream
  BY <1>8 DEF InvalidStream, Return, TakeMessage, Here, NaturalEndIsProved, TypeOK, Requested
<1>9. CASE Status
  BY <1>9 DEF Status, TakeMessage, Here, NaturalEndIsProved, TypeOK, Requested
<1>10. CASE KeepEvidence
  BY <1>10 DEF KeepEvidence, TakeMessage, Here, NaturalEndIsProved, TypeOK, Requested
<1>11. CASE Terminal
  BY <1>11 DEF Terminal, Return, TakeMessage, Here, NaturalEndIsProved, TypeOK, Requested
<1>12. CASE OpenPostRun
  BY <1>12 DEF OpenPostRun, Return, TakeMessage, Here, NaturalEndIsProved, TypeOK, Requested
<1>13. CASE KeepPostFacts
  BY <1>13 DEF KeepPostFacts, TakeMessage, Here, NaturalEndIsProved, TypeOK, Requested
<1>14. CASE ClosePostRun
  BY <1>14 DEF ClosePostRun, Return, TakeMessage, Here, NaturalEndIsProved, TypeOK, Requested
<1>15. CASE CloseEvidence
  BY <1>15 DEF CloseEvidence, NaturalEndIsProved, TypeOK, Requested
<1>16. CASE ProcessExited
  BY <1>16 DEF ProcessExited, Return, StopForwarder, NaturalEndIsProved, TypeOK, Requested
<1>17. CASE Unwind
  BY <1>17 DEF Unwind, StopForwarder, NaturalEndIsProved, TypeOK, Requested
<1>18. CASE SettleTake
  <2> DEFINE p == IF returned = "evidence" THEN replay.playback ELSE "error"
  <2>1. arb = BeginTake(NewArbiter) /\ arb' = Settle(arb, Requested, p)
    BY <1>18 DEF SettleTake, NotYetAnswered
  <2>2. p \in PlaybackKinds \cup {"error"} /\ Requested \in BOOLEAN
    <3>1. returned = "evidence" => replay \in Terminals
      BY DEF TypeOK, TerminalIsPublished
    <3>. QED  BY <3>1, PlaybacksAssumption DEF Terminals, Requested
  <2> SUFFICES ASSUME Playback(arb') = "natural_end"
               PROVE  NaturalEndIsProved'
    BY DEF NaturalEndIsProved
  <2>3. ~Requested /\ p = "natural_end"
    <3> HIDE DEF p
    <3>. QED  BY <2>1, <2>2, SettledReason
  <2>4. returned = "evidence" /\ replay.playback = "natural_end"
    BY <2>3
  <2>5. results[Take] = replay /\ replay # None /\ cessation.exited
    BY <2>4 DEF EvidenceMeansFinished, TerminalIsPublished
  <2>6. UNCHANGED <<token, results, cessation>>
    BY <1>18 DEF SettleTake
  <2>. QED  BY <2>3, <2>4, <2>5, <2>6 DEF NaturalEndIsProved, Requested
<1>19. CASE ExitTimeout
  BY <1>19 DEF ExitTimeout, Return, NaturalEndIsProved, TypeOK, Requested
<1>20. CASE WatchToken
  BY <1>20 DEF WatchToken, NaturalEndIsProved, TypeOK, Requested
<1>21. CASE SendCancel
  BY <1>21 DEF SendCancel, NaturalEndIsProved, TypeOK, Requested
<1>22. CASE RequestCancel
  BY <1>22 DEF RequestCancel, NaturalEndIsProved, TypeOK, Requested
<1>23. CASE RuntimeExits
  BY <1>23 DEF RuntimeExits, NaturalEndIsProved, TypeOK, Requested
<1>24. ASSUME NEW m \in Messages, RuntimeWrites(m) PROVE NaturalEndIsProved'
  BY <1>24 DEF RuntimeWrites, NaturalEndIsProved, TypeOK, Requested
<1>25. CASE UNCHANGED vars
  BY <1>25 DEF vars, NaturalEndIsProved, TypeOK, Requested
<1>. QED
  BY <1>1, <1>2, <1>3, <1>4, <1>5, <1>6, <1>7, <1>8, <1>9, <1>10, <1>11, <1>12, <1>13, <1>14, <1>15, <1>16, <1>17, <1>18, <1>19, <1>20, <1>21, <1>22, <1>23, <1>24, <1>25 DEF Next, Supervise

-----------------------------------------------------------------------------
\* The theorems.

\* A take that is not launched has left nothing behind.
LEMMA TakeInvInit == Init => TakeInv
<1>. SUFFICES ASSUME Init PROVE TakeInv
  OBVIOUS
<1>. USE DEF Init
<1>1. TypeOK
  <2>1. 0 \in 0..MaxMessages
    BY BoundsAssumption
  <2>2. Start \in Moments
    BY <2>1 DEF Start, Moments
  <2>3. seen \in [count : 0..MaxMessages, at : Moments, over : BOOLEAN]
    BY <2>1, <2>2
  <2>4. arb \in Arbiters
    BY ArbiterTypes
  <2>5. control \in Seq({"request", "cancel"}) /\ data \in Seq(Messages)
    OBVIOUS
  <2>6. stored \in [Runs -> SUBSET Moments] /\ results \in [Runs -> Terminals \cup {None}]
    OBVIOUS
  <2>7. cessation \in [launched : BOOLEAN, exited : BOOLEAN, closed : BOOLEAN]
    OBVIOUS
  <2>. QED  BY <2>3, <2>4, <2>5, <2>6, <2>7 DEF TypeOK
<1>2. CountsAreBounded
  BY BoundsAssumption DEF CountsAreBounded, Start
<1>3. EvidenceStaysInItsRun /\ ResultsAreInTheirRun
  BY DEF EvidenceStaysInItsRun, ResultsAreInTheirRun, Runs
<1>4. EvidenceMeansFinished /\ NaturalEndIsProved /\ CancelFollowsRequest
  BY DEF EvidenceMeansFinished, NaturalEndIsProved, CancelFollowsRequest
<1>5. NotYetAnswered /\ ForwarderFollows /\ MomentIsKnown /\ TerminalIsPublished
  BY DEF NotYetAnswered, Answered, ForwarderFollows, MomentIsKnown, Before, Start,
         TerminalIsPublished, Runs
<1>. QED  BY <1>1, <1>2, <1>3, <1>4, <1>5 DEF TakeInv, TakeIsTruthful

\* Every step of the take, the forwarder, the user or the Runtime keeps the invariant.
LEMMA TakeInvStep == TakeInv /\ [Next]_vars => TakeInv'
BY TypesKept, AnswerKept, ForwarderKept, EvidenceKept, ResultsKept, TerminalKept,
   FinishKept, NaturalEndKept DEF TakeInv, TakeIsTruthful

(***************************************************************************)
(* What execute_check_replay and run_take leave behind is true, however    *)
(* the Runtime, the user and the disk behave: the evidence of a run holds  *)
(* only what was received while it was open, evidence comes back only from *)
(* a finished execution with its published result, a natural end is never  *)
(* a cancelled take, and `cancel' is written once, after the request.      *)
(***************************************************************************)
THEOREM TakesAreTruthful == Spec => []TakeIsTruthful
<1>1. TakeInv => TakeIsTruthful
  BY DEF TakeInv
<1>. QED  BY <1>1, TakeInvInit, TakeInvStep, PTL DEF Spec

(***************************************************************************)
(* replay-result.toml is published once for each run: neither what the     *)
(* Runtime writes after its terminal, nor a cancellation, nor a post-end   *)
(* inspection replaces the result of the take or that of a closed one.     *)
(***************************************************************************)
THEOREM ResultsAreFinal == Spec => PublishedResultsStay
<1>1. TakeInv /\ [Next]_vars =>
        [\A r \in Runs : results[r] # None => results'[r] = results[r]]_vars
  BY ResultsKept
<1>. QED  BY <1>1, TakeInvInit, TakeInvStep, PTL DEF Spec, PublishedResultsStay
==============================================================================
