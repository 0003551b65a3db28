-------------------------- MODULE AgentLoopProofs --------------------------
(***************************************************************************)
(* For any number of messages and calls, any queue modes and whoever may   *)
(* throw: the variables keep their types, and no tool call is open while   *)
(* the model is asked or when the agent is idle.  Each user message is in  *)
(* one place, in the order in which it was sent, and unless a listener     *)
(* throws none is lost; the two copies of the transcript agree; results    *)
(* stand behind the reply that made their calls; the model goes on only    *)
(* from answered calls; and the events of a run nest.                      *)
(***************************************************************************)
EXTENDS AgentLoop, SequenceLemmas, SequenceTheorems, FiniteSetTheorems, TLAPS

\* What an await says of the lists the loop is working through.
InHand ==
    /\ pc # "idle" => context # <<>>
    /\ pc = "prompt_start" => prompts # <<>>
    /\ pc = "inject_start" => pending # <<>>

Failing == {"fail_start", "fail_end", "fail_turn_end", "fail_agent_end"}
InBatch == {"call_start", "call_end", "running"}
IsOpen(i) == calls[i] \in {"started", "prepared", "running"}
NoneOpen == \A i \in DOMAIN calls : ~IsOpen(i)

\* Every pending call belongs to an open call of the current batch.
PendingIsOpen ==
    pc \notin Failing =>
        \A c \in pendingCalls : \E i \in DOMAIN calls : IsOpen(i) /\ c = CallId(i)
\* Which calls of the batch can be open at each of its awaits.
Started ==
    pc = "call_start" =>
        /\ at \in DOMAIN calls
        /\ \A i \in DOMAIN calls : calls[i] = "started" => i = at
        /\ mode = "sequential" => \A i \in DOMAIN calls : IsOpen(i) => i = at
Answering ==
    pc = "call_end" =>
        /\ at \in DOMAIN calls
        /\ \A i \in DOMAIN calls : calls[i] # "started"
        /\ mode = "sequential" => NoneOpen
Running ==
    pc = "running" =>
        /\ at \in DOMAIN calls
        /\ \A i \in DOMAIN calls : calls[i] \notin {"started", "prepared"}
Closed == pc \notin InBatch => NoneOpen

CallPhase == PendingIsOpen /\ Started /\ Answering /\ Running /\ Closed
IInv == TypeOK /\ InHand /\ CallPhase

(***************************************************************************)
(* Facts about messages and sequences.                                     *)
(***************************************************************************)
\* What the loop builds are messages: prompts, replies and tool results.
LEMMA KnownMessages ==
    /\ UserMessages \subseteq Messages
    /\ \A kind \in {"prompt", "steer", "follow"}, n \in Nat :
          User(kind, n) \in UserMessages
    /\ \A n, i \in Nat : Result(n, i) \in Messages
    /\ \A n, k \in Nat, stop \in Stops : Message("reply", n, k, stop) \in Messages
    /\ \A n, k \in Nat, stop \in Stops : Message("partial", n, k, stop) \in Messages
    /\ \A m \in Messages : m.n \in Nat /\ m.k \in Nat
BY DEF UserMessages, Messages, User, Result, Message, Stops

\* The set of a sequence's elements is a set of what it holds.
LEMMA ToSetType ==
    ASSUME NEW S, NEW s \in Seq(S)
    PROVE  ToSet(s) \subseteq S
BY DEF ToSet

\* A list that is not empty has a last element, and the rest of it is a list.
LEMMA FrontAndLast ==
    ASSUME NEW S, NEW s \in Seq(S), s # <<>>
    PROVE  Front(s) \in Seq(S) /\ Last(s) \in S
BY DEF Front, Last

\* PendingMessageQueue.drain hands out messages and leaves messages.
LEMMA QueueTypes ==
    ASSUME NEW q \in Seq(UserMessages), NEW queueMode
    PROVE  Drained(q, queueMode) \in Seq(UserMessages) /\ Left(q, queueMode) \in Seq(UserMessages)
BY DEF Drained, Left

\* The calls of a batch that have been reached are calls of that batch.
LEMMA ReachedType ==
    ASSUME CallTypes
    PROVE  Reached \in 0 .. Len(calls)
<1> DEFINE reached == {i \in DOMAIN calls : calls[i] # "todo"}
<1>1. Len(calls) \in Nat /\ DOMAIN calls = 1 .. Len(calls)
  BY DEF CallTypes
<1>2. IsFiniteSet(1 .. Len(calls)) /\ Cardinality(1 .. Len(calls)) = Len(calls)
  <2>1. 1 \in Int /\ Len(calls) \in Int
    BY <1>1
  <2>2. IsFiniteSet(1 .. Len(calls))
        /\ Cardinality(1 .. Len(calls)) = IF 1 > Len(calls) THEN 0 ELSE Len(calls) - 1 + 1
    BY <2>1, FS_Interval
  <2> QED
    BY <1>1, <2>2
<1>3. reached \in SUBSET (1 .. Len(calls))
  BY <1>1
<1>4. IsFiniteSet(reached) /\ Cardinality(reached) <= Len(calls)
  BY <1>2, <1>3, FS_Subset
<1>5. Cardinality(reached) \in Nat
  BY <1>4, FS_CardinalityType
<1> QED
  BY <1>1, <1>4, <1>5 DEF Reached

\* What the provider may reply is a set of messages.
LEMMA RepliesType ==
    ASSUME MessageTypes, sent["reply"] \in Nat
    PROVE  Replies \subseteq Messages
<1>1. NextReply \in Nat /\ 0 \in Nat
  BY DEF NextReply
<1>2. \A k \in 0 .. (IF NextReply < MaxSent["reply"] THEN MaxCalls ELSE 0) : k \in Nat
  OBVIOUS
<1> QED
  BY <1>1, <1>2, KnownMessages DEF Replies, Stops

(***************************************************************************)
(* Types.                                                                  *)
(***************************************************************************)
\* Every step keeps the types of the lists of messages: the transcript, the
\* loop's context, its new and pending messages and the two queues.
LEMMA MessageStep ==
    ASSUME TypeOK, InHand, Next
    PROVE  MessageTypes'
<1>s. sent \in [Kinds -> Nat]
  BY DEF TypeOK, MessageTypes
<1>a. sent["prompt"] + 1 \in Nat /\ sent["steer"] + 1 \in Nat
      /\ sent["follow"] + 1 \in Nat /\ sent["reply"] \in Nat /\ NextReply \in Nat
  <2>1. \A kind \in Kinds : sent[kind] \in Nat /\ sent[kind] + 1 \in Nat
    BY <1>s
  <2> QED
    BY ONLY <2>1 DEF Kinds, NextReply
<1> USE DEF TypeOK, MessageTypes, agentVars, loopVars, batchVars, history
<1>b. pc # "idle" => Front(context) \in Seq(Messages) /\ Reply \in Messages
                     /\ Reply.n \in Nat
  BY FrontAndLast, KnownMessages DEF InHand, Reply
<1>c. at \in Nat /\ Reached \in Nat
  BY ReachedType DEF CallTypes
<1>d. \A kind \in Kinds : Sending(kind) => sent' \in [Kinds -> Nat]
                                          /\ sent'[kind] = sent[kind] + 1
  BY DEF Sending
<1>1. CASE Prompt
  <2>1. User("prompt", sent'["prompt"]) \in UserMessages
    BY <1>1, <1>a, <1>d, KnownMessages DEF Prompt, Kinds
  <2>2. <<User("prompt", sent'["prompt"])>> \in Seq(UserMessages)
        /\ <<User("prompt", sent'["prompt"])>> \in Seq(Messages)
    BY <2>1, KnownMessages
  <2> QED
    BY <1>1, <1>d, <2>2 DEF Prompt, StartRun, Kinds
<1>2. CASE ContinueSteering
  BY <1>2, QueueTypes, KnownMessages DEF ContinueSteering, StartRun
<1>3. CASE ContinueFollowUp
  BY <1>3, QueueTypes, KnownMessages DEF ContinueFollowUp, StartRun
<1>4. CASE ContinueTranscript
  BY <1>4 DEF ContinueTranscript, StartRun
<1>5. CASE Steer
  <2>1. User("steer", sent'["steer"]) \in UserMessages
    BY <1>5, <1>a, <1>d, KnownMessages DEF Steer, Kinds
  <2> QED
    BY <1>5, <1>d, <2>1 DEF Steer, Kinds
<1>6. CASE FollowUp
  <2>1. User("follow", sent'["follow"]) \in UserMessages
    BY <1>6, <1>a, <1>d, KnownMessages DEF FollowUp, Kinds
  <2> QED
    BY <1>6, <1>d, <2>1 DEF FollowUp, Kinds
<1>7. CASE ClearQueues
  <2>1. ToSet(steering) \subseteq Messages /\ ToSet(followUp) \subseteq Messages
    BY ToSetType, KnownMessages
  <2>2. steering' \in Seq(UserMessages) /\ followUp' \in Seq(UserMessages)
        /\ dropped' \subseteq Messages
    BY <1>7, <2>1 DEF ClearQueues
  <2> QED
    BY <1>7, <2>2 DEF ClearQueues
<1>8. CASE Abort
  BY <1>8 DEF Abort
<1>9. CASE Reset
  <2>1. ToSet(steering) \subseteq Messages /\ ToSet(followUp) \subseteq Messages
        /\ ToSet(messages) \subseteq Messages
    BY ToSetType, KnownMessages
  <2> QED
    BY <1>9, <2>1 DEF Reset
<1>10. CASE DropFailedReply
  BY <1>10, FrontAndLast DEF DropFailedReply, EndsWithReply
<1>11. CASE FirstTurn \/ PromptStart \/ InjectStart \/ NextTurn \/ EndRun
  BY <1>11 DEF FirstTurn, PromptStart, InjectStart, NextTurn, EndRun
<1>12. CASE PromptEnd
  <2>1. Head(prompts) \in UserMessages /\ Tail(prompts) \in Seq(UserMessages)
    BY <1>12 DEF PromptEnd, InHand
  <2> QED
    BY <1>12, <2>1, KnownMessages DEF PromptEnd
<1>13. CASE FirstPoll \/ PollAfterTurn
  <2>1. PICK next : PollSteering(next)
    BY <1>13 DEF FirstPoll, PollAfterTurn
  <2>2. Drained(steering, SteeringMode) \in Seq(UserMessages)
        /\ Left(steering, SteeringMode) \in Seq(UserMessages)
    BY QueueTypes
  <2> QED
    BY <2>1, <2>2 DEF PollSteering
<1>14. CASE InjectEnd
  <2>1. Head(pending) \in UserMessages /\ Tail(pending) \in Seq(UserMessages)
    BY <1>14 DEF InjectEnd, InHand
  <2> QED
    BY <1>14, <2>1, KnownMessages DEF InjectEnd
<1>15. CASE ReplyStart
  <2>1. Partial \in Messages
    BY <1>a, KnownMessages DEF Partial, Stops
  <2> QED
    BY <1>15, <2>1 DEF ReplyStart
<1>16. CASE ReplyEnd
  <2>1. PICK reply \in Replies : context' = Append(Front(context), reply)
                                 /\ messages' = Append(messages, reply)
    BY <1>16 DEF ReplyEnd
  <2>2. reply \in Messages
    BY <1>a, RepliesType
  <2>3. Front(context) \in Seq(Messages)
    BY <1>16, <1>b DEF ReplyEnd
  <2>4. sent' \in [Kinds -> Nat]
    BY <1>16, <1>a DEF ReplyEnd
  <2> QED
    BY <1>16, <2>1, <2>2, <2>3, <2>4 DEF ReplyEnd
<1>17. CASE InterruptedTurn \/ TurnWithoutCalls \/ FailTurnEnd
  BY <1>17 DEF InterruptedTurn, TurnWithoutCalls, FailTurnEnd, EndTurn
<1>18. CASE PollFollowUp
  BY <1>18, QueueTypes DEF PollFollowUp
<1>19. CASE Finish \/ ThrowsAgain
  <2>1. FinishRun
    BY <1>19 DEF Finish, ThrowsAgain
  <2> QED
    BY <2>1 DEF FinishRun
<1>20. CASE RunTools \/ NextCall
  BY <1>20 DEF RunTools, NextCall
<1>21. CASE AnswerAtOnce \/ RunCall \/ Prepare \/ PrepareNext
  BY <1>21 DEF AnswerAtOnce, RunCall, Prepare, PrepareNext
<1>22. CASE \E i \in DOMAIN calls : FinishCall(i) \/ CallEnded(i)
  BY <1>22 DEF FinishCall, CallEnded
<1>23. CASE FirstResult \/ NextResult
  BY <1>23 DEF FirstResult, NextResult, AnnounceResult
<1>24. CASE ResultEnd
  <2>0. Reply.n \in Nat
    BY <1>24, <1>b DEF ResultEnd
  <2>1. Result(Reply.n, at) \in Messages
    BY ONLY <1>c, <2>0, KnownMessages
  <2> QED
    BY <1>24, <2>1 DEF ResultEnd
<1>25. CASE EndBatch
  <2> DEFINE results == [i \in 1 .. Reached |-> Result(Reply.n, i)]
  <2>1. \A i \in 1 .. Reached : Result(Reply.n, i) \in Messages
    BY <1>25, <1>b, <1>c, KnownMessages DEF EndBatch
  <2>2. results \in Seq(Messages)
    BY <2>1, <1>c
  <2>3. context' = context \o results
    BY <1>25 DEF EndBatch
  <2>4. UNCHANGED <<messages, steering, followUp, prompts, pending, sent, dropped>>
    BY <1>25 DEF EndBatch, EndTurn
  <2> HIDE DEF results
  <2> QED
    BY <2>2, <2>3, <2>4
<1>26. CASE ListenerThrows \/ ProviderThrows
  <2> DEFINE failure == Message("reply", NextReply, 0, IF aborted THEN "aborted" ELSE "error")
  <2>1. failure \in Messages
    BY <1>a, KnownMessages DEF Stops
  <2>2. context' = <<failure>>
    BY <1>26 DEF ListenerThrows, ProviderThrows, RunFails
  <2>3. prompts' = <<>> /\ pending' = <<>>
        /\ UNCHANGED <<messages, steering, followUp, sent, dropped>>
    BY <1>26 DEF ListenerThrows, ProviderThrows, RunFails
  <2> HIDE DEF failure
  <2> QED
    BY <2>1, <2>2, <2>3
<1>27. CASE FailEnd
  <2>1. Reply \in Messages
    BY <1>27, <1>b DEF FailEnd
  <2>2. sent' \in [Kinds -> Nat]
    BY <1>27, <1>a DEF FailEnd
  <2> QED
    BY <1>27, <2>1, <2>2 DEF FailEnd
<1>28. CASE FailRunEnd
  BY <1>28 DEF FailRunEnd
<1>29. CASE \E call \in orphans : OrphanEnds(call)
  BY <1>29 DEF OrphanEnds
<1> QED
  BY <1>1, <1>2, <1>3, <1>4, <1>5, <1>6, <1>7, <1>8, <1>9, <1>10, <1>11, <1>12,
     <1>13, <1>14, <1>15, <1>16, <1>17, <1>18, <1>19, <1>20, <1>21, <1>22,
     <1>23, <1>24, <1>25, <1>26, <1>27, <1>28, <1>29
     DEF Next, Api, Turns, Batch, Failure

\* Starting the i-th of a list of calls keeps the types of the batch.
LEMMA StartTypes ==
    ASSUME CallTypes, NEW states \in Seq(Statuses), NEW i \in 1 .. Len(states),
           Reply.n \in Nat, StartCall(i, states)
    PROVE  calls' \in Seq(Statuses) /\ Len(calls') = Len(states)
           /\ at' \in 0 .. Len(calls') /\ pendingCalls' \subseteq Nat \X Nat
<1>1. "started" \in Statuses
  BY DEF Statuses
<1>2. calls' = [states EXCEPT ![i] = "started"]
  BY DEF StartCall
<1>3. calls' \in Seq(Statuses) /\ Len(calls') = Len(states)
  BY <1>1, <1>2
<1>4. CallId(i) \in Nat \X Nat
  BY DEF CallId
<1> QED
  BY <1>3, <1>4 DEF StartCall, CallTypes

\* Changing one call's status keeps the types of the batch.
LEMMA SetCallTypes ==
    ASSUME CallTypes, NEW i \in DOMAIN calls, NEW status \in Statuses
    PROVE  [calls EXCEPT ![i] = status] \in Seq(Statuses)
           /\ Len([calls EXCEPT ![i] = status]) = Len(calls)
BY DEF CallTypes

\* Starting to run what is prepared, or preparing the next call, keeps them.
LEMMA PreparingTypes ==
    ASSUME CallTypes, NEW states \in Seq(Statuses), Len(states) = Len(calls),
           Reply.n \in Nat, AfterPreparing(states)
    PROVE  calls' \in Seq(Statuses) /\ at' \in 0 .. Len(calls')
           /\ pendingCalls' \subseteq Nat \X Nat
<1>1. CASE aborted \/ at = Len(states)
  <2> DEFINE started == [i \in DOMAIN states |->
                           IF states[i] = "prepared" THEN "running" ELSE states[i]]
  <2>1. calls' = started /\ UNCHANGED <<pendingCalls, at>>
    BY <1>1 DEF AfterPreparing
  <2>2. DOMAIN states = 1 .. Len(states) /\ Len(states) \in Nat
    OBVIOUS
  <2>3. started \in [1 .. Len(states) -> Statuses]
    BY <2>2 DEF Statuses
  <2>4. started \in Seq(Statuses) /\ Len(started) = Len(states)
    BY <2>2, <2>3
  <2> HIDE DEF started
  <2> QED
    BY <2>1, <2>4 DEF CallTypes
<1>2. CASE ~(aborted \/ at = Len(states))
  <2>1. at + 1 \in 1 .. Len(states) /\ StartCall(at + 1, states)
    BY <1>2 DEF AfterPreparing, CallTypes
  <2> QED
    BY <2>1, StartTypes
<1> QED
  BY <1>1, <1>2

\* Every step keeps the types of the batch of calls and of the pending calls.
LEMMA CallStep ==
    ASSUME TypeOK, InHand, CallPhase, Next
    PROVE  CallTypes'
<1> USE DEF TypeOK, agentVars, loopVars, batchVars, history
<1>a. pc # "idle" => Reply \in Messages /\ Reply.n \in Nat /\ Reply.k \in Nat
  BY FrontAndLast, KnownMessages DEF InHand, Reply, MessageTypes
<1>b. pc \in {"call_start", "call_end"} => at \in DOMAIN calls
  BY DEF CallPhase, Started, Answering
<1>1. CASE Prompt \/ ContinueSteering \/ ContinueFollowUp \/ ContinueTranscript
  <2>1. UNCHANGED <<calls, at, pendingCalls, orphans>>
    BY <1>1 DEF Prompt, ContinueSteering, ContinueFollowUp, ContinueTranscript, StartRun
  <2> QED
    BY <2>1 DEF CallTypes
<1>2. CASE Steer \/ FollowUp \/ ClearQueues \/ Abort \/ DropFailedReply
  <2>1. UNCHANGED <<calls, at, pendingCalls, orphans>>
    BY <1>2 DEF Steer, FollowUp, ClearQueues, Abort, DropFailedReply
  <2> QED
    BY <2>1 DEF CallTypes
<1>3. CASE Reset
  <2>1. UNCHANGED <<calls, at, orphans>> /\ pendingCalls' = {}
    BY <1>3 DEF Reset
  <2> QED
    BY <2>1 DEF CallTypes
<1>4. CASE FirstTurn \/ PromptStart \/ PromptEnd \/ FirstPoll \/ InjectStart \/ InjectEnd
  <2>1. UNCHANGED <<calls, at, pendingCalls, orphans>>
    BY <1>4 DEF FirstTurn, PromptStart, PromptEnd, FirstPoll, PollSteering, InjectStart, InjectEnd
  <2> QED
    BY <2>1 DEF CallTypes
<1>5. CASE ReplyStart \/ ReplyEnd \/ InterruptedTurn \/ TurnWithoutCalls
  <2>1. UNCHANGED <<calls, at, pendingCalls, orphans>>
    BY <1>5 DEF ReplyStart, ReplyEnd, InterruptedTurn, TurnWithoutCalls, EndTurn
  <2> QED
    BY <2>1 DEF CallTypes
<1>6. CASE PollAfterTurn \/ NextTurn \/ PollFollowUp \/ EndRun
  <2>1. UNCHANGED <<calls, at, pendingCalls, orphans>>
    BY <1>6 DEF PollAfterTurn, PollSteering, NextTurn, PollFollowUp, EndRun
  <2> QED
    BY <2>1 DEF CallTypes
<1>7. CASE Finish \/ ThrowsAgain
  <2>1. calls' = <<>> /\ at' = 0 /\ pendingCalls' = {} /\ UNCHANGED orphans
    BY <1>7 DEF Finish, ThrowsAgain, FinishRun
  <2> QED
    BY <2>1 DEF CallTypes
<1>8. CASE RunTools
  <2> DEFINE todo == [i \in 1 .. Reply.k |-> "todo"]
  <2>1. todo \in Seq(Statuses) /\ Len(todo) = Reply.k
    BY <1>8, <1>a DEF RunTools, Statuses
  <2>2. StartCall(1, todo) /\ Reply.k > 0 /\ Reply.n \in Nat /\ UNCHANGED orphans
    BY <1>8, <1>a DEF RunTools
  <2> HIDE DEF todo
  <2>3. 1 \in 1 .. Len(todo)
    BY <1>8, <1>a, <2>1, <2>2 DEF RunTools
  <2> QED
    BY <2>1, <2>2, <2>3, StartTypes DEF CallTypes
<1>9. CASE AnswerAtOnce \/ RunCall
  <2>1. "immediate" \in Statuses /\ "running" \in Statuses
    BY DEF Statuses
  <2>2. PICK status \in Statuses : calls' = [calls EXCEPT ![at] = status]
    BY <1>9, <2>1 DEF AnswerAtOnce, RunCall
  <2>3. UNCHANGED <<at, orphans>> /\ pendingCalls' \subseteq pendingCalls
    BY <1>9 DEF AnswerAtOnce, RunCall
  <2>4. at \in DOMAIN calls
    BY <1>9, <1>b DEF AnswerAtOnce, RunCall
  <2> QED
    BY <2>2, <2>3, <2>4, SetCallTypes DEF CallTypes
<1>10. CASE Prepare
  <2> DEFINE states == [calls EXCEPT ![at] = "prepared"]
  <2>1. at \in DOMAIN calls /\ Reply.n \in Nat /\ "prepared" \in Statuses
    BY <1>10, <1>a, <1>b DEF Prepare, Statuses
  <2>2. states \in Seq(Statuses) /\ Len(states) = Len(calls)
    BY <2>1, SetCallTypes
  <2>3. AfterPreparing(states) /\ UNCHANGED orphans
    BY <1>10 DEF Prepare
  <2> HIDE DEF states
  <2> QED
    BY <2>1, <2>2, <2>3, PreparingTypes DEF CallTypes
<1>11. CASE PrepareNext
  <2>1. AfterPreparing(calls) /\ UNCHANGED orphans /\ Reply.n \in Nat
    BY <1>11, <1>a DEF PrepareNext
  <2>2. calls \in Seq(Statuses)
    BY DEF CallTypes
  <2> QED
    BY <2>1, <2>2, PreparingTypes DEF CallTypes
<1>12. CASE \E i \in DOMAIN calls : FinishCall(i) \/ CallEnded(i)
  <2>1. PICK i \in DOMAIN calls : FinishCall(i) \/ CallEnded(i)
    BY <1>12
  <2>2. "ending" \in Statuses /\ "done" \in Statuses
    BY DEF Statuses
  <2>3. PICK status \in Statuses : calls' = [calls EXCEPT ![i] = status]
    BY <2>1, <2>2 DEF FinishCall, CallEnded
  <2>4. UNCHANGED <<at, orphans>> /\ pendingCalls' \subseteq pendingCalls
    BY <2>1 DEF FinishCall, CallEnded
  <2> QED
    BY <2>3, <2>4, SetCallTypes DEF CallTypes
<1>13. CASE FirstResult
  <2>1. UNCHANGED <<calls, pendingCalls, orphans>>
        /\ at' = IF mode = "parallel" THEN 1 ELSE at
    BY <1>13 DEF FirstResult, AnnounceResult
  <2>2. mode = "parallel" => Len(calls) >= 1
    BY <1>13 DEF FirstResult, CallPhase, Running, CallTypes
  <2> QED
    BY <2>1, <2>2 DEF CallTypes
<1>14. CASE ResultEnd
  <2>1. UNCHANGED <<calls, at, pendingCalls, orphans>>
    BY <1>14 DEF ResultEnd
  <2> QED
    BY <2>1 DEF CallTypes
<1>15. CASE NextResult
  <2>1. UNCHANGED <<calls, pendingCalls, orphans>> /\ at' = at + 1 /\ at < Reached
    BY <1>15 DEF NextResult, AnnounceResult
  <2> QED
    BY <2>1, ReachedType DEF CallTypes
<1>16. CASE NextCall
  <2>1. StartCall(at + 1, calls) /\ at < Len(calls) /\ UNCHANGED orphans
        /\ Reply.n \in Nat
    BY <1>16, <1>a DEF NextCall
  <2>2. calls \in Seq(Statuses) /\ at + 1 \in 1 .. Len(calls)
    BY <2>1 DEF CallTypes
  <2> QED
    BY <2>1, <2>2, StartTypes DEF CallTypes
<1>17. CASE EndBatch
  <2>1. UNCHANGED <<calls, at, pendingCalls, orphans>>
    BY <1>17 DEF EndBatch, EndTurn
  <2> QED
    BY <2>1 DEF CallTypes
<1>18. CASE ListenerThrows \/ ProviderThrows
  <2>1. calls' = <<>> /\ at' = 0 /\ UNCHANGED pendingCalls
    BY <1>18 DEF ListenerThrows, ProviderThrows, RunFails
  <2>2. \A i \in DOMAIN calls : pc = "running" => CallId(i) \in Nat \X Nat
    BY <1>a DEF CallId, CallTypes
  <2>3. orphans' \subseteq Nat \X Nat
    BY <1>18, <2>2 DEF ListenerThrows, ProviderThrows, RunFails, CallTypes
  <2> QED
    BY <2>1, <2>3 DEF CallTypes
<1>19. CASE FailEnd \/ FailTurnEnd \/ FailRunEnd
  <2>1. UNCHANGED <<calls, at, pendingCalls, orphans>>
    BY <1>19 DEF FailEnd, FailTurnEnd, FailRunEnd, EndTurn
  <2> QED
    BY <2>1 DEF CallTypes
<1>20. CASE \E call \in orphans : OrphanEnds(call)
  <2>1. UNCHANGED <<calls, at>> /\ pendingCalls' \subseteq pendingCalls
        /\ orphans' \subseteq orphans
    BY <1>20 DEF OrphanEnds
  <2> QED
    BY <2>1 DEF CallTypes
<1> QED
  BY <1>1, <1>2, <1>3, <1>4, <1>5, <1>6, <1>7, <1>8, <1>9, <1>10, <1>11, <1>12,
     <1>13, <1>14, <1>15, <1>16, <1>17, <1>18, <1>19, <1>20
     DEF Next, Api, Turns, Batch, Failure

\* Every step keeps the types of the control state and of the log of events.
LEMMA ControlStep ==
    ASSUME TypeOK, Next
    PROVE  ControlTypes' /\ log' \in Seq(Events)
<1> USE DEF TypeOK, ControlTypes, PCs, Events, Emit,
            agentVars, loopVars, batchVars, history
<1>1. CASE Prompt \/ ContinueSteering \/ ContinueFollowUp \/ ContinueTranscript
  <2>1. pc' = "agent_start" /\ log' = <<"agent_start">> /\ aborted' = FALSE
        /\ skipPoll' \in BOOLEAN /\ hasMore' = TRUE /\ UNCHANGED mode
    BY <1>1 DEF Prompt, ContinueSteering, ContinueFollowUp, ContinueTranscript, StartRun
  <2>2. pc' \in PCs /\ log' \in Seq(Events)
    BY <2>1
  <2>3. mode' \in {"sequential", "parallel"}
    BY <2>1
  <2> QED
    BY <2>1, <2>2, <2>3, Zenon
<1>2. CASE Steer \/ FollowUp \/ ClearQueues \/ Abort \/ Reset \/ DropFailedReply
  <2>1. UNCHANGED <<pc, log, mode, skipPoll, hasMore>>
    BY <1>2 DEF Steer, FollowUp, ClearQueues, Abort, Reset, DropFailedReply
  <2>2. aborted' = aborted \/ aborted' = TRUE
    BY <1>2 DEF Steer, FollowUp, ClearQueues, Abort, Reset, DropFailedReply
  <2> QED
    BY <2>1, <2>2
<1>3. CASE FirstTurn \/ PromptStart \/ PromptEnd \/ InjectStart \/ InjectEnd
  <2>1. pc' \in PCs
    BY <1>3 DEF FirstTurn, PromptStart, PromptEnd, InjectStart, InjectEnd
  <2>2. log' \in {Append(log, e) : e \in Events}
    BY <1>3 DEF FirstTurn, PromptStart, PromptEnd, InjectStart, InjectEnd
  <2>3. UNCHANGED <<mode, aborted, skipPoll, hasMore>>
    BY <1>3 DEF FirstTurn, PromptStart, PromptEnd, InjectStart, InjectEnd
  <2> QED
    BY <2>1, <2>2, <2>3
<1>4. CASE FirstPoll \/ PollAfterTurn
  BY <1>4 DEF FirstPoll, PollAfterTurn, PollSteering
<1>5. CASE ReplyStart \/ ReplyEnd
  <2>1. /\ pc' \in {"reply_start", "reply_end"}
        /\ log' \in {Append(log, "message_start"), Append(log, "message_end")}
    BY <1>5 DEF ReplyStart, ReplyEnd
  <2>2. UNCHANGED <<mode, aborted, skipPoll, hasMore>>
    BY <1>5 DEF ReplyStart, ReplyEnd
  <2> QED
    BY <2>1, <2>2
<1>6. CASE InterruptedTurn \/ TurnWithoutCalls
  <2>1. pc' \in {"turn_end", "last_turn_end"} /\ log' = Append(log, "turn_end")
    BY <1>6 DEF InterruptedTurn, TurnWithoutCalls, EndTurn
  <2>2. UNCHANGED <<mode, aborted, skipPoll>> /\ hasMore' \in BOOLEAN
    BY <1>6 DEF InterruptedTurn, TurnWithoutCalls, EndTurn
  <2> QED
    BY <2>1, <2>2
<1>7. CASE NextTurn \/ PollFollowUp \/ EndRun
  <2>1. pc' \in {pc, "turn_start", "agent_end"}
    BY <1>7 DEF NextTurn, PollFollowUp, EndRun
  <2>2. log' \in {log, Append(log, "turn_start"), Append(log, "agent_end")}
    BY <1>7 DEF NextTurn, PollFollowUp, EndRun
  <2>3. UNCHANGED <<mode, aborted, skipPoll>> /\ hasMore' \in {TRUE, hasMore}
    BY <1>7 DEF NextTurn, PollFollowUp, EndRun
  <2>4. pc' \in PCs /\ log' \in Seq(Events)
    BY <2>1, <2>2
  <2>5. hasMore' \in BOOLEAN
    BY <2>3
  <2> QED
    BY <2>3, <2>4, <2>5, Zenon
<1>8. CASE Finish \/ ThrowsAgain
  BY <1>8 DEF Finish, ThrowsAgain, FinishRun
<1>9. CASE RunTools
  BY <1>9, ScenariosAssumption DEF RunTools, StartCall, Modes
<1>10. CASE AnswerAtOnce \/ RunCall
  <2>1. pc' \in PCs
    BY <1>10 DEF AnswerAtOnce, RunCall
  <2>2. log' \in {log} \cup {Append(log, e) : e \in Events}
    BY <1>10 DEF AnswerAtOnce, RunCall
  <2>3. UNCHANGED <<mode, aborted, skipPoll, hasMore>>
    BY <1>10 DEF AnswerAtOnce, RunCall
  <2> QED
    BY <2>1, <2>2, <2>3
<1>11. CASE Prepare \/ PrepareNext
  <2>1. pc' \in PCs
    BY <1>11 DEF Prepare, PrepareNext, AfterPreparing, StartCall
  <2>2. log' \in {log} \cup {Append(log, e) : e \in Events}
    BY <1>11 DEF Prepare, PrepareNext, AfterPreparing, StartCall
  <2>3. UNCHANGED <<mode, aborted, skipPoll, hasMore>>
    BY <1>11 DEF Prepare, PrepareNext, AfterPreparing, StartCall
  <2> QED
    BY <2>1, <2>2, <2>3
<1>12. CASE \E i \in DOMAIN calls : FinishCall(i) \/ CallEnded(i)
  <2>1. pc' \in PCs
    BY <1>12 DEF FinishCall, CallEnded
  <2>2. log' \in {log} \cup {Append(log, e) : e \in Events}
    BY <1>12 DEF FinishCall, CallEnded
  <2>3. UNCHANGED <<mode, aborted, skipPoll, hasMore>>
    BY <1>12 DEF FinishCall, CallEnded
  <2> QED
    BY <2>1, <2>2, <2>3
<1>13. CASE FirstResult \/ ResultEnd \/ NextResult
  <2>1. pc' \in PCs
    BY <1>13 DEF FirstResult, ResultEnd, NextResult, AnnounceResult
  <2>2. log' \in {log} \cup {Append(log, e) : e \in Events}
    BY <1>13 DEF FirstResult, ResultEnd, NextResult, AnnounceResult
  <2>3. UNCHANGED <<mode, aborted, skipPoll, hasMore>>
    BY <1>13 DEF FirstResult, ResultEnd, NextResult, AnnounceResult
  <2> QED
    BY <2>1, <2>2, <2>3
<1>14. CASE NextCall
  <2>1. pc' \in PCs
    BY <1>14 DEF NextCall, StartCall
  <2>2. log' \in {log} \cup {Append(log, e) : e \in Events}
    BY <1>14 DEF NextCall, StartCall
  <2>3. UNCHANGED <<mode, aborted, skipPoll, hasMore>>
    BY <1>14 DEF NextCall, StartCall
  <2> QED
    BY <2>1, <2>2, <2>3
<1>15. CASE EndBatch
  <2>1. hasMore' \in BOOLEAN
    BY <1>15 DEF EndBatch
  <2> QED
    BY <1>15, <2>1 DEF EndBatch, EndTurn
<1>16. CASE ListenerThrows \/ ProviderThrows
  BY <1>16 DEF ListenerThrows, ProviderThrows, RunFails
<1>17. CASE FailEnd \/ FailTurnEnd \/ FailRunEnd
  <2>1. pc' \in {"fail_end", "fail_turn_end", "fail_agent_end"}
    BY <1>17 DEF FailEnd, FailTurnEnd, FailRunEnd, EndTurn
  <2>2. log' \in Seq(Events)
    BY <1>17 DEF FailEnd, FailTurnEnd, FailRunEnd, EndTurn
  <2>3. UNCHANGED <<mode, aborted, skipPoll, hasMore>>
    BY <1>17 DEF FailEnd, FailTurnEnd, FailRunEnd, EndTurn
  <2> QED
    BY <2>1, <2>2, <2>3
<1>18. CASE \E call \in orphans : OrphanEnds(call)
  BY <1>18 DEF OrphanEnds
<1> QED
  BY <1>1, <1>2, <1>3, <1>4, <1>5, <1>6, <1>7, <1>8, <1>9, <1>10, <1>11, <1>12,
     <1>13, <1>14, <1>15, <1>16, <1>17, <1>18
     DEF Next, Api, Turns, Batch, Failure

\* A list that an action appends to, or extends, is not empty afterwards.
LEMMA InHandStep ==
    ASSUME TypeOK, InHand, Next
    PROVE  InHand'
<1> USE DEF InHand, agentVars, loopVars, batchVars, history
<1>t. context \in Seq(Messages) /\ messages \in Seq(Messages)
      /\ steering \in Seq(UserMessages) /\ followUp \in Seq(UserMessages)
  BY DEF TypeOK, MessageTypes
<1>1. CASE Prompt
  <2>1. context' = messages \o <<User("prompt", sent'["prompt"])>> /\ pc' = "agent_start"
    BY <1>1 DEF Prompt, StartRun
  <2> QED
    BY <1>t, <2>1
<1>2. CASE ContinueSteering \/ ContinueFollowUp \/ ContinueTranscript
  <2>1. messages # <<>> /\ pc' = "agent_start"
    BY <1>2 DEF ContinueSteering, ContinueFollowUp, ContinueTranscript, StartRun, EndsWithReply
  <2>2. Drained(steering, SteeringMode) \in Seq(Messages)
        /\ Drained(followUp, FollowUpMode) \in Seq(Messages)
    BY <1>t, QueueTypes, KnownMessages
  <2>3. \/ context' = messages \o Drained(steering, SteeringMode)
        \/ context' = messages \o Drained(followUp, FollowUpMode)
        \/ context' = messages \o <<>>
    BY <1>2 DEF ContinueSteering, ContinueFollowUp, ContinueTranscript, StartRun
  <2> QED
    BY <1>t, <2>1, <2>2, <2>3
<1>3. CASE Steer \/ FollowUp \/ ClearQueues \/ Abort \/ Reset \/ DropFailedReply
  BY <1>3 DEF Steer, FollowUp, ClearQueues, Abort, Reset, DropFailedReply
<1>4. CASE FirstTurn \/ PromptStart \/ PromptEnd \/ InjectStart
  BY <1>4 DEF FirstTurn, PromptStart, PromptEnd, InjectStart
<1>5. CASE FirstPoll \/ PollAfterTurn
  BY <1>5 DEF FirstPoll, PollAfterTurn, PollSteering
<1>6. CASE InjectEnd \/ ReplyStart
  BY <1>6, <1>t DEF InjectEnd, ReplyStart
<1>7. CASE ReplyEnd
  <2>1. Front(context) \in Seq(Messages)
    BY <1>7, <1>t, FrontAndLast DEF ReplyEnd
  <2> QED
    BY <1>7, <2>1 DEF ReplyEnd
<1>8. CASE InterruptedTurn \/ TurnWithoutCalls
  BY <1>8 DEF InterruptedTurn, TurnWithoutCalls, EndTurn
<1>9. CASE NextTurn \/ PollFollowUp \/ EndRun
  BY <1>9 DEF NextTurn, PollFollowUp, WouldStop, EndRun
<1>10. CASE Finish \/ ThrowsAgain
  BY <1>10 DEF Finish, ThrowsAgain, FinishRun
<1>11. CASE RunTools \/ NextCall
  BY <1>11 DEF RunTools, NextCall, StartCall
<1>12. CASE AnswerAtOnce \/ RunCall \/ Prepare \/ PrepareNext
  BY <1>12 DEF AnswerAtOnce, RunCall, Prepare, PrepareNext, AfterPreparing, StartCall
<1>13. CASE \E i \in DOMAIN calls : FinishCall(i) \/ CallEnded(i)
  BY <1>13 DEF FinishCall, CallEnded
<1>14. CASE FirstResult \/ ResultEnd \/ NextResult
  BY <1>14 DEF FirstResult, ResultEnd, NextResult, AnnounceResult
<1>15. CASE EndBatch
  <2> DEFINE results == [i \in 1 .. Reached |-> Result(Reply.n, i)]
  <2>1. context # <<>> /\ context' = context \o results /\ pc' = "turn_end"
    BY <1>15 DEF EndBatch, EndTurn
  <2>2. Reached \in Nat /\ Reply.n \in Nat
    BY <1>t, <2>1, ReachedType, FrontAndLast, KnownMessages DEF TypeOK, CallTypes, Reply
  <2>3. results \in Seq(Messages)
    BY <2>2, KnownMessages
  <2> HIDE DEF results
  <2> QED
    BY <1>t, <2>1, <2>3
<1>16. CASE ListenerThrows \/ ProviderThrows
  BY <1>16 DEF ListenerThrows, ProviderThrows, RunFails
<1>17. CASE FailEnd \/ FailTurnEnd \/ FailRunEnd
  BY <1>17 DEF FailEnd, FailTurnEnd, FailRunEnd, EndTurn
<1>18. CASE \E call \in orphans : OrphanEnds(call)
  BY <1>18 DEF OrphanEnds
<1> QED
  BY <1>1, <1>2, <1>3, <1>4, <1>5, <1>6, <1>7, <1>8, <1>9, <1>10, <1>11, <1>12,
     <1>13, <1>14, <1>15, <1>16, <1>17, <1>18
     DEF Next, Api, Turns, Batch, Failure

(***************************************************************************)
(* The calls of a batch.                                                   *)
(***************************************************************************)

\* Between batches no call is open, and outside a batch it stays so.
LEMMA StaysClosed ==
    ASSUME CallPhase, pc \notin InBatch, pc' \notin InBatch,
           pc' \in Failing \/ pc \notin Failing,
           UNCHANGED calls, pendingCalls' \subseteq pendingCalls
    PROVE  CallPhase'
<1>1. NoneOpen /\ NoneOpen'
  BY DEF CallPhase, Closed, NoneOpen, IsOpen
<1>2. pc' \notin Failing => pendingCalls' = {}
  BY <1>1 DEF CallPhase, PendingIsOpen, NoneOpen
<1>3. PendingIsOpen'
  BY <1>2 DEF PendingIsOpen
<1>4. Started' /\ Answering' /\ Running' /\ Closed'
  BY <1>1 DEF Started, Answering, Running, Closed, InBatch
<1> QED
  BY <1>3, <1>4 DEF CallPhase

\* A step that leaves the batch alone opens no call.
LEMMA SameBatch ==
    ASSUME CallPhase, UNCHANGED <<pc, mode, calls, at, context>>,
           pendingCalls' \subseteq pendingCalls
    PROVE  CallPhase'
<1>1. \A i \in DOMAIN calls : CallId(i)' = CallId(i) /\ (IsOpen(i)' <=> IsOpen(i))
  BY DEF CallId, Reply, IsOpen
<1>2. PendingIsOpen'
  BY <1>1 DEF CallPhase, PendingIsOpen
<1>3. Started' /\ Answering' /\ Running' /\ Closed'
  BY DEF CallPhase, Started, Answering, Running, Closed, NoneOpen, IsOpen
<1> QED
  BY <1>2, <1>3 DEF CallPhase

\* Starting the next call, when nothing but the calls prepared for a parallel
\* batch is open.
LEMMA StartPhase ==
    ASSUME NEW states \in Seq(Statuses), NEW i \in 1 .. Len(states),
           StartCall(i, states), UNCHANGED context,
           \A c \in pendingCalls : \E j \in 1 .. Len(states) :
               states[j] \in {"started", "prepared", "running"} /\ c = CallId(j),
           \A j \in 1 .. Len(states) : states[j] # "started",
           mode' = "sequential" => \A j \in 1 .. Len(states) :
               states[j] \notin {"started", "prepared", "running"}
    PROVE  CallPhase'
<1>1. /\ calls' = [states EXCEPT ![i] = "started"] /\ at' = i /\ pc' = "call_start"
      /\ pendingCalls' = pendingCalls \cup {CallId(i)}
  BY DEF StartCall
<1>2. DOMAIN calls' = 1 .. Len(states) /\ calls'[i] = "started"
      /\ \A j \in 1 .. Len(states) : j # i => calls'[j] = states[j]
  BY <1>1
<1>3. \A j : CallId(j)' = CallId(j)
  BY DEF CallId, Reply
<1>4. PendingIsOpen'
  BY <1>1, <1>2, <1>3 DEF PendingIsOpen, IsOpen
<1>5. Started'
  BY <1>1, <1>2 DEF Started, IsOpen
<1>6. Answering' /\ Running' /\ Closed'
  BY <1>1 DEF Answering, Running, Closed, InBatch
<1> QED
  BY <1>4, <1>5, <1>6 DEF CallPhase

\* A parallel batch goes on: it prepares its next call, or runs what it has.
LEMMA PreparingPhase ==
    ASSUME CallTypes, NEW states \in Seq(Statuses), Len(states) = Len(calls),
           AfterPreparing(states), UNCHANGED <<context, mode>>,
           mode = "parallel", at \in DOMAIN calls,
           \A c \in pendingCalls : \E j \in 1 .. Len(states) :
               states[j] \in {"started", "prepared", "running"} /\ c = CallId(j),
           \A j \in 1 .. Len(states) : states[j] # "started"
    PROVE  CallPhase'
<1>1. CASE aborted \/ at = Len(states)
  <2>1. pc' = "running" /\ UNCHANGED <<pendingCalls, at>>
        /\ calls' = [j \in DOMAIN states |->
                        IF states[j] = "prepared" THEN "running" ELSE states[j]]
    BY <1>1 DEF AfterPreparing
  <2>2. DOMAIN calls' = 1 .. Len(states) /\ DOMAIN calls = 1 .. Len(states)
        /\ \A j \in 1 .. Len(states) :
              calls'[j] = IF states[j] = "prepared" THEN "running" ELSE states[j]
    BY <2>1 DEF CallTypes
  <2>3. \A j : CallId(j)' = CallId(j)
    BY DEF CallId, Reply
  <2>4. PendingIsOpen'
    BY <2>1, <2>2, <2>3 DEF PendingIsOpen, IsOpen
  <2>5. Running'
    BY <2>1, <2>2 DEF Running
  <2>6. Started' /\ Answering' /\ Closed'
    BY <2>1 DEF Started, Answering, Closed, InBatch
  <2> QED
    BY <2>4, <2>5, <2>6 DEF CallPhase
<1>2. CASE ~(aborted \/ at = Len(states))
  <2>1. at + 1 \in 1 .. Len(states) /\ StartCall(at + 1, states)
    BY <1>2 DEF AfterPreparing, CallTypes
  <2> QED
    BY <2>1, StartPhase
<1> QED
  BY <1>1, <1>2

\* Every step keeps the relation between the program point and the open calls:
\* the heart of the proof that a batch is closed before the loop goes on.
LEMMA PhaseStep ==
    ASSUME TypeOK, InHand, CallPhase, Next
    PROVE  CallPhase'
<1> USE DEF TypeOK, agentVars, loopVars, batchVars, history
<1>t. calls \in Seq(Statuses) /\ Len(calls) \in Nat /\ DOMAIN calls = 1 .. Len(calls)
      /\ at \in 0 .. Len(calls) /\ CallTypes
  BY DEF CallTypes
<1>u. mode \in {"sequential", "parallel"}
  BY DEF ControlTypes
<1>o. pc \notin Failing =>
        \A c \in pendingCalls : \E i \in DOMAIN calls : IsOpen(i) /\ c = CallId(i)
  BY DEF CallPhase, PendingIsOpen
<1>1. CASE Prompt \/ ContinueSteering \/ ContinueFollowUp \/ ContinueTranscript
  <2>1. pc = "idle" /\ pc' = "agent_start" /\ UNCHANGED <<calls, pendingCalls>>
    BY <1>1 DEF Prompt, ContinueSteering, ContinueFollowUp, ContinueTranscript, StartRun
  <2> QED
    BY <2>1, StaysClosed DEF InBatch, Failing
<1>2. CASE Steer \/ FollowUp \/ ClearQueues \/ Abort \/ Reset \/ DropFailedReply
  <2>1. UNCHANGED <<pc, mode, calls, at, context>> /\ pendingCalls' \subseteq pendingCalls
    BY <1>2 DEF Steer, FollowUp, ClearQueues, Abort, Reset, DropFailedReply
  <2> QED
    BY <2>1, SameBatch
<1>3. CASE FirstTurn \/ PromptStart \/ PromptEnd \/ FirstPoll \/ InjectStart \/ InjectEnd
  <2>1. pc \notin InBatch \cup Failing /\ pc' \notin InBatch \cup Failing
    BY <1>3 DEF FirstTurn, PromptStart, PromptEnd, FirstPoll, PollSteering,
                InjectStart, InjectEnd, InBatch, Failing
  <2>2. UNCHANGED <<calls, pendingCalls>>
    BY <1>3 DEF FirstTurn, PromptStart, PromptEnd, FirstPoll, PollSteering,
                InjectStart, InjectEnd
  <2> QED
    BY <2>1, <2>2, StaysClosed
<1>4. CASE ReplyStart \/ ReplyEnd \/ InterruptedTurn \/ TurnWithoutCalls
  <2>1. pc \notin InBatch \cup Failing /\ pc' \notin InBatch \cup Failing
    BY <1>4 DEF ReplyStart, ReadyToStream, ReplyEnd, InterruptedTurn,
                TurnWithoutCalls, EndTurn, InBatch, Failing
  <2>2. UNCHANGED <<calls, pendingCalls>>
    BY <1>4 DEF ReplyStart, ReplyEnd, InterruptedTurn, TurnWithoutCalls, EndTurn
  <2> QED
    BY <2>1, <2>2, StaysClosed
<1>5. CASE PollAfterTurn \/ NextTurn \/ PollFollowUp \/ EndRun
  <2>1. pc \notin InBatch \cup Failing /\ pc' \notin InBatch \cup Failing
    BY <1>5 DEF PollAfterTurn, PollSteering, NextTurn, PollFollowUp, WouldStop,
                EndRun, InBatch, Failing
  <2>2. UNCHANGED <<calls, pendingCalls>>
    BY <1>5 DEF PollAfterTurn, PollSteering, NextTurn, PollFollowUp, EndRun
  <2> QED
    BY <2>1, <2>2, StaysClosed
<1>6. CASE Finish \/ ThrowsAgain
  <2>1. pc' = "idle" /\ calls' = <<>> /\ pendingCalls' = {}
    BY <1>6 DEF Finish, ThrowsAgain, FinishRun
  <2> QED
    BY <2>1 DEF CallPhase, PendingIsOpen, Started, Answering, Running, Closed, NoneOpen
<1>7. CASE RunTools
  <2> DEFINE todo == [i \in 1 .. Reply.k |-> "todo"]
  <2>1. pc = "reply_end" /\ StartCall(1, todo) /\ UNCHANGED context /\ Reply.k > 0
    BY <1>7 DEF RunTools
  <2>2. Reply.k \in Nat
    BY <2>1, FrontAndLast, KnownMessages DEF InHand, Reply, MessageTypes
  <2>3. todo \in Seq(Statuses) /\ Len(todo) = Reply.k /\ 1 \in 1 .. Len(todo)
    BY <2>1, <2>2 DEF Statuses
  <2>4. pendingCalls = {}
    BY <2>1, <1>o DEF CallPhase, Closed, NoneOpen, InBatch, Failing
  <2>5. \A j \in 1 .. Len(todo) : todo[j] = "todo"
    BY <2>3
  <2> HIDE DEF todo
  <2> QED
    BY <2>1, <2>3, <2>4, <2>5, StartPhase
<1>8. CASE AnswerAtOnce
  <2>1. pc = "call_start" /\ pc' = "call_end" /\ UNCHANGED <<at, mode, context>>
        /\ calls' = [calls EXCEPT ![at] = "immediate"]
        /\ pendingCalls' = pendingCalls \ {CallId(at)}
    BY <1>8 DEF AnswerAtOnce
  <2>2. at \in DOMAIN calls
        /\ (\A i \in DOMAIN calls : calls[i] = "started" => i = at)
        /\ (mode = "sequential" => \A i \in DOMAIN calls : IsOpen(i) => i = at)
    BY <2>1 DEF CallPhase, Started
  <2>3. DOMAIN calls' = DOMAIN calls /\ calls'[at] = "immediate"
        /\ \A i \in DOMAIN calls : i # at => calls'[i] = calls[i]
    BY <2>1, <2>2, <1>t
  <2>4. \A i : CallId(i)' = CallId(i)
    BY <2>1 DEF CallId, Reply
  <2>5. PendingIsOpen'
    BY <1>o, <2>1, <2>3, <2>4 DEF PendingIsOpen, IsOpen, Failing
  <2>6. Answering'
    BY <2>1, <2>2, <2>3 DEF Answering, NoneOpen, IsOpen
  <2>7. Started' /\ Running' /\ Closed'
    BY <2>1 DEF Started, Running, Closed, InBatch
  <2> QED
    BY <2>5, <2>6, <2>7 DEF CallPhase
<1>9. CASE RunCall
  <2>1. pc = "call_start" /\ mode = "sequential" /\ pc' = "running"
        /\ calls' = [calls EXCEPT ![at] = "running"]
        /\ UNCHANGED <<at, mode, context, pendingCalls>>
    BY <1>9 DEF RunCall
  <2>2. at \in DOMAIN calls /\ \A i \in DOMAIN calls : IsOpen(i) => i = at
    BY <2>1 DEF CallPhase, Started
  <2>3. DOMAIN calls' = DOMAIN calls /\ calls'[at] = "running"
        /\ \A i \in DOMAIN calls : i # at => calls'[i] = calls[i]
    BY <2>1, <2>2, <1>t
  <2>4. \A i : CallId(i)' = CallId(i)
    BY <2>1 DEF CallId, Reply
  <2>5. PendingIsOpen'
    BY <1>o, <2>1, <2>2, <2>3, <2>4 DEF PendingIsOpen, IsOpen, Failing
  <2>6. Running'
    BY <2>1, <2>2, <2>3 DEF Running, IsOpen
  <2>7. Started' /\ Answering' /\ Closed'
    BY <2>1 DEF Started, Answering, Closed, InBatch
  <2> QED
    BY <2>5, <2>6, <2>7 DEF CallPhase
<1>10. CASE Prepare
  <2> DEFINE states == [calls EXCEPT ![at] = "prepared"]
  <2>1. pc = "call_start" /\ mode = "parallel" /\ AfterPreparing(states)
        /\ UNCHANGED <<context, mode>>
    BY <1>10 DEF Prepare
  <2>2. at \in DOMAIN calls /\ \A i \in DOMAIN calls : calls[i] = "started" => i = at
    BY <2>1 DEF CallPhase, Started
  <2>3. states \in Seq(Statuses) /\ Len(states) = Len(calls)
    BY <1>t, <2>2, SetCallTypes DEF Statuses
  <2>4. states[at] = "prepared"
        /\ \A j \in 1 .. Len(states) : j # at => states[j] = calls[j]
    BY <1>t, <2>2, <2>3
  <2> HIDE DEF states
  <2>5. \A j \in 1 .. Len(states) : states[j] # "started"
    BY <1>t, <2>2, <2>3, <2>4
  <2>6. \A c \in pendingCalls : \E j \in 1 .. Len(states) :
            states[j] \in {"started", "prepared", "running"} /\ c = CallId(j)
    BY <1>o, <1>t, <2>1, <2>3, <2>4 DEF IsOpen, Failing
  <2> QED
    BY <1>t, <2>1, <2>2, <2>3, <2>5, <2>6, PreparingPhase
<1>11. CASE PrepareNext
  <2>1. pc = "call_end" /\ mode = "parallel" /\ AfterPreparing(calls)
        /\ UNCHANGED <<context, mode>>
    BY <1>11 DEF PrepareNext
  <2>2. at \in DOMAIN calls /\ \A i \in DOMAIN calls : calls[i] # "started"
    BY <2>1 DEF CallPhase, Answering
  <2>3. \A c \in pendingCalls : \E j \in 1 .. Len(calls) :
            calls[j] \in {"started", "prepared", "running"} /\ c = CallId(j)
    BY <1>o, <1>t, <2>1 DEF IsOpen, Failing
  <2> QED
    BY <1>t, <2>1, <2>2, <2>3, PreparingPhase
<1>12. CASE \E i \in DOMAIN calls : FinishCall(i) \/ CallEnded(i)
  <2>1. PICK i \in DOMAIN calls : FinishCall(i) \/ CallEnded(i)
    BY <1>12
  <2>2. pc = "running" /\ UNCHANGED <<pc, at, mode, context>>
    BY <2>1 DEF FinishCall, CallEnded
  <2>3. \/ /\ calls' = [calls EXCEPT ![i] = "ending"]
           /\ pendingCalls' = pendingCalls \ {CallId(i)}
        \/ /\ calls[i] = "ending"
           /\ calls' = [calls EXCEPT ![i] = "done"]
           /\ UNCHANGED pendingCalls
    BY <2>1 DEF FinishCall, CallEnded
  <2>4. DOMAIN calls' = DOMAIN calls /\ calls'[i] \in {"ending", "done"}
        /\ \A j \in DOMAIN calls : j # i => calls'[j] = calls[j]
    BY <2>3, <1>t
  <2>5. \A c \in pendingCalls' : c \in pendingCalls /\ (c = CallId(i) => ~IsOpen(i))
    BY <2>3 DEF IsOpen
  <2>6. \A j : CallId(j)' = CallId(j)
    BY <2>2 DEF CallId, Reply
  <2>7. PendingIsOpen'
    BY <1>o, <2>2, <2>4, <2>5, <2>6 DEF PendingIsOpen, IsOpen, Failing
  <2>8. Running'
    BY <2>2, <2>4 DEF CallPhase, Running
  <2>9. Started' /\ Answering' /\ Closed'
    BY <2>2 DEF Started, Answering, Closed, InBatch
  <2> QED
    BY <2>7, <2>8, <2>9 DEF CallPhase
<1>13. CASE FirstResult
  <2>1. pc' = "result_start" /\ UNCHANGED <<mode, calls, context, pendingCalls>>
    BY <1>13 DEF FirstResult, AnnounceResult
  <2>2. NoneOpen /\ pc \notin Failing
    BY <1>13, <1>t DEF FirstResult, NoneRunning, CallPhase, Running, Answering,
                       NoneOpen, IsOpen, Failing
  <2>3. pendingCalls = {}
    BY <1>o, <2>2 DEF NoneOpen
  <2>4. NoneOpen'
    BY <2>1, <2>2 DEF NoneOpen, IsOpen
  <2> QED
    BY <2>1, <2>3, <2>4
       DEF CallPhase, PendingIsOpen, Started, Answering, Running, Closed
<1>14. CASE ResultEnd \/ NextResult
  <2>1. pc \notin InBatch \cup Failing /\ pc' \notin InBatch \cup Failing
    BY <1>14 DEF ResultEnd, NextResult, AnnounceResult, InBatch, Failing
  <2>2. UNCHANGED <<calls, pendingCalls>>
    BY <1>14 DEF ResultEnd, NextResult, AnnounceResult
  <2> QED
    BY <2>1, <2>2, StaysClosed
<1>15. CASE NextCall
  <2>1. pc = "result_end" /\ StartCall(at + 1, calls) /\ at < Len(calls)
        /\ UNCHANGED context
    BY <1>15 DEF NextCall
  <2>2. NoneOpen
    BY <2>1 DEF CallPhase, Closed, InBatch
  <2>3. pendingCalls = {} /\ at + 1 \in 1 .. Len(calls)
    BY <1>o, <1>t, <2>1, <2>2 DEF NoneOpen, Failing
  <2>4. \A j \in 1 .. Len(calls) : calls[j] \notin {"started", "prepared", "running"}
    BY <1>t, <2>2 DEF NoneOpen, IsOpen
  <2> QED
    BY <1>t, <2>1, <2>3, <2>4, StartPhase
<1>16. CASE EndBatch
  <2>1. pc = "result_end" /\ pc' = "turn_end" /\ UNCHANGED <<calls, pendingCalls>>
    BY <1>16 DEF EndBatch, EndTurn
  <2> QED
    BY <2>1, StaysClosed DEF InBatch, Failing
<1>17. CASE ListenerThrows \/ ProviderThrows
  <2>1. pc' = "fail_start" /\ calls' = <<>>
    BY <1>17 DEF ListenerThrows, ProviderThrows, RunFails
  <2> QED
    BY <2>1 DEF CallPhase, PendingIsOpen, Started, Answering, Running, Closed,
                NoneOpen, Failing
<1>18. CASE FailEnd \/ FailTurnEnd \/ FailRunEnd
  <2>1. pc \in Failing /\ pc' \in Failing /\ UNCHANGED <<calls, pendingCalls>>
    BY <1>18 DEF FailEnd, FailTurnEnd, FailRunEnd, EndTurn, Failing
  <2>2. pc \notin InBatch /\ pc' \notin InBatch
    BY <2>1 DEF InBatch, Failing
  <2> QED
    BY <2>1, <2>2, StaysClosed
<1>19. CASE \E call \in orphans : OrphanEnds(call)
  <2>1. UNCHANGED <<pc, mode, calls, at, context>> /\ pendingCalls' \subseteq pendingCalls
    BY <1>19 DEF OrphanEnds
  <2> QED
    BY <2>1, SameBatch
<1> QED
  BY <1>1, <1>2, <1>3, <1>4, <1>5, <1>6, <1>7, <1>8, <1>9, <1>10, <1>11, <1>12,
     <1>13, <1>14, <1>15, <1>16, <1>17, <1>18, <1>19
     DEF Next, Api, Turns, Batch, Failure

(***************************************************************************)
(* The theorems.                                                           *)
(***************************************************************************)
\* The inductive invariant holds of every reachable state.
LEMMA Invariance == Spec => []IInv
<1>1. Init => IInv
  <2> SUFFICES ASSUME Init PROVE IInv
    OBVIOUS
  <2>1. TypeOK
    <3>1. aborted \in BOOLEAN /\ skipPoll \in BOOLEAN /\ hasMore \in BOOLEAN
      BY Zenon DEF Init
    <3>2. pc \in PCs /\ mode \in {"sequential", "parallel"}
      BY DEF Init, PCs
    <3>3. MessageTypes
      BY DEF Init, MessageTypes
    <3>4. scenario \in Scenarios /\ CallTypes /\ log \in Seq(Events)
      BY DEF Init, CallTypes
    <3> QED
      BY <3>1, <3>2, <3>3, <3>4, Zenon DEF TypeOK, ControlTypes
  <2>2. InHand
    BY DEF Init, InHand
  <2>3. CallPhase
    BY DEF Init, CallPhase, PendingIsOpen, Started, Answering, Running, Closed, NoneOpen
  <2> QED
    BY <2>1, <2>2, <2>3 DEF IInv
<1>2. IInv /\ [Next]_vars => IInv'
  <2>1. ASSUME IInv, Next PROVE IInv'
    <3>1. UNCHANGED scenario
      BY <2>1 DEF Next
    <3> QED
      BY <2>1, <3>1, ControlStep, MessageStep, CallStep, InHandStep, PhaseStep DEF IInv, TypeOK
  <2>2. ASSUME IInv, UNCHANGED vars PROVE IInv'
    <3> USE <2>2 DEF IInv, vars, agentVars, loopVars, batchVars, history
    <3>1. TypeOK'
      BY DEF TypeOK, ControlTypes, MessageTypes, CallTypes
    <3>2. InHand'
      BY DEF InHand
    <3>3. CallPhase'
      BY SameBatch
    <3> QED
      BY <3>1, <3>2, <3>3
  <2> QED
    BY <2>1, <2>2
<1> QED
  BY <1>1, <1>2, PTL DEF Spec

\* Every variable of the agent and its loop keeps its type (agent.ts and
\* agent-loop.ts), in particular the loop never reads past the end of a batch
\* of calls or of an empty list of messages.
THEOREM TypeCorrect == Spec => []TypeOK
<1>1. IInv => TypeOK
  BY DEF IInv
<1> QED
  BY <1>1, Invariance, PTL

\* No call is open while the model is asked or when the agent is idle, in
\* batches of any length, sequential or parallel, aborted, reset or failed
\* (processEvents and finishRun in agent.ts).
THEOREM CallsClosed == Spec => []NoOpenCall
<1>1. IInv => NoOpenCall
  BY DEF IInv, CallPhase, PendingIsOpen, Closed, NoneOpen, NoOpenCall, InBatch, Failing
<1> QED
  BY <1>1, Invariance, PTL

(***************************************************************************)
(* The order of the messages: the invariant.                               *)
(***************************************************************************)
Announcing == {"agent_start", "first_turn", "prompt_start", "prompt_end"}
Injecting == {"first_poll", "polled", "turn_start", "inject_start", "inject_end"}
\* The loop holds prompts only until they are announced, and injected
\* messages only between a poll and the next request.
HandsEmpty ==
    /\ pc \notin Announcing => prompts = <<>>
    /\ pc \notin Injecting => pending = <<>>

Sorted(s) ==
    \A i, j \in DOMAIN s :
        i < j /\ FromUser(s[i]) /\ s[i].kind = s[j].kind => s[i].n < s[j].n
\* Every message of a kind in S was sent before every one in T.
Older(S, T) ==
    \A m \in S, l \in T : FromUser(m) /\ m.kind = l.kind => m.n < l.n
AtMostSent(S) == \A m \in S : FromUser(m) => m.n <= sent[m.kind]

EachSorted ==
    Sorted(messages) /\ Sorted(prompts) /\ Sorted(pending)
        /\ Sorted(steering) /\ Sorted(followUp)
InTurn ==
    /\ Older(ToSet(messages), ToSet(prompts) \cup ToSet(pending)
                                  \cup ToSet(steering) \cup ToSet(followUp))
    /\ Older(ToSet(prompts), ToSet(pending) \cup ToSet(steering) \cup ToSet(followUp))
    /\ Older(ToSet(pending), ToSet(steering) \cup ToSet(followUp))
\* A queue holds its own kind of message, and nothing is newer than the last
\* message sent.
QueueKinds ==
    /\ \A m \in ToSet(steering) : m.kind = "steer"
    /\ \A m \in ToSet(followUp) : m.kind = "follow"
    /\ AtMostSent(ToSet(messages) \cup ToSet(prompts) \cup ToSet(pending)
                      \cup ToSet(steering) \cup ToSet(followUp))
ListsInOrder == EachSorted /\ InTurn /\ QueueKinds

\* What a failing run is about to announce is a reply.
FailureReply == pc = "fail_start" => Reply.kind = "reply"
OrderInv == HandsEmpty /\ ListsInOrder /\ FailureReply

(***************************************************************************)
(* The order of user messages.                                             *)
(***************************************************************************)
\* A sorted list stays sorted when a newer message is added, or when one is
\* taken from either end.
LEMMA SortedAppend ==
    ASSUME NEW s \in Seq(Messages), NEW m \in Messages,
           Sorted(s), Older(ToSet(s), {m})
    PROVE  Sorted(Append(s, m))
<1>1. DOMAIN Append(s, m) = 1 .. Len(s) + 1 /\ DOMAIN s = 1 .. Len(s) /\ Len(s) \in Nat
      /\ (\A i \in 1 .. Len(s) : Append(s, m)[i] = s[i]) /\ Append(s, m)[Len(s) + 1] = m
  BY AppendElements
<1>2. \A i \in 1 .. Len(s) : s[i] \in ToSet(s)
  BY <1>1 DEF ToSet
<1> QED
  BY <1>1, <1>2 DEF Sorted, Older

LEMMA SortedTail ==
    ASSUME NEW s \in Seq(Messages), s # <<>>, Sorted(s)
    PROVE  Sorted(Tail(s)) /\ Older({Head(s)}, ToSet(Tail(s)))
<1>1. Head(s) = s[1] /\ Len(s) = Len(Tail(s)) + 1 /\ DOMAIN s = 1 .. Len(s)
      /\ DOMAIN Tail(s) = 1 .. Len(Tail(s)) /\ Len(Tail(s)) \in Nat
      /\ \A i \in 1 .. Len(Tail(s)) : Tail(s)[i] = s[i + 1]
  BY HeadAndTail
<1>2. Sorted(Tail(s))
  BY <1>1 DEF Sorted
<1>3. \A i \in DOMAIN Tail(s) : 1 < i + 1 /\ i + 1 \in DOMAIN s /\ 1 \in DOMAIN s
  BY <1>1
<1> QED
  BY <1>1, <1>2, <1>3 DEF Sorted, Older, ToSet

LEMMA SortedFront ==
    ASSUME NEW s \in Seq(Messages), s # <<>>, Sorted(s)
    PROVE  Sorted(Front(s))
<1>1. Len(s) = Len(Front(s)) + 1 /\ DOMAIN s = 1 .. Len(s)
      /\ DOMAIN Front(s) = 1 .. Len(Front(s)) /\ Len(Front(s)) \in Nat
      /\ \A i \in 1 .. Len(Front(s)) : Front(s)[i] = s[i]
  BY FrontThenLast
<1> QED
  BY <1>1 DEF Sorted

\* drain splits a queue: what it returns comes before what it leaves.
LEMMA DrainSplits ==
    ASSUME NEW q \in Seq(UserMessages), NEW queueMode
    PROVE  /\ ToSet(q) = ToSet(Drained(q, queueMode)) \cup ToSet(Left(q, queueMode))
           /\ Sorted(q) => /\ Sorted(Drained(q, queueMode)) /\ Sorted(Left(q, queueMode))
                           /\ Older(ToSet(Drained(q, queueMode)), ToSet(Left(q, queueMode)))
<1>0. q \in Seq(Messages)
  BY KnownMessages
<1>e. ToSet(<<>>) = {} /\ Sorted(<<>>)
  BY DEF ToSet, Sorted
<1>1. CASE queueMode = "all" \/ q = <<>>
  <2>1. Drained(q, queueMode) = q /\ Left(q, queueMode) = <<>>
    BY <1>1 DEF Drained, Left
  <2> QED
    BY <2>1, <1>e DEF Older
<1>2. CASE ~(queueMode = "all" \/ q = <<>>)
  <2>1. Drained(q, queueMode) = <<Head(q)>> /\ Left(q, queueMode) = Tail(q) /\ q # <<>>
    BY <1>2 DEF Drained, Left
  <2>2. ToSet(<<Head(q)>>) = {Head(q)} /\ Sorted(<<Head(q)>>)
    BY DEF ToSet, Sorted
  <2>3. ToSet(q) = {Head(q)} \cup ToSet(Tail(q))
    BY <2>1, <1>0, HeadAndTail
  <2>4. Sorted(q) => Sorted(Tail(q)) /\ Older({Head(q)}, ToSet(Tail(q)))
    BY <2>1, <1>0, SortedTail
  <2> QED
    BY <2>1, <2>2, <2>3, <2>4
<1> QED
  BY <1>1, <1>2

\* Every step keeps the loop's hands empty where they should be.
LEMMA HandsStep ==
    ASSUME HandsEmpty, Next
    PROVE  HandsEmpty'
<1> USE DEF HandsEmpty, Announcing, Injecting, agentVars, loopVars, batchVars, history
<1>1. CASE Prompt \/ ContinueSteering \/ ContinueFollowUp \/ ContinueTranscript
  BY <1>1 DEF Prompt, ContinueSteering, ContinueFollowUp, ContinueTranscript, StartRun
<1>2. CASE Steer \/ FollowUp \/ ClearQueues \/ Abort \/ Reset \/ DropFailedReply
  BY <1>2 DEF Steer, FollowUp, ClearQueues, Abort, Reset, DropFailedReply
<1>3. CASE FirstTurn \/ PromptStart \/ PromptEnd \/ FirstPoll
  BY <1>3 DEF FirstTurn, PromptStart, PromptEnd, FirstPoll, PollSteering
<1>4. CASE InjectStart \/ InjectEnd \/ ReplyStart \/ ReplyEnd
  BY <1>4 DEF InjectStart, InjectEnd, ReplyStart, ReadyToStream, ReplyEnd
<1>5. CASE InterruptedTurn \/ TurnWithoutCalls \/ PollAfterTurn \/ NextTurn
  BY <1>5 DEF InterruptedTurn, TurnWithoutCalls, EndTurn, PollAfterTurn, PollSteering, NextTurn
<1>6. CASE PollFollowUp \/ EndRun \/ Finish \/ ThrowsAgain
  BY <1>6 DEF PollFollowUp, EndRun, WouldStop, Finish, ThrowsAgain, FinishRun
<1>7. CASE RunTools \/ AnswerAtOnce \/ RunCall \/ Prepare \/ PrepareNext
  BY <1>7 DEF RunTools, AnswerAtOnce, RunCall, Prepare, PrepareNext, AfterPreparing, StartCall
<1>8. CASE \E i \in DOMAIN calls : FinishCall(i) \/ CallEnded(i)
  BY <1>8 DEF FinishCall, CallEnded
<1>9. CASE FirstResult \/ ResultEnd \/ NextResult \/ NextCall \/ EndBatch
  BY <1>9 DEF FirstResult, ResultEnd, NextResult, AnnounceResult, NextCall, StartCall,
              EndBatch, EndTurn
<1>10. CASE ListenerThrows \/ ProviderThrows
  BY <1>10 DEF ListenerThrows, ProviderThrows, RunFails
<1>11. CASE FailEnd \/ FailTurnEnd \/ FailRunEnd
  BY <1>11 DEF FailEnd, FailTurnEnd, EndTurn, FailRunEnd
<1>12. CASE \E call \in orphans : OrphanEnds(call)
  BY <1>12 DEF OrphanEnds
<1> QED
  BY <1>1, <1>2, <1>3, <1>4, <1>5, <1>6, <1>7, <1>8, <1>9, <1>10, <1>11, <1>12
     DEF Next, Api, Turns, Batch, Failure

\* Steps that leave the lists alone, or only drop messages from them.
LEMMA FewerMessages ==
    ASSUME ListsInOrder, UNCHANGED <<messages, sent>>,
           ToSet(prompts') \subseteq ToSet(prompts), ToSet(pending') \subseteq ToSet(pending),
           ToSet(steering') \subseteq ToSet(steering), ToSet(followUp') \subseteq ToSet(followUp),
           Sorted(prompts'), Sorted(pending'), Sorted(steering'), Sorted(followUp')
    PROVE  ListsInOrder'
<1>1. EachSorted'
  BY DEF ListsInOrder, EachSorted
<1>2. InTurn'
  BY DEF ListsInOrder, InTurn, Older
<1>3. QueueKinds'
  BY DEF ListsInOrder, QueueKinds, AtMostSent
<1> QED
  BY <1>1, <1>2, <1>3 DEF ListsInOrder

\* Steps that add to the transcript something no user has sent.
LEMMA OthersMessage ==
    ASSUME TypeOK, ListsInOrder, NEW m \in Messages, ~FromUser(m),
           messages' = Append(messages, m),
           UNCHANGED <<prompts, pending, steering, followUp>>,
           \A kind \in {"prompt", "steer", "follow"} : sent'[kind] = sent[kind]
    PROVE  ListsInOrder'
<1>1. messages \in Seq(Messages)
  BY DEF TypeOK, MessageTypes
<1>2. ToSet(messages') = ToSet(messages) \cup {m}
  BY <1>1, AppendElements
<1>3. Sorted(messages')
  <2>1. DOMAIN messages' = 1 .. Len(messages) + 1 /\ Len(messages) \in Nat
        /\ DOMAIN messages = 1 .. Len(messages)
        /\ (\A i \in 1 .. Len(messages) : messages'[i] = messages[i])
        /\ messages'[Len(messages) + 1] = m
    BY <1>1, AppendElements
  <2>2. \A i, j \in DOMAIN messages' :
            FromUser(messages'[i]) /\ messages'[i].kind = messages'[j].kind =>
                i \in DOMAIN messages /\ j \in DOMAIN messages
    BY <2>1 DEF FromUser
  <2> QED
    BY <2>1, <2>2 DEF ListsInOrder, EachSorted, Sorted
<1>4. EachSorted'
  BY <1>3 DEF ListsInOrder, EachSorted
<1>5. InTurn'
  BY <1>2 DEF ListsInOrder, InTurn, Older
<1>6. QueueKinds'
  <2>1. \A l : FromUser(l) => sent'[l.kind] = sent[l.kind]
    BY DEF FromUser
  <2> QED
    BY <1>2, <2>1 DEF ListsInOrder, QueueKinds, AtMostSent
<1> QED
  BY <1>4, <1>5, <1>6 DEF ListsInOrder

\* A new message is newer than all of its kind.
LEMMA NewestMessage ==
    ASSUME TypeOK, ListsInOrder, NEW kind \in {"prompt", "steer", "follow"}, Sending(kind)
    PROVE  /\ User(kind, sent'[kind]) \in UserMessages
           /\ User(kind, sent'[kind]).kind = kind
           /\ \A m \in ToSet(messages) \cup ToSet(prompts) \cup ToSet(pending)
                        \cup ToSet(steering) \cup ToSet(followUp) \cup {User(kind, sent'[kind])} :
                 FromUser(m) => m.n <= sent'[m.kind]
           /\ Older(ToSet(messages) \cup ToSet(prompts) \cup ToSet(pending)
                        \cup ToSet(steering) \cup ToSet(followUp), {User(kind, sent'[kind])})
<1>1. sent \in [Kinds -> Nat] /\ kind \in Kinds
  BY DEF TypeOK, MessageTypes, Kinds
<1>2. sent' = [sent EXCEPT ![kind] = @ + 1]
  BY DEF Sending
<1>3. sent' \in [Kinds -> Nat] /\ sent'[kind] = sent[kind] + 1
      /\ \A other \in Kinds : sent[other] <= sent'[other]
  BY <1>1, <1>2
<1>4. User(kind, sent'[kind]) \in UserMessages
  BY <1>1, <1>3, KnownMessages
<1>5. User(kind, sent'[kind]).kind = kind /\ User(kind, sent'[kind]).n = sent[kind] + 1
  BY <1>3 DEF User, Message
<1>t. ToSet(messages) \subseteq Messages /\ ToSet(prompts) \subseteq Messages
      /\ ToSet(pending) \subseteq Messages /\ ToSet(steering) \subseteq Messages
      /\ ToSet(followUp) \subseteq Messages
  BY ToSetType, KnownMessages DEF TypeOK, MessageTypes
<1>6. \A m \in ToSet(messages) \cup ToSet(prompts) \cup ToSet(pending)
                 \cup ToSet(steering) \cup ToSet(followUp) :
          FromUser(m) /\ m.kind = kind => m.n <= sent[kind] /\ m.n \in Nat
  BY <1>t, KnownMessages DEF ListsInOrder, QueueKinds, AtMostSent
<1>7. Older(ToSet(messages) \cup ToSet(prompts) \cup ToSet(pending)
                \cup ToSet(steering) \cup ToSet(followUp), {User(kind, sent'[kind])})
  BY <1>1, <1>5, <1>6 DEF Older
<1>8. ASSUME NEW m \in ToSet(messages) \cup ToSet(prompts) \cup ToSet(pending)
                         \cup ToSet(steering) \cup ToSet(followUp), FromUser(m)
      PROVE  m.n <= sent'[m.kind]
  <2>1. m.kind \in Kinds
    BY <1>8 DEF FromUser, Kinds
  <2>2. m.n \in Nat /\ m.n <= sent[m.kind]
    BY <1>8, <1>t, KnownMessages DEF ListsInOrder, QueueKinds, AtMostSent
  <2>3. sent[m.kind] \in Nat /\ sent'[m.kind] \in Nat /\ sent[m.kind] <= sent'[m.kind]
    BY <2>1, <1>1, <1>3
  <2> QED
    BY ONLY <2>2, <2>3
<1>9. User(kind, sent'[kind]).n <= sent'[User(kind, sent'[kind]).kind]
  BY <1>1, <1>3, <1>5
<1> QED
  BY <1>4, <1>5, <1>7, <1>8, <1>9

\* Every step keeps the order of the user messages.
LEMMA OrderStep ==
    ASSUME TypeOK, InHand, HandsEmpty, ListsInOrder, Next,
           pc = "fail_start" => Reply \in Messages /\ Reply.kind = "reply"
    PROVE  ListsInOrder'
<1> USE DEF agentVars, loopVars, batchVars, history
<1>q. messages \in Seq(Messages) /\ prompts \in Seq(UserMessages) /\ pending \in Seq(UserMessages)
      /\ steering \in Seq(UserMessages) /\ followUp \in Seq(UserMessages)
      /\ prompts \in Seq(Messages) /\ pending \in Seq(Messages)
      /\ steering \in Seq(Messages) /\ followUp \in Seq(Messages)
  BY KnownMessages DEF TypeOK, MessageTypes
<1>e. ToSet(<<>>) = {} /\ Sorted(<<>>)
  BY DEF ToSet, Sorted
<1>s. /\ Sorted(messages) /\ Sorted(prompts) /\ Sorted(pending)
      /\ Sorted(steering) /\ Sorted(followUp)
  BY DEF ListsInOrder, EachSorted
<1>h. (pc = "idle" => prompts = <<>> /\ pending = <<>>)
      /\ (pc \in Announcing \cup {"turn_end"} => pending = <<>>)
      /\ (pc \notin Announcing => prompts = <<>>)
  BY DEF HandsEmpty, Announcing, Injecting
<1>k. /\ \A m \in ToSet(steering) : m.kind = "steer"
      /\ \A m \in ToSet(followUp) : m.kind = "follow"
  BY DEF ListsInOrder, QueueKinds
<1>1. CASE Prompt
  <2> DEFINE u == User("prompt", sent'["prompt"])
  <2>1. pc = "idle" /\ Sending("prompt") /\ prompts' = <<u>> /\ pending' = <<>>
        /\ UNCHANGED <<messages, steering, followUp>>
    BY <1>1 DEF Prompt, StartRun
  <2>2. u \in UserMessages /\ u.kind = "prompt"
        /\ (\A m \in ToSet(messages) \cup ToSet(prompts) \cup ToSet(pending)
                    \cup ToSet(steering) \cup ToSet(followUp) \cup {u} :
              FromUser(m) => m.n <= sent'[m.kind])
        /\ Older(ToSet(messages) \cup ToSet(prompts) \cup ToSet(pending)
                     \cup ToSet(steering) \cup ToSet(followUp), {u})
    BY <2>1, NewestMessage
  <2>5. ToSet(<<u>>) = {u} /\ Sorted(<<u>>)
    BY DEF ToSet, Sorted
  <2> HIDE DEF u
  <2>6. EachSorted'
    BY <2>1, <2>5, <1>s, <1>e DEF EachSorted
  <2>7. InTurn'
    <3>1. Older(ToSet(messages'), ToSet(prompts') \cup ToSet(pending')
                    \cup ToSet(steering') \cup ToSet(followUp'))
      BY <2>1, <2>2, <2>5, <1>e DEF ListsInOrder, InTurn, Older
    <3>2. Older(ToSet(prompts'), ToSet(pending') \cup ToSet(steering') \cup ToSet(followUp'))
      BY <2>1, <2>2, <2>5, <1>e, <1>k DEF Older
    <3>3. Older(ToSet(pending'), ToSet(steering') \cup ToSet(followUp'))
      BY <2>1, <1>e DEF Older
    <3> QED
      BY <3>1, <3>2, <3>3 DEF InTurn
  <2>8. QueueKinds'
    BY <2>1, <2>2, <2>5, <1>e, <1>k DEF QueueKinds, AtMostSent
  <2> QED
    BY <2>6, <2>7, <2>8 DEF ListsInOrder
<1>2. CASE ContinueSteering
  <2>1. pc = "idle" /\ prompts' = Drained(steering, SteeringMode) /\ pending' = <<>>
        /\ steering' = Left(steering, SteeringMode) /\ UNCHANGED <<messages, followUp, sent>>
    BY <1>2 DEF ContinueSteering, StartRun
  <2>2. prompts = <<>> /\ pending = <<>>
    BY <2>1, <1>h
  <2>3. ToSet(steering) = ToSet(prompts') \cup ToSet(steering')
        /\ Sorted(prompts') /\ Sorted(steering') /\ Older(ToSet(prompts'), ToSet(steering'))
    BY <2>1, <1>q, <1>s, DrainSplits
  <2>4. EachSorted'
    BY <2>1, <2>3, <1>s, <1>e DEF EachSorted
  <2>5. InTurn'
    BY <2>1, <2>3, <1>e, <1>k DEF ListsInOrder, InTurn, Older
  <2>6. QueueKinds'
    BY <2>1, <2>3, <1>e DEF ListsInOrder, QueueKinds, AtMostSent
  <2> QED
    BY <2>4, <2>5, <2>6 DEF ListsInOrder
<1>3. CASE ContinueFollowUp
  <2>1. pc = "idle" /\ prompts' = Drained(followUp, FollowUpMode) /\ pending' = <<>>
        /\ followUp' = Left(followUp, FollowUpMode) /\ UNCHANGED <<messages, steering, sent>>
    BY <1>3 DEF ContinueFollowUp, StartRun
  <2>3. ToSet(followUp) = ToSet(prompts') \cup ToSet(followUp')
        /\ Sorted(prompts') /\ Sorted(followUp') /\ Older(ToSet(prompts'), ToSet(followUp'))
    BY <2>1, <1>q, <1>s, DrainSplits
  <2>4. EachSorted'
    BY <2>1, <2>3, <1>s, <1>e DEF EachSorted
  <2>5. InTurn'
    BY <2>1, <2>3, <1>e, <1>k DEF ListsInOrder, InTurn, Older
  <2>6. QueueKinds'
    BY <2>1, <2>3, <1>e DEF ListsInOrder, QueueKinds, AtMostSent
  <2> QED
    BY <2>4, <2>5, <2>6 DEF ListsInOrder
<1>4. CASE ContinueTranscript
  <2>1. pc = "idle" /\ prompts' = <<>> /\ pending' = <<>>
        /\ UNCHANGED <<messages, steering, followUp, sent>>
    BY <1>4 DEF ContinueTranscript, StartRun
  <2> QED
    BY <2>1, <1>s, <1>e, FewerMessages
<1>5. CASE Steer
  <2> DEFINE u == User("steer", sent'["steer"])
  <2>1. Sending("steer") /\ steering' = Append(steering, u)
        /\ UNCHANGED <<messages, prompts, pending, followUp>>
    BY <1>5 DEF Steer
  <2>2. u \in UserMessages /\ u.kind = "steer"
        /\ (\A m \in ToSet(messages) \cup ToSet(prompts) \cup ToSet(pending)
                    \cup ToSet(steering) \cup ToSet(followUp) \cup {u} :
              FromUser(m) => m.n <= sent'[m.kind])
        /\ Older(ToSet(messages) \cup ToSet(prompts) \cup ToSet(pending)
                     \cup ToSet(steering) \cup ToSet(followUp), {u})
    BY <2>1, NewestMessage
  <2> HIDE DEF u
  <2>3. ToSet(steering') = ToSet(steering) \cup {u}
    BY <2>1, <2>2, <1>q, AppendElements
  <2>4. Sorted(steering')
    <3>1. Older(ToSet(steering), {u}) /\ u \in Messages
      BY <2>2, KnownMessages DEF Older
    <3> QED
      BY <2>1, <3>1, <1>q, <1>s, SortedAppend
  <2>5. EachSorted'
    BY <2>1, <2>4, <1>s DEF EachSorted
  <2>6. InTurn'
    BY <2>1, <2>2, <2>3 DEF ListsInOrder, InTurn, Older
  <2>7. QueueKinds'
    BY <2>1, <2>2, <2>3, <1>k DEF QueueKinds, AtMostSent
  <2> QED
    BY <2>5, <2>6, <2>7 DEF ListsInOrder
<1>6. CASE FollowUp
  <2> DEFINE u == User("follow", sent'["follow"])
  <2>1. Sending("follow") /\ followUp' = Append(followUp, u)
        /\ UNCHANGED <<messages, prompts, pending, steering>>
    BY <1>6 DEF FollowUp
  <2>2. u \in UserMessages /\ u.kind = "follow"
        /\ (\A m \in ToSet(messages) \cup ToSet(prompts) \cup ToSet(pending)
                    \cup ToSet(steering) \cup ToSet(followUp) \cup {u} :
              FromUser(m) => m.n <= sent'[m.kind])
        /\ Older(ToSet(messages) \cup ToSet(prompts) \cup ToSet(pending)
                     \cup ToSet(steering) \cup ToSet(followUp), {u})
    BY <2>1, NewestMessage
  <2> HIDE DEF u
  <2>3. ToSet(followUp') = ToSet(followUp) \cup {u}
    BY <2>1, <2>2, <1>q, AppendElements
  <2>4. Sorted(followUp')
    <3>1. Older(ToSet(followUp), {u}) /\ u \in Messages
      BY <2>2, KnownMessages DEF Older
    <3> QED
      BY <2>1, <3>1, <1>q, <1>s, SortedAppend
  <2>5. EachSorted'
    BY <2>1, <2>4, <1>s DEF EachSorted
  <2>6. InTurn'
    BY <2>1, <2>2, <2>3 DEF ListsInOrder, InTurn, Older
  <2>7. QueueKinds'
    BY <2>1, <2>2, <2>3, <1>k DEF QueueKinds, AtMostSent
  <2> QED
    BY <2>5, <2>6, <2>7 DEF ListsInOrder
<1>7. CASE ClearQueues
  <2>1. UNCHANGED <<messages, prompts, pending, sent>>
        /\ steering' \in {<<>>, steering} /\ followUp' \in {<<>>, followUp}
    BY <1>7 DEF ClearQueues
  <2> QED
    BY <2>1, <1>s, <1>e, FewerMessages
<1>8. CASE Reset
  <2>1. messages' = <<>> /\ steering' = <<>> /\ followUp' = <<>>
        /\ UNCHANGED <<prompts, pending, sent>>
    BY <1>8 DEF Reset
  <2>2. EachSorted'
    BY <2>1, <1>s, <1>e DEF EachSorted
  <2>3. InTurn' /\ QueueKinds'
    BY <2>1, <1>e DEF ListsInOrder, InTurn, Older, QueueKinds, AtMostSent
  <2> QED
    BY <2>2, <2>3 DEF ListsInOrder
<1>9. CASE DropFailedReply
  <2>1. messages' = Front(messages) /\ messages # <<>>
        /\ UNCHANGED <<prompts, pending, steering, followUp, sent>>
    BY <1>9 DEF DropFailedReply, EndsWithReply
  <2>2. ToSet(messages') \subseteq ToSet(messages)
    BY <2>1, <1>q, FrontThenLast
  <2>3. EachSorted'
    BY <2>1, <1>q, <1>s, SortedFront DEF EachSorted
  <2>4. InTurn' /\ QueueKinds'
    BY <2>1, <2>2 DEF ListsInOrder, InTurn, Older, QueueKinds, AtMostSent
  <2> QED
    BY <2>3, <2>4 DEF ListsInOrder
<1>10. CASE PromptEnd
  <2> DEFINE h == Head(prompts)
  <2>1. pc = "prompt_start" /\ messages' = Append(messages, h) /\ prompts' = Tail(prompts)
        /\ UNCHANGED <<pending, steering, followUp, sent>> /\ prompts # <<>>
    BY <1>10 DEF PromptEnd, InHand
  <2>2. h \in Messages /\ ToSet(prompts) = {h} \cup ToSet(prompts')
    BY <2>1, <1>q, HeadAndTail
  <2>3. Sorted(prompts') /\ Older({h}, ToSet(prompts'))
    BY <2>1, <1>q, <1>s, SortedTail
  <2> HIDE DEF h
  <2>4. ToSet(messages') = ToSet(messages) \cup {h}
    BY <2>1, <2>2, <1>q, AppendElements
  <2>5. Sorted(messages')
    <3>1. Older(ToSet(messages), {h})
      BY <2>2 DEF ListsInOrder, InTurn, Older
    <3> QED
      BY <2>1, <2>2, <3>1, <1>q, <1>s, SortedAppend
  <2>6. EachSorted'
    BY <2>1, <2>3, <2>5, <1>s DEF EachSorted
  <2>7. InTurn'
    BY <2>1, <2>2, <2>3, <2>4 DEF ListsInOrder, InTurn, Older
  <2>8. QueueKinds'
    BY <2>1, <2>2, <2>4 DEF ListsInOrder, QueueKinds, AtMostSent
  <2> QED
    BY <2>6, <2>7, <2>8 DEF ListsInOrder
<1>11. CASE FirstPoll \/ PollAfterTurn
  <2>1. UNCHANGED <<messages, prompts, followUp, sent>>
        /\ \/ pending' = <<>> /\ steering' = steering
           \/ /\ pending' = Drained(steering, SteeringMode)
              /\ steering' = Left(steering, SteeringMode)
    BY <1>11 DEF FirstPoll, PollAfterTurn, PollSteering
  <2>2. CASE pending' = <<>> /\ steering' = steering
    BY <2>1, <2>2, <1>s, <1>e, FewerMessages
  <2>3. CASE /\ pending' = Drained(steering, SteeringMode)
             /\ steering' = Left(steering, SteeringMode)
    <3>1. ToSet(steering) = ToSet(pending') \cup ToSet(steering')
          /\ Sorted(pending') /\ Sorted(steering') /\ Older(ToSet(pending'), ToSet(steering'))
      BY <2>3, <1>q, <1>s, DrainSplits
    <3>2. EachSorted'
      BY <2>1, <3>1, <1>s DEF EachSorted
    <3>3. InTurn'
      BY <2>1, <3>1, <1>k DEF ListsInOrder, InTurn, Older
    <3>4. QueueKinds'
      BY <2>1, <3>1 DEF ListsInOrder, QueueKinds, AtMostSent
    <3> QED
      BY <3>2, <3>3, <3>4 DEF ListsInOrder
  <2> QED
    BY <2>1, <2>2, <2>3
<1>12. CASE InjectEnd
  <2> DEFINE h == Head(pending)
  <2>1. pc = "inject_start" /\ messages' = Append(messages, h) /\ pending' = Tail(pending)
        /\ UNCHANGED <<prompts, steering, followUp, sent>> /\ pending # <<>>
    BY <1>12 DEF InjectEnd, InHand
  <2>2. h \in Messages /\ ToSet(pending) = {h} \cup ToSet(pending')
    BY <2>1, <1>q, HeadAndTail
  <2>3. Sorted(pending') /\ Older({h}, ToSet(pending'))
    BY <2>1, <1>q, <1>s, SortedTail
  <2> HIDE DEF h
  <2>4. ToSet(messages') = ToSet(messages) \cup {h}
    BY <2>1, <2>2, <1>q, AppendElements
  <2>5. Sorted(messages')
    <3>1. Older(ToSet(messages), {h})
      BY <2>2 DEF ListsInOrder, InTurn, Older
    <3> QED
      BY <2>1, <2>2, <3>1, <1>q, <1>s, SortedAppend
  <2>6. EachSorted'
    BY <2>1, <2>3, <2>5, <1>s DEF EachSorted
  <2>7. InTurn'
    <3>1. prompts = <<>> /\ prompts' = <<>>
      BY <2>1, <1>h DEF Announcing
    <3> QED
      BY <2>1, <2>2, <2>3, <2>4, <3>1, <1>e DEF ListsInOrder, InTurn, Older
  <2>8. QueueKinds'
    BY <2>1, <2>2, <2>4 DEF ListsInOrder, QueueKinds, AtMostSent
  <2> QED
    BY <2>6, <2>7, <2>8 DEF ListsInOrder
<1>13. CASE ReplyEnd
  <2>1. PICK reply \in Replies : messages' = Append(messages, reply)
    BY <1>13 DEF ReplyEnd
  <2>2. reply \in Messages
    BY RepliesType DEF TypeOK, MessageTypes, Kinds
  <2>3. ~FromUser(reply)
    BY <2>1 DEF Replies, Message, FromUser
  <2>4. UNCHANGED <<prompts, pending, steering, followUp>>
        /\ sent' = [sent EXCEPT !["reply"] = NextReply]
    BY <1>13 DEF ReplyEnd
  <2>5. \A kind \in {"prompt", "steer", "follow"} : sent'[kind] = sent[kind]
    BY <2>4 DEF TypeOK, MessageTypes, Kinds
  <2> QED
    BY <2>1, <2>2, <2>3, <2>4, <2>5, OthersMessage
<1>14. CASE PollFollowUp
  <2>1. UNCHANGED <<messages, prompts, steering, sent>> /\ pc \notin Announcing
        /\ pending' = Drained(followUp, FollowUpMode)
        /\ followUp' = Left(followUp, FollowUpMode)
    BY <1>14 DEF PollFollowUp, WouldStop, Announcing
  <2>2. ToSet(followUp) = ToSet(pending') \cup ToSet(followUp')
        /\ Sorted(pending') /\ Sorted(followUp') /\ Older(ToSet(pending'), ToSet(followUp'))
    BY <2>1, <1>q, <1>s, DrainSplits
  <2>3. EachSorted'
    BY <2>1, <2>2, <1>s DEF EachSorted
  <2>4. InTurn'
    BY <2>1, <2>2, <1>k DEF ListsInOrder, InTurn, Older
  <2>5. QueueKinds'
    BY <2>1, <2>2 DEF ListsInOrder, QueueKinds, AtMostSent
  <2> QED
    BY <2>3, <2>4, <2>5 DEF ListsInOrder
<1>15. CASE Finish \/ ThrowsAgain
  <2>1. prompts' = <<>> /\ pending' = <<>> /\ UNCHANGED <<messages, steering, followUp, sent>>
    BY <1>15 DEF Finish, ThrowsAgain, FinishRun
  <2> QED
    BY <2>1, <1>s, <1>e, FewerMessages
<1>16. CASE ListenerThrows \/ ProviderThrows
  <2>1. prompts' = <<>> /\ pending' = <<>> /\ UNCHANGED <<messages, steering, followUp, sent>>
    BY <1>16 DEF ListenerThrows, ProviderThrows, RunFails
  <2> QED
    BY <2>1, <1>s, <1>e, FewerMessages
<1>17. CASE FailEnd
  <2>1. pc = "fail_start" /\ messages' = Append(messages, Reply)
        /\ UNCHANGED <<prompts, pending, steering, followUp>>
        /\ sent' = [sent EXCEPT !["reply"] = NextReply]
    BY <1>17 DEF FailEnd
  <2>2. Reply \in Messages /\ ~FromUser(Reply)
    BY <2>1 DEF FromUser
  <2>3. \A kind \in {"prompt", "steer", "follow"} : sent'[kind] = sent[kind]
    BY <2>1 DEF TypeOK, MessageTypes, Kinds
  <2> QED
    BY <2>1, <2>2, <2>3, OthersMessage
<1>18. CASE ResultEnd
  <2>1. pc = "result_start" /\ messages' = Append(messages, Result(Reply.n, at))
        /\ UNCHANGED <<prompts, pending, steering, followUp, sent>>
    BY <1>18 DEF ResultEnd
  <2>2. Reply.n \in Nat /\ at \in Nat
    BY <2>1, FrontAndLast, KnownMessages DEF InHand, Reply, TypeOK, MessageTypes, CallTypes
  <2>3. Result(Reply.n, at) \in Messages /\ ~FromUser(Result(Reply.n, at))
    BY <2>2, KnownMessages DEF Result, Message, FromUser
  <2> QED
    BY <2>1, <2>3, OthersMessage
<1>19. CASE \/ Abort \/ FirstTurn \/ PromptStart \/ InjectStart \/ ReplyStart
            \/ InterruptedTurn \/ TurnWithoutCalls \/ NextTurn \/ EndRun
  <2>1. UNCHANGED <<messages, prompts, pending, steering, followUp, sent>>
    BY <1>19 DEF Abort, FirstTurn, PromptStart, InjectStart, ReplyStart, InterruptedTurn,
                 TurnWithoutCalls, EndTurn, NextTurn, EndRun
  <2> QED
    BY <2>1, <1>s, FewerMessages
<1>20. CASE \/ RunTools \/ AnswerAtOnce \/ RunCall \/ Prepare \/ PrepareNext
            \/ \E i \in DOMAIN calls : FinishCall(i) \/ CallEnded(i)
  <2>1. UNCHANGED <<messages, prompts, pending, steering, followUp, sent>>
    BY <1>20 DEF RunTools, AnswerAtOnce, RunCall, Prepare, PrepareNext, FinishCall, CallEnded
  <2> QED
    BY <2>1, <1>s, FewerMessages
<1>21. CASE FirstResult \/ NextResult \/ NextCall \/ EndBatch
  <2>1. UNCHANGED <<messages, prompts, pending, steering, followUp, sent>>
    BY <1>21 DEF FirstResult, NextResult, AnnounceResult, NextCall, EndBatch, EndTurn
  <2> QED
    BY <2>1, <1>s, FewerMessages
<1>22. CASE FailTurnEnd \/ FailRunEnd \/ \E call \in orphans : OrphanEnds(call)
  <2>1. UNCHANGED <<messages, prompts, pending, steering, followUp, sent>>
    BY <1>22 DEF FailTurnEnd, EndTurn, FailRunEnd, OrphanEnds
  <2> QED
    BY <2>1, <1>s, FewerMessages
<1> QED
  BY <1>1, <1>2, <1>3, <1>4, <1>5, <1>6, <1>7, <1>8, <1>9, <1>10, <1>11, <1>12,
     <1>13, <1>14, <1>15, <1>16, <1>17, <1>18, <1>19, <1>20, <1>21, <1>22
     DEF Next, Api, Turns, Batch, Failure

\* What the steps have to show: what was held still is, and so is what is new.
LEMMA StillHeld ==
    ASSUME NothingLost, sent \in [Kinds -> Nat],
           \A m : FromUser(m) /\ Held(m) => Held(m)',
           \A kind \in {"prompt", "steer", "follow"} :
              \/ sent'[kind] = sent[kind]
              \/ \E n \in Nat : n = sent[kind] + 1 /\ sent'[kind] = n /\ Held(User(kind, n))'
    PROVE  NothingLost'
<1> SUFFICES ASSUME NEW kind \in {"prompt", "steer", "follow"}, NEW n \in 1 .. sent'[kind]
             PROVE  Held(User(kind, n))'
  BY DEF NothingLost
<1>1. sent[kind] \in Nat
  BY DEF Kinds
<1>2. CASE n <= sent[kind]
  <2>1. n \in 1 .. sent[kind]
    BY <1>1, <1>2
  <2>2. Held(User(kind, n)) /\ FromUser(User(kind, n))
    BY <2>1 DEF NothingLost, FromUser, User, Message
  <2> QED
    BY <2>2
<1>3. CASE ~(n <= sent[kind])
  <2>1. PICK m \in Nat : m = sent[kind] + 1 /\ sent'[kind] = m /\ Held(User(kind, m))'
    BY <1>1, <1>3
  <2>2. n = m
    BY <1>1, <1>3, <2>1
  <2> QED
    BY <2>1, <2>2
<1> QED
  BY <1>2, <1>3

\* Unless a listener throws no step loses a message.
LEMMA HeldStep ==
    ASSUME TypeOK, InHand, HandsEmpty, NothingLost, "listener" \notin Throws, Next
    PROVE  NothingLost'
<1> USE DEF agentVars, loopVars, batchVars, history
<1>q. messages \in Seq(Messages) /\ prompts \in Seq(Messages) /\ pending \in Seq(Messages)
      /\ steering \in Seq(Messages) /\ followUp \in Seq(Messages)
      /\ steering \in Seq(UserMessages) /\ followUp \in Seq(UserMessages)
      /\ sent \in [Kinds -> Nat]
  BY KnownMessages DEF TypeOK, MessageTypes
<1>e. ToSet(<<>>) = {}
  BY DEF ToSet
<1>h. (pc = "idle" => prompts = <<>> /\ pending = <<>>)
      /\ (pc \in Announcing \cup {"turn_end", "reply_start"} => pending = <<>>)
      /\ (pc \notin Announcing => prompts = <<>>)
      /\ (pc \in {"agent_end", "fail_agent_end"} => prompts = <<>> /\ pending = <<>>)
  BY DEF HandsEmpty, Announcing, Injecting
<1>a. ASSUME NEW kind \in {"prompt", "steer", "follow"}, Sending(kind)
      PROVE  /\ sent'[kind] = sent[kind] + 1
             /\ \A other \in {"prompt", "steer", "follow"} : other # kind => sent'[other] = sent[other]
  BY <1>a, <1>q DEF Sending, Kinds
<1>1. CASE Prompt
  <2>n. PICK n \in Nat : n = sent["prompt"] + 1
    BY <1>q DEF Kinds
  <2> DEFINE u == User("prompt", n)
  <2>k. Sending("prompt") /\ sent'["prompt"] = n
    BY <1>1, <1>a, <2>n DEF Prompt
  <2>1. prompts' = <<u>> /\ pending' = <<>> /\ pc = "idle"
        /\ UNCHANGED <<messages, steering, followUp, dropped>>
    BY <1>1, <2>k DEF Prompt, StartRun
  <2>2. ToSet(<<u>>) = {u}
    BY DEF ToSet
  <2>3. Held(u)'
    BY <2>1, <2>2 DEF Held
  <2>4. \A m : Held(m) => Held(m)'
    BY <2>1, <1>h, <1>e DEF Held
  <2> QED
    BY <2>n, <2>k, <2>3, <2>4, <1>a, <1>q, StillHeld
<1>2. CASE ContinueSteering
  <2>1. pc = "idle" /\ prompts' = Drained(steering, SteeringMode) /\ pending' = <<>>
        /\ steering' = Left(steering, SteeringMode) /\ UNCHANGED <<messages, followUp, sent, dropped>>
    BY <1>2 DEF ContinueSteering, StartRun
  <2>2. ToSet(steering) = ToSet(prompts') \cup ToSet(steering')
    BY <2>1, <1>q, DrainSplits
  <2>3. \A m : Held(m) => Held(m)'
    BY <2>1, <2>2, <1>h, <1>e DEF Held
  <2> QED
    BY <2>1, <2>3, <1>q, StillHeld
<1>3. CASE ContinueFollowUp
  <2>1. pc = "idle" /\ prompts' = Drained(followUp, FollowUpMode) /\ pending' = <<>>
        /\ followUp' = Left(followUp, FollowUpMode) /\ UNCHANGED <<messages, steering, sent, dropped>>
    BY <1>3 DEF ContinueFollowUp, StartRun
  <2>2. ToSet(followUp) = ToSet(prompts') \cup ToSet(followUp')
    BY <2>1, <1>q, DrainSplits
  <2>3. \A m : Held(m) => Held(m)'
    BY <2>1, <2>2, <1>h, <1>e DEF Held
  <2> QED
    BY <2>1, <2>3, <1>q, StillHeld
<1>4. CASE ContinueTranscript
  <2>1. pc = "idle" /\ prompts' = <<>> /\ pending' = <<>>
        /\ UNCHANGED <<messages, steering, followUp, sent, dropped>>
    BY <1>4 DEF ContinueTranscript, StartRun
  <2>2. \A m : Held(m) => Held(m)'
    BY <2>1, <1>h, <1>e DEF Held
  <2> QED
    BY <2>1, <2>2, <1>q, StillHeld
<1>5. CASE Steer
  <2>n. PICK n \in Nat : n = sent["steer"] + 1
    BY <1>q DEF Kinds
  <2> DEFINE u == User("steer", n)
  <2>k. Sending("steer") /\ sent'["steer"] = n
    BY <1>5, <1>a, <2>n DEF Steer
  <2>1. steering' = Append(steering, u)
        /\ UNCHANGED <<messages, prompts, pending, followUp, dropped>>
    BY <1>5, <2>k DEF Steer
  <2>2. u \in Messages
    BY KnownMessages
  <2>3. ToSet(steering') = ToSet(steering) \cup {u}
    BY <2>1, <2>2, <1>q, AppendElements
  <2>4. Held(u)' /\ \A m : Held(m) => Held(m)'
    BY <2>1, <2>3 DEF Held
  <2> QED
    BY <2>n, <2>k, <2>4, <1>a, <1>q, StillHeld
<1>6. CASE FollowUp
  <2>n. PICK n \in Nat : n = sent["follow"] + 1
    BY <1>q DEF Kinds
  <2> DEFINE u == User("follow", n)
  <2>k. Sending("follow") /\ sent'["follow"] = n
    BY <1>6, <1>a, <2>n DEF FollowUp
  <2>1. followUp' = Append(followUp, u)
        /\ UNCHANGED <<messages, prompts, pending, steering, dropped>>
    BY <1>6, <2>k DEF FollowUp
  <2>2. u \in Messages
    BY KnownMessages
  <2>3. ToSet(followUp') = ToSet(followUp) \cup {u}
    BY <2>1, <2>2, <1>q, AppendElements
  <2>4. Held(u)' /\ \A m : Held(m) => Held(m)'
    BY <2>1, <2>3 DEF Held
  <2> QED
    BY <2>n, <2>k, <2>4, <1>a, <1>q, StillHeld
<1>7. CASE ClearQueues
  <2>1. UNCHANGED <<messages, prompts, pending, sent>>
        /\ dropped' = dropped \cup (ToSet(steering) \ ToSet(steering'))
                              \cup (ToSet(followUp) \ ToSet(followUp'))
    BY <1>7 DEF ClearQueues
  <2>2. \A m : Held(m) => Held(m)'
    BY <2>1 DEF Held
  <2> QED
    BY <2>1, <2>2, <1>q, StillHeld
<1>8. CASE Reset
  <2>1. UNCHANGED <<prompts, pending, sent>>
        /\ dropped' = dropped \cup ToSet(steering) \cup ToSet(followUp) \cup ToSet(messages)
    BY <1>8 DEF Reset
  <2>2. \A m : Held(m) => Held(m)'
    BY <2>1 DEF Held
  <2> QED
    BY <2>1, <2>2, <1>q, StillHeld
<1>9. CASE DropFailedReply
  <2>1. messages' = Front(messages) /\ messages # <<>> /\ Last(messages).kind = "reply"
        /\ UNCHANGED <<prompts, pending, steering, followUp, sent, dropped>>
    BY <1>9 DEF DropFailedReply, EndsWithReply
  <2>2. ToSet(messages) = ToSet(messages') \cup {Last(messages)} /\ ~FromUser(Last(messages))
    BY <2>1, <1>q, FrontThenLast DEF FromUser
  <2>3. \A m : FromUser(m) /\ Held(m) => Held(m)'
    BY <2>1, <2>2 DEF Held
  <2> QED
    BY <2>1, <2>3, <1>q, StillHeld
<1>10. CASE PromptEnd
  <2>1. messages' = Append(messages, Head(prompts)) /\ prompts' = Tail(prompts) /\ prompts # <<>>
        /\ UNCHANGED <<pending, steering, followUp, sent, dropped>>
    BY <1>10 DEF PromptEnd, InHand
  <2>2. Head(prompts) \in Messages /\ ToSet(prompts) = {Head(prompts)} \cup ToSet(prompts')
    BY <2>1, <1>q, HeadAndTail
  <2>3. ToSet(messages') = ToSet(messages) \cup {Head(prompts)}
    BY <2>1, <2>2, <1>q, AppendElements
  <2>4. \A m : Held(m) => Held(m)'
    BY <2>1, <2>2, <2>3 DEF Held
  <2> QED
    BY <2>1, <2>4, <1>q, StillHeld
<1>11. CASE FirstPoll \/ PollAfterTurn
  <2>1. UNCHANGED <<messages, prompts, followUp, sent, dropped>> /\ pending = <<>>
        /\ \/ pending' = <<>> /\ steering' = steering
           \/ /\ pending' = Drained(steering, SteeringMode)
              /\ steering' = Left(steering, SteeringMode)
    BY <1>11, <1>h DEF FirstPoll, PollAfterTurn, PollSteering, Announcing
  <2>2. ToSet(steering) \subseteq ToSet(pending') \cup ToSet(steering')
    BY <2>1, <1>q, DrainSplits
  <2>3. \A m : Held(m) => Held(m)'
    BY <2>1, <2>2, <1>e DEF Held
  <2> QED
    BY <2>1, <2>3, <1>q, StillHeld
<1>12. CASE InjectEnd
  <2>1. messages' = Append(messages, Head(pending)) /\ pending' = Tail(pending) /\ pending # <<>>
        /\ UNCHANGED <<prompts, steering, followUp, sent, dropped>>
    BY <1>12 DEF InjectEnd, InHand
  <2>2. Head(pending) \in Messages /\ ToSet(pending) = {Head(pending)} \cup ToSet(pending')
    BY <2>1, <1>q, HeadAndTail
  <2>3. ToSet(messages') = ToSet(messages) \cup {Head(pending)}
    BY <2>1, <2>2, <1>q, AppendElements
  <2>4. \A m : Held(m) => Held(m)'
    BY <2>1, <2>2, <2>3 DEF Held
  <2> QED
    BY <2>1, <2>4, <1>q, StillHeld
<1>13. CASE ReplyEnd \/ FailEnd \/ ResultEnd
  <2>1. \E m \in Messages : messages' = Append(messages, m)
    <3>1. messages' \in Seq(Messages)
      BY <1>13, MessageStep DEF MessageTypes
    <3>2. PICK m : messages' = Append(messages, m)
      BY <1>13 DEF ReplyEnd, FailEnd, ResultEnd
    <3>3. m \in Messages
      BY <3>1, <3>2, <1>q
    <3> QED
      BY <3>2, <3>3
  <2>2. ToSet(messages) \subseteq ToSet(messages')
    BY <2>1, <1>q, AppendElements
  <2>3. UNCHANGED <<prompts, pending, steering, followUp, dropped>>
        /\ (sent' = sent \/ sent' = [sent EXCEPT !["reply"] = NextReply])
    BY <1>13 DEF ReplyEnd, FailEnd, ResultEnd
  <2>4. \A kind \in {"prompt", "steer", "follow"} : sent'[kind] = sent[kind]
    BY <2>3, <1>q DEF Kinds
  <2>5. \A m : Held(m) => Held(m)'
    BY <2>2, <2>3 DEF Held
  <2> QED
    BY <2>4, <2>5, <1>q, StillHeld
<1>14. CASE PollFollowUp
  <2>1. UNCHANGED <<messages, prompts, steering, sent, dropped>> /\ pending = <<>>
        /\ pending' = Drained(followUp, FollowUpMode)
        /\ followUp' = Left(followUp, FollowUpMode)
    BY <1>14 DEF PollFollowUp, WouldStop
  <2>2. ToSet(followUp) = ToSet(pending') \cup ToSet(followUp')
    BY <2>1, <1>q, DrainSplits
  <2>3. \A m : Held(m) => Held(m)'
    BY <2>1, <2>2, <1>e DEF Held
  <2> QED
    BY <2>1, <2>3, <1>q, StillHeld
<1>15. CASE Finish \/ ThrowsAgain
  <2>1. pc \in {"agent_end", "fail_agent_end"} /\ prompts' = <<>> /\ pending' = <<>>
        /\ UNCHANGED <<messages, steering, followUp, sent, dropped>>
    BY <1>15 DEF Finish, ThrowsAgain, FinishRun
  <2>2. \A m : Held(m) => Held(m)'
    BY <2>1, <1>h DEF Held
  <2> QED
    BY <2>1, <2>2, <1>q, StillHeld
<1>16. CASE ListenerThrows \/ ProviderThrows
  <2>1. prompts' = <<>> /\ pending' = <<>>
        /\ UNCHANGED <<messages, steering, followUp, sent, dropped>>
    BY <1>16 DEF ListenerThrows, ProviderThrows, RunFails
  <2>2. prompts = <<>> /\ pending = <<>>
    BY <1>16, <1>h DEF ListenerThrows, ProviderThrows, ReadyToStream, Announcing
  <2>3. \A m : Held(m) => Held(m)'
    BY <2>1, <2>2 DEF Held
  <2> QED
    BY <2>1, <2>3, <1>q, StillHeld
<1>17. CASE \/ Abort \/ FirstTurn \/ PromptStart \/ InjectStart \/ ReplyStart
            \/ InterruptedTurn \/ TurnWithoutCalls \/ NextTurn \/ EndRun
  <2>1. UNCHANGED <<messages, prompts, pending, steering, followUp, sent, dropped>>
    BY <1>17 DEF Abort, FirstTurn, PromptStart, InjectStart, ReplyStart, InterruptedTurn,
                 TurnWithoutCalls, EndTurn, NextTurn, EndRun
  <2> QED
    BY <2>1 DEF NothingLost, Held
<1>18. CASE \/ RunTools \/ AnswerAtOnce \/ RunCall \/ Prepare \/ PrepareNext
            \/ \E i \in DOMAIN calls : FinishCall(i) \/ CallEnded(i)
  <2>1. UNCHANGED <<messages, prompts, pending, steering, followUp, sent, dropped>>
    BY <1>18 DEF RunTools, AnswerAtOnce, RunCall, Prepare, PrepareNext, FinishCall, CallEnded
  <2> QED
    BY <2>1 DEF NothingLost, Held
<1>19. CASE FirstResult \/ NextResult \/ NextCall \/ EndBatch
  <2>1. UNCHANGED <<messages, prompts, pending, steering, followUp, sent, dropped>>
    BY <1>19 DEF FirstResult, NextResult, AnnounceResult, NextCall, EndBatch, EndTurn
  <2> QED
    BY <2>1 DEF NothingLost, Held
<1>20. CASE FailTurnEnd \/ FailRunEnd \/ \E call \in orphans : OrphanEnds(call)
  <2>1. UNCHANGED <<messages, prompts, pending, steering, followUp, sent, dropped>>
    BY <1>20 DEF FailTurnEnd, EndTurn, FailRunEnd, OrphanEnds
  <2> QED
    BY <2>1 DEF NothingLost, Held
<1> QED
  BY <1>1, <1>2, <1>3, <1>4, <1>5, <1>6, <1>7, <1>8, <1>9, <1>10, <1>11, <1>12,
     <1>13, <1>14, <1>15, <1>16, <1>17, <1>18, <1>19, <1>20
     DEF Next, Api, Turns, Batch, Failure

(***************************************************************************)
(* The theorems.                                                           *)
(***************************************************************************)
LEMMA FailureReplyStep ==
    ASSUME FailureReply, Next
    PROVE  FailureReply'
<1> USE DEF agentVars, loopVars, batchVars, history
<1>1. CASE ListenerThrows \/ ProviderThrows
  <2>1. context' = <<Message("reply", NextReply, 0, IF aborted THEN "aborted" ELSE "error")>>
    BY <1>1 DEF ListenerThrows, ProviderThrows, RunFails
  <2> QED
    BY <2>1 DEF FailureReply, Reply, Last, Message
<1>2. CASE Steer \/ FollowUp \/ ClearQueues \/ Abort \/ Reset \/ DropFailedReply
  BY <1>2 DEF FailureReply, Reply, Steer, FollowUp, ClearQueues, Abort, Reset, DropFailedReply
<1>3. CASE \E call \in orphans : OrphanEnds(call)
  BY <1>3 DEF FailureReply, Reply, OrphanEnds
<1>4. CASE Prompt \/ ContinueSteering \/ ContinueFollowUp \/ ContinueTranscript
  BY <1>4 DEF FailureReply, Prompt, ContinueSteering, ContinueFollowUp, ContinueTranscript,
              StartRun
<1>5. CASE Turns
  BY <1>5 DEF FailureReply, Turns, FirstTurn, PromptStart, PromptEnd, FirstPoll, InjectStart,
              InjectEnd, ReplyStart, ReplyEnd, InterruptedTurn, TurnWithoutCalls, EndTurn,
              PollAfterTurn, PollSteering, NextTurn, PollFollowUp, WouldStop, EndRun, Finish,
              FinishRun
<1>6. CASE Batch
  <2>1. pc' # "fail_start"
    BY <1>6 DEF Batch, RunTools, AnswerAtOnce, RunCall, Prepare, PrepareNext, AfterPreparing,
                StartCall, FinishCall, CallEnded, FirstResult, ResultEnd, NextResult,
                AnnounceResult, NextCall, EndBatch, EndTurn
  <2> QED
    BY <2>1 DEF FailureReply
<1>7. CASE FailEnd \/ FailTurnEnd \/ FailRunEnd \/ ThrowsAgain
  BY <1>7 DEF FailureReply, FailEnd, FailTurnEnd, EndTurn, FailRunEnd, ThrowsAgain, FinishRun
<1> QED
  BY <1>1, <1>2, <1>3, <1>4, <1>5, <1>6, <1>7 DEF Next, Api, Failure

\* Neighbours in the order of Lists keep the order of what they hold.
LEMMA ListsAreInOrder ==
    ASSUME TypeOK, ListsInOrder
    PROVE  InOrder
<1>1. SUFFICES ASSUME NEW a \in 1 .. 5, NEW b \in 1 .. 5,
                      NEW i \in DOMAIN Lists[a], NEW j \in DOMAIN Lists[b],
                      a < b \/ (a = b /\ i < j), FromUser(Lists[a][i]),
                      Lists[a][i].kind = Lists[b][j].kind
               PROVE  Lists[a][i].n < Lists[b][j].n
  BY DEF InOrder, Lists
<1>2. Lists[1] = messages /\ Lists[2] = prompts /\ Lists[3] = pending
      /\ Lists[4] = steering /\ Lists[5] = followUp
  BY DEF Lists
<1>3. Lists[a][i] \in ToSet(Lists[a]) /\ Lists[b][j] \in ToSet(Lists[b])
  BY DEF ToSet
<1>4. CASE a = b
  BY <1>1, <1>2, <1>4 DEF ListsInOrder, EachSorted, Sorted
<1>5. CASE a < b /\ a # 4
  <2>1. Older(ToSet(Lists[a]), ToSet(Lists[b]))
    BY <1>2, <1>5 DEF ListsInOrder, InTurn, Older
  <2> QED
    BY <1>1, <1>3, <2>1 DEF Older
<1>6. CASE a < b /\ a = 4
  <2>1. b = 5
    BY <1>6
  <2> QED
    BY <1>1, <1>2, <1>3, <1>6, <2>1 DEF ListsInOrder, QueueKinds
<1> QED
  BY <1>1, <1>4, <1>5, <1>6

LEMMA OrderInvariance == Spec => []OrderInv
<1>1. Init => OrderInv
  BY DEF Init, OrderInv, HandsEmpty, ListsInOrder, EachSorted, Sorted, InTurn, Older,
         QueueKinds, AtMostSent, ToSet, FailureReply
<1>2. IInv /\ OrderInv /\ [Next]_vars => OrderInv'
  <2>1. ASSUME IInv, OrderInv, Next PROVE OrderInv'
    <3>1. pc = "fail_start" => Reply \in Messages /\ Reply.kind = "reply"
      BY <2>1, FrontAndLast
         DEF IInv, InHand, Reply, TypeOK, MessageTypes, OrderInv, FailureReply
    <3> QED
      BY <2>1, <3>1, HandsStep, OrderStep, FailureReplyStep DEF IInv, OrderInv
  <2>2. ASSUME OrderInv, UNCHANGED vars PROVE OrderInv'
    BY <2>2 DEF vars, agentVars, loopVars, batchVars, history, OrderInv, HandsEmpty,
                ListsInOrder, EachSorted, Sorted, InTurn, Older, QueueKinds, AtMostSent,
                FailureReply, Reply
  <2> QED
    BY <2>1, <2>2
<1> QED
  BY <1>1, <1>2, Invariance, PTL DEF Spec

\* Each user message is in one place only and those of a kind reach the
\* transcript in the order they were sent; and unless a listener throws, none
\* disappears: for every mix of prompts, steer, followUp, continue, clear,
\* reset and abort (PendingMessageQueue, runLoop, Agent.continue).
THEOREM MessagesKeptAlways == Spec => []MessagesKept
<1> DEFINE Kept == "listener" \notin Throws => NothingLost
<1>1. Init => Kept
  <2> SUFFICES ASSUME Init, NEW kind \in {"prompt", "steer", "follow"} PROVE 1 .. sent[kind] = {}
    BY DEF NothingLost
  <2>1. sent[kind] = 0
    BY DEF Init, Kinds
  <2> QED
    BY <2>1
<1>2. IInv /\ OrderInv /\ Kept /\ [Next]_vars => Kept'
  <2>1. ASSUME IInv, OrderInv, Kept, Next PROVE Kept'
    <3>1. Throws' = Throws
      BY <2>1 DEF Next, Throws
    <3> QED
      BY <2>1, <3>1, HeldStep DEF IInv, OrderInv
  <2>2. ASSUME Kept, UNCHANGED vars PROVE Kept'
    BY <2>2 DEF vars, agentVars, loopVars, batchVars, history, NothingLost, Held, Throws
  <2> QED
    BY <2>1, <2>2
<1>3. IInv /\ OrderInv /\ Kept => MessagesKept
  BY ListsAreInOrder DEF IInv, OrderInv, MessagesKept
<1> HIDE DEF Kept
<1> QED
  BY <1>1, <1>2, <1>3, Invariance, OrderInvariance, PTL DEF Spec

(***************************************************************************)
(* The two copies of the transcript, the batch of calls and the events:    *)
(* the invariant.                                                          *)
(***************************************************************************)
Announced == {"result_start", "result_end"}
\* The calls of the batch after the r-th have not been reached.
TodoAfter(r) == \A i \in DOMAIN calls : calls[i] = "todo" <=> i > r
\* The batch belongs to the reply, and an abort alone leaves calls untouched.
BatchShape ==
    /\ pc \in InBatch \cup Announced \cup {"reply_end", "fail_start"} => Reply.kind = "reply"
    /\ pc \in InBatch \cup Announced => Reply.k = Len(calls)
    /\ pc \in InBatch \/ (pc \in Announced /\ mode = "sequential") =>
           at \in 1 .. Len(calls) /\ TodoAfter(at)
    /\ pc \in Announced => at \in 1 .. Reached /\ TodoAfter(Reached)
    /\ pc \in Announced \cup {"running"} /\ mode = "parallel" /\ ~aborted =>
           TodoAfter(Len(calls))

\* The results of the first k calls of the n-th reply.
Results(n, k) == [i \in 1 .. k |-> Result(n, i)]
\* How far the transcript is ahead of the context the loop builds.
Copies ==
    /\ pc \in Announcing => context = messages \o prompts
    /\ pc \in Injecting \cup {"reply_end", "turn_end", "last_turn_end"} =>
           context = messages
    /\ pc = "reply_start" => Front(context) = messages
    /\ pc \in InBatch /\ mode = "parallel" => messages = context
    /\ pc \in InBatch /\ mode = "sequential" => messages = context \o Results(Reply.n, at - 1)
    /\ pc = "result_start" => messages = context \o Results(Reply.n, at - 1)
    /\ pc = "result_end" => messages = context \o Results(Reply.n, at)

Turned == Cardinality({i \in DOMAIN log : log[i] = "turn_start"}) > 1
\* The calls of the last reply in a context all have their results.
LastAnswered(ctx) ==
    \A i \in DOMAIN ctx :
        /\ ctx[i].kind = "reply"
        /\ \A j \in i + 1 .. Len(ctx) : ctx[j].kind # "reply"
        => LET last == i + ctx[i].k
           IN last <= Len(ctx) /\ ctx[last].n = ctx[i].n
              /\ ctx[last].kind \in {"reply", "result"}
Settled ==
    /\ pc \in {"turn_end", "polled"} /\ ~aborted => LastAnswered(context)
    /\ pc \in Announcing \cup (Injecting \ {"polled"}) /\ ~aborted /\ Turned =>
           LastAnswered(context)
    /\ pc = "reply_start" /\ Last(context).stop = "none" /\ Turned =>
           LastAnswered(Front(context))
    /\ pc = "reply_start" => Last(context).kind = "partial"
    /\ pc = "agent_start" => \A i \in DOMAIN log : log[i] # "turn_start"
    /\ pc \in Announcing \cup {"first_poll"} => ~Turned

\* The event an await follows.
LastEvents ==
    [p \in PCs |->
        CASE p = "idle" -> Events
          [] p = "agent_start" -> {"agent_start"}
          [] p \in {"first_turn", "turn_start"} -> {"turn_start"}
          [] p \in {"prompt_start", "inject_start", "reply_start", "result_start"} ->
                 {"message_start"}
          [] p \in {"prompt_end", "inject_end", "reply_end", "result_end"} -> {"message_end"}
          [] p = "first_poll" -> {"turn_start", "message_end"}
          [] p = "call_start" -> {"call_start"}
          [] p = "call_end" -> {"call_end"}
          [] p = "running" -> {"call_start", "call_end"}
          [] p \in {"turn_end", "last_turn_end", "polled"} -> {"turn_end"}
          [] p = "agent_end" -> {"agent_end"}
          [] OTHER -> {}]
Nesting ==
    Throws = {} =>
        /\ orphans = {}
        /\ pc # "idle" => log # <<>> /\ Last(log) \in LastEvents[pc]
        /\ pc = "running" /\ Last(log) = "call_start" =>
               \E i \in DOMAIN calls : calls[i] = "running"
        /\ EventsNest

(***************************************************************************)
(* The shape of a batch.                                                   *)
(***************************************************************************)
\* When the calls after the r-th are untouched, and no others, r are reached.
LEMMA ReachedIs ==
    ASSUME CallTypes, NEW r \in 0 .. Len(calls), TodoAfter(r)
    PROVE  Reached = r
<1>1. Len(calls) \in Nat /\ DOMAIN calls = 1 .. Len(calls) /\ r \in Nat
  BY DEF CallTypes
<1>2. {i \in DOMAIN calls : calls[i] # "todo"} = 1 .. r
  BY <1>1 DEF TodoAfter
<1>3. Cardinality(1 .. r) = r
  <2>1. 1 \in Int /\ r \in Int
    BY <1>1
  <2>2. Cardinality(1 .. r) = IF 1 > r THEN 0 ELSE r - 1 + 1
    BY <2>1, FS_Interval
  <2> QED
    BY <1>1, <2>2
<1> QED
  BY <1>2, <1>3 DEF Reached

Shaped == InBatch \cup Announced \cup {"reply_end", "fail_start"}

\* Steps that leave the batch alone, or are outside of it.
LEMMA SameShape ==
    ASSUME BatchShape, UNCHANGED <<pc, mode, calls, at, context>>, ~aborted' => ~aborted
    PROVE  BatchShape'
<1>1. Reached' = Reached /\ Reply' = Reply /\ Len(calls') = Len(calls)
  BY DEF Reached, Reply
<1>2. TodoAfter(at)' <=> TodoAfter(at)
  BY DEF TodoAfter
<1>3. TodoAfter(Len(calls))' <=> TodoAfter(Len(calls))
  BY DEF TodoAfter
<1>4. TodoAfter(Reached)' <=> TodoAfter(Reached)
  BY <1>1 DEF TodoAfter
<1>5. ~aborted' => ~aborted
  OBVIOUS
<1> QED
  BY <1>1, <1>2, <1>3, <1>4, <1>5, Zenon DEF BatchShape

LEMMA NoShape ==
    ASSUME pc' \notin Shaped
    PROVE  BatchShape'
BY DEF BatchShape, Shaped, InBatch, Announced

\* The next call is started behind those already reached.
LEMMA StartShape ==
    ASSUME NEW states \in Seq(Statuses), NEW i \in 1 .. Len(states), StartCall(i, states),
           Reply.kind = "reply", Reply.k = Len(states), UNCHANGED context,
           \A j \in 1 .. Len(states) : states[j] = "todo" <=> j > i - 1
    PROVE  BatchShape'
<1>1. pc' = "call_start" /\ at' = i /\ calls' = [states EXCEPT ![i] = "started"]
  BY DEF StartCall
<1>2. DOMAIN calls' = 1 .. Len(states) /\ calls'[i] = "started" /\ Len(calls') = Len(states)
      /\ \A j \in 1 .. Len(states) : j # i => calls'[j] = states[j]
  BY <1>1
<1>3. Len(states) \in Nat /\ i \in Nat
  OBVIOUS
<1>4. \A j \in 1 .. Len(states) : calls'[j] = "todo" <=> j > i
  BY <1>2, <1>3
<1>5. TodoAfter(at)'
  BY <1>1, <1>2, <1>4 DEF TodoAfter
<1>6. Reply' = Reply
  BY DEF Reply
<1> QED
  BY <1>1, <1>2, <1>5, <1>6 DEF BatchShape, InBatch, Announced

\* A parallel batch goes on to its next call, or runs what it has prepared.
LEMMA PreparingShape ==
    ASSUME CallTypes, NEW states \in Seq(Statuses), Len(states) = Len(calls),
           AfterPreparing(states), mode = "parallel", UNCHANGED <<mode, context, aborted>>,
           Reply.kind = "reply", Reply.k = Len(calls), at \in 1 .. Len(calls),
           \A j \in 1 .. Len(states) : states[j] = "todo" <=> j > at
    PROVE  BatchShape'
<1>1. CASE aborted \/ at = Len(states)
  <2>1. pc' = "running" /\ at' = at
        /\ calls' = [j \in DOMAIN states |->
                        IF states[j] = "prepared" THEN "running" ELSE states[j]]
    BY <1>1 DEF AfterPreparing
  <2>2. DOMAIN calls' = 1 .. Len(states)
        /\ \A j \in 1 .. Len(states) : calls'[j] = "todo" <=> j > at
    BY <2>1
  <2>3. Len(calls') = Len(states)
    BY <2>1
  <2>4. TodoAfter(at)' /\ (~aborted => TodoAfter(Len(calls))')
    BY <1>1, <2>1, <2>2, <2>3 DEF TodoAfter
  <2>5. Reply' = Reply
    BY DEF Reply
  <2> QED
    BY <2>1, <2>3, <2>4, <2>5 DEF BatchShape, InBatch, Announced
<1>2. CASE ~(aborted \/ at = Len(states))
  <2>1. at + 1 \in 1 .. Len(states) /\ StartCall(at + 1, states) /\ (at + 1) - 1 = at
    BY <1>2 DEF AfterPreparing
  <2> QED
    BY <2>1, StartShape
<1> QED
  BY <1>1, <1>2

\* Every step keeps the shape of the batch.
LEMMA ShapeStep ==
    ASSUME TypeOK, InHand, CallPhase, BatchShape, Next
    PROVE  BatchShape'
<1> USE DEF agentVars, loopVars, batchVars, history
<1>t. calls \in Seq(Statuses) /\ Len(calls) \in Nat /\ DOMAIN calls = 1 .. Len(calls)
      /\ at \in 0 .. Len(calls) /\ CallTypes /\ mode \in {"sequential", "parallel"}
      /\ context \in Seq(Messages) /\ messages \in Seq(Messages)
  BY DEF TypeOK, CallTypes, ControlTypes, MessageTypes
<1>1. CASE Prompt \/ ContinueSteering \/ ContinueFollowUp \/ ContinueTranscript
  <2>1. pc' = "agent_start"
    BY <1>1 DEF Prompt, ContinueSteering, ContinueFollowUp, ContinueTranscript, StartRun
  <2> QED
    BY <2>1, NoShape DEF Shaped, InBatch, Announced
<1>2. CASE Steer \/ FollowUp \/ ClearQueues \/ Abort \/ Reset \/ DropFailedReply
  <2>1. UNCHANGED <<pc, mode, calls, at, context>> /\ (~aborted' => ~aborted)
    BY <1>2 DEF Steer, FollowUp, ClearQueues, Abort, Reset, DropFailedReply
  <2> QED
    BY <2>1, SameShape
<1>3. CASE FirstTurn \/ PromptStart \/ PromptEnd \/ FirstPoll \/ InjectStart \/ InjectEnd
  <2>1. pc' \in {"first_turn", "prompt_start", "prompt_end", "first_poll", "inject_start",
                  "inject_end"}
    BY <1>3 DEF FirstTurn, PromptStart, PromptEnd, FirstPoll, PollSteering, InjectStart, InjectEnd
  <2> QED
    BY <2>1, NoShape DEF Shaped, InBatch, Announced
<1>4. CASE ReplyStart \/ InterruptedTurn \/ TurnWithoutCalls \/ PollAfterTurn \/ NextTurn
  <2>1. pc' \in {"reply_start", "last_turn_end", "turn_end", "polled", "turn_start"}
    BY <1>4 DEF ReplyStart, InterruptedTurn, TurnWithoutCalls, EndTurn, PollAfterTurn,
                PollSteering, NextTurn
  <2> QED
    BY <2>1, NoShape DEF Shaped, InBatch, Announced
<1>5. CASE PollFollowUp \/ EndRun \/ Finish \/ ThrowsAgain \/ EndBatch
  <2>1. pc' \in {"polled", "agent_end", "idle", "turn_end"}
    BY <1>5 DEF PollFollowUp, WouldStop, EndRun, Finish, ThrowsAgain, FinishRun, EndBatch, EndTurn
  <2> QED
    BY <2>1, NoShape DEF Shaped, InBatch, Announced
<1>6. CASE FailEnd \/ FailTurnEnd \/ FailRunEnd
  <2>1. pc' \in {"fail_end", "fail_turn_end", "fail_agent_end"}
    BY <1>6 DEF FailEnd, FailTurnEnd, EndTurn, FailRunEnd
  <2> QED
    BY <2>1, NoShape DEF Shaped, InBatch, Announced
<1>7. CASE ReplyEnd
  <2>1. PICK reply \in Replies : context' = Append(Front(context), reply)
    BY <1>7 DEF ReplyEnd
  <2>2. reply \in Messages
    BY RepliesType DEF TypeOK, MessageTypes, Kinds
  <2>3. reply.kind = "reply"
    BY DEF Replies, Message
  <2>4. Front(context) \in Seq(Messages)
    BY <1>7, <1>t, FrontThenLast DEF InHand, ReplyEnd
  <2>5. Last(context') = reply
    BY <2>1, <2>2, <2>4 DEF Last
  <2> QED
    BY <1>7, <2>3, <2>5 DEF ReplyEnd, BatchShape, Reply, InBatch, Announced
<1>8. CASE RunTools
  <2> DEFINE todo == [i \in 1 .. Reply.k |-> "todo"]
  <2>1. pc = "reply_end" /\ StartCall(1, todo) /\ UNCHANGED context /\ Reply.k > 0
    BY <1>8 DEF RunTools
  <2>2. Reply.k \in Nat /\ Reply.kind = "reply"
    BY <2>1, FrontAndLast, KnownMessages DEF InHand, Reply, TypeOK, MessageTypes, BatchShape
  <2>3. todo \in Seq(Statuses) /\ Len(todo) = Reply.k /\ 1 \in 1 .. Len(todo)
    BY <2>1, <2>2 DEF Statuses
  <2>4. \A j \in 1 .. Len(todo) : todo[j] = "todo" /\ j > 1 - 1
    BY <2>2, <2>3
  <2> HIDE DEF todo
  <2> QED
    BY <2>1, <2>2, <2>3, <2>4, StartShape
<1>9. CASE AnswerAtOnce \/ RunCall
  <2>1. PICK status \in {"immediate", "running"} : calls' = [calls EXCEPT ![at] = status]
    BY <1>9 DEF AnswerAtOnce, RunCall
  <2>2. pc = "call_start" /\ pc' \in {"call_end", "running"} /\ UNCHANGED <<at, mode, context>>
        /\ (pc' = "running" => mode = "sequential")
    BY <1>9 DEF AnswerAtOnce, RunCall
  <2>3. at \in 1 .. Len(calls) /\ TodoAfter(at) /\ Reply.kind = "reply" /\ Reply.k = Len(calls)
    BY <2>2 DEF BatchShape, InBatch
  <2>4. DOMAIN calls' = DOMAIN calls /\ Len(calls') = Len(calls) /\ calls'[at] # "todo"
        /\ \A i \in DOMAIN calls : i # at => calls'[i] = calls[i]
    BY <2>1, <2>3, <1>t
  <2>5. TodoAfter(at)'
    BY <2>2, <2>3, <2>4 DEF TodoAfter
  <2>6. Reply' = Reply
    BY <2>2 DEF Reply
  <2> QED
    BY <2>2, <2>3, <2>4, <2>5, <2>6 DEF BatchShape, InBatch, Announced
<1>10. CASE Prepare
  <2> DEFINE states == [calls EXCEPT ![at] = "prepared"]
  <2>1. pc = "call_start" /\ mode = "parallel" /\ AfterPreparing(states)
        /\ UNCHANGED <<context, mode, aborted>>
    BY <1>10 DEF Prepare
  <2>2. at \in 1 .. Len(calls) /\ TodoAfter(at) /\ Reply.kind = "reply" /\ Reply.k = Len(calls)
    BY <2>1 DEF BatchShape, InBatch
  <2>3. states \in Seq(Statuses) /\ Len(states) = Len(calls)
    BY <1>t, <2>2, SetCallTypes DEF Statuses
  <2>4. states[at] = "prepared" /\ \A j \in 1 .. Len(states) : j # at => states[j] = calls[j]
    BY <1>t, <2>2, <2>3
  <2> HIDE DEF states
  <2>5. \A j \in 1 .. Len(states) : states[j] = "todo" <=> j > at
    BY <1>t, <2>2, <2>3, <2>4 DEF TodoAfter
  <2> QED
    BY <1>t, <2>1, <2>2, <2>3, <2>5, PreparingShape
<1>11. CASE PrepareNext
  <2>1. pc = "call_end" /\ mode = "parallel" /\ AfterPreparing(calls)
        /\ UNCHANGED <<context, mode, aborted>>
    BY <1>11 DEF PrepareNext
  <2>2. at \in 1 .. Len(calls) /\ TodoAfter(at) /\ Reply.kind = "reply" /\ Reply.k = Len(calls)
    BY <2>1 DEF BatchShape, InBatch
  <2>3. \A j \in 1 .. Len(calls) : calls[j] = "todo" <=> j > at
    BY <1>t, <2>2 DEF TodoAfter
  <2> QED
    BY <1>t, <2>1, <2>2, <2>3, PreparingShape
<1>12. CASE \E i \in DOMAIN calls : FinishCall(i) \/ CallEnded(i)
  <2>1. PICK i \in DOMAIN calls : FinishCall(i) \/ CallEnded(i)
    BY <1>12
  <2>2. pc = "running" /\ UNCHANGED <<pc, at, mode, context, aborted>>
    BY <2>1 DEF FinishCall, CallEnded
  <2>3. calls[i] # "todo" /\ \E status \in {"ending", "done"} : calls' = [calls EXCEPT ![i] = status]
    BY <2>1 DEF FinishCall, CallEnded
  <2>4. DOMAIN calls' = DOMAIN calls /\ Len(calls') = Len(calls)
        /\ \A j \in DOMAIN calls : calls'[j] = "todo" <=> calls[j] = "todo"
    BY <2>3, <1>t
  <2>5. at \in 1 .. Len(calls) /\ TodoAfter(at) /\ Reply.kind = "reply" /\ Reply.k = Len(calls)
        /\ (mode = "parallel" /\ ~aborted => TodoAfter(Len(calls)))
    BY <2>2 DEF BatchShape, InBatch
  <2>6. TodoAfter(at)' /\ (mode = "parallel" /\ ~aborted => TodoAfter(Len(calls))')
    BY <2>2, <2>4, <2>5 DEF TodoAfter
  <2>7. Reply' = Reply
    BY <2>2 DEF Reply
  <2> QED
    BY <2>2, <2>4, <2>5, <2>6, <2>7 DEF BatchShape, InBatch, Announced
<1>13. CASE FirstResult
  <2>1. pc \in {"running", "call_end"} /\ (pc = "call_end" => mode = "sequential")
        /\ pc' = "result_start" /\ UNCHANGED <<mode, calls, context, aborted>>
        /\ at' = IF mode = "parallel" THEN 1 ELSE at
    BY <1>13 DEF FirstResult, AnnounceResult
  <2>2. at \in 1 .. Len(calls) /\ TodoAfter(at) /\ Reply.kind = "reply" /\ Reply.k = Len(calls)
        /\ (mode = "parallel" /\ ~aborted => TodoAfter(Len(calls)))
    BY <2>1 DEF BatchShape, InBatch
  <2>3. Reached = at /\ Reached' = Reached /\ Reply' = Reply
    BY <1>t, <2>1, <2>2, ReachedIs DEF Reached, Reply
  <2>4. at' \in 1 .. Reached /\ at' \in 1 .. Len(calls)
    BY <2>1, <2>2, <2>3
  <2> QED
    BY <1>t, <2>1, <2>2, <2>3, <2>4 DEF BatchShape, InBatch, Announced, TodoAfter
<1>14. CASE ResultEnd
  <2>1. pc = "result_start" /\ pc' = "result_end" /\ UNCHANGED <<mode, calls, at, context, aborted>>
    BY <1>14 DEF ResultEnd
  <2>2. Reached' = Reached /\ Reply' = Reply
    BY <2>1 DEF Reached, Reply
  <2> QED
    BY <2>1, <2>2 DEF BatchShape, InBatch, Announced, TodoAfter
<1>15. CASE NextResult
  <2>1. pc = "result_end" /\ pc' = "result_start" /\ mode = "parallel" /\ at' = at + 1
        /\ at < Reached /\ UNCHANGED <<mode, calls, context, aborted>>
    BY <1>15 DEF NextResult, AnnounceResult
  <2>2. Reached' = Reached /\ Reply' = Reply
    BY <2>1 DEF Reached, Reply
  <2>3. at' \in 1 .. Reached
    BY <1>t, <2>1, ReachedType
  <2> QED
    BY <2>1, <2>2, <2>3 DEF BatchShape, InBatch, Announced, TodoAfter
<1>16. CASE NextCall
  <2>1. pc = "result_end" /\ mode = "sequential" /\ at < Len(calls) /\ StartCall(at + 1, calls)
        /\ UNCHANGED context
    BY <1>16 DEF NextCall
  <2>2. at \in 1 .. Len(calls) /\ TodoAfter(at) /\ Reply.kind = "reply" /\ Reply.k = Len(calls)
    BY <2>1 DEF BatchShape, Announced
  <2>3. at + 1 \in 1 .. Len(calls) /\ (at + 1) - 1 = at
    BY <1>t, <2>1, <2>2
  <2>4. \A j \in 1 .. Len(calls) : calls[j] = "todo" <=> j > at
    BY <1>t, <2>2 DEF TodoAfter
  <2> QED
    BY <1>t, <2>1, <2>2, <2>3, <2>4, StartShape
<1>17. CASE ListenerThrows \/ ProviderThrows
  <2>1. pc' = "fail_start"
        /\ context' = <<Message("reply", NextReply, 0, IF aborted THEN "aborted" ELSE "error")>>
    BY <1>17 DEF ListenerThrows, ProviderThrows, RunFails
  <2>2. Last(context').kind = "reply"
    BY <2>1 DEF Last, Message
  <2> QED
    BY <2>1, <2>2 DEF BatchShape, Reply, InBatch, Announced
<1>18. CASE \E call \in orphans : OrphanEnds(call)
  <2>1. UNCHANGED <<pc, mode, calls, at, context, aborted>>
    BY <1>18 DEF OrphanEnds
  <2> QED
    BY <2>1, SameShape
<1> QED
  BY <1>1, <1>2, <1>3, <1>4, <1>5, <1>6, <1>7, <1>8, <1>9, <1>10, <1>11, <1>12,
     <1>13, <1>14, <1>15, <1>16, <1>17, <1>18
     DEF Next, Api, Turns, Batch, Failure

(***************************************************************************)
(* The two copies of the transcript.                                       *)
(***************************************************************************)
\* Results are added one by one behind the context.
LEMMA ResultsGrow ==
    ASSUME NEW c \in Seq(Messages), NEW n \in Nat, NEW k \in Nat
    PROVE  /\ Results(n, k) \in Seq(Messages) /\ Len(Results(n, k)) = k
           /\ c \o Results(n, 0) = c
           /\ Append(c \o Results(n, k), Result(n, k + 1)) = c \o Results(n, k + 1)
<1>1. \A l \in Nat : Results(n, l) \in Seq(Messages) /\ Len(Results(n, l)) = l
                     /\ \A i \in 1 .. l : Results(n, l)[i] = Result(n, i)
  BY KnownMessages DEF Results
<1>2. Results(n, 0) = <<>>
  BY <1>1, EmptySeq
<1>3. c \o Results(n, 0) = c
  BY <1>2, ConcatEmptySeq
<1> DEFINE s == c \o Results(n, k)
           l == Append(s, Result(n, k + 1))
           r == c \o Results(n, k + 1)
<1>4. s \in Seq(Messages) /\ Len(s) = Len(c) + k
      /\ (\A i \in 1 .. Len(c) : s[i] = c[i])
      /\ (\A i \in 1 .. k : s[Len(c) + i] = Result(n, i))
  BY <1>1, ConcatElements
<1>5. k + 1 \in Nat /\ Result(n, k + 1) \in Messages /\ Len(c) \in Nat
  BY KnownMessages
<1>6. r \in Seq(Messages) /\ Len(r) = Len(c) + (k + 1)
      /\ (\A i \in 1 .. Len(c) : r[i] = c[i])
      /\ (\A i \in 1 .. k + 1 : r[Len(c) + i] = Result(n, i))
  <2> DEFINE t == Results(n, k + 1)
  <2>1. t \in Seq(Messages) /\ Len(t) = k + 1 /\ \A i \in 1 .. k + 1 : t[i] = Result(n, i)
    BY <1>1, <1>5
  <2> HIDE DEF t
  <2>2. c \o t \in Seq(Messages) /\ Len(c \o t) = Len(c) + Len(t)
        /\ (\A i \in 1 .. Len(c) : (c \o t)[i] = c[i])
        /\ (\A i \in 1 .. Len(t) : (c \o t)[Len(c) + i] = t[i])
    <3>1. c \in Seq(Messages) /\ t \in Seq(Messages)
      BY <2>1
    <3> QED
      BY ONLY <3>1, ConcatElements
  <2>3. r = c \o t
    BY DEF t
  <2> HIDE DEF r
  <2> QED
    BY ONLY <2>1, <2>2, <2>3
<1> HIDE DEF s, r
<1>7. l \in Seq(Messages) /\ Len(l) = Len(s) + 1
      /\ (\A i \in 1 .. Len(s) : l[i] = s[i]) /\ l[Len(s) + 1] = Result(n, k + 1)
  BY <1>4, <1>5, AppendElements
<1> HIDE DEF l
<1>8. ASSUME NEW i \in 1 .. Len(l) PROVE l[i] = r[i]
  <2>1. CASE i <= Len(c)
    BY <1>4, <1>5, <1>6, <1>7, <2>1
  <2>2. CASE i > Len(c) /\ i <= Len(c) + k
    <3>1. i - Len(c) \in 1 .. k /\ i - Len(c) \in 1 .. k + 1 /\ i = Len(c) + (i - Len(c))
      BY <2>2, <1>5
    <3>2. l[i] = s[i]
      BY <1>4, <1>5, <1>7, <2>2
    <3> QED
      BY <1>4, <1>6, <3>1, <3>2
  <2>3. CASE i = Len(c) + (k + 1)
    <3>1. k + 1 \in 1 .. k + 1
      BY <1>5
    <3> QED
      BY <1>4, <1>5, <1>6, <1>7, <2>3, <3>1
  <2> QED
    BY <1>4, <1>5, <1>7, <2>1, <2>2, <2>3
<1>9. l = r
  <2>1. Len(l) = Len(r)
    BY <1>4, <1>5, <1>6, <1>7
  <2> QED
    BY <1>6, <1>7, <1>8, <2>1, SeqEqual
<1> QED
  BY <1>1, <1>3, <1>9 DEF l, s, r

\* The prompts are announced one by one from the front.
LEMMA AnnounceOne ==
    ASSUME NEW s \in Seq(Messages), NEW t \in Seq(Messages), t # <<>>
    PROVE  Append(s, Head(t)) \o Tail(t) = s \o t
<1> DEFINE h == Head(t)
           r == Tail(t)
           a == Append(s, h)
           x == a \o r
           y == s \o t
<1>1. h = t[1] /\ h \in Messages /\ r \in Seq(Messages) /\ Len(t) = Len(r) + 1
      /\ (\A i \in 1 .. Len(r) : r[i] = t[i + 1])
  BY HeadAndTail
<1> HIDE DEF h, r
<1>2. a \in Seq(Messages) /\ Len(a) = Len(s) + 1
      /\ (\A i \in 1 .. Len(s) : a[i] = s[i]) /\ a[Len(s) + 1] = h
  BY <1>1, AppendElements
<1> HIDE DEF a
<1>3. x \in Seq(Messages) /\ Len(x) = Len(a) + Len(r)
      /\ (\A i \in 1 .. Len(a) : x[i] = a[i])
      /\ (\A i \in 1 .. Len(r) : x[Len(a) + i] = r[i])
  <2>1. a \in Seq(Messages) /\ r \in Seq(Messages)
    BY <1>1, <1>2
  <2> QED
    BY ONLY <2>1, ConcatElements DEF x
<1>4. y \in Seq(Messages) /\ Len(y) = Len(s) + Len(t)
      /\ (\A i \in 1 .. Len(s) : y[i] = s[i])
      /\ (\A i \in 1 .. Len(t) : y[Len(s) + i] = t[i])
  BY ConcatElements
<1> HIDE DEF x, y
<1>5. Len(s) \in Nat /\ Len(r) \in Nat
  BY <1>1
<1>6. ASSUME NEW i \in 1 .. Len(x) PROVE x[i] = y[i]
  <2>1. CASE i <= Len(s)
    BY <1>2, <1>3, <1>4, <1>5, <2>1
  <2>2. CASE i = Len(s) + 1
    <3>1. 1 \in 1 .. Len(t)
      BY <1>1, <1>5
    <3> QED
      BY <1>1, <1>2, <1>3, <1>4, <1>5, <2>2, <3>1
  <2>3. CASE i > Len(s) + 1
    <3>1. PICK j \in 1 .. Len(r) : i = Len(a) + j
      <4>1. i - Len(a) \in 1 .. Len(r) /\ i = Len(a) + (i - Len(a))
        BY <1>2, <1>3, <1>5, <2>3
      <4> QED
        BY <4>1
    <3>2. j + 1 \in 1 .. Len(t) /\ i = Len(s) + (j + 1)
      BY <1>1, <1>2, <1>5, <3>1
    <3>3. x[i] = r[j] /\ r[j] = t[j + 1] /\ y[i] = t[j + 1]
      BY <1>1, <1>3, <1>4, <3>1, <3>2
    <3> QED
      BY <3>3
  <2> QED
    BY <1>5, <2>1, <2>2, <2>3
<1>7. Len(x) = Len(y)
  BY <1>1, <1>2, <1>3, <1>4, <1>5
<1>8. x = y
  BY <1>3, <1>4, <1>6, <1>7, SeqEqual
<1> QED
  BY <1>8 DEF x, y, a, h, r

\* Steps that move no message leave the copies as they are.
LEMMA SameCopies ==
    ASSUME Copies, UNCHANGED <<pc, messages, context, prompts, mode, at>>
    PROVE  Copies'
<1>1. Reply' = Reply
  BY DEF Reply
<1>2. Results(Reply.n, at)' = Results(Reply.n, at)
      /\ Results(Reply.n, at - 1)' = Results(Reply.n, at - 1)
  BY <1>1 DEF Results, Result, Message
<1> QED
  BY <1>2 DEF Copies

\* Every step keeps the distance between the copies, without a reset in a run.
LEMMA CopiesStep ==
    ASSUME TypeOK, InHand, BatchShape, Copies, ~ResetInRun, Next
    PROVE  Copies'
<1> USE DEF Announcing, Injecting, InBatch, agentVars, loopVars, batchVars, history
<1>t. messages \in Seq(Messages) /\ context \in Seq(Messages) /\ prompts \in Seq(Messages)
      /\ CallTypes /\ at \in Nat /\ mode \in {"sequential", "parallel"}
  BY KnownMessages DEF TypeOK, MessageTypes, CallTypes, ControlTypes
<1>r. pc # "idle" => Reply.n \in Nat /\ Reply.k \in Nat
  BY <1>t, FrontAndLast, KnownMessages DEF InHand, Reply
<1>1. CASE Prompt \/ ContinueSteering \/ ContinueFollowUp \/ ContinueTranscript
  <2>1. pc' = "agent_start" /\ context' = messages' \o prompts'
    BY <1>1 DEF Prompt, ContinueSteering, ContinueFollowUp, ContinueTranscript, StartRun
  <2> QED
    BY <2>1 DEF Copies
<1>2. CASE Reset \/ DropFailedReply
  <2>1. pc' = "idle"
    BY <1>2 DEF Reset, DropFailedReply
  <2> QED
    BY <2>1 DEF Copies
<1>3. CASE Steer \/ FollowUp \/ ClearQueues \/ Abort \/ \E call \in orphans : OrphanEnds(call)
  <2>1. UNCHANGED <<pc, messages, context, prompts, mode, at>>
    BY <1>3 DEF Steer, FollowUp, ClearQueues, Abort, OrphanEnds
  <2> QED
    BY <2>1, SameCopies
<1>4. CASE FirstTurn \/ PromptStart
  <2>1. pc \in Announcing /\ pc' \in {"first_turn", "prompt_start"}
        /\ UNCHANGED <<messages, context, prompts>>
    BY <1>4 DEF FirstTurn, PromptStart
  <2> QED
    BY <2>1 DEF Copies
<1>5. CASE PromptEnd
  <2>1. pc = "prompt_start" /\ pc' = "prompt_end" /\ messages' = Append(messages, Head(prompts))
        /\ prompts' = Tail(prompts) /\ UNCHANGED context /\ prompts # <<>>
    BY <1>5 DEF PromptEnd, InHand
  <2>2. context = messages \o prompts
    BY <2>1 DEF Copies
  <2>3. messages' \o prompts' = messages \o prompts
    BY <1>t, <2>1, AnnounceOne
  <2> QED
    BY <2>1, <2>2, <2>3 DEF Copies
<1>6. CASE FirstPoll
  <2>1. pc \in Announcing /\ pc' = "first_poll" /\ prompts = <<>> /\ UNCHANGED <<messages, context>>
    BY <1>6 DEF FirstPoll, PollSteering
  <2>2. context = messages
    BY <1>t, <2>1, ConcatEmptySeq DEF Copies
  <2> QED
    BY <2>1, <2>2 DEF Copies
<1>7. CASE InjectStart \/ PollAfterTurn \/ NextTurn \/ PollFollowUp \/ InterruptedTurn
            \/ TurnWithoutCalls
  <2>1. pc \in Injecting \cup {"reply_end", "turn_end"}
        /\ pc' \in {"inject_start", "polled", "turn_start", "last_turn_end", "turn_end"}
        /\ UNCHANGED <<messages, context>>
    BY <1>7 DEF InjectStart, PollAfterTurn, PollSteering, NextTurn, PollFollowUp, WouldStop,
                InterruptedTurn, TurnWithoutCalls, EndTurn
  <2> QED
    BY <2>1 DEF Copies
<1>8. CASE InjectEnd
  <2>1. pc = "inject_start" /\ pc' = "inject_end" /\ messages' = Append(messages, Head(pending))
        /\ context' = Append(context, Head(pending))
    BY <1>8 DEF InjectEnd
  <2> QED
    BY <2>1 DEF Copies
<1>9. CASE ReplyStart
  <2>1. pc \in Injecting /\ pc' = "reply_start" /\ context' = Append(context, Partial)
        /\ UNCHANGED messages
    BY <1>9 DEF ReplyStart, ReadyToStream
  <2>2. Front(context') = context
    <3>1. Partial \in Messages
      <4>1. NextReply \in Nat /\ (IF aborted THEN "aborted" ELSE "none") \in Stops
        BY DEF NextReply, TypeOK, MessageTypes, Kinds, Stops
      <4> QED
        BY <4>1, KnownMessages DEF Partial
    <3> QED
      BY <1>t, <2>1, <3>1, FrontOfAppend
  <2> QED
    BY <2>1, <2>2 DEF Copies
<1>10. CASE ReplyEnd
  <2>1. PICK reply \in Replies : context' = Append(Front(context), reply)
                                 /\ messages' = Append(messages, reply)
    BY <1>10 DEF ReplyEnd
  <2>2. pc = "reply_start" /\ pc' = "reply_end"
    BY <1>10 DEF ReplyEnd
  <2> QED
    BY <2>1, <2>2 DEF Copies
<1>11. CASE \/ EndRun \/ Finish \/ ListenerThrows \/ ProviderThrows
            \/ FailEnd \/ FailTurnEnd \/ FailRunEnd \/ ThrowsAgain
  <2>1. pc' \in {"agent_end", "idle"} \cup Failing
    BY <1>11 DEF EndRun, Finish, FinishRun, ListenerThrows, ProviderThrows, RunFails,
                 FailEnd, FailTurnEnd, EndTurn, FailRunEnd, ThrowsAgain, Failing
  <2> QED
    BY <2>1 DEF Copies, Failing
<1>12. CASE RunTools
  <2>1. pc = "reply_end" /\ pc' = "call_start" /\ at' = 1 /\ UNCHANGED <<messages, context>>
    BY <1>12 DEF RunTools, StartCall
  <2>2. context = messages /\ Reply' = Reply
    BY <2>1 DEF Copies, Reply
  <2>3. context \o Results(Reply.n, 0) = context
    BY <1>t, <1>r, <2>1, ResultsGrow
  <2>4. at' - 1 = 0
    BY <2>1
  <2>5. context' \o Results(Reply'.n, at' - 1) = context'
    BY <2>1, <2>2, <2>3, <2>4
  <2> QED
    BY <2>1, <2>2, <2>5 DEF Copies
<1>13. CASE AnswerAtOnce \/ RunCall \/ \E i \in DOMAIN calls : FinishCall(i) \/ CallEnded(i)
  <2>1. pc \in InBatch /\ pc' \in InBatch /\ UNCHANGED <<messages, context, mode, at>>
    BY <1>13 DEF AnswerAtOnce, RunCall, FinishCall, CallEnded
  <2>2. Reply' = Reply
    BY <2>1 DEF Reply
  <2>3. Results(Reply'.n, at' - 1) = Results(Reply.n, at - 1)
    BY <2>1, <2>2
  <2> QED
    BY <2>1, <2>3 DEF Copies
<1>14. CASE Prepare \/ PrepareNext
  <2>1. pc \in InBatch /\ pc' \in InBatch /\ mode = "parallel" /\ UNCHANGED <<messages, context, mode>>
    BY <1>14 DEF Prepare, PrepareNext, AfterPreparing, StartCall
  <2> QED
    BY <2>1 DEF Copies
<1>15. CASE FirstResult
  <2>1. pc \in InBatch /\ pc' = "result_start" /\ UNCHANGED <<messages, context>>
        /\ at' = IF mode = "parallel" THEN 1 ELSE at
    BY <1>15 DEF FirstResult, AnnounceResult
  <2>2. Reply' = Reply
    BY <2>1 DEF Reply
  <2>3. messages = context \o Results(Reply.n, at' - 1)
    <3>1. CASE mode = "parallel"
      <4>1. messages = context /\ at' - 1 = 0
        BY <2>1, <3>1 DEF Copies
      <4>2. context \o Results(Reply.n, 0) = context
        BY <1>t, <1>r, <2>1, ResultsGrow
      <4> QED
        BY <4>1, <4>2
    <3>2. CASE mode = "sequential"
      <4>1. messages = context \o Results(Reply.n, at - 1) /\ at' = at
        BY <2>1, <3>2 DEF Copies
      <4> QED
        BY <4>1
    <3> QED
      BY <1>t, <3>1, <3>2
  <2> QED
    BY <2>1, <2>2, <2>3 DEF Copies
<1>16. CASE ResultEnd
  <2>1. pc = "result_start" /\ pc' = "result_end" /\ UNCHANGED <<context, at>>
        /\ messages' = Append(messages, Result(Reply.n, at))
    BY <1>16 DEF ResultEnd
  <2>2. PICK k \in Nat : at = k + 1
    <3>1. at - 1 \in Nat /\ at = (at - 1) + 1
      BY <1>t, <2>1, ReachedType DEF BatchShape, Announced
    <3> QED
      BY <3>1
  <2>3. at - 1 = k
    BY <2>2
  <2>4. messages = context \o Results(Reply.n, k)
    BY <2>1, <2>3 DEF Copies
  <2>5. messages' = context \o Results(Reply.n, at)
    <3>1. Append(context \o Results(Reply.n, k), Result(Reply.n, k + 1))
              = context \o Results(Reply.n, k + 1)
      BY <1>t, <1>r, <2>1, ResultsGrow
    <3> QED
      BY <2>1, <2>2, <2>4, <3>1
  <2>6. Reply' = Reply
    BY <2>1 DEF Reply
  <2> QED
    BY <2>1, <2>5, <2>6 DEF Copies
<1>17. CASE NextResult
  <2>1. pc = "result_end" /\ pc' = "result_start" /\ at' = at + 1 /\ UNCHANGED <<messages, context>>
    BY <1>17 DEF NextResult, AnnounceResult
  <2>2. Reply' = Reply /\ at' - 1 = at
    BY <1>t, <2>1 DEF Reply
  <2> QED
    BY <2>1, <2>2 DEF Copies
<1>18. CASE NextCall
  <2>1. pc = "result_end" /\ pc' = "call_start" /\ at' = at + 1 /\ mode = "sequential"
        /\ UNCHANGED <<messages, context, mode>>
    BY <1>18 DEF NextCall, StartCall
  <2>2. Reply' = Reply /\ at' - 1 = at
    BY <1>t, <2>1 DEF Reply
  <2> QED
    BY <2>1, <2>2 DEF Copies
<1>19. CASE EndBatch
  <2>1. pc = "result_end" /\ pc' = "turn_end" /\ UNCHANGED messages
        /\ context' = context \o Results(Reply.n, Reached)
    BY <1>19 DEF EndBatch, EndTurn, Results
  <2>2. Reached = at
    BY <1>19, <1>t, <2>1, ReachedIs DEF EndBatch, BatchShape, Announced
  <2> QED
    BY <2>1, <2>2 DEF Copies
<1> QED
  BY <1>1, <1>2, <1>3, <1>4, <1>5, <1>6, <1>7, <1>8, <1>9, <1>10, <1>11, <1>12,
     <1>13, <1>14, <1>15, <1>16, <1>17, <1>18, <1>19
     DEF Next, Api, Turns, Batch, Failure

(***************************************************************************)
(* Results behind their reply.                                             *)
(***************************************************************************)
\* A message that is not a result disturbs no earlier result.
LEMMA PlainMessage ==
    ASSUME ResultsInOrder, messages \in Seq(Messages), NEW m \in Messages, m.kind # "result",
           messages' = Append(messages, m)
    PROVE  ResultsInOrder'
<1>1. DOMAIN messages = 1 .. Len(messages) /\ DOMAIN messages' = 1 .. Len(messages) + 1
      /\ Len(messages) \in Nat
      /\ (\A i \in 1 .. Len(messages) : messages'[i] = messages[i])
      /\ messages'[Len(messages) + 1] = m
  BY AppendElements
<1>2. SUFFICES ASSUME NEW j \in DOMAIN messages', messages'[j].kind = "result"
               PROVE  LET i == j - messages'[j].k
                      IN i > 0 /\ messages'[i].kind = "reply" /\ messages'[i].n = messages'[j].n
  BY DEF ResultsInOrder
<1>3. j \in 1 .. Len(messages) /\ messages'[j] = messages[j]
  BY <1>1, <1>2
<1> DEFINE i == j - messages[j].k
<1>4. messages[j] \in Messages /\ messages[j].k \in Nat
  BY <1>3, KnownMessages
<1>5. i > 0 /\ messages[i].kind = "reply" /\ messages[i].n = messages[j].n
  BY <1>1, <1>2, <1>3 DEF ResultsInOrder
<1>6. i \in 1 .. Len(messages)
  BY <1>3, <1>4, <1>5
<1>7. messages'[i] = messages[i]
  BY <1>1, <1>6
<1> QED
  BY <1>3, <1>5, <1>7

\* Every step keeps each result behind its reply, without a reset in a run.
LEMMA ResultsStep ==
    ASSUME TypeOK, InHand, BatchShape, Copies, FailureReply, ResultsInOrder, Next
    PROVE  ResultsInOrder'
<1> USE DEF agentVars, loopVars, batchVars, history
<1>t. messages \in Seq(Messages) /\ context \in Seq(Messages)
      /\ prompts \in Seq(UserMessages) /\ pending \in Seq(UserMessages)
      /\ CallTypes /\ at \in Nat
  BY DEF TypeOK, MessageTypes, CallTypes
<1>r. pc # "idle" => context # <<>> /\ Reply \in Messages /\ Reply.n \in Nat /\ Reply.k \in Nat
  BY <1>t, FrontAndLast, KnownMessages DEF InHand, Reply
<1>u. \A m \in UserMessages : m \in Messages /\ m.kind # "result"
  BY KnownMessages DEF UserMessages
<1>1. CASE Reset
  <2>1. messages' = <<>>
    BY <1>1 DEF Reset
  <2> QED
    BY <2>1 DEF ResultsInOrder
<1>2. CASE DropFailedReply
  <2> DEFINE f == Front(messages)
  <2>1. messages # <<>> /\ messages' = f
    BY <1>2 DEF DropFailedReply, EndsWithReply
  <2>2. f \in Seq(Messages) /\ Len(messages) = Len(f) + 1
        /\ (\A i \in 1 .. Len(f) : f[i] = messages[i])
        /\ DOMAIN f = 1 .. Len(f) /\ DOMAIN messages = 1 .. Len(messages) /\ Len(f) \in Nat
    <3>1. f \in Seq(Messages) /\ Len(messages) = Len(f) + 1
          /\ \A i \in 1 .. Len(f) : f[i] = messages[i]
      BY <1>t, <2>1, FrontThenLast
    <3> HIDE DEF f
    <3> QED
      BY <1>t, <3>1
  <2> HIDE DEF f
  <2>3. SUFFICES ASSUME NEW j \in 1 .. Len(f), f[j].kind = "result"
                 PROVE  LET i == j - f[j].k
                        IN i > 0 /\ f[i].kind = "reply" /\ f[i].n = f[j].n
    BY <2>1, <2>2 DEF ResultsInOrder
  <2>4. f[j] = messages[j] /\ j \in 1 .. Len(messages) /\ f[j].k \in Nat
    BY <2>2, KnownMessages
  <2> DEFINE i == j - f[j].k
  <2>5. i > 0 /\ messages[i].kind = "reply" /\ messages[i].n = f[j].n
    BY <2>2, <2>3, <2>4 DEF ResultsInOrder
  <2>6. i \in 1 .. Len(f)
    BY <2>2, <2>4, <2>5
  <2>7. f[i] = messages[i]
    BY <2>2, <2>6
  <2> QED
    BY <2>5, <2>7
<1>3. CASE PromptEnd
  <2>1. messages' = Append(messages, Head(prompts)) /\ prompts # <<>>
    BY <1>3 DEF PromptEnd, InHand
  <2>2. Head(prompts) \in UserMessages
    BY <1>t, <2>1, HeadAndTail
  <2> QED
    BY <1>t, <1>u, <2>1, <2>2, PlainMessage
<1>4. CASE InjectEnd
  <2>1. messages' = Append(messages, Head(pending)) /\ pending # <<>>
    BY <1>4 DEF InjectEnd, InHand
  <2>2. Head(pending) \in UserMessages
    BY <1>t, <2>1, HeadAndTail
  <2> QED
    BY <1>t, <1>u, <2>1, <2>2, PlainMessage
<1>5. CASE ReplyEnd
  <2>1. PICK reply \in Replies : messages' = Append(messages, reply)
    BY <1>5 DEF ReplyEnd
  <2>2. reply \in Messages
    BY RepliesType DEF TypeOK, MessageTypes, Kinds
  <2>3. reply.kind = "reply"
    BY DEF Replies, Message
  <2> QED
    BY <1>t, <2>1, <2>2, <2>3, PlainMessage
<1>6. CASE FailEnd
  <2>1. messages' = Append(messages, Reply) /\ Reply \in Messages /\ Reply.kind = "reply"
    BY <1>6, <1>r DEF FailEnd, FailureReply
  <2> QED
    BY <1>t, <2>1, PlainMessage
<1>7. CASE ResultEnd
  <2> DEFINE r == Result(Reply.n, at)
  <2>1. pc = "result_start" /\ messages' = Append(messages, r)
    BY <1>7 DEF ResultEnd
  <2>2. PICK k \in Nat : at = k + 1
    <3>1. at - 1 \in Nat /\ at = (at - 1) + 1
      BY <1>t, <2>1, ReachedType DEF BatchShape, Announced
    <3> QED
      BY <3>1
  <2>3. messages = context \o Results(Reply.n, k)
    <3>1. at - 1 = k
      BY <2>2
    <3> QED
      BY <2>1, <3>1 DEF Copies
  <2>4. Results(Reply.n, k) \in Seq(Messages) /\ Len(Results(Reply.n, k)) = k
    BY <1>t, <1>r, <2>1, ResultsGrow
  <2>5. Len(messages) = Len(context) + k /\ \A i \in 1 .. Len(context) : messages[i] = context[i]
    BY <1>t, <2>3, <2>4, ConcatElements
  <2>6. Reply = context[Len(context)] /\ Len(context) \in Nat \ {0} /\ Reply.kind = "reply"
    <3>1. Last(context) = context[Len(context)]
      BY <1>t, <1>r, <2>1, FrontThenLast
    <3>2. Reply.kind = "reply"
      BY <2>1 DEF BatchShape, Announced
    <3> QED
      BY <1>t, <1>r, <2>1, <3>1, <3>2, EmptySeq DEF Reply
  <2>7. r \in Messages /\ r.kind = "result" /\ r.n = Reply.n /\ r.k = at
    <3>1. r \in Messages
      BY <1>t, <1>r, <2>1, KnownMessages
    <3> QED
      BY <3>1 DEF Result, Message
  <2> HIDE DEF r
  <2>8. DOMAIN messages = 1 .. Len(messages) /\ DOMAIN messages' = 1 .. Len(messages) + 1
        /\ Len(messages) \in Nat
        /\ (\A i \in 1 .. Len(messages) : messages'[i] = messages[i])
        /\ messages'[Len(messages) + 1] = r
    BY <1>t, <2>1, <2>7, AppendElements
  <2>9. SUFFICES ASSUME NEW j \in DOMAIN messages', messages'[j].kind = "result"
                 PROVE  LET i == j - messages'[j].k
                        IN i > 0 /\ messages'[i].kind = "reply" /\ messages'[i].n = messages'[j].n
    BY DEF ResultsInOrder
  <2>10. CASE j = Len(messages) + 1
    <3>1. messages'[j] = r /\ j - at = Len(context)
      BY <2>2, <2>5, <2>6, <2>8, <2>10
    <3>2. Len(context) \in 1 .. Len(messages) /\ Len(context) \in 1 .. Len(context)
      BY <2>5, <2>6
    <3>3. messages'[Len(context)] = Reply
      BY <2>5, <2>6, <2>8, <3>2
    <3> QED
      BY <2>6, <2>7, <3>1, <3>3
  <2>11. CASE j # Len(messages) + 1
    <3>1. j \in 1 .. Len(messages) /\ messages'[j] = messages[j]
      BY <2>8, <2>9, <2>11
    <3> DEFINE i == j - messages[j].k
    <3>2. messages[j] \in Messages /\ messages[j].k \in Nat
      BY <1>t, <3>1, KnownMessages
    <3>3. i > 0 /\ messages[i].kind = "reply" /\ messages[i].n = messages[j].n
      BY <2>8, <2>9, <3>1 DEF ResultsInOrder
    <3>4. i \in 1 .. Len(messages)
      BY <3>1, <3>2, <3>3
    <3>5. messages'[i] = messages[i]
      BY <2>8, <3>4
    <3> QED
      BY <3>1, <3>3, <3>5
  <2> QED
    BY <2>10, <2>11
<1>8. CASE UNCHANGED messages
  BY <1>8 DEF ResultsInOrder
<1>9. \/ Reset \/ DropFailedReply \/ PromptEnd \/ InjectEnd \/ ReplyEnd \/ FailEnd \/ ResultEnd
      \/ UNCHANGED messages
  <2>1. Api => Reset \/ DropFailedReply \/ UNCHANGED messages
    BY DEF Api, Prompt, ContinueSteering, ContinueFollowUp, ContinueTranscript, StartRun,
           Steer, FollowUp, ClearQueues, Abort
  <2>2. Turns => PromptEnd \/ InjectEnd \/ ReplyEnd \/ UNCHANGED messages
    BY DEF Turns, FirstTurn, PromptStart, FirstPoll, PollSteering, InjectStart, ReplyStart,
           InterruptedTurn, TurnWithoutCalls, EndTurn, PollAfterTurn, NextTurn, PollFollowUp,
           EndRun, Finish, FinishRun
  <2>3. Batch => ResultEnd \/ UNCHANGED messages
    BY DEF Batch, RunTools, AnswerAtOnce, RunCall, Prepare, PrepareNext, FinishCall, CallEnded,
           FirstResult, NextResult, AnnounceResult, NextCall, EndBatch, EndTurn
  <2>4. Failure => FailEnd \/ UNCHANGED messages
    BY DEF Failure, ListenerThrows, ProviderThrows, RunFails, FailTurnEnd, EndTurn, FailRunEnd,
           ThrowsAgain, FinishRun, OrphanEnds
  <2> QED
    BY <2>1, <2>2, <2>3, <2>4 DEF Next
<1> QED
  BY <1>1, <1>2, <1>3, <1>4, <1>5, <1>6, <1>7, <1>8, <1>9

(***************************************************************************)
(* The model goes on only from answered calls.                             *)
(***************************************************************************)
NoTurn == \A i \in DOMAIN log : log[i] # "turn_start"

\* Only turn_start counts as a turn, and the first one is not a second.
LEMMA TurnCounts ==
    ASSUME log \in Seq(Events), NEW e \in Events, log' = Append(log, e)
    PROVE  /\ e # "turn_start" => (Turned' <=> Turned) /\ (NoTurn => NoTurn')
           /\ NoTurn => ~Turned'
<1> DEFINE turns == {i \in DOMAIN log : log[i] = "turn_start"}
           turns2 == {i \in DOMAIN log' : log'[i] = "turn_start"}
<1>1. DOMAIN log = 1 .. Len(log) /\ DOMAIN log' = 1 .. Len(log) + 1 /\ Len(log) \in Nat
      /\ (\A i \in 1 .. Len(log) : log'[i] = log[i]) /\ log'[Len(log) + 1] = e
  BY AppendElements
<1>2. ASSUME e # "turn_start" PROVE turns2 = turns /\ (NoTurn => NoTurn')
  BY <1>1, <1>2 DEF NoTurn
<1>3. ASSUME NoTurn PROVE ~Turned'
  <2>1. turns2 \subseteq {Len(log) + 1}
    BY <1>1, <1>3 DEF NoTurn
  <2>2. turns2 = {} \/ turns2 = {Len(log) + 1}
    BY <2>1
  <2> HIDE DEF turns2
  <2>3. Cardinality(turns2) \in {0, 1}
    BY <2>2, FS_EmptySet, FS_Singleton
  <2>4. ~(Cardinality(turns2) > 1)
    BY <2>3
  <2> QED
    BY <2>4 DEF Turned, turns2
<1>4. turns2 = turns => (Turned' <=> Turned)
  BY DEF Turned
<1> QED
  BY <1>2, <1>3, <1>4

\* An injected message, or a first partial one, answers no call and asks for none.
LEMMA AnsweredBefore ==
    ASSUME NEW ctx \in Seq(Messages), NEW m \in Messages, m.kind # "reply", LastAnswered(ctx)
    PROVE  LastAnswered(Append(ctx, m))
<1> DEFINE a == Append(ctx, m)
<1>1. DOMAIN a = 1 .. Len(a) /\ Len(a) = Len(ctx) + 1 /\ DOMAIN ctx = 1 .. Len(ctx)
      /\ Len(ctx) \in Nat
      /\ (\A i \in 1 .. Len(ctx) : a[i] = ctx[i]) /\ a[Len(ctx) + 1] = m
  BY AppendElements
<1> HIDE DEF a
<1>2. SUFFICES ASSUME NEW i \in DOMAIN a, a[i].kind = "reply",
                      \A j \in i + 1 .. Len(a) : a[j].kind # "reply"
               PROVE  LET last == i + a[i].k
                      IN last <= Len(a) /\ a[last].n = a[i].n
                         /\ a[last].kind \in {"reply", "result"}
  BY DEF LastAnswered, a
<1>3. i \in 1 .. Len(ctx) /\ a[i] = ctx[i]
  BY <1>1, <1>2
<1>4. ctx[i].k \in Nat
  BY <1>3, KnownMessages
<1>5. \A j \in i + 1 .. Len(ctx) : ctx[j].kind # "reply"
  BY <1>1, <1>2, <1>3
<1> DEFINE last == i + ctx[i].k
<1>6. last <= Len(ctx) /\ ctx[last].n = ctx[i].n /\ ctx[last].kind \in {"reply", "result"}
  BY <1>1, <1>2, <1>3, <1>5 DEF LastAnswered
<1>7. last \in 1 .. Len(ctx)
  BY <1>3, <1>4, <1>6
<1> QED
  BY <1>1, <1>3, <1>6, <1>7

\* A reply with as many results behind it as it made calls is answered.
LEMMA BatchAnswered ==
    ASSUME NEW ctx \in Seq(Messages), ctx # <<>>, Last(ctx).kind = "reply"
    PROVE  LastAnswered(ctx \o Results(Last(ctx).n, Last(ctx).k))
<1> DEFINE n == Last(ctx).n
           k == Last(ctx).k
           r == Results(n, k)
           a == ctx \o r
<1>1. Last(ctx) = ctx[Len(ctx)] /\ Last(ctx) \in Messages
  BY FrontThenLast
<1>2. n \in Nat /\ k \in Nat
  BY <1>1, KnownMessages
<1>3. Len(ctx) \in Nat \ {0} /\ DOMAIN ctx = 1 .. Len(ctx)
  BY EmptySeq
<1>d. Last(ctx).kind = "reply" /\ ctx[Len(ctx)].n = n /\ ctx[Len(ctx)].k = k
      /\ ctx[Len(ctx)].kind = "reply"
  BY <1>1
<1> HIDE DEF n, k
<1>4. r \in Seq(Messages) /\ Len(r) = k /\ \A i \in 1 .. k : r[i] = Result(n, i)
  BY <1>2, ResultsGrow DEF Results
<1> HIDE DEF r
<1>5. Len(a) = Len(ctx) + k /\ a \in Seq(Messages)
      /\ (\A i \in 1 .. Len(ctx) : a[i] = ctx[i])
      /\ (\A i \in 1 .. k : a[Len(ctx) + i] = Result(n, i))
  <2>1. ctx \in Seq(Messages) /\ r \in Seq(Messages)
    BY <1>4
  <2>2. Len(a) = Len(ctx) + Len(r) /\ a \in Seq(Messages)
        /\ (\A i \in 1 .. Len(ctx) : a[i] = ctx[i])
        /\ (\A i \in 1 .. Len(r) : a[Len(ctx) + i] = r[i])
    BY ONLY <2>1, ConcatElements DEF a
  <2> HIDE DEF a
  <2> QED
    BY <1>4, <2>2
<1> HIDE DEF a
<1>6. DOMAIN a = 1 .. Len(a)
  BY <1>5
<1>7. \A i \in 1 .. k : Result(n, i).kind = "result" /\ Result(n, i).n = n
  BY DEF Result, Message
<1>8. \A i \in 1 .. Len(a) : i > Len(ctx) => a[i].kind = "result"
  <2> SUFFICES ASSUME NEW i \in 1 .. Len(a), i > Len(ctx) PROVE a[i].kind = "result"
    OBVIOUS
  <2>1. i - Len(ctx) \in 1 .. k /\ i = Len(ctx) + (i - Len(ctx))
    BY <1>2, <1>3, <1>5
  <2> QED
    BY <1>5, <1>7, <2>1
<1>9. SUFFICES ASSUME NEW i \in DOMAIN a, a[i].kind = "reply",
                      \A j \in i + 1 .. Len(a) : a[j].kind # "reply"
               PROVE  LET last == i + a[i].k
                      IN last <= Len(a) /\ a[last].n = a[i].n
                         /\ a[last].kind \in {"reply", "result"}
  BY DEF LastAnswered, a, r, n, k
<1>10. i = Len(ctx)
  <2>1. i <= Len(ctx) /\ i \in Nat
    BY <1>3, <1>6, <1>8, <1>9
  <2>2. a[Len(ctx)].kind = "reply" /\ Len(ctx) <= Len(a)
    BY <1>2, <1>3, <1>5, <1>d
  <2>3. ~(i < Len(ctx))
    <3>1. i < Len(ctx) => Len(ctx) \in i + 1 .. Len(a)
      BY <1>2, <1>3, <1>5, <2>1, <2>2
    <3> QED
      BY <1>9, <2>2, <3>1
  <2> QED
    BY <1>3, <2>1, <2>3
<1>11. a[i].k = k /\ a[i].n = n
  BY <1>3, <1>5, <1>d, <1>10
<1>12. CASE k = 0
  <2>1. i + a[i].k = i /\ i <= Len(a)
    BY <1>2, <1>3, <1>5, <1>10, <1>11, <1>12
  <2> QED
    BY <1>9, <2>1
<1>13. CASE k # 0
  <2>1. k \in 1 .. k /\ i + a[i].k = Len(ctx) + k
    BY <1>2, <1>10, <1>11, <1>13
  <2>2. a[Len(ctx) + k] = Result(n, k)
    BY <1>5, <2>1
  <2> QED
    BY <1>3, <1>5, <1>7, <1>11, <2>1, <2>2
<1> QED
  BY <1>12, <1>13

Watched == {"turn_end", "reply_start"} \cup Announcing \cup Injecting

\* Steps that leave the context alone and begin no turn.
LEMMA SameSettled ==
    ASSUME Settled, UNCHANGED <<pc, context>>, ~aborted' => ~aborted,
           Turned' => Turned, NoTurn => NoTurn'
    PROVE  Settled'
<1>1. LastAnswered(context)' <=> LastAnswered(context)
  BY DEF LastAnswered
<1>2. LastAnswered(Front(context))' <=> LastAnswered(Front(context))
  BY DEF LastAnswered
<1>3. (Turned' => Turned) /\ (NoTurn => NoTurn') /\ (~aborted' => ~aborted)
  OBVIOUS
<1>4. /\ pc \in {"turn_end", "polled"} /\ ~aborted' => LastAnswered(context)
      /\ pc \in Announcing \cup (Injecting \ {"polled"}) /\ ~aborted' /\ Turned' => LastAnswered(context)
      /\ pc = "reply_start" /\ Last(context).stop = "none" /\ Turned' => LastAnswered(Front(context))
      /\ pc = "reply_start" => Last(context).kind = "partial"
      /\ pc = "agent_start" => NoTurn'
      /\ pc \in Announcing \cup {"first_poll"} => ~Turned'
  BY <1>3, Zenon DEF Settled, NoTurn
<1> QED
  BY <1>1, <1>2, <1>4 DEF Settled, NoTurn

\* Steps within the prompts or the injected messages of a turn.
LEMMA StillSettled ==
    ASSUME Settled, pc \in Announcing \cup (Injecting \ {"polled"}),
           pc' \in {"first_turn", "prompt_start", "prompt_end", "first_poll",
                    "inject_start", "inject_end"},
           pc' \in Announcing \cup {"first_poll"} => pc \in Announcing /\ (pc # "agent_start"),
           UNCHANGED aborted, Turned' => Turned,
           LastAnswered(context) => LastAnswered(context')
    PROVE  Settled'
BY DEF Settled, Announcing, Injecting

\* Every step keeps what the loop knows of the calls it has answered.
LEMMA SettledStep ==
    ASSUME TypeOK, InHand, BatchShape, Settled, Next
    PROVE  Settled'
<1> USE DEF agentVars, loopVars, batchVars, history
<1>t. context \in Seq(Messages) /\ pending \in Seq(UserMessages) /\ log \in Seq(Events)
      /\ CallTypes /\ at \in Nat /\ mode \in {"sequential", "parallel"}
  BY DEF TypeOK, MessageTypes, CallTypes, ControlTypes
<1>e. \A e : Emit(e) /\ e \in Events /\ e # "turn_start" =>
                  (Turned' => Turned) /\ (NoTurn => NoTurn')
  BY <1>t, TurnCounts DEF Emit
<1>l. UNCHANGED log => (Turned' => Turned) /\ (NoTurn => NoTurn')
  BY DEF Turned, NoTurn
<1>1. CASE Prompt \/ ContinueSteering \/ ContinueFollowUp \/ ContinueTranscript
  <2>1. pc' = "agent_start" /\ log' = <<"agent_start">>
    BY <1>1 DEF Prompt, ContinueSteering, ContinueFollowUp, ContinueTranscript, StartRun
  <2>2. \A i \in DOMAIN log' : log'[i] # "turn_start"
    BY <2>1
  <2>3. {i \in DOMAIN log' : log'[i] = "turn_start"} = {}
    BY <2>2
  <2>4. ~Turned'
    BY <2>3, FS_EmptySet DEF Turned
  <2> QED
    BY <2>1, <2>2, <2>4 DEF Settled, Announcing, Injecting
<1>2. CASE \/ Steer \/ FollowUp \/ ClearQueues \/ Abort \/ Reset \/ DropFailedReply
           \/ \E call \in orphans : OrphanEnds(call)
  <2>1. UNCHANGED <<pc, context>> /\ (~aborted' => ~aborted)
        /\ (UNCHANGED log \/ Emit("call_end"))
    BY <1>2 DEF Steer, FollowUp, ClearQueues, Abort, Reset, DropFailedReply, OrphanEnds, Emit
  <2>2. (Turned' => Turned) /\ (NoTurn => NoTurn')
    BY <2>1, <1>e, <1>l DEF Events
  <2> QED
    BY <2>1, <2>2, SameSettled
<1>3. CASE FirstTurn
  <2>1. pc = "agent_start" /\ pc' = "first_turn" /\ Emit("turn_start")
    BY <1>3 DEF FirstTurn
  <2>2. NoTurn
    BY <2>1 DEF Settled, NoTurn
  <2>3. ~Turned'
    BY <1>t, <2>1, <2>2, TurnCounts DEF Emit, Events
  <2> QED
    BY <2>1, <2>3 DEF Settled, Announcing, Injecting
<1>4. CASE PromptStart \/ PromptEnd \/ FirstPoll \/ InjectStart
  <2>1. pc \in Announcing \cup (Injecting \ {"polled"})
        /\ pc' \in {"prompt_start", "prompt_end", "first_poll", "inject_start"}
        /\ (pc' \in Announcing \cup {"first_poll"} => pc \in Announcing /\ pc # "agent_start")
        /\ UNCHANGED <<context, aborted>>
    BY <1>4 DEF PromptStart, PromptEnd, FirstPoll, PollSteering, InjectStart, Announcing, Injecting
  <2>2. UNCHANGED log \/ Emit("message_start") \/ Emit("message_end")
    BY <1>4 DEF PromptStart, PromptEnd, FirstPoll, PollSteering, InjectStart
  <2>3. Turned' => Turned
    BY <2>2, <1>e, <1>l DEF Events
  <2> QED
    BY <2>1, <2>3, StillSettled
<1>5. CASE InjectEnd
  <2>1. pc = "inject_start" /\ pc' = "inject_end" /\ context' = Append(context, Head(pending))
        /\ UNCHANGED aborted /\ Emit("message_end") /\ pending # <<>>
    BY <1>5 DEF InjectEnd, InHand
  <2>2. Head(pending) \in Messages /\ Head(pending).kind # "reply"
    <3>1. Head(pending) \in UserMessages
      BY <1>t, <2>1, HeadAndTail
    <3> QED
      BY <3>1, KnownMessages DEF UserMessages
  <2>3. LastAnswered(context) => LastAnswered(context')
    BY <1>t, <2>1, <2>2, AnsweredBefore
  <2>4. Turned' => Turned
    BY <2>1, <1>e DEF Events
  <2> QED
    BY <2>1, <2>3, <2>4, StillSettled DEF Announcing, Injecting
<1>6. CASE ReplyStart
  <2>1. pc \in Injecting \ {"polled"} /\ pc' = "reply_start" /\ context' = Append(context, Partial)
        /\ UNCHANGED aborted /\ Emit("message_start")
    BY <1>6 DEF ReplyStart, ReadyToStream, Injecting
  <2>2. Partial \in Messages /\ Partial.kind = "partial" /\ (Partial.stop = "none" => ~aborted)
    <3>1. NextReply \in Nat /\ (IF aborted THEN "aborted" ELSE "none") \in Stops
      BY DEF NextReply, TypeOK, MessageTypes, Kinds, Stops
    <3>2. Partial \in Messages
      BY <3>1, KnownMessages DEF Partial
    <3> QED
      BY <3>2 DEF Partial, Message
  <2>3. Front(context') = context /\ Last(context') = Partial
    BY <1>t, <2>1, <2>2, FrontOfAppend
  <2>4. Turned' => Turned
    BY <2>1, <1>e DEF Events
  <2> QED
    BY <2>1, <2>2, <2>3, <2>4 DEF Settled, Announcing, Injecting
<1>7. CASE TurnWithoutCalls
  <2>1. pc = "reply_end" /\ pc' = "turn_end" /\ UNCHANGED context /\ Reply.k = 0
    BY <1>7 DEF TurnWithoutCalls, EndTurn
  <2>2. context # <<>> /\ Last(context).kind = "reply"
    BY <2>1 DEF InHand, BatchShape, Reply
  <2>3. LastAnswered(context \o Results(Last(context).n, Last(context).k))
    BY <1>t, <2>2, BatchAnswered
  <2>4. context \o Results(Last(context).n, 0) = context
    <3>1. Last(context).n \in Nat
      BY <1>t, <2>2, FrontAndLast, KnownMessages
    <3> QED
      BY <1>t, <3>1, ResultsGrow
  <2>5. LastAnswered(context')
    BY <2>1, <2>3, <2>4 DEF Reply
  <2> QED
    BY <2>1, <2>5 DEF Settled, Announcing, Injecting
<1>8. CASE PollAfterTurn \/ PollFollowUp
  <2>1. pc \in {"turn_end", "polled"} /\ pc' = "polled" /\ UNCHANGED <<context, aborted>>
    BY <1>8 DEF PollAfterTurn, PollSteering, PollFollowUp, WouldStop
  <2> QED
    BY <2>1 DEF Settled, Announcing, Injecting
<1>9. CASE NextTurn
  <2>1. pc = "polled" /\ pc' = "turn_start" /\ UNCHANGED <<context, aborted>>
    BY <1>9 DEF NextTurn
  <2> QED
    BY <2>1 DEF Settled, Announcing, Injecting
<1>10. CASE EndBatch
  <2>1. pc = "result_end" /\ pc' = "turn_end" /\ UNCHANGED aborted
        /\ context' = context \o Results(Reply.n, Reached)
    BY <1>10 DEF EndBatch, EndTurn, Results
  <2>2. context # <<>> /\ Reply.kind = "reply" /\ Reply.k = Len(calls)
    BY <2>1 DEF InHand, BatchShape, Announced
  <2>3. ~aborted => Reached = Len(calls)
    <3>1. ~aborted => TodoAfter(Len(calls))
      BY <1>10, <1>t, <2>1 DEF EndBatch, BatchShape, Announced
    <3>2. Len(calls) \in 0 .. Len(calls)
      BY <1>t DEF CallTypes
    <3> QED
      BY <1>t, <3>1, <3>2, ReachedIs
  <2>4. ~aborted => LastAnswered(context')
    <3>1. LastAnswered(context \o Results(Last(context).n, Last(context).k))
      BY <1>t, <2>2, BatchAnswered DEF Reply
    <3> QED
      BY <2>1, <2>2, <2>3, <3>1 DEF Reply
  <2> QED
    BY <2>1, <2>4 DEF Settled, Announcing, Injecting
<1>11. CASE ReplyEnd \/ InterruptedTurn \/ EndRun \/ Finish
  <2>1. pc' \notin Watched
    BY <1>11 DEF ReplyEnd, InterruptedTurn, EndTurn, EndRun, Finish, FinishRun, Watched,
                 Announcing, Injecting
  <2> QED
    BY <2>1 DEF Settled, Watched, Announcing, Injecting
<1>12. CASE \/ RunTools \/ AnswerAtOnce \/ RunCall \/ Prepare \/ PrepareNext
            \/ \E i \in DOMAIN calls : FinishCall(i) \/ CallEnded(i)
  <2>1. pc' \in InBatch
    BY <1>12 DEF RunTools, AnswerAtOnce, RunCall, Prepare, PrepareNext, AfterPreparing,
                 StartCall, FinishCall, CallEnded, InBatch
  <2> QED
    BY <2>1 DEF Settled, InBatch, Announcing, Injecting
<1>13. CASE FirstResult \/ ResultEnd \/ NextResult \/ NextCall
  <2>1. pc' \in {"result_start", "result_end", "call_start"}
    BY <1>13 DEF FirstResult, ResultEnd, NextResult, AnnounceResult, NextCall, StartCall
  <2> QED
    BY <2>1 DEF Settled, Announcing, Injecting
<1>14. CASE \/ ListenerThrows \/ ProviderThrows \/ FailEnd \/ FailTurnEnd
            \/ FailRunEnd \/ ThrowsAgain
  <2>1. pc' \in Failing \cup {"idle"}
    BY <1>14 DEF ListenerThrows, ProviderThrows, RunFails, FailEnd, FailTurnEnd, EndTurn,
                 FailRunEnd, ThrowsAgain, FinishRun, Failing
  <2> QED
    BY <2>1 DEF Settled, Failing, Announcing, Injecting
<1> QED
  BY <1>1, <1>2, <1>3, <1>4, <1>5, <1>6, <1>7, <1>8, <1>9, <1>10, <1>11, <1>12, <1>13, <1>14
     DEF Next, Api, Turns, Batch, Failure

\* What is settled when a request is made is what the property asks for.
LEMMA SettledAnswers ==
    ASSUME TypeOK, InHand, Settled
    PROVE  CallsAnswered
<1>1. SUFFICES ASSUME pc = "reply_start", Last(context).stop = "none", Turned,
                      NEW i \in DOMAIN context, context[i].kind = "reply",
                      \A j \in i + 1 .. Len(context) : context[j].kind # "reply"
               PROVE  Answered(i)
  BY DEF CallsAnswered, Turned
<1> DEFINE f == Front(context)
<1>2. context \in Seq(Messages) /\ context # <<>> /\ Last(context).kind = "partial"
      /\ LastAnswered(f)
  BY <1>1 DEF TypeOK, MessageTypes, InHand, Settled
<1>3. f \in Seq(Messages) /\ Len(context) = Len(f) + 1 /\ Last(context) = context[Len(context)]
      /\ \A j \in 1 .. Len(f) : f[j] = context[j]
  BY <1>2, FrontThenLast
<1> HIDE DEF f
<1>4. DOMAIN f = 1 .. Len(f) /\ Len(f) \in Nat /\ DOMAIN context = 1 .. Len(context)
  BY <1>2, <1>3
<1>5. i \in 1 .. Len(f) /\ f[i] = context[i]
  BY <1>1, <1>2, <1>3, <1>4
<1>6. \A j \in i + 1 .. Len(f) : f[j].kind # "reply"
  BY <1>1, <1>3, <1>4, <1>5
<1> DEFINE last == i + f[i].k
<1>7. last <= Len(f) /\ f[last].n = f[i].n /\ f[last].kind \in {"reply", "result"}
  BY <1>1, <1>2, <1>4, <1>5, <1>6 DEF LastAnswered
<1>8. last \in 1 .. Len(f)
  <2>1. f[i].k \in Nat
    BY <1>3, <1>5, KnownMessages
  <2> QED
    BY <1>4, <1>5, <1>7, <2>1
<1> QED
  BY <1>3, <1>4, <1>5, <1>7, <1>8 DEF Answered

(***************************************************************************)
(* The nesting of events.                                                  *)
(***************************************************************************)
\* One more event keeps the nesting when it may follow the last.
LEMMA NextEvent ==
    ASSUME EventsNest, log \in Seq(Events), log # <<>>, NEW e \in Events,
           <<Last(log), e>> \in Follows, log' = Append(log, e)
    PROVE  EventsNest' /\ log' # <<>> /\ Last(log') = e
<1>1. Last(log) = log[Len(log)] /\ Len(log) \in Nat
  BY DEF Last
<1>2. Len(log') = Len(log) + 1 /\ (\A i \in 1 .. Len(log) : log'[i] = log[i])
      /\ log'[Len(log) + 1] = e
  BY AppendElements
<1>3. Last(log') = e
  BY FrontOfAppend
<1>4. log' # <<>>
  <2>1. Len(log') # 0
    BY <1>1, <1>2
  <2> QED
    BY <2>1, EmptySeq
<1>5. ASSUME NEW i \in 1 .. Len(log') - 1 PROVE <<log'[i], log'[i + 1]>> \in Follows
  <2>1. CASE i = Len(log)
    <3>0. i \in 1 .. Len(log)
      BY <1>1, <1>2, <2>1
    <3>1. log'[i] = Last(log) /\ log'[i + 1] = e
      BY <1>1, <1>2, <2>1, <3>0
    <3> QED
      BY <3>1
  <2>2. CASE i # Len(log)
    <3>1. i \in 1 .. Len(log) - 1 /\ i \in 1 .. Len(log) /\ i + 1 \in 1 .. Len(log)
      BY <1>1, <1>2, <2>2
    <3>2. log'[i] = log[i] /\ log'[i + 1] = log[i + 1]
      BY <1>2, <3>1
    <3> QED
      BY <3>1, <3>2 DEF EventsNest
  <2> QED
    BY <2>1, <2>2
<1> QED
  BY <1>3, <1>4, <1>5 DEF EventsNest

\* A step that emits nothing, and one that emits an event in its place.
LEMMA QuietStep ==
    ASSUME Nesting, Throws = {}, UNCHANGED <<orphans, log>>, pc # "idle",
           pc' # "idle" => Last(log) \in LastEvents[pc'],
           pc' = "running" /\ Last(log) = "call_start" =>
               \E i \in DOMAIN calls' : calls'[i] = "running"
    PROVE  Nesting'
BY DEF Nesting, EventsNest

LEMMA EmitStep ==
    ASSUME Nesting, Throws = {}, log \in Seq(Events), UNCHANGED orphans, pc # "idle",
           NEW e \in Events, Emit(e), <<Last(log), e>> \in Follows, e \in LastEvents[pc'],
           pc' = "running" => e # "call_start"
    PROVE  Nesting'
<1>1. EventsNest' /\ log' # <<>> /\ Last(log') = e
  BY NextEvent DEF Nesting, Emit
<1> QED
  BY <1>1 DEF Nesting

\* The next call starts, or what is prepared runs, behind the right event.
LEMMA StartEvents ==
    ASSUME Nesting, Throws = {}, log \in Seq(Events), UNCHANGED orphans,
           pc \in {"reply_end", "call_start", "call_end", "result_end"},
           NEW i, NEW states, StartCall(i, states)
    PROVE  Nesting'
<1>1. pc' = "call_start" /\ Emit("call_start")
  BY DEF StartCall
<1>2. LastEvents[pc] \subseteq {"message_end", "call_start", "call_end"}
      /\ Last(log) \in LastEvents[pc] /\ LastEvents["call_start"] = {"call_start"}
  BY DEF Nesting, LastEvents, PCs
<1> QED
  BY <1>1, <1>2, EmitStep DEF Events, Follows

\* Every step keeps the events in their order when nobody throws.
LEMMA NestingStep ==
    ASSUME TypeOK, CallPhase, Nesting, Throws = {}, Next
    PROVE  Nesting'
<1> USE DEF agentVars, loopVars, batchVars, history
<1>t. log \in Seq(Events) /\ calls \in Seq(Statuses) /\ DOMAIN calls = 1 .. Len(calls) /\ pc \in PCs
  BY DEF TypeOK, CallTypes, ControlTypes
<1>n. orphans = {} /\ (pc # "idle" => log # <<>> /\ Last(log) \in LastEvents[pc]) /\ EventsNest
  BY DEF Nesting
<1>f. pc \notin Failing
  BY <1>n DEF Failing, LastEvents, PCs
<1>1. CASE Prompt \/ ContinueSteering \/ ContinueFollowUp \/ ContinueTranscript
  <2>1. pc' = "agent_start" /\ log' = <<"agent_start">> /\ UNCHANGED orphans
    BY <1>1 DEF Prompt, ContinueSteering, ContinueFollowUp, ContinueTranscript, StartRun
  <2>2. Last(log') = "agent_start" /\ log' # <<>> /\ EventsNest'
    BY <2>1 DEF Last, EventsNest
  <2>3. LastEvents["agent_start"] = {"agent_start"}
    BY DEF LastEvents, PCs
  <2> QED
    BY <1>n, <2>1, <2>2, <2>3 DEF Nesting
<1>2. CASE \/ Steer \/ FollowUp \/ ClearQueues \/ Abort \/ Reset \/ DropFailedReply
  <2>1. UNCHANGED <<pc, log, orphans, calls>>
    BY <1>2 DEF Steer, FollowUp, ClearQueues, Abort, Reset, DropFailedReply
  <2> QED
    BY <2>1 DEF Nesting, EventsNest
<1>3. CASE FirstTurn \/ NextTurn
  <2>1. pc \in {"agent_start", "polled"} /\ pc' \in {"first_turn", "turn_start"}
        /\ Emit("turn_start") /\ UNCHANGED orphans
    BY <1>3 DEF FirstTurn, NextTurn
  <2>2. Last(log) \in {"agent_start", "turn_end"} /\ LastEvents[pc'] = {"turn_start"}
    BY <1>n, <2>1 DEF LastEvents, PCs
  <2> QED
    BY <1>t, <2>1, <2>2, EmitStep DEF Events, Follows
<1>4. CASE PromptStart \/ InjectStart \/ ReplyStart
  <2>1. pc \in {"first_turn", "prompt_end", "first_poll", "turn_start", "inject_end"}
        /\ pc' \in {"prompt_start", "inject_start", "reply_start"}
        /\ Emit("message_start") /\ UNCHANGED orphans
    BY <1>4 DEF PromptStart, InjectStart, ReplyStart, ReadyToStream
  <2>2. Last(log) \in {"turn_start", "message_end"} /\ LastEvents[pc'] = {"message_start"}
    BY <1>n, <2>1 DEF LastEvents, PCs
  <2> QED
    BY <1>t, <2>1, <2>2, EmitStep DEF Events, Follows
<1>5. CASE PromptEnd \/ InjectEnd \/ ReplyEnd \/ ResultEnd
  <2>1. pc \in {"prompt_start", "inject_start", "reply_start", "result_start"}
        /\ pc' \in {"prompt_end", "inject_end", "reply_end", "result_end"}
        /\ Emit("message_end") /\ UNCHANGED orphans
    BY <1>5 DEF PromptEnd, InjectEnd, ReplyEnd, ResultEnd
  <2>2. Last(log) = "message_start" /\ LastEvents[pc'] = {"message_end"}
    BY <1>n, <2>1 DEF LastEvents, PCs
  <2> QED
    BY <1>t, <2>1, <2>2, EmitStep DEF Events, Follows
<1>6. CASE FirstPoll \/ PollAfterTurn \/ PollFollowUp
  <2>1. \/ pc \in {"first_turn", "prompt_end"} /\ pc' = "first_poll"
        \/ pc \in {"turn_end", "polled"} /\ pc' = "polled"
    BY <1>6 DEF FirstPoll, PollAfterTurn, PollSteering, PollFollowUp, WouldStop
  <2>2. UNCHANGED <<log, orphans>>
    BY <1>6 DEF FirstPoll, PollAfterTurn, PollSteering, PollFollowUp
  <2>3. Last(log) \in LastEvents[pc']
    BY <1>n, <2>1 DEF LastEvents, PCs
  <2> QED
    BY <2>1, <2>2, <2>3, QuietStep
<1>7. CASE InterruptedTurn \/ TurnWithoutCalls \/ EndBatch
  <2>1. pc \in {"reply_end", "result_end"} /\ pc' \in {"turn_end", "last_turn_end"}
        /\ Emit("turn_end") /\ UNCHANGED orphans
    BY <1>7 DEF InterruptedTurn, TurnWithoutCalls, EndBatch, EndTurn
  <2>2. Last(log) = "message_end" /\ LastEvents[pc'] = {"turn_end"}
    BY <1>n, <2>1 DEF LastEvents, PCs
  <2> QED
    BY <1>t, <2>1, <2>2, EmitStep DEF Events, Follows
<1>8. CASE EndRun
  <2>1. pc \in {"polled", "last_turn_end"} /\ pc' = "agent_end"
        /\ Emit("agent_end") /\ UNCHANGED orphans
    BY <1>8 DEF EndRun, WouldStop
  <2>2. Last(log) = "turn_end" /\ LastEvents[pc'] = {"agent_end"}
    BY <1>n, <2>1 DEF LastEvents, PCs
  <2> QED
    BY <1>t, <2>1, <2>2, EmitStep DEF Events, Follows
<1>9. CASE Finish
  <2>1. pc' = "idle" /\ UNCHANGED <<log, orphans>>
    BY <1>9 DEF Finish, FinishRun
  <2> QED
    BY <2>1 DEF Nesting, EventsNest
<1>10. CASE RunTools
  <2>1. pc = "reply_end" /\ UNCHANGED orphans /\ \E states : StartCall(1, states)
    BY <1>10 DEF RunTools
  <2> QED
    BY <1>t, <2>1, StartEvents
<1>11. CASE AnswerAtOnce
  <2>1. pc = "call_start" /\ pc' = "call_end" /\ Emit("call_end") /\ UNCHANGED orphans
    BY <1>11 DEF AnswerAtOnce
  <2>2. Last(log) = "call_start" /\ LastEvents[pc'] = {"call_end"}
    BY <1>n, <2>1 DEF LastEvents, PCs
  <2> QED
    BY <1>t, <2>1, <2>2, EmitStep DEF Events, Follows
<1>12. CASE RunCall
  <2>1. pc = "call_start" /\ pc' = "running" /\ calls' = [calls EXCEPT ![at] = "running"]
        /\ UNCHANGED <<log, orphans>> /\ at \in DOMAIN calls
    BY <1>12 DEF RunCall, CallPhase, Started
  <2>2. Last(log) \in LastEvents[pc']
    BY <1>n, <2>1 DEF LastEvents, PCs
  <2>3. at \in DOMAIN calls' /\ calls'[at] = "running"
    BY <1>t, <2>1
  <2> QED
    BY <2>1, <2>2, <2>3, QuietStep
<1>13. CASE Prepare
  <2> DEFINE states == [calls EXCEPT ![at] = "prepared"]
  <2>1. pc = "call_start" /\ AfterPreparing(states) /\ UNCHANGED orphans /\ at \in DOMAIN calls
    BY <1>13 DEF Prepare, CallPhase, Started
  <2>2. at \in DOMAIN states /\ states[at] = "prepared"
    BY <1>t, <2>1
  <2> HIDE DEF states
  <2>3. CASE aborted \/ at = Len(states)
    <3>1. pc' = "running" /\ UNCHANGED log
          /\ calls' = [i \in DOMAIN states |->
                           IF states[i] = "prepared" THEN "running" ELSE states[i]]
      BY <2>1, <2>3 DEF AfterPreparing
    <3>2. at \in DOMAIN calls' /\ calls'[at] = "running"
      BY <2>2, <3>1
    <3>3. Last(log) \in LastEvents[pc']
      BY <1>n, <2>1, <3>1 DEF LastEvents, PCs
    <3> QED
      BY <2>1, <3>1, <3>2, <3>3, QuietStep
  <2>4. CASE ~(aborted \/ at = Len(states))
    <3>1. StartCall(at + 1, states)
      BY <2>1, <2>4 DEF AfterPreparing
    <3> QED
      BY <1>t, <2>1, <3>1, StartEvents
  <2> QED
    BY <2>3, <2>4
<1>14. CASE PrepareNext
  <2>1. pc = "call_end" /\ AfterPreparing(calls) /\ UNCHANGED orphans
    BY <1>14 DEF PrepareNext
  <2>2. CASE aborted \/ at = Len(calls)
    <3>1. pc' = "running" /\ UNCHANGED log
      BY <2>1, <2>2 DEF AfterPreparing
    <3>2. Last(log) = "call_end" /\ Last(log) \in LastEvents[pc']
      BY <1>n, <2>1, <3>1 DEF LastEvents, PCs
    <3> QED
      BY <2>1, <3>1, <3>2, QuietStep
  <2>3. CASE ~(aborted \/ at = Len(calls))
    <3>1. StartCall(at + 1, calls)
      BY <2>1, <2>3 DEF AfterPreparing
    <3> QED
      BY <1>t, <2>1, <3>1, StartEvents
  <2> QED
    BY <2>2, <2>3
<1>15. CASE \E i \in DOMAIN calls : FinishCall(i)
  <2>1. pc = "running" /\ pc' = "running" /\ Emit("call_end") /\ UNCHANGED orphans
    BY <1>15 DEF FinishCall
  <2>2. Last(log) \in {"call_start", "call_end"} /\ "call_end" \in LastEvents[pc']
    BY <1>n, <2>1 DEF LastEvents, PCs
  <2> QED
    BY <1>t, <2>1, <2>2, EmitStep DEF Events, Follows
<1>16. CASE \E i \in DOMAIN calls : CallEnded(i)
  <2>1. PICK i \in DOMAIN calls : CallEnded(i)
    BY <1>16
  <2>2. pc = "running" /\ pc' = "running" /\ calls[i] = "ending"
        /\ calls' = [calls EXCEPT ![i] = "done"] /\ UNCHANGED <<log, orphans>>
    BY <2>1 DEF CallEnded
  <2>3. ASSUME Last(log) = "call_start" PROVE \E j \in DOMAIN calls' : calls'[j] = "running"
    <3>1. PICK j \in DOMAIN calls : calls[j] = "running"
      BY <2>2, <2>3 DEF Nesting
    <3>2. j # i /\ j \in DOMAIN calls' /\ calls'[j] = "running"
      BY <1>t, <2>2, <3>1
    <3> QED
      BY <3>2
  <2> QED
    BY <1>n, <2>2, <2>3, QuietStep
<1>17. CASE FirstResult \/ NextResult
  <2>1. pc \in {"running", "call_end", "result_end"} /\ pc' = "result_start"
        /\ Emit("message_start") /\ UNCHANGED orphans
    BY <1>17 DEF FirstResult, NextResult, AnnounceResult
  <2>2. LastEvents[pc'] = {"message_start"} /\ Last(log) \in {"call_start", "call_end", "message_end"}
        /\ (pc # "running" => Last(log) # "call_start")
    BY <1>n, <2>1 DEF LastEvents, PCs
  <2>3. pc = "running" => Last(log) # "call_start"
    BY <1>17 DEF Nesting, FirstResult, NextResult, NoneRunning
  <2> QED
    BY <1>t, <2>1, <2>2, <2>3, EmitStep DEF Events, Follows
<1>18. CASE NextCall
  <2>1. pc = "result_end" /\ UNCHANGED orphans /\ StartCall(at + 1, calls)
    BY <1>18 DEF NextCall
  <2> QED
    BY <1>t, <2>1, StartEvents
<1>19. ~Failure
  BY <1>n, <1>f DEF Failure, ListenerThrows, ProviderThrows, FailEnd, FailTurnEnd, FailRunEnd,
                    ThrowsAgain, Failing
<1> QED
  BY <1>1, <1>2, <1>3, <1>4, <1>5, <1>6, <1>7, <1>8, <1>9, <1>10, <1>11, <1>12, <1>13, <1>14,
     <1>15, <1>16, <1>17, <1>18, <1>19 DEF Next, Api, Turns, Batch

(***************************************************************************)
(* The theorems.                                                           *)
(***************************************************************************)
BatchInv ==
    /\ BatchShape /\ Settled /\ Nesting
    /\ ~ResetInRun => Copies /\ ResultsInOrder

LEMMA BatchInvariance == Spec => []BatchInv
<1>1. Init => BatchInv
  <2> SUFFICES ASSUME Init PROVE BatchInv
    OBVIOUS
  <2>1. pc = "idle" /\ log = <<>> /\ messages = <<>> /\ orphans = {}
    BY DEF Init
  <2>2. BatchShape /\ Settled
    BY <2>1 DEF BatchShape, Settled, InBatch, Announced, Announcing, Injecting
  <2>3. Nesting
    BY <2>1 DEF Nesting, EventsNest
  <2>4. Copies /\ ResultsInOrder
    BY <2>1 DEF Copies, ResultsInOrder, InBatch, Announcing, Injecting
  <2> QED
    BY <2>2, <2>3, <2>4 DEF BatchInv
<1>2. IInv /\ OrderInv /\ BatchInv /\ [Next]_vars => BatchInv'
  <2>1. ASSUME IInv, OrderInv, BatchInv, Next PROVE BatchInv'
    <3>1. Throws' = Throws /\ ResetInRun' = ResetInRun
      BY <2>1 DEF Next, Throws, ResetInRun
    <3>2. BatchShape' /\ Settled'
      BY <2>1, ShapeStep, SettledStep DEF IInv, BatchInv
    <3>3. Nesting'
      <4>1. CASE Throws = {}
        BY <2>1, <4>1, NestingStep DEF IInv, BatchInv
      <4>2. CASE Throws # {}
        BY <3>1, <4>2 DEF Nesting
      <4> QED
        BY <4>1, <4>2
    <3>4. ~ResetInRun => Copies' /\ ResultsInOrder'
      BY <2>1, CopiesStep, ResultsStep DEF IInv, OrderInv, BatchInv
    <3> QED
      BY <3>1, <3>2, <3>3, <3>4 DEF BatchInv
  <2>2. ASSUME BatchInv, UNCHANGED vars PROVE BatchInv'
    <3> USE <2>2 DEF vars, agentVars, loopVars, batchVars, history
    <3>1. BatchShape'
      BY SameShape DEF BatchInv
    <3>2. Settled'
      BY SameSettled DEF BatchInv, Turned, NoTurn
    <3>3. Nesting'
      BY DEF BatchInv, Nesting, EventsNest, Throws
    <3>4. ~ResetInRun' => Copies' /\ ResultsInOrder'
      BY SameCopies DEF BatchInv, ResetInRun, ResultsInOrder
    <3> QED
      BY <3>1, <3>2, <3>3, <3>4 DEF BatchInv
  <2> QED
    BY <2>1, <2>2
<1> QED
  BY <1>1, <1>2, Invariance, OrderInvariance, PTL DEF Spec

\* The context runLoop builds message by message is, whenever the model is
\* asked, the transcript processEvents builds from the events.
THEOREM TranscriptsAgreeAlways == Spec => []TranscriptsAgree
<1>1. IInv /\ BatchInv => TranscriptsAgree
  BY DEF BatchInv, Copies, TranscriptsAgree, ContextMatches
<1> QED
  BY <1>1, Invariance, BatchInvariance, PTL

\* Tool results stand behind the reply that made their calls, in call order,
\* whatever the order in which parallel calls end; and the model goes on only
\* from answered calls (executeToolCallsSequential, executeToolCallsParallel).
THEOREM CallsPairedAlways == Spec => []CallsPaired
<1>1. IInv /\ BatchInv => CallsPaired
  BY SettledAnswers DEF IInv, BatchInv, CallsPaired
<1> QED
  BY <1>1, Invariance, BatchInvariance, PTL

\* When nobody throws, the events of a run nest: turns in the run, messages
\* and tool executions in turns, nothing behind agent_end (runLoop).
THEOREM EventsNestAlways == Spec => []EventsOfRunNest
<1>1. BatchInv => EventsOfRunNest
  BY DEF BatchInv, Nesting, EventsOfRunNest
<1> QED
  BY <1>1, BatchInvariance, PTL

=============================================================================
