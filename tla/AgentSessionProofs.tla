------------------------- MODULE AgentSessionProofs -------------------------
(***************************************************************************)
(* For any callers, scenarios and number of retries: the variables of      *)
(* AgentSession keep their types, the session holds the agent's messages   *)
(* in the order in which they were emitted, and a compaction drops nothing *)
(* from the first entry it keeps on; in the second half, with what this    *)
(* needs of runs and timers, that retries stay within the limit and that   *)
(* the agent's messages and the session's context agree.                   *)
(***************************************************************************)
EXTENDS AgentSession, SequenceLemmas

MessageType ==
    [role : {"user", "assistant", "bash", "summary"},
     outcome : Outcomes \cup {"none", "aborted"},
     first : Nat, recent : Seq(Nat), replaces : BOOLEAN]
RunType ==
    [state : {"idle", "turn", "over"}, owner : Callers \cup {NoOne}, reply : Nat,
     aborted : BOOLEAN]
CompactionType ==
    [phase : {"none", "idle", "key", "summary", "saved"},
     reason : {"none", "overflow", "threshold"}, first : Nat, recent : Seq(Nat)]

\* Every message of a list is known; an outcome is one the model may have.
Infos ==
    /\ scenario \in Scenarios
    /\ info \in Seq(MessageType)
    /\ \A m \in Ids : info[m].recent \in Seq(Ids)
    /\ \A m \in Ids : info[m].outcome \in scenario.outcomes \cup {"none", "aborted"}

\* The messages of the user, of the user and the model, and of bash.
Users == {m \in Ids : Role(m) = "user"}
Spoken == {m \in Ids : Role(m) \in {"user", "assistant"}}
Bashes == {m \in Ids : Role(m) = "bash"}

Lists ==
    /\ messages \in Seq(Ids) /\ log \in Seq(Ids) /\ emitted \in Seq(Spoken)
    /\ steering \in Seq(Users) /\ steeringShown \in Seq(Ids) /\ pendingBash \in Seq(Bashes)
\* The reply of an active run is a reply.
Runs ==
    /\ run \in RunType
    /\ run.reply \in 0 .. Len(info)
    /\ run.state # "idle" => run.reply \in Ids /\ IsAssistant(run.reply)
\* The handler works on the first event; it decides at an agent_end.
EventsOf(S) == [type : {"message", "agent_end"}, msg : S]
Queue ==
    /\ events \in Seq(EventsOf(Spoken))
    /\ handler \in {"free", "emitting", "backoff", "compacting"}
    /\ handler # "free" => events # <<>>
    /\ handler \in {"backoff", "compacting"} => Current.type = "agent_end"
    /\ handler = "compacting" <=> compaction["queue"].phase # "none"
    /\ lastAssistant \in 0 .. Len(info)
\* What a summary and a compaction keep is in the session.
FirstsIn(entries, inf) ==
    \A m \in ToSet(entries) : inf[m].role = "summary" => inf[m].first \in ToSet(entries)
Compactions ==
    /\ compaction \in [Compactors -> CompactionType]
    /\ \A k \in Compactors : compaction[k].recent \in Seq(Ids)
    /\ \A k \in Compactors :
          compaction[k].phase = "summary" => compaction[k].first \in ToSet(log)
    /\ FirstsIn(log, info)
    /\ controller \in Compactors \cup {NoOne}
Others ==
    /\ timers \in [{"retry", "resume"} -> Nat]
    /\ attempt \in 0 .. MaxRetries /\ retries \in Nat
    /\ connected \in BOOLEAN /\ retryPromise \in BOOLEAN /\ overflowTried \in BOOLEAN
    /\ pc \in [Callers -> Steps]

TypeInv == Infos /\ Lists /\ Runs /\ Queue /\ Compactions /\ Others

LEMMA TypeInvIsTyped == TypeInv => TypeOK
<1> SUFFICES ASSUME TypeInv PROVE TypeOK
  OBVIOUS
<1>1. \A s \in {messages, log, steering, steeringShown, pendingBash, emitted} :
          ToSet(s) \subseteq Ids
  <2>1. Users \subseteq Ids /\ Spoken \subseteq Ids /\ Bashes \subseteq Ids
    BY DEF Users, Spoken, Bashes
  <2> QED
    BY <2>1 DEF TypeInv, Lists, ToSet
<1>2. /\ scenario \in Scenarios
      /\ run.state \in {"idle", "turn", "over"} /\ run.owner \in Callers \cup {NoOne}
      /\ run.reply \in 0 .. Len(info)
  BY DEF TypeInv, Infos, Runs, RunType
<1>3. /\ \A i \in DOMAIN events :
            events[i].type \in {"message", "agent_end"} /\ events[i].msg \in Ids
      /\ handler \in {"free", "emitting", "backoff", "compacting"}
      /\ lastAssistant \in 0 .. Len(info)
  <2>1. EventsOf(Spoken) \subseteq EventsOf(Ids)
    BY DEF EventsOf, Spoken
  <2>2. \A i \in DOMAIN events : events[i] \in EventsOf(Spoken)
    BY DEF TypeInv, Queue
  <2> QED
    BY <2>1, <2>2 DEF TypeInv, Queue, EventsOf
<1> QED
  BY <1>1, <1>2, <1>3 DEF TypeOK, TypeInv, Others, Compactions

(***************************************************************************)
(* The steps, and which variables each of them leaves alone.               *)
(***************************************************************************)
Replies == \E outcome \in scenario.outcomes \cup {"aborted"} : Reply(outcome)
Continues == \E reason \in DOMAIN timers : Continue(reason)
Decides == (Deciding \/ handler = "backoff") /\ \E gaveUp \in BOOLEAN : Decide(gaveUp)
Prompts == \E c \in scenario.callers : Prompt(c)
Refuses == \E c \in scenario.callers : PromptRefused(c)
Submits == \E c \in Callers : Submit(c)
Prepares == \E k \in Compactors : Prepare(k)
Saves == \E k \in Compactors, replaces \in BOOLEAN : SaveCompaction(k, replaces)
Ends == \E k \in Compactors : EndCompaction(k)
Fails == \E k \in Compactors : CompactionFails(k)

LEMMA Actions ==
    ASSUME Next
    PROVE  \/ Replies \/ FinishRun \/ Continues
           \/ TakeEvent \/ PersistMessage \/ EventFails \/ NothingToDecide
           \/ BeginBackoff \/ EndBackoff \/ Decides
           \/ Prompts \/ Refuses \/ Submits
           \/ Steer \/ ClearQueue \/ RecordBash \/ Abort \/ AbortCompaction \/ Compact
           \/ CompactIdle \/ Prepares \/ Saves \/ Ends \/ Fails
<1>1. BackoffCancelled \/ GiveUp \/ EndWithoutRetry => Decides
  BY Zenon DEF Decides, BackoffCancelled, GiveUp, EndWithoutRetry
<1> QED
  BY Zenon, <1>1 DEF Next, Agent, Timer, Handler, Client, Compacting, Replies, Continues,
     Prompts, Refuses, Submits, Prepares, Saves, Ends, Fails

(***************************************************************************)
(* Messages: new ones are added, and a reply gets its outcome.             *)
(***************************************************************************)

\* What info may be after a step.
Later(inf) ==
    /\ inf \in Seq(MessageType) /\ Len(info) <= Len(inf)
    /\ \A m \in 1 .. Len(inf) :
          /\ inf[m].recent \in Seq(1 .. Len(inf))
          /\ inf[m].outcome \in scenario.outcomes \cup {"none", "aborted"}
    /\ \A m \in Ids :
          /\ inf[m].role = info[m].role /\ inf[m].first = info[m].first
          /\ inf[m].replaces = info[m].replaces /\ inf[m].recent = info[m].recent

LEMMA MoreIds ==
    ASSUME NEW n \in Nat, NEW k \in Nat, n <= k
    PROVE  1 .. n \subseteq 1 .. k /\ \A s \in Seq(1 .. n) : s \in Seq(1 .. k)
<1>1. 1 .. n \subseteq 1 .. k
  OBVIOUS
<1> QED
  BY <1>1

LEMMA WiderSequence ==
    ASSUME NEW S, NEW T, S \subseteq T, NEW s \in Seq(S)
    PROVE  s \in Seq(T)
  OBVIOUS

LEMMA NewType ==
    ASSUME NEW role \in {"user", "assistant", "bash", "summary"}
    PROVE  /\ New(role) \in MessageType /\ New(role).role = role
           /\ New(role).outcome = "none" /\ \A S : New(role).recent \in Seq(S)
<1>1. <<>> \in Seq(Nat) /\ \A S : <<>> \in Seq(S)
  OBVIOUS
<1> QED
  BY <1>1 DEF New, MessageType

LEMMA LaterAppend ==
    ASSUME Infos, NEW inf, Later(inf), NEW e \in MessageType,
           e.recent \in Seq(1 .. Len(inf)), e.outcome = "none"
    PROVE  Later(Append(inf, e)) /\ Len(Append(inf, e)) = Len(inf) + 1
           /\ Append(inf, e)[Len(inf) + 1] = e
<1> DEFINE a == Append(inf, e)
           N == Len(inf)
<1>1. /\ a \in Seq(MessageType) /\ Len(a) = N + 1 /\ N \in Nat
      /\ \A i \in 1 .. N : a[i] = inf[i]
      /\ a[N + 1] = e
  BY AppendElements DEF Later
<1>2. Len(info) \in Nat /\ Len(info) <= N
  BY DEF Infos, Later
<1> HIDE DEF a, N
<1>3. \A s \in Seq(1 .. N) : s \in Seq(1 .. N + 1)
  BY <1>1, MoreIds
<1>4. ASSUME NEW m \in 1 .. N + 1
      PROVE  /\ a[m].recent \in Seq(1 .. N + 1)
             /\ a[m].outcome \in scenario.outcomes \cup {"none", "aborted"}
  <2>1. CASE m \in 1 .. N
    BY <1>1, <1>3, <2>1 DEF Later, N
  <2>2. CASE m = N + 1
    BY <1>1, <1>3, <2>2 DEF N
  <2> QED
    BY <1>1, <2>1, <2>2
<1>5. \A m \in Ids : a[m] = inf[m]
  BY <1>1, <1>2 DEF Ids
<1>6. ASSUME NEW m \in Ids
      PROVE  /\ a[m].role = info[m].role /\ a[m].first = info[m].first
             /\ a[m].replaces = info[m].replaces /\ a[m].recent = info[m].recent
  BY <1>5 DEF Later
<1>7. Later(a)
  BY <1>1, <1>2, <1>4, <1>6 DEF Later
<1> QED
  BY <1>1, <1>7 DEF a, N

LEMMA LaterOutcome ==
    ASSUME Infos, NEW m \in Ids, NEW o \in scenario.outcomes \cup {"aborted"}
    PROVE  Later([info EXCEPT ![m].outcome = o]) /\ Later(info)
           /\ Len([info EXCEPT ![m].outcome = o]) = Len(info)
<1> DEFINE inf == [info EXCEPT ![m].outcome = o]
<1>1. info \in Seq(MessageType) /\ Len(info) \in Nat /\ DOMAIN info = 1 .. Len(info)
  BY DEF Infos
<1>2. scenario.outcomes \subseteq Outcomes
  BY ScenariosAssumption DEF Infos
<1>3. [info[m] EXCEPT !.outcome = o] \in MessageType
  <2> DEFINE x == info[m]
  <2>1. x \in MessageType
    BY <1>1 DEF Ids
  <2> HIDE DEF x
  <2>2. [x EXCEPT !.outcome = o] \in MessageType
    BY <1>2, <2>1 DEF MessageType
  <2> QED
    BY <2>2 DEF x
<1>4. /\ inf \in Seq(MessageType) /\ Len(inf) = Len(info)
      /\ \A i \in Ids : inf[i] = IF i = m THEN [info[m] EXCEPT !.outcome = o] ELSE info[i]
  BY <1>1, <1>3 DEF Ids
<1>5. \A i \in Ids : info[i] \in MessageType
  BY <1>1 DEF Ids
<1>6. ASSUME NEW i \in Ids
      PROVE  /\ inf[i].role = info[i].role /\ inf[i].first = info[i].first
             /\ inf[i].replaces = info[i].replaces /\ inf[i].recent = info[i].recent
             /\ inf[i].outcome \in {info[i].outcome, o}
  BY <1>4, <1>5 DEF MessageType
<1> HIDE DEF inf
<1>7. Later(inf)
  <2>1. 1 .. Len(inf) = Ids
    BY <1>4 DEF Ids
  <2>2. \A i \in Ids : inf[i].recent \in Seq(Ids)
    BY <1>6 DEF Infos
  <2>3. \A i \in Ids : inf[i].outcome \in scenario.outcomes \cup {"none", "aborted"}
    BY <1>6 DEF Infos
  <2>4. Len(info) <= Len(inf)
    BY <1>1, <1>4
  <2> QED
    BY Zenon, <1>4, <1>6, <2>1, <2>2, <2>3, <2>4 DEF Later
<1>8. Later(info)
  BY <1>1 DEF Later, Infos, Ids
<1> QED
  BY <1>4, <1>7, <1>8 DEF inf

LEMMA LaterItself == Infos => Later(info)
  BY DEF Later, Infos, Ids

\* What each step may change.
Changes ==
    /\ scenario' = scenario
    /\ info' = info \/ Replies \/ Continues \/ Submits \/ Steer \/ RecordBash \/ Saves
    /\ messages' = messages \/ Replies \/ Continues \/ BeginBackoff \/ Decides \/ Prompts
       \/ Submits \/ RecordBash \/ Saves \/ Ends
    /\ run' = run \/ Replies \/ FinishRun \/ Continues \/ Submits \/ Abort \/ Compact
    /\ steering' = steering \/ Replies \/ Continues \/ Submits \/ Steer \/ ClearQueue
    /\ timers' = timers \/ Continues \/ EndBackoff \/ Ends
    /\ log' = log \/ PersistMessage \/ Prompts \/ RecordBash \/ Saves
    /\ connected' = connected \/ Compact \/ Ends \/ Fails
    /\ events' = events \/ Replies \/ Continues \/ Submits
       \/ (EventDone /\ (PersistMessage \/ EventFails \/ NothingToDecide \/ EndBackoff
                         \/ Decides \/ Ends \/ Fails))
    /\ handler' = handler \/ TakeEvent \/ BeginBackoff
       \/ (EventDone /\ (PersistMessage \/ EventFails \/ NothingToDecide \/ EndBackoff))
       \/ Decides \/ Ends \/ Fails
    /\ lastAssistant' \in {lastAssistant, 0} \/ PersistMessage
    /\ attempt' \in {attempt, 0} \/ BeginBackoff
    /\ retries' \in {retries, 0} \/ Continues
    /\ retryPromise' = retryPromise \/ retryPromise' \in BOOLEAN
    /\ overflowTried' = overflowTried \/ overflowTried' \in BOOLEAN
    /\ compaction' = compaction \/ Decides \/ Prompts \/ Compact \/ CompactIdle
       \/ Prepares \/ Saves \/ Ends \/ Fails
    /\ controller' \in {controller, NoOne} \/ Decides \/ Prompts
    /\ steeringShown' = steeringShown \/ TakeEvent \/ Steer \/ ClearQueue
    /\ pendingBash' = pendingBash \/ Prompts \/ RecordBash
    /\ emitted' = emitted \/ Replies \/ Continues \/ Submits
    /\ pc' = pc \/ Replies \/ FinishRun \/ Decides \/ Prompts \/ Refuses \/ Submits
       \/ Abort \/ Compact \/ Ends \/ Fails

LEMMA StepsChange ==
    ASSUME Next
    PROVE  Changes
<1> USE DEF Changes, agentVars, queueVars, retryVars, compactVars, clientVars
<1>1. CASE Replies
  BY <1>1 DEF Replies, Reply, CreateRetryPromise
<1>2. CASE FinishRun
  BY <1>2 DEF FinishRun
<1>3. CASE Continues
  BY <1>3 DEF Continues, Continue
<1>4. CASE TakeEvent
  BY <1>4 DEF TakeEvent
<1>5. CASE PersistMessage
  BY <1>5 DEF PersistMessage, CountSuccess
<1>6. CASE EventFails
  BY <1>6 DEF EventFails
<1>7. CASE NothingToDecide
  BY <1>7 DEF NothingToDecide
<1>8. CASE BeginBackoff
  BY <1>8 DEF BeginBackoff
<1>9. CASE EndBackoff
  BY <1>9 DEF EndBackoff
<1>10. CASE Decides
  BY <1>10 DEF Decides, Decide, BeginCompaction, ResolveRetry
<1>11. CASE Prompts
  BY <1>11 DEF Prompts, Prompt, BeginCompaction
<1>12. CASE Refuses
  BY <1>12 DEF Refuses, PromptRefused
<1>13. CASE Submits
  BY <1>13 DEF Submits, Submit
<1>14. CASE Steer
  BY <1>14 DEF Steer, Use
<1>15. CASE ClearQueue
  BY <1>15 DEF ClearQueue, Use
<1>16. CASE RecordBash
  BY <1>16 DEF RecordBash, Use
<1>17. CASE Abort
  BY <1>17 DEF Abort, AbortAll, ResolveRetry, Use
<1>18. CASE AbortCompaction
  BY <1>18 DEF AbortCompaction, Use
<1>19. CASE Compact
  BY <1>19 DEF Compact, AbortAll, ResolveRetry, Use
<1>20. CASE CompactIdle
  BY <1>20 DEF CompactIdle
<1>21. CASE Prepares
  BY <1>21 DEF Prepares, Prepare
<1>22. CASE Saves
  BY <1>22 DEF Saves, SaveCompaction
<1>23. CASE Ends
  BY <1>23 DEF Ends, EndCompaction, LeaveCompaction
<1>24. CASE Fails
  BY <1>24 DEF Fails, CompactionFails, LeaveCompaction
<1> QED
  BY Zenon, Actions, <1>1, <1>2, <1>3, <1>4, <1>5, <1>6, <1>7, <1>8, <1>9, <1>10, <1>11, <1>12, <1>13, <1>14, <1>15, <1>16, <1>17, <1>18, <1>19, <1>20, <1>21, <1>22, <1>23, <1>24

\* A run starts with the message that was steered first, if there is one.
Polled(ms) == IF steering = <<>> THEN ms ELSE Append(ms, Head(steering))

LEMMA StartRunIs ==
    ASSUME NEW inf, NEW ms, NEW owner, StartRun(inf, ms, owner)
    PROVE  /\ BeginTurn(inf, Polled(ms), owner, FALSE)
           /\ steering' = IF steering = <<>> THEN steering ELSE Tail(steering)
<1>1. CASE steering = <<>>
  BY <1>1 DEF StartRun, Polled
<1>2. CASE steering # <<>>
  BY <1>2 DEF StartRun, Polled
<1> QED
  BY <1>1, <1>2

LEMMA StartRunInfo ==
    ASSUME Infos, NEW inf, Later(inf), NEW ms, NEW owner, StartRun(inf, ms, owner)
    PROVE  /\ info' = Append(inf, New("assistant")) /\ Later(info')
           /\ Len(info') = Len(inf) + 1 /\ info'[Len(inf) + 1] = New("assistant")
<1>1. info' = Append(inf, New("assistant"))
  BY Zenon, StartRunIs DEF BeginTurn
<1>2. /\ New("assistant") \in MessageType /\ New("assistant").outcome = "none"
      /\ New("assistant").recent \in Seq(1 .. Len(inf))
  <2>1. "assistant" \in {"user", "assistant", "bash", "summary"}
    OBVIOUS
  <2> QED
    BY <2>1, NewType
<1> DEFINE e == New("assistant")
<1> HIDE DEF e
<1>3. Later(Append(inf, e)) /\ Len(Append(inf, e)) = Len(inf) + 1
      /\ Append(inf, e)[Len(inf) + 1] = e
  BY <1>2, LaterAppend DEF e
<1> QED
  BY <1>1, <1>3 DEF e

LEMMA InfoStep ==
    ASSUME TypeInv, Next
    PROVE  Later(info') /\ scenario' = scenario
<1>0. Changes
  BY StepsChange
<1> SUFFICES Later(info')
  BY <1>0 DEF Changes
<1>1. Infos /\ Runs /\ Compactions /\ Later(info)
  BY LaterItself DEF TypeInv
<1>2. CASE info' = info
  BY <1>1, <1>2
<1>3. ASSUME NEW inf, Later(inf), NEW role \in {"user", "assistant", "bash", "summary"}
      PROVE  Later(Append(inf, New(role)))
  <2> DEFINE e == New(role)
  <2>1. e \in MessageType /\ e.outcome = "none" /\ e.recent \in Seq(1 .. Len(inf))
    BY NewType
  <2> HIDE DEF e
  <2>2. Later(Append(inf, e))
    BY <1>1, <1>3, <2>1, LaterAppend
  <2> QED
    BY <2>2 DEF e
<1>4. CASE Replies
  <2>1. PICK outcome \in scenario.outcomes \cup {"aborted"} : Reply(outcome)
    BY <1>4 DEF Replies
  <2> DEFINE inf == [info EXCEPT ![run.reply].outcome = outcome]
  <2>2. info' \in {inf, Append(inf, New("assistant"))} /\ run.state = "turn"
    BY Zenon, <2>1 DEF Reply
  <2>3. Later(inf)
    BY <1>1, <2>2, LaterOutcome DEF Runs
  <2> HIDE DEF inf
  <2>4. Later(Append(inf, New("assistant")))
    BY <1>3, <2>3
  <2> QED
    BY <2>2, <2>3, <2>4
<1>5. CASE Continues
  <2>1. StartRun(info, <<>>, NoOne) \/ info' = info
    BY Zenon, <1>5 DEF Continues, Continue, agentVars
  <2> QED
    BY <1>1, <2>1, StartRunInfo
<1>6. CASE Steer
  BY <1>1, <1>3, <1>6 DEF Steer
<1>7. CASE RecordBash
  BY <1>1, <1>3, <1>7 DEF RecordBash
<1>8. CASE Saves
  <2>1. PICK k \in Compactors, replaces \in BOOLEAN : SaveCompaction(k, replaces)
    BY <1>8 DEF Saves
  <2> DEFINE summary == [New("summary") EXCEPT !.first = compaction[k].first,
                            !.recent = compaction[k].recent, !.replaces = replaces]
  <2>2. info' = Append(info, summary)
    BY Zenon, <2>1 DEF SaveCompaction
  <2>3. compaction[k] \in CompactionType /\ compaction[k].recent \in Seq(Ids)
    BY <1>1 DEF Compactions
  <2>4. /\ summary \in MessageType /\ summary.recent \in Seq(1 .. Len(info))
        /\ summary.outcome = "none"
    BY <2>3 DEF New, MessageType, CompactionType, Ids
  <2> HIDE DEF summary
  <2> QED
    BY <1>1, <2>2, <2>4, LaterAppend
<1>9. CASE Submits
  <2>1. PICK c \in Callers : Submit(c)
    BY <1>9 DEF Submits
  <2>2. StartRun(Append(info, New("user")), <<NextId>>, c) \/ info' = info
    BY Zenon, <2>1 DEF Submit, agentVars
  <2>3. Later(Append(info, New("user")))
    BY <1>1, <1>3
  <2> QED
    BY <1>1, <2>2, <2>3, StartRunInfo
<1> QED
  BY Zenon, <1>0, <1>2, <1>4, <1>5, <1>6, <1>7, <1>8, <1>9 DEF Changes

(***************************************************************************)
(* Sequences of messages.                                                  *)
(***************************************************************************)

LEMMA Grown ==
    ASSUME Infos, Later(info')
    PROVE  /\ Ids \subseteq Ids' /\ Users \subseteq Users' /\ Spoken \subseteq Spoken'
           /\ Bashes \subseteq Bashes'
           /\ \A m \in Ids : info'[m].role = info[m].role /\ info'[m].first = info[m].first
<1>1. Len(info) \in Nat /\ Len(info') \in Nat /\ Len(info) <= Len(info')
  BY DEF Infos, Later
<1>2. Ids \subseteq Ids'
  BY <1>1 DEF Ids
<1>3. \A m \in Ids : info'[m].role = info[m].role /\ info'[m].first = info[m].first
  BY DEF Later
<1> QED
  BY <1>2, <1>3 DEF Users, Spoken, Bashes, Role

LEMMA WithoutType ==
    ASSUME NEW S, NEW s \in Seq(S)
    PROVE  WithoutLastAssistant(s) \in Seq(S)
<1>1. s # <<>> => Front(s) \in Seq(S)
  BY FrontThenLast
<1> QED
  BY <1>1 DEF WithoutLastAssistant, EndsWithAssistant

\* Where the summaries are.
SummariesOf(entries, inf) == {i \in DOMAIN entries : inf[entries[i]].role = "summary"}

LEMMA ContextType ==
    ASSUME NEW inf, NEW entries, NEW S, entries \in Seq(S),
           \A m \in S : inf[m].role = "summary" => inf[m].recent \in Seq(S),
           FirstsIn(entries, inf)
    PROVE  Context(entries, inf) \in Seq(S)
<1> DEFINE sums == SummariesOf(entries, inf)
           c == Max(sums)
           first == CHOOSE i \in DOMAIN entries : entries[i] = inf[entries[c]].first
           kept == {m \in ToSet(entries) : inf[m].role # "summary"}
           before == SubSeq(entries, first, c - 1)
           after == SubSeq(entries, c + 1, Len(entries))
           from == SubSeq(entries, c, Len(entries))
<1>1. DOMAIN entries = 1 .. Len(entries) /\ Len(entries) \in Nat
  OBVIOUS
<1>2. CASE sums = {}
  BY <1>2 DEF Context, SummariesOf
<1>3. CASE sums # {}
  <2>1. sums \in SUBSET (1 .. Len(entries))
    BY <1>1 DEF SummariesOf
  <2>2. c \in sums
    <3> DEFINE n == Len(entries)
    <3> HIDE DEF n, sums
    <3> QED
      BY <1>1, <1>3, <2>1, GreatestOne DEF n
  <2> HIDE DEF c
  <2>3. /\ c \in 1 .. Len(entries) /\ entries[c] \in S /\ entries[c] \in ToSet(entries)
        /\ inf[entries[c]].role = "summary"
    BY <1>1, <2>2 DEF SummariesOf, ToSet
  <2>4. \E i \in DOMAIN entries : entries[i] = inf[entries[c]].first
    BY <2>3 DEF FirstsIn, ToSet
  <2>5. first \in 1 .. Len(entries)
    BY <1>1, <2>4
  <2> HIDE DEF first
  <2>6. before \in Seq(S) /\ after \in Seq(S) /\ from \in Seq(S)
    <3> DEFINE L == Len(entries)
    <3>1. /\ first \in Nat \ {0} /\ c \in Nat \ {0} /\ c + 1 \in Nat \ {0} /\ c - 1 \in Nat
          /\ L \in Nat /\ c - 1 <= L /\ L <= L
      BY <1>1, <2>3, <2>5
    <3>2. before \in Seq(S)
      BY <3>1, PartElements
    <3>3. after \in Seq(S)
      BY <3>1, PartElements
    <3>4. from \in Seq(S)
      BY <3>1, PartElements
    <3> QED
      BY <3>2, <3>3, <3>4
  <2>7. <<entries[c]>> \in Seq(S) /\ inf[entries[c]].recent \in Seq(S)
    BY <2>3
  <2> HIDE DEF before, after, from
  <2>8. Filtered(before, kept) \in Seq(S)
    <3>1. Filtered(before, kept) \in Seq((S) \cap kept)
      BY <2>6, FilteredElements
    <3> QED
      BY <3>1
  <2>9. Context(entries, inf) =
          IF inf[entries[c]].replaces THEN inf[entries[c]].recent \o from
          ELSE <<entries[c]>> \o Filtered(before, kept) \o after
    BY <1>3 DEF Context, SummariesOf, c, first, before, after, from
  <2> HIDE DEF kept
  <2>10. inf[entries[c]].recent \o from \in Seq(S)
    BY <2>6, <2>7
  <2>11. <<entries[c]>> \o Filtered(before, kept) \in Seq(S)
    BY <2>7, <2>8
  <2>12. <<entries[c]>> \o Filtered(before, kept) \o after \in Seq(S)
    BY <2>6, <2>11
  <2> QED
    BY <2>9, <2>10, <2>12
<1> QED
  BY <1>2, <1>3

\* The entry that is the first one kept has a place in the session.
LEMMA PlaceInLog ==
    ASSUME Lists, NEW first \in ToSet(log)
    PROVE  /\ (CHOOSE i \in DOMAIN log : log[i] = first) \in 1 .. Len(log)
           /\ log[CHOOSE i \in DOMAIN log : log[i] = first] = first
<1>1. log \in Seq(Ids) /\ DOMAIN log = 1 .. Len(log)
  BY DEF Lists
<1>2. \E i \in DOMAIN log : log[i] = first
  BY DEF ToSet
<1> QED
  BY <1>1, <1>2

LEMMA KeepPointsIn ==
    ASSUME TypeInv
    PROVE  KeepPoints \subseteq ToSet(log)
<1> DEFINE c == LatestCompaction(log)
           boundary == IF c = 0 THEN 1 ELSE CHOOSE i \in DOMAIN log : log[i] = info[c].first
<1>1. log \in Seq(Ids) /\ DOMAIN log = 1 .. Len(log) /\ Len(log) \in Nat
  BY DEF TypeInv, Lists
<1>2. c # 0 => c \in ToSet(log) /\ Role(c) = "summary"
  <2> SUFFICES ASSUME c # 0 PROVE c \in ToSet(log) /\ Role(c) = "summary"
    OBVIOUS
  <2> DEFINE sums == Summaries(log)
             n == Len(log)
  <2>1. sums # {} /\ c = log[Max(sums)]
    BY DEF LatestCompaction
  <2>2. sums \in SUBSET (1 .. n)
    BY <1>1 DEF Summaries
  <2>3. Max(sums) \in sums
    <3> HIDE DEF sums, n
    <3> QED
      BY <1>1, <2>1, <2>2, GreatestOne DEF n
  <2> QED
    BY <2>1, <2>3 DEF Summaries, ToSet
<1>3. boundary \in Nat \ {0}
  <2>1. CASE c = 0
    BY <2>1
  <2>2. CASE c # 0
    <3>1. info[c].first \in ToSet(log)
      BY <1>2, <2>2 DEF TypeInv, Compactions, FirstsIn, Role
    <3> HIDE DEF c
    <3> QED
      BY <1>1, <2>2, <3>1, PlaceInLog DEF TypeInv
  <2> QED
    BY <2>1, <2>2
<1>4. KeepPoints = {log[i] : i \in {j \in boundary .. Len(log) : Role(log[j]) # "summary"}}
  BY DEF KeepPoints
<1> HIDE DEF c, boundary
<1>5. boundary .. Len(log) \subseteq DOMAIN log
  BY <1>1, <1>3
<1> QED
  BY <1>4, <1>5 DEF ToSet

LEMMA RecentUsersType ==
    ASSUME TypeInv, NEW first \in ToSet(log), NEW reason, NEW S, log \in Seq(S)
    PROVE  RecentUsers(first, reason) \in Seq(S)
<1> DEFINE from == CHOOSE i \in DOMAIN log : log[i] = first
           part == SubSeq(log, from, Len(log))
           users == Filtered(part, {m \in ToSet(log) : Role(m) = "user"})
           most == IF reason = "overflow" THEN 3 ELSE 2
           start == Max({1, Len(users) - most + 1})
<1>0. Lists
  BY DEF TypeInv
<1>1. from \in 1 .. Len(log)
  BY <1>0, PlaceInLog
<1> HIDE DEF from
<1>2. log \in Seq(S) /\ Len(log) \in Nat /\ from \in Nat \ {0}
  BY <1>0, <1>1 DEF Lists
<1>3. part \in Seq(S)
  <2> DEFINE n == Len(log)
  <2>1. n \in Nat /\ n <= Len(log)
    BY <1>2
  <2> HIDE DEF n
  <2>2. SubSeq(log, from, n) \in Seq(S)
    BY <1>2, <2>1, PartElements
  <2> QED
    BY <2>2 DEF n
<1> HIDE DEF part
<1>4. users \in Seq(S)
  <2>1. users \in Seq(S \cap {m \in ToSet(log) : Role(m) = "user"})
    BY <1>3, FilteredElements
  <2> QED
    BY <2>1
<1> HIDE DEF users
<1>5. start \in Nat \ {0}
  <2> DEFINE x == Len(users) - most + 1
             y == IF x >= 1 THEN x ELSE 1
  <2>1. x \in Int
    BY <1>4
  <2> HIDE DEF x
  <2>2. y \in {1, x} /\ \A z \in {1, x} : y >= z
    BY <2>1
  <2>3. \A y1, y2 \in {1, x} :
            (\A z \in {1, x} : y1 >= z) /\ (\A z \in {1, x} : y2 >= z) => y1 = y2
    BY <2>1
  <2>4. Max({1, x}) = y
    BY <2>2, <2>3 DEF Max
  <2> QED
    BY <2>1, <2>4 DEF x
<1> HIDE DEF start
<1>6. SubSeq(users, start, Len(users)) \in Seq(S)
  <2> DEFINE n == Len(users)
  <2>1. n \in Nat /\ n <= Len(users)
    BY <1>4
  <2> HIDE DEF n
  <2>2. SubSeq(users, start, n) \in Seq(S)
    BY <1>4, <1>5, <2>1, PartElements
  <2> QED
    BY <2>2 DEF n
<1> QED
  BY <1>6 DEF RecentUsers, from, part, users, start

(***************************************************************************)
(* What the agent emits.                                                   *)
(***************************************************************************)

LEMMA MessageEventsType ==
    ASSUME NEW S, NEW ms \in Seq(S)
    PROVE  /\ MessageEvents(ms) \in Seq(EventsOf(S)) /\ Len(MessageEvents(ms)) = Len(ms)
           /\ \A i \in 1 .. Len(ms) : MessageEvents(ms)[i] = Event("message", ms[i])
<1>1. \A i \in DOMAIN ms : Event("message", ms[i]) \in EventsOf(S)
  BY DEF Event, EventsOf
<1> QED
  BY <1>1 DEF MessageEvents

LEMMA EmitTypes ==
    ASSUME NEW S, events \in Seq(EventsOf(S)), emitted \in Seq(S),
           NEW evs \in Seq(EventsOf(S)), NEW ms \in Seq(S), Emit(evs, ms)
    PROVE  events' \in Seq(EventsOf(S)) /\ emitted' \in Seq(S)
<1>1. events \o evs \in Seq(EventsOf(S)) /\ emitted \o ms \in Seq(S)
  OBVIOUS
<1> QED
  BY <1>1 DEF Emit

LEMMA PolledType ==
    ASSUME NEW S, Lists, NEW ms \in Seq(S), Users \subseteq S
    PROVE  Polled(ms) \in Seq(S)
<1>1. CASE steering = <<>>
  BY <1>1 DEF Polled
<1>2. CASE steering # <<>>
  <2>1. Head(steering) \in Users
    BY <1>2, HeadAndTail DEF Lists
  <2>2. Head(steering) \in S
    BY <2>1
  <2> DEFINE h == Head(steering)
  <2> HIDE DEF h
  <2>3. Append(ms, h) \in Seq(S)
    BY <2>2 DEF h
  <2> QED
    BY <1>2, <2>3 DEF Polled, h
<1> QED
  BY <1>1, <1>2

LEMMA SteeringTail ==
    ASSUME Lists
    PROVE  steering # <<>> => Head(steering) \in Users /\ Tail(steering) \in Seq(Users)
  BY HeadAndTail DEF Lists

\* The lists after messages are emitted.
LEMMA StartRunTypes ==
    ASSUME TypeInv, NEW inf, Later(inf), NEW ms, NEW owner \in Callers \cup {NoOne},
           StartRun(inf, ms, owner), ms \in Seq(Users')
    PROVE  /\ messages' \in Seq(Ids') /\ steering' \in Seq(Users')
           /\ events' \in Seq(EventsOf(Spoken')) /\ emitted' \in Seq(Spoken')
           /\ run' \in RunType /\ run'.reply \in Ids' /\ info'[run'.reply].role = "assistant"
<1>1. Infos /\ Lists /\ Queue
  BY DEF TypeInv
<1>2. /\ Later(info') /\ Len(info') = Len(inf) + 1 /\ info'[Len(inf) + 1] = New("assistant")
  BY <1>1, StartRunInfo
<1>3. Ids \subseteq Ids' /\ Users \subseteq Users' /\ Spoken \subseteq Spoken'
  BY <1>1, <1>2, Grown
<1>4. Users' \subseteq Spoken' /\ Users' \subseteq Ids'
  BY DEF Users, Spoken
<1> DEFINE ps == Polled(ms)
<1>5. /\ messages' = messages \o ps
      /\ run' = [state |-> "turn", owner |-> owner, reply |-> Len(inf) + 1, aborted |-> FALSE]
      /\ Emit(MessageEvents(ps), ps)
      /\ steering' = IF steering = <<>> THEN steering ELSE Tail(steering)
  BY Zenon, StartRunIs DEF BeginTurn
<1>6. ps \in Seq(Users')
  BY <1>1, <1>3, PolledType
<1> HIDE DEF ps
<1>7. ps \in Seq(Ids') /\ ps \in Seq(Spoken')
  BY <1>4, <1>6
<1>8. messages' \in Seq(Ids')
  <2>1. messages \in Seq(Ids')
    BY <1>1, <1>3 DEF Lists
  <2> QED
    BY <1>5, <1>7, <2>1
<1>9. steering' \in Seq(Users')
  <2>1. steering' \in Seq(Users)
    BY <1>1, <1>5, SteeringTail DEF Lists
  <2> QED
    BY <1>3, <2>1
<1>10. events' \in Seq(EventsOf(Spoken')) /\ emitted' \in Seq(Spoken')
  <2>1. MessageEvents(ps) \in Seq(EventsOf(Spoken'))
    BY <1>7, MessageEventsType
  <2>2. EventsOf(Spoken) \subseteq EventsOf(Spoken')
    BY <1>3 DEF EventsOf
  <2>3. events \in Seq(EventsOf(Spoken')) /\ emitted \in Seq(Spoken')
    BY <1>1, <1>3, <2>2 DEF Lists, Queue
  <2> QED
    BY <1>5, <1>7, <2>1, <2>3, EmitTypes
<1>11. /\ run' \in RunType /\ run'.reply \in Ids' /\ info'[run'.reply].role = "assistant"
  <2>1. Len(inf) \in Nat
    BY DEF Later
  <2> QED
    BY <1>2, <1>5, <2>1, NewType DEF RunType, Ids
<1> QED
  BY <1>8, <1>9, <1>10, <1>11

\* A run is started by a timer, or by a prompt with its message, or it is not.
StartedBy(inf, ms, owner) ==
    /\ Later(inf) /\ owner \in Callers \cup {NoOne}
    /\ StartRun(inf, ms, owner) /\ ms \in Seq(Users')
Prompted == Append(info, New("user"))
Starting ==
    \/ UNCHANGED <<info, messages, run, steering, events, emitted>>
    \/ StartedBy(info, <<>>, NoOne)
    \/ \E c \in Callers : StartedBy(Prompted, <<NextId>>, c)

LEMMA StartsAre ==
    ASSUME TypeInv, Next, Continues \/ Submits
    PROVE  Starting
<1>1. Infos /\ Later(info) /\ Later(info')
  BY LaterItself, InfoStep DEF TypeInv
<1>2. CASE Continues
  <2>1. \/ UNCHANGED <<info, messages, run, steering, events, emitted>>
        \/ StartRun(info, <<>>, NoOne)
    BY Zenon, <1>2 DEF Continues, Continue, agentVars
  <2>2. NoOne \in Callers \cup {NoOne} /\ <<>> \in Seq(Users')
    OBVIOUS
  <2> QED
    BY Zenon, <1>1, <2>1, <2>2 DEF Starting, StartedBy
<1>3. CASE Submits
  <2>1. PICK c \in Callers : Submit(c)
    BY <1>3 DEF Submits
  <2> DEFINE inf == Append(info, New("user"))
  <2>2. \/ UNCHANGED <<info, messages, run, steering, events, emitted>>
        \/ StartRun(inf, <<NextId>>, c)
    BY <2>1 DEF Submit, agentVars
  <2>3. SUFFICES ASSUME StartRun(inf, <<NextId>>, c)
                 PROVE  Later(inf) /\ <<NextId>> \in Seq(Users')
    BY Zenon, <2>2 DEF Starting, StartedBy, Prompted
  <2>4. /\ New("user") \in MessageType /\ New("user").outcome = "none"
        /\ New("user").recent \in Seq(1 .. Len(info)) /\ New("user").role = "user"
    <3>1. "user" \in {"user", "assistant", "bash", "summary"}
      OBVIOUS
    <3> QED
      BY <3>1, NewType
  <2> DEFINE e == New("user")
  <2> HIDE DEF e
  <2>5. Later(Append(info, e)) /\ Len(Append(info, e)) = Len(info) + 1
        /\ Append(info, e)[Len(info) + 1] = e
    BY <1>1, <2>4, LaterAppend DEF e
  <2> HIDE DEF inf
  <2>6. Later(inf) /\ Len(inf) = Len(info) + 1 /\ inf[Len(info) + 1] = e
    BY <2>5 DEF inf, e
  <2>7. info' = Append(inf, New("assistant")) /\ Len(info') = Len(inf) + 1
    BY <1>1, <2>3, <2>6, StartRunInfo
  <2>8. NextId \in Ids' /\ info'[NextId].role = "user"
    <3>1. Len(info) \in Nat /\ inf \in Seq(MessageType)
      BY <1>1, <2>6 DEF Infos, Later
    <3>2. info'[NextId] = inf[NextId]
      <4> DEFINE a == New("assistant")
      <4>1. a \in MessageType
        <5>1. "assistant" \in {"user", "assistant", "bash", "summary"}
          OBVIOUS
        <5> QED
          BY <5>1, NewType
      <4> HIDE DEF a
      <4>2. \A i \in 1 .. Len(inf) : Append(inf, a)[i] = inf[i]
        BY <3>1, <4>1, AppendElements
      <4> QED
        BY <2>6, <2>7, <3>1, <4>2 DEF a, NextId
    <3> QED
      BY <2>4, <2>6, <2>7, <3>1, <3>2 DEF Ids, NextId, e
  <2> QED
    BY <2>6, <2>8 DEF Users, Role
<1> QED
  BY <1>2, <1>3

LEMMA RunRecords ==
    ASSUME run \in RunType
    PROVE  /\ Idle \in RunType /\ Idle.state = "idle" /\ Idle.reply = 0
           /\ \A r \in Nat : [run EXCEPT !.reply = r] \in RunType
                             /\ [run EXCEPT !.reply = r].reply = r
                             /\ [run EXCEPT !.reply = r].state = run.state
           /\ [run EXCEPT !.state = "over"] \in RunType
           /\ [run EXCEPT !.state = "over"].reply = run.reply
           /\ [run EXCEPT !.aborted = TRUE] \in RunType
           /\ [run EXCEPT !.aborted = TRUE].reply = run.reply
           /\ [run EXCEPT !.aborted = TRUE].state = run.state
<1>1. Idle \in RunType /\ Idle.state = "idle" /\ Idle.reply = 0
  BY DEF Idle, RunType
<1>2. ASSUME NEW r \in Nat
      PROVE  [run EXCEPT !.reply = r] \in RunType
             /\ [run EXCEPT !.reply = r].reply = r /\ [run EXCEPT !.reply = r].state = run.state
  BY DEF RunType
<1>3. [run EXCEPT !.state = "over"] \in RunType /\ [run EXCEPT !.state = "over"].reply = run.reply
  BY DEF RunType
<1>4. /\ [run EXCEPT !.aborted = TRUE] \in RunType
      /\ [run EXCEPT !.aborted = TRUE].reply = run.reply
      /\ [run EXCEPT !.aborted = TRUE].state = run.state
  BY DEF RunType
<1> QED
  BY <1>1, <1>2, <1>3, <1>4

LEMMA ReplyTypes ==
    ASSUME TypeInv, Next, NEW outcome \in scenario.outcomes \cup {"aborted"}, Reply(outcome)
    PROVE  /\ messages' \in Seq(Ids') /\ steering' \in Seq(Users')
           /\ events' \in Seq(EventsOf(Spoken')) /\ emitted' \in Seq(Spoken')
           /\ run' \in RunType /\ run'.reply \in 0 .. Len(info')
           /\ run'.state # "idle" => run'.reply \in Ids' /\ info'[run'.reply].role = "assistant"
<1>1. Infos /\ Lists /\ Queue /\ Runs /\ Later(info')
  BY InfoStep DEF TypeInv
<1>2. /\ Ids \subseteq Ids' /\ Users \subseteq Users' /\ Spoken \subseteq Spoken'
      /\ \A m \in Ids : info'[m].role = info[m].role
  BY <1>1, Grown
<1>3. Users' \subseteq Spoken' /\ Users' \subseteq Ids'
  BY DEF Users, Spoken
<1> DEFINE m == run.reply
<1>4. run.state = "turn" /\ m \in Ids /\ Role(m) = "assistant"
  BY Zenon, <1>1 DEF Reply, Runs, IsAssistant
<1> HIDE DEF m
<1>5. m \in Ids' /\ m \in Spoken' /\ info'[m].role = "assistant"
  BY <1>2, <1>4 DEF Spoken, Role
<1>6. messages \in Seq(Ids') /\ steering \in Seq(Users')
  BY <1>1, <1>2 DEF Lists
<1>7. events \in Seq(EventsOf(Spoken')) /\ emitted \in Seq(Spoken')
  <2>1. EventsOf(Spoken) \subseteq EventsOf(Spoken')
    BY <1>2 DEF EventsOf
  <2> QED
    BY <1>1, <1>2, <2>1 DEF Lists, Queue
<1>8. CASE outcome \in {"ok", "large", "silent"} /\ steering # <<>>
  <2> DEFINE h == Head(steering)
  <2>1. /\ messages' = messages \o <<m, h>> /\ run' = [run EXCEPT !.reply = NextId]
        /\ steering' = Tail(steering) /\ Emit(MessageEvents(<<m, h>>), <<m, h>>)
        /\ info' = Append([info EXCEPT ![m].outcome = outcome], New("assistant"))
    BY Zenon, <1>8 DEF Reply, m
  <2>2. h \in Users /\ Tail(steering) \in Seq(Users)
    BY <1>1, <1>8, SteeringTail
  <2> HIDE DEF h
  <2>3. <<m, h>> \in Seq(Ids') /\ <<m, h>> \in Seq(Spoken')
    BY <1>2, <1>3, <1>5, <2>2
  <2>4. events' \in Seq(EventsOf(Spoken')) /\ emitted' \in Seq(Spoken')
    <3> DEFINE ms == <<m, h>>
    <3> HIDE DEF ms
    <3>1. ms \in Seq(Spoken') /\ Emit(MessageEvents(ms), ms)
      BY <2>1, <2>3 DEF ms
    <3>2. MessageEvents(ms) \in Seq(EventsOf(Spoken'))
      BY <3>1, MessageEventsType
    <3> QED
      BY <1>7, <3>1, <3>2, EmitTypes
  <2>5. messages' \in Seq(Ids') /\ steering' \in Seq(Users')
    BY <1>2, <1>6, <2>1, <2>2, <2>3
  <2>6. NextId \in Ids' /\ info'[NextId] = New("assistant")
    <3> DEFINE inf == [info EXCEPT ![m].outcome = outcome]
               e == New("assistant")
    <3>1. inf \in Seq(MessageType) /\ Len(inf) = Len(info)
      BY <1>1, <1>4, LaterOutcome DEF Later
    <3>2. e \in MessageType
      <4>1. "assistant" \in {"user", "assistant", "bash", "summary"}
        OBVIOUS
      <4> QED
        BY <4>1, NewType
    <3>3. info' = Append(inf, e)
      BY <2>1
    <3> HIDE DEF inf, e
    <3>4. Len(info') = Len(info) + 1 /\ info'[Len(info) + 1] = e /\ Len(info) \in Nat
      BY <1>1, <3>1, <3>2, <3>3, AppendElements DEF Infos
    <3> QED
      BY <3>4 DEF Ids, NextId, e
  <2>7. run' \in RunType /\ run'.reply \in Ids' /\ info'[run'.reply].role = "assistant"
    <3>1. run' \in RunType /\ run'.reply = NextId
      <4>1. NextId \in Nat /\ run \in RunType
        BY <1>1 DEF Infos, Runs, NextId
      <4> QED
        BY <2>1, <4>1, RunRecords
    <3> QED
      BY <2>6, <3>1 DEF New
  <2> QED
    BY <2>4, <2>5, <2>7 DEF Ids
<1>9. CASE ~(outcome \in {"ok", "large", "silent"} /\ steering # <<>>)
  <2> DEFINE evs == <<Event("message", m), Event("agent_end", m)>>
             ms == <<m>>
  <2>1. /\ messages' = Append(messages, m) /\ Emit(evs, ms) /\ steering' = steering
        /\ run' \in {Idle, [run EXCEPT !.state = "over"]}
        /\ info' = [info EXCEPT ![m].outcome = outcome]
    BY <1>9 DEF Reply, m
  <2>2. evs \in Seq(EventsOf(Spoken')) /\ ms \in Seq(Spoken')
    <3>1. Event("message", m) \in EventsOf(Spoken') /\ Event("agent_end", m) \in EventsOf(Spoken')
      BY <1>5 DEF Event, EventsOf
    <3> QED
      BY <1>5, <3>1
  <2> HIDE DEF evs, ms
  <2>3. events' \in Seq(EventsOf(Spoken')) /\ emitted' \in Seq(Spoken')
    BY <1>7, <2>1, <2>2, EmitTypes
  <2>4. messages' \in Seq(Ids') /\ steering' \in Seq(Users')
    BY <1>5, <1>6, <2>1
  <2>5. run' \in RunType /\ run'.reply \in {0, m}
    BY <1>1, <2>1, RunRecords DEF Runs, m
  <2>6. run'.state # "idle" => run'.reply = m
    BY <1>1, <2>1, RunRecords DEF Runs, m
  <2>7. Ids' \subseteq 0 .. Len(info') /\ 0 \in 0 .. Len(info')
    BY <1>1 DEF Later, Ids
  <2> QED
    BY <1>5, <2>3, <2>4, <2>5, <2>6, <2>7
<1> QED
  BY <1>8, <1>9

LEMMA InfosStep ==
    ASSUME TypeInv, Next
    PROVE  Infos'
<1>1. Later(info') /\ scenario' = scenario /\ scenario \in Scenarios
  BY InfoStep DEF TypeInv, Infos
<1> QED
  BY <1>1 DEF Infos, Later, Ids

LEMMA RunsStep ==
    ASSUME TypeInv, Next
    PROVE  Runs'
<1>1. Infos /\ Runs /\ Later(info') /\ Changes
  BY InfoStep, StepsChange DEF TypeInv
<1>2. /\ Ids \subseteq Ids' /\ \A m \in Ids : info'[m].role = info[m].role
      /\ Len(info) \in Nat /\ Len(info') \in Nat /\ Len(info) <= Len(info')
  BY <1>1, Grown DEF Infos, Later
<1>3. CASE run' = run
  BY <1>1, <1>2, <1>3 DEF Runs, Role, IsAssistant
<1>4. CASE Replies
  BY <1>4, ReplyTypes DEF Replies, Runs, Role, IsAssistant
<1>5. CASE FinishRun
  BY <1>1, <1>2, <1>5 DEF FinishRun, Idle, Runs, RunType
<1>6. CASE Continues \/ Submits
  <2>1. Starting
    BY <1>6, StartsAre
  <2>2. CASE StartedBy(info, <<>>, NoOne)
    <3>1. /\ run' \in RunType /\ run'.reply \in Ids' /\ info'[run'.reply].role = "assistant"
      BY <2>2, StartRunTypes DEF StartedBy
    <3> QED
      BY <1>2, <3>1 DEF Runs, Role, IsAssistant, Ids
  <2>3. ASSUME NEW c \in Callers, StartedBy(Prompted, <<NextId>>, c) PROVE Runs'
    <3>1. /\ run' \in RunType /\ run'.reply \in Ids' /\ info'[run'.reply].role = "assistant"
      BY <2>3, StartRunTypes DEF StartedBy
    <3> QED
      BY <1>2, <3>1 DEF Runs, Role, IsAssistant, Ids
  <2> QED
    BY <1>3, <2>1, <2>2, <2>3 DEF Starting
<1>7. CASE Abort \/ Compact
  <2>1. run' \in {run, [run EXCEPT !.aborted = TRUE]}
    BY <1>7 DEF Abort, Compact, AbortAll
  <2>2. run' \in RunType /\ run'.reply = run.reply /\ run'.state = run.state
    BY <1>1, <2>1, RunRecords DEF Runs
  <2> QED
    BY <1>1, <1>2, <2>2 DEF Runs, Role, IsAssistant
<1> QED
  BY Zenon, <1>1, <1>3, <1>4, <1>5, <1>6, <1>7 DEF Changes

\* A new message is the last one, of the role it was made with.
LEMMA NewMessage ==
    ASSUME Infos, NEW role \in {"user", "assistant", "bash", "summary"},
           info' = Append(info, New(role))
    PROVE  NextId \in Ids' /\ info'[NextId].role = role
<1> DEFINE e == New(role)
<1>1. e \in MessageType /\ e.role = role
  BY NewType
<1> HIDE DEF e
<1>2. info' = Append(info, e)
  BY DEF e
<1>3. Len(info') = Len(info) + 1 /\ info'[Len(info) + 1] = e /\ Len(info) \in Nat
  BY <1>1, <1>2, AppendElements DEF Infos
<1> QED
  BY <1>1, <1>3 DEF Ids, NextId

\* The log grows by a message of the user, of the model or of bash, or by a
\* summary of a compaction.
LEMMA LogStep ==
    ASSUME TypeInv, Next
    PROVE  /\ log' \in Seq(Ids') /\ ToSet(log) \subseteq ToSet(log')
           /\ FirstsIn(log', info')
<1>1. Infos /\ Lists /\ Queue /\ Compactions /\ Later(info') /\ Changes
  BY InfoStep, StepsChange DEF TypeInv
<1>2. /\ Ids \subseteq Ids' /\ Spoken \subseteq Ids /\ Bashes \subseteq Ids
      /\ \A m \in Ids : info'[m].role = info[m].role /\ info'[m].first = info[m].first
  BY <1>1, Grown DEF Spoken, Bashes
<1>3. log \in Seq(Ids') /\ ToSet(log) \subseteq Ids
  BY <1>1, <1>2 DEF Lists, ToSet
<1>4. \A m \in ToSet(log) : info'[m].role = "summary" => info'[m].first \in ToSet(log)
  BY <1>1, <1>2, <1>3 DEF Compactions, FirstsIn
<1>5. CASE log' = log
  BY <1>3, <1>4, <1>5 DEF FirstsIn
<1>6. ASSUME NEW ms \in Seq(Ids'), log' = log \o ms,
             \A m \in ToSet(ms) :
                info'[m].role = "summary" => info'[m].first \in ToSet(log')
      PROVE  /\ log' \in Seq(Ids') /\ ToSet(log) \subseteq ToSet(log')
             /\ FirstsIn(log', info')
  <2>1. log' \in Seq(Ids') /\ ToSet(log') = ToSet(log) \cup ToSet(ms)
    BY <1>3, <1>6, ConcatElements
  <2> QED
    BY <1>4, <1>6, <2>1 DEF FirstsIn
<1>7. ASSUME NEW m \in Ids', log' = Append(log, m),
             info'[m].role = "summary" => info'[m].first \in ToSet(log)
      PROVE  /\ log' \in Seq(Ids') /\ ToSet(log) \subseteq ToSet(log')
             /\ FirstsIn(log', info')
  <2>1. log' \in Seq(Ids') /\ ToSet(log') = ToSet(log) \cup {m}
    BY <1>3, <1>7, AppendElements
  <2> QED
    BY <1>4, <1>7, <2>1 DEF FirstsIn
<1>8. CASE PersistMessage
  <2>1. log' = Append(log, Current.msg) /\ events # <<>>
    BY <1>1, <1>8 DEF PersistMessage, Queue
  <2>2. Current \in EventsOf(Spoken)
    BY <1>1, <2>1, HeadAndTail DEF Queue, Current
  <2>3. Current.msg \in Spoken
    BY <2>2 DEF EventsOf
  <2>4. Current.msg \in Ids' /\ info'[Current.msg].role # "summary"
    BY <1>2, <2>3 DEF Spoken, Role
  <2> QED
    BY <1>7, <2>1, <2>4
<1>9. CASE Prompts
  <2>1. log' = log \o pendingBash
    BY <1>9 DEF Prompts, Prompt, FlushedLog
  <2>2. \A m \in ToSet(pendingBash) : m \in Bashes
    BY <1>1 DEF Lists, ToSet
  <2>3. \A m \in ToSet(pendingBash) : info'[m].role # "summary"
    BY <1>2, <2>2 DEF Bashes, Role
  <2>4. pendingBash \in Seq(Ids')
    BY <1>1, <1>2 DEF Lists
  <2> QED
    BY <1>6, <2>1, <2>3, <2>4
<1>10. CASE RecordBash
  <2>1. (log' = log \/ log' = Append(log, NextId)) /\ info' = Append(info, New("bash"))
    BY <1>10 DEF RecordBash
  <2>2. NextId \in Ids' /\ info'[NextId].role = "bash"
    <3>1. "bash" \in {"user", "assistant", "bash", "summary"}
      OBVIOUS
    <3> QED
      BY <1>1, <2>1, <3>1, NewMessage
  <2> QED
    BY <1>5, <1>7, <2>1, <2>2
<1>11. CASE Saves
  <2>1. PICK k \in Compactors, replaces \in BOOLEAN : SaveCompaction(k, replaces)
    BY <1>11 DEF Saves
  <2> DEFINE summary == [New("summary") EXCEPT !.first = compaction[k].first,
                            !.recent = compaction[k].recent, !.replaces = replaces]
  <2>2. info' = Append(info, summary) /\ log' = Append(log, NextId)
        /\ compaction[k].phase = "summary"
    BY Zenon, <2>1 DEF SaveCompaction
  <2>3. compaction[k] \in CompactionType /\ compaction[k].first \in ToSet(log)
    BY <1>1, <2>2 DEF Compactions
  <2>4. summary \in MessageType /\ summary.first = compaction[k].first
    BY <2>3 DEF New, MessageType, CompactionType
  <2> HIDE DEF summary
  <2>5. Len(info') = Len(info) + 1 /\ info'[Len(info) + 1] = summary /\ Len(info) \in Nat
    BY <1>1, <2>2, <2>4, AppendElements DEF Infos
  <2>6. NextId \in Ids' /\ info'[NextId].first \in ToSet(log)
    BY <2>3, <2>4, <2>5 DEF Ids, NextId
  <2> QED
    BY <1>7, <2>2, <2>6
<1> QED
  BY Zenon, <1>1, <1>5, <1>8, <1>9, <1>10, <1>11 DEF Changes

LEMMA MessagesStep ==
    ASSUME TypeInv, Next
    PROVE  messages' \in Seq(Ids')
<1>1. Infos /\ Lists /\ Later(info') /\ Infos' /\ Changes
  BY InfoStep, InfosStep, StepsChange DEF TypeInv
<1>2. Ids \subseteq Ids' /\ Bashes \subseteq Ids
  BY <1>1, Grown DEF Bashes
<1>3. messages \in Seq(Ids') /\ WithoutLastAssistant(messages) \in Seq(Ids')
  <2>1. messages \in Seq(Ids')
    BY <1>1, <1>2 DEF Lists
  <2> QED
    BY <2>1, WithoutType
<1>4. CASE messages' = messages
  BY <1>3, <1>4
<1>5. CASE Replies
  BY <1>5, ReplyTypes DEF Replies
<1>6. CASE Continues \/ Submits
  <2>1. Starting
    BY <1>6, StartsAre
  <2>2. CASE StartedBy(info, <<>>, NoOne)
    BY <2>2, StartRunTypes DEF StartedBy
  <2>3. ASSUME NEW c \in Callers, StartedBy(Prompted, <<NextId>>, c)
        PROVE  messages' \in Seq(Ids')
    BY <2>3, StartRunTypes DEF StartedBy
  <2> QED
    BY <1>4, <2>1, <2>2, <2>3 DEF Starting
<1>7. CASE BeginBackoff \/ Decides
  <2>1. messages' \in {messages, WithoutLastAssistant(messages)}
    BY <1>7 DEF BeginBackoff, Decides, Decide, BeginCompaction
  <2> QED
    BY <1>3, <2>1
<1>8. CASE Prompts
  <2>1. messages' \in {FlushedMessages, WithoutLastAssistant(FlushedMessages)}
    BY <1>8 DEF Prompts, Prompt, BeginCompaction
  <2>2. FlushedMessages \in Seq(Ids')
    <3>1. pendingBash \in Seq(Ids')
      BY <1>1, <1>2 DEF Lists
    <3> QED
      BY <1>3, <3>1 DEF FlushedMessages
  <2>3. WithoutLastAssistant(FlushedMessages) \in Seq(Ids')
    BY <2>2, WithoutType
  <2> QED
    BY <2>1, <2>2, <2>3
<1>9. CASE RecordBash
  <2>1. (messages' = messages \/ messages' = Append(messages, NextId))
        /\ info' = Append(info, New("bash"))
    BY <1>9 DEF RecordBash
  <2>2. NextId \in Ids'
    <3>1. "bash" \in {"user", "assistant", "bash", "summary"}
      OBVIOUS
    <3> QED
      BY <1>1, <2>1, <3>1, NewMessage
  <2> QED
    BY <1>3, <2>1, <2>2
<1>10. CASE Saves
  <2>1. messages' = Context(log', info')
    BY <1>10 DEF Saves, SaveCompaction, SavedContext
  <2>2. log' \in Seq(Ids') /\ FirstsIn(log', info')
    BY LogStep
  <2> DEFINE N == Len(info')
  <2>3. N \in Nat /\ Ids' = 1 .. N
    BY <1>1 DEF Infos, Ids
  <2>4. \A m \in 1 .. N : info'[m].recent \in Seq(1 .. N)
    BY <1>1, <2>3 DEF Infos
  <2> HIDE DEF N
  <2> QED
    BY <2>1, <2>2, <2>3, <2>4, ContextType
<1>11. CASE Ends
  <2>1. messages' = messages \/ (messages' = Front(messages) /\ messages # <<>>)
    BY <1>11 DEF Ends, EndCompaction, EndsWithAssistant
  <2>2. messages # <<>> => Front(messages) \in Seq(Ids')
    BY <1>3, FrontThenLast
  <2> QED
    BY <1>3, <2>1, <2>2
<1> QED
  BY Zenon, <1>1, <1>4, <1>5, <1>6, <1>7, <1>8, <1>9, <1>10, <1>11 DEF Changes

LEMMA ListsStep ==
    ASSUME TypeInv, Next
    PROVE  Lists'
<1>1. Infos /\ Lists /\ Later(info') /\ Changes
  BY InfoStep, StepsChange DEF TypeInv
<1>2. /\ Ids \subseteq Ids' /\ Users \subseteq Users' /\ Spoken \subseteq Spoken'
      /\ Bashes \subseteq Bashes'
  BY <1>1, Grown
<1>3. messages' \in Seq(Ids') /\ log' \in Seq(Ids')
  BY MessagesStep, LogStep
<1>4. /\ steering \in Seq(Users') /\ emitted \in Seq(Spoken')
      /\ steeringShown \in Seq(Ids') /\ pendingBash \in Seq(Bashes')
  BY <1>1, <1>2 DEF Lists
<1>5. ASSUME Continues \/ Submits
      PROVE  steering' \in Seq(Users') /\ emitted' \in Seq(Spoken')
  <2>1. Starting
    BY <1>5, StartsAre
  <2>2. CASE StartedBy(info, <<>>, NoOne)
    BY <2>2, StartRunTypes DEF StartedBy
  <2>3. ASSUME NEW c \in Callers, StartedBy(Prompted, <<NextId>>, c)
        PROVE  steering' \in Seq(Users') /\ emitted' \in Seq(Spoken')
    BY <2>3, StartRunTypes DEF StartedBy
  <2> QED
    BY <1>4, <2>1, <2>2, <2>3 DEF Starting
<1>6. Steer => NextId \in Users'
  <2>1. SUFFICES ASSUME Steer PROVE NextId \in Users'
    OBVIOUS
  <2>2. info' = Append(info, New("user"))
    BY <2>1 DEF Steer
  <2>3. "user" \in {"user", "assistant", "bash", "summary"}
    OBVIOUS
  <2>4. NextId \in Ids' /\ info'[NextId].role = "user"
    BY <1>1, <2>2, <2>3, NewMessage
  <2> QED
    BY <2>4 DEF Users, Role
<1>7. steering' \in Seq(Users')
  <2>1. CASE steering' = steering
    BY <1>4, <2>1
  <2>2. CASE Replies
    BY <2>2, ReplyTypes DEF Replies
  <2>3. CASE Steer
    BY <1>4, <1>6, <2>3 DEF Steer
  <2>4. CASE ClearQueue
    BY <2>4 DEF ClearQueue
  <2> QED
    BY Zenon, <1>1, <1>5, <2>1, <2>2, <2>3, <2>4 DEF Changes
<1>8. emitted' \in Seq(Spoken')
  <2>1. CASE emitted' = emitted
    BY <1>4, <2>1
  <2>2. CASE Replies
    BY <2>2, ReplyTypes DEF Replies
  <2> QED
    BY Zenon, <1>1, <1>5, <2>1, <2>2 DEF Changes
<1>9. steeringShown' \in Seq(Ids')
  <2>1. CASE steeringShown' = steeringShown
    BY <1>4, <2>1
  <2>2. CASE TakeEvent
    <3> DEFINE S == ToSet(steeringShown) \ {Current.msg}
    <3>1. steeringShown' = steeringShown \/ steeringShown' = Filtered(steeringShown, S)
      BY <2>2 DEF TakeEvent, ShownAfter
    <3> HIDE DEF S
    <3>2. Filtered(steeringShown, S) \in Seq(Ids' \cap S)
      BY <1>4, FilteredElements
    <3> QED
      BY <1>4, <3>1, <3>2
  <2>3. CASE Steer
    <3>1. NextId \in Ids'
      BY <1>6, <2>3 DEF Users
    <3> QED
      BY <1>4, <2>3, <3>1 DEF Steer
  <2>4. CASE ClearQueue
    BY <2>4 DEF ClearQueue
  <2> QED
    BY Zenon, <1>1, <2>1, <2>2, <2>3, <2>4 DEF Changes
<1>10. pendingBash' \in Seq(Bashes')
  <2>1. CASE pendingBash' = pendingBash
    BY <1>4, <2>1
  <2>2. CASE Prompts
    BY <2>2 DEF Prompts, Prompt
  <2>3. CASE RecordBash
    <3>1. (pendingBash' = pendingBash \/ pendingBash' = Append(pendingBash, NextId))
          /\ info' = Append(info, New("bash"))
      BY <2>3 DEF RecordBash
    <3>2. "bash" \in {"user", "assistant", "bash", "summary"}
      OBVIOUS
    <3>3. NextId \in Ids' /\ info'[NextId].role = "bash"
      BY <1>1, <3>1, <3>2, NewMessage
    <3>4. NextId \in Bashes'
      BY <3>3 DEF Bashes, Role
    <3>5. CASE pendingBash' = pendingBash
      BY <1>4, <3>5
    <3>6. CASE pendingBash' = Append(pendingBash, NextId)
      BY <1>4, <3>4, <3>6
    <3> QED
      BY <3>1, <3>5, <3>6
  <2> QED
    BY Zenon, <1>1, <2>1, <2>2, <2>3 DEF Changes
<1> QED
  BY <1>3, <1>7, <1>8, <1>9, <1>10 DEF Lists

(***************************************************************************)
(* The messages that wait in the queue.                                    *)
(***************************************************************************)
Own(evs) == Filtered(evs, [type : {"message"}, msg : Nat])
Mapped(own) == [i \in DOMAIN own |-> own[i].msg]

LEMMA MessagesInIs == ASSUME NEW evs PROVE MessagesIn(evs) = Mapped(Own(evs))
  BY DEF MessagesIn, Mapped, Own

LEMMA MappedElements ==
    ASSUME NEW S, NEW s \in Seq(EventsOf(S))
    PROVE  /\ Mapped(s) \in Seq(S) /\ Len(Mapped(s)) = Len(s)
           /\ \A i \in 1 .. Len(s) : Mapped(s)[i] = s[i].msg
<1>1. \A e \in EventsOf(S) : e.msg \in S
  BY DEF EventsOf
<1>2. \A i \in 1 .. Len(s) : s[i] \in EventsOf(S)
  OBVIOUS
<1>3. \A i \in 1 .. Len(s) : s[i].msg \in S
  BY <1>1, <1>2
<1> QED
  BY <1>3 DEF Mapped

LEMMA MappedConcat ==
    ASSUME NEW S, NEW s \in Seq(EventsOf(S)), NEW t \in Seq(EventsOf(S))
    PROVE  /\ Mapped(s) \in Seq(S) /\ Mapped(t) \in Seq(S)
           /\ Mapped(s \o t) = Mapped(s) \o Mapped(t)
<1> DEFINE M == Len(s)
           N == Len(t)
           c == s \o t
           a == Mapped(s)
           b == Mapped(t)
           d == Mapped(c)
           k == a \o b
<1>1. /\ a \in Seq(S) /\ Len(a) = M /\ \A i \in 1 .. M : a[i] = s[i].msg
  BY MappedElements
<1>2. /\ b \in Seq(S) /\ Len(b) = N /\ \A i \in 1 .. N : b[i] = t[i].msg
  BY MappedElements
<1>3. /\ c \in Seq(EventsOf(S)) /\ Len(c) = M + N
      /\ \A i \in 1 .. M : c[i] = s[i]
      /\ \A i \in 1 .. N : c[M + i] = t[i]
  BY ConcatElements
<1> HIDE DEF c
<1>4. d \in Seq(S) /\ Len(d) = M + N /\ \A i \in 1 .. M + N : d[i] = c[i].msg
  BY <1>3, MappedElements
<1>5. M \in Nat /\ N \in Nat
  OBVIOUS
<1> HIDE DEF a, b, d
<1>6. /\ k \in Seq(S) /\ Len(k) = Len(a) + Len(b)
      /\ \A i \in 1 .. Len(a) : k[i] = a[i]
      /\ \A i \in 1 .. Len(b) : k[Len(a) + i] = b[i]
  <2>1. a \in Seq(S) /\ b \in Seq(S)
    BY <1>1, <1>2
  <2> QED
    BY ONLY <2>1, ConcatElements
<1> HIDE DEF k, M, N
<1>7. ASSUME NEW i \in 1 .. M + N PROVE d[i] = k[i]
  <2>1. CASE i \in 1 .. M
    <3>1. k[i] = a[i]
      BY <1>1, <1>6, <2>1
    <3> QED
      BY <1>1, <1>3, <1>4, <2>1, <3>1
  <2>2. CASE i \notin 1 .. M
    <3>1. i - M \in 1 .. N /\ M + (i - M) = i
      BY <1>5, <2>2
    <3> DEFINE j == i - M
    <3> HIDE DEF j
    <3>2. j \in 1 .. N /\ M + j = i
      BY <3>1 DEF j
    <3>3. k[i] = b[j] /\ b[j] = t[j].msg
      BY <1>1, <1>2, <1>6, <3>2
    <3>4. d[i] = c[i].msg /\ c[i] = t[j]
      BY <1>3, <1>4, <3>2
    <3> QED
      BY <3>3, <3>4
  <2> QED
    BY <2>1, <2>2
<1>8. d = k
  <2>1. Len(k) = M + N
    BY <1>1, <1>2, <1>6
  <2> QED
    BY <1>4, <1>6, <1>7, <2>1, SeqEqual
<1> QED
  BY <1>1, <1>2, <1>8 DEF c, a, b, d, k

LEMMA OwnType ==
    ASSUME NEW S, NEW evs \in Seq(EventsOf(S))
    PROVE  Own(evs) \in Seq(EventsOf(S))
<1>1. Own(evs) \in Seq(EventsOf(S) \cap [type : {"message"}, msg : Nat])
  BY FilteredElements DEF Own
<1> QED
  BY <1>1

LEMMA MessagesInConcat ==
    ASSUME NEW S, NEW s \in Seq(EventsOf(S)), NEW t \in Seq(EventsOf(S))
    PROVE  /\ MessagesIn(s) \in Seq(S) /\ MessagesIn(t) \in Seq(S)
           /\ MessagesIn(s \o t) = MessagesIn(s) \o MessagesIn(t)
<1>1. Own(s) \in Seq(EventsOf(S)) /\ Own(t) \in Seq(EventsOf(S))
  BY OwnType
<1>2. Own(s \o t) = Own(s) \o Own(t)
  BY FilteredConcat DEF Own
<1> DEFINE a == Own(s)
           b == Own(t)
<1>3. MessagesIn(s) = Mapped(a) /\ MessagesIn(t) = Mapped(b) /\ MessagesIn(s \o t) = Mapped(a \o b)
  BY <1>2, MessagesInIs
<1> HIDE DEF a, b
<1>4. a \in Seq(EventsOf(S)) /\ b \in Seq(EventsOf(S))
  BY <1>1 DEF a, b
<1> QED
  BY <1>3, <1>4, MappedConcat

\* One event: a message is its own, the end of a run is nobody's.
LEMMA MessagesInOne ==
    ASSUME NEW m \in Nat
    PROVE  /\ MessagesIn(<<>>) = <<>>
           /\ MessagesIn(<<Event("message", m)>>) = <<m>>
           /\ MessagesIn(<<Event("agent_end", m)>>) = <<>>
<1> DEFINE K == [type : {"message"}, msg : Nat]
           T == EventsOf(Nat)
<1>1. <<>> \in Seq(T) /\ Filtered(<<>>, K) = <<>>
  BY FilteredEmpty
<1>2. ASSUME NEW e \in T
      PROVE  Own(<<e>>) = IF e \in K THEN <<e>> ELSE <<>>
  <2>1. Filtered(Append(<<>>, e), K) =
            IF e \in K THEN Append(Filtered(<<>>, K), e) ELSE Filtered(<<>>, K)
    <3> HIDE DEF K, T
    <3> QED
      BY <1>1, FilteredAppend
  <2>2. Append(<<>>, e) = <<e>>
    OBVIOUS
  <2> QED
    BY <1>1, <2>1, <2>2 DEF Own
<1>3. Own(<<>>) = <<>>
  BY <1>1 DEF Own
<1>4. Event("message", m) \in T /\ Event("message", m) \in K /\ Event("message", m).msg = m
  BY DEF Event, EventsOf
<1>5. Event("agent_end", m) \in T /\ Event("agent_end", m) \notin K
  BY DEF Event, EventsOf
<1>6. Mapped(<<>>) = <<>>
  BY DEF Mapped
<1>7. Mapped(<<Event("message", m)>>) = <<m>>
  BY <1>4 DEF Mapped
<1>8. Own(<<Event("message", m)>>) = <<Event("message", m)>>
      /\ Own(<<Event("agent_end", m)>>) = <<>>
  BY <1>2, <1>4, <1>5
<1> QED
  BY <1>3, <1>6, <1>7, <1>8, MessagesInIs

LEMMA MessagesOfMessages ==
    ASSUME NEW S \in SUBSET Nat, NEW ms \in Seq(S)
    PROVE  MessagesIn(MessageEvents(ms)) = ms
<1> DEFINE K == [type : {"message"}, msg : Nat]
           evs == MessageEvents(ms)
<1>1. evs \in Seq(EventsOf(S)) /\ Len(evs) = Len(ms) /\ DOMAIN evs = DOMAIN ms
      /\ \A i \in DOMAIN ms : evs[i] = Event("message", ms[i])
  BY MessageEventsType DEF MessageEvents
<1>2. \A i \in DOMAIN ms : Event("message", ms[i]) \in K /\ Event("message", ms[i]).msg = ms[i]
  <2>1. \A m \in Nat : Event("message", m) \in K /\ Event("message", m).msg = m
    BY DEF Event
  <2>2. \A i \in DOMAIN ms : ms[i] \in S
    OBVIOUS
  <2> QED
    BY <2>1, <2>2
<1> HIDE DEF evs
<1>3. ToSet(evs) \subseteq K
  <2> HIDE DEF K
  <2> QED
    BY <1>1, <1>2 DEF ToSet
<1> HIDE DEF K
<1>4. Filtered(evs, K) = evs
  BY <1>1, <1>3, FilteredWhole
<1>5. MessagesIn(evs) = Mapped(evs)
  BY <1>4, MessagesInIs DEF Own, K
<1>6. Mapped(evs) = [i \in DOMAIN ms |-> ms[i]]
  BY <1>1, <1>2 DEF Mapped
<1> QED
  BY <1>5, <1>6 DEF evs

LEMMA MessagesInTail ==
    ASSUME NEW S \in SUBSET Nat, NEW evs \in Seq(EventsOf(S)), evs # <<>>
    PROVE  /\ Head(evs).msg \in S /\ MessagesIn(Tail(evs)) \in Seq(S)
           /\ Head(evs).type \in {"message", "agent_end"}
           /\ MessagesIn(evs) = IF Head(evs).type = "message"
                                THEN <<Head(evs).msg>> \o MessagesIn(Tail(evs))
                                ELSE MessagesIn(Tail(evs))
<1> DEFINE h == Head(evs)
           t == Tail(evs)
           m == h.msg
<1>1. h \in EventsOf(S) /\ t \in Seq(EventsOf(S)) /\ <<h>> \o t = evs
  BY HeadAndTail, HeadThenTail
<1> HIDE DEF h, t
<1>2. h.type \in {"message", "agent_end"} /\ m \in S /\ m \in Nat /\ h = Event(h.type, m)
  BY <1>1 DEF EventsOf, Event
<1>3. <<h>> \in Seq(EventsOf(S))
  BY <1>1
<1> DEFINE o == <<h>>
<1>4. MessagesIn(o) = IF h.type = "message" THEN <<m>> ELSE <<>>
  <2> HIDE DEF m
  <2>1. CASE h.type = "message"
    <3>1. o = <<Event("message", m)>>
      BY <1>2, <2>1
    <3> QED
      BY <1>2, <2>1, <3>1, MessagesInOne
  <2>2. CASE h.type = "agent_end"
    <3>1. o = <<Event("agent_end", m)>>
      BY <1>2, <2>2
    <3> QED
      BY <1>2, <2>2, <3>1, MessagesInOne
  <2> QED
    BY <1>2, <2>1, <2>2
<1> HIDE DEF o
<1>5. MessagesIn(o \o t) = MessagesIn(o) \o MessagesIn(t) /\ MessagesIn(t) \in Seq(S)
  BY <1>1, <1>3, MessagesInConcat DEF o
<1>6. <<>> \o MessagesIn(t) = MessagesIn(t)
  BY <1>5, ConcatEmptySeq
<1> QED
  BY <1>1, <1>2, <1>4, <1>5, <1>6 DEF h, t, o

(***************************************************************************)
(* What a step of the agent says.                                          *)
(***************************************************************************)
Fresh == Ids' \ Ids
Replying == IF run.state = "turn" THEN {run.reply} ELSE {}

\* The messages ms are emitted with the events evs and reach the agent's
\* transcript: the reply, a message that was steered and new ones, each once.
Speaks(evs, ms) ==
    /\ Emit(evs, ms) /\ messages' = messages \o ms
    /\ evs \in Seq(EventsOf(Spoken')) /\ ms \in Seq(Spoken') /\ MessagesIn(evs) = ms
    /\ ToSet(ms) \subseteq Replying \cup ToSet(steering) \cup Fresh
    /\ ToSet(steering') \subseteq ToSet(steering)
    /\ \/ steering' = steering
       \/ steering # <<>> /\ steering' = Tail(steering) /\ Head(steering) \in ToSet(ms)
    /\ Replying' \subseteq Fresh \ ToSet(ms)
    /\ IsInjective(steering) =>
          /\ IsInjective(ms) /\ IsInjective(steering')
          /\ ToSet(steering') \cap ToSet(ms) = {}

LEMMA SteeringPolled ==
    ASSUME Lists, steering # <<>>
    PROVE  /\ Head(steering) \in Users /\ Head(steering) \in ToSet(steering)
           /\ Tail(steering) \in Seq(Users) /\ ToSet(Tail(steering)) \subseteq ToSet(steering)
           /\ IsInjective(steering) => /\ IsInjective(Tail(steering))
                                       /\ Head(steering) \notin ToSet(Tail(steering))
<1>1. steering \in Seq(Users)
  BY DEF Lists
<1>2. /\ Head(steering) \in Users /\ Tail(steering) \in Seq(Users)
      /\ ToSet(steering) = {Head(steering)} \cup ToSet(Tail(steering))
  BY <1>1, HeadAndTail
<1>3. IsInjective(steering) => /\ IsInjective(Tail(steering))
                               /\ Head(steering) \notin ToSet(Tail(steering))
  BY <1>1, InjectiveTail
<1> QED
  BY <1>2, <1>3

LEMMA TwoAreConcat ==
    ASSUME NEW S, NEW x \in S, NEW y \in S
    PROVE  <<x>> \o <<y>> = <<x, y>>
<1>1. <<x>> \in Seq(S) /\ <<y>> \in Seq(S) /\ <<x, y>> \in Seq(S)
  OBVIOUS
<1>2. Len(<<x>>) = 1 /\ Len(<<y>>) = 1 /\ Len(<<x, y>>) = 2
  OBVIOUS
<1> DEFINE c == <<x>> \o <<y>>
<1>3. c \in Seq(S) /\ Len(c) = 2 /\ c[1] = x /\ c[2] = y
  BY <1>1, <1>2
<1> HIDE DEF c
<1>4. \A i \in 1 .. 2 : c[i] = <<x, y>>[i]
  BY <1>3
<1> QED
  BY <1>1, <1>2, <1>3, <1>4, SeqEqual DEF c

LEMMA OneOrTwo ==
    ASSUME NEW S, NEW x \in S, NEW y \in S
    PROVE  /\ <<x>> \in Seq(S) /\ ToSet(<<x>>) = {x} /\ IsInjective(<<x>>)
           /\ <<x, y>> \in Seq(S) /\ ToSet(<<x, y>>) = {x, y}
           /\ x # y => IsInjective(<<x, y>>)
           /\ IsInjective(<<>>) /\ ToSet(<<>>) = {}
<1>1. DOMAIN <<x, y>> = {1, 2} /\ DOMAIN <<x>> = {1} /\ DOMAIN <<>> = {}
  OBVIOUS
<1>2. <<x, y>>[1] = x /\ <<x, y>>[2] = y /\ <<x>>[1] = x
  OBVIOUS
<1>3. ToSet(<<x, y>>) = {x, y}
  BY <1>1, <1>2 DEF ToSet
<1> QED
  BY <1>1, <1>2, <1>3 DEF ToSet, IsInjective

\* The number of a message that is new.
LEMMA FreshId ==
    ASSUME Infos, NEW n \in Nat, Len(info) < n, n <= Len(info'), Len(info') \in Nat
    PROVE  n \in Fresh
<1>1. Len(info) \in Nat
  BY DEF Infos
<1> QED
  BY <1>1 DEF Fresh, Ids

LEMMA ReplySpeaks ==
    ASSUME TypeInv, Next, NEW outcome \in scenario.outcomes \cup {"aborted"}, Reply(outcome)
    PROVE  \E evs, ms : Speaks(evs, ms)
<1>1. Infos /\ Lists /\ Runs /\ Later(info')
  BY InfoStep DEF TypeInv
<1>2. /\ Ids \subseteq Ids' /\ Users \subseteq Users' /\ Spoken \subseteq Spoken'
      /\ Users \subseteq Spoken
      /\ Spoken' \subseteq Nat
  BY <1>1, Grown DEF Spoken, Users, Ids
<1> DEFINE m == run.reply
<1>3. run.state = "turn" /\ m \in Ids /\ Role(m) = "assistant"
  BY Zenon, <1>1 DEF Reply, Runs, IsAssistant
<1>4. m \in Spoken' /\ m \in Spoken /\ Replying = {m} /\ m \in Nat
  BY <1>2, <1>3 DEF Spoken, Replying, Ids
<1> HIDE DEF m
<1>5. CASE outcome \in {"ok", "large", "silent"} /\ steering # <<>>
  <2> DEFINE h == Head(steering)
             ms == <<m, h>>
             evs == MessageEvents(ms)
  <2>1. /\ run' = [run EXCEPT !.reply = NextId] /\ steering' = Tail(steering)
        /\ Emit(evs, ms) /\ messages' = messages \o ms
        /\ info' = Append([info EXCEPT ![m].outcome = outcome], New("assistant"))
    BY Zenon, <1>5 DEF Reply, m
  <2>2. /\ h \in Users /\ h \in ToSet(steering)
        /\ ToSet(steering') \subseteq ToSet(steering)
        /\ IsInjective(steering) => IsInjective(steering') /\ h \notin ToSet(steering')
    BY <1>1, <1>5, <2>1, SteeringPolled
  <2> HIDE DEF h
  <2>3. h \in Spoken' /\ h # m /\ h \in Ids
    BY <1>2, <1>3, <2>2 DEF Users, Role
  <2>4. ms \in Seq(Spoken') /\ ToSet(ms) = {m, h} /\ IsInjective(ms)
    <3>1. m \in Spoken' /\ h \in Spoken' /\ m # h
      BY <1>4, <2>3
    <3> QED
      BY Zenon, <3>1, OneOrTwo
  <2> HIDE DEF ms
  <2>5. evs \in Seq(EventsOf(Spoken')) /\ MessagesIn(evs) = ms
    BY <1>2, <2>4, MessageEventsType, MessagesOfMessages
  <2>6. Replying' = {NextId} /\ NextId \notin Ids /\ NextId \in Ids'
    <3> DEFINE inf == [info EXCEPT ![m].outcome = outcome]
    <3>1. Len(inf) = Len(info) /\ inf \in Seq(MessageType) /\ Len(info) \in Nat
      <4>1. Len(inf) = Len(info) /\ Later(inf)
        BY <1>1, <1>3, LaterOutcome
      <4> QED
        BY <1>1, <4>1 DEF Later, Infos
    <3> HIDE DEF inf
    <3>2. Len(info') = Len(info) + 1
      <4>1. info' = Append(inf, New("assistant"))
        BY <2>1 DEF inf
      <4> DEFINE e == New("assistant")
      <4> HIDE DEF e
      <4>2. info' = Append(inf, e)
        BY <4>1 DEF e
      <4> QED
        BY <3>1, <4>2
    <3>3. run'.state = "turn" /\ run'.reply = NextId
      BY <1>1, <1>3, <2>1, <3>1, RunRecords DEF NextId, Runs
    <3> QED
      BY <3>1, <3>2, <3>3 DEF Replying, NextId, Ids
  <2>7. Replying' \subseteq Fresh \ ToSet(ms)
    BY <1>3, <2>3, <2>4, <2>6 DEF Fresh
  <2>8. IsInjective(steering) => ToSet(steering') \cap ToSet(ms) = {}
    <3>1. m \notin ToSet(steering)
      BY <1>1, <1>3 DEF Lists, Users, ToSet
    <3> QED
      BY <2>2, <2>4, <3>1
  <2> HIDE DEF evs
  <2>9. steering' = Tail(steering) /\ steering # <<>> /\ Head(steering) \in ToSet(ms)
    BY <1>5, <2>1, <2>4 DEF h
  <2>10. Speaks(evs, ms)
    BY <1>4, <2>1, <2>2, <2>4, <2>5, <2>7, <2>8, <2>9 DEF Speaks
  <2> QED
    BY <2>10
<1>6. CASE ~(outcome \in {"ok", "large", "silent"} /\ steering # <<>>)
  <2> DEFINE evs == <<Event("message", m), Event("agent_end", m)>>
             ms == <<m>>
  <2>1. Emit(evs, ms) /\ steering' = steering /\ run' \in {Idle, [run EXCEPT !.state = "over"]}
    BY <1>6 DEF Reply, m
  <2>7. messages' = messages \o ms
    <3>1. messages' = Append(messages, m)
      BY <1>6 DEF Reply, m
    <3>2. messages \in Seq(Ids)
      BY <1>1 DEF Lists
    <3> QED
      BY <3>1, <3>2
  <2>2. ms \in Seq(Spoken') /\ ToSet(ms) = {m} /\ IsInjective(ms)
    BY <1>4, OneOrTwo
  <2>3. evs \in Seq(EventsOf(Spoken')) /\ MessagesIn(evs) = ms
    <3> DEFINE a == Event("message", m)
               b == Event("agent_end", m)
    <3>1. a \in EventsOf(Spoken') /\ b \in EventsOf(Spoken')
      BY <1>4 DEF Event, EventsOf
    <3>2. MessagesIn(<<a>>) = <<m>> /\ MessagesIn(<<b>>) = <<>>
      BY <1>4, MessagesInOne
    <3> HIDE DEF a, b
    <3>3. <<a>> \in Seq(EventsOf(Spoken')) /\ <<b>> \in Seq(EventsOf(Spoken'))
          /\ <<a>> \o <<b>> = <<a, b>> /\ <<a, b>> \in Seq(EventsOf(Spoken'))
      <4>1. <<a>> \o <<b>> = <<a, b>>
        BY <3>1, TwoAreConcat
      <4> QED
        BY Zenon, <3>1, <4>1, OneOrTwo
    <3>4. MessagesIn(<<a>> \o <<b>>) = MessagesIn(<<a>>) \o MessagesIn(<<b>>)
      <4> DEFINE s == <<a>>
                 t == <<b>>
      <4>1. s \in Seq(EventsOf(Spoken')) /\ t \in Seq(EventsOf(Spoken'))
        BY <3>3
      <4> HIDE DEF s, t
      <4>2. MessagesIn(s \o t) = MessagesIn(s) \o MessagesIn(t)
        BY <4>1, MessagesInConcat
      <4> QED
        BY <4>2 DEF s, t
    <3>5. <<m>> \o <<>> = <<m>>
      OBVIOUS
    <3> QED
      BY <3>2, <3>3, <3>4, <3>5 DEF a, b
  <2>4. Replying' = {}
    <3>1. run' = Idle \/ run'.state = "over"
      BY <1>1, <2>1, RunRecords DEF Runs, RunType
    <3> QED
      BY <1>1, <3>1, RunRecords DEF Replying, Runs
  <2>5. m \notin ToSet(steering)
    BY <1>1, <1>3 DEF Lists, Users, ToSet
  <2> HIDE DEF evs, ms
  <2>6. Speaks(evs, ms)
    BY <1>4, <2>1, <2>2, <2>3, <2>4, <2>5, <2>7 DEF Speaks
  <2> QED
    BY <2>6
<1> QED
  BY <1>5, <1>6

LEMMA StartSpeaks ==
    ASSUME TypeInv, Next, Continues \/ Submits
    PROVE  \/ UNCHANGED <<info, messages, run, steering, events, emitted>>
           \/ \E evs, ms : Speaks(evs, ms)
<1>1. Infos /\ Lists /\ Runs /\ Later(info') /\ Starting
  BY InfoStep, StartsAre DEF TypeInv
<1>2. /\ Ids \subseteq Ids' /\ Users \subseteq Users' /\ Users' \subseteq Spoken'
      /\ Spoken' \subseteq Nat /\ Len(info) \in Nat
  BY <1>1, Grown DEF Spoken, Users, Ids, Infos
<1>3. ASSUME NEW inf, NEW ms, NEW owner, StartedBy(inf, ms, owner), IsInjective(ms),
             Len(info) <= Len(inf), ToSet(ms) \subseteq Ids' \ Ids,
             \A x \in ToSet(ms) : x <= Len(inf)
      PROVE  \E evs, es : Speaks(evs, es)
  <2> DEFINE es == Polled(ms)
             evs == MessageEvents(es)
  <2>1. /\ Emit(evs, es) /\ messages' = messages \o es
        /\ run' = [state |-> "turn", owner |-> owner, reply |-> Len(inf) + 1, aborted |-> FALSE]
        /\ steering' = IF steering = <<>> THEN steering ELSE Tail(steering)
    BY Zenon, <1>3, StartRunIs DEF BeginTurn, StartedBy
  <2>2. Len(info') = Len(inf) + 1 /\ Len(inf) \in Nat /\ ms \in Seq(Users')
    <3>1. /\ Later(inf) /\ StartRun(inf, ms, owner) /\ ms \in Seq(Users')
      BY <1>3 DEF StartedBy
    <3>2. Len(info') = Len(inf) + 1
      BY <1>1, <3>1, StartRunInfo
    <3> QED
      BY <3>1, <3>2 DEF Later
  <2>3. es \in Seq(Users')
    BY <1>1, <1>2, <2>2, PolledType
  <2>4. /\ ToSet(es) \subseteq ToSet(ms) \cup ToSet(steering)
        /\ ToSet(steering') \subseteq ToSet(steering)
        /\ steering # <<>> => Head(steering) \in ToSet(es)
        /\ IsInjective(steering) => /\ IsInjective(es) /\ IsInjective(steering')
                                    /\ ToSet(steering') \cap ToSet(es) = {}
    <3>1. ToSet(steering) \subseteq Ids /\ ToSet(ms) \cap ToSet(steering) = {}
      BY <1>1, <1>3 DEF Lists, Users, ToSet
    <3>2. CASE steering = <<>>
      <4>1. es = ms /\ steering' = steering
        BY <2>1, <3>2 DEF Polled
      <4> QED
        BY <1>3, <3>1, <3>2, <4>1
    <3>3. CASE steering # <<>>
      <4> DEFINE h == Head(steering)
      <4>1. es = Append(ms, h) /\ steering' = Tail(steering)
        BY <2>1, <3>3 DEF Polled
      <4>2. /\ h \in Users /\ h \in ToSet(steering)
            /\ ToSet(steering') \subseteq ToSet(steering)
            /\ IsInjective(steering) => IsInjective(steering') /\ h \notin ToSet(steering')
        BY <1>1, <3>3, <4>1, SteeringPolled
      <4> HIDE DEF h
      <4>3. h \in Users' /\ h \notin ToSet(ms)
        BY <1>2, <3>1, <4>2
      <4>4. ToSet(es) = ToSet(ms) \cup {h}
        BY <2>2, <4>1, <4>3, AppendElements
      <4>5. IsInjective(es)
        BY <1>3, <2>2, <4>1, <4>3, InjectiveAppend
      <4> QED
        BY <3>1, <4>2, <4>4, <4>5 DEF h
    <3> QED
      BY <3>2, <3>3
  <2> HIDE DEF es
  <2>5. es \in Seq(Spoken') /\ evs \in Seq(EventsOf(Spoken')) /\ MessagesIn(evs) = es
    <3>1. es \in Seq(Spoken')
      <4>1. Users' \subseteq Spoken'
        BY <1>2
      <4> QED
        BY <2>3, <4>1
    <3> QED
      BY <1>2, <3>1, MessageEventsType, MessagesOfMessages
  <2>6. Replying' = {Len(inf) + 1} /\ Len(inf) + 1 \in Fresh
    BY <1>1, <1>2, <1>3, <2>1, <2>2, FreshId DEF Replying
  <2>7. Len(inf) + 1 \notin ToSet(es)
    <3>1. Len(inf) + 1 \notin ToSet(ms)
      BY <1>3, <2>2
    <3>2. Len(inf) + 1 \notin ToSet(steering)
      BY <1>1, <2>6 DEF Lists, Users, ToSet, Fresh
    <3> QED
      BY <2>4, <3>1, <3>2
  <2> HIDE DEF evs
  <2>8. Speaks(evs, es)
    BY <1>3, <2>1, <2>4, <2>5, <2>6, <2>7 DEF Speaks, Fresh
  <2> QED
    BY <2>8
<1>4. CASE StartedBy(info, <<>>, NoOne)
  <2> DEFINE ms == <<>>
  <2>1. IsInjective(ms) /\ ToSet(ms) = {}
    BY DEF IsInjective, ToSet
  <2>2. StartedBy(info, ms, NoOne)
    BY <1>4
  <2> HIDE DEF ms
  <2> QED
    BY <1>2, <1>3, <2>1, <2>2
<1>5. ASSUME NEW c \in Callers, StartedBy(Prompted, <<NextId>>, c)
      PROVE  \E evs, ms : Speaks(evs, ms)
  <2> DEFINE ms == <<NextId>>
  <2>1. Len(Prompted) = Len(info) + 1
    <3> DEFINE e == New("user")
    <3> HIDE DEF e
    <3>1. Prompted = Append(info, e)
      BY DEF Prompted, e
    <3>2. info \in Seq(MessageType)
      BY <1>1 DEF Infos
    <3> QED
      BY <3>1, <3>2
  <2>2. Len(info') = Len(Prompted) + 1
    BY <1>1, <1>5, StartRunInfo DEF StartedBy
  <2>3. NextId \in Fresh
    BY <1>1, <1>2, <2>1, <2>2, FreshId DEF NextId
  <2>4. IsInjective(ms) /\ ToSet(ms) = {NextId}
    BY OneOrTwo
  <2>5. StartedBy(Prompted, ms, c)
    BY <1>5
  <2> HIDE DEF ms
  <2> QED
    BY <1>2, <1>3, <2>1, <2>3, <2>4, <2>5 DEF Fresh, NextId
<1> QED
  BY <1>1, <1>4, <1>5 DEF Starting

LEMMA AgentSpeaks ==
    ASSUME TypeInv, Next, Replies \/ Continues \/ Submits
    PROVE  \/ UNCHANGED <<info, messages, run, steering, events, emitted>>
           \/ \E evs, ms : Speaks(evs, ms)
<1>1. CASE Replies
  BY <1>1, ReplySpeaks DEF Replies
<1> QED
  BY <1>1, StartSpeaks

\* The event that is handled is the one the queue began with.
HandledOne ==
    /\ events # <<>> /\ EventDone
    /\ PersistMessage \/ EventFails \/ (Current.type = "agent_end" /\ log' = log)

\* What waits in the queue stays there until it is handled.
LEMMA EventsStep ==
    ASSUME TypeInv, Next
    PROVE  /\ events' \in Seq(EventsOf(Spoken'))
           /\ \/ HandledOne
              \/ events' = events
              \/ \E evs, ms : Speaks(evs, ms)
<1>1. Infos /\ Queue /\ Lists /\ Later(info') /\ Changes
  BY InfoStep, StepsChange DEF TypeInv
<1>2. events \in Seq(EventsOf(Spoken'))
  <2>1. EventsOf(Spoken) \subseteq EventsOf(Spoken')
    BY <1>1, Grown DEF EventsOf
  <2> QED
    BY <1>1, <2>1 DEF Queue
<1>3. CASE events' = events
  BY <1>2, <1>3
<1>4. CASE HandledOne
  <2>1. Tail(events) \in Seq(EventsOf(Spoken'))
    BY <1>2, <1>4, HeadAndTail DEF HandledOne
  <2> QED
    BY <1>4, <2>1 DEF EventDone, HandledOne
<1>5. CASE Replies \/ Continues \/ Submits
  <2>1. CASE events' = events
    BY <1>3, <2>1
  <2>2. ASSUME NEW evs, NEW ms, Speaks(evs, ms)
        PROVE  events' \in Seq(EventsOf(Spoken'))
    BY <1>2, <2>2 DEF Speaks, Emit
  <2> QED
    BY <1>5, <2>1, <2>2, AgentSpeaks
<1>6. CASE EventDone /\ (PersistMessage \/ EventFails \/ NothingToDecide)
  <2>1. HandledOne
    BY <1>1, <1>6 DEF HandledOne, Queue, PersistMessage, EventFails, NothingToDecide
  <2> QED
    BY <1>4, <2>1
<1>7. CASE EventDone /\ (EndBackoff \/ Decides)
  <2>1. HandledOne
    BY <1>1, <1>7 DEF HandledOne, Queue, EndBackoff, Decides, Decide, Deciding
  <2> QED
    BY <1>4, <2>1
<1>8. CASE Ends \/ Fails
  <2>1. PICK k \in Compactors : EndCompaction(k) \/ CompactionFails(k)
    BY <1>8 DEF Ends, Fails
  <2>2. compaction[k].phase \in {"key", "summary", "saved"} /\ LeaveCompaction(k) /\ log' = log
    BY <2>1 DEF EndCompaction, CompactionFails
  <2>3. CASE k = "queue"
    <3>1. HandledOne
      BY <1>1, <2>2, <2>3 DEF HandledOne, Queue, LeaveCompaction
    <3> QED
      BY <1>4, <3>1
  <2>4. CASE k # "queue"
    BY <1>3, <2>2, <2>4 DEF LeaveCompaction
  <2> QED
    BY <2>3, <2>4
<1> QED
  BY <1>1, <1>3, <1>5, <1>6, <1>7, <1>8 DEF Changes

\* The compactions that a step leaves running, or begins.
LEMMA CompactionStep ==
    ASSUME TypeInv, Next
    PROVE  \/ compaction' = compaction
           \/ /\ Decides /\ handler' = "compacting" /\ events' = events
              /\ \E reason \in {"overflow", "threshold"} :
                    compaction' = [compaction EXCEPT !["queue"] =
                        [NoCompaction EXCEPT !.phase = "key", !.reason = reason]]
           \/ /\ handler' = handler
              /\ \E c \in scenario.callers, reason \in {"overflow", "threshold"} :
                    compaction' = [compaction EXCEPT ![c] =
                        [NoCompaction EXCEPT !.phase = "key", !.reason = reason]]
           \/ /\ handler' = handler
              /\ \E phase \in {"idle", "key"} :
                    compaction' = [compaction EXCEPT !["manual"].phase = phase]
           \/ /\ handler' = handler
              /\ \E k \in Compactors, first \in ToSet(log) :
                    /\ compaction[k].phase = "key"
                    /\ compaction' = [compaction EXCEPT
                          ![k].phase = "summary", ![k].first = first,
                          ![k].recent = RecentUsers(first, compaction[k].reason)]
           \/ /\ handler' = handler
              /\ \E k \in Compactors : /\ compaction[k].phase = "summary"
                                       /\ compaction' = [compaction EXCEPT ![k].phase = "saved"]
           \/ \E k \in Compactors :
                 /\ compaction[k].phase \in {"key", "summary", "saved"}
                 /\ compaction' = [compaction EXCEPT ![k] = NoCompaction]
                 /\ IF k = "queue" THEN handler' = "free" ELSE handler' = handler
<1>1. Changes
  BY StepsChange
<1>2. \A m : CheckCompaction(m) \in {"none", "overflow", "threshold"}
  BY DEF CheckCompaction
<1>3. CASE Decides
  <2>1. PICK gaveUp \in BOOLEAN : Decide(gaveUp)
    BY <1>3 DEF Decides
  <2> DEFINE reason == CheckCompaction(lastAssistant)
  <2>2. reason \in {"none", "overflow", "threshold"}
    BY <1>2
  <2>3. CASE reason = "none"
    BY <2>1, <2>3 DEF Decide, compactVars
  <2>4. CASE reason # "none"
    <3>1. handler' = "compacting" /\ events' = events
          /\ compaction' = [compaction EXCEPT !["queue"] =
                [NoCompaction EXCEPT !.phase = "key", !.reason = reason]]
      BY Zenon, <2>1, <2>4 DEF Decide, BeginCompaction
    <3> HIDE DEF reason
    <3> QED
      BY <1>3, <2>2, <2>4, <3>1
  <2> QED
    BY <2>3, <2>4
<1>4. CASE Prompts
  <2>1. PICK c \in scenario.callers : Prompt(c)
    BY <1>4 DEF Prompts
  <2>2. PICK reason : /\ reason \in {"none", "overflow", "threshold"}
                      /\ IF reason = "none" THEN compaction' = compaction
                         ELSE compaction' = [compaction EXCEPT ![c] =
                                [NoCompaction EXCEPT !.phase = "key", !.reason = reason]]
    <3> DEFINE replies == {i \in DOMAIN FlushedMessages : IsAssistant(FlushedMessages[i])}
               reason == IF replies = {} THEN "none"
                         ELSE CheckCompaction(FlushedMessages[Max(replies)])
    <3>1. reason \in {"none", "overflow", "threshold"}
      BY <1>2
    <3>2. CASE reason = "none"
      BY <2>1, <3>2 DEF Prompt, compactVars
    <3>3. CASE reason # "none"
      <4>1. compaction' = [compaction EXCEPT ![c] =
                              [NoCompaction EXCEPT !.phase = "key", !.reason = reason]]
        BY Zenon, <2>1, <3>3 DEF Prompt, BeginCompaction
      <4> HIDE DEF reason
      <4> QED
        BY <3>1, <3>3, <4>1
    <3> QED
      BY <3>2, <3>3
  <2>3. handler' = handler
    BY <2>1 DEF Prompt, queueVars
  <2> QED
    BY <2>2, <2>3
<1>5. CASE Compact \/ CompactIdle
  <2>1. handler' = handler
    BY <1>5 DEF Compact, CompactIdle, queueVars
  <2>2. \/ compaction' = [compaction EXCEPT !["manual"].phase = "idle"]
        \/ compaction' = [compaction EXCEPT !["manual"].phase = "key"]
    BY <1>5 DEF Compact, CompactIdle
  <2> QED
    BY <2>1, <2>2
<1>6. CASE Prepares
  <2>1. PICK k \in Compactors : Prepare(k)
    BY <1>6 DEF Prepares
  <2>2. compaction[k].phase = "key" /\ handler' = handler
    BY <2>1 DEF Prepare, queueVars
  <2>3. PICK first \in KeepPoints : compaction' = [compaction EXCEPT
                ![k].phase = "summary", ![k].first = first,
                ![k].recent = RecentUsers(first, compaction[k].reason)]
    BY Zenon, <2>1 DEF Prepare
  <2>4. first \in ToSet(log)
    BY KeepPointsIn
  <2> QED
    BY <2>2, <2>3, <2>4
<1>7. CASE Saves
  BY <1>7 DEF Saves, SaveCompaction, queueVars
<1>8. CASE Ends \/ Fails
  <2>1. PICK k \in Compactors : EndCompaction(k) \/ CompactionFails(k)
    BY <1>8 DEF Ends, Fails
  <2>2. compaction[k].phase \in {"key", "summary", "saved"} /\ LeaveCompaction(k)
    BY <2>1 DEF EndCompaction, CompactionFails
  <2> QED
    BY <2>2 DEF LeaveCompaction, EventDone
<1> QED
  BY Zenon, <1>1, <1>3, <1>4, <1>5, <1>6, <1>7, <1>8 DEF Changes

LEMMA CompactionTypes ==
    ASSUME CallersAssumption
    PROVE  /\ Compactors = {"queue", "manual"} \cup Callers
           /\ "queue" # "manual" /\ "queue" \notin Callers /\ "manual" \notin Callers
           /\ NoCompaction \in CompactionType /\ NoCompaction.phase = "none"
           /\ \A S : NoCompaction.recent \in Seq(S)
           /\ \A reason \in {"overflow", "threshold"} :
                 LET key == [NoCompaction EXCEPT !.phase = "key", !.reason = reason]
                 IN /\ key \in CompactionType /\ key.phase = "key"
                    /\ key.recent = NoCompaction.recent
<1>1. <<>> \in Seq(Nat) /\ \A S : <<>> \in Seq(S)
  OBVIOUS
<1>2. NoCompaction \in CompactionType /\ NoCompaction.phase = "none" /\ NoCompaction.recent = <<>>
  BY <1>1 DEF NoCompaction, CompactionType
<1>3. ASSUME NEW reason \in {"overflow", "threshold"}
      PROVE  LET key == [NoCompaction EXCEPT !.phase = "key", !.reason = reason]
             IN /\ key \in CompactionType /\ key.phase = "key"
                /\ key.recent = NoCompaction.recent
  BY <1>1 DEF NoCompaction, CompactionType
<1>4. "queue" \notin Callers /\ "manual" \notin Callers /\ "queue" # "manual"
  BY DEF CallersAssumption
<1> QED
  BY <1>1, <1>2, <1>3, <1>4 DEF Compactors

LEMMA CompactionsStep ==
    ASSUME TypeInv, Next
    PROVE  Compactions'
<1>1. Infos /\ Lists /\ Compactions /\ Later(info') /\ Changes
  BY InfoStep, StepsChange DEF TypeInv
<1>2. ToSet(log) \subseteq ToSet(log') /\ FirstsIn(log', info')
  BY LogStep
<1>3. Ids \subseteq Ids'
  BY <1>1, Grown
<1> DEFINE Fits(f) == /\ f \in [Compactors -> CompactionType]
                      /\ \A k \in Compactors : f[k].recent \in Seq(Ids)
                      /\ \A k \in Compactors :
                            f[k].phase = "summary" => f[k].first \in ToSet(log)
<1>4. Fits(compaction)
  BY <1>1 DEF Compactions
<1>5. ASSUME NEW k \in Compactors, NEW x \in CompactionType, x.recent \in Seq(Ids),
             x.phase = "summary" => x.first \in ToSet(log),
             compaction' = [compaction EXCEPT ![k] = x]
      PROVE  Fits(compaction')
  BY <1>4, <1>5
<1> HIDE DEF Fits
<1>6. /\ \A k \in Compactors : compaction[k] \in CompactionType /\ compaction[k].recent \in Seq(Ids)
      /\ "queue" \in Compactors /\ "manual" \in Compactors /\ scenario.callers \subseteq Compactors
  <2>1. scenario.callers \subseteq Callers
    BY <1>1, ScenariosAssumption DEF Infos
  <2> QED
    BY <1>1, <2>1 DEF Compactions, Compactors
<1>7. ASSUME NEW k \in Compactors, NEW reason \in {"overflow", "threshold"},
             compaction' = [compaction EXCEPT ![k] =
                [NoCompaction EXCEPT !.phase = "key", !.reason = reason]]
      PROVE  Fits(compaction')
  <2> DEFINE key == [NoCompaction EXCEPT !.phase = "key", !.reason = reason]
  <2>1. key \in CompactionType /\ key.phase = "key" /\ key.recent \in Seq(Ids)
    BY CallersAssumption, CompactionTypes
  <2>2. compaction' = [compaction EXCEPT ![k] = key]
    BY <1>7
  <2> HIDE DEF key
  <2> QED
    BY <1>5, <2>1, <2>2
<1>8. ASSUME NEW k \in Compactors, NEW phase \in {"idle", "key", "saved"},
             compaction' = [compaction EXCEPT ![k].phase = phase]
      PROVE  Fits(compaction')
  <2> DEFINE x == [compaction[k] EXCEPT !.phase = phase]
  <2>1. x \in CompactionType /\ x.phase = phase /\ x.recent \in Seq(Ids)
    BY <1>6 DEF CompactionType
  <2>2. compaction' = [compaction EXCEPT ![k] = x]
    BY <1>8
  <2> HIDE DEF x
  <2> QED
    BY <1>5, <2>1, <2>2
<1>9. ASSUME NEW k \in Compactors, NEW first \in ToSet(log),
             compaction' = [compaction EXCEPT
                ![k].phase = "summary", ![k].first = first,
                ![k].recent = RecentUsers(first, compaction[k].reason)]
      PROVE  Fits(compaction')
  <2> DEFINE r == RecentUsers(first, compaction[k].reason)
             x == [compaction[k] EXCEPT !.phase = "summary", !.first = first, !.recent = r]
  <2>1. r \in Seq(Ids) /\ r \in Seq(Nat) /\ first \in Nat
    <3>1. r \in Seq(Ids)
      BY <1>1, RecentUsersType DEF Lists
    <3>2. Ids \subseteq Nat /\ first \in Ids
      BY <1>1 DEF Ids, Lists, ToSet
    <3> HIDE DEF r
    <3>3. r \in Seq(Nat)
      BY <3>1, <3>2, WiderSequence
    <3> QED
      BY <3>1, <3>2, <3>3
  <2>2. compaction' = [compaction EXCEPT ![k] = x]
    BY <1>9
  <2> HIDE DEF r
  <2>3. x \in CompactionType /\ x.first = first /\ x.recent \in Seq(Ids)
    BY <1>6, <2>1 DEF CompactionType
  <2> HIDE DEF x
  <2> QED
    BY <1>5, <2>2, <2>3
<1>10. ASSUME NEW k \in Compactors, compaction' = [compaction EXCEPT ![k] = NoCompaction]
       PROVE  Fits(compaction')
  <2>1. NoCompaction \in CompactionType /\ NoCompaction.phase = "none" /\ NoCompaction.recent \in Seq(Ids)
    BY CallersAssumption, CompactionTypes
  <2> QED
    BY <1>5, <1>10, <2>1
<1>11. Fits(compaction')
  BY Zenon, CompactionStep, <1>4, <1>6, <1>7, <1>8, <1>9, <1>10
<1>12. controller' \in Compactors \cup {NoOne}
  <2>1. CASE Decides
    BY <1>1, <1>6, <2>1 DEF Decides, Decide, BeginCompaction, compactVars, Compactions
  <2>2. CASE Prompts
    BY <1>1, <1>6, <2>2 DEF Prompts, Prompt, BeginCompaction, compactVars, Compactions
  <2> QED
    BY <1>1, <2>1, <2>2 DEF Changes, Compactions
<1>13. \A k \in Compactors : compaction'[k].recent \in Seq(Ids')
  <2>1. \A k \in Compactors : compaction'[k].recent \in Seq(Ids)
    BY <1>11 DEF Fits
  <2>2. \A s \in Seq(Ids) : s \in Seq(Ids')
    BY <1>3
  <2> QED
    BY <2>1, <2>2
<1> QED
  BY <1>2, <1>11, <1>12, <1>13 DEF Compactions, Fits

\* The queue's handler waits for a compaction while there is one.
LEMMA QueuePhase ==
    ASSUME TypeInv, Next
    PROVE  handler' = "compacting" <=> compaction'["queue"].phase # "none"
<1>1. Infos /\ Queue /\ Compactions /\ Changes
  BY StepsChange DEF TypeInv
<1>2. /\ "queue" \in Compactors /\ "manual" \in Compactors /\ scenario.callers \subseteq Compactors
      /\ "queue" \notin scenario.callers /\ "queue" # "manual"
      /\ compaction \in [Compactors -> CompactionType]
  <2>1. scenario.callers \subseteq Callers
    BY <1>1, ScenariosAssumption DEF Infos
  <2> QED
    BY <1>1, <2>1, CallersAssumption DEF Compactions, Compactors
<1>3. NoCompaction.phase = "none" /\ \A k \in Compactors : compaction[k] \in CompactionType
  BY <1>1, <1>2 DEF NoCompaction
<1>4. CASE compaction' = compaction
  <2>1. CASE handler' = handler
    BY <1>1, <1>4, <2>1 DEF Queue
  <2>2. CASE TakeEvent \/ BeginBackoff
    BY <1>1, <1>4, <2>2 DEF TakeEvent, BeginBackoff, Deciding, Queue
  <2>3. CASE EventDone /\ (PersistMessage \/ EventFails \/ NothingToDecide \/ EndBackoff)
    BY <1>1, <1>4, <2>3 DEF EventDone, PersistMessage, EventFails, NothingToDecide, EndBackoff, Queue
  <2>4. CASE Decides
    <3>1. handler \in {"emitting", "backoff"}
      BY <2>4 DEF Decides, Deciding
    <3>2. PICK gaveUp \in BOOLEAN : Decide(gaveUp)
      BY <2>4 DEF Decides
    <3>3. CASE CheckCompaction(lastAssistant) = "none"
      BY <1>1, <1>4, <3>1, <3>2, <3>3 DEF Decide, EventDone, Queue
    <3>4. CASE CheckCompaction(lastAssistant) # "none"
      <4>1. compaction'["queue"].phase = "key"
        <5>1. compaction' = [compaction EXCEPT !["queue"] = [NoCompaction EXCEPT !.phase = "key",
                                !.reason = CheckCompaction(lastAssistant)]]
          BY Zenon, <3>2, <3>4 DEF Decide, BeginCompaction
        <5> QED
          BY <1>2, <5>1 DEF NoCompaction
      <4>2. compaction["queue"].phase = "none"
        BY <1>1, <3>1 DEF Queue
      <4> QED
        BY <1>4, <4>1, <4>2
    <3> QED
      BY <3>3, <3>4
  <2>5. CASE Ends \/ Fails
    <3>1. PICK k \in Compactors : EndCompaction(k) \/ CompactionFails(k)
      BY <2>5 DEF Ends, Fails
    <3>2. compaction[k].phase \in {"key", "summary", "saved"} /\ LeaveCompaction(k)
      BY <3>1 DEF EndCompaction, CompactionFails
    <3>3. compaction'[k].phase = "none"
      BY <1>2, <1>3, <3>2 DEF LeaveCompaction
    <3> QED
      BY <1>4, <3>2, <3>3
  <2> QED
    BY <1>1, <2>1, <2>2, <2>3, <2>4, <2>5 DEF Changes
<1>5. CASE handler' = handler /\ \E k \in Compactors : k # "queue" /\ \E x :
              compaction' = [compaction EXCEPT ![k] = x]
  BY <1>1, <1>2, <1>5 DEF Queue
<1>6. CASE /\ handler' = handler
           /\ \E k \in Compactors, phase \in {"summary", "saved"} :
                 /\ compaction[k].phase # "none" /\ compaction'[k].phase = phase
                 /\ \A j \in Compactors \ {k} : compaction'[j] = compaction[j]
  BY <1>1, <1>2, <1>6 DEF Queue
<1>7. CASE \E k \in Compactors :
              /\ compaction' = [compaction EXCEPT ![k] = NoCompaction]
              /\ IF k = "queue" THEN handler' = "free" ELSE handler' = handler
  BY <1>1, <1>2, <1>3, <1>7 DEF Queue
<1>8. CASE /\ Decides /\ handler' = "compacting" /\ events' = events
           /\ \E reason \in {"overflow", "threshold"} :
                 compaction' = [compaction EXCEPT !["queue"] =
                     [NoCompaction EXCEPT !.phase = "key", !.reason = reason]]
  BY <1>2, <1>8 DEF NoCompaction
<1>9. CASE /\ handler' = handler
           /\ \E phase \in {"idle", "key"} :
                 compaction' = [compaction EXCEPT !["manual"].phase = phase]
  <2>1. PICK phase \in {"idle", "key"} :
            compaction' = [compaction EXCEPT !["manual"] = [compaction["manual"] EXCEPT !.phase = phase]]
    BY <1>9
  <2> DEFINE x == [compaction["manual"] EXCEPT !.phase = phase]
  <2>2. compaction' = [compaction EXCEPT !["manual"] = x]
    BY <2>1
  <2> HIDE DEF x
  <2> QED
    BY <1>2, <1>5, <1>9, <2>2
<1>10. CASE /\ handler' = handler
            /\ \E c \in scenario.callers, reason \in {"overflow", "threshold"} :
                  compaction' = [compaction EXCEPT ![c] =
                      [NoCompaction EXCEPT !.phase = "key", !.reason = reason]]
  BY <1>2, <1>5, <1>10
<1>11. CASE /\ handler' = handler
            /\ \E k \in Compactors, first \in ToSet(log) :
                  /\ compaction[k].phase = "key"
                  /\ compaction' = [compaction EXCEPT
                        ![k].phase = "summary", ![k].first = first,
                        ![k].recent = RecentUsers(first, compaction[k].reason)]
  <2>1. PICK k \in Compactors, first \in ToSet(log) :
            /\ compaction[k].phase = "key"
            /\ compaction' = [compaction EXCEPT
                  ![k].phase = "summary", ![k].first = first,
                  ![k].recent = RecentUsers(first, compaction[k].reason)]
    BY <1>11
  <2> DEFINE r == RecentUsers(first, compaction[k].reason)
  <2>2. /\ compaction' = [compaction EXCEPT ![k] = [compaction[k] EXCEPT
              !.phase = "summary", !.first = first, !.recent = r]]
    BY <2>1
  <2> HIDE DEF r
  <2>3. compaction'[k].phase = "summary" /\ \A j \in Compactors \ {k} : compaction'[j] = compaction[j]
    BY <1>2, <1>3, <2>2 DEF CompactionType
  <2> QED
    BY <1>6, <1>11, <2>1, <2>3
<1>12. CASE /\ handler' = handler
            /\ \E k \in Compactors : /\ compaction[k].phase = "summary"
                                     /\ compaction' = [compaction EXCEPT ![k].phase = "saved"]
  <2>1. PICK k \in Compactors : /\ compaction[k].phase = "summary"
                                /\ compaction' = [compaction EXCEPT ![k].phase = "saved"]
    BY <1>12
  <2>2. compaction'[k].phase = "saved" /\ \A j \in Compactors \ {k} : compaction'[j] = compaction[j]
    BY <1>2, <1>3, <2>1 DEF CompactionType
  <2> QED
    BY <1>6, <1>12, <2>1, <2>2
<1> QED
  BY Zenon, CompactionStep, <1>4, <1>7, <1>8, <1>9, <1>10, <1>11, <1>12

LEMMA QueueStep ==
    ASSUME TypeInv, Next
    PROVE  Queue'
<1>1. Infos /\ Queue /\ Runs /\ Changes /\ Later(info')
  BY StepsChange, InfoStep DEF TypeInv
<1>2. /\ events' \in Seq(EventsOf(Spoken'))
      /\ HandledOne \/ events' = events \/ \E evs, ms : Speaks(evs, ms)
  BY EventsStep
<1>3. handler' = "compacting" <=> compaction'["queue"].phase # "none"
  BY QueuePhase
<1>5. HandledOne \/ (events # <<>> => events' # <<>> /\ Head(events') = Head(events))
  <2>1. ASSUME NEW evs, NEW ms, Speaks(evs, ms)
        PROVE  events # <<>> => events' # <<>> /\ Head(events') = Head(events)
    <3>1. evs \in Seq(EventsOf(Spoken')) /\ Emit(evs, ms)
      BY <2>1 DEF Speaks
    <3>2. events \in Seq(EventsOf(Spoken'))
      <4>1. EventsOf(Spoken) \subseteq EventsOf(Spoken')
        BY <1>1, Grown DEF EventsOf
      <4> QED
        BY <1>1, <4>1 DEF Queue
    <3> QED
      BY <3>1, <3>2 DEF Emit
  <2> QED
    BY <1>2, <2>1
<1>6. handler' # "free" => /\ events' # <<>>
                           /\ handler' \in {"emitting", "backoff", "compacting"}
                           /\ handler' \in {"backoff", "compacting"} => Head(events').type = "agent_end"
  <2> SUFFICES ASSUME handler' # "free"
               PROVE  /\ events' # <<>> /\ handler' \in {"emitting", "backoff", "compacting"}
                      /\ handler' \in {"backoff", "compacting"} => Head(events').type = "agent_end"
    OBVIOUS
  <2>1. ~HandledOne
    BY DEF HandledOne, EventDone
  <2>2. events # <<>> => events' # <<>> /\ Head(events') = Head(events)
    BY <1>5, <2>1
  <2>3. CASE handler' = handler
    BY <1>1, <2>2, <2>3 DEF Queue, Current
  <2>4. CASE TakeEvent \/ BeginBackoff
    BY <1>1, <2>2, <2>4 DEF Queue, Current, TakeEvent, BeginBackoff, Deciding
  <2>5. CASE Decides
    <3>1. Current.type = "agent_end" /\ events # <<>>
      BY <1>1, <2>5 DEF Decides, Deciding, Queue
    <3>2. handler' = "compacting"
      BY <2>5 DEF Decides, Decide, EventDone
    <3> QED
      BY <2>2, <3>1, <3>2 DEF Current
  <2>6. CASE Ends \/ Fails
    <3>1. handler' = handler
      BY <2>6 DEF Ends, Fails, EndCompaction, CompactionFails, LeaveCompaction, EventDone
    <3> QED
      BY <2>3, <3>1
  <2>7. CASE EventDone
    BY <2>7 DEF EventDone
  <2> QED
    BY Zenon, <1>1, <2>3, <2>4, <2>5, <2>6, <2>7 DEF Changes
<1>7. lastAssistant' \in 0 .. Len(info')
  <2>1. Len(info) \in Nat /\ Len(info') \in Nat /\ Len(info) <= Len(info')
    BY <1>1 DEF Infos, Later
  <2>2. CASE lastAssistant' \in {lastAssistant, 0}
    BY <1>1, <2>1, <2>2 DEF Queue
  <2>3. CASE PersistMessage
    <3>1. lastAssistant' = lastAssistant \/ lastAssistant' = Current.msg
      BY <2>3 DEF PersistMessage
    <3>2. Current \in EventsOf(Spoken)
      BY <1>1, <2>3, HeadAndTail DEF Queue, Current, PersistMessage
    <3>3. Current.msg \in Ids
      BY <3>2 DEF EventsOf, Spoken
    <3> QED
      BY <1>1, <2>1, <3>1, <3>3 DEF Queue, Ids
  <2> QED
    BY <1>1, <2>2, <2>3 DEF Changes
<1>8. handler' \in {"free", "emitting", "backoff", "compacting"}
  BY <1>6
<1> QED
  BY <1>2, <1>3, <1>6, <1>7, <1>8 DEF Queue, Current

LEMMA OthersStep ==
    ASSUME TypeInv, Next
    PROVE  Others'
<1>1. Infos /\ Others /\ Queue /\ Runs /\ Changes
  BY StepsChange DEF TypeInv
<1>2. timers' \in [{"retry", "resume"} -> Nat]
  <2>1. CASE Continues
    <3>1. PICK reason \in DOMAIN timers :
              timers[reason] > 0 /\ timers' = [timers EXCEPT ![reason] = @ - 1]
      BY <2>1 DEF Continues, Continue
    <3> QED
      BY <1>1, <3>1 DEF Others
  <2>2. CASE EndBackoff \/ Ends
    <3>1. \/ timers' = timers
          \/ timers' = [timers EXCEPT !["retry"] = @ + 1]
          \/ timers' = [timers EXCEPT !["resume"] = @ + 1]
      BY <2>2 DEF EndBackoff, Ends, EndCompaction
    <3> QED
      BY <1>1, <3>1 DEF Others
  <2> QED
    BY <1>1, <2>1, <2>2 DEF Changes, Others
<1>3. attempt' \in 0 .. MaxRetries
  <2>1. CASE BeginBackoff
    BY <1>1, <2>1, RetriesAssumption DEF BeginBackoff, AttemptsLeft, Others
  <2> QED
    BY <1>1, <2>1, RetriesAssumption DEF Changes, Others
<1>4. retries' \in Nat
  <2>1. CASE Continues
    BY <1>1, <2>1 DEF Continues, Continue, Others
  <2> QED
    BY <1>1, <2>1 DEF Changes, Others
<1>5. connected' \in BOOLEAN /\ retryPromise' \in BOOLEAN /\ overflowTried' \in BOOLEAN
  <2>1. connected' = connected \/ connected' \in {TRUE, FALSE}
    <3>1. CASE Compact
      BY <3>1 DEF Compact
    <3>2. CASE Ends \/ Fails
      BY <3>2 DEF Ends, Fails, EndCompaction, CompactionFails, LeaveCompaction
    <3> QED
      BY <1>1, <3>1, <3>2 DEF Changes
  <2> QED
    BY <1>1, <2>1 DEF Changes, Others
<1>6. pc' \in [Callers -> Steps]
  <2>1. pc \in [Callers -> Steps]
    BY <1>1 DEF Others
  <2>2. Released \in [Callers -> Steps]
    BY <2>1 DEF Released, Steps
  <2>3. \A owner, retrying : Finished(owner, retrying) \in [Callers -> Steps]
    BY <2>1 DEF Finished, Steps
  <2>4. CASE Replies
    <3>1. PICK outcome \in scenario.outcomes \cup {"aborted"} : Reply(outcome)
      BY <2>4 DEF Replies
    <3>2. pc' = pc \/ \E owner, retrying : pc' = Finished(owner, retrying)
      BY Zenon, <3>1 DEF Reply
    <3> QED
      BY <2>1, <2>3, <3>2
  <2>5. CASE FinishRun
    BY <2>3, <2>5 DEF FinishRun
  <2>6. CASE Decides \/ Abort \/ Compact
    BY <2>2, <2>6 DEF Decides, Decide, Abort, Compact, AbortAll, ResolveRetry
  <2>7. CASE Prompts \/ Refuses \/ Submits
    <3>1. \E c \in Callers \cup scenario.callers, s \in {"prepared", "compacting", "rejected", "running"} :
             pc' = [pc EXCEPT ![c] = s]
      <4>1. CASE Prompts
        BY <4>1 DEF Prompts, Prompt
      <4>2. CASE Refuses
        BY <4>2 DEF Refuses, PromptRefused
      <4>3. CASE Submits
        BY <4>3 DEF Submits, Submit
      <4> QED
        BY <2>7, <4>1, <4>2, <4>3
    <3>2. {"prepared", "compacting", "rejected", "running"} \subseteq Steps
      BY DEF Steps
    <3> QED
      BY <2>1, <3>1, <3>2
  <2>8. CASE Ends \/ Fails
    <3>1. pc' = pc \/ \E c \in Callers : pc' = [pc EXCEPT ![c] = "prepared"]
      BY <2>8 DEF Ends, Fails, EndCompaction, CompactionFails, LeaveCompaction
    <3>2. "prepared" \in Steps
      BY DEF Steps
    <3> QED
      BY <2>1, <3>1, <3>2
  <2> QED
    BY <1>1, <2>1, <2>4, <2>5, <2>6, <2>7, <2>8 DEF Changes
<1> QED
  BY <1>2, <1>3, <1>4, <1>5, <1>6 DEF Others

LEMMA TypeStep ==
    ASSUME TypeInv, [Next]_vars
    PROVE  TypeInv'
<1>1. CASE Next
  BY <1>1, InfosStep, ListsStep, RunsStep, QueueStep, CompactionsStep, OthersStep DEF TypeInv
<1>2. CASE UNCHANGED vars
  BY <1>2 DEF vars, agentVars, queueVars, retryVars, compactVars, clientVars, TypeInv, Infos,
     Lists, Runs, Queue, Compactions, Others, Ids, Users, Spoken, Bashes, Role, IsAssistant,
     Current, FirstsIn
<1> QED
  BY <1>1, <1>2

LEMMA TypeInit ==
    ASSUME Init
    PROVE  TypeInv
<1> USE DEF Init
<1>1. Len(info) = 0 /\ Ids = {} /\ \A S : <<>> \in Seq(S)
  BY DEF Ids
<1>2. Infos /\ Lists
  BY <1>1 DEF Infos, Lists
<1>3. Runs
  BY <1>1 DEF Runs, Idle, RunType
<1>4. NoCompaction \in CompactionType /\ NoCompaction.phase = "none" /\ NoCompaction.recent \in Seq(Ids)
  BY CallersAssumption, CompactionTypes
<1>5. \A k \in Compactors : compaction[k] = NoCompaction
  OBVIOUS
<1>6. Queue
  BY <1>1, <1>4, <1>5 DEF Queue, Compactors
<1>7. Compactions
  BY <1>1, <1>4, <1>5 DEF Compactions, FirstsIn, ToSet
<1>8. Others
  <2>1. 0 \in 0 .. MaxRetries /\ pc \in [Callers -> Steps]
    BY RetriesAssumption DEF Steps
  <2>2. /\ timers \in [{"retry", "resume"} -> Nat] /\ retries \in Nat
        /\ connected \in BOOLEAN /\ retryPromise \in BOOLEAN /\ overflowTried \in BOOLEAN
    OBVIOUS
  <2> QED
    BY <2>1, <2>2 DEF Others
<1> QED
  BY <1>2, <1>3, <1>6, <1>7, <1>8 DEF TypeInv

\* Every variable keeps its type, for any number of callers, any scenarios and
\* any number of retries: the transcript, the log and the queues hold only
\* messages that exist, and what the handler, the runs and the compactions
\* point to is there.
THEOREM TypeCorrect == Spec => []TypeOK
<1>1. Spec => []TypeInv
  BY TypeInit, TypeStep, PTL DEF Spec
<1> QED
  BY <1>1, TypeInvIsTyped, PTL

(***************************************************************************)
(* A message is in one place: said, waiting, kept back or in the session.  *)
(***************************************************************************)
Unhandled == MessagesIn(events)

Distinct ==
    /\ IsInjective(log) /\ IsInjective(Unhandled)
    /\ IsInjective(steering) /\ IsInjective(pendingBash)
    /\ ToSet(log) \cap ToSet(Unhandled) = {}
    /\ ToSet(steering) \cap (ToSet(log) \cup ToSet(Unhandled)) = {}
    /\ ToSet(pendingBash) \cap ToSet(log) = {}
    /\ Replying \cap (ToSet(log) \cup ToSet(Unhandled)) = {}

\* The log grows by messages that were kept back, or by a new one.
Grows(x) ==
    /\ log' = log \o x /\ x \in Seq(Ids')
    /\ ToSet(x) \subseteq ToSet(pendingBash) \cup Fresh
    /\ IsInjective(pendingBash) => IsInjective(x)
    /\ pendingBash' = <<>> \/ (pendingBash' = pendingBash /\ ToSet(x) \subseteq Fresh)
    /\ run' = run /\ steering' = steering /\ events' = events /\ emitted' = emitted

LEMMA NewIsFresh ==
    ASSUME Infos, NEW role \in {"user", "assistant", "bash", "summary"},
           info' = Append(info, New(role))
    PROVE  NextId \in Fresh
<1>1. Len(info) \in Nat
  BY DEF Infos
<1>2. NextId \in Ids'
  BY NewMessage
<1> QED
  BY <1>1, <1>2 DEF Fresh, Ids, NextId

LEMMA StepKinds ==
    ASSUME TypeInv, Next
    PROVE  \/ \E x : Grows(x)
           \/ PersistMessage
           \/ /\ pendingBash' = Append(pendingBash, NextId) /\ NextId \in Fresh
              /\ log' = log /\ run' = run /\ steering' = steering
              /\ events' = events /\ emitted' = emitted
           \/ /\ log' = log /\ pendingBash' = pendingBash
              /\ \/ \E evs, ms : Speaks(evs, ms)
                 \/ /\ HandledOne /\ (Current.type = "agent_end" \/ scenario.throws)
                    /\ run' = run /\ steering' = steering /\ emitted' = emitted
                 \/ /\ events' = events /\ emitted' = emitted /\ Replying' \subseteq Replying
                    /\ \/ steering' \in {steering, <<>>}
                       \/ steering' = Append(steering, NextId) /\ NextId \in Fresh
<1>1. Infos /\ Lists /\ Runs /\ Changes
  BY StepsChange DEF TypeInv
<1>2. CASE Replies \/ Continues \/ Submits
  <2>1. log' = log /\ pendingBash' = pendingBash
    <3>1. CASE Replies
      BY <3>1 DEF Replies, Reply
    <3>2. CASE Continues
      BY <3>2 DEF Continues, Continue
    <3>3. CASE Submits
      BY <3>3 DEF Submits, Submit
    <3> QED
      BY <1>2, <3>1, <3>2, <3>3
  <2>2. CASE UNCHANGED <<info, messages, run, steering, events, emitted>>
    BY <2>1, <2>2 DEF Replying
  <2> QED
    BY Zenon, <1>2, <2>1, <2>2, AgentSpeaks
<1>3. CASE Prompts
  <2>1. /\ log' = log \o pendingBash /\ pendingBash' = <<>>
        /\ run' = run /\ steering' = steering /\ events' = events /\ emitted' = emitted
    BY <1>3 DEF Prompts, Prompt, FlushedLog, queueVars
  <2>2. pendingBash \in Seq(Ids')
    <3>1. Bashes \subseteq Ids'
      BY <1>1, InfoStep, Grown DEF Bashes
    <3>2. pendingBash \in Seq(Bashes)
      BY <1>1 DEF Lists
    <3> QED
      BY <3>1, <3>2, WiderSequence
  <2>3. Grows(pendingBash)
    BY <2>1, <2>2 DEF Grows
  <2> QED
    BY <2>3
<1>4. ASSUME NextId \in Fresh, log' = Append(log, NextId), pendingBash' = pendingBash,
             run' = run, steering' = steering, events' = events, emitted' = emitted
      PROVE  \E x : Grows(x)
  <2>1. <<NextId>> \in Seq(Ids') /\ ToSet(<<NextId>>) = {NextId} /\ IsInjective(<<NextId>>)
    BY <1>4, OneOrTwo DEF Fresh
  <2>2. log' = log \o <<NextId>>
    <3>1. log \in Seq(Ids)
      BY <1>1 DEF Lists
    <3> QED
      BY <1>4, <3>1
  <2>3. Grows(<<NextId>>)
    BY <1>4, <2>1, <2>2 DEF Grows
  <2> QED
    BY <2>3
<1>5. CASE RecordBash
  <2>1. "bash" \in {"user", "assistant", "bash", "summary"}
    OBVIOUS
  <2>2. info' = Append(info, New("bash"))
    BY <1>5 DEF RecordBash
  <2>3. NextId \in Fresh
    BY <1>1, <2>1, <2>2, NewIsFresh
  <2>4. /\ run' = run /\ steering' = steering /\ events' = events /\ emitted' = emitted
        /\ \/ log' = Append(log, NextId) /\ pendingBash' = pendingBash
           \/ log' = log /\ pendingBash' = Append(pendingBash, NextId)
    BY <1>5 DEF RecordBash, queueVars
  <2> QED
    BY <1>4, <2>3, <2>4
<1>6. CASE Saves
  <2>1. /\ log' = Append(log, NextId) /\ pendingBash' = pendingBash
        /\ run' = run /\ steering' = steering /\ events' = events /\ emitted' = emitted
        /\ \E s : info' = Append(info, s)
    BY <1>6 DEF Saves, SaveCompaction, queueVars
  <2>2. NextId \in Fresh
    <3>1. Len(info) \in Nat /\ info \in Seq(MessageType)
      BY <1>1 DEF Infos
    <3>2. PICK s : info' = Append(info, s)
      BY <2>1
    <3>3. Len(info') = Len(info) + 1
      BY <3>1, <3>2
    <3> QED
      BY <3>1, <3>3 DEF Fresh, Ids, NextId
  <2> QED
    BY <1>4, <2>1, <2>2
<1>7. CASE Steer
  <2>1. "user" \in {"user", "assistant", "bash", "summary"}
    OBVIOUS
  <2>2. info' = Append(info, New("user"))
    BY <1>7 DEF Steer
  <2>3. NextId \in Fresh
    BY <1>1, <2>1, <2>2, NewIsFresh
  <2> QED
    BY <1>7, <2>3 DEF Steer, queueVars, Replying
<1>8. CASE ClearQueue
  BY <1>8 DEF ClearQueue, queueVars, Replying
<1>9. CASE FinishRun \/ Abort \/ Compact
  <2>1. Replying' \subseteq Replying
    <3>1. run' = run \/ run' = Idle \/ run' = [run EXCEPT !.aborted = TRUE]
      BY <1>9 DEF FinishRun, Abort, Compact, AbortAll
    <3> QED
      BY <1>1, <3>1, RunRecords DEF Replying, Runs
  <2> QED
    BY <1>9, <2>1 DEF FinishRun, Abort, Compact, AbortAll, queueVars
<1>10. CASE /\ log' = log /\ pendingBash' = pendingBash /\ events' = events /\ emitted' = emitted
            /\ run' = run /\ steering' = steering
  BY <1>10 DEF Replying
<1>11. CASE TakeEvent \/ BeginBackoff \/ AbortCompaction \/ CompactIdle \/ Refuses \/ Prepares
  <2>1. CASE TakeEvent \/ BeginBackoff \/ AbortCompaction \/ CompactIdle
    BY <1>10, <2>1 DEF TakeEvent, BeginBackoff, AbortCompaction, CompactIdle, agentVars, queueVars
  <2>2. CASE Refuses \/ Prepares
    BY <1>10, <2>2 DEF Refuses, PromptRefused, Prepares, Prepare, agentVars, queueVars
  <2> QED
    BY <1>11, <2>1, <2>2
<1>12. CASE EventFails \/ NothingToDecide \/ EndBackoff \/ Decides \/ Ends \/ Fails
  <2>1. /\ log' = log /\ pendingBash' = pendingBash /\ emitted' = emitted
        /\ run' = run /\ steering' = steering
    <3>1. CASE EventFails \/ NothingToDecide \/ EndBackoff
      BY <3>1 DEF EventFails, NothingToDecide, EndBackoff, agentVars
    <3>2. CASE Decides
      BY <3>2 DEF Decides, Decide
    <3>3. CASE Ends \/ Fails
      BY <3>3 DEF Ends, EndCompaction, Fails, CompactionFails, agentVars
    <3> QED
      BY <1>12, <3>1, <3>2, <3>3
  <2>2. CASE events' = events
    BY <1>10, <2>1, <2>2
  <2>3. HandledOne \/ events' = events
    <3>1. CASE Ends \/ Fails
      <4>1. PICK k \in Compactors : EndCompaction(k) \/ CompactionFails(k)
        BY <3>1 DEF Ends, Fails
      <4>2. compaction[k].phase \in {"key", "summary", "saved"} /\ LeaveCompaction(k)
        BY <4>1 DEF EndCompaction, CompactionFails
      <4> QED
        BY <2>1, <4>2 DEF LeaveCompaction, HandledOne, TypeInv, Queue
    <3>2. CASE EventFails \/ NothingToDecide \/ EndBackoff
      BY <2>1, <3>2 DEF HandledOne, TypeInv, Queue, EventFails, NothingToDecide, EndBackoff
    <3>3. CASE Decides
      BY <2>1, <3>3 DEF HandledOne, TypeInv, Queue, Decides, Decide, Deciding
    <3> QED
      BY <1>12, <3>1, <3>2, <3>3
  <2>4. HandledOne => Current.type = "agent_end" \/ scenario.throws \/ PersistMessage
    BY <1>12 DEF HandledOne, EventFails
  <2> QED
    BY <2>1, <2>2, <2>3, <2>4
<1> QED
  BY Zenon, Actions, <1>2, <1>3, <1>5, <1>6, <1>7, <1>8, <1>9, <1>11, <1>12

LEMMA UnhandledType ==
    ASSUME Queue
    PROVE  /\ Unhandled \in Seq(Spoken) /\ ToSet(Unhandled) \subseteq Ids
           /\ events # <<>> => /\ Current.msg \in Spoken
                               /\ Unhandled = IF Current.type = "message"
                                              THEN <<Current.msg>> \o MessagesIn(Tail(events))
                                              ELSE MessagesIn(Tail(events))
                               /\ MessagesIn(Tail(events)) \in Seq(Spoken)
<1>1. events \in Seq(EventsOf(Spoken)) /\ Spoken \in SUBSET Nat /\ Spoken \subseteq Ids
  BY DEF Queue, Spoken, Ids
<1>2. Unhandled \in Seq(Spoken)
  BY <1>1, MessagesInConcat DEF Unhandled
<1>3. ToSet(Unhandled) \subseteq Ids
  <2> DEFINE u == Unhandled
  <2>1. u \in Seq(Ids)
    BY <1>1, <1>2, WiderSequence
  <2> HIDE DEF u
  <2>2. ToSet(u) \subseteq Ids
    BY <2>1 DEF ToSet
  <2> QED
    BY <2>2 DEF u
<1> QED
  BY <1>1, <1>2, <1>3, MessagesInTail DEF Unhandled, Current

\* What is said waits, unless the session is not connected.
LEMMA SaidWaits ==
    ASSUME TypeInv, Next, NEW evs, NEW ms, Speaks(evs, ms)
    PROVE  \/ Unhandled' = Unhandled \o ms /\ emitted' = emitted \o ms
           \/ events' = events /\ emitted' = emitted
<1>1. evs \in Seq(EventsOf(Spoken')) /\ MessagesIn(evs) = ms /\ Emit(evs, ms)
  BY DEF Speaks
<1>2. events \in Seq(EventsOf(Spoken'))
  <2>1. Spoken \subseteq Spoken'
    BY InfoStep, Grown DEF TypeInv
  <2>2. EventsOf(Spoken) \subseteq EventsOf(Spoken') /\ events \in Seq(EventsOf(Spoken))
    BY <2>1 DEF EventsOf, TypeInv, Queue
  <2> QED
    BY <2>2, WiderSequence
<1>3. MessagesIn(events \o evs) = MessagesIn(events) \o MessagesIn(evs)
  BY <1>1, <1>2, MessagesInConcat
<1>4. CASE connected
  <2>1. events' = events \o evs /\ emitted' = emitted \o ms
    BY <1>1, <1>4 DEF Emit
  <2>2. Unhandled' = MessagesIn(events \o evs)
    BY <2>1 DEF Unhandled
  <2> QED
    BY <1>1, <1>3, <2>1, <2>2 DEF Unhandled
<1>5. CASE ~connected
  BY <1>1, <1>5 DEF Emit
<1> QED
  BY <1>4, <1>5

LEMMA DistinctStep ==
    ASSUME TypeInv, Distinct, [Next]_vars
    PROVE  Distinct'
<1>0. CASE UNCHANGED vars
  BY <1>0 DEF vars, agentVars, queueVars, Distinct, Unhandled, Replying
<1> SUFFICES ASSUME Next PROVE Distinct'
  BY <1>0
<1>1. Infos /\ Lists /\ Runs /\ Queue /\ Later(info')
  BY InfoStep DEF TypeInv
<1>2. /\ Ids \subseteq Ids' /\ Spoken \subseteq Ids /\ Spoken \subseteq Spoken' /\ Bashes \subseteq Ids
      /\ Users \subseteq Ids /\ Spoken' \subseteq Ids' /\ Users \subseteq Ids'
      /\ Fresh \cap Ids = {}
  BY <1>1, Grown DEF Spoken, Bashes, Users, Fresh
<1>3. /\ ToSet(log) \subseteq Ids /\ ToSet(Unhandled) \subseteq Ids /\ ToSet(steering) \subseteq Ids
      /\ ToSet(pendingBash) \subseteq Ids /\ Replying \subseteq Ids
      /\ Unhandled \in Seq(Spoken)
      /\ ToSet(pendingBash) \cap ToSet(Unhandled) = {}
      /\ ToSet(pendingBash) \cap ToSet(steering) = {}
      /\ ToSet(pendingBash) \cap Replying = {}
      /\ ToSet(steering) \cap Replying = {}
  <2>1. Unhandled \in Seq(Spoken) /\ ToSet(Unhandled) \subseteq Spoken
    BY <1>1, UnhandledType DEF ToSet
  <2>2. /\ ToSet(log) \subseteq Ids /\ ToSet(steering) \subseteq Users
        /\ ToSet(pendingBash) \subseteq Bashes
    BY <1>1 DEF Lists, ToSet
  <2>3. Replying \subseteq {m \in Ids : Role(m) = "assistant"}
    BY <1>1 DEF Runs, Replying, IsAssistant
  <2> QED
    BY <1>2, <2>1, <2>2, <2>3 DEF Users, Bashes, Spoken
<1>4. ASSUME NEW x, Grows(x) PROVE Distinct'
  <2>1. /\ log' = log \o x /\ x \in Seq(Ids') /\ ToSet(x) \subseteq ToSet(pendingBash) \cup Fresh
        /\ run' = run /\ steering' = steering /\ events' = events
        /\ pendingBash' = <<>> \/ (pendingBash' = pendingBash /\ ToSet(x) \subseteq Fresh)
        /\ IsInjective(x)
    BY <1>4 DEF Grows, Distinct
  <2>2. log \in Seq(Ids')
    BY <1>1, <1>2, WiderSequence DEF Lists
  <2>3. ToSet(log) \cap ToSet(x) = {}
    BY <1>2, <1>3, <2>1 DEF Distinct
  <2>4. IsInjective(log') /\ ToSet(log') = ToSet(log) \cup ToSet(x)
    <3>1. IsInjective(log \o x)
      BY <2>1, <2>2, <2>3, InjectiveConcat DEF Distinct
    <3>2. ToSet(log \o x) = ToSet(log) \cup ToSet(x)
      BY <2>1, <2>2, ConcatElements
    <3> QED
      BY <2>1, <3>1, <3>2
  <2>5. Unhandled' = Unhandled /\ Replying' = Replying
    BY <2>1 DEF Unhandled, Replying
  <2>6. IsInjective(pendingBash') /\ ToSet(pendingBash') \cap ToSet(log') = {}
    <3>1. CASE pendingBash' = <<>>
      BY <3>1 DEF ToSet, IsInjective
    <3>2. CASE pendingBash' = pendingBash /\ ToSet(x) \subseteq Fresh
      BY <1>2, <1>3, <2>4, <3>2 DEF Distinct
    <3> QED
      BY <2>1, <3>1, <3>2
  <2> QED
    BY <1>2, <1>3, <2>1, <2>4, <2>5, <2>6 DEF Distinct
<1>5. CASE PersistMessage
  <2>1. /\ log' = Append(log, Current.msg) /\ events' = Tail(events) /\ events # <<>>
        /\ Current.type = "message" /\ run' = run /\ steering' = steering
        /\ pendingBash' = pendingBash
    BY <1>1, <1>5 DEF PersistMessage, EventDone, Queue, agentVars
  <2> DEFINE m == Current.msg
             rest == MessagesIn(Tail(events))
  <2>2. m \in Spoken /\ rest \in Seq(Spoken) /\ Unhandled = <<m>> \o rest
    BY <1>1, <2>1, UnhandledType
  <2>3. Unhandled' = rest
    BY <2>1 DEF Unhandled
  <2> HIDE DEF m, rest
  <2>4. ToSet(Unhandled) = {m} \cup ToSet(rest)
    <3>1. <<m>> \in Seq(Spoken) /\ ToSet(<<m>>) = {m}
      BY <2>2, OneOrTwo
    <3> DEFINE o == <<m>>
    <3> HIDE DEF o
    <3>2. o \in Seq(Spoken) /\ rest \in Seq(Spoken)
      BY <2>2, <3>1 DEF o
    <3>3. ToSet(o \o rest) = ToSet(o) \cup ToSet(rest)
      BY ONLY <3>2, ConcatElements
    <3> QED
      BY <2>2, <3>1, <3>3 DEF o
  <2>5. IsInjective(rest) /\ m \notin ToSet(rest)
    <3>1. Unhandled # <<>> /\ Head(Unhandled) = m /\ Tail(Unhandled) = rest
      BY <2>2
    <3>2. IsInjective(Tail(Unhandled)) /\ Head(Unhandled) \notin ToSet(Tail(Unhandled))
      BY <1>3, <3>1, InjectiveTail DEF Distinct
    <3> QED
      BY <3>1, <3>2
  <2>6. log \in Seq(Ids) /\ m \in Ids /\ m \notin ToSet(log)
    BY <1>1, <1>2, <2>2, <2>4 DEF Distinct, Lists
  <2>7. IsInjective(log') /\ ToSet(log') = ToSet(log) \cup {m}
    <3>1. log' = Append(log, m)
      BY <2>1 DEF m
    <3> QED
      BY <2>6, <3>1, AppendElements, InjectiveAppend DEF Distinct
  <2>8. Replying' = Replying
    BY <2>1 DEF Replying
  <2>9. m \notin ToSet(pendingBash) /\ m \notin ToSet(steering) /\ m \notin Replying
    BY <1>3, <2>4 DEF Distinct
  <2> QED
    BY <2>1, <2>3, <2>4, <2>5, <2>7, <2>8, <2>9 DEF Distinct
<1>6. CASE /\ pendingBash' = Append(pendingBash, NextId) /\ NextId \in Fresh
           /\ log' = log /\ run' = run /\ steering' = steering /\ events' = events
  <2>1. pendingBash \in Seq(Ids') /\ NextId \in Ids' /\ NextId \notin ToSet(pendingBash)
    <3>1. Bashes \subseteq Ids' /\ pendingBash \in Seq(Bashes)
      BY <1>1, <1>2 DEF Lists
    <3> QED
      BY <1>2, <1>3, <1>6, <3>1, WiderSequence DEF Fresh
  <2>2. IsInjective(pendingBash') /\ ToSet(pendingBash') = ToSet(pendingBash) \cup {NextId}
    BY <1>6, <2>1, AppendElements, InjectiveAppend DEF Distinct
  <2>3. Unhandled' = Unhandled /\ Replying' = Replying
    BY <1>6 DEF Unhandled, Replying
  <2> QED
    BY <1>2, <1>3, <1>6, <2>2, <2>3 DEF Distinct
<1>7. ASSUME NEW evs, NEW ms, Speaks(evs, ms), log' = log, pendingBash' = pendingBash
      PROVE  Distinct'
  <2>1. /\ ms \in Seq(Spoken') /\ ToSet(ms) \subseteq Replying \cup ToSet(steering) \cup Fresh
        /\ ToSet(steering') \subseteq ToSet(steering) /\ Replying' \subseteq Fresh \ ToSet(ms)
        /\ IsInjective(ms) /\ IsInjective(steering') /\ ToSet(steering') \cap ToSet(ms) = {}
    BY <1>7 DEF Speaks, Distinct
  <2>2. IsInjective(Unhandled') /\ ToSet(Unhandled') \subseteq ToSet(Unhandled) \cup ToSet(ms)
    <3>1. CASE events' = events
      BY <3>1 DEF Unhandled, Distinct
    <3>2. CASE Unhandled' = Unhandled \o ms
      <4>1. Unhandled \in Seq(Spoken')
        BY <1>2, <1>3, WiderSequence
      <4>2. ToSet(Unhandled) \cap ToSet(ms) = {}
        BY <1>2, <1>3, <2>1 DEF Distinct
      <4>3. IsInjective(Unhandled \o ms)
        BY <2>1, <4>1, <4>2, InjectiveConcat DEF Distinct
      <4>4. ToSet(Unhandled \o ms) = ToSet(Unhandled) \cup ToSet(ms)
        BY <2>1, <4>1, ConcatElements
      <4> QED
        BY <3>2, <4>3, <4>4
    <3> QED
      BY <1>7, <3>1, <3>2, SaidWaits
  <2> QED
    BY <1>2, <1>3, <1>7, <2>1, <2>2 DEF Distinct
<1>8. CASE /\ HandledOne /\ run' = run /\ steering' = steering
           /\ log' = log /\ pendingBash' = pendingBash
  <2>1. events # <<>> /\ events' = Tail(events)
    BY <1>8 DEF HandledOne, EventDone
  <2>2. IsInjective(Unhandled') /\ ToSet(Unhandled') \subseteq ToSet(Unhandled)
    <3> DEFINE m == Current.msg
               rest == MessagesIn(Tail(events))
    <3>1. m \in Spoken /\ rest \in Seq(Spoken)
          /\ Unhandled = IF Current.type = "message" THEN <<m>> \o rest ELSE rest
      BY <1>1, <2>1, UnhandledType
    <3>2. Unhandled' = rest
      BY <2>1 DEF Unhandled
    <3> HIDE DEF m, rest
    <3>3. CASE Current.type # "message"
      BY <3>1, <3>2, <3>3 DEF Distinct
    <3>4. CASE Current.type = "message"
      <4>1. Unhandled # <<>> /\ Tail(Unhandled) = rest
        BY <3>1, <3>4
      <4>2. IsInjective(Tail(Unhandled))
        BY <1>3, <4>1, InjectiveTail DEF Distinct
      <4>3. ToSet(Unhandled) = {Head(Unhandled)} \cup ToSet(Tail(Unhandled))
        BY <1>3, <4>1, HeadAndTail
      <4> QED
        BY <3>2, <4>1, <4>2, <4>3
    <3> QED
      BY <3>3, <3>4
  <2>3. Replying' = Replying
    BY <1>8 DEF Replying
  <2> QED
    BY <1>8, <2>2, <2>3 DEF Distinct
<1>9. CASE /\ log' = log /\ pendingBash' = pendingBash
           /\ events' = events /\ Replying' \subseteq Replying
           /\ \/ steering' \in {steering, <<>>}
              \/ steering' = Append(steering, NextId) /\ NextId \in Fresh
  <2>1. Unhandled' = Unhandled
    BY <1>9 DEF Unhandled
  <2>2. IsInjective(steering') /\ ToSet(steering') \subseteq ToSet(steering) \cup Fresh
    <3>1. CASE steering' = steering
      BY <3>1 DEF Distinct
    <3>2. CASE steering' = <<>>
      BY <3>2 DEF IsInjective, ToSet
    <3>3. CASE steering' = Append(steering, NextId) /\ NextId \in Fresh
      <4>1. steering \in Seq(Ids') /\ NextId \in Ids' /\ NextId \notin ToSet(steering)
        <5>1. steering \in Seq(Ids')
          BY <1>1, <1>2, WiderSequence DEF Lists
        <5> QED
          BY <1>2, <1>3, <3>3, <5>1 DEF Fresh
      <4> QED
        BY <3>3, <4>1, AppendElements, InjectiveAppend DEF Distinct
    <3> QED
      BY <1>9, <3>1, <3>2, <3>3
  <2> QED
    BY <1>2, <1>3, <1>9, <2>1, <2>2 DEF Distinct
<1> QED
  BY Zenon, StepKinds, <1>4, <1>5, <1>6, <1>7, <1>8, <1>9

LEMMA DistinctInit == Init => Distinct
<1> SUFFICES ASSUME Init PROVE Distinct
  OBVIOUS
<1>1. /\ log = <<>> /\ steering = <<>> /\ pendingBash = <<>> /\ run.state = "idle"
      /\ Unhandled = <<>>
  BY MessagesInIs, FilteredEmpty DEF Init, Idle, Unhandled, MessagesIn
<1> QED
  BY <1>1 DEF Distinct, ToSet, IsInjective, Replying

LEMMA SavedStep ==
    ASSUME TypeInv, Distinct, SavedInOrder, [Next]_vars
    PROVE  SavedInOrder'
<1>0. CASE UNCHANGED vars
  BY <1>0 DEF vars, agentVars, queueVars, clientVars, SavedInOrder
<1>1. SUFFICES ASSUME Next, ~scenario.throws
               PROVE  Filtered(log', ToSet(emitted')) \o Unhandled' = emitted'
  <2>1. Next => scenario' = scenario
    BY StepsChange DEF Changes
  <2> QED
    BY <1>0, <2>1 DEF SavedInOrder, Unhandled
<1> DEFINE kept == Filtered(log, ToSet(emitted))
<1>2. kept \o Unhandled = emitted
  BY <1>1 DEF SavedInOrder, Unhandled
<1>3. Infos /\ Lists /\ Runs /\ Queue /\ Later(info')
  BY <1>1, InfoStep DEF TypeInv
<1>4. /\ Ids \subseteq Ids' /\ Spoken \subseteq Ids /\ Spoken \subseteq Spoken' /\ Spoken' \subseteq Ids'
      /\ Bashes \cap Spoken = {} /\ Fresh \cap Ids = {} /\ Bashes \subseteq Ids
  BY <1>3, Grown DEF Spoken, Bashes, Fresh
<1>5. /\ log \in Seq(Ids) /\ log \in Seq(Ids') /\ emitted \in Seq(Spoken) /\ emitted \in Seq(Ids)
      /\ Unhandled \in Seq(Spoken) /\ Unhandled \in Seq(Ids) /\ kept \in Seq(Ids)
  <2>1. log \in Seq(Ids) /\ emitted \in Seq(Spoken) /\ Unhandled \in Seq(Spoken)
    BY <1>3, UnhandledType DEF Lists
  <2>2. kept \in Seq(Ids \cap ToSet(emitted))
    BY <2>1, FilteredElements
  <2>3. log \in Seq(Ids') /\ emitted \in Seq(Ids) /\ Unhandled \in Seq(Ids)
    BY <1>4, <2>1, WiderSequence
  <2> HIDE DEF kept
  <2>4. kept \in Seq(Ids)
    BY <2>2, WiderSequence
  <2> QED
    BY <2>1, <2>3, <2>4
<1>6. ToSet(emitted) \subseteq Spoken /\ ToSet(log) \subseteq Ids /\ ToSet(Unhandled) \subseteq ToSet(emitted)
  <2>1. ToSet(emitted) \subseteq Spoken /\ ToSet(log) \subseteq Ids
    BY <1>5 DEF ToSet
  <2> DEFINE u == Unhandled
  <2>2. u \in Seq(Ids) /\ kept \in Seq(Ids)
    BY <1>5
  <2> HIDE DEF u, kept
  <2>3. ToSet(kept \o u) = ToSet(kept) \cup ToSet(u)
    BY ONLY <2>2, ConcatElements
  <2> QED
    BY <1>2, <2>1, <2>3 DEF u
<1> HIDE DEF kept
\* What is said waits.
<1>7. ASSUME NEW evs, NEW ms, Speaks(evs, ms), log' = log
      PROVE  Filtered(log', ToSet(emitted')) \o Unhandled' = emitted'
  <2>1. /\ ms \in Seq(Spoken') /\ ToSet(ms) \subseteq Replying \cup ToSet(steering) \cup Fresh
    BY <1>7 DEF Speaks
  <2>2. ToSet(log) \cap ToSet(ms) = {}
    BY <1>4, <1>6, <2>1 DEF Distinct
  <2>3. CASE events' = events /\ emitted' = emitted
    BY <1>2, <1>7, <2>3 DEF Unhandled, kept
  <2>4. CASE Unhandled' = Unhandled \o ms /\ emitted' = emitted \o ms
    <3>1. ToSet(emitted \o ms) = ToSet(emitted) \cup ToSet(ms)
      <4>1. emitted \in Seq(Ids') /\ ms \in Seq(Ids')
        BY <1>4, <1>5, <2>1, WiderSequence
      <4> QED
        BY <4>1, ConcatElements
    <3>2. ToSet(log) \cap ToSet(emitted') = ToSet(log) \cap ToSet(emitted)
      BY <2>2, <2>4, <3>1
    <3>3. Filtered(log, ToSet(emitted')) = kept
      BY <1>5, <3>2, FilteredSame DEF kept
    <3>4. (kept \o Unhandled) \o ms = kept \o (Unhandled \o ms)
      <4>1. kept \in Seq(Ids') /\ Unhandled \in Seq(Ids') /\ ms \in Seq(Ids')
        BY <1>4, <1>5, <2>1, WiderSequence
      <4> QED
        BY <4>1, ConcatAssociative
    <3> QED
      BY <1>2, <1>7, <2>4, <3>3, <3>4
  <2> QED
    BY <1>1, <1>7, <2>3, <2>4, SaidWaits
\* What is handled is in the session.
<1>8. CASE PersistMessage
  <2> DEFINE m == Current.msg
             rest == MessagesIn(Tail(events))
  <2>1. /\ log' = Append(log, m) /\ events' = Tail(events) /\ events # <<>>
        /\ Current.type = "message" /\ emitted' = emitted
    BY <1>3, <1>8 DEF PersistMessage, EventDone, Queue
  <2>2. m \in Spoken /\ rest \in Seq(Spoken) /\ Unhandled = <<m>> \o rest /\ Unhandled' = rest
    BY <1>3, <2>1, UnhandledType DEF Unhandled
  <2> HIDE DEF m, rest
  <2>3. m \in ToSet(emitted) /\ m \in Ids
    <3>1. <<m>> \in Seq(Spoken) /\ ToSet(<<m>>) = {m}
      BY <2>2, OneOrTwo
    <3> DEFINE o == <<m>>
    <3> HIDE DEF o
    <3>2. o \in Seq(Spoken) /\ rest \in Seq(Spoken)
      BY <2>2, <3>1 DEF o
    <3>3. ToSet(o \o rest) = ToSet(o) \cup ToSet(rest)
      BY ONLY <3>2, ConcatElements
    <3> QED
      BY <1>4, <1>6, <2>2, <3>1, <3>3 DEF o
  <2>4. Filtered(Append(log, m), ToSet(emitted)) = Append(kept, m)
    BY <1>5, <2>3, FilteredAppend DEF kept
  <2>5. Append(kept, m) \o rest = kept \o (<<m>> \o rest)
    <3>1. kept \in Seq(Ids) /\ rest \in Seq(Ids) /\ <<m>> \in Seq(Ids)
      BY <1>4, <1>5, <2>2, <2>3, WiderSequence
    <3>2. Append(kept, m) = kept \o <<m>>
      BY <2>3, <3>1
    <3> QED
      BY <3>1, <3>2, ConcatAssociative
  <2> QED
    BY <1>2, <2>1, <2>2, <2>4, <2>5
\* Other messages are not the agent's.
<1>9. ASSUME NEW x, Grows(x)
      PROVE  Filtered(log', ToSet(emitted')) \o Unhandled' = emitted'
  <2>1. /\ log' = log \o x /\ x \in Seq(Ids') /\ ToSet(x) \subseteq ToSet(pendingBash) \cup Fresh
        /\ Unhandled' = Unhandled /\ emitted' = emitted
    BY <1>9 DEF Grows, Unhandled
  <2>2. ToSet(x) \cap ToSet(emitted) = {}
    <3>1. ToSet(pendingBash) \subseteq Bashes
      BY <1>3 DEF Lists, ToSet
    <3> QED
      BY <1>4, <1>6, <2>1, <3>1
  <2>3. Filtered(x, ToSet(emitted)) = <<>>
    <3>1. Filtered(x, ToSet(emitted)) \in Seq(Ids' \cap ToSet(emitted))
          /\ ToSet(Filtered(x, ToSet(emitted))) = {}
      BY <2>1, <2>2, FilteredElements
    <3> DEFINE y == Filtered(x, ToSet(emitted))
               T == Ids' \cap ToSet(emitted)
    <3>2. y \in Seq(T) /\ ToSet(y) = {}
      BY <3>1
    <3> HIDE DEF y, T
    <3>3. y # <<>> => ToSet(y) = {Head(y)} \cup ToSet(Tail(y))
      BY ONLY <3>2, HeadAndTail
    <3> QED
      BY <3>2, <3>3 DEF y
  <2>4. Filtered(log \o x, ToSet(emitted)) = kept \o Filtered(x, ToSet(emitted))
    <3>1. log \in Seq(Ids') /\ x \in Seq(Ids')
      BY <1>5, <2>1
    <3> QED
      BY ONLY <3>1, FilteredConcat DEF kept
  <2>5. kept \o <<>> = kept
    BY <1>5, ConcatEmptySeq
  <2> QED
    BY <1>2, <2>1, <2>3, <2>4, <2>5
<1>10. CASE HandledOne /\ Current.type = "agent_end" /\ log' = log /\ emitted' = emitted
  <2>1. events # <<>> /\ events' = Tail(events)
    BY <1>10 DEF HandledOne, EventDone
  <2>2. Unhandled = MessagesIn(Tail(events))
    BY <1>3, <1>10, <2>1, UnhandledType
  <2>3. Unhandled' = Unhandled
    BY <2>1, <2>2 DEF Unhandled
  <2> QED
    BY <1>2, <1>10, <2>3 DEF kept
<1>11. CASE log' = log /\ events' = events /\ emitted' = emitted
  BY <1>2, <1>11 DEF kept, Unhandled
<1> QED
  BY Zenon, <1>1, StepKinds, <1>7, <1>8, <1>9, <1>10, <1>11

\* The session holds the messages of the runs in the order in which the agent
\* emitted them, and the rest of them waits in the queue, however slow the
\* handlers are, whatever the clients call meanwhile, and with any number of
\* prompts, retries and compactions (_handleAgentEvent, _processAgentEvent).
THEOREM SavedInOrderAlways == Spec => []SavedInOrder
<1>1. Init => SavedInOrder
  <2> SUFFICES ASSUME Init PROVE SavedInOrder
    OBVIOUS
  <2>1. log = <<>> /\ emitted = <<>> /\ events = <<>> /\ MessagesIn(<<>>) = <<>>
    BY MessagesInIs, FilteredEmpty DEF Init, MessagesIn
  <2>2. Filtered(log, ToSet(emitted)) = <<>> /\ <<>> \o <<>> = <<>>
    BY <2>1, FilteredEmpty
  <2> QED
    BY <2>1, <2>2 DEF SavedInOrder
<1>2. TypeInv /\ Distinct /\ SavedInOrder /\ [Next]_vars => (TypeInv /\ Distinct /\ SavedInOrder)'
  BY TypeStep, DistinctStep, SavedStep
<1> QED
  BY <1>1, <1>2, TypeInit, DistinctInit, PTL DEF Spec

(***************************************************************************)
(* What a compaction without replacement messages leaves in the context.   *)
(***************************************************************************)
LEMMA ContextKeeps ==
    ASSUME NEW N \in Nat, NEW before \in Seq(1 .. N), IsInjective(before), NEW inf,
           inf[N + 1].role = "summary", ~inf[N + 1].replaces,
           inf[N + 1].first \in ToSet(before),
           NEW i \in DOMAIN before, NEW j \in DOMAIN before,
           before[i] = inf[N + 1].first, i <= j, inf[before[j]].role # "summary"
    PROVE  before[j] \in ToSet(Context(Append(before, N + 1), inf))
<1> DEFINE entries == Append(before, N + 1)
           L == Len(before)
           sums == SummariesOf(entries, inf)
           c == Max(sums)
           first == CHOOSE x \in DOMAIN entries : entries[x] = inf[entries[c]].first
           kept == {m \in ToSet(entries) : inf[m].role # "summary"}
           part == SubSeq(entries, first, c - 1)
           after == SubSeq(entries, c + 1, Len(entries))
           P == 1 .. N + 1
<1>1. /\ entries \in Seq(P) /\ Len(entries) = L + 1 /\ entries[L + 1] = N + 1
      /\ \A x \in 1 .. L : entries[x] = before[x]
      /\ L \in Nat /\ DOMAIN entries = 1 .. L + 1 /\ DOMAIN before = 1 .. L
  <2>1. before \in Seq(P) /\ N + 1 \in P
    OBVIOUS
  <2> HIDE DEF P
  <2>2. /\ entries \in Seq(P) /\ Len(entries) = L + 1 /\ entries[L + 1] = N + 1
        /\ \A x \in 1 .. L : entries[x] = before[x]
    BY ONLY <2>1, AppendElements
  <2>3. L \in Nat /\ DOMAIN before = 1 .. L
    BY <2>1
  <2> HIDE DEF entries
  <2>4. DOMAIN entries = 1 .. L + 1
    BY <2>2
  <2> QED
    BY <2>2, <2>3, <2>4
<1> HIDE DEF entries, L, P
<1>2. /\ L + 1 \in sums /\ sums \in SUBSET (1 .. L + 1)
  BY <1>1 DEF SummariesOf
<1> HIDE DEF sums
<1>3. c = L + 1
  <2> DEFINE n == L + 1
  <2>1. n \in Nat /\ sums \in SUBSET (1 .. n) /\ sums # {}
    BY <1>1, <1>2
  <2> HIDE DEF n
  <2>2. Max(sums) \in sums /\ \A y \in sums : Max(sums) >= y
    BY ONLY <2>1, GreatestOne
  <2>3. c \in 1 .. L + 1 /\ c >= L + 1
    BY <1>2, <2>2
  <2> HIDE DEF c
  <2> QED
    BY <1>1, <2>3
<1> HIDE DEF c
<1>4. \A x \in 1 .. L : before[x] \in 1 .. N
  BY <1>1
<1>5. first = i
  <2>1. entries[c] = N + 1
    BY <1>1, <1>3
  <2>2. i \in DOMAIN entries /\ entries[i] = inf[entries[c]].first
    BY <1>1, <2>1
  <2>3. first \in DOMAIN entries /\ entries[first] = inf[entries[c]].first
    BY <2>2
  <2> HIDE DEF first
  <2>4. first # L + 1
    BY <1>1, <1>4, <2>1, <2>3
  <2>5. first \in 1 .. L /\ before[first] = before[i]
    BY <1>1, <2>1, <2>3, <2>4
  <2> QED
    BY <1>1, <2>5 DEF IsInjective
<1> HIDE DEF first
<1>6. part \in Seq(P) /\ after \in Seq(P) /\ before[j] \in ToSet(part)
  <2>1. /\ first \in Nat \ {0} /\ c - 1 \in Nat /\ c + 1 \in Nat \ {0} /\ Len(entries) \in Nat
        /\ c - 1 <= Len(entries) /\ Len(entries) <= Len(entries)
    BY <1>1, <1>3, <1>5
  <2> DEFINE a == first
             b == c - 1
             d == c + 1
             e == Len(entries)
  <2>2. /\ a \in Nat \ {0} /\ b \in Nat /\ d \in Nat \ {0} /\ e \in Nat
        /\ b <= Len(entries) /\ e <= Len(entries)
    BY <2>1
  <2> HIDE DEF a, b, d, e
  <2>0. entries \in Seq(P)
    BY <1>1
  <2>3. SubSeq(entries, a, b) \in Seq(P) /\ ToSet(SubSeq(entries, a, b)) = {entries[x] : x \in a .. b}
    BY ONLY <2>0, <2>2, PartElements
  <2>4. SubSeq(entries, d, e) \in Seq(P)
    BY ONLY <2>0, <2>2, PartElements
  <2>5. j \in a .. b /\ entries[j] = before[j]
    BY <1>1, <1>3, <1>5 DEF a, b
  <2>6. before[j] \in ToSet(SubSeq(entries, a, b))
    BY <2>3, <2>5
  <2> QED
    BY <2>3, <2>4, <2>6 DEF a, b, d, e
<1>7. before[j] \in kept
  <2>1. entries[j] = before[j] /\ j \in DOMAIN entries
    BY <1>1
  <2> QED
    BY <2>1 DEF ToSet
<1>8. Context(entries, inf) = <<entries[c]>> \o Filtered(part, kept) \o after
  <2>1. inf[entries[c]].role = "summary" /\ ~inf[entries[c]].replaces
    BY <1>1, <1>3
  <2> QED
    BY <1>2, <2>1 DEF Context, SummariesOf, sums, c, first
<1> HIDE DEF part, after, kept
<1> DEFINE o == <<entries[c]>>
           f == Filtered(part, kept)
<1>9. o \in Seq(P) /\ f \in Seq(P) /\ before[j] \in ToSet(f)
  <2>1. o \in Seq(P)
    BY <1>1, <1>3, FewElements
  <2>2. f \in Seq(P \cap kept) /\ ToSet(f) = ToSet(part) \cap kept
    BY <1>6, FilteredElements
  <2> HIDE DEF f
  <2>3. f \in Seq(P)
    BY <2>2, WiderSequence
  <2> QED
    BY <1>6, <1>7, <2>1, <2>2, <2>3
<1> HIDE DEF o, f
<1>10. o \o f \in Seq(P) /\ ToSet(o \o f) = ToSet(o) \cup ToSet(f)
  BY ONLY <1>9, ConcatElements
<1> DEFINE g == o \o f
<1> HIDE DEF g
<1>11. g \in Seq(P) /\ ToSet(g) = ToSet(o) \cup ToSet(f)
  BY <1>10 DEF g
<1>12. ToSet(g \o after) = ToSet(g) \cup ToSet(after)
  BY ONLY <1>6, <1>11, ConcatElements
<1> QED
  BY <1>8, <1>9, <1>11, <1>12 DEF o, f, g, entries

\* A compaction is saved by its own step only.
LEMMA SavedByItself ==
    ASSUME TypeInv, Next, NEW k \in Compactors,
           compaction[k].phase = "summary", compaction'[k].phase = "saved"
    PROVE  \E replaces \in BOOLEAN : SaveCompaction(k, replaces)
<1>1. Changes /\ compaction \in [Compactors -> CompactionType]
  BY StepsChange DEF TypeInv, Compactions
<1>2. CASE Decides \/ Prompts
  <2>1. compaction' = compaction
        \/ \E x \in Compactors : \E reason : compaction' =
              [compaction EXCEPT ![x] = [NoCompaction EXCEPT !.phase = "key", !.reason = reason]]
    <3>1. CASE Decides
      BY <3>1 DEF Decides, Decide, BeginCompaction, compactVars, Compactors
    <3>2. CASE Prompts
      <4>1. scenario.callers \subseteq Compactors
        BY ScenariosAssumption DEF TypeInv, Infos, Compactors
      <4> QED
        BY <3>2, <4>1 DEF Prompts, Prompt, BeginCompaction, compactVars
    <3> QED
      BY <1>2, <3>1, <3>2
  <2> QED
    BY <1>1, <2>1 DEF NoCompaction, CompactionType
<1>3. CASE Compact \/ CompactIdle
  <2>1. \E phase \in {"idle", "key"} :
            compaction' = [compaction EXCEPT !["manual"].phase = phase]
    BY <1>3 DEF Compact, CompactIdle
  <2> QED
    BY <1>1, <2>1 DEF CompactionType
<1>4. CASE Prepares
  <2>1. PICK x \in Compactors : Prepare(x)
    BY <1>4 DEF Prepares
  <2>2. PICK first : compaction' = [compaction EXCEPT
               ![x].phase = "summary", ![x].first = first,
               ![x].recent = RecentUsers(first, compaction[x].reason)]
    BY <2>1 DEF Prepare
  <2> QED
    BY <1>1, <2>2 DEF CompactionType
<1>5. CASE Ends \/ Fails
  <2>1. \E x \in Compactors : compaction' = [compaction EXCEPT ![x] = NoCompaction]
    BY <1>5 DEF Ends, Fails, EndCompaction, CompactionFails, LeaveCompaction
  <2> QED
    BY <1>1, <2>1 DEF NoCompaction, CompactionType
<1>6. CASE Saves
  <2>1. PICK x \in Compactors, replaces \in BOOLEAN : SaveCompaction(x, replaces)
    BY <1>6 DEF Saves
  <2>2. compaction' = [compaction EXCEPT ![x].phase = "saved"]
    BY <2>1 DEF SaveCompaction
  <2>3. x = k
    BY <1>1, <2>2 DEF CompactionType
  <2> QED
    BY <2>1, <2>3
<1> QED
  BY Zenon, <1>1, <1>2, <1>3, <1>4, <1>5, <1>6 DEF Changes

\* A compaction without replacement messages drops nothing from the context
\* from the first entry it keeps on: neither what was there when it was
\* prepared nor what a run or a bash command added to the session while the
\* summary was written (_runAutoCompaction, compact, buildSessionContext).
THEOREM CompactionKeepsRestAlways == Spec => CompactionKeepsRest
<1>1. ASSUME TypeInv, Distinct, Next, NEW k \in Compactors,
             compaction[k].phase = "summary", compaction'[k].phase = "saved",
             ~Last(info').replaces,
             NEW i \in DOMAIN log, NEW j \in DOMAIN log,
             log[i] = compaction[k].first, i <= j, Role(log[j]) # "summary"
      PROVE  log[j] \in ToSet(messages')
  <2>1. PICK replaces \in BOOLEAN : SaveCompaction(k, replaces)
    BY <1>1, SavedByItself
  <2> DEFINE N == Len(info)
             summary == [New("summary") EXCEPT !.first = compaction[k].first,
                             !.recent = compaction[k].recent, !.replaces = replaces]
  <2>2. /\ info' = Append(info, summary) /\ messages' = Context(Append(log, N + 1), info')
        /\ summary.role = "summary" /\ summary.first = compaction[k].first
    BY <2>1 DEF SaveCompaction, SavedContext, NextId, New
  <2>3. info \in Seq(MessageType) /\ N \in Nat /\ log \in Seq(1 .. N) /\ IsInjective(log)
    BY <1>1 DEF TypeInv, Infos, Lists, Distinct, Ids
  <2>4. compaction[k].first \in ToSet(log)
    BY <1>1 DEF TypeInv, Compactions
  <2> HIDE DEF summary, N
  <2>5. info'[N + 1] = summary /\ Last(info') = summary /\ \A m \in 1 .. N : info'[m] = info[m]
    BY <2>2, <2>3 DEF Last, N
  <2>6. log[j] \in 1 .. N
    BY <2>3
  <2>7. info'[log[j]].role # "summary"
    BY <1>1, <2>5, <2>6 DEF Role
  <2> DEFINE inf == info'
  <2>8. /\ inf[N + 1].role = "summary" /\ ~inf[N + 1].replaces
        /\ inf[N + 1].first \in ToSet(log) /\ log[i] = inf[N + 1].first
        /\ inf[log[j]].role # "summary"
    BY <1>1, <2>2, <2>4, <2>5, <2>7
  <2> HIDE DEF inf
  <2>9. log[j] \in ToSet(Context(Append(log, N + 1), inf))
    BY <1>1, <2>3, <2>8, ContextKeeps
  <2> QED
    BY <2>2, <2>9 DEF inf
<1>2. TypeInv /\ Distinct /\ [Next]_vars =>
        [\A k \in Compactors :
          compaction[k].phase = "summary" /\ compaction'[k].phase = "saved"
          /\ ~Last(info').replaces =>
              \A i, j \in DOMAIN log :
                  log[i] = compaction[k].first /\ i <= j /\ Role(log[j]) # "summary" =>
                      log[j] \in ToSet(messages')]_vars
  BY Zenon, <1>1
<1>3. TypeInv /\ Distinct /\ [Next]_vars => (TypeInv /\ Distinct)'
  BY TypeStep, DistinctStep
<1> QED
  BY <1>2, <1>3, TypeInit, DistinctInit, PTL DEF Spec, CompactionKeepsRest

(***************************************************************************)
(* Proof that a patient client never sees more retries in a row than the   *)
(* settings allow.  The counter _retryAttempt is reset by any good reply,  *)
(* so what has to be shown is that no good reply is handled while a retry  *)
(* is scheduled: of a run, the event that ends it, a timer and a prompt    *)
(* that is being prepared there is one at most at any time.                *)
(* From this, in the second half: once the session has settled, the        *)
(* agent's messages and the session's context agree.                       *)
(***************************************************************************)

HasEnd == \E i \in DOMAIN events : events[i].type = "agent_end"
NoTimers == timers["retry"] = 0 /\ timers["resume"] = 0
Preparing == {c \in Callers : pc[c] \in {"prepared", "compacting"}}

\* Where a call of prompt stands agrees with its run and its compaction.
Calls ==
    /\ \A c \in Callers : compaction[c].phase # "none" => pc[c] = "compacting"
    /\ run.state # "idle" /\ run.owner \in Callers => pc[run.owner] = "running"
    /\ \A c \in Callers \ scenario.callers : pc[c] = "idle"

\* What cannot be there because the scenario has no use for it.
Limits ==
    /\ "steer" \notin scenario.operations => steering = <<>>
    /\ scenario.outcomes \cap {"overflow", "silent"} = {} =>
           \A k \in Compactors : compaction[k].reason # "overflow"
    /\ scenario.outcomes \cap {"large", "overflow", "silent"} = {} =>
           \A c \in Callers : compaction[c].phase = "none"

\* Before the first prompt nothing runs, and there is no reply.
Unused ==
    (\A c \in Callers : pc[c] = "idle") =>
        /\ run.state = "idle" /\ events = <<>> /\ handler = "free" /\ NoTimers
        /\ \A m \in Ids : ~IsAssistant(m)
        /\ \A c \in Callers \cup {"queue"} : compaction[c].phase = "none"

\* The first prompt finds no reply that would call for a compaction.
FirstPrompt ==
    (\A c, d \in scenario.callers : c = d) => \A c \in Callers : compaction[c].phase = "none"

\* How a call of prompt goes on.
LEMMA PcStep ==
    ASSUME TypeInv, Calls, Next, NEW c \in Callers, pc'[c] # pc[c]
    PROVE  \/ /\ pc[c] = "running" /\ pc'[c] \in {"waiting", "done"}
              /\ run' = Idle /\ run.state # "idle" /\ run.owner = c
           \/ pc[c] \in {"waiting", "idling"} /\ pc'[c] \in {"idling", "done"}
           \/ c \in scenario.callers /\ Prompt(c)
           \/ c \in scenario.callers /\ pc[c] = "idle" /\ pc'[c] = "rejected"
           \/ Submit(c)
           \/ pc[c] = "compacting" /\ pc'[c] = "prepared" /\ compaction'[c].phase = "none"
<1>1. Changes /\ pc \in [Callers -> Steps] /\ compaction \in [Compactors -> CompactionType]
      /\ NoCompaction.phase = "none" /\ scenario.callers \subseteq Callers /\ c \in Compactors
  BY StepsChange, ScenariosAssumption DEF TypeInv, Infos, Others, Compactions, NoCompaction, Compactors
<1>2. ASSUME NEW retrying, pc' = Finished(run.owner, retrying), run' = Idle, run.state # "idle"
      PROVE  \/ /\ pc[c] = "running" /\ pc'[c] \in {"waiting", "done"}
                /\ run' = Idle /\ run.state # "idle" /\ run.owner = c
             \/ pc[c] \in {"waiting", "idling"} /\ pc'[c] \in {"idling", "done"}
  BY <1>2 DEF Finished, Calls
<1>3. CASE Replies
  <2>1. PICK outcome \in scenario.outcomes \cup {"aborted"} : Reply(outcome)
    BY <1>3 DEF Replies
  <2>2. run.state = "turn"
    BY <2>1 DEF Reply
  <2>3. pc' = pc \/ (run' = Idle /\ pc' = Finished(run.owner, retryPromise'))
    BY Zenon, <2>1 DEF Reply
  <2> QED
    BY <1>2, <2>2, <2>3
<1>4. CASE FinishRun
  BY <1>2, <1>4 DEF FinishRun
<1>5. CASE Decides \/ Abort \/ Compact
  <2>1. pc' = Released
    BY <1>5 DEF Decides, Decide, Abort, Compact, AbortAll, ResolveRetry
  <2> QED
    BY <2>1 DEF Released
<1>6. CASE Prompts
  BY <1>1, <1>6 DEF Prompts, Prompt
<1>7. CASE Refuses
  BY <1>1, <1>7 DEF Refuses, PromptRefused
<1>8. CASE Submits
  <2>1. PICK d \in Callers : Submit(d)
    BY <1>8 DEF Submits
  <2>2. \E s : pc' = [pc EXCEPT ![d] = s]
    BY <2>1 DEF Submit
  <2> QED
    BY <1>1, <2>1, <2>2
<1>9. CASE Ends \/ Fails
  <2>1. PICK k \in Compactors : EndCompaction(k) \/ CompactionFails(k)
    BY <1>9 DEF Ends, Fails
  <2>2. LeaveCompaction(k) /\ compaction[k].phase # "none"
    BY <2>1 DEF EndCompaction, CompactionFails
  <2>3. /\ compaction' = [compaction EXCEPT ![k] = NoCompaction]
        /\ pc' = IF k \in Callers THEN [pc EXCEPT ![k] = "prepared"] ELSE pc
    BY <2>2 DEF LeaveCompaction
  <2> QED
    BY <1>1, <2>2, <2>3 DEF Calls
<1> QED
  BY Zenon, <1>1, <1>3, <1>4, <1>5, <1>6, <1>7, <1>8, <1>9 DEF Changes

\* The compaction before a prompt is begun by the prompt.
LEMMA CompactionOfCaller ==
    ASSUME TypeInv, Next, NEW c \in Callers, compaction'[c].phase # "none",
           compaction[c].phase = "none"
    PROVE  c \in scenario.callers /\ Prompt(c) /\ pc'[c] = "compacting"
<1>1. Changes /\ compaction \in [Compactors -> CompactionType] /\ pc \in [Callers -> Steps]
      /\ scenario.callers \subseteq Callers /\ c \in Compactors /\ c # "queue" /\ c # "manual"
  BY StepsChange, CompactionTypes, CallersAssumption, ScenariosAssumption
     DEF TypeInv, Infos, Others, Compactions
<1>2. CASE Decides
  <2>1. compaction' = compaction \/ \E x : compaction' = [compaction EXCEPT !["queue"] = x]
    BY <1>2 DEF Decides, Decide, BeginCompaction, compactVars
  <2> QED
    BY <1>1, <2>1
<1>3. CASE Prompts
  <2>1. PICK d \in scenario.callers : Prompt(d)
    BY <1>3 DEF Prompts
  <2>2. \/ compaction' = compaction
        \/ /\ pc' = [pc EXCEPT ![d] = "compacting"]
           /\ \E x : compaction' = [compaction EXCEPT ![d] = x]
    BY <2>1 DEF Prompt, BeginCompaction, compactVars
  <2> QED
    BY <1>1, <2>1, <2>2
<1>4. CASE Compact \/ CompactIdle
  <2>1. \E phase : compaction' = [compaction EXCEPT !["manual"].phase = phase]
    BY <1>4 DEF Compact, CompactIdle
  <2> QED
    BY <1>1, <2>1
<1>5. CASE Prepares
  <2>1. PICK k \in Compactors : Prepare(k)
    BY <1>5 DEF Prepares
  <2>2. compaction[k].phase = "key" /\ \E x : compaction' = [compaction EXCEPT ![k] = x]
    BY <2>1 DEF Prepare
  <2> QED
    BY <1>1, <2>2
<1>6. CASE Saves
  <2>1. PICK k \in Compactors, replaces \in BOOLEAN : SaveCompaction(k, replaces)
    BY <1>6 DEF Saves
  <2>2. compaction[k].phase = "summary" /\ compaction' = [compaction EXCEPT ![k].phase = "saved"]
    BY <2>1 DEF SaveCompaction
  <2> QED
    BY <1>1, <2>2
<1>7. CASE Ends \/ Fails
  <2>1. \E k \in Compactors : compaction' = [compaction EXCEPT ![k] = NoCompaction]
    BY <1>7 DEF Ends, Fails, EndCompaction, CompactionFails, LeaveCompaction
  <2> QED
    BY <1>1, <2>1 DEF NoCompaction
<1> QED
  BY Zenon, <1>1, <1>2, <1>3, <1>4, <1>5, <1>6, <1>7 DEF Changes

LEMMA CallsStep ==
    ASSUME TypeInv, Calls, Next
    PROVE  Calls'
<1>1. Changes /\ Runs /\ pc \in [Callers -> Steps] /\ NoOne \notin Callers
      /\ scenario.callers \subseteq Callers /\ pc' \in [Callers -> Steps]
  BY StepsChange, OthersStep, CallersAssumption, ScenariosAssumption DEF TypeInv, Infos, Others
<1>2. ASSUME NEW c \in Callers, compaction'[c].phase # "none"
      PROVE  pc'[c] = "compacting"
  <2>1. CASE compaction[c].phase = "none"
    BY <1>2, <2>1, CompactionOfCaller
  <2>2. CASE compaction[c].phase # "none"
    <3>1. pc[c] = "compacting"
      BY <2>2 DEF Calls
    <3>2. ~Prompt(c) /\ ~Submit(c)
      BY <3>1 DEF Prompt, Submit
    <3> QED
      BY <1>2, <3>1, <3>2, PcStep
  <2> QED
    BY <2>1, <2>2
<1>3. ASSUME run'.state # "idle", run'.owner \in Callers
      PROVE  pc'[run'.owner] = "running"
  <2>1. CASE run.state # "idle" /\ run'.owner = run.owner /\ run' # Idle
    <3>1. pc[run.owner] = "running"
      BY <1>3, <2>1 DEF Calls
    <3>2. ~Prompt(run.owner) /\ ~Submit(run.owner)
      BY <3>1 DEF Prompt, Submit
    <3> QED
      BY <1>3, <2>1, <3>1, <3>2, PcStep
  <2>2. CASE Replies
    <3>1. PICK outcome \in scenario.outcomes \cup {"aborted"} : Reply(outcome)
      BY <2>2 DEF Replies
    <3>2. /\ run.state = "turn"
          /\ run' \in {Idle, [run EXCEPT !.state = "over"], [run EXCEPT !.reply = NextId]}
      BY <3>1 DEF Reply
    <3>3. run'.owner = run.owner /\ run' # Idle
      BY <1>1, <1>3, <3>2 DEF Idle, Runs, RunType
    <3> QED
      BY <2>1, <3>2, <3>3
  <2>3. CASE FinishRun
    BY <1>3, <2>3 DEF FinishRun, Idle
  <2>4. CASE Continues
    <3>1. run' = run \/ StartRun(info, <<>>, NoOne)
      BY <2>4 DEF Continues, Continue, agentVars
    <3>2. CASE StartRun(info, <<>>, NoOne)
      BY <1>1, <1>3, <3>2 DEF StartRun, BeginTurn
    <3>3. CASE run' = run
      BY <1>3, <2>1, <3>3 DEF Idle
    <3> QED
      BY <3>1, <3>2, <3>3
  <2>5. CASE Submits
    <3>1. PICK c \in Callers : Submit(c)
      BY <2>5 DEF Submits
    <3>2. CASE run.state = "idle"
      BY <1>1, <3>1, <3>2 DEF Submit, StartRun, BeginTurn
    <3>3. CASE run.state # "idle"
      <4>1. run' = run
        BY <3>1, <3>3 DEF Submit, agentVars
      <4> QED
        BY <1>3, <2>1, <4>1 DEF Idle
    <3> QED
      BY <3>2, <3>3
  <2>6. CASE Abort \/ Compact \/ run' = run
    <3>1. run' = run \/ run' = [run EXCEPT !.aborted = TRUE]
      BY <2>6 DEF Abort, Compact, AbortAll
    <3>2. run'.owner = run.owner /\ run'.state = run.state /\ run' # Idle
      BY <1>1, <1>3, <3>1 DEF Runs, RunType, Idle
    <3> QED
      BY <1>3, <2>1, <3>2
  <2> QED
    BY Zenon, <1>1, <2>2, <2>3, <2>4, <2>5, <2>6 DEF Changes
<1>4. ASSUME NEW c \in Callers \ scenario.callers PROVE pc'[c] = "idle"
  <2>1. pc[c] = "idle" /\ ~Submit(c)
    BY DEF Calls, Submit
  <2> QED
    BY <1>4, <2>1, PcStep
<1> QED
  BY <1>1, <1>2, <1>3, <1>4 DEF Calls, Changes

(***************************************************************************)
(* Which replies call for a compaction.                                    *)
(***************************************************************************)
LEMMA CheckNeeds ==
    ASSUME TypeInv, NEW m \in Ids
    PROVE  /\ CheckCompaction(m) \in {"none", "overflow", "threshold"}
           /\ CheckCompaction(m) = "overflow" => scenario.outcomes \cap {"overflow", "silent"} # {}
           /\ CheckCompaction(m) # "none" => scenario.outcomes \cap {"large", "overflow", "silent"} # {}
<1>1. \A x \in Ids : info[x].outcome \in scenario.outcomes \cup {"none", "aborted"}
  BY DEF TypeInv, Infos
<1>2. CheckCompaction(m) = "overflow" => info[m].outcome \in {"overflow", "silent"}
  BY DEF CheckCompaction, Overflows
<1>3. CheckCompaction(m) = "threshold" => Large(m)
  BY Zenon DEF CheckCompaction
<1>4. Large(m) => \E x \in Ids : info[x].outcome \in {"large", "silent"}
  <2> DEFINE good == {i \in DOMAIN messages : info[messages[i]].outcome \in {"ok", "large", "silent"}}
             n == Len(messages)
  <2>1. messages \in Seq(Ids) /\ DOMAIN messages = 1 .. n /\ n \in Nat
    BY DEF TypeInv, Lists
  <2>2. good \in SUBSET (1 .. n)
    BY <2>1
  <2>3. good # {} => Max(good) \in good
    <3> HIDE DEF good, n
    <3> QED
      BY <2>1, <2>2, GreatestOne
  <2>4. LastGood(messages) = IF good = {} THEN 0 ELSE messages[Max(good)]
    BY DEF LastGood
  <2>5. LastGood(messages) # 0 => LastGood(messages) \in Ids
    BY <2>1, <2>3, <2>4
  <2> HIDE DEF good
  <2>6. Large(m) => info[m].outcome \in {"large", "silent"}
           \/ (LastGood(messages) # 0 /\ info[LastGood(messages)].outcome \in {"large", "silent"})
    BY Zenon DEF Large
  <2> QED
    BY <2>5, <2>6
<1>5. CheckCompaction(m) \in {"none", "overflow", "threshold"}
  BY DEF CheckCompaction
<1> QED
  BY <1>1, <1>2, <1>3, <1>4, <1>5

\* The reply that calls for a compaction.
LEMMA ReplyChecked ==
    ASSUME TypeInv, NEW c, Prompt(c), compaction' # compaction
    PROVE  \E m \in Ids :
              /\ IsAssistant(m) /\ CheckCompaction(m) # "none"
              /\ compaction' = [compaction EXCEPT ![c] =
                     [NoCompaction EXCEPT !.phase = "key", !.reason = CheckCompaction(m)]]
<1> DEFINE fs == FlushedMessages
           replies == {i \in DOMAIN fs : IsAssistant(fs[i])}
           n == Len(fs)
           m == fs[Max(replies)]
           reason == IF replies = {} THEN "none" ELSE CheckCompaction(m)
<1>1. fs \in Seq(Ids)
  <2>1. messages \in Seq(Ids) /\ pendingBash \in Seq(Bashes) /\ Bashes \subseteq Ids
    BY DEF TypeInv, Lists, Bashes
  <2>2. pendingBash \in Seq(Ids)
    BY <2>1, WiderSequence
  <2> QED
    BY <2>1, <2>2 DEF FlushedMessages
<1>2. reason # "none"
      /\ compaction' = [compaction EXCEPT ![c] =
             [NoCompaction EXCEPT !.phase = "key", !.reason = reason]]
  <2>1. IF reason = "none" THEN UNCHANGED compactVars ELSE BeginCompaction(c, reason, FlushedMessages)
    BY DEF Prompt
  <2> QED
    BY <2>1 DEF BeginCompaction, compactVars
<1> HIDE DEF fs
<1>3. n \in Nat /\ replies \in SUBSET (1 .. n) /\ replies # {}
  BY <1>1, <1>2
<1>4. Max(replies) \in replies
  <2> HIDE DEF n, replies
  <2> QED
    BY ONLY <1>3, GreatestOne
<1>5. m \in Ids /\ IsAssistant(m) /\ reason = CheckCompaction(m)
  BY <1>1, <1>2, <1>4
<1> QED
  BY Zenon, <1>2, <1>5

\* The retry of a reply waits for its backoff only.
Backoffs == handler = "backoff" => lastAssistant \in Ids

LEMMA BackoffGoesOn ==
    ASSUME Next, handler' = "backoff"
    PROVE  (handler = "backoff" \/ BeginBackoff) /\ lastAssistant' = lastAssistant
<1> USE DEF agentVars, queueVars, retryVars, compactVars, clientVars
<1>3. CASE Replies \/ FinishRun \/ Continues
  BY <1>3 DEF Replies, Reply, CreateRetryPromise, FinishRun, Continues, Continue
<1>4. CASE TakeEvent \/ PersistMessage \/ EventFails \/ NothingToDecide \/ EndBackoff
  BY <1>4 DEF TakeEvent, PersistMessage, EventFails, NothingToDecide, EndBackoff, EventDone
<1>5. CASE BeginBackoff
  BY <1>5 DEF BeginBackoff
<1>6. CASE Decides
  BY <1>6 DEF Decides, Decide, EventDone
<1>7. CASE Prompts \/ Refuses \/ Submits
  BY <1>7 DEF Prompts, Prompt, Refuses, PromptRefused, Submits, Submit
<1>8. CASE Steer \/ ClearQueue \/ RecordBash \/ Abort \/ AbortCompaction \/ Compact
  BY <1>8 DEF Steer, ClearQueue, RecordBash, Abort, AbortCompaction, Compact
<1>9. CASE CompactIdle \/ Prepares \/ Saves
  BY <1>9 DEF CompactIdle, Prepares, Prepare, Saves, SaveCompaction
<1>10. CASE Ends \/ Fails
  BY <1>10 DEF Ends, EndCompaction, Fails, CompactionFails, LeaveCompaction, EventDone
<1> QED
  BY Zenon, Actions, <1>3, <1>4, <1>5, <1>6, <1>7, <1>8, <1>9, <1>10

LEMMA BackoffsStep ==
    ASSUME TypeInv, Backoffs, Next
    PROVE  Backoffs'
<1>1. Infos /\ Queue /\ Ids \subseteq Ids'
  BY InfoStep, Grown DEF TypeInv
<1>2. BeginBackoff => lastAssistant \in Ids
  BY <1>1 DEF BeginBackoff, Deciding, Queue, Ids, Infos
<1> QED
  BY <1>1, <1>2, BackoffGoesOn DEF Backoffs

LEMMA LimitsStep ==
    ASSUME TypeInv, Limits, Backoffs, Next
    PROVE  Limits'
<1>1. Changes /\ Infos /\ Queue /\ compaction \in [Compactors -> CompactionType]
      /\ scenario' = scenario /\ scenario.callers \subseteq Callers
      /\ Callers \subseteq Compactors /\ "queue" \in Compactors /\ "queue" \notin Callers
  BY StepsChange, ScenariosAssumption, CompactionTypes, CallersAssumption
     DEF Changes, TypeInv, Infos, Compactions
<1>2. ASSUME "steer" \notin scenario.operations, steering = <<>>
      PROVE  steering' = <<>>
  <2>1. CASE Replies
    BY <1>2, <2>1 DEF Replies, Reply
  <2>2. CASE Continues
    BY <1>2, <2>2 DEF Continues, Continue, StartRun, agentVars
  <2>3. CASE Submits
    BY <1>2, <2>3 DEF Submits, Submit, StartRun, agentVars
  <2>4. CASE Steer \/ ClearQueue
    BY <1>2, <2>4 DEF Steer, ClearQueue, Use
  <2> QED
    BY <1>1, <1>2, <2>1, <2>2, <2>3, <2>4 DEF Changes
<1>3. ASSUME NEW k \in Compactors, compaction'[k].reason # compaction[k].reason,
             compaction'[k].reason # "none"
      PROVE  \E m \in Ids : compaction'[k].reason = CheckCompaction(m) /\ CheckCompaction(m) # "none"
  <2>1. CASE Decides
    <3> DEFINE r == CheckCompaction(lastAssistant)
    <3>1. compaction' # compaction => /\ r # "none"
             /\ compaction' = [compaction EXCEPT !["queue"] =
                     [NoCompaction EXCEPT !.phase = "key", !.reason = r]]
      <4>1. PICK gaveUp \in BOOLEAN : Decide(gaveUp)
        BY <2>1 DEF Decides
      <4> QED
        BY Zenon, <4>1 DEF Decide, BeginCompaction, compactVars
    <3>2. lastAssistant \in Ids
      <4>1. lastAssistant # 0
        BY <2>1 DEF Decides, Deciding, Backoffs, Ids
      <4> QED
        BY <1>1, <4>1 DEF Queue, Ids, Infos
    <3>3. k = "queue" /\ compaction'[k].reason = r
      BY <1>1, <1>3, <3>1 DEF NoCompaction
    <3> QED
      BY <3>1, <3>2, <3>3, <1>3
  <2>2. CASE Prompts
    <3>1. PICK c \in scenario.callers : Prompt(c)
      BY <2>2 DEF Prompts
    <3>2. PICK m \in Ids : /\ CheckCompaction(m) # "none"
              /\ compaction' = [compaction EXCEPT ![c] =
                     [NoCompaction EXCEPT !.phase = "key", !.reason = CheckCompaction(m)]]
      BY <1>3, <3>1, ReplyChecked
    <3> QED
      BY <1>1, <1>3, <3>2 DEF NoCompaction
  <2>3. CASE Compact \/ CompactIdle \/ Saves
    <3>1. \E x \in Compactors : \E phase : compaction' = [compaction EXCEPT ![x].phase = phase]
      BY <1>1, <2>3 DEF Compact, CompactIdle, Saves, SaveCompaction, Compactors
    <3> QED
      BY <1>1, <1>3, <3>1 DEF CompactionType
  <2>4. CASE Prepares
    <3>1. PICK x \in Compactors : Prepare(x)
      BY <2>4 DEF Prepares
    <3>2. \E first, recent : compaction' = [compaction EXCEPT
               ![x].phase = "summary", ![x].first = first, ![x].recent = recent]
      BY <3>1 DEF Prepare
    <3> QED
      BY <1>1, <1>3, <3>2 DEF CompactionType
  <2>5. CASE Ends \/ Fails
    <3>1. \E x \in Compactors : compaction' = [compaction EXCEPT ![x] = NoCompaction]
      BY <2>5 DEF Ends, Fails, EndCompaction, CompactionFails, LeaveCompaction
    <3> QED
      BY <1>1, <1>3, <3>1 DEF NoCompaction
  <2> QED
    BY <1>1, <1>3, <2>1, <2>2, <2>3, <2>4, <2>5 DEF Changes
<1>4. ASSUME scenario.outcomes \cap {"overflow", "silent"} = {}, NEW k \in Compactors
      PROVE  compaction'[k].reason # "overflow"
  BY <1>3, <1>4, CheckNeeds DEF Limits
<1>5. ASSUME scenario.outcomes \cap {"large", "overflow", "silent"} = {}, NEW c \in Callers
      PROVE  compaction'[c].phase = "none"
  <2>1. compaction[c].phase = "none"
    BY <1>5 DEF Limits
  <2>2. SUFFICES ASSUME compaction'[c].phase # "none" PROVE FALSE
    OBVIOUS
  <2>3. Prompt(c) /\ compaction' # compaction
    BY <2>1, <2>2, CompactionOfCaller
  <2>4. \E m \in Ids : CheckCompaction(m) # "none"
    BY <2>3, ReplyChecked
  <2> QED
    BY <1>5, <2>4, CheckNeeds
<1> QED
  BY <1>1, <1>2, <1>4, <1>5 DEF Limits

LEMMA UnusedStep ==
    ASSUME TypeInv, Calls, Unused, Next
    PROVE  Unused'
<1> SUFFICES ASSUME \A c \in Callers : pc'[c] = "idle"
             PROVE  /\ run'.state = "idle" /\ events' = <<>> /\ handler' = "free" /\ NoTimers'
                    /\ \A m \in Ids' : info'[m].role # "assistant"
                    /\ \A c \in Callers \cup {"queue"} : compaction'[c].phase = "none"
  BY DEF Unused, IsAssistant, Role
<1>1. Changes /\ Infos /\ Queue /\ pc \in [Callers -> Steps] /\ scenario.callers \subseteq Callers
      /\ compaction \in [Compactors -> CompactionType] /\ timers \in [{"retry", "resume"} -> Nat]
      /\ Callers \cup {"queue"} \subseteq Compactors /\ "manual" \notin Callers \cup {"queue"}
      /\ Compactors = {"manual"} \cup (Callers \cup {"queue"})
  BY StepsChange, ScenariosAssumption, CompactionTypes, CallersAssumption
     DEF TypeInv, Infos, Others, Compactions
<1>2. \A c \in Callers : pc[c] = "idle"
  <2> SUFFICES ASSUME NEW c \in Callers, pc[c] # "idle" PROVE FALSE
    OBVIOUS
  <2>1. ~Prompt(c) /\ (Submit(c) => pc'[c] # "idle")
    BY <1>1 DEF Prompt, Submit
  <2> QED
    BY <2>1, PcStep
<1>3. /\ run.state = "idle" /\ events = <<>> /\ handler = "free" /\ NoTimers
      /\ \A m \in Ids : info[m].role # "assistant"
      /\ \A c \in Callers \cup {"queue"} : compaction[c].phase = "none"
  BY <1>2 DEF Unused, IsAssistant, Role
<1>4. ~Replies /\ ~FinishRun /\ ~Steer
  BY <1>3 DEF Replies, Reply, FinishRun, Steer
<1>5. ~Continues
  <2>1. \A reason \in DOMAIN timers : timers[reason] = 0
    BY <1>1, <1>3 DEF NoTimers
  <2> QED
    BY <2>1 DEF Continues, Continue
<1>6. ~TakeEvent /\ ~PersistMessage /\ ~EventFails /\ ~NothingToDecide /\ ~BeginBackoff
      /\ ~EndBackoff /\ ~Decides
  BY <1>3 DEF TakeEvent, PersistMessage, EventFails, NothingToDecide, BeginBackoff, EndBackoff,
     Decides, Deciding
<1>7. ~Prompts /\ ~Refuses /\ ~Submits
  <2>1. ~Prompts
    BY <1>1 DEF Prompts, Prompt
  <2>2. ~Refuses
    BY <1>1 DEF Refuses, PromptRefused
  <2>3. ~Submits
    BY <1>2 DEF Submits, Submit
  <2> QED
    BY <2>1, <2>2, <2>3
<1>8. ASSUME NEW k \in Compactors, EndCompaction(k) \/ CompactionFails(k)
      PROVE  k = "manual"
  BY <1>1, <1>3, <1>8 DEF EndCompaction, CompactionFails
<1>9. Ends \/ Fails => events' = events /\ handler' = handler /\ timers' = timers
  <2> SUFFICES ASSUME Ends \/ Fails
               PROVE  events' = events /\ handler' = handler /\ timers' = timers
    OBVIOUS
  <2>1. PICK k \in Compactors : EndCompaction(k) \/ CompactionFails(k)
    BY DEF Ends, Fails
  <2> QED
    BY <1>8, <2>1 DEF EndCompaction, CompactionFails, LeaveCompaction
<1>10. run'.state = "idle"
  <2>1. run' = run
    BY <1>1, <1>3, <1>4, <1>5, <1>7 DEF Changes, Abort, Compact, AbortAll
  <2> QED
    BY <1>3, <2>1
<1>11. events' = <<>> /\ handler' = "free"
  BY Zenon, <1>1, <1>3, <1>4, <1>5, <1>6, <1>7, <1>9 DEF Changes
<1>12. NoTimers'
  BY <1>1, <1>3, <1>5, <1>6, <1>9 DEF Changes, NoTimers
<1>13. ASSUME NEW e \in MessageType, e.role # "assistant", info' = Append(info, e)
       PROVE  \A m \in Ids' : info'[m].role # "assistant"
  <2>1. /\ Len(info') = Len(info) + 1 /\ Len(info) \in Nat
        /\ \A i \in 1 .. Len(info) : info'[i] = info[i]
        /\ info'[Len(info) + 1] = e
    BY <1>1, <1>13, AppendElements DEF Infos
  <2> QED
    BY <1>3, <1>13, <2>1 DEF Ids
<1>14. \A m \in Ids' : info'[m].role # "assistant"
  <2>1. CASE RecordBash
    <3>1. New("bash") \in MessageType /\ New("bash").role = "bash"
      <4>1. "bash" \in {"user", "assistant", "bash", "summary"}
        OBVIOUS
      <4> QED
        BY <4>1, NewType
    <3>2. info' = Append(info, New("bash"))
      BY <2>1 DEF RecordBash
    <3> DEFINE e == New("bash")
    <3> HIDE DEF e
    <3>3. e \in MessageType /\ e.role # "assistant" /\ info' = Append(info, e)
      BY <3>1, <3>2 DEF e
    <3> QED
      BY <1>13, <3>3
  <2>2. CASE Saves
    <3>1. PICK k \in Compactors, replaces \in BOOLEAN : SaveCompaction(k, replaces)
      BY <2>2 DEF Saves
    <3> DEFINE e == [New("summary") EXCEPT !.first = compaction[k].first,
                        !.recent = compaction[k].recent, !.replaces = replaces]
    <3>2. info' = Append(info, e)
      BY <3>1 DEF SaveCompaction
    <3>3. e \in MessageType /\ e.role # "assistant"
      BY <1>1 DEF New, MessageType, CompactionType
    <3> HIDE DEF e
    <3> QED
      BY <1>13, <3>2, <3>3
  <2>3. CASE info' = info
    BY <1>3, <2>3 DEF Ids
  <2> QED
    BY Zenon, <1>1, <1>4, <1>5, <1>7, <2>1, <2>2, <2>3 DEF Changes
<1>15. ASSUME NEW c \in Callers \cup {"queue"} PROVE compaction'[c].phase = "none"
  <2>1. compaction' = compaction \/ \E x : compaction' = [compaction EXCEPT !["manual"] = x]
    <3>1. CASE Compact \/ CompactIdle
      <4>1. \E phase : compaction' = [compaction EXCEPT !["manual"].phase = phase]
        BY <3>1 DEF Compact, CompactIdle
      <4> QED
        BY <4>1
    <3>2. CASE Prepares
      <4>1. PICK k \in Compactors : Prepare(k)
        BY <3>2 DEF Prepares
      <4>2. compaction[k].phase = "key" /\ \E x : compaction' = [compaction EXCEPT ![k] = x]
        BY <4>1 DEF Prepare
      <4>3. k = "manual"
        BY <1>1, <1>3, <4>2
      <4> QED
        BY <4>2, <4>3
    <3>3. CASE Saves
      <4>1. PICK k \in Compactors, replaces \in BOOLEAN : SaveCompaction(k, replaces)
        BY <3>3 DEF Saves
      <4>2. k = "manual" /\ \E x : compaction' = [compaction EXCEPT ![k] = x]
        BY <1>1, <1>3, <4>1 DEF SaveCompaction
      <4> QED
        BY <4>2
    <3>4. CASE Ends \/ Fails
      <4>1. PICK k \in Compactors : EndCompaction(k) \/ CompactionFails(k)
        BY <3>4 DEF Ends, Fails
      <4> QED
        BY <1>8, <4>1 DEF EndCompaction, CompactionFails, LeaveCompaction
    <3> QED
      BY Zenon, <1>1, <1>6, <1>7, <3>1, <3>2, <3>3, <3>4 DEF Changes
  <2> QED
    BY <1>1, <1>3, <2>1
<1> QED
  BY <1>10, <1>11, <1>12, <1>14, <1>15

LEMMA FirstPromptStep ==
    ASSUME TypeInv, Calls, Unused, FirstPrompt, Next
    PROVE  FirstPrompt'
<1>1. scenario' = scenario /\ scenario.callers \subseteq Callers
  BY StepsChange, ScenariosAssumption DEF Changes, TypeInv, Infos
<1>2. ASSUME \A c, d \in scenario.callers : c = d, NEW c \in Callers,
             compaction'[c].phase # "none"
      PROVE  FALSE
  <2>1. compaction[c].phase = "none"
    BY <1>2 DEF FirstPrompt
  <2>2. c \in scenario.callers /\ Prompt(c) /\ compaction' # compaction
    BY <1>2, <2>1, CompactionOfCaller
  <2>3. \A d \in Callers : pc[d] = "idle"
    BY <1>2, <2>2 DEF Calls, Prompt
  <2>4. \E m \in Ids : IsAssistant(m)
    BY <2>2, ReplyChecked
  <2> QED
    BY <2>3, <2>4 DEF Unused
<1> QED
  BY <1>1, <1>2 DEF FirstPrompt

(***************************************************************************)
(* A run, the event that ends it, a timer or a prompt that is prepared.    *)
(***************************************************************************)
EndIsLast == \A i \in DOMAIN events : events[i].type = "agent_end" => i = Len(events)

Threads ==
    /\ run.state # "over"
    /\ EndIsLast
    /\ timers["retry"] + timers["resume"] <= 1
    /\ \A c, d \in Callers : InPrompt(c) /\ InPrompt(d) => c = d
    /\ run.state # "idle" => ~HasEnd /\ NoTimers /\ Preparing = {}
    /\ HasEnd => NoTimers /\ Preparing = {}
    /\ ~NoTimers => events = <<>> /\ Preparing = {}
    /\ Preparing # {} => events = <<>>

LEMMA EndInSet ==
    ASSUME NEW S, NEW s \in Seq(S)
    PROVE  (\E i \in DOMAIN s : s[i].type = "agent_end") <=> \E e \in ToSet(s) : e.type = "agent_end"
  BY DEF ToSet

\* Messages are emitted, and nothing ends.
LEMMA NoEndAdded ==
    ASSUME NEW S, events \in Seq(EventsOf(S)), ~HasEnd, NEW ms \in Seq(S),
           Emit(MessageEvents(ms), ms)
    PROVE  ~HasEnd' /\ EndIsLast'
<1> DEFINE evs == MessageEvents(ms)
<1>1. evs \in Seq(EventsOf(S)) /\ \A i \in DOMAIN evs : evs[i].type = "message"
  <2>1. evs \in Seq(EventsOf(S))
    BY MessageEventsType
  <2>2. DOMAIN evs = DOMAIN ms /\ \A i \in DOMAIN ms : evs[i] = Event("message", ms[i])
    BY DEF MessageEvents
  <2> HIDE DEF evs
  <2> QED
    BY <2>1, <2>2 DEF Event
<1> HIDE DEF evs
<1>2. ~HasEnd'
  <2>1. CASE ~connected
    <3>1. events' = events
      BY <2>1 DEF Emit
    <3> QED
      BY <3>1 DEF HasEnd
  <2>2. CASE connected
    <3>1. events' = events \o evs
      BY <2>2 DEF Emit, evs
    <3> DEFINE E == EventsOf(S)
    <3> HIDE DEF E
    <3>2. events \in Seq(E) /\ evs \in Seq(E)
      BY <1>1 DEF E
    <3>3. events \o evs \in Seq(E) /\ ToSet(events \o evs) = ToSet(events) \cup ToSet(evs)
      BY ONLY <3>2, ConcatElements
    <3>4. \A e \in ToSet(events) : e.type # "agent_end"
      BY <3>2, EndInSet DEF HasEnd
    <3>5. \A e \in ToSet(evs) : e.type # "agent_end"
      BY <1>1 DEF ToSet
    <3>6. \A e \in ToSet(events') : e.type # "agent_end"
      BY <3>1, <3>3, <3>4, <3>5
    <3>7. events' \in Seq(E)
      BY <3>1, <3>3
    <3> QED
      BY <3>6, <3>7, EndInSet DEF HasEnd
  <2> QED
    BY <2>1, <2>2
<1> QED
  BY <1>2 DEF HasEnd, EndIsLast

\* The run ends: its end comes behind everything else.
LEMMA EndAdded ==
    ASSUME NEW S, events \in Seq(EventsOf(S)), ~HasEnd, NEW m \in S,
           Emit(<<Event("message", m), Event("agent_end", m)>>, <<m>>)
    PROVE  EndIsLast'
<1> DEFINE a == Event("message", m)
           b == Event("agent_end", m)
           E == EventsOf(S)
<1>1. a \in E /\ b \in E /\ a.type = "message" /\ b.type = "agent_end"
  BY DEF Event, EventsOf
<1> DEFINE evs == <<a, b>>
<1>2. CASE ~connected
  <2>1. events' = events
    BY <1>2 DEF Emit
  <2> QED
    BY <2>1 DEF HasEnd, EndIsLast
<1>3. CASE connected
  <2>1. events' = events \o evs
    BY <1>3 DEF Emit
  <2> HIDE DEF a, b, E
  <2>2. evs \in Seq(E) /\ Len(evs) = 2 /\ evs[1] = a /\ evs[2] = b
    BY <1>1
  <2>3. events \in Seq(E) /\ evs \in Seq(E)
    BY <2>2 DEF E
  <2> HIDE DEF evs
  <2>4. /\ events \o evs \in Seq(E) /\ Len(events \o evs) = Len(events) + Len(evs)
        /\ \A i \in 1 .. Len(events) : (events \o evs)[i] = events[i]
        /\ \A i \in 1 .. Len(evs) : (events \o evs)[Len(events) + i] = evs[i]
    BY ONLY <2>3, ConcatElements
  <2> DEFINE n == Len(events)
  <2>5. /\ n \in Nat /\ events' \in Seq(E) /\ Len(events') = n + 2 /\ DOMAIN events' = 1 .. n + 2
        /\ \A i \in 1 .. n : events'[i] = events[i]
        /\ events'[n + 1] = a /\ events'[n + 2] = b
    BY <2>1, <2>2, <2>3, <2>4
  <2>6. \A i \in 1 .. n : events[i].type # "agent_end"
    BY <2>3 DEF HasEnd
  <2> HIDE DEF n
  <2>7. ASSUME NEW i \in DOMAIN events', events'[i].type = "agent_end" PROVE i = Len(events')
    <3>1. i \in 1 .. n \/ i = n + 1 \/ i = n + 2
      BY <2>5
    <3> QED
      BY <1>1, <2>5, <2>6, <2>7, <3>1
  <2> QED
    BY <2>7 DEF EndIsLast
<1> QED
  BY <1>2, <1>3

\* The first event is handled.
LEMMA EndHandled ==
    ASSUME Queue, EndIsLast, events # <<>>, events' = Tail(events)
    PROVE  /\ EndIsLast' /\ (HasEnd' => HasEnd)
           /\ Current.type = "agent_end" => events' = <<>> /\ HasEnd
<1> DEFINE E == EventsOf(Spoken)
<1> HIDE DEF E
<1>1. events \in Seq(E)
  BY DEF Queue, E
<1>2. /\ Head(events) = events[1] /\ Tail(events) \in Seq(E) /\ Len(events) = Len(Tail(events)) + 1
      /\ \A i \in 1 .. Len(Tail(events)) : Tail(events)[i] = events[i + 1]
  BY <1>1, HeadAndTail
<1> DEFINE t == Tail(events)
           n == Len(t)
<1>3. /\ n \in Nat /\ DOMAIN events = 1 .. n + 1 /\ DOMAIN t = 1 .. n /\ Len(events) = n + 1
      /\ \A i \in 1 .. n : t[i] = events[i + 1]
      /\ events' = t /\ Current = events[1] /\ t \in Seq(E)
  BY <1>1, <1>2 DEF Current
<1> HIDE DEF t, n
<1>4. ASSUME NEW i \in 1 .. n, t[i].type = "agent_end" PROVE i = n /\ HasEnd
  <2>1. i + 1 \in DOMAIN events /\ events[i + 1].type = "agent_end"
    BY <1>3, <1>4
  <2> DEFINE j == i + 1
  <2>2. j \in DOMAIN events /\ events[j].type = "agent_end"
    BY <2>1
  <2> HIDE DEF j
  <2>3. j = Len(events) /\ HasEnd
    BY <2>2 DEF EndIsLast, HasEnd
  <2>4. j = n + 1
    BY <1>3, <2>3
  <2> QED
    BY <1>3, <2>3, <2>4 DEF j
<1>5. n = Len(t)
  BY DEF n
<1>6. EndIsLast' /\ (HasEnd' => HasEnd)
  <2>1. \A i \in DOMAIN events' : events'[i].type = "agent_end" => i = Len(events') /\ HasEnd
    BY <1>3, <1>4, <1>5
  <2> QED
    BY <2>1 DEF EndIsLast, HasEnd
<1>7. ASSUME Current.type = "agent_end" PROVE events' = <<>> /\ HasEnd
  <2>1. 1 \in DOMAIN events /\ events[1].type = "agent_end"
    BY <1>3, <1>7
  <2>2. n = 0 /\ HasEnd
    BY <1>3, <2>1 DEF EndIsLast, HasEnd
  <2> QED
    BY <1>3, <1>5, <2>2
<1> QED
  BY <1>6, <1>7

LEMMA NoResume ==
    ASSUME TypeInv, Calls, Limits, FirstPrompt, ResumesAlone,
           NEW k \in Callers, EndCompaction(k)
    PROVE  timers' = timers
<1>1. compaction[k].phase = "saved" /\ k \in Compactors
  BY DEF EndCompaction, Compactors
<1>2. CASE \A c, d \in scenario.callers : c = d
  BY <1>1, <1>2 DEF FirstPrompt
<1>3. CASE "steer" \notin scenario.operations /\ scenario.outcomes \cap {"overflow", "silent"} = {}
  <2>1. steering = <<>> /\ compaction[k].reason # "overflow"
    BY <1>1, <1>3 DEF Limits
  <2> QED
    BY <2>1 DEF EndCompaction
<1>4. CASE scenario.outcomes \cap {"large", "overflow", "silent"} = {}
  BY <1>1, <1>4 DEF Limits
<1> QED
  BY <1>2, <1>3, <1>4 DEF ResumesAlone

\* Patient clients make one call of prompt at a time.
LEMMA OnePromptStep ==
    ASSUME TypeInv, Calls, Threads, ResumesAlone, Next
    PROVE  /\ \A c, d \in Callers : InPrompt(c)' /\ InPrompt(d)' => c = d
           /\ Prompts => Settled /\ run' = run /\ events' = events /\ timers' = timers
           /\ ~Prompts => \A c \in Callers : c \in Preparing' => c \in Preparing
           /\ \A c \in Callers : Submit(c) => Preparing' = {}
<1>1. pc \in [Callers -> Steps] /\ scenario.callers \subseteq Callers /\ scenario.client = "patient"
  BY ScenariosAssumption DEF TypeInv, Infos, Others, ResumesAlone
<1>2. ASSUME NEW c \in Callers, InPrompt(c)', ~InPrompt(c)
      PROVE  c \in scenario.callers /\ Prompt(c)
  <2>1. pc'[c] # pc[c] /\ pc'[c] \notin {"idle", "done", "rejected"} /\ pc[c] \in {"idle", "done", "rejected"}
    BY <1>2 DEF InPrompt
  <2>2. ~Submit(c)
    BY <2>1 DEF Submit
  <2> QED
    BY <2>1, <2>2, PcStep
<1>3. ASSUME NEW c \in scenario.callers, Prompt(c)
      PROVE  /\ Settled /\ run' = run /\ events' = events /\ timers' = timers
             /\ \A d \in Callers \ {c} : pc'[d] = pc[d]
  BY <1>1, <1>3 DEF Prompt, MayCall, queueVars
<1>4. \A c, d \in Callers : InPrompt(c)' /\ InPrompt(d)' => c = d
  <2> SUFFICES ASSUME NEW c \in Callers, NEW d \in Callers, InPrompt(c)', InPrompt(d)', c # d
               PROVE  FALSE
    OBVIOUS
  <2>1. CASE \E x \in scenario.callers : Prompt(x)
    <3>1. PICK x \in scenario.callers : Prompt(x)
      BY <2>1
    <3>2. PICK y \in {c, d} : y # x
      OBVIOUS
    <3>3. ~InPrompt(y) /\ pc'[y] = pc[y]
      BY <1>3, <3>1, <3>2 DEF Settled
    <3>4. InPrompt(y)'
      BY <3>2
    <3> QED
      BY <3>3, <3>4 DEF InPrompt
  <2>2. CASE ~\E x \in scenario.callers : Prompt(x)
    <3>1. InPrompt(c) /\ InPrompt(d)
      BY <1>2, <2>2
    <3> QED
      BY <3>1 DEF Threads
  <2> QED
    BY <2>1, <2>2
<1>5. ASSUME ~Prompts, NEW c \in Callers, c \in Preparing' PROVE c \in Preparing
  <2>1. pc'[c] \in {"prepared", "compacting"}
    BY <1>5 DEF Preparing
  <2>2. CASE pc'[c] = pc[c]
    BY <2>1, <2>2 DEF Preparing
  <2>3. CASE pc'[c] # pc[c]
    <3>1. ~(c \in scenario.callers /\ Prompt(c))
      BY <1>5 DEF Prompts
    <3>2. ~Submit(c)
      BY <1>1, <2>1 DEF Submit
    <3> QED
      BY <2>1, <2>3, <3>1, <3>2, PcStep DEF Preparing
  <2> QED
    BY <2>2, <2>3
<1>6. ASSUME NEW c \in Callers, Submit(c) PROVE Preparing' = {}
  <2> SUFFICES ASSUME NEW d \in Callers, pc'[d] \in {"prepared", "compacting"} PROVE FALSE
    BY DEF Preparing
  <2>1. pc[c] = "prepared" /\ pc'[c] \in {"running", "rejected"} /\ \A x \in Callers \ {c} : pc'[x] = pc[x]
    BY <1>1, <1>6 DEF Submit
  <2>2. d # c /\ pc[d] \in {"prepared", "compacting"}
    BY <2>1
  <2> QED
    BY <2>1, <2>2 DEF Threads, InPrompt
<1> QED
  BY <1>3, <1>4, <1>5, <1>6 DEF Prompts

LEMMA ThreadsStep ==
    ASSUME TypeInv, Calls, Limits, FirstPrompt, Threads, ResumesAlone, Next
    PROVE  Threads'
<1>1. /\ Infos /\ Queue /\ Runs /\ Lists /\ Changes /\ Later(info') /\ Spoken \subseteq Spoken'
      /\ Users \subseteq Spoken' /\ Users' \subseteq Spoken'
      /\ timers \in [{"retry", "resume"} -> Nat] /\ scenario.client = "patient"
  <2>1. Infos /\ Later(info') /\ Changes
    BY InfoStep, StepsChange DEF TypeInv
  <2>2. Spoken \subseteq Spoken' /\ Users \subseteq Users'
    BY <2>1, Grown
  <2>3. Users' \subseteq Spoken'
    BY DEF Users, Spoken
  <2> QED
    BY <2>1, <2>2, <2>3 DEF TypeInv, Others, ResumesAlone
<1>2. events \in Seq(EventsOf(Spoken'))
  <2>1. EventsOf(Spoken) \subseteq EventsOf(Spoken') /\ events \in Seq(EventsOf(Spoken))
    BY <1>1 DEF EventsOf, Queue
  <2> QED
    BY <2>1, WiderSequence
<1>3. /\ \A c, d \in Callers : InPrompt(c)' /\ InPrompt(d)' => c = d
      /\ Preparing \subseteq Callers /\ Preparing' \subseteq Callers
  BY OnePromptStep DEF Preparing
<1>4. CASE Prompts
  <2>1. Settled /\ run' = run /\ events' = events /\ timers' = timers
    BY <1>4, OnePromptStep
  <2>2. /\ run'.state = "idle" /\ events' = <<>> /\ timers'["retry"] = 0 /\ timers'["resume"] = 0
    BY <1>1, <2>1 DEF Settled
  <2> QED
    BY <1>3, <2>2 DEF Threads, EndIsLast, HasEnd, NoTimers
<1> SUFFICES ASSUME ~Prompts PROVE Threads'
  BY <1>4
<1>5. Preparing' \subseteq Preparing
  BY <1>3, OnePromptStep
\* Nothing begins, and at most the first event has been handled.
<1>6. ASSUME run'.state = run.state, timers' = timers,
             events' = events \/ (events # <<>> /\ events' = Tail(events))
      PROVE  Threads'
  <2>1. EndIsLast' /\ (HasEnd' => HasEnd) /\ (events = <<>> => events' = <<>>)
    <3>1. CASE events' = events
      BY <3>1 DEF Threads, EndIsLast, HasEnd
    <3>2. CASE events # <<>> /\ events' = Tail(events)
      BY <1>1, <3>2, EndHandled DEF Threads
    <3> QED
      BY <1>6, <3>1, <3>2
  <2>2. NoTimers' <=> NoTimers
    BY <1>6 DEF NoTimers
  <2> QED
    BY <1>3, <1>5, <1>6, <2>1, <2>2 DEF Threads
\* The end of a run has been handled, and a timer may have been set.
<1>7. ASSUME events # <<>>, Current.type = "agent_end", events' = Tail(events), run' = run,
             \/ timers' = timers
             \/ \E reason \in {"retry", "resume"} : timers' = [timers EXCEPT ![reason] = @ + 1]
      PROVE  Threads'
  <2>1. events' = <<>> /\ HasEnd
    BY <1>1, <1>7, EndHandled DEF Threads
  <2>2. NoTimers /\ Preparing = {} /\ run.state = "idle"
    BY <2>1 DEF Threads
  <2>3. timers'["retry"] + timers'["resume"] <= 1
    BY <1>1, <1>7, <2>2 DEF NoTimers
  <2>4. EndIsLast' /\ ~HasEnd' /\ Preparing' = {}
    BY <1>5, <2>1, <2>2 DEF EndIsLast, HasEnd
  <2> QED
    BY <1>3, <1>7, <2>1, <2>2, <2>3, <2>4 DEF Threads
\* A run begins.
<1>8. ASSUME Starting, ~HasEnd, NoTimers', Preparing' = {}, run.state # "over"
      PROVE  Threads'
  <2>1. ASSUME NEW inf, NEW ms, NEW owner, StartedBy(inf, ms, owner)
        PROVE  ~HasEnd' /\ EndIsLast' /\ run'.state = "turn"
    <3> DEFINE ps == Polled(ms)
    <3>1. BeginTurn(inf, ps, owner, FALSE) /\ ms \in Seq(Users')
      BY <2>1, StartRunIs DEF StartedBy
    <3>2. ms \in Seq(Spoken')
      BY <1>1, <3>1, WiderSequence
    <3>3. ps \in Seq(Spoken')
      BY <1>1, <3>2, PolledType
    <3> HIDE DEF ps
    <3>4. Emit(MessageEvents(ps), ps) /\ run'.state = "turn"
      BY <3>1 DEF BeginTurn
    <3> QED
      BY <1>2, <1>8, <3>3, <3>4, NoEndAdded
  <2>2. CASE UNCHANGED <<info, messages, run, steering, events, emitted>>
    BY <1>3, <1>8, <2>2 DEF Threads, EndIsLast, HasEnd, NoTimers
  <2>3. CASE ~HasEnd' /\ EndIsLast' /\ run'.state = "turn"
    BY <1>3, <1>8, <2>3 DEF Threads, NoTimers
  <2> QED
    BY Zenon, <1>8, <2>1, <2>2, <2>3 DEF Starting
<1>9. CASE Replies
  <2>1. PICK outcome \in scenario.outcomes \cup {"aborted"} : Reply(outcome)
    BY <1>9 DEF Replies
  <2> DEFINE m == run.reply
             h == Head(steering)
  <2>2. run.state = "turn" /\ timers' = timers /\ ~HasEnd /\ NoTimers /\ Preparing' = {} /\ NoTimers'
    BY <1>5, <2>1 DEF Reply, Threads, NoTimers
  <2>3. m \in Spoken /\ m \in Spoken'
    BY <1>1, <2>2 DEF Runs, Spoken, IsAssistant
  <2>4. CASE outcome \in {"ok", "large", "silent"} /\ steering # <<>>
    <3>1. Emit(MessageEvents(<<m, h>>), <<m, h>>) /\ run' = [run EXCEPT !.reply = NextId]
      BY Zenon, <2>1, <2>4 DEF Reply
    <3>2. run'.state = "turn"
      BY <1>1, <2>2, <3>1 DEF Runs, RunType
    <3>3. h \in Spoken'
      BY <1>1, <2>4, SteeringTail
    <3> HIDE DEF m, h
    <3>4. <<m, h>> \in Seq(Spoken')
      BY <2>3, <3>3
    <3>5. ~HasEnd' /\ EndIsLast'
      BY <1>2, <2>2, <3>1, <3>4, NoEndAdded
    <3> QED
      BY <1>3, <2>2, <3>2, <3>5 DEF Threads, NoTimers
  <2>5. CASE ~(outcome \in {"ok", "large", "silent"} /\ steering # <<>>)
    <3>1. Emit(<<Event("message", m), Event("agent_end", m)>>, <<m>>) /\ run' = Idle
      BY <1>1, <2>1, <2>5 DEF Reply
    <3> HIDE DEF m
    <3>2. EndIsLast'
      BY <1>2, <2>2, <2>3, <3>1, EndAdded
    <3> QED
      BY <1>3, <2>2, <3>1, <3>2 DEF Threads, NoTimers, Idle
  <2> QED
    BY <2>4, <2>5
<1>10. CASE Continues
  <2>1. PICK reason \in DOMAIN timers : Continue(reason)
    BY <1>10 DEF Continues
  <2>2. timers[reason] > 0 /\ timers' = [timers EXCEPT ![reason] = @ - 1] /\ reason \in {"retry", "resume"}
    BY <1>1, <2>1 DEF Continue
  <2>3. ~NoTimers
    BY <1>1, <2>2 DEF NoTimers
  <2>4. ~HasEnd /\ Preparing' = {} /\ run.state = "idle"
    BY <1>5, <2>3 DEF Threads
  <2>5. NoTimers'
    BY <1>1, <2>2 DEF Threads, NoTimers
  <2> QED
    BY <1>8, <1>10, <2>4, <2>5, StartsAre
<1>11. CASE Submits
  <2>1. PICK c \in Callers : Submit(c)
    BY <1>11 DEF Submits
  <2>2. c \in Preparing /\ timers' = timers
    BY <2>1 DEF Submit, Preparing
  <2>3. ~HasEnd /\ NoTimers /\ run.state = "idle"
    BY <2>2 DEF Threads
  <2>4. Preparing' = {} /\ NoTimers'
    BY <2>1, <2>2, <2>3, OnePromptStep DEF NoTimers
  <2> QED
    BY <1>8, <1>11, <2>3, <2>4, StartsAre
<1>12. CASE PersistMessage \/ EventFails \/ NothingToDecide
  <2>1. EventDone /\ run' = run /\ timers' = timers /\ events # <<>>
    BY <1>1, <1>12 DEF PersistMessage, EventFails, NothingToDecide, agentVars, Queue
  <2> QED
    BY <1>6, <2>1 DEF EventDone
<1>13. CASE EndBackoff
  <2>1. /\ EventDone /\ run' = run /\ timers' = [timers EXCEPT !["retry"] = @ + 1]
        /\ events # <<>> /\ Current.type = "agent_end"
    BY <1>1, <1>13 DEF EndBackoff, agentVars, Queue
  <2> QED
    BY <1>7, <2>1 DEF EventDone
<1>14. CASE Decides
  <2>1. run' = run /\ timers' = timers /\ events # <<>> /\ (events' = events \/ EventDone)
    BY <1>1, <1>14 DEF Decides, Decide, Deciding, Queue
  <2> QED
    BY <1>6, <2>1 DEF EventDone
<1>15. CASE Ends \/ Fails
  <2>1. PICK k \in Compactors : EndCompaction(k) \/ CompactionFails(k)
    BY <1>15 DEF Ends, Fails
  <2>2. run' = run /\ compaction[k].phase # "none" /\ LeaveCompaction(k)
    BY <2>1 DEF EndCompaction, CompactionFails, agentVars
  <2>3. CASE k = "queue"
    <3>1. events # <<>> /\ Current.type = "agent_end" /\ events' = Tail(events)
      BY <1>1, <2>2, <2>3 DEF LeaveCompaction, EventDone, Queue
    <3>2. timers' = timers \/ timers' = [timers EXCEPT !["resume"] = @ + 1]
      BY <2>1 DEF EndCompaction, CompactionFails
    <3> QED
      BY <1>7, <2>2, <3>1, <3>2
  <2>4. CASE k # "queue"
    <3>1. events' = events
      BY <2>2, <2>4 DEF LeaveCompaction
    <3>2. timers' = timers
      <4>1. CASE k = "manual"
        BY <2>1, <4>1 DEF EndCompaction, CompactionFails
      <4>2. CASE k # "manual"
        <5>1. k \in Callers
          BY <2>4, <4>2 DEF Compactors
        <5> QED
          BY <2>1, <5>1, NoResume DEF CompactionFails
      <4> QED
        BY <4>1, <4>2
    <3> QED
      BY <1>6, <2>2, <3>1, <3>2
  <2> QED
    BY <2>3, <2>4
<1>16. CASE Abort \/ Compact
  <2>1. events' = events /\ timers' = timers /\ (run' = run \/ run' = [run EXCEPT !.aborted = TRUE])
    BY <1>16 DEF Abort, Compact, AbortAll, queueVars
  <2>2. run'.state = run.state
    BY <1>1, <2>1, RunRecords DEF Runs
  <2> QED
    BY <1>6, <2>1, <2>2
<1>17. ~FinishRun
  BY DEF FinishRun, Threads
<1>18. CASE run' = run /\ timers' = timers /\ events' = events
  BY <1>6, <1>18
<1>19. (run' = run /\ timers' = timers /\ events' = events) \/ Replies \/ Continues \/ Submits
       \/ PersistMessage \/ EventFails \/ NothingToDecide \/ EndBackoff \/ Decides \/ Ends \/ Fails
       \/ Abort \/ Compact
  BY Zenon, <1>1, <1>17 DEF Changes
<1> QED
  BY Zenon, <1>9, <1>10, <1>11, <1>12, <1>13, <1>14, <1>15, <1>16, <1>18, <1>19

(***************************************************************************)
(* The retries that have begun, that a timer holds and that wait out their *)
(* backoff are all counted.                                                *)
(***************************************************************************)
Counted == retries + timers["retry"] + (IF handler = "backoff" THEN 1 ELSE 0) <= attempt

LEMMA CountedStep ==
    ASSUME TypeInv, Threads, Counted, Next
    PROVE  Counted'
<1>1. /\ Queue /\ Changes /\ timers \in [{"retry", "resume"} -> Nat] /\ retries \in Nat
      /\ attempt \in Nat
  BY StepsChange, RetriesAssumption DEF TypeInv, Others
<1>2. events # <<>> => timers["retry"] = 0
  BY DEF Threads, NoTimers
<1>3. CASE Continues
  <2>1. PICK reason \in DOMAIN timers : Continue(reason)
    BY <1>3 DEF Continues
  <2>2. /\ reason \in {"retry", "resume"} /\ timers[reason] > 0
        /\ timers' = [timers EXCEPT ![reason] = @ - 1]
        /\ handler' = handler /\ attempt' = attempt
        /\ retries' = retries \/ (retries' = retries + 1 /\ reason = "retry")
    BY <1>1, <2>1 DEF Continue
  <2> QED
    BY <1>1, <2>2 DEF Counted
<1>4. CASE PersistMessage
  <2>1. /\ events # <<>> /\ handler' = "free" /\ timers' = timers /\ handler = "emitting"
        /\ \/ attempt' = attempt /\ retries' = retries
           \/ attempt' = 0 /\ retries' = 0
    BY <1>1, <1>4 DEF PersistMessage, EventDone, CountSuccess, Queue
  <2> QED
    BY <1>1, <1>2, <2>1 DEF Counted
<1>5. CASE Decides
  <2>1. PICK gaveUp \in BOOLEAN : Decide(gaveUp)
    BY <1>5 DEF Decides
  <2>2. /\ events # <<>> /\ timers' = timers /\ handler' \in {"free", "compacting"}
        /\ \/ attempt' = attempt /\ retries' = retries
           \/ attempt' = 0 /\ retries' = 0
    BY <1>1, <1>5, <2>1 DEF Decides, Decide, Deciding, EventDone, Queue
  <2> QED
    BY <1>1, <1>2, <2>2 DEF Counted
<1>6. CASE BeginBackoff
  <2>1. /\ handler = "emitting" /\ handler' = "backoff" /\ attempt' = attempt + 1
        /\ timers' = timers /\ retries' = retries
    BY <1>6 DEF BeginBackoff, Deciding
  <2> QED
    BY <1>1, <2>1 DEF Counted
<1>7. CASE EndBackoff
  <2>1. /\ handler = "backoff" /\ handler' = "free" /\ attempt' = attempt /\ retries' = retries
        /\ timers' = [timers EXCEPT !["retry"] = @ + 1]
    BY <1>7 DEF EndBackoff, EventDone, retryVars
  <2> QED
    BY <1>1, <2>1 DEF Counted
<1>8. CASE Ends
  <2>1. PICK k \in Compactors : EndCompaction(k)
    BY <1>8 DEF Ends
  <2>2. /\ attempt' = attempt /\ retries' = retries /\ handler' \in {handler, "free"}
        /\ timers' = timers \/ timers' = [timers EXCEPT !["resume"] = @ + 1]
    BY <2>1 DEF EndCompaction, LeaveCompaction, EventDone, retryVars
  <2> QED
    BY <1>1, <2>2 DEF Counted
<1>9. CASE /\ attempt' = attempt /\ retries' = retries /\ timers' = timers
           /\ handler' = handler \/ handler' # "backoff"
  BY <1>1, <1>9 DEF Counted
<1>10. CASE Replies \/ FinishRun \/ TakeEvent \/ EventFails \/ NothingToDecide \/ Prompts
            \/ Refuses \/ Submits
  <2>1. /\ attempt' = attempt /\ retries' = retries /\ timers' = timers
        /\ handler' = handler \/ handler' # "backoff"
    <3>1. CASE Replies
      BY <3>1 DEF Replies, Reply
    <3>2. CASE FinishRun \/ TakeEvent \/ EventFails \/ NothingToDecide
      BY <3>2 DEF FinishRun, TakeEvent, EventFails, NothingToDecide, EventDone, queueVars, retryVars
    <3>3. CASE Prompts \/ Refuses \/ Submits
      BY <3>3 DEF Prompts, Prompt, Refuses, PromptRefused, Submits, Submit, queueVars, retryVars
    <3> QED
      BY <1>10, <3>1, <3>2, <3>3
  <2> QED
    BY <1>9, <2>1
<1>11. CASE Steer \/ ClearQueue \/ RecordBash \/ Abort \/ AbortCompaction \/ Compact
  BY <1>9, <1>11 DEF Steer, ClearQueue, RecordBash, Abort, AbortCompaction, Compact, queueVars,
     retryVars
<1>12. CASE CompactIdle \/ Prepares \/ Saves
  BY <1>9, <1>12 DEF CompactIdle, Prepares, Prepare, Saves, SaveCompaction, queueVars, retryVars
<1>13. CASE Fails
  <2>1. PICK k \in Compactors : CompactionFails(k)
    BY <1>13 DEF Fails
  <2>2. /\ attempt' = attempt /\ retries' = retries /\ timers' = timers
        /\ handler' = handler \/ handler' # "backoff"
    BY <2>1 DEF CompactionFails, LeaveCompaction, EventDone, retryVars
  <2> QED
    BY <1>9, <2>2
<1> QED
  BY Zenon, Actions, <1>3, <1>4, <1>5, <1>6, <1>7, <1>8, <1>10, <1>11, <1>12, <1>13

RetryInv ==
    /\ TypeInv /\ Calls /\ Limits /\ Backoffs /\ Unused /\ FirstPrompt
    /\ ResumesAlone => Threads /\ Counted

LEMMA RetryInvInit == Init => RetryInv
<1> SUFFICES ASSUME Init PROVE RetryInv
  OBVIOUS
<1>1. TypeInv /\ NoCompaction.phase = "none" /\ NoCompaction.reason = "none" /\ Idle.state = "idle"
  BY TypeInit DEF NoCompaction, Idle
<1>2. /\ \A k \in Compactors : compaction[k] = NoCompaction
      /\ Callers \cup {"queue"} \subseteq Compactors /\ Ids = {}
      /\ \A c \in Callers : pc[c] = "idle"
      /\ timers["retry"] = 0 /\ timers["resume"] = 0
  BY DEF Init, Compactors, Ids
<1>3. Calls /\ Limits /\ Backoffs
  BY <1>1, <1>2 DEF Init, Calls, Limits, Backoffs
<1>4. Unused /\ FirstPrompt
  BY <1>1, <1>2 DEF Init, Unused, FirstPrompt, NoTimers
<1>5. Threads
  <2>1. Preparing = {} /\ ~HasEnd /\ EndIsLast /\ NoTimers
    BY <1>2 DEF Init, Preparing, HasEnd, EndIsLast, NoTimers
  <2>2. \A c \in Callers : ~InPrompt(c)
    BY <1>2 DEF InPrompt
  <2> QED
    BY <1>1, <1>2, <2>1, <2>2 DEF Init, Threads
<1>6. Counted
  BY <1>2 DEF Init, Counted
<1> QED
  BY <1>1, <1>3, <1>4, <1>5, <1>6 DEF RetryInv

LEMMA RetryInvStep == RetryInv /\ [Next]_vars => RetryInv'
<1> SUFFICES ASSUME RetryInv, [Next]_vars PROVE RetryInv'
  OBVIOUS
<1>1. CASE Next
  <2>1. ResumesAlone' <=> ResumesAlone
    BY <1>1, StepsChange DEF Changes, ResumesAlone
  <2>2. TypeInv' /\ Calls' /\ Limits' /\ Backoffs' /\ Unused' /\ FirstPrompt'
    BY <1>1, TypeStep, CallsStep, LimitsStep, BackoffsStep, UnusedStep, FirstPromptStep DEF RetryInv
  <2>3. ResumesAlone => Threads' /\ Counted'
    BY <1>1, ThreadsStep, CountedStep DEF RetryInv
  <2> QED
    BY <2>1, <2>2, <2>3 DEF RetryInv
<1>2. CASE UNCHANGED vars
  <2>1. TypeInv'
    BY <1>2, TypeStep DEF RetryInv
  <2> USE <1>2 DEF vars, agentVars, queueVars, retryVars, compactVars, clientVars
  <2>2. Calls' /\ Limits' /\ Backoffs' /\ Unused' /\ FirstPrompt'
    BY DEF RetryInv, Calls, Limits, Backoffs, Unused, FirstPrompt, Ids, IsAssistant, Role, NoTimers
  <2>3. ResumesAlone' <=> ResumesAlone
    BY DEF ResumesAlone
  <2>4. Threads => Threads'
    BY DEF Threads, EndIsLast, HasEnd, NoTimers, Preparing, InPrompt
  <2>5. Counted => Counted'
    BY DEF Counted
  <2> QED
    BY <2>1, <2>2, <2>3, <2>4, <2>5 DEF RetryInv
<1> QED
  BY <1>1, <1>2

\* A patient client whose prompts schedule no resumption beside the run they
\* begin never sees more retries in a row than retry.maxRetries, whatever it
\* calls during a run, however slow the handlers are and even when they throw
\* (_handleRetryableError, _retryAttempt).
THEOREM RetriesBoundedAlways == Spec => []RetriesBounded
<1>1. RetryInv => RetriesBounded
  <2> SUFFICES ASSUME RetryInv, ResumesAlone PROVE retries <= MaxRetries
    BY DEF RetriesBounded
  <2>1. /\ timers["retry"] \in Nat /\ retries \in Nat /\ attempt \in 0 .. MaxRetries
        /\ MaxRetries \in Nat /\ Counted
    BY RetriesAssumption DEF RetryInv, TypeInv, Others
  <2> QED
    BY <2>1 DEF Counted
<1> QED
  BY <1>1, RetryInvInit, RetryInvStep, PTL DEF Spec

(***************************************************************************)
(* The session's context as the session grows.                             *)
(***************************************************************************)

\* The context as seen from the summary at position c.
FirstAt(entries, inf, c) == CHOOSE i \in DOMAIN entries : entries[i] = inf[entries[c]].first
KeptOf(entries, inf) == {m \in ToSet(entries) : inf[m].role # "summary"}
ContextAt(entries, inf, c) ==
    IF inf[entries[c]].replaces
    THEN inf[entries[c]].recent \o SubSeq(entries, c, Len(entries))
    ELSE <<entries[c]>> \o Filtered(SubSeq(entries, FirstAt(entries, inf, c), c - 1), KeptOf(entries, inf))
                        \o SubSeq(entries, c + 1, Len(entries))

LEMMA ContextIs ==
    ASSUME NEW entries, NEW inf
    PROVE  Context(entries, inf) = IF SummariesOf(entries, inf) = {} THEN entries
                                   ELSE ContextAt(entries, inf, Max(SummariesOf(entries, inf)))
  BY DEF Context, SummariesOf, ContextAt, FirstAt, KeptOf

LEMMA LastSummary ==
    ASSUME NEW S, NEW entries \in Seq(S), NEW inf, SummariesOf(entries, inf) # {}
    PROVE  /\ Max(SummariesOf(entries, inf)) \in 1 .. Len(entries)
           /\ inf[entries[Max(SummariesOf(entries, inf))]].role = "summary"
<1> DEFINE n == Len(entries)
           sums == SummariesOf(entries, inf)
<1>1. n \in Nat /\ sums \in SUBSET (1 .. n)
  BY DEF SummariesOf
<1> HIDE DEF n, sums
<1>2. Max(sums) \in sums
  BY <1>1, GreatestOne DEF sums
<1> QED
  BY <1>1, <1>2 DEF sums, SummariesOf, n

\* The context of messages of which no summary tells anything new.
LEMMA ContextSame ==
    ASSUME NEW S, NEW entries \in Seq(S), NEW inf, NEW jnf,
           \A m \in ToSet(entries) :
              /\ jnf[m].role = inf[m].role /\ jnf[m].first = inf[m].first
              /\ jnf[m].replaces = inf[m].replaces /\ jnf[m].recent = inf[m].recent
    PROVE  Context(entries, jnf) = Context(entries, inf)
<1> DEFINE sums == SummariesOf(entries, inf)
           c == Max(sums)
<1>1. SummariesOf(entries, jnf) = sums
  BY DEF SummariesOf, ToSet
<1>2. KeptOf(entries, jnf) = KeptOf(entries, inf)
  BY DEF KeptOf
<1>3. CASE sums = {}
  BY <1>1, <1>3, ContextIs
<1>4. CASE sums # {}
  <2>1. c \in 1 .. Len(entries)
    BY <1>4, LastSummary
  <2> HIDE DEF c
  <2>2. entries[c] \in ToSet(entries)
    BY <2>1 DEF ToSet
  <2>3. /\ jnf[entries[c]].first = inf[entries[c]].first
        /\ jnf[entries[c]].replaces = inf[entries[c]].replaces
        /\ jnf[entries[c]].recent = inf[entries[c]].recent
    BY <2>2
  <2>4. FirstAt(entries, jnf, c) = FirstAt(entries, inf, c)
    BY <2>3 DEF FirstAt
  <2>5. ContextAt(entries, jnf, c) = ContextAt(entries, inf, c)
    BY <1>2, <2>3, <2>4 DEF ContextAt
  <2> QED
    BY <1>1, <1>4, <2>5, ContextIs DEF c
<1> QED
  BY <1>3, <1>4

\* What is behind a position of a sequence grows with it.
LEMMA RestGrows ==
    ASSUME NEW S, NEW s \in Seq(S), NEW t \in Seq(S), NEW a \in 1 .. Len(s) + 1
    PROVE  SubSeq(s \o t, a, Len(s \o t)) = SubSeq(s, a, Len(s)) \o t
<1> DEFINE M == Len(s)
           N == Len(t)
           x == s \o t
           p == SubSeq(x, a, Len(x))
           q == SubSeq(s, a, M)
           r == q \o t
<1>1. /\ x \in Seq(S) /\ Len(x) = M + N /\ M \in Nat /\ N \in Nat
      /\ \A i \in 1 .. M : x[i] = s[i]
      /\ \A i \in 1 .. N : x[M + i] = t[i]
  BY ConcatElements
<1> HIDE DEF x
<1>2. /\ p \in Seq(S) /\ Len(p) = M + N - a + 1
      /\ \A i \in 1 .. M + N - a + 1 : p[i] = x[a + i - 1]
  <2>1. a \in Nat \ {0} /\ a <= M + 1
    BY <1>1
  <2> QED
    BY <1>1, <2>1
<1>3. /\ q \in Seq(S) /\ Len(q) = M - a + 1
      /\ \A i \in 1 .. M - a + 1 : q[i] = s[a + i - 1]
  BY <1>1
<1> HIDE DEF p, q
<1>4. /\ r \in Seq(S) /\ Len(r) = M - a + 1 + N
      /\ \A i \in 1 .. M - a + 1 : r[i] = q[i]
      /\ \A i \in 1 .. N : r[M - a + 1 + i] = t[i]
  <2>1. q \in Seq(S) /\ t \in Seq(S)
    BY <1>3
  <2>2. /\ r \in Seq(S) /\ Len(r) = Len(q) + N
        /\ \A i \in 1 .. Len(q) : r[i] = q[i]
        /\ \A i \in 1 .. N : r[Len(q) + i] = t[i]
    BY ONLY <2>1, ConcatElements
  <2> HIDE DEF r
  <2> QED
    BY <1>3, <2>2
<1> HIDE DEF r, M, N
<1>5. \A i \in 1 .. Len(p) : p[i] = r[i]
  <2> SUFFICES ASSUME NEW i \in 1 .. Len(p) PROVE p[i] = r[i]
    OBVIOUS
  <2>1. CASE i <= M - a + 1
    BY <1>1, <1>2, <1>3, <1>4, <2>1
  <2>2. CASE i > M - a + 1
    <3> DEFINE j == i - (M - a + 1)
    <3>1. j \in 1 .. N /\ i = M - a + 1 + j /\ a + i - 1 = M + j
      BY <1>1, <1>2, <2>2
    <3> HIDE DEF j
    <3>2. x[M + j] = t[j] /\ r[i] = t[j] /\ p[i] = x[a + i - 1]
      BY <1>1, <1>2, <1>4, <3>1
    <3> QED
      BY <3>1, <3>2
  <2> QED
    BY <1>1, <2>1, <2>2
<1>6. Len(p) = Len(r)
  BY <1>1, <1>2, <1>4
<1> QED
  BY <1>2, <1>4, <1>5, <1>6, SeqEqual DEF p, q, r, x, M

\* What is before a position of a sequence stays.
LEMMA PartStays ==
    ASSUME NEW S, NEW s \in Seq(S), NEW t \in Seq(S), NEW a \in Nat \ {0}, NEW b \in Nat, b <= Len(s)
    PROVE  SubSeq(s \o t, a, b) = SubSeq(s, a, b)
<1> DEFINE M == Len(s)
           x == s \o t
           p == SubSeq(x, a, b)
           q == SubSeq(s, a, b)
<1>1. /\ x \in Seq(S) /\ Len(x) >= M /\ M \in Nat
      /\ \A i \in 1 .. M : x[i] = s[i]
  BY ConcatElements
<1> HIDE DEF x
<1>2. p \in Seq(S) /\ \A i \in 1 .. Len(p) : p[i] = x[a + i - 1] /\ a + i - 1 \in 1 .. M
  BY <1>1
<1>3. q \in Seq(S) /\ \A i \in 1 .. Len(q) : q[i] = s[a + i - 1]
  BY <1>1
<1>4. Len(p) = Len(q)
  BY <1>1
<1> HIDE DEF p, q
<1>5. \A i \in 1 .. Len(p) : p[i] = q[i]
  BY <1>1, <1>2, <1>3, <1>4
<1> QED
  BY <1>2, <1>3, <1>4, <1>5, SeqEqual DEF p, q, x

\* Messages that come after the session's last summary come last in its context.
LEMMA ContextConcat ==
    ASSUME NEW S, NEW s \in Seq(S), NEW t \in Seq(S), NEW inf, FirstsIn(s, inf), IsInjective(s),
           ToSet(s) \cap ToSet(t) = {}, \A m \in ToSet(t) : inf[m].role # "summary",
           \A m \in ToSet(s) : inf[m].role = "summary" => inf[m].recent \in Seq(S)
    PROVE  Context(s \o t, inf) = Context(s, inf) \o t
<1> DEFINE x == s \o t
           M == Len(s)
           N == Len(t)
           sums == SummariesOf(s, inf)
           c == Max(sums)
<1>1. /\ x \in Seq(S) /\ Len(x) = M + N /\ M \in Nat /\ N \in Nat
      /\ DOMAIN x = 1 .. M + N /\ DOMAIN s = 1 .. M /\ DOMAIN t = 1 .. N
      /\ \A i \in 1 .. M : x[i] = s[i]
      /\ \A i \in 1 .. N : x[M + i] = t[i]
      /\ ToSet(x) = ToSet(s) \cup ToSet(t)
  BY ConcatElements
<1> HIDE DEF x
<1>2. ASSUME NEW i \in 1 .. M + N, i \notin 1 .. M
      PROVE  x[i] \in ToSet(t)
  <2>1. i - M \in 1 .. N /\ i = M + (i - M)
    BY <1>1, <1>2
  <2>2. x[i] = t[i - M]
    BY <1>1, <2>1
  <2> QED
    BY <1>1, <2>1, <2>2 DEF ToSet
<1>3. SummariesOf(x, inf) = sums
  <2> HIDE DEF M, N
  <2>1. ASSUME NEW i \in 1 .. M + N, inf[x[i]].role = "summary"
        PROVE  i \in 1 .. M /\ inf[s[i]].role = "summary"
    BY <1>1, <1>2, <2>1
  <2>2. ASSUME NEW i \in 1 .. M, inf[s[i]].role = "summary"
        PROVE  i \in 1 .. M + N /\ inf[x[i]].role = "summary"
    BY <1>1, <2>2
  <2> QED
    BY <1>1, <2>1, <2>2 DEF SummariesOf
<1>4. CASE sums = {}
  BY <1>3, <1>4, ContextIs DEF x
<1>5. CASE sums # {}
  <2>1. c \in 1 .. M /\ inf[s[c]].role = "summary"
    BY <1>5, LastSummary
  <2>2. Context(x, inf) = ContextAt(x, inf, c) /\ Context(s, inf) = ContextAt(s, inf, c)
    BY <1>3, <1>5, ContextIs
  <2> HIDE DEF c, sums
  <2>3. x[c] = s[c] /\ s[c] \in ToSet(s) /\ s[c] \in S
    BY <1>1, <2>1 DEF ToSet
  <2>4. \E i \in 1 .. M : s[i] = inf[s[c]].first
    BY <1>1, <2>1, <2>3 DEF FirstsIn, ToSet
  <2> DEFINE f == FirstAt(s, inf, c)
             g == FirstAt(x, inf, c)
  <2>5. f \in 1 .. M /\ s[f] = inf[s[c]].first
    BY <1>1, <2>4 DEF FirstAt
  <2>6. g = f
    <3>1. f \in 1 .. M + N /\ x[f] = inf[x[c]].first
      BY <1>1, <2>3, <2>5
    <3>2. g \in 1 .. M + N /\ x[g] = inf[x[c]].first
      BY <1>1, <3>1 DEF FirstAt
    <3> HIDE DEF f, g, M, N
    <3>3. g \in 1 .. M
      <4>1. x[g] \in ToSet(s)
        BY <1>1, <2>3, <2>5, <3>2 DEF ToSet
      <4> QED
        BY <1>2, <3>2, <4>1
    <3> QED
      BY <1>1, <2>3, <2>5, <3>2, <3>3 DEF IsInjective
  <2> HIDE DEF f, g
  <2> DEFINE from == SubSeq(s, c, M)
             after == SubSeq(s, c + 1, M)
             before == SubSeq(s, f, c - 1)
             kept == Filtered(before, KeptOf(s, inf))
             rest == Len(x)
  <2>7. SubSeq(x, c, rest) = from \o t /\ SubSeq(x, c + 1, rest) = after \o t
    <3> DEFINE d == c + 1
    <3>1. c \in 1 .. Len(s) + 1 /\ d \in 1 .. Len(s) + 1
      BY <1>1, <2>1
    <3> HIDE DEF d
    <3>2. SubSeq(s \o t, c, Len(s \o t)) = SubSeq(s, c, Len(s)) \o t
      BY <3>1, RestGrows
    <3>3. SubSeq(s \o t, d, Len(s \o t)) = SubSeq(s, d, Len(s)) \o t
      BY <3>1, RestGrows
    <3> QED
      BY <3>2, <3>3 DEF x, d
  <2>8. /\ SubSeq(x, f, c - 1) = before /\ before \in Seq(S) /\ ToSet(before) \subseteq ToSet(s)
        /\ from \in Seq(S) /\ after \in Seq(S)
    <3> DEFINE b == c - 1
               d == c + 1
    <3>1. /\ f \in Nat \ {0} /\ b \in Nat /\ b <= Len(s) /\ f \in 1 .. Len(s)
          /\ c \in Nat \ {0} /\ d \in Nat \ {0} /\ M \in Nat /\ M <= Len(s)
      BY <1>1, <2>1, <2>5
    <3> HIDE DEF b, d, M
    <3>2. SubSeq(s \o t, f, b) = SubSeq(s, f, b)
      BY <3>1, PartStays
    <3>3. SubSeq(s, f, b) \in Seq(S) /\ ToSet(SubSeq(s, f, b)) = {s[i] : i \in f .. b}
      BY <3>1, PartElements
    <3>4. SubSeq(s, c, M) \in Seq(S)
      BY <3>1, PartElements
    <3>5. SubSeq(s, d, M) \in Seq(S)
      BY <3>1, PartElements
    <3>6. {s[i] : i \in f .. b} \subseteq ToSet(s)
      <4>1. f .. b \subseteq DOMAIN s
        BY <3>1
      <4> QED
        BY <4>1 DEF ToSet
    <3> QED
      BY <3>2, <3>3, <3>4, <3>5, <3>6 DEF x, b, d
  <2>9. Filtered(before, KeptOf(x, inf)) = kept
    <3>1. ToSet(before) \cap KeptOf(x, inf) = ToSet(before) \cap KeptOf(s, inf)
      <4> HIDE DEF before
      <4> QED
        BY <1>1, <2>8 DEF KeptOf
    <3> HIDE DEF before
    <3> QED
      BY <2>8, <3>1, FilteredSame
  <2>10. kept \in Seq(S)
    <3>1. kept \in Seq(S \cap KeptOf(s, inf))
      <4> HIDE DEF before
      <4> QED
        BY <2>8, FilteredElements
    <3> HIDE DEF kept
    <3> QED
      BY <3>1
  <2> HIDE DEF before, from, after, kept, rest, M, N
  <2>11. CASE inf[s[c]].replaces
    <3> DEFINE r == inf[s[c]].recent
    <3>1. Context(x, inf) = r \o (from \o t) /\ Context(s, inf) = r \o from
      BY <2>2, <2>3, <2>7, <2>11 DEF ContextAt, rest, from, M
    <3>2. r \in Seq(S)
      BY <2>1, <2>3
    <3> HIDE DEF r
    <3>3. r \o (from \o t) = (r \o from) \o t
      <4>1. r \in Seq(S) /\ from \in Seq(S) /\ t \in Seq(S)
        BY <2>8, <3>2
      <4> QED
        BY ONLY <4>1, ConcatAssociative
    <3> QED
      BY <3>1, <3>3 DEF x
  <2>12. CASE ~inf[s[c]].replaces
    <3> DEFINE o == <<s[c]>>
    <3>1. Context(x, inf) = o \o kept \o (after \o t) /\ Context(s, inf) = o \o kept \o after
      BY <2>2, <2>3, <2>6, <2>7, <2>8, <2>9, <2>12 DEF ContextAt, rest, after, before, kept, f, g, M
    <3>2. o \in Seq(S)
      BY <2>3
    <3> HIDE DEF o
    <3> DEFINE p == o \o kept
    <3>3. p \in Seq(S)
      BY <2>10, <3>2
    <3> HIDE DEF p
    <3>4. p \o (after \o t) = (p \o after) \o t
      <4>1. p \in Seq(S) /\ after \in Seq(S) /\ t \in Seq(S)
        BY <2>8, <3>3
      <4> QED
        BY ONLY <4>1, ConcatAssociative
    <3> QED
      BY <3>1, <3>4 DEF x, p
  <2> QED
    BY <2>11, <2>12
<1> QED
  BY <1>4, <1>5

\* A context holds nothing that is not in the session.
RecentsIn(entries, inf) ==
    \A m \in ToSet(entries) : inf[m].role = "summary" => inf[m].recent \in Seq(ToSet(entries))

LEMMA ContextElements ==
    ASSUME NEW S, NEW s \in Seq(S), NEW inf, FirstsIn(s, inf), RecentsIn(s, inf)
    PROVE  Context(s, inf) \in Seq(ToSet(s)) /\ ToSet(Context(s, inf)) \subseteq ToSet(s)
<1> DEFINE E == ToSet(s)
<1>1. s \in Seq(E)
  BY DEF ToSet
<1>2. \A m \in E : inf[m].role = "summary" => inf[m].recent \in Seq(E)
  BY DEF RecentsIn
<1> HIDE DEF E
<1>3. Context(s, inf) \in Seq(E)
  BY <1>1, <1>2, ContextType
<1> DEFINE x == Context(s, inf)
<1> HIDE DEF x
<1>4. x \in Seq(E)
  BY <1>3 DEF x
<1>5. ToSet(x) \subseteq E
  BY <1>4 DEF ToSet
<1> QED
  BY <1>3, <1>5 DEF x, E

(***************************************************************************)
(* The messages that did not fail.                                         *)
(***************************************************************************)
Bad(m, inf) == inf[m].outcome \in {"retryable", "fatal", "overflow", "silent"}
GoodIn(s, inf) == Filtered(s, {m \in ToSet(s) : ~Bad(m, inf)})

LEMMA GoodType ==
    ASSUME NEW S, NEW s \in Seq(S), NEW inf
    PROVE  GoodIn(s, inf) \in Seq(S)
<1> DEFINE G == {m \in ToSet(s) : ~Bad(m, inf)}
<1> HIDE DEF G
<1>1. Filtered(s, G) \in Seq(S \cap G)
  BY FilteredElements
<1> DEFINE f == Filtered(s, G)
<1> HIDE DEF f
<1>2. f \in Seq(S)
  BY <1>1 DEF f
<1> QED
  BY <1>2 DEF f, G, GoodIn

LEMMA GoodConcat ==
    ASSUME NEW S, NEW s \in Seq(S), NEW t \in Seq(S), NEW inf
    PROVE  GoodIn(s \o t, inf) = GoodIn(s, inf) \o GoodIn(t, inf)
<1> DEFINE G == {m \in ToSet(s \o t) : ~Bad(m, inf)}
           A == {m \in ToSet(s) : ~Bad(m, inf)}
           B == {m \in ToSet(t) : ~Bad(m, inf)}
<1>1. ToSet(s \o t) = ToSet(s) \cup ToSet(t)
  BY ConcatElements
<1>2. ToSet(s) \cap G = ToSet(s) \cap A /\ ToSet(t) \cap G = ToSet(t) \cap B
  BY <1>1
<1> HIDE DEF G, A, B
<1>3. Filtered(s \o t, G) = Filtered(s, G) \o Filtered(t, G)
  BY FilteredConcat
<1>4. Filtered(s, G) = Filtered(s, A)
  BY <1>2, FilteredSame
<1>5. Filtered(t, G) = Filtered(t, B)
  BY <1>2, FilteredSame
<1> QED
  BY <1>3, <1>4, <1>5 DEF GoodIn, G, A, B

\* What has an outcome keeps it.
LEMMA GoodSame ==
    ASSUME NEW s, NEW inf, NEW jnf, \A m \in ToSet(s) : jnf[m].outcome = inf[m].outcome
    PROVE  GoodIn(s, jnf) = GoodIn(s, inf)
<1>1. {m \in ToSet(s) : ~Bad(m, jnf)} = {m \in ToSet(s) : ~Bad(m, inf)}
  BY DEF Bad
<1> QED
  BY <1>1 DEF GoodIn

\* A failed reply at the end may be dropped.
LEMMA GoodFront ==
    ASSUME NEW S, NEW s \in Seq(S), s # <<>>, NEW inf, Bad(Last(s), inf)
    PROVE  GoodIn(Front(s), inf) = GoodIn(s, inf)
<1> DEFINE f == Front(s)
           e == Last(s)
           G == {m \in ToSet(s) : ~Bad(m, inf)}
           A == {m \in ToSet(f) : ~Bad(m, inf)}
<1>1. f \in Seq(S) /\ e \in S /\ s = Append(f, e) /\ ToSet(s) = ToSet(f) \cup {e}
  BY FrontThenLast
<1>2. e \notin G /\ ToSet(f) \cap G = ToSet(f) \cap A
  BY <1>1
<1> HIDE DEF f, e, G, A
<1>3. Filtered(Append(f, e), G) = Filtered(f, G)
  BY <1>1, <1>2, FilteredAppend
<1>4. Filtered(f, G) = Filtered(f, A)
  BY <1>1, <1>2, FilteredSame
<1> QED
  BY <1>1, <1>3, <1>4 DEF GoodIn, G, A, f

LEMMA GoodIs == ASSUME NEW s PROVE Good(s) = GoodIn(s, info)
  BY DEF Good, GoodIn, Failed, Overflows, Bad

(***************************************************************************)
(* What an undisturbed session's steps do.                                 *)
(***************************************************************************)

\* Only the reply of the run gets its outcome.
LEMMA OutcomesKept ==
    ASSUME TypeInv, Next
    PROVE  \A m \in Ids : m \notin Replying => info'[m].outcome = info[m].outcome
<1>1. Infos /\ Runs /\ Changes /\ Len(info) \in Nat /\ Ids = 1 .. Len(info)
  BY StepsChange DEF TypeInv, Infos, Ids
<1>2. ASSUME NEW inf \in Seq(MessageType), NEW x, Len(info) <= Len(inf),
             info' \in {inf, Append(inf, x)},
             \A m \in Ids : m \notin Replying => inf[m].outcome = info[m].outcome
      PROVE  \A m \in Ids : m \notin Replying => info'[m].outcome = info[m].outcome
  <2>1. \A m \in 1 .. Len(inf) : Append(inf, x)[m] = inf[m]
    BY <1>2
  <2>2. Ids \subseteq 1 .. Len(inf)
    BY <1>1, <1>2
  <2>3. \A m \in Ids : info'[m] = inf[m]
    BY <1>2, <2>1, <2>2
  <2> QED
    BY <1>2, <2>3
<1>3. CASE info' = info
  BY <1>3
<1>4. CASE \E x : info' = Append(info, x)
  <2>1. info \in Seq(MessageType) /\ Len(info) <= Len(info)
    BY <1>1 DEF Infos
  <2> QED
    BY <1>2, <1>4, <2>1
<1>5. CASE Replies
  <2>1. PICK outcome \in scenario.outcomes \cup {"aborted"} : Reply(outcome)
    BY <1>5 DEF Replies
  <2> DEFINE inf == [info EXCEPT ![run.reply].outcome = outcome]
  <2>2. info' \in {inf, Append(inf, New("assistant"))} /\ run.state = "turn"
    BY Zenon, <2>1 DEF Reply
  <2>3. run.reply \in Ids /\ Replying = {run.reply}
    BY <1>1, <2>2 DEF Runs, Replying
  <2>4. inf \in Seq(MessageType) /\ Len(info) <= Len(inf)
    <3>1. Later(inf)
      BY <1>1, <2>2, LaterOutcome DEF Runs
    <3> QED
      BY <3>1 DEF Later
  <2>5. \A m \in Ids : m # run.reply => inf[m] = info[m]
    BY <1>1, <2>3 DEF Infos
  <2> HIDE DEF inf
  <2> QED
    BY <1>2, <2>2, <2>3, <2>4, <2>5
<1>6. CASE Continues \/ Submits
  <2>1. PICK inf : /\ inf = info \/ inf = Prompted
                   /\ info' = info \/ info' = Append(inf, New("assistant"))
    <3>1. Starting
      BY <1>6, StartsAre
    <3>2. ASSUME NEW inf, NEW ms, NEW owner, StartedBy(inf, ms, owner)
          PROVE  info' = Append(inf, New("assistant"))
      BY Zenon, <3>2, StartRunIs DEF BeginTurn, StartedBy
    <3> QED
      BY Zenon, <3>1, <3>2 DEF Starting
  <2>2. CASE inf = info
    BY <1>3, <1>4, <2>1, <2>2
  <2>3. CASE inf = Prompted /\ info' = Append(inf, New("assistant"))
    <3> DEFINE e == New("user")
               f == New("assistant")
    <3>1. e \in MessageType
      BY NewType
    <3> HIDE DEF e, f
    <3>2. inf = Append(info, e) /\ info' = Append(inf, f)
      BY <2>3 DEF Prompted, e, f
    <3>3. inf \in Seq(MessageType) /\ Len(info) <= Len(inf) /\ \A m \in Ids : inf[m] = info[m]
      BY <1>1, <3>1, <3>2 DEF Infos
    <3> QED
      BY <1>2, <3>2, <3>3
  <2> QED
    BY <1>3, <2>1, <2>2, <2>3
<1>7. CASE Steer \/ RecordBash
  BY <1>4, <1>7 DEF Steer, RecordBash
<1>8. CASE Saves
  BY <1>4, <1>8 DEF Saves, SaveCompaction
<1> QED
  BY Zenon, <1>1, <1>3, <1>5, <1>6, <1>7, <1>8 DEF Changes

\* What has been called stays so.
LEMMA UsedStep ==
    ASSUME Next
    PROVE  used \subseteq used' /\ (Compact => "compact" \in used')
<1> USE DEF clientVars
<1>1. CASE Steer \/ ClearQueue \/ RecordBash \/ Abort \/ AbortCompaction \/ Compact
  <2>1. \E op : Use(op)
    BY <1>1 DEF Steer, ClearQueue, RecordBash, Abort, AbortCompaction, Compact
  <2>2. Compact => Use("compact")
    BY DEF Compact
  <2> QED
    BY <2>1, <2>2 DEF Use
<1>2. CASE Replies \/ FinishRun \/ Continues \/ TakeEvent \/ PersistMessage \/ EventFails
           \/ NothingToDecide
  <2>1. used' = used
    BY <1>2 DEF Replies, Reply, FinishRun, Continues, Continue, TakeEvent, PersistMessage, EventFails,
       NothingToDecide
  <2>2. Compact => Use("compact")
    BY DEF Compact
  <2> QED
    BY <2>1, <2>2 DEF Use
<1>3. CASE BeginBackoff \/ EndBackoff \/ Decides \/ Prompts \/ Refuses \/ Submits
  <2>1. used' = used
    BY <1>3 DEF BeginBackoff, EndBackoff, Decides, Decide, Prompts, Prompt, Refuses, PromptRefused,
       Submits, Submit
  <2>2. Compact => Use("compact")
    BY DEF Compact
  <2> QED
    BY <2>1, <2>2 DEF Use
<1>4. CASE CompactIdle \/ Prepares \/ Saves \/ Ends \/ Fails
  <2>1. used' = used
    BY <1>4 DEF CompactIdle, Prepares, Prepare, Saves, SaveCompaction, Ends, EndCompaction, Fails,
       CompactionFails
  <2>2. Compact => Use("compact")
    BY DEF Compact
  <2> QED
    BY <2>1, <2>2 DEF Use
<1> QED
  BY Zenon, Actions, <1>1, <1>2, <1>3, <1>4

\* Without a manual compaction the session listens all the time.
Listens == connected = TRUE /\ compaction["manual"].phase = "none"

LEMMA ListensStep ==
    ASSUME TypeInv, Listens, Next, Undisturbed'
    PROVE  Undisturbed /\ Listens' /\ ~Compact /\ ~EventFails
<1>1. Changes /\ compaction \in [Compactors -> CompactionType] /\ "manual" \in Compactors
      /\ "manual" # "queue" /\ "manual" \notin scenario.callers
  BY StepsChange, CompactionTypes, CallersAssumption, ScenariosAssumption
     DEF TypeInv, Infos, Compactions
<1>2. Undisturbed /\ ~Compact /\ ~EventFails
  BY <1>1, UsedStep DEF Undisturbed, Changes, EventFails
<1>3. compaction'["manual"].phase = "none"
  <2>1. CASE Decides
    <3>1. compaction' = compaction \/ \E x : compaction' = [compaction EXCEPT !["queue"] = x]
      BY <2>1 DEF Decides, Decide, BeginCompaction, compactVars
    <3> QED
      BY <1>1, <3>1 DEF Listens
  <2>2. CASE Prompts
    <3>1. \/ compaction' = compaction
          \/ \E c \in scenario.callers : \E x : compaction' = [compaction EXCEPT ![c] = x]
      BY <2>2 DEF Prompts, Prompt, BeginCompaction, compactVars
    <3> QED
      BY <1>1, <3>1 DEF Listens
  <2>3. ~CompactIdle
    BY DEF Listens, CompactIdle
  <2>4. CASE Prepares \/ Saves
    <3>1. PICK k \in Compactors : Prepare(k) \/ \E replaces \in BOOLEAN : SaveCompaction(k, replaces)
      BY <2>4 DEF Prepares, Saves
    <3>2. compaction[k].phase \in {"key", "summary"} /\ \E x : compaction' = [compaction EXCEPT ![k] = x]
      BY <3>1 DEF Prepare, SaveCompaction
    <3> QED
      BY <1>1, <3>2 DEF Listens
  <2>5. CASE Ends \/ Fails
    <3>1. \E k \in Compactors : compaction' = [compaction EXCEPT ![k] = NoCompaction]
      BY <2>5 DEF Ends, Fails, EndCompaction, CompactionFails, LeaveCompaction
    <3> QED
      BY <1>1, <3>1 DEF NoCompaction, Listens
  <2> QED
    BY Zenon, <1>1, <1>2, <2>1, <2>2, <2>3, <2>4, <2>5 DEF Changes, Listens
<1>4. connected' = TRUE
  <2>1. CASE Ends \/ Fails
    BY <2>1 DEF Ends, Fails, EndCompaction, CompactionFails, LeaveCompaction, Listens
  <2> QED
    BY <1>1, <1>2, <2>1 DEF Changes, Listens
<1> QED
  BY <1>2, <1>3, <1>4 DEF Listens

(***************************************************************************)
(* What summaries keep of the user's messages is in the session.           *)
(***************************************************************************)
Recents ==
    /\ RecentsIn(log, info)
    /\ \A k \in Compactors : compaction[k].phase = "summary" =>
           compaction[k].recent \in Seq(ToSet(log))

LEMMA RecentsStep ==
    ASSUME TypeInv, Recents, Next
    PROVE  Recents'
<1>1. /\ Infos /\ Lists /\ Compactions /\ Changes /\ Later(info') /\ ToSet(log) \subseteq ToSet(log')
      /\ compaction \in [Compactors -> CompactionType] /\ Ids \subseteq Ids'
  BY InfoStep, StepsChange, LogStep, Grown DEF TypeInv, Compactions
<1>2. /\ log \in Seq(ToSet(log)) /\ ToSet(log) \subseteq Ids /\ Seq(ToSet(log)) \subseteq Seq(ToSet(log'))
      /\ \A m \in Ids : info'[m].role = info[m].role /\ info'[m].recent = info[m].recent
  <2>1. log \in Seq(ToSet(log)) /\ ToSet(log) \subseteq Ids
    BY <1>1 DEF Lists, ToSet
  <2>2. \A s \in Seq(ToSet(log)) : s \in Seq(ToSet(log'))
    BY <1>1, WiderSequence
  <2> QED
    BY <1>1, <2>1, <2>2 DEF Later
<1>3. \A m \in ToSet(log) : info'[m].role = "summary" => info'[m].recent \in Seq(ToSet(log'))
  BY <1>2 DEF Recents, RecentsIn
<1>4. ASSUME NEW m \in ToSet(log') \ ToSet(log), info'[m].role = "summary"
      PROVE  info'[m].recent \in Seq(ToSet(log'))
  <2>1. CASE PersistMessage \/ Prompts
    <3>1. ToSet(log') \subseteq ToSet(log) \cup Spoken \cup Bashes
      <4>1. CASE PersistMessage
        <5>1. log' = Append(log, Current.msg) /\ Current.msg \in Spoken
          BY <4>1, UnhandledType DEF TypeInv, Queue, PersistMessage
        <5>2. log \in Seq(Ids) /\ Current.msg \in Ids
          BY <1>1, <5>1 DEF Lists, Spoken
        <5> DEFINE e == Current.msg
        <5> HIDE DEF e
        <5>3. ToSet(Append(log, e)) = ToSet(log) \cup {e}
          BY <5>2, AppendElements DEF e
        <5> QED
          BY <5>1, <5>3 DEF e
      <4>2. CASE Prompts
        <5>1. log' = log \o pendingBash
          BY <4>2 DEF Prompts, Prompt, FlushedLog
        <5>2. log \in Seq(Ids) /\ pendingBash \in Seq(Ids) /\ ToSet(pendingBash) \subseteq Bashes
          <6>1. pendingBash \in Seq(Bashes) /\ Bashes \subseteq Ids
            BY <1>1 DEF Lists, Bashes
          <6> QED
            BY <1>1, <6>1, WiderSequence DEF Lists, ToSet
        <5>3. ToSet(log \o pendingBash) = ToSet(log) \cup ToSet(pendingBash)
          BY <5>2, ConcatElements
        <5> QED
          BY <5>1, <5>2, <5>3
      <4> QED
        BY <2>1, <4>1, <4>2
    <3>2. m \in Spoken \cup Bashes
      BY <1>4, <3>1
    <3> QED
      BY <1>2, <1>4, <3>2 DEF Spoken, Bashes, Role
  <2>2. ASSUME log' = log \/ log' = Append(log, NextId)
        PROVE  m = NextId
    <3>1. CASE log' = log
      BY <1>4, <3>1
    <3>2. CASE log' = Append(log, NextId)
      <4> DEFINE T == ToSet(log) \cup {NextId}
      <4>1. log \in Seq(T) /\ NextId \in T
        BY <1>2
      <4> HIDE DEF T
      <4>2. ToSet(log') = ToSet(log) \cup {NextId}
        BY <3>2, <4>1, AppendElements
      <4> QED
        BY <1>4, <4>2
    <3> QED
      BY <2>2, <3>1, <3>2
  <2>3. CASE RecordBash
    <3>1. m = NextId /\ info' = Append(info, New("bash"))
      BY <2>2, <2>3 DEF RecordBash
    <3>2. "bash" \in {"user", "assistant", "bash", "summary"}
      OBVIOUS
    <3>3. info'[NextId].role = "bash"
      BY <1>1, <3>1, <3>2, NewMessage
    <3> QED
      BY <1>4, <3>1, <3>3
  <2>4. CASE Saves
    <3>1. PICK k \in Compactors, replaces \in BOOLEAN : SaveCompaction(k, replaces)
      BY <2>4 DEF Saves
    <3> DEFINE summary == [New("summary") EXCEPT !.first = compaction[k].first,
                              !.recent = compaction[k].recent, !.replaces = replaces]
    <3>2. info' = Append(info, summary) /\ log' = Append(log, NextId) /\ compaction[k].phase = "summary"
      BY Zenon, <3>1 DEF SaveCompaction
    <3>3. summary.recent = compaction[k].recent
      BY DEF New
    <3> HIDE DEF summary
    <3>4. m = NextId /\ info'[NextId] = summary
      BY <1>1, <2>2, <3>2 DEF Infos, NextId
    <3> QED
      BY <1>2, <3>2, <3>3, <3>4 DEF Recents
  <2>5. log' # log
    BY <1>4
  <2> QED
    BY Zenon, <1>1, <2>1, <2>3, <2>4, <2>5 DEF Changes
<1>5. ASSUME NEW k \in Compactors, compaction'[k].phase = "summary"
      PROVE  compaction'[k].recent \in Seq(ToSet(log'))
  <2>1. CASE Prepares
    <3>1. PICK x \in Compactors : Prepare(x)
      BY <2>1 DEF Prepares
    <3>2. PICK first \in KeepPoints : compaction' = [compaction EXCEPT
               ![x].phase = "summary", ![x].first = first,
               ![x].recent = RecentUsers(first, compaction[x].reason)]
      BY Zenon, <3>1 DEF Prepare
    <3>3. RecentUsers(first, compaction[x].reason) \in Seq(ToSet(log))
      <4>1. first \in ToSet(log)
        BY KeepPointsIn
      <4> QED
        BY <1>2, <4>1, RecentUsersType
    <3> DEFINE r == RecentUsers(first, compaction[x].reason)
    <3> HIDE DEF r
    <3>4. compaction'[k].recent = r \/ (k # x /\ compaction'[k] = compaction[k])
      BY <1>1, <3>2 DEF r, CompactionType
    <3> QED
      BY <1>2, <1>5, <3>3, <3>4 DEF Recents, r
  <2>2. CASE ~Prepares
    <3>1. compaction'[k] = compaction[k]
      <4>1. CASE Decides \/ Prompts
        <5>1. \/ compaction' = compaction
              \/ \E x \in Compactors : \E reason : compaction' =
                    [compaction EXCEPT ![x] = [NoCompaction EXCEPT !.phase = "key", !.reason = reason]]
          <6>1. scenario.callers \subseteq Compactors /\ "queue" \in Compactors
            BY ScenariosAssumption DEF TypeInv, Infos, Compactors
          <6> QED
            BY <4>1, <6>1 DEF Decides, Decide, Prompts, Prompt, BeginCompaction, compactVars
        <5> QED
          BY <1>1, <1>5, <5>1 DEF NoCompaction, CompactionType
      <4>2. CASE Compact \/ CompactIdle
        <5>1. \E phase \in {"idle", "key"} : compaction' = [compaction EXCEPT !["manual"].phase = phase]
          BY <4>2 DEF Compact, CompactIdle
        <5> QED
          BY <1>1, <1>5, <5>1 DEF CompactionType
      <4>3. CASE Ends \/ Fails
        <5>1. \E x \in Compactors : compaction' = [compaction EXCEPT ![x] = NoCompaction]
          BY <4>3 DEF Ends, Fails, EndCompaction, CompactionFails, LeaveCompaction
        <5> QED
          BY <1>1, <1>5, <5>1 DEF NoCompaction, CompactionType
      <4>4. CASE Saves
        <5>1. \E x \in Compactors : compaction' = [compaction EXCEPT ![x].phase = "saved"]
          BY <4>4 DEF Saves, SaveCompaction
        <5> QED
          BY <1>1, <1>5, <5>1 DEF CompactionType
      <4> QED
        BY Zenon, <1>1, <2>2, <4>1, <4>2, <4>3, <4>4 DEF Changes
    <3> QED
      BY <1>2, <1>5, <3>1 DEF Recents
  <2> QED
    BY <2>1, <2>2
<1> QED
  BY <1>3, <1>4, <1>5 DEF Recents, RecentsIn

\* Two filters are one.
LEMMA FilteredTwice ==
    ASSUME NEW T, NEW s \in Seq(T), NEW S, NEW R
    PROVE  Filtered(Filtered(s, S), R) = Filtered(s, S \cap R)
<1> DEFINE P == {u \in Seq(T) : Filtered(Filtered(u, S), R) = Filtered(u, S \cap R)}
<1>1. <<>> \in P
  BY FilteredEmpty
<1>2. ASSUME NEW u \in Seq(T), NEW e \in T, u \in P
      PROVE  Append(u, e) \in P
  <2> DEFINE f == Filtered(u, S)
             U == S \cap R
  <2>1. Append(u, e) \in Seq(T)
    BY AppendElements
  <2>2. f \in Seq(T)
    <3>1. Filtered(u, S) \in Seq(T \cap S)
      BY FilteredElements
    <3> QED
      BY <3>1
  <2>3. Filtered(f, R) = Filtered(u, U)
    BY <1>2
  <2> HIDE DEF U
  <2> DEFINE a == Append(u, e)
             b == Append(f, e)
             WithR == Append(Filtered(f, R), e)
             WithU == Append(Filtered(u, U), e)
  <2>4. Filtered(a, S) = IF e \in S THEN b ELSE f
    BY FilteredAppend
  <2>5. Filtered(a, U) = IF e \in U THEN WithU ELSE Filtered(u, U)
    BY FilteredAppend
  <2> HIDE DEF f
  <2>6. Filtered(b, R) = IF e \in R THEN WithR ELSE Filtered(f, R)
    BY <2>2, FilteredAppend
  <2>7. WithR = WithU /\ (e \in U <=> e \in S /\ e \in R)
    BY <2>3 DEF U
  <2> HIDE DEF a, b, WithR, WithU
  <2>8. Filtered(Filtered(a, S), R) = Filtered(a, U)
    BY <2>3, <2>4, <2>5, <2>6, <2>7
  <2> QED
    BY <2>1, <2>8 DEF U, a
<1> HIDE DEF P
<1>3. s \in P
  BY <1>1, <1>2, SequenceInduction
<1> QED
  BY <1>3 DEF P

LEMMA TailOfConcat ==
    ASSUME NEW S, NEW s \in Seq(S), NEW t \in Seq(S), s # <<>>
    PROVE  Tail(s \o t) = Tail(s) \o t
<1> DEFINE x == s \o t
           y == Tail(x)
           p == Tail(s)
           z == p \o t
<1>1. /\ x \in Seq(S) /\ Len(x) = Len(s) + Len(t) /\ Len(s) \in Nat \ {0} /\ Len(t) \in Nat
      /\ \A i \in 1 .. Len(s) : x[i] = s[i]
      /\ \A i \in 1 .. Len(t) : x[Len(s) + i] = t[i]
  BY ConcatElements
<1> HIDE DEF x
<1>2. x # <<>>
  BY <1>1
<1>3. y \in Seq(S) /\ Len(x) = Len(y) + 1 /\ \A i \in 1 .. Len(y) : y[i] = x[i + 1]
  BY <1>1, <1>2, HeadAndTail
<1>4. p \in Seq(S) /\ Len(s) = Len(p) + 1 /\ \A i \in 1 .. Len(p) : p[i] = s[i + 1]
  BY HeadAndTail
<1> HIDE DEF y, p
<1>5. /\ z \in Seq(S) /\ Len(z) = Len(p) + Len(t)
      /\ \A i \in 1 .. Len(p) : z[i] = p[i]
      /\ \A i \in 1 .. Len(t) : z[Len(p) + i] = t[i]
  <2>1. p \in Seq(S) /\ t \in Seq(S)
    BY <1>4
  <2> QED
    BY ONLY <2>1, ConcatElements
<1> HIDE DEF z
<1>6. Len(p) \in Nat /\ Len(y) = Len(z)
  BY <1>1, <1>3, <1>4, <1>5
<1>7. \A i \in 1 .. Len(y) : y[i] = z[i]
  <2> SUFFICES ASSUME NEW i \in 1 .. Len(y) PROVE y[i] = z[i]
    OBVIOUS
  <2>1. CASE i <= Len(p)
    <3>1. i \in 1 .. Len(p) /\ i + 1 \in 1 .. Len(s)
      BY <1>1, <1>4, <1>6, <2>1
    <3>2. z[i] = s[i + 1] /\ x[i + 1] = s[i + 1] /\ y[i] = x[i + 1]
      BY <1>1, <1>3, <1>4, <1>5, <3>1
    <3> QED
      BY <3>2
  <2>2. CASE i > Len(p)
    <3> DEFINE j == i - Len(p)
    <3>1. j \in 1 .. Len(t) /\ i = Len(p) + j /\ i + 1 = Len(s) + j
      BY <1>1, <1>3, <1>4, <1>5, <1>6, <2>2
    <3> HIDE DEF j
    <3>2. z[i] = t[j] /\ x[Len(s) + j] = t[j] /\ y[i] = x[Len(s) + j]
      BY <1>1, <1>3, <1>5, <3>1
    <3> QED
      BY <3>2
  <2> QED
    BY <1>6, <2>1, <2>2
<1> QED
  BY <1>3, <1>5, <1>6, <1>7, SeqEqual DEF y, z, x, p

(***************************************************************************)
(* The messages shown as queued.                                           *)
(***************************************************************************)

\* The events whose turn has not come.
Ahead == IF handler = "free" THEN events ELSE Tail(events)
Untaken == MessagesIn(Ahead)

\* What is shown is with the agent still, or its event has not been taken.
Shown ==
    /\ steeringShown \in Seq(Users)
    /\ ToSet(steeringShown) \subseteq ToSet(steering) \cup ToSet(Untaken)
    /\ Filtered(steeringShown, ToSet(steering)) = steering

LEMMA AheadType ==
    ASSUME Queue
    PROVE  /\ Ahead \in Seq(EventsOf(Spoken))
           /\ handler = "free" /\ events # <<>> =>
                 \A m \in ToSet(Untaken) : m \in ToSet(MessagesIn(Tail(events)))
                                           \/ (Current.type = "message" /\ m = Current.msg)
<1>1. events \in Seq(EventsOf(Spoken)) /\ Spoken \in SUBSET Nat
  BY DEF Queue, Spoken, Ids
<1>2. events # <<>> => Tail(events) \in Seq(EventsOf(Spoken))
  BY <1>1, HeadAndTail
<1>3. Ahead \in Seq(EventsOf(Spoken))
  BY <1>1, <1>2 DEF Ahead, Queue
<1>4. ASSUME handler = "free", events # <<>>, NEW m \in ToSet(Untaken)
      PROVE  \/ m \in ToSet(MessagesIn(Tail(events)))
             \/ Current.type = "message" /\ m = Current.msg
  <2> DEFINE h == Current.msg
             rest == MessagesIn(Tail(events))
  <2>1. /\ h \in Spoken /\ rest \in Seq(Spoken)
        /\ Untaken = IF Current.type = "message" THEN <<h>> \o rest ELSE rest
    BY <1>1, <1>4, MessagesInTail DEF Untaken, Ahead, Current
  <2> HIDE DEF h, rest
  <2>2. ToSet(<<h>> \o rest) = {h} \cup ToSet(rest)
    <3>1. <<h>> \in Seq(Spoken) /\ ToSet(<<h>>) = {h}
      BY <2>1, FewElements
    <3> DEFINE o == <<h>>
    <3>2. o \in Seq(Spoken)
      BY <3>1
    <3> HIDE DEF o
    <3>3. ToSet(o \o rest) = ToSet(o) \cup ToSet(rest)
      BY ONLY <2>1, <3>2, ConcatElements
    <3> QED
      BY <3>1, <3>3 DEF o
  <2> QED
    BY <1>4, <2>1, <2>2 DEF h, rest
<1> QED
  BY <1>3, <1>4

\* A run takes the message that was steered first.
LEMMA ShownPolled ==
    ASSUME Lists, Shown, IsInjective(steering), steering # <<>>
    PROVE  Filtered(steeringShown, ToSet(Tail(steering))) = Tail(steering)
<1> DEFINE t == Tail(steering)
           h == Head(steering)
           S == ToSet(steering)
           R == ToSet(t)
<1>1. /\ steering \in Seq(Users) /\ t \in Seq(Users) /\ h \in Users /\ steeringShown \in Seq(Users)
      /\ <<h>> \o t = steering /\ S = {h} \cup R /\ h \notin R /\ h = Head(steering)
  BY HeadAndTail, HeadThenTail, InjectiveTail DEF Lists, Shown
<1>2. Filtered(steeringShown, S) = steering
  BY DEF Shown
<1>3. Filtered(steering, R) = IF h \in R THEN <<h>> \o Filtered(t, R) ELSE Filtered(t, R)
  BY FilteredTail DEF Lists
<1> HIDE DEF t, h
<1>4. Filtered(t, R) = t
  BY <1>1, FilteredWhole
<1>5. S \cap R = R
  BY <1>1
<1> HIDE DEF S, R
<1>6. Filtered(Filtered(steeringShown, S), R) = Filtered(steeringShown, S \cap R)
  BY <1>1, FilteredTwice
<1>7. Filtered(steeringShown, R) = t
  BY <1>1, <1>2, <1>3, <1>4, <1>5, <1>6
<1> QED
  BY <1>7 DEF t, R

\* What the agent says waits for its turn.
LEMMA SaidIsAhead ==
    ASSUME TypeInv, Next, NEW evs, NEW ms, Speaks(evs, ms), connected = TRUE, handler' = handler
    PROVE  ToSet(Untaken') = ToSet(Untaken) \cup ToSet(ms)
<1> DEFINE E == EventsOf(Spoken')
<1>1. evs \in Seq(E) /\ MessagesIn(evs) = ms /\ events' = events \o evs /\ ms \in Seq(Spoken')
  BY DEF Speaks, Emit
<1>2. events \in Seq(E) /\ Ahead \in Seq(E)
  <2>1. Spoken \subseteq Spoken'
    BY InfoStep, Grown DEF TypeInv
  <2>2. EventsOf(Spoken) \subseteq E
    BY <2>1 DEF EventsOf
  <2>3. events \in Seq(EventsOf(Spoken)) /\ Ahead \in Seq(EventsOf(Spoken))
    BY AheadType DEF TypeInv, Queue
  <2> HIDE DEF E
  <2> QED
    BY <2>2, <2>3, WiderSequence
<1>3. Ahead' = Ahead \o evs
  <2>1. CASE handler = "free"
    BY <1>1, <2>1 DEF Ahead
  <2>2. CASE handler # "free"
    <3>1. events # <<>>
      BY <2>2 DEF TypeInv, Queue
    <3> HIDE DEF E
    <3>2. Tail(events \o evs) = Tail(events) \o evs
      BY <1>1, <1>2, <3>1, TailOfConcat
    <3> QED
      BY <1>1, <2>2, <3>2 DEF Ahead
  <2> QED
    BY <2>1, <2>2
<1>4. /\ MessagesIn(Ahead) \in Seq(Spoken')
      /\ MessagesIn(Ahead \o evs) = MessagesIn(Ahead) \o MessagesIn(evs)
  <2> DEFINE a == Ahead
  <2>1. a \in Seq(E) /\ evs \in Seq(E)
    BY <1>1, <1>2
  <2> HIDE DEF a
  <2>2. MessagesIn(a) \in Seq(Spoken') /\ MessagesIn(a \o evs) = MessagesIn(a) \o MessagesIn(evs)
    BY <2>1, MessagesInConcat
  <2> QED
    BY <2>2 DEF a
<1> DEFINE u == MessagesIn(Ahead)
<1> HIDE DEF E, u
<1>5. u \in Seq(Spoken') /\ Untaken = u /\ Untaken' = u \o ms
  BY <1>1, <1>3, <1>4 DEF Untaken, u
<1>6. ToSet(u \o ms) = ToSet(u) \cup ToSet(ms)
  BY <1>1, <1>5, ConcatElements
<1> QED
  BY <1>5, <1>6

LEMMA ShownStep ==
    ASSUME TypeInv, Distinct, Shown, connected = TRUE, Next
    PROVE  Shown'
<1>1. /\ Infos /\ Lists /\ Queue /\ Changes /\ Later(info') /\ Users \subseteq Users'
      /\ steeringShown \in Seq(Users') /\ steering \in Seq(Users)
      /\ ToSet(steering) \subseteq Users /\ ToSet(steeringShown) \subseteq Users
  <2>1. Infos /\ Lists /\ Queue /\ Changes /\ Later(info') /\ Users \subseteq Users'
    BY InfoStep, StepsChange, Grown DEF TypeInv
  <2>2. steeringShown \in Seq(Users) /\ steering \in Seq(Users)
    BY <2>1 DEF Shown, Lists
  <2>3. steeringShown \in Seq(Users')
    BY <2>1, <2>2, WiderSequence
  <2> QED
    BY <2>1, <2>2, <2>3 DEF ToSet
<1>2. ASSUME steering' = steering, steeringShown' = steeringShown, Ahead' = Ahead
      PROVE  Shown'
  BY <1>1, <1>2 DEF Shown, Untaken
<1>3. CASE Replies \/ Continues \/ Submits
  <2>1. steeringShown' = steeringShown /\ handler' = handler
    <3>1. CASE Replies
      BY <3>1 DEF Replies, Reply
    <3>2. CASE Continues
      BY <3>2 DEF Continues, Continue
    <3>3. CASE Submits
      BY <3>3 DEF Submits, Submit
    <3> QED
      BY <1>3, <3>1, <3>2, <3>3
  <2>2. CASE UNCHANGED <<info, messages, run, steering, events, emitted>>
    BY <1>2, <2>1, <2>2 DEF Ahead
  <2>3. ASSUME NEW evs, NEW ms, Speaks(evs, ms)
        PROVE  Shown'
    <3>1. ToSet(Untaken') = ToSet(Untaken) \cup ToSet(ms)
      BY <2>1, <2>3, SaidIsAhead
    <3>2. CASE steering' = steering
      BY <1>1, <2>1, <3>1, <3>2 DEF Shown
    <3>3. CASE steering # <<>> /\ steering' = Tail(steering) /\ Head(steering) \in ToSet(ms)
      <4>1. ToSet(steering) = {Head(steering)} \cup ToSet(Tail(steering))
        BY <1>1, <3>3, HeadAndTail
      <4>2. Filtered(steeringShown, ToSet(Tail(steering))) = Tail(steering)
        BY <1>1, <3>3, ShownPolled DEF Distinct
      <4> QED
        BY <1>1, <2>1, <3>1, <3>3, <4>1, <4>2 DEF Shown
    <3> QED
      BY <2>3, <3>2, <3>3 DEF Speaks
  <2> QED
    BY <1>3, <2>2, <2>3, AgentSpeaks
<1>4. CASE Steer
  <2> DEFINE n == NextId
             S == ToSet(steering)
  <2>1. /\ steeringShown' = Append(steeringShown, n) /\ steering' = Append(steering, n)
        /\ events' = events /\ handler' = handler /\ info' = Append(info, New("user"))
    BY <1>4 DEF Steer, queueVars
  <2>2. n \in Users' /\ n \notin Ids
    <3>1. "user" \in {"user", "assistant", "bash", "summary"}
      OBVIOUS
    <3>2. n \in Fresh /\ info'[n].role = "user"
      BY <1>1, <2>1, <3>1, NewMessage, NewIsFresh
    <3> QED
      BY <3>2 DEF Fresh, Users, Role
  <2> HIDE DEF n
  <2>3. n \notin ToSet(steeringShown) /\ n \notin S
    BY <1>1, <2>2 DEF Users
  <2>4. /\ steeringShown' \in Seq(Users') /\ ToSet(steeringShown') = ToSet(steeringShown) \cup {n}
        /\ ToSet(steering') = S \cup {n}
    <3>1. steering \in Seq(Users')
      BY <1>1, WiderSequence
    <3> QED
      BY <1>1, <2>1, <2>2, <3>1, AppendElements
  <2>5. Filtered(steeringShown', S \cup {n}) = Append(Filtered(steeringShown, S \cup {n}), n)
    <3> DEFINE U == S \cup {n}
    <3>1. n \in U
      OBVIOUS
    <3> HIDE DEF U
    <3>2. Filtered(Append(steeringShown, n), U) = Append(Filtered(steeringShown, U), n)
      BY <1>1, <2>2, <3>1, FilteredAppend
    <3> QED
      BY <2>1, <3>2 DEF U
  <2>6. Filtered(steeringShown, S \cup {n}) = Filtered(steeringShown, S)
    <3> DEFINE U == S \cup {n}
    <3>1. ToSet(steeringShown) \cap U = ToSet(steeringShown) \cap S
      BY <2>3
    <3> HIDE DEF U
    <3>2. Filtered(steeringShown, U) = Filtered(steeringShown, S)
      BY <1>1, <3>1, FilteredSame
    <3> QED
      BY <3>2 DEF U
  <2>7. Untaken' = Untaken
    BY <2>1 DEF Untaken, Ahead
  <2> QED
    BY <2>1, <2>4, <2>5, <2>6, <2>7 DEF Shown
<1>5. CASE ClearQueue
  <2>1. steeringShown' = <<>> /\ steering' = <<>>
    BY <1>5 DEF ClearQueue
  <2>2. <<>> \in Seq(Users') /\ ToSet(<<>>) = {}
    BY DEF ToSet
  <2> QED
    BY <2>1, <2>2, FilteredEmpty DEF Shown
<1>6. CASE TakeEvent
  <2> DEFINE m == Current.msg
             S == ToSet(steering)
  <2>1. /\ handler = "free" /\ events # <<>> /\ handler' = "emitting" /\ events' = events
        /\ steering' = steering
        /\ IF Current.type = "message" /\ Role(m) = "user"
           THEN steeringShown' = ShownAfter(m) ELSE steeringShown' = steeringShown
    BY <1>6 DEF TakeEvent, agentVars
  <2>2. Untaken' = MessagesIn(Tail(events)) /\ Untaken = Unhandled /\ m \in Spoken
    BY <1>1, <2>1, UnhandledType DEF Untaken, Ahead, Unhandled
  <2>3. \A x \in ToSet(Untaken) : x \in ToSet(Untaken') \/ (Current.type = "message" /\ x = m)
    BY <1>1, <2>1, <2>2, AheadType
  <2>4. CASE Current.type = "message" /\ Role(m) = "user"
    <3> DEFINE R == ToSet(steeringShown) \ {m}
    <3>1. m \notin S
      <4>1. m \in ToSet(Unhandled)
        <5> DEFINE rest == MessagesIn(Tail(events))
        <5>1. Unhandled = <<m>> \o rest /\ rest \in Seq(Spoken)
          BY <1>1, <2>1, <2>4, UnhandledType
        <5> HIDE DEF m, rest
        <5>2. <<m>> \in Seq(Spoken) /\ ToSet(<<m>>) = {m}
          BY <2>2, FewElements
        <5> DEFINE o == <<m>>
        <5>3. o \in Seq(Spoken) /\ ToSet(o) = {m}
          BY <5>2
        <5> HIDE DEF o
        <5>4. ToSet(o \o rest) = ToSet(o) \cup ToSet(rest)
          BY <5>1, <5>3, ConcatElements
        <5> QED
          BY <5>1, <5>3, <5>4 DEF o
      <4> QED
        BY <4>1 DEF Distinct
    <3>2. steeringShown' = Filtered(steeringShown, R)
      BY <2>1, <2>4 DEF ShownAfter
    <3> HIDE DEF m, S, R
    <3>3. /\ Filtered(steeringShown, R) \in Seq(Users' \cap R)
          /\ ToSet(Filtered(steeringShown, R)) = ToSet(steeringShown) \cap R
      BY <1>1, FilteredElements
    <3> DEFINE f == Filtered(steeringShown, R)
    <3>a. f \in Seq(Users' \cap R) /\ ToSet(f) = ToSet(steeringShown) \cap R /\ steeringShown' = f
      BY <3>2, <3>3
    <3> HIDE DEF f
    <3>b. f \in Seq(Users')
      BY <3>a, WiderSequence
    <3>4. steeringShown' \in Seq(Users') /\ ToSet(steeringShown') = ToSet(steeringShown) \ {m}
      BY <3>a, <3>b DEF R
    <3>5. Filtered(Filtered(steeringShown, R), S) = Filtered(steeringShown, R \cap S)
      BY <1>1, FilteredTwice
    <3>6. Filtered(steeringShown, R \cap S) = Filtered(steeringShown, S)
      <4> DEFINE U == R \cap S
      <4>1. ToSet(steeringShown) \cap U = ToSet(steeringShown) \cap S
        BY <3>1 DEF R
      <4> HIDE DEF U
      <4>2. Filtered(steeringShown, U) = Filtered(steeringShown, S)
        BY <1>1, <4>1, FilteredSame
      <4> QED
        BY <4>2 DEF U
    <3>7. Filtered(steeringShown', S) = steering /\ ToSet(steeringShown) \subseteq S \cup ToSet(Untaken)
      BY <3>2, <3>5, <3>6 DEF Shown, S
    <3>8. ToSet(steeringShown') \subseteq S \cup ToSet(Untaken')
      BY <2>3, <3>4, <3>7
    <3> QED
      BY <2>1, <3>4, <3>7, <3>8 DEF Shown, S
  <2>5. CASE ~(Current.type = "message" /\ Role(m) = "user")
    <3>1. ToSet(steeringShown) \subseteq S \cup ToSet(Untaken')
      <4> SUFFICES ASSUME NEW x \in ToSet(steeringShown), x \notin S PROVE x \in ToSet(Untaken')
        OBVIOUS
      <4>1. x \in ToSet(Untaken) /\ Role(x) = "user"
        BY <1>1 DEF Shown, Users
      <4> QED
        BY <2>3, <2>5, <4>1
    <3> QED
      BY <1>1, <2>1, <2>5, <3>1 DEF Shown
  <2> QED
    BY <2>4, <2>5
\* Any other step leaves what is ahead as it is.
<1>7. CASE ~(Replies \/ Continues \/ Submits \/ Steer \/ ClearQueue \/ TakeEvent)
  <2>1. steering' = steering /\ steeringShown' = steeringShown
    BY Zenon, <1>1, <1>7 DEF Changes
  <2> DEFINE Handled == handler # "free" /\ EventDone
             Going == handler # "free" /\ handler' # "free" /\ events' = events
             Resting == handler' = handler /\ events' = events
  <2>2. Handled \/ Going \/ Resting => Ahead' = Ahead
    BY DEF EventDone, Ahead
  <2>4. PersistMessage \/ EventFails \/ NothingToDecide \/ EndBackoff => Handled
    BY DEF PersistMessage, EventFails, NothingToDecide, EndBackoff
  <2>5. BeginBackoff => Going
    BY DEF BeginBackoff, Deciding
  <2>6. Decides => Handled \/ Going
    BY DEF Decides, Decide, Deciding
  <2>7. Ends \/ Fails => Handled \/ Resting
    <3> SUFFICES ASSUME Ends \/ Fails PROVE Handled \/ Resting
      OBVIOUS
    <3>1. PICK k \in Compactors : EndCompaction(k) \/ CompactionFails(k)
      BY Zenon DEF Ends, Fails
    <3>2. compaction[k].phase \in {"key", "summary", "saved"} /\ LeaveCompaction(k)
      BY <3>1 DEF EndCompaction, CompactionFails
    <3>3. CASE k = "queue"
      <4>1. handler # "free"
        BY <1>1, <3>2, <3>3 DEF Queue
      <4> QED
        BY <3>2, <3>3, <4>1 DEF LeaveCompaction
    <3>4. CASE k # "queue"
      BY <3>2, <3>4 DEF LeaveCompaction
    <3> QED
      BY <3>3, <3>4
  <2>8. Handled \/ Going \/ Resting
    <3> HIDE DEF Handled, Going
    <3> QED
      BY Zenon, <1>1, <1>7, <2>4, <2>5, <2>6, <2>7 DEF Changes
  <2>9. Ahead' = Ahead
    BY <2>2, <2>8
  <2> QED
    BY <1>2, <2>1, <2>9
<1> QED
  BY <1>3, <1>4, <1>5, <1>6, <1>7

(***************************************************************************)
(* The reply that ended a run is the last of the agent's messages until    *)
(* the end of the run is decided upon.                                     *)
(***************************************************************************)
EndFollows ==
    \A n \in DOMAIN events : events[n].type = "agent_end" =>
        /\ IsAssistant(events[n].msg)
        /\ handler \in {"free", "emitting"} => messages # <<>> /\ Last(messages) = events[n].msg
        /\ n > 1 => events[n - 1] = Event("message", events[n].msg)
        /\ n = 1 /\ handler # "compacting" => lastAssistant = events[n].msg

\* Behind the end of a run nothing waits.
LEMMA EndAlone ==
    ASSUME Queue, EndIsLast, events # <<>>, Current.type = "agent_end"
    PROVE  Tail(events) = <<>> /\ Unhandled = <<>> /\ HasEnd
<1> DEFINE E == EventsOf(Spoken)
           t == Tail(events)
<1> HIDE DEF E
<1>1. events \in Seq(E)
  BY DEF Queue, E
<1>2. Head(events) = events[1] /\ t \in Seq(E) /\ Len(events) = Len(t) + 1
  BY <1>1, HeadAndTail
<1> HIDE DEF t
<1>3. 1 \in DOMAIN events /\ events[1].type = "agent_end" /\ Len(t) \in Nat
  BY <1>1, <1>2 DEF Current
<1>4. Len(events) = 1
  BY <1>3 DEF EndIsLast
<1>5. t = <<>>
  <2>1. Len(t) = 0
    BY <1>1, <1>2, <1>3, <1>4
  <2> QED
    BY <1>2, <2>1
<1>6. Unhandled = MessagesIn(<<>>)
  BY <1>3, <1>5, UnhandledType DEF t, Current
<1>7. MessagesIn(<<>>) = <<>>
  BY MessagesInOne
<1> QED
  BY <1>3, <1>5, <1>6, <1>7 DEF HasEnd, t

\* While a compaction goes on nothing is said and nothing waits.
LEMMA CompactingAlone ==
    ASSUME TypeInv, Calls, Threads, Listens, NEW k \in Compactors, compaction[k].phase # "none"
    PROVE  /\ Unhandled = <<>>
           /\ \/ k = "queue" /\ handler = "compacting" /\ Tail(events) = <<>>
              \/ k \in Callers /\ events = <<>>
<1>1. k # "manual"
  BY DEF Listens
<1>2. CASE k = "queue"
  <2>1. handler = "compacting" /\ events # <<>> /\ Current.type = "agent_end"
    BY <1>2 DEF TypeInv, Queue
  <2>2. Queue /\ EndIsLast
    BY DEF TypeInv, Threads
  <2>3. Tail(events) = <<>> /\ Unhandled = <<>>
    BY ONLY <2>1, <2>2, EndAlone
  <2> QED
    BY <1>2, <2>1, <2>3
<1>3. CASE k \in Callers
  <2>1. k \in Preparing
    BY <1>3 DEF Calls, Preparing
  <2>2. events = <<>>
    BY <2>1 DEF Threads
  <2>3. MessagesIn(<<>>) = <<>>
    BY MessagesInOne
  <2> QED
    BY <1>3, <2>2, <2>3 DEF Unhandled
<1> QED
  BY <1>1, <1>2, <1>3 DEF Compactors

\* The reply that is decided upon is the agent's last message.
LEMMA DecidedIsLast ==
    ASSUME TypeInv, EndFollows, Deciding
    PROVE  messages # <<>> /\ Last(messages) = lastAssistant
<1>1. events # <<>> /\ handler = "emitting" /\ Current.type = "agent_end"
  BY DEF Deciding, TypeInv, Queue
<1>2. events \in Seq(EventsOf(Spoken))
  BY DEF TypeInv, Queue
<1>3. Current = events[1] /\ 1 \in DOMAIN events
  BY <1>1, <1>2 DEF Current
<1> QED
  BY <1>1, <1>3 DEF EndFollows

LEMMA EndFollowsStep ==
    ASSUME RetryInv, ResumesAlone, Listens, EndFollows, Next, Undisturbed'
    PROVE  EndFollows'
<1>1. /\ TypeInv /\ Calls /\ Threads /\ Threads' /\ Changes /\ Later(info') /\ ~Compact /\ ~EventFails
      /\ scenario.client = "patient" /\ events \in Seq(EventsOf(Spoken)) /\ Spoken \subseteq Ids
  <2>1. TypeInv /\ Calls /\ Limits /\ FirstPrompt /\ Threads
    BY DEF RetryInv
  <2>2. Threads'
    BY <2>1, ThreadsStep
  <2>3. ~Compact /\ ~EventFails
    BY <2>1, ListensStep
  <2> QED
    BY <2>1, <2>2, <2>3, StepsChange, InfoStep DEF TypeInv, ResumesAlone, Queue, Spoken
<1>2. ~HasEnd' => EndFollows'
  BY DEF HasEnd, EndFollows
<1>3. HasEnd' => run'.state = "idle"
  BY <1>1 DEF Threads
<1>4. \A m \in Ids : IsAssistant(m) => info'[m].role = "assistant"
  BY <1>1 DEF Later, Ids, IsAssistant, Role
<1>0. \A n \in DOMAIN events : IsAssistant(events[n].msg) => info'[events[n].msg].role = "assistant"
  <2> SUFFICES ASSUME NEW n \in DOMAIN events, IsAssistant(events[n].msg)
               PROVE  info'[events[n].msg].role = "assistant"
    OBVIOUS
  <2>1. events[n] \in EventsOf(Spoken)
    BY <1>1
  <2>2. events[n].msg \in Ids
    BY <1>1, <2>1 DEF EventsOf
  <2> QED
    BY <1>4, <2>2
\* What waits is the same.
<1>5. ASSUME events' = events, handler' \in {"free", "emitting"} => handler \in {"free", "emitting"},
             handler' # "compacting" => handler # "compacting",
             handler' \in {"free", "emitting"} => messages' = messages,
             handler' # "compacting" => lastAssistant' = lastAssistant
      PROVE  EndFollows'
  BY <1>0, <1>5 DEF EndFollows, IsAssistant, Role
<1>6. ASSUME events # <<>>, Current.type = "agent_end", EventDone PROVE EndFollows'
  <2>1. events' = <<>>
    BY <1>1, <1>6, EndAlone DEF EventDone, TypeInv, Threads
  <2> QED
    BY <1>2, <2>1 DEF HasEnd
<1>7. CASE Replies
  <2>1. PICK outcome \in scenario.outcomes \cup {"aborted"} : Reply(outcome)
    BY <1>7 DEF Replies
  <2> DEFINE m == run.reply
             goesOn == outcome \in {"ok", "large", "silent"} /\ steering # <<>>
  <2>2. CASE goesOn
    <3>1. run' = [run EXCEPT !.reply = NextId] /\ run.state = "turn"
      BY Zenon, <2>1, <2>2 DEF Reply
    <3>2. run'.state = "turn"
      BY <1>1, <3>1 DEF TypeInv, Runs, RunType
    <3> QED
      BY <1>2, <1>3, <3>2
  <2>3. CASE ~goesOn
    <3>1. /\ messages' = Append(messages, m)
          /\ Emit(<<Event("message", m), Event("agent_end", m)>>, <<m>>)
          /\ run.state = "turn" /\ handler' = handler
      BY Zenon, <2>1, <2>3 DEF Reply
    <3>2. m \in Ids /\ IsAssistant(m) /\ ~HasEnd /\ messages \in Seq(Ids)
      BY <1>1, <3>1 DEF TypeInv, Runs, Threads, Lists
    <3> DEFINE a == Event("message", m)
               b == Event("agent_end", m)
               evs == <<a, b>>
               E == EventsOf(Ids)
    <3>3. events' = events \o evs
      BY <3>1 DEF Emit, Listens
    <3>4. a \in E /\ b \in E /\ a.type = "message" /\ b.type = "agent_end" /\ b.msg = m
      BY <3>2 DEF Event, EventsOf
    <3>5. events \in Seq(E)
      <4>1. EventsOf(Spoken) \subseteq E
        BY <1>1 DEF EventsOf
      <4> QED
        BY <1>1, <4>1, WiderSequence
    <3>6. Last(messages') = m /\ messages' # <<>>
      <4>1. Last(Append(messages, m)) = m
        BY <3>2, FrontOfAppend
      <4>2. Append(messages, m) # <<>>
        BY <3>2
      <4> QED
        BY <3>1, <4>1, <4>2
    <3>7. info'[m].role = "assistant"
      BY <1>4, <3>2
    <3> DEFINE N == Len(events)
    <3> HIDE DEF m, a, b, E
    <3>8. evs \in Seq(E) /\ Len(evs) = 2 /\ evs[1] = a /\ evs[2] = b
      BY <3>4
    <3> HIDE DEF evs
    <3>9. /\ N \in Nat /\ Len(events') = N + 2 /\ events' \in Seq(E)
          /\ \A i \in 1 .. N : events'[i] = events[i]
          /\ \A i \in 1 .. 2 : events'[N + i] = evs[i]
      <4> DEFINE x == events \o evs
      <4>1. /\ x \in Seq(E) /\ Len(x) = N + Len(evs)
            /\ \A i \in 1 .. N : x[i] = events[i]
            /\ \A i \in 1 .. Len(evs) : x[N + i] = evs[i]
        <5>1. events \in Seq(E) /\ evs \in Seq(E)
          BY <3>5, <3>8
        <5> QED
          BY ONLY <5>1, ConcatElements
      <4> HIDE DEF x
      <4>2. events' = x
        BY <3>3 DEF x
      <4> QED
        BY <3>5, <3>8, <4>1, <4>2
    <3>10. events'[N + 1] = a /\ events'[N + 2] = b /\ DOMAIN events' = 1 .. N + 2
      BY <3>8, <3>9
    <3>11. \A i \in 1 .. N : events[i].type # "agent_end"
      BY <3>2, <3>5 DEF HasEnd
    <3> HIDE DEF N
    <3>12. ASSUME NEW n \in DOMAIN events', events'[n].type = "agent_end" PROVE n = N + 2
      <4>1. n \in 1 .. N \/ n = N + 1 \/ n = N + 2
        BY <3>9, <3>10
      <4> QED
        BY <3>4, <3>9, <3>10, <3>11, <3>12, <4>1
    <3>13. ASSUME NEW n \in DOMAIN events', events'[n].type = "agent_end"
           PROVE  /\ events'[n].msg = m /\ n > 1 /\ n # 1 /\ events'[n - 1] = a
      BY <3>4, <3>9, <3>10, <3>12, <3>13
    <3> QED
      BY <3>6, <3>7, <3>13 DEF EndFollows, IsAssistant, Role, a
  <2> QED
    BY <2>2, <2>3
<1>8. CASE Continues \/ Submits
  <2>1. Starting /\ lastAssistant' = lastAssistant /\ handler' = handler
    BY <1>1, <1>8, StartsAre DEF Continues, Continue, Submits, Submit
  <2>2. CASE UNCHANGED <<info, messages, run, steering, events, emitted>>
    BY <1>5, <2>1, <2>2
  <2>3. ASSUME NEW inf, NEW ms, NEW owner, StartedBy(inf, ms, owner) PROVE EndFollows'
    <3>1. run'.state = "turn"
      BY <2>3, StartRunIs DEF StartedBy, BeginTurn
    <3> QED
      BY <1>2, <1>3, <3>1
  <2> QED
    BY Zenon, <2>1, <2>2, <2>3 DEF Starting
<1>9. CASE TakeEvent
  BY <1>5, <1>9 DEF TakeEvent, agentVars
<1>10. CASE PersistMessage
  <2> DEFINE t == Tail(events)
             E == EventsOf(Spoken)
  <2>1. /\ events # <<>> /\ events' = t /\ handler = "emitting" /\ messages' = messages
        /\ IsAssistant(Current.msg) => lastAssistant' = Current.msg
    BY <1>1, <1>10 DEF PersistMessage, EventDone, agentVars, TypeInv, Queue
  <2> HIDE DEF E
  <2>2. /\ Current = events[1] /\ t \in Seq(E) /\ Len(events) = Len(t) + 1
        /\ \A i \in 1 .. Len(t) : t[i] = events[i + 1]
    BY <1>1, <2>1, HeadAndTail DEF E, Current
  <2> DEFINE N == Len(t)
  <2>3. N \in Nat /\ DOMAIN t = 1 .. N /\ DOMAIN events = 1 .. N + 1
    BY <1>1, <2>2
  <2> HIDE DEF t, N
  <2>4. SUFFICES ASSUME NEW n \in 1 .. N, t[n].type = "agent_end"
                 PROVE  /\ info'[t[n].msg].role = "assistant"
                        /\ messages # <<>> /\ Last(messages) = t[n].msg
                        /\ n > 1 => t[n - 1] = Event("message", t[n].msg)
                        /\ n = 1 => lastAssistant' = t[n].msg
    BY <2>1, <2>3 DEF EndFollows, IsAssistant, Role
  <2> DEFINE k == n + 1
             m == events[k].msg
  <2>5. k \in DOMAIN events /\ t[n] = events[k] /\ k > 1 /\ k - 1 = n
    BY <2>2, <2>3 DEF N
  <2>6. /\ IsAssistant(m) /\ messages # <<>> /\ Last(messages) = m
        /\ events[n] = Event("message", m)
    BY <2>1, <2>4, <2>5 DEF EndFollows
  <2> HIDE DEF k
  <2>7. n > 1 => t[n - 1] = events[n]
    BY <2>2, <2>3 DEF N
  <2>8. n = 1 => lastAssistant' = m
    <3>1. Event("message", m).msg = m
      BY DEF Event
    <3> QED
      BY <2>1, <2>2, <2>6, <3>1
  <2> QED
    BY <1>0, <2>5, <2>6, <2>7, <2>8
<1>11. CASE NothingToDecide \/ EndBackoff
  BY <1>1, <1>6, <1>11 DEF NothingToDecide, EndBackoff, TypeInv, Queue
<1>12. CASE BeginBackoff
  <2>1. events' = events /\ lastAssistant' = lastAssistant /\ handler' = "backoff" /\ handler = "emitting"
    BY <1>12 DEF BeginBackoff, Deciding
  <2> QED
    BY <1>5, <2>1
<1>13. CASE Decides
  <2>1. /\ events # <<>> /\ Current.type = "agent_end"
        /\ EventDone \/ (handler' = "compacting" /\ events' = events)
    BY <1>1, <1>13 DEF Decides, Decide, Deciding, TypeInv, Queue
  <2> QED
    BY <1>5, <1>6, <2>1
<1>14. CASE Prompts \/ RecordBash
  <2>1. SUFFICES ASSUME HasEnd' PROVE FALSE
    BY <1>2
  <2>2. run' = run /\ events' = events
    BY <1>14 DEF Prompts, Prompt, RecordBash, queueVars
  <2>3. run.state = "idle"
    BY <1>3, <2>1, <2>2
  <2>4. Settled
    BY <1>1, <1>14, <2>3 DEF Prompts, Prompt, RecordBash, MayCall
  <2> QED
    BY <2>1, <2>2, <2>4 DEF Settled, HasEnd
<1>15. CASE Saves \/ Ends \/ Fails
  <2>1. PICK k \in Compactors : \/ \E replaces \in BOOLEAN : SaveCompaction(k, replaces)
                                \/ (EndCompaction(k) \/ CompactionFails(k)) /\ LeaveCompaction(k)
    BY <1>15 DEF Saves, Ends, Fails, EndCompaction, CompactionFails
  <2>2. compaction[k].phase # "none"
    BY <2>1 DEF SaveCompaction, EndCompaction, CompactionFails
  <2>3. \/ k = "queue" /\ handler = "compacting"
        \/ k \in Callers /\ events = <<>>
    BY <1>1, <2>2, CompactingAlone
  <2>4. k \in Callers => k # "queue" /\ k # "manual"
    BY CallersAssumption
  <2>5. CASE \E replaces \in BOOLEAN : SaveCompaction(k, replaces)
    <3>1. events' = events /\ handler' = handler
      BY <2>5 DEF SaveCompaction, queueVars
    <3> QED
      BY <1>2, <1>5, <2>3, <3>1 DEF HasEnd
  <2>6. CASE LeaveCompaction(k)
    <3>1. IF k = "queue" THEN EventDone ELSE events' = events
      BY <2>6 DEF LeaveCompaction
    <3>2. handler = "compacting" => events # <<>> /\ Current.type = "agent_end"
      BY <1>1 DEF TypeInv, Queue
    <3> QED
      BY <1>2, <1>6, <2>3, <2>4, <3>1, <3>2 DEF HasEnd
  <2> QED
    BY <2>1, <2>5, <2>6
<1>16. CASE FinishRun \/ Refuses \/ Steer \/ ClearQueue \/ Abort \/ AbortCompaction \/ CompactIdle \/ Prepares
  <2>1. messages' = messages /\ events' = events /\ handler' = handler /\ lastAssistant' = lastAssistant
    BY <1>16 DEF FinishRun, Refuses, PromptRefused, Steer, ClearQueue, Abort, AbortCompaction,
       CompactIdle, Prepares, Prepare, agentVars, queueVars
  <2> QED
    BY <1>5, <2>1
<1> QED
  BY Zenon, Actions, <1>1, <1>7, <1>8, <1>9, <1>10, <1>11, <1>12, <1>13, <1>14, <1>15, <1>16

\* What waits out its backoff has failed, and may be tried again.
BackoffRetries == handler = "backoff" => info[lastAssistant].outcome = "retryable"

LEMMA BackoffRetriesStep ==
    ASSUME RetryInv, ResumesAlone, BackoffRetries, Next
    PROVE  BackoffRetries'
<1> SUFFICES ASSUME handler' = "backoff" PROVE info'[lastAssistant'].outcome = "retryable"
  BY DEF BackoffRetries
<1>1. (handler = "backoff" \/ BeginBackoff) /\ lastAssistant' = lastAssistant
  BY BackoffGoesOn
<1>2. TypeInv /\ Queue /\ Infos /\ Threads /\ Backoffs
  BY DEF RetryInv, TypeInv
<1>3. info[lastAssistant].outcome = "retryable" /\ lastAssistant \in Ids
  BY <1>1, <1>2 DEF BackoffRetries, BeginBackoff, IsRetryable, Deciding, Backoffs, Queue, Ids, Infos
<1>4. events # <<>> /\ Current.type = "agent_end"
  BY <1>1, <1>2 DEF BeginBackoff, Deciding, Queue
<1>5. HasEnd
  BY <1>2, <1>4, EndAlone DEF Threads
<1>6. Replying = {}
  BY <1>2, <1>5 DEF Threads, Replying
<1> QED
  BY <1>1, <1>2, <1>3, <1>6, OutcomesKept

(***************************************************************************)
(* The agent's messages are the context of the session, with what waits,   *)
(* but for failed replies.                                                 *)
(***************************************************************************)
\* What the agent knows is in the session or waits for it.
Known == ToSet(messages) \subseteq ToSet(log) \cup ToSet(Unhandled)
\* Both are the same with the messages that wait appended to the context.
Agrees == GoodIn(messages, info) = GoodIn(Context(log, info) \o Unhandled, info)

LEMMA ContextIsKnown ==
    ASSUME TypeInv, Recents
    PROVE  /\ Context(log, info) \in Seq(Ids) /\ ToSet(Context(log, info)) \subseteq ToSet(log)
           /\ log \in Seq(Ids) /\ ToSet(log) \subseteq Ids
<1>1. log \in Seq(Ids) /\ FirstsIn(log, info) /\ RecentsIn(log, info)
  BY DEF TypeInv, Lists, Compactions, Recents
<1>2. ToSet(log) \subseteq Ids
  BY <1>1 DEF ToSet
<1>3. Context(log, info) \in Seq(ToSet(log)) /\ ToSet(Context(log, info)) \subseteq ToSet(log)
  BY <1>1, ContextElements
<1> DEFINE c == Context(log, info)
<1>4. c \in Seq(ToSet(log))
  BY <1>3
<1> HIDE DEF c
<1>5. c \in Seq(Ids)
  BY <1>2, <1>4, WiderSequence
<1> QED
  BY <1>1, <1>2, <1>3, <1>5 DEF c

\* Nothing that both know of changes what it is.
LEMMA AgreesLater ==
    ASSUME TypeInv, Distinct, Recents, Known, Agrees, Next
    PROVE  /\ Context(log, info') = Context(log, info)
           /\ \A m \in ToSet(log) \cup ToSet(Unhandled) : info'[m].outcome = info[m].outcome
           /\ GoodIn(messages, info') = GoodIn(Context(log, info) \o Unhandled, info')
<1> DEFINE c == Context(log, info)
           u == Unhandled
           K == ToSet(log) \cup ToSet(u)
<1>1. Infos /\ Lists /\ Later(info') /\ u \in Seq(Ids) /\ ToSet(u) \subseteq Ids
  <2>1. Infos /\ Lists /\ Later(info') /\ Queue
    BY InfoStep DEF TypeInv
  <2>2. u \in Seq(Spoken) /\ ToSet(u) \subseteq Ids /\ Spoken \subseteq Ids
    BY <2>1, UnhandledType DEF Spoken
  <2> HIDE DEF u
  <2>3. u \in Seq(Ids)
    BY <2>2, WiderSequence
  <2> QED
    BY <2>1, <2>2, <2>3
<1>2. c \in Seq(Ids) /\ ToSet(c) \subseteq ToSet(log) /\ log \in Seq(Ids) /\ ToSet(log) \subseteq Ids
  BY ContextIsKnown
<1>3. Context(log, info') = c
  <2>1. \A m \in ToSet(log) :
              /\ info'[m].role = info[m].role /\ info'[m].first = info[m].first
              /\ info'[m].replaces = info[m].replaces /\ info'[m].recent = info[m].recent
    BY <1>1, <1>2 DEF Later
  <2> QED
    BY <1>2, <2>1, ContextSame
<1>4. \A m \in K : info'[m].outcome = info[m].outcome
  <2>1. K \subseteq Ids /\ K \cap Replying = {}
    BY <1>1, <1>2 DEF Distinct
  <2> HIDE DEF K
  <2> QED
    BY <2>1, OutcomesKept
<1>5. ToSet(messages) \subseteq K
  BY DEF Known
<1> HIDE DEF c, u
<1>6. ToSet(c \o u) \subseteq K
  <2>1. ToSet(c \o u) = ToSet(c) \cup ToSet(u)
    BY <1>1, <1>2, ConcatElements
  <2> QED
    BY <1>2, <2>1
<1> HIDE DEF K
<1>7. GoodIn(messages, info') = GoodIn(messages, info)
  BY <1>4, <1>5, GoodSame
<1>8. GoodIn(c \o u, info') = GoodIn(c \o u, info)
  <2> DEFINE x == c \o u
  <2>1. \A m \in ToSet(x) : info'[m].outcome = info[m].outcome
    BY <1>4, <1>6
  <2> HIDE DEF x
  <2>2. GoodIn(x, info') = GoodIn(x, info)
    BY <2>1, GoodSame
  <2> QED
    BY <2>2 DEF x
<1>9. GoodIn(messages, info) = GoodIn(c \o u, info)
  BY DEF Agrees, c, u
<1> QED
  BY <1>3, <1>4, <1>7, <1>8, <1>9 DEF c, u, K

\* A failed reply at the end may be gone.
LEMMA GoodDropped ==
    ASSUME NEW S, NEW s \in Seq(S), NEW inf, NEW ms,
           ms = s \/ (s # <<>> /\ ms = Front(s) /\ Bad(Last(s), inf))
    PROVE  GoodIn(ms, inf) = GoodIn(s, inf) /\ ToSet(ms) \subseteq ToSet(s)
<1>1. CASE ms = s
  BY <1>1
<1>2. CASE s # <<>> /\ ms = Front(s) /\ Bad(Last(s), inf)
  <2>1. GoodIn(Front(s), inf) = GoodIn(s, inf)
    BY <1>2, GoodFront
  <2>2. ToSet(s) = ToSet(Front(s)) \cup {Last(s)}
    BY <1>2, FrontThenLast
  <2> QED
    BY <1>2, <2>1, <2>2
<1> QED
  BY <1>1, <1>2

\* What is added to both keeps them alike.
LEMMA GoodAdded ==
    ASSUME NEW S, NEW s \in Seq(S), NEW t \in Seq(S), NEW x \in Seq(S), NEW inf,
           GoodIn(s, inf) = GoodIn(t, inf)
    PROVE  GoodIn(s \o x, inf) = GoodIn(t \o x, inf)
<1>0. s \in Seq(S) /\ t \in Seq(S) /\ x \in Seq(S)
  OBVIOUS
<1>1. GoodIn(s \o x, inf) = GoodIn(s, inf) \o GoodIn(x, inf)
  BY ONLY <1>0, GoodConcat
<1>2. GoodIn(t \o x, inf) = GoodIn(t, inf) \o GoodIn(x, inf)
  BY ONLY <1>0, GoodConcat
<1> QED
  BY <1>1, <1>2

\* The context grows as the session does.
LEMMA ContextGrows ==
    ASSUME TypeInv, Distinct, Recents, Next, NEW x \in Seq(Ids'), ToSet(log) \cap ToSet(x) = {},
           \A m \in ToSet(x) : info'[m].role # "summary"
    PROVE  Context(log \o x, info') = Context(log, info') \o x
<1>1. Infos /\ Later(info') /\ Ids \subseteq Ids' /\ FirstsIn(log, info) /\ IsInjective(log)
  BY InfoStep, Grown DEF TypeInv, Compactions, Distinct
<1>2. log \in Seq(Ids) /\ ToSet(log) \subseteq Ids
  BY ContextIsKnown
<1>3. log \in Seq(Ids')
  BY <1>1, <1>2, WiderSequence
<1>4. \A m \in ToSet(log) : /\ info'[m].role = info[m].role /\ info'[m].first = info[m].first
                            /\ info'[m].recent = info[m].recent
  BY <1>1, <1>2 DEF Later
<1>5. FirstsIn(log, info')
  BY <1>1, <1>4 DEF FirstsIn
<1>6. \A m \in ToSet(log) : info'[m].role = "summary" => info'[m].recent \in Seq(Ids')
  <2> SUFFICES ASSUME NEW m \in ToSet(log) PROVE info'[m].recent \in Seq(Ids')
    OBVIOUS
  <2>1. info[m].recent \in Seq(Ids)
    BY <1>1, <1>2 DEF Infos
  <2> DEFINE r == info[m].recent
  <2> HIDE DEF r
  <2>2. r \in Seq(Ids')
    BY <1>1, <2>1, WiderSequence DEF r
  <2> QED
    BY <1>4, <2>2 DEF r
<1> DEFINE E == Ids'
<1>7. log \in Seq(E) /\ x \in Seq(E) /\ \A m \in ToSet(log) : info'[m].role = "summary" => info'[m].recent \in Seq(E)
  BY <1>3, <1>6
<1> HIDE DEF E
<1> QED
  BY <1>1, <1>5, <1>7, ContextConcat

\* The session gets messages that the agent gets too, while nothing waits.
LEMMA AgreesAdded ==
    ASSUME TypeInv, Distinct, Recents, Known, Agrees, Next, Unhandled = <<>>, Unhandled' = <<>>,
           NEW x \in Seq(Ids'), ToSet(log) \cap ToSet(x) = {},
           \A m \in ToSet(x) : info'[m].role # "summary",
           log' = log \o x,
           \/ messages' = messages \o x
           \/ /\ messages \o x # <<>> /\ messages' = Front(messages \o x)
              /\ Bad(Last(messages \o x), info')
    PROVE  Known' /\ Agrees'
<1> DEFINE c == Context(log, info)
           E == Ids'
           s == messages \o x
<1>1. /\ Context(log \o x, info') = c \o x
      /\ GoodIn(messages, info') = GoodIn(c \o <<>>, info')
  BY AgreesLater, ContextGrows
<1>2. messages \in Seq(E) /\ c \in Seq(E) /\ log \in Seq(E) /\ x \in Seq(E)
  <2>1. messages \in Seq(Ids) /\ c \in Seq(Ids) /\ log \in Seq(Ids) /\ Ids \subseteq E
    BY ContextIsKnown, InfoStep, Grown DEF TypeInv, Lists
  <2> HIDE DEF c, E
  <2>2. messages \in Seq(E) /\ c \in Seq(E) /\ log \in Seq(E)
    BY <2>1, WiderSequence
  <2> QED
    BY <2>2 DEF E
<1> HIDE DEF c, E
<1>3. c \o <<>> = c
  BY <1>2
<1>4. GoodIn(messages \o x, info') = GoodIn(c \o x, info')
  BY <1>1, <1>2, <1>3, GoodAdded
<1>5. s \in Seq(E) /\ ToSet(s) = ToSet(messages) \cup ToSet(x)
  BY <1>2, ConcatElements
<1>6. c \o x \in Seq(E) /\ (c \o x) \o <<>> = c \o x
  <2>1. c \o x \in Seq(E)
    BY <1>2, ConcatElements
  <2> DEFINE y == c \o x
  <2> HIDE DEF y
  <2>2. y \in Seq(E)
    BY <2>1 DEF y
  <2>3. y \o <<>> = y
    BY <2>2
  <2> QED
    BY <2>1, <2>3 DEF y
<1>7. ToSet(log \o x) = ToSet(log) \cup ToSet(x)
  BY <1>2, ConcatElements
<1>8. messages' = s \/ (s # <<>> /\ messages' = Front(s) /\ Bad(Last(s), info'))
  OBVIOUS
<1> HIDE DEF s
<1>9. GoodIn(messages', info') = GoodIn(s, info') /\ ToSet(messages') \subseteq ToSet(s)
  BY <1>5, <1>8, GoodDropped
<1>10. ToSet(<<>>) = {}
  BY DEF ToSet
<1>11. Known'
  <2>1. ToSet(messages) \subseteq ToSet(log)
    BY <1>10 DEF Known
  <2>2. ToSet(messages') \subseteq ToSet(log')
    BY <1>5, <1>7, <1>9, <2>1
  <2> QED
    BY <2>2 DEF Known
<1>12. Agrees'
  BY <1>1, <1>4, <1>6, <1>9 DEF Agrees, s
<1> QED
  BY <1>11, <1>12

\* Neither the session nor what waits has changed.
LEMMA AgreesDropped ==
    ASSUME TypeInv, Distinct, Recents, Known, Agrees, Next, log' = log, Unhandled' = Unhandled,
           messages' = messages \/ (messages # <<>> /\ messages' = Front(messages) /\ Bad(Last(messages), info))
    PROVE  Known' /\ Agrees'
<1>1. /\ Context(log, info') = Context(log, info)
      /\ \A m \in ToSet(log) \cup ToSet(Unhandled) : info'[m].outcome = info[m].outcome
      /\ GoodIn(messages, info') = GoodIn(Context(log, info) \o Unhandled, info')
      /\ messages \in Seq(Ids)
  BY AgreesLater DEF TypeInv, Lists
<1>2. messages' = messages \/ (messages # <<>> /\ messages' = Front(messages) /\ Bad(Last(messages), info'))
  <2>1. messages # <<>> => Last(messages) \in ToSet(messages)
    BY <1>1, FrontThenLast
  <2> QED
    BY <1>1, <2>1 DEF Known, Bad
<1>3. GoodIn(messages', info') = GoodIn(messages, info') /\ ToSet(messages') \subseteq ToSet(messages)
  BY <1>1, <1>2, GoodDropped
<1> QED
  BY <1>1, <1>3 DEF Known, Agrees

\* The agent says something, and it waits.
LEMMA AgreesSaid ==
    ASSUME TypeInv, Distinct, Recents, Known, Agrees, Next, log' = log,
           NEW ms \in Seq(Ids'), messages' = messages \o ms, Unhandled' = Unhandled \o ms
    PROVE  Known' /\ Agrees'
<1> DEFINE c == Context(log, info)
           u == Unhandled
           E == Ids'
<1>1. /\ Context(log, info') = c
      /\ GoodIn(messages, info') = GoodIn(c \o u, info')
  BY AgreesLater
<1>2. messages \in Seq(E) /\ c \in Seq(E) /\ u \in Seq(E) /\ ms \in Seq(E)
  <2>1. messages \in Seq(Ids) /\ c \in Seq(Ids) /\ Ids \subseteq E /\ u \in Seq(Spoken) /\ Spoken \subseteq E
    BY ContextIsKnown, UnhandledType, InfoStep, Grown DEF TypeInv, Lists, Spoken
  <2> HIDE DEF c, u, E
  <2>2. messages \in Seq(E) /\ c \in Seq(E) /\ u \in Seq(E)
    BY <2>1, WiderSequence
  <2> QED
    BY <2>2 DEF E
<1> HIDE DEF c, u, E
<1> DEFINE t == c \o u
<1>3. t \in Seq(E) /\ GoodIn(messages, info') = GoodIn(t, info')
  BY <1>1, <1>2, ConcatElements
<1> HIDE DEF t
<1>4. GoodIn(messages \o ms, info') = GoodIn(t \o ms, info')
  BY <1>2, <1>3, GoodAdded
<1>5. t \o ms = c \o (u \o ms)
  <2>1. c \in Seq(E) /\ u \in Seq(E) /\ ms \in Seq(E)
    BY <1>2
  <2>2. (c \o u) \o ms = c \o (u \o ms)
    BY ONLY <2>1, ConcatAssociative
  <2> QED
    BY <2>2 DEF t
<1>6. Agrees'
  BY <1>1, <1>4, <1>5 DEF Agrees, c, u
<1>7. ToSet(messages \o ms) = ToSet(messages) \cup ToSet(ms)
  BY <1>2, ConcatElements
<1>8. ToSet(u \o ms) = ToSet(u) \cup ToSet(ms)
  BY <1>2, ConcatElements
<1>9. Known'
  BY <1>7, <1>8 DEF Known, u
<1> QED
  BY <1>6, <1>9

\* What reaches the session's log reaches the context in front of what waits.
LEMMA AgreesPersisted ==
    ASSUME TypeInv, Distinct, Recents, Known, Agrees, Next, PersistMessage
    PROVE  Known' /\ Agrees'
<1> DEFINE c == Context(log, info)
           m == Current.msg
           u == MessagesIn(Tail(events))
           E == Ids'
           x == <<m>>
<1>1. /\ Infos /\ Queue /\ Later(info') /\ Ids \subseteq E /\ events # <<>>
      /\ Current.type = "message" /\ events' = Tail(events) /\ log' = Append(log, m)
      /\ messages' = messages
  BY InfoStep, Grown DEF TypeInv, Queue, PersistMessage, EventDone, agentVars
<1>2. m \in Spoken /\ Unhandled = x \o u /\ u \in Seq(Spoken) /\ Unhandled' = u /\ Spoken \subseteq Ids
  BY <1>1, UnhandledType DEF Unhandled, Spoken
<1>3. /\ messages \in Seq(Ids) /\ c \in Seq(Ids) /\ log \in Seq(Ids) /\ ToSet(log) \subseteq Ids
      /\ u \in Seq(E)
  <2>1. messages \in Seq(Ids) /\ c \in Seq(Ids) /\ log \in Seq(Ids) /\ ToSet(log) \subseteq Ids
        /\ Spoken \subseteq E
    BY <1>1, <1>2, ContextIsKnown DEF TypeInv, Lists
  <2> HIDE DEF u, E, c
  <2>2. u \in Seq(E)
    BY <1>2, <2>1, WiderSequence
  <2> QED
    BY <2>1, <2>2
<1>4. x \in Seq(E) /\ ToSet(x) = {m} /\ x \in Seq(Spoken)
  <2>1. m \in E
    BY <1>1, <1>2
  <2> HIDE DEF m, E
  <2> QED
    BY <1>2, <2>1, FewElements
<1>5. log' = log \o x
  <2> HIDE DEF m
  <2> QED
    BY <1>1, <1>2, <1>3
<1>6. ToSet(Unhandled) = {m} \cup ToSet(u)
  <2> HIDE DEF u, x
  <2> QED
    BY <1>2, <1>4, ConcatElements
<1>7. m \notin ToSet(log) /\ info'[m].role # "summary"
  <2>1. ToSet(log) \cap ToSet(Unhandled) = {}
    BY DEF Distinct
  <2>2. info'[m].role = info[m].role
    BY <1>1, <1>2 DEF Later
  <2> QED
    BY <1>2, <1>6, <2>1, <2>2 DEF Spoken, Role
<1>8. /\ Context(log, info') = c
      /\ GoodIn(messages, info') = GoodIn(c \o (x \o u), info')
  BY <1>2, AgreesLater
<1> HIDE DEF m, u, E, x
<1>9. Context(log \o x, info') = Context(log, info') \o x
  BY <1>4, <1>7, ContextGrows DEF E
<1> HIDE DEF c
<1>10. c \o (x \o u) = (c \o x) \o u
  <2>1. c \in Seq(E) /\ x \in Seq(E) /\ u \in Seq(E)
    BY <1>1, <1>3, <1>4, WiderSequence
  <2> QED
    BY ONLY <2>1, ConcatAssociative
<1>11. Agrees'
  BY <1>1, <1>2, <1>5, <1>8, <1>9, <1>10 DEF Agrees
<1>12. ToSet(log \o x) = ToSet(log) \cup {m}
  <2>1. log \in Seq(Ids) /\ x \in Seq(Ids)
    BY <1>2, <1>3, <1>4, WiderSequence
  <2> QED
    BY <1>4, <2>1, ConcatElements
<1>13. Known'
  BY <1>1, <1>2, <1>5, <1>6, <1>12 DEF Known
<1> QED
  BY <1>11, <1>13

\* A prompt flushes what was kept back, and drops a reply that overflowed.
LEMMA AgreesPrompted ==
    ASSUME TypeInv, Distinct, Recents, Known, Agrees, Next, Prompts, scenario.client = "patient"
    PROVE  Known' /\ Agrees'
<1>1. PICK c \in scenario.callers : Prompt(c)
  BY DEF Prompts
<1> DEFINE fs == FlushedMessages
           replies == {i \in DOMAIN fs : IsAssistant(fs[i])}
           n == Len(fs)
           m == fs[Max(replies)]
           reason == IF replies = {} THEN "none" ELSE CheckCompaction(m)
<1>2. /\ Settled /\ info' = info /\ events' = events /\ log' = log \o pendingBash
      /\ IF reason = "none" THEN messages' = fs ELSE BeginCompaction(c, reason, fs)
  BY <1>1 DEF Prompt, MayCall, FlushedLog, queueVars
<1>3. Unhandled = <<>> /\ Unhandled' = <<>>
  BY <1>2, MessagesInOne DEF Settled, Unhandled
<1>4. /\ pendingBash \in Seq(Ids) /\ ToSet(pendingBash) \subseteq Bashes
      /\ messages \in Seq(Ids) /\ Ids' = Ids
  <2>1. pendingBash \in Seq(Bashes) /\ Bashes \subseteq Ids /\ messages \in Seq(Ids)
    BY DEF TypeInv, Lists, Bashes
  <2>2. pendingBash \in Seq(Ids) /\ ToSet(pendingBash) \subseteq Bashes
    BY <2>1, WiderSequence DEF ToSet
  <2> QED
    BY <1>2, <2>1, <2>2 DEF Ids
<1>5. fs \in Seq(Ids) /\ fs = messages \o pendingBash
  BY <1>4 DEF FlushedMessages
<1>6. messages' = fs \/ (fs # <<>> /\ messages' = Front(fs) /\ Bad(Last(fs), info))
  <2>1. reason # "overflow" => messages' = fs
    BY <1>2 DEF BeginCompaction
  <2>2. reason = "overflow" => replies # {} /\ info[m].outcome \in {"overflow", "silent"}
    BY DEF CheckCompaction, Overflows
  <2>3. reason = "overflow" => messages' = WithoutLastAssistant(fs)
    BY <1>2 DEF BeginCompaction
  <2>4. CASE reason = "overflow" /\ EndsWithAssistant(fs)
    <3> HIDE DEF fs
    <3>1. fs # <<>> /\ IsAssistant(Last(fs)) /\ Last(fs) = fs[n] /\ n \in Nat \ {0}
      <4>1. fs # <<>> /\ IsAssistant(Last(fs))
        BY <2>4 DEF EndsWithAssistant
      <4>2. fs \in Seq(Ids)
        BY <1>5
      <4>3. Last(fs) = fs[n]
        BY ONLY <4>1, <4>2, FrontThenLast
      <4> QED
        BY <4>1, <4>2, <4>3
    <3>2. n \in replies /\ replies \in SUBSET (1 .. n)
      BY <1>5, <3>1
    <3>3. Max(replies) \in replies /\ Max(replies) >= n
      <4> HIDE DEF n, replies
      <4>1. replies # {} /\ n \in Nat
        BY <3>1, <3>2
      <4> QED
        BY <3>2, <4>1, GreatestOne
    <3>4. Max(replies) = n
      <4> DEFINE k == Max(replies)
      <4>1. k \in 1 .. n /\ k >= n
        BY <3>2, <3>3
      <4> HIDE DEF k, n
      <4> QED
        BY <3>1, <4>1 DEF k
    <3>5. info[Last(fs)].outcome \in {"overflow", "silent"}
      BY <2>2, <2>4, <3>1, <3>4
    <3> QED
      BY <2>3, <2>4, <3>1, <3>5 DEF Bad, WithoutLastAssistant
  <2>5. CASE reason = "overflow" /\ ~EndsWithAssistant(fs)
    BY <2>3, <2>5 DEF WithoutLastAssistant
  <2> QED
    BY <2>1, <2>4, <2>5
<1>7. ToSet(log) \cap ToSet(pendingBash) = {} /\ \A x \in ToSet(pendingBash) : info'[x].role # "summary"
  BY <1>2, <1>4 DEF Distinct, Bashes, Role
<1> HIDE DEF fs
<1> QED
  BY <1>2, <1>3, <1>4, <1>5, <1>6, <1>7, AgreesAdded

\* A result is recorded in both, or kept back from both.
LEMMA AgreesRecorded ==
    ASSUME TypeInv, Distinct, Recents, Known, Agrees, Next, RecordBash, scenario.client = "patient"
    PROVE  Known' /\ Agrees'
<1>1. events' = events /\ info' = Append(info, New("bash"))
  BY DEF RecordBash, queueVars
<1>2. CASE run.state # "idle"
  <2>1. messages' = messages /\ log' = log /\ Unhandled' = Unhandled
    BY <1>1, <1>2 DEF RecordBash, Unhandled
  <2> QED
    BY <2>1, AgreesDropped
<1>3. CASE run.state = "idle"
  <2>1. messages' = Append(messages, NextId) /\ log' = Append(log, NextId) /\ Settled
    BY <1>3 DEF RecordBash, MayCall
  <2>2. Unhandled = <<>> /\ Unhandled' = <<>>
    BY <1>1, <2>1, MessagesInOne DEF Settled, Unhandled
  <2>3. NextId \in Ids' /\ NextId \notin Ids /\ info'[NextId].role = "bash"
    <3>1. "bash" \in {"user", "assistant", "bash", "summary"} /\ Infos
      BY DEF TypeInv
    <3>2. NextId \in Fresh /\ info'[NextId].role = "bash"
      BY <1>1, <3>1, NewIsFresh, NewMessage
    <3> QED
      BY <3>2 DEF Fresh
  <2> DEFINE n == NextId
             x == <<n>>
             E == Ids'
  <2>4. messages \in Seq(Ids) /\ log \in Seq(Ids) /\ ToSet(log) \subseteq Ids
    BY ContextIsKnown DEF TypeInv, Lists
  <2> HIDE DEF n, E
  <2>5. x \in Seq(E) /\ ToSet(x) = {n}
    BY <2>3, FewElements DEF n, E
  <2>6. messages' = messages \o x /\ log' = log \o x
    BY <2>1, <2>4 DEF n
  <2>7. ToSet(log) \cap ToSet(x) = {} /\ \A m \in ToSet(x) : info'[m].role # "summary"
    BY <2>3, <2>4, <2>5 DEF n
  <2> HIDE DEF x
  <2> QED
    BY <2>2, <2>5, <2>6, <2>7, AgreesAdded DEF E
<1> QED
  BY <1>2, <1>3

\* The agent's messages become the session's context.
LEMMA AgreesSaved ==
    ASSUME TypeInv, Distinct, Calls, Threads, Listens, Recents, Next, Saves
    PROVE  Known' /\ Agrees'
<1>1. PICK k \in Compactors, replaces \in BOOLEAN : SaveCompaction(k, replaces)
  BY DEF Saves
<1>2. /\ compaction[k].phase = "summary" /\ messages' = Context(log', info') /\ events' = events
  BY <1>1 DEF SaveCompaction, SavedContext, queueVars
<1>3. Unhandled' = <<>>
  <2>1. Unhandled = <<>>
    BY <1>2, CompactingAlone
  <2> QED
    BY <1>2, <2>1 DEF Unhandled
<1>4. log' \in Seq(Ids') /\ FirstsIn(log', info') /\ RecentsIn(log', info')
  BY LogStep, RecentsStep DEF Recents
<1> DEFINE E == Ids'
           s == log'
           i == info'
<1>5. s \in Seq(E) /\ FirstsIn(s, i) /\ RecentsIn(s, i)
  BY <1>4
<1> HIDE DEF E, s, i
<1>6. Context(s, i) \in Seq(ToSet(s)) /\ ToSet(Context(s, i)) \subseteq ToSet(s)
  BY ONLY <1>5, ContextElements
<1> DEFINE c == Context(s, i)
<1>7. c \in Seq(ToSet(s)) /\ ToSet(c) \subseteq ToSet(s) /\ messages' = c
  BY <1>2, <1>6 DEF s, i
<1> HIDE DEF c
<1>8. c \o <<>> = c
  BY <1>7
<1> QED
  BY <1>2, <1>3, <1>7, <1>8 DEF Known, Agrees, c, s, i

LEMMA AgreesStep ==
    ASSUME RetryInv, ResumesAlone, Undisturbed', Next,
           Distinct, Listens, Recents, EndFollows, BackoffRetries, Known, Agrees
    PROVE  Known' /\ Agrees'
<1>1. /\ TypeInv /\ Calls /\ Threads /\ Changes /\ Queue /\ Infos /\ ~Compact /\ ~EventFails
      /\ scenario.client = "patient" /\ connected = TRUE
  <2>1. TypeInv /\ Calls /\ Threads /\ Queue /\ Infos
    BY DEF RetryInv, TypeInv
  <2>2. ~Compact /\ ~EventFails
    BY <2>1, ListensStep
  <2> QED
    BY <2>1, <2>2, StepsChange DEF ResumesAlone, Listens
\* The agent's last message may go when it has failed.
<1>2. ASSUME log' = log, Unhandled' = Unhandled,
             messages' = messages \/ (messages # <<>> /\ messages' = Front(messages) /\ Bad(Last(messages), info))
      PROVE  Known' /\ Agrees'
  BY <1>1, <1>2, AgreesDropped
\* The end of a run is no message.
<1>3. ASSUME events # <<>>, Current.type = "agent_end", EventDone PROVE Unhandled' = Unhandled
  <2>1. Unhandled = MessagesIn(Tail(events))
    BY <1>1, <1>3, UnhandledType
  <2> QED
    BY <1>3, <2>1 DEF Unhandled, EventDone
<1>4. events' = events => Unhandled' = Unhandled
  BY DEF Unhandled
<1>5. CASE Replies \/ Continues \/ Submits
  <2>1. log' = log
    BY <1>5 DEF Replies, Reply, Continues, Continue, Submits, Submit
  <2>2. CASE UNCHANGED <<info, messages, run, steering, events, emitted>>
    BY <1>2, <1>4, <2>1, <2>2
  <2>3. ASSUME NEW evs, NEW ms, Speaks(evs, ms) PROVE Known' /\ Agrees'
    <3>1. messages' = messages \o ms /\ ms \in Seq(Spoken') /\ Emit(evs, ms)
          /\ evs \in Seq(EventsOf(Spoken')) /\ MessagesIn(evs) = ms
      BY <2>3 DEF Speaks
    <3>2. ms \in Seq(Ids')
      <4>1. Spoken' \subseteq Ids'
        BY DEF Spoken
      <4> QED
        BY <3>1, <4>1, WiderSequence
    <3>3. Unhandled' = Unhandled \o ms
      <4>1. events' = events \o evs
        BY <1>1, <3>1 DEF Emit
      <4>2. events \in Seq(EventsOf(Spoken'))
        <5>1. Spoken \subseteq Spoken'
          BY <1>1, InfoStep, Grown
        <5>2. EventsOf(Spoken) \subseteq EventsOf(Spoken') /\ events \in Seq(EventsOf(Spoken))
          BY <1>1, <5>1 DEF EventsOf, Queue
        <5> QED
          BY <5>2, WiderSequence
      <4>3. MessagesIn(events \o evs) = MessagesIn(events) \o MessagesIn(evs)
        BY <3>1, <4>2, MessagesInConcat
      <4> QED
        BY <3>1, <4>1, <4>3 DEF Unhandled
    <3> QED
      BY <1>1, <2>1, <3>1, <3>2, <3>3, AgreesSaid
  <2> QED
    BY Zenon, <1>1, <1>5, <2>2, <2>3, AgentSpeaks
<1>6. CASE PersistMessage
  BY <1>1, <1>6, AgreesPersisted
<1>7. CASE NothingToDecide \/ EndBackoff
  <2>1. log' = log /\ messages' = messages /\ EventDone /\ events # <<>> /\ Current.type = "agent_end"
    BY <1>1, <1>7 DEF NothingToDecide, EndBackoff, agentVars, Queue
  <2> QED
    BY <1>2, <1>3, <2>1
\* What is decided upon is the agent's last message.
<1>8. ASSUME Deciding, info[lastAssistant].outcome \in {"retryable", "overflow", "silent"},
             messages' = WithoutLastAssistant(messages)
      PROVE  messages' = messages \/ (messages # <<>> /\ messages' = Front(messages) /\ Bad(Last(messages), info))
  <2>1. messages # <<>> /\ Last(messages) = lastAssistant
    BY <1>1, <1>8, DecidedIsLast
  <2> QED
    BY <1>8, <2>1 DEF WithoutLastAssistant, Bad
<1>9. CASE BeginBackoff
  <2>1. /\ Deciding /\ info[lastAssistant].outcome = "retryable" /\ events' = events /\ log' = log
        /\ messages' = WithoutLastAssistant(messages)
    BY <1>9 DEF BeginBackoff, IsRetryable
  <2> QED
    BY <1>2, <1>4, <1>8, <2>1
<1>10. CASE Decides
  <2> DEFINE reason == CheckCompaction(lastAssistant)
  <2>1. PICK gaveUp \in BOOLEAN : Decide(gaveUp)
    BY <1>10 DEF Decides
  <2>2. /\ events # <<>> /\ Current.type = "agent_end" /\ log' = log
        /\ Deciding \/ handler = "backoff"
    BY <1>1, <1>10, <2>1 DEF Decides, Decide, Deciding, Queue
  <2>3. EventDone \/ events' = events
    BY <2>1 DEF Decide
  <2>4. messages' = messages \/ (reason = "overflow" /\ messages' = WithoutLastAssistant(messages))
    BY <2>1 DEF Decide, BeginCompaction
  <2>5. CASE reason = "overflow" /\ messages' = WithoutLastAssistant(messages)
    <3>1. info[lastAssistant].outcome \in {"overflow", "silent"}
      BY <2>5 DEF CheckCompaction, Overflows
    <3>2. handler # "backoff"
      BY <3>1 DEF BackoffRetries
    <3> QED
      BY <1>2, <1>3, <1>4, <1>8, <2>2, <2>3, <2>5, <3>1, <3>2
  <2> QED
    BY <1>2, <1>3, <1>4, <2>2, <2>3, <2>4, <2>5
<1>11. CASE Prompts
  BY <1>1, <1>11, AgreesPrompted
<1>12. CASE RecordBash
  BY <1>1, <1>12, AgreesRecorded
<1>13. CASE Saves
  BY <1>1, <1>13, AgreesSaved
<1>14. CASE Ends \/ Fails
  <2>1. PICK k \in Compactors : (EndCompaction(k) \/ CompactionFails(k)) /\ LeaveCompaction(k)
    BY <1>14 DEF Ends, Fails, EndCompaction, CompactionFails
  <2>2. /\ compaction[k].phase # "none" /\ log' = log
        /\ messages' = messages \/ (messages # <<>> /\ messages' = Front(messages) /\ Failed(Last(messages)))
    BY <2>1 DEF EndCompaction, CompactionFails, EndsWithAssistant, agentVars
  <2>3. Unhandled' = Unhandled
    <3>1. CASE k = "queue"
      <4>1. EventDone
        BY <2>1, <3>1 DEF LeaveCompaction
      <4>2. events # <<>> /\ Current.type = "agent_end"
        BY <1>1, <2>2, <3>1 DEF Queue
      <4> QED
        BY <1>3, <4>1, <4>2
    <3>2. CASE k # "queue"
      BY <1>4, <2>1, <3>2 DEF LeaveCompaction
    <3> QED
      BY <3>1, <3>2
  <2> QED
    BY <1>2, <2>2, <2>3 DEF Failed, Bad
<1>15. CASE TakeEvent \/ FinishRun \/ Refuses \/ Steer \/ ClearQueue \/ Abort \/ AbortCompaction
            \/ CompactIdle \/ Prepares
  <2>1. messages' = messages /\ events' = events /\ log' = log
    BY <1>15 DEF TakeEvent, FinishRun, Refuses, PromptRefused, Steer, ClearQueue, Abort, AbortCompaction,
       CompactIdle, Prepares, Prepare, agentVars, queueVars
  <2> QED
    BY <1>2, <1>4, <2>1
<1> QED
  BY Zenon, Actions, <1>1, <1>5, <1>6, <1>7, <1>9, <1>10, <1>11, <1>12, <1>13, <1>14, <1>15

(***************************************************************************)
(* The inductive invariant.                                                *)
(***************************************************************************)
Alone == EndFollows /\ BackoffRetries /\ Known /\ Agrees
AgreementInv ==
    /\ RetryInv /\ Distinct
    /\ Undisturbed => Listens /\ Recents /\ Shown
    /\ Undisturbed /\ ResumesAlone => Alone

LEMMA AgreementInvInit == Init => AgreementInv
<1> SUFFICES ASSUME Init PROVE AgreementInv
  OBVIOUS
<1>1. RetryInv /\ Distinct
  BY RetryInvInit, DistinctInit
<1>2. /\ log = <<>> /\ messages = <<>> /\ events = <<>> /\ steering = <<>> /\ steeringShown = <<>>
      /\ handler = "free" /\ connected = TRUE /\ ToSet(<<>>) = {} /\ MessagesIn(<<>>) = <<>>
      /\ \A k \in Compactors : compaction[k].phase = "none"
  <2>1. MessagesIn(<<>>) = <<>>
    BY MessagesInOne
  <2>2. ToSet(<<>>) = {}
    BY DEF ToSet
  <2> QED
    BY <2>1, <2>2 DEF Init, NoCompaction
<1>3. Listens /\ Recents
  BY <1>2 DEF Listens, Recents, RecentsIn, Compactors
<1>4. Shown
  <2>1. <<>> \in Seq(Users) /\ Filtered(<<>>, {}) = <<>>
    BY FilteredEmpty
  <2> QED
    BY <1>2, <2>1 DEF Shown
<1>5. EndFollows /\ BackoffRetries /\ Known
  BY <1>2 DEF EndFollows, BackoffRetries, Known
<1>6. Agrees
  <2>1. SummariesOf(<<>>, info) = {}
    BY DEF SummariesOf
  <2>2. Context(<<>>, info) = <<>>
    BY Zenon, <2>1, ContextIs
  <2>3. <<>> \o <<>> = <<>>
    OBVIOUS
  <2> QED
    BY <1>2, <2>2, <2>3 DEF Agrees, Unhandled
<1> QED
  BY <1>1, <1>3, <1>4, <1>5, <1>6 DEF AgreementInv, Alone

LEMMA AgreementInvStep == AgreementInv /\ [Next]_vars => AgreementInv'
<1> SUFFICES ASSUME AgreementInv, [Next]_vars PROVE AgreementInv'
  OBVIOUS
<1>1. RetryInv' /\ Distinct' /\ TypeInv /\ RetryInv /\ Distinct
  BY RetryInvStep, DistinctStep DEF AgreementInv, RetryInv
<1>2. CASE Next
  <2>1. (ResumesAlone' <=> ResumesAlone)
    BY <1>2, StepsChange DEF Changes, ResumesAlone
  <2>2. ASSUME Undisturbed' PROVE Undisturbed /\ Listens' /\ Recents' /\ Shown'
    <3>1. used \subseteq used' /\ scenario' = scenario
      BY <1>2, UsedStep, StepsChange DEF Changes
    <3>2. Undisturbed
      BY <2>2, <3>1 DEF Undisturbed
    <3>3. Listens /\ Recents /\ Shown
      BY <3>2 DEF AgreementInv
    <3>4. Listens'
      BY <1>1, <1>2, <2>2, <3>3, ListensStep
    <3>5. Recents'
      BY <1>1, <1>2, <3>3, RecentsStep
    <3>6. Shown'
      BY <1>1, <1>2, <3>3, ShownStep DEF Listens
    <3> QED
      BY <3>2, <3>4, <3>5, <3>6
  <2>3. ASSUME Undisturbed', ResumesAlone PROVE Alone'
    <3>1. Listens /\ Recents /\ EndFollows /\ BackoffRetries /\ Known /\ Agrees
      BY <2>2, <2>3 DEF AgreementInv, Alone
    <3>2. EndFollows'
      BY <1>1, <1>2, <2>3, <3>1, EndFollowsStep
    <3>3. BackoffRetries'
      BY <1>1, <1>2, <2>3, <3>1, BackoffRetriesStep
    <3>4. Known' /\ Agrees'
      BY <1>1, <1>2, <2>3, <3>1, AgreesStep
    <3> QED
      BY <3>2, <3>3, <3>4 DEF Alone
  <2> QED
    BY <1>1, <2>1, <2>2, <2>3 DEF AgreementInv
<1>3. CASE UNCHANGED vars
  <2> USE <1>3 DEF vars, agentVars, queueVars, retryVars, compactVars, clientVars
  <2>1. (Undisturbed' <=> Undisturbed) /\ (ResumesAlone' <=> ResumesAlone)
    BY DEF Undisturbed, ResumesAlone
  <2>2. Listens /\ Recents /\ Shown => Listens' /\ Recents' /\ Shown'
    BY DEF Listens, Recents, Shown, Users, Ids, Role, Untaken, Ahead
  <2>3. EndFollows /\ BackoffRetries => EndFollows' /\ BackoffRetries'
    BY DEF EndFollows, BackoffRetries, IsAssistant, Role
  <2>4. Known /\ Agrees => Known' /\ Agrees'
    BY DEF Known, Agrees, Unhandled
  <2> QED
    BY <1>1, <2>1, <2>2, <2>3, <2>4 DEF AgreementInv, Alone
<1> QED
  BY <1>2, <1>3

LEMMA InvAgreement == AgreementInv => Agreement
<1> SUFFICES ASSUME AgreementInv, Settled, Undisturbed
             PROVE  /\ ResumesAlone => Good(messages) = Good(Context(log, info))
                    /\ steeringShown = steering
  BY DEF Agreement
<1>1. /\ TypeInv /\ Recents /\ Shown /\ events = <<>> /\ handler = "free"
      /\ ResumesAlone => Agrees
  BY DEF AgreementInv, RetryInv, Settled, Alone
<1>2. Unhandled = <<>> /\ Untaken = <<>> /\ ToSet(<<>>) = {}
  <2>1. MessagesIn(<<>>) = <<>>
    BY MessagesInOne
  <2>2. ToSet(<<>>) = {}
    BY DEF ToSet
  <2> QED
    BY <1>1, <2>1, <2>2 DEF Unhandled, Untaken, Ahead
<1>3. steeringShown = steering
  <2>1. /\ steeringShown \in Seq(Users) /\ ToSet(steeringShown) \subseteq ToSet(steering)
        /\ Filtered(steeringShown, ToSet(steering)) = steering
    BY <1>1, <1>2 DEF Shown
  <2> DEFINE R == ToSet(steering)
  <2> HIDE DEF R
  <2>2. Filtered(steeringShown, R) = steeringShown
    BY <2>1, FilteredWhole DEF R
  <2> QED
    BY <2>1, <2>2 DEF R
<1>4. ASSUME ResumesAlone PROVE Good(messages) = Good(Context(log, info))
  <2> DEFINE c == Context(log, info)
  <2>1. c \in Seq(Ids) /\ GoodIn(messages, info) = GoodIn(c \o <<>>, info)
    BY <1>1, <1>2, <1>4, ContextIsKnown DEF Agrees
  <2> HIDE DEF c
  <2>2. c \o <<>> = c
    BY <2>1
  <2>3. Good(messages) = GoodIn(messages, info) /\ Good(c) = GoodIn(c, info)
    BY GoodIs
  <2> QED
    BY <2>1, <2>2, <2>3 DEF c
<1> QED
  BY <1>3, <1>4

\* When a session that nobody has disconnected has settled, the agent's
\* messages are the context of the session but for failed replies and those that
\* overflowed silently, which a failed compaction leaves out of the agent's
\* messages, and what is shown as queued is what the agent holds: however the
\* runs, their retries, the compactions and the client's calls have interleaved
\* (_processAgentEvent, sendMessage, buildSessionContext, _steeringMessages).
\* For the transcript the client is patient, and no run is resumed beside
\* another: TLC shows that it may differ otherwise.
THEOREM AgreementAlways == Spec => []Agreement
  BY AgreementInvInit, AgreementInvStep, InvAgreement, PTL DEF Spec

=============================================================================
