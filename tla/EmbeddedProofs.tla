---------------------------- MODULE EmbeddedProofs ----------------------------
(***************************************************************************)
(* The client of an agent and the harness, for any numbers of requests,    *)
(* listeners, prompts, messages, writes, operations and failures: what is  *)
(* recorded of them is kept (RecordIsKept).                                *)
(*                                                                         *)
(* ClientInv says where a request of the client is and what the client     *)
(* knows of it.  HarnessInv says it of the harness: what a run has in hand *)
(* (RunOK), how a run that is alone goes with the session (SyncOK), and    *)
(* where each queued message and each session write is (QueuedPlaced,      *)
(* WritesPlaced).  A step of a run is Moved; that is shown of each step    *)
(* first, and then what Moved does to each part of the invariant.          *)
(***************************************************************************)
EXTENDS Embedded, SequenceLemmas, FiniteSetTheorems

(***************************************************************************)
(* The client.                                                             *)
(***************************************************************************)

ClientTypes ==
    /\ agent \in Nat /\ starts \in Nat /\ alive \in BOOLEAN
    /\ pendingRequests \subseteq Requests /\ asked \subseteq Requests /\ strays \subseteq Requests
    /\ request \in [Requests -> {"none", "sent", "answered", "failed"}]
    /\ lines \in Seq(Requests \cup {"end"})

\* What the client is told on the way: the requests that are asked, written and taken for events are apart.
Written == {q \in Requests : q \in ToSet(lines)}
OnceWritten == \A i, j \in 1 .. Len(lines) : lines[i] = lines[j] /\ lines[i] # "end" => i = j
ApartOnTheWay ==
    asked \cap Written = {} /\ strays \cap (asked \cup Written) = {} /\ OnceWritten

\* What the client knows of a request, wherever it is.
Knows ==
    /\ \A q \in pendingRequests : request[q] = "sent"
    /\ \A q \in asked \cup Written : q \in pendingRequests \/ request[q] = "failed"
    /\ \A q \in strays : request[q] = "failed"

\* The first agent is asked everything that is pending, and nothing is pending before there is one.
FirstAgent ==
    /\ alive => agent # 0
    /\ starts = 0 => agent = 0 /\ pendingRequests = {} /\ \A q \in Requests : request[q] # "sent"
    /\ pendingRequests = {q \in Requests : request[q] = "sent"} \/ agent = 0 \/ starts > 1

ClientInv == ClientTypes /\ ApartOnTheWay /\ Knows /\ FirstAgent

LEMMA ClientInvInit == Rpc!RpcInit => ClientInv
<1> SUFFICES ASSUME Rpc!RpcInit PROVE ClientInv
  OBVIOUS
<1>1. ToSet(<<>>) = {} /\ Len(<<>>) = 0 /\ <<>> \in Seq(Requests \cup {"end"})
  BY DEF ToSet
<1>2. ClientTypes
  BY <1>1 DEF Rpc!RpcInit, ClientTypes
<1>3. ApartOnTheWay
  BY <1>1 DEF Rpc!RpcInit, ApartOnTheWay, OnceWritten, Written
<1>4. Knows /\ FirstAgent
  BY <1>1 DEF Rpc!RpcInit, Knows, FirstAgent, Written
<1> QED
  BY <1>2, <1>3, <1>4 DEF ClientInv

\* Whoever leaves the lines and the requests as they are on their way.
LEMMA LinesStay ==
    ASSUME ClientInv, UNCHANGED <<lines, strays>>, asked' \subseteq asked
    PROVE  ApartOnTheWay' /\ Written' = Written
  BY DEF ClientInv, ApartOnTheWay, OnceWritten, Written

LEMMA ClientStarts ==
    ASSUME ClientInv, Rpc!Start
    PROVE  ClientInv'
<1>1. ClientTypes'
  BY DEF ClientInv, ClientTypes, Rpc!Start, Rpc!requestVars
<1>2. ApartOnTheWay' /\ Written' = Written
  BY LinesStay DEF Rpc!Start, Rpc!requestVars
<1>3. Knows'
  BY <1>2 DEF ClientInv, Knows, Rpc!Start, Rpc!requestVars
<1>4. FirstAgent'
  BY DEF ClientInv, ClientTypes, FirstAgent, Rpc!Start, Rpc!requestVars
<1> QED
  BY <1>1, <1>2, <1>3, <1>4 DEF ClientInv

LEMMA ClientStops ==
    ASSUME ClientInv, Rpc!Stop
    PROVE  ClientInv'
<1>0. ToSet(<<>>) = {} /\ Len(<<>>) = 0 /\ <<>> \in Seq(Requests \cup {"end"})
  BY DEF ToSet
<1>1. ClientTypes'
  BY <1>0 DEF ClientInv, ClientTypes, Rpc!Stop
<1>2. ApartOnTheWay' /\ Written' = {}
  BY <1>0 DEF ClientInv, ApartOnTheWay, OnceWritten, Written, Rpc!Stop
<1>3. Knows'
  <2>1. pendingRequests' = {} /\ asked' = {} /\ strays' = strays
    BY DEF Rpc!Stop
  <2>2. \A q \in strays : request'[q] = "failed"
    BY DEF ClientInv, ClientTypes, Knows, Rpc!Stop
  <2> QED
    BY <1>2, <2>1, <2>2 DEF Knows
<1>4. FirstAgent'
  BY DEF ClientInv, ClientTypes, FirstAgent, Rpc!Stop
<1> QED
  BY <1>1, <1>2, <1>3, <1>4 DEF ClientInv

LEMMA ClientSends ==
    ASSUME ClientInv, NEW q \in Requests, Rpc!Send(q)
    PROVE  ClientInv'
<1>1. ClientTypes'
  BY DEF ClientInv, ClientTypes, Rpc!Send
<1>2. q \notin pendingRequests \cup asked \cup Written \cup strays
  BY DEF ClientInv, ClientTypes, Knows, Rpc!Send
<1>3. Written' = Written /\ OnceWritten'
  BY DEF ClientInv, ApartOnTheWay, OnceWritten, Written, Rpc!Send
<1>4. ApartOnTheWay'
  BY <1>2, <1>3 DEF ClientInv, ApartOnTheWay, Rpc!Send
<1>5. Knows'
  <2>1. \A p \in Requests \ {q} : request'[p] = request[p]
    BY DEF ClientInv, ClientTypes, Rpc!Send
  <2>2. strays' = strays
    BY DEF Rpc!Send
  <2>3. \/ request'[q] = "failed" /\ UNCHANGED <<pendingRequests, asked>>
        \/ request'[q] = "sent" /\ pendingRequests' = pendingRequests \cup {q} /\ asked' = asked \cup {q}
    BY DEF ClientInv, ClientTypes, Rpc!Send
  <2> QED
    BY <1>2, <1>3, <2>1, <2>2, <2>3 DEF ClientInv, ClientTypes, Knows, Written
<1>6. FirstAgent'
  BY DEF ClientInv, ClientTypes, FirstAgent, Rpc!Send
<1> QED
  BY <1>1, <1>4, <1>5, <1>6 DEF ClientInv

LEMMA AgentWrites ==
    ASSUME ClientInv, Rpc!AgentAnswers
    PROVE  ClientInv'
<1> DEFINE T == Requests \cup {"end"}
<1>0. /\ lines \in Seq(T) /\ "end" \notin Requests
      /\ UNCHANGED <<agent, alive, starts, exitError, pendingRequests, request, strays>>
  BY RequestsAssumption DEF ClientInv, ClientTypes, Rpc!AgentAnswers
<1>1. PICK line \in T : /\ lines' = Append(lines, line)
                        /\ line \in Requests => line \in asked /\ asked' = asked \ {line}
                        /\ line = "end" => asked' = asked
  BY <1>0 DEF ClientInv, ClientTypes, Rpc!AgentAnswers
<1>2. /\ lines' \in Seq(T) /\ Len(lines') = Len(lines) + 1 /\ Len(lines) \in Nat
      /\ \A i \in 1 .. Len(lines) : lines'[i] = lines[i]
      /\ lines'[Len(lines) + 1] = line
      /\ ToSet(lines') = ToSet(lines) \cup {line}
  <2>1. Len(lines) \in Nat
    BY <1>0
  <2> HIDE DEF T
  <2> QED
    BY <1>0, <1>1, <2>1, AppendElements
<1>3. ClientTypes'
  BY <1>0, <1>1, <1>2 DEF ClientInv, ClientTypes
<1>4. asked' \cup Written' = asked \cup Written /\ asked' \subseteq asked
  BY <1>0, <1>1, <1>2 DEF Written
<1>5. line \in Requests => line \notin ToSet(lines)
  BY <1>1 DEF ClientInv, ApartOnTheWay, Written
<1>6. OnceWritten'
  <2> SUFFICES ASSUME NEW i \in 1 .. Len(lines'), NEW j \in 1 .. Len(lines'), lines'[i] = lines'[j], lines'[i] # "end"
               PROVE  i = j
    BY DEF OnceWritten
  <2>1. \A k \in 1 .. Len(lines) : lines[k] \in ToSet(lines)
    BY <1>0 DEF ToSet
  <2>2. i \in 1 .. Len(lines) \/ i = Len(lines) + 1
    BY <1>2
  <2>3. j \in 1 .. Len(lines) \/ j = Len(lines) + 1
    BY <1>2
  <2>4. line # "end" => line \notin ToSet(lines)
    BY <1>1, <1>5
  <2> QED
    BY <1>2, <2>1, <2>2, <2>3, <2>4 DEF ClientInv, ApartOnTheWay, OnceWritten
<1>7. ApartOnTheWay'
  <2>1. asked' \cap Written' = {}
    BY <1>0, <1>1, <1>2 DEF Written, ClientInv, ApartOnTheWay
  <2> QED
    BY <1>0, <1>4, <1>6, <2>1 DEF ClientInv, ApartOnTheWay
<1>8. Knows' /\ FirstAgent'
  BY <1>0, <1>4 DEF ClientInv, Knows, FirstAgent
<1> QED
  BY <1>3, <1>7, <1>8 DEF ClientInv

LEMMA AgentEnds ==
    ASSUME ClientInv, Rpc!AgentExits \/ Rpc!Exit
    PROVE  ClientInv'
<1>1. ClientTypes' /\ UNCHANGED <<lines, strays>> /\ asked' \subseteq asked
  BY DEF ClientInv, ClientTypes, Rpc!AgentExits, Rpc!Exit, Rpc!Rejected
<1>2. ApartOnTheWay' /\ Written' = Written
  BY <1>1, LinesStay
<1>3. Knows'
  BY <1>1, <1>2 DEF ClientInv, ClientTypes, Knows, Written, Rpc!AgentExits, Rpc!Exit, Rpc!Rejected
<1>4. FirstAgent'
  BY DEF ClientInv, ClientTypes, FirstAgent, Rpc!AgentExits, Rpc!Exit, Rpc!Rejected
<1> QED
  BY <1>1, <1>2, <1>3, <1>4 DEF ClientInv

LEMMA TimerFires ==
    ASSUME ClientInv, NEW q \in Requests, Rpc!Timeout(q)
    PROVE  ClientInv'
<1>1. ClientTypes' /\ UNCHANGED <<lines, strays, asked>>
  BY DEF ClientInv, ClientTypes, Rpc!Timeout
<1>2. ApartOnTheWay' /\ Written' = Written
  BY <1>1, LinesStay
<1>3. Knows'
  BY <1>1, <1>2 DEF ClientInv, ClientTypes, Knows, Written, Rpc!Timeout
<1>4. FirstAgent'
  BY DEF ClientInv, ClientTypes, FirstAgent, Rpc!Timeout
<1> QED
  BY <1>1, <1>2, <1>3, <1>4 DEF ClientInv

LEMMA LineIsHandled ==
    ASSUME ClientInv, Rpc!HandleLine
    PROVE  ClientInv'
<1> DEFINE T == Requests \cup {"end"}
           line == Head(lines)
<1>0. /\ lines \in Seq(T) /\ lines # <<>> /\ lines' = Tail(lines) /\ "end" \notin Requests
      /\ UNCHANGED <<agent, alive, starts, asked>>
  BY RequestsAssumption DEF ClientInv, ClientTypes, Rpc!HandleLine
<1>1. /\ line = lines[1] /\ line \in T /\ lines' \in Seq(T) /\ Len(lines) = Len(lines') + 1
      /\ \A i \in 1 .. Len(lines') : lines'[i] = lines[i + 1]
      /\ ToSet(lines) = {line} \cup ToSet(lines') /\ Len(lines') \in Nat
  <2> HIDE DEF T
  <2>1. Tail(lines) \in Seq(T) => Len(Tail(lines)) \in Nat
    OBVIOUS
  <2> QED
    BY <1>0, <2>1, HeadAndTail
<1>2. \/ line = "end" /\ UNCHANGED <<pendingRequests, request, strays>>
      \/ /\ line \in pendingRequests /\ pendingRequests' = pendingRequests \ {line}
         /\ request' = [request EXCEPT ![line] = "answered"] /\ strays' = strays
      \/ /\ line # "end" /\ line \notin pendingRequests
         /\ strays' = strays \cup {line} /\ UNCHANGED <<pendingRequests, request>>
  BY DEF Rpc!HandleLine, Rpc!AnswersTo
<1>3. line # "end" => line \in Requests /\ line \in Written /\ line \notin ToSet(lines') /\ line \notin asked
  <2>1. line # "end" => line \in Requests /\ line \in Written
    BY <1>0, <1>1 DEF Written
  <2>2. line # "end" => line \notin ToSet(lines')
    <3> SUFFICES ASSUME line # "end", NEW i \in 1 .. Len(lines'), lines'[i] = line PROVE FALSE
      BY <1>1 DEF ToSet
    <3>1. i + 1 \in 1 .. Len(lines) /\ 1 \in 1 .. Len(lines) /\ lines[i + 1] = lines[1] /\ lines[1] # "end"
      BY <1>1
    <3> QED
      BY <3>1 DEF ClientInv, ApartOnTheWay, OnceWritten
  <2> QED
    BY <2>1, <2>2 DEF ClientInv, ApartOnTheWay
<1>4. Written' = Written \ {line}
  BY <1>0, <1>1, <1>3 DEF Written
<1>5. OnceWritten'
  <2> SUFFICES ASSUME NEW i \in 1 .. Len(lines'), NEW j \in 1 .. Len(lines'), lines'[i] = lines'[j], lines'[i] # "end"
               PROVE  i = j
    BY DEF OnceWritten
  <2>1. i + 1 \in 1 .. Len(lines) /\ j + 1 \in 1 .. Len(lines) /\ lines[i + 1] = lines[j + 1] /\ lines[i + 1] # "end"
    BY <1>1
  <2>2. i + 1 = j + 1
    BY <2>1 DEF ClientInv, ApartOnTheWay, OnceWritten
  <2> QED
    BY <2>2
<1>6. ApartOnTheWay'
  BY <1>0, <1>2, <1>3, <1>4, <1>5 DEF ClientInv, ApartOnTheWay
<1>7. ClientTypes'
  BY <1>0, <1>1, <1>2, <1>3 DEF ClientInv, ClientTypes
<1>8. Knows'
  BY <1>0, <1>2, <1>3, <1>4 DEF ClientInv, ClientTypes, Knows, Written
<1>9. FirstAgent'
  <2>1. starts = 0 => pendingRequests = {}
    BY DEF ClientInv, FirstAgent
  <2>2. (pendingRequests = {p \in Requests : request[p] = "sent"})
          => (pendingRequests' = {p \in Requests : request'[p] = "sent"})
    BY <1>2, <1>3 DEF ClientInv, ClientTypes
  <2> QED
    BY <1>0, <1>2, <2>1, <2>2 DEF ClientInv, FirstAgent
<1> QED
  BY <1>6, <1>7, <1>8, <1>9 DEF ClientInv

LEMMA ClientListens ==
    ASSUME ClientInv, UNCHANGED <<agent, alive, starts, pendingRequests, request, asked, lines, strays>>
    PROVE  ClientInv'
<1>1. ClientTypes' /\ ApartOnTheWay' /\ Written' = Written
  BY LinesStay DEF ClientInv, ClientTypes
<1> QED
  BY <1>1 DEF ClientInv, Knows, FirstAgent

LEMMA ClientInvStep == ClientInv /\ Rpc!RpcNext => ClientInv'
<1> SUFFICES ASSUME ClientInv, Rpc!RpcNext PROVE ClientInv'
  OBVIOUS
<1>1. ASSUME NEW l \in Listeners, Rpc!Listen(l) \/ Rpc!GiveUp(l) PROVE ClientInv'
  BY <1>1, ClientListens DEF Rpc!Listen, Rpc!GiveUp, Rpc!requestVars
<1> QED
  BY <1>1, ClientStarts, ClientStops, ClientSends, AgentWrites, AgentEnds, TimerFires, LineIsHandled DEF Rpc!RpcNext

LEMMA ClientMeets == ClientInv => Rpc!AnswersMeet
<1> SUFFICES ASSUME ClientInv PROVE Rpc!AnswersMeet
  OBVIOUS
<1>1. Rpc!Range(lines) = ToSet(lines)
  BY DEF Rpc!Range, ToSet
<1>2. \A q \in Requests : request[q] = "answered" => q \notin asked \cup strays \cup Written
  BY DEF ClientInv, ClientTypes, Knows
<1>3. \A q \in Requests : q \in Rpc!Range(lines) => q \in Written
  BY <1>1 DEF Written
<1>4. \A q \in Requests : request[q] = "answered" => q \notin asked \cup strays \cup Rpc!Range(lines)
  BY <1>2, <1>3
<1> QED
  BY <1>4 DEF ClientInv, Knows, FirstAgent, Rpc!AnswersMeet

(***************************************************************************)
(* The harness: messages, entries and what a request is given.             *)
(***************************************************************************)

Msg == Harness!Kinds \X Nat \X Nat
EntryType == [item : Msg, parent : Nat, kept : Nat]

\* Entries point back, and what a compaction kept was there.
Tree(es) ==
    /\ es \in Seq(EntryType)
    /\ \A i \in 1 .. Len(es) : es[i].parent < i /\ es[i].kept <= Len(es)

\* The functions of Messages, for entries that are given.
IsSummary(es, i) == es[i].item[1] = "summary"
LastIn(es) ==
    CHOOSE f : f = [i \in 0 .. Len(es) |-> IF i = 0 \/ IsSummary(es, i) THEN i ELSE f[es[i].parent]]
ShownIn(es, first) ==
    CHOOSE f : f = [i \in 0 .. Len(es) |->
                       IF i = 0 \/ i < first THEN <<>>
                       ELSE IF IsSummary(es, i) THEN f[es[i].parent]
                       ELSE Append(f[es[i].parent], es[i].item)]
FirstIn(es, at) == IF LastIn(es)[at] = 0 THEN 0 ELSE es[LastIn(es)[at]].kept
MessagesIn(es, at) ==
    (IF LastIn(es)[at] = 0 THEN <<>> ELSE <<es[LastIn(es)[at]].item>>) \o ShownIn(es, FirstIn(es, at))[at]

LEMMA MessagesNow == Harness!Messages(leaf) = MessagesIn(entries, leaf)
  BY Zenon DEF Harness!Messages, MessagesIn, LastIn, ShownIn, FirstIn, IsSummary

LEMMA MessagesThen == Harness!Messages(leaf)' = MessagesIn(entries', leaf')
  BY Zenon DEF Harness!Messages, MessagesIn, LastIn, ShownIn, FirstIn, IsSummary

IsLast(f, es) ==
    /\ f \in [0 .. Len(es) -> 0 .. Len(es)] /\ f[0] = 0
    /\ \A n \in 1 .. Len(es) : f[n] = IF IsSummary(es, n) THEN n ELSE f[es[n].parent]

IsShown(f, es, first) ==
    /\ f \in [0 .. Len(es) -> Seq(Msg)] /\ f[0] = <<>>
    /\ \A n \in 1 .. Len(es) :
          f[n] = IF n < first THEN <<>>
                 ELSE IF IsSummary(es, n) THEN f[es[n].parent]
                 ELSE Append(f[es[n].parent], es[n].item)

LEMMA ParentsDescend ==
    ASSUME NEW es, Tree(es)
    PROVE  /\ Len(es) \in Nat
           /\ Descends([n \in 1 .. Len(es) |-> es[n].parent], Len(es))
           /\ \A n \in 1 .. Len(es) :
                 /\ es[n] \in EntryType /\ es[n].parent \in 0 .. Len(es) /\ es[n].parent \in 0 .. n - 1
                 /\ es[n].item \in Msg /\ es[n].kept \in 0 .. Len(es)
<1>1. Len(es) \in Nat /\ \A n \in 1 .. Len(es) : es[n] \in EntryType
  BY DEF Tree
<1>2. ASSUME NEW n \in 1 .. Len(es)
      PROVE  es[n].parent \in Nat /\ es[n].parent < n /\ es[n].item \in Msg /\ es[n].kept \in 0 .. Len(es)
  <2>1. es[n].parent \in Nat /\ es[n].item \in Msg /\ es[n].kept \in Nat
    BY <1>1 DEF EntryType
  <2> QED
    BY <1>1, <2>1 DEF Tree
<1> QED
  BY <1>1, <1>2 DEF Descends

LEMMA LastIsLast ==
    ASSUME NEW es, Tree(es)
    PROVE  IsLast(LastIn(es), es)
<1> DEFINE N == Len(es)
           V == 0 .. N
           h == [n \in 1 .. N |-> [v \in V |-> IF IsSummary(es, n) THEN n ELSE v]]
           prev == [n \in 1 .. N |-> es[n].parent]
           Body(g) == [i \in 0 .. N |-> IF i = 0 \/ IsSummary(es, i) THEN i ELSE g[es[i].parent]]
<1>1. /\ N \in Nat /\ Descends(prev, N)
      /\ \A n \in 1 .. N : es[n].parent \in 0 .. N /\ es[n].parent \in 0 .. n - 1
  BY ParentsDescend
<1>2. \A n \in 1 .. N, v \in V : (IF IsSummary(es, n) THEN n ELSE v) \in V
  BY <1>1
<1>3. IsStep(h, N, V)
  BY <1>2 DEF IsStep
<1>4. 0 \in V
  BY <1>1
<1>5. PICK g : IsRecursion(g, N, V, 0, h, prev)
  <2> HIDE DEF h, prev, V, N
  <2> QED
    BY <1>1, <1>3, <1>4, RecursionExists
<1>6. g \in [0 .. N -> V] /\ g[0] = 0 /\ \A n \in 1 .. N : g[n] = h[n][g[prev[n]]]
  BY Zenon, <1>5 DEF IsRecursion
<1>7. \A n \in 1 .. N : g[n] = IF IsSummary(es, n) THEN n ELSE g[es[n].parent]
  <2> SUFFICES ASSUME NEW n \in 1 .. N PROVE g[n] = IF IsSummary(es, n) THEN n ELSE g[es[n].parent]
    OBVIOUS
  <2>1. prev[n] = es[n].parent /\ g[es[n].parent] \in V
    BY <1>1, <1>6
  <2>2. \A v \in V : h[n][v] = IF IsSummary(es, n) THEN n ELSE v
    OBVIOUS
  <2> HIDE DEF h, prev, V
  <2> QED
    BY <1>6, <2>1, <2>2
<1>8. g = Body(g)
  <2>1. \A i \in 0 .. N : g[i] = Body(g)[i]
    BY <1>1, <1>6, <1>7
  <2>2. DOMAIN g = 0 .. N /\ g = [i \in 0 .. N |-> g[i]]
    BY <1>6
  <2> QED
    BY <2>1, <2>2
<1> DEFINE c == CHOOSE f : f = Body(f)
<1>9. c = Body(c)
  BY Zenon, <1>8
<1>10. LastIn(es) = c
  BY Zenon DEF LastIn
<1> HIDE DEF c
<1>11. /\ c[0] = 0 /\ DOMAIN c = 0 .. N /\ c = [n \in 0 .. N |-> c[n]]
       /\ \A n \in 1 .. N : c[n] = IF IsSummary(es, n) THEN n ELSE c[es[n].parent]
  <2>1. \A i \in 0 .. N : c[i] = IF i = 0 \/ IsSummary(es, i) THEN i ELSE c[es[i].parent]
    BY <1>9
  <2>2. 0 \in 0 .. N /\ \A n \in 1 .. N : n \in 0 .. N /\ n # 0
    BY <1>1
  <2>3. DOMAIN c = 0 .. N /\ c = [n \in 0 .. N |-> c[n]]
    BY <1>9
  <2> QED
    BY <2>1, <2>2, <2>3
<1> DEFINE S == {i \in 0 .. N : c[i] \in V}
<1>12. ASSUME NEW n \in 0 .. N, \A k \in 0 .. n - 1 : k \in S PROVE n \in S
  BY <1>1, <1>11, <1>12
<1>13. \A n \in 0 .. N : n \in S
  <2> HIDE DEF N, S
  <2> QED
    BY <1>1, <1>12, Upward
<1>14. c \in [0 .. N -> V]
  BY <1>11, <1>13
<1> QED
  BY <1>10, <1>11, <1>14 DEF IsLast

LEMMA ShownIsShown ==
    ASSUME NEW es, Tree(es), NEW first \in Nat
    PROVE  IsShown(ShownIn(es, first), es, first)
<1> DEFINE N == Len(es)
           V == Seq(Msg)
           Of(n, v) == IF n < first THEN <<>> ELSE IF IsSummary(es, n) THEN v ELSE Append(v, es[n].item)
           h == [n \in 1 .. N |-> [v \in V |-> Of(n, v)]]
           prev == [n \in 1 .. N |-> es[n].parent]
           Body(g) == [i \in 0 .. N |-> IF i = 0 \/ i < first THEN <<>>
                                        ELSE IF IsSummary(es, i) THEN g[es[i].parent]
                                        ELSE Append(g[es[i].parent], es[i].item)]
<1>1. /\ N \in Nat /\ Descends(prev, N)
      /\ \A n \in 1 .. N : es[n].parent \in 0 .. N /\ es[n].parent \in 0 .. n - 1 /\ es[n].item \in Msg
  BY ParentsDescend
<1>2. \A n \in 1 .. N, v \in V : Of(n, v) \in V
  <2>1. <<>> \in V /\ \A v \in V, e \in Msg : Append(v, e) \in V
    OBVIOUS
  <2> HIDE DEF V
  <2> QED
    BY <1>1, <2>1
<1> HIDE DEF V
<1>3. IsStep(h, N, V)
  BY <1>2 DEF IsStep
<1> DEFINE b == <<>>
<1>4. b \in V
  BY DEF V
<1>5. PICK g : IsRecursion(g, N, V, b, h, prev)
  <2> HIDE DEF h, prev, N, b
  <2> QED
    BY <1>1, <1>3, <1>4, RecursionExists
<1>6. g \in [0 .. N -> V] /\ g[0] = <<>> /\ \A n \in 1 .. N : g[n] = h[n][g[prev[n]]]
  BY Zenon, <1>5 DEF IsRecursion
<1>7. \A n \in 1 .. N : g[n] = Of(n, g[es[n].parent])
  <2> SUFFICES ASSUME NEW n \in 1 .. N PROVE g[n] = Of(n, g[es[n].parent])
    OBVIOUS
  <2>1. prev[n] = es[n].parent /\ g[es[n].parent] \in V
    BY <1>1, <1>6
  <2> HIDE DEF Of
  <2>2. \A v \in V : h[n][v] = Of(n, v)
    OBVIOUS
  <2> HIDE DEF h, prev
  <2> QED
    BY <1>6, <2>1, <2>2
<1>8. g = Body(g)
  <2>1. g[0] = Body(g)[0]
    BY <1>1, <1>6
  <2>3. ASSUME NEW i \in 1 .. N PROVE g[i] = Body(g)[i]
    <3>1. i \in 0 .. N /\ i # 0
      BY <1>1
    <3>2. Body(g)[i] = Of(i, g[es[i].parent])
      BY <3>1
    <3> QED
      BY <1>7, <3>2
  <2>4. \A i \in 0 .. N : i = 0 \/ i \in 1 .. N
    BY <1>1
  <2>5. \A i \in 0 .. N : g[i] = Body(g)[i]
    BY <2>1, <2>3, <2>4
  <2>2. DOMAIN g = 0 .. N /\ g = [i \in 0 .. N |-> g[i]]
    BY <1>6
  <2> QED
    BY <2>2, <2>5
<1> DEFINE c == CHOOSE f : f = Body(f)
<1>9. c = Body(c)
  BY Zenon, <1>8
<1>10. ShownIn(es, first) = c
  BY Zenon DEF ShownIn
<1> HIDE DEF c
<1>11. /\ c[0] = <<>> /\ DOMAIN c = 0 .. N /\ c = [n \in 0 .. N |-> c[n]]
       /\ \A n \in 1 .. N : c[n] = Of(n, c[es[n].parent])
  <2>1. \A i \in 0 .. N : c[i] = IF i = 0 \/ i < first THEN <<>>
                                 ELSE IF IsSummary(es, i) THEN c[es[i].parent]
                                 ELSE Append(c[es[i].parent], es[i].item)
    BY <1>9
  <2>2. 0 \in 0 .. N /\ \A n \in 1 .. N : n \in 0 .. N /\ n # 0
    BY <1>1
  <2>3. DOMAIN c = 0 .. N /\ c = [n \in 0 .. N |-> c[n]]
    BY <1>9
  <2> QED
    BY <2>1, <2>2, <2>3
<1> DEFINE S == {i \in 0 .. N : c[i] \in V}
<1>12. ASSUME NEW n \in 0 .. N, \A k \in 0 .. n - 1 : k \in S PROVE n \in S
  <2>1. CASE n = 0
    BY <1>4, <1>11, <2>1
  <2>2. CASE n # 0
    <3>1. n \in 1 .. N /\ c[es[n].parent] \in V
      BY <1>1, <1>12, <2>2
    <3>2. Of(n, c[es[n].parent]) \in V
      BY <1>2, <3>1
    <3> HIDE DEF Of
    <3> QED
      BY <1>11, <3>1, <3>2
  <2> QED
    BY <2>1, <2>2
<1>13. \A n \in 0 .. N : n \in S
  <2> HIDE DEF N, S
  <2> QED
    BY <1>1, <1>12, Upward
<1>14. c \in [0 .. N -> V]
  BY <1>11, <1>13
<1> QED
  BY <1>10, <1>11, <1>14 DEF IsShown, V

LEMMA MessagesTyped ==
    ASSUME NEW es, Tree(es), NEW at \in 0 .. Len(es)
    PROVE  MessagesIn(es, at) \in Seq(Msg) /\ FirstIn(es, at) \in 0 .. Len(es)
<1>1. /\ Len(es) \in Nat
      /\ \A n \in 1 .. Len(es) : es[n].item \in Msg /\ es[n].kept \in 0 .. Len(es)
  BY ParentsDescend
<1>2. LastIn(es)[at] \in 0 .. Len(es)
  BY LastIsLast DEF IsLast
<1>3. FirstIn(es, at) \in 0 .. Len(es)
  BY <1>1, <1>2 DEF FirstIn
<1>4. ShownIn(es, FirstIn(es, at))[at] \in Seq(Msg)
  <2>1. FirstIn(es, at) \in Nat
    BY <1>1, <1>3
  <2> QED
    BY <2>1, ShownIsShown DEF IsShown
<1>5. (IF LastIn(es)[at] = 0 THEN <<>> ELSE <<es[LastIn(es)[at]].item>>) \in Seq(Msg)
  <2>1. <<>> \in Seq(Msg) /\ \A e \in Msg : <<e>> \in Seq(Msg)
    OBVIOUS
  <2>2. LastIn(es)[at] # 0 => LastIn(es)[at] \in 1 .. Len(es)
    BY <1>1, <1>2
  <2> QED
    BY <1>1, <2>1, <2>2
<1> QED
  BY <1>3, <1>4, <1>5, ConcatElements DEF MessagesIn

\* A new entry changes nothing of what was shown, and ends what is shown from it.
LEMMA MessagesGrow ==
    ASSUME NEW es, Tree(es), NEW e \in EntryType, e.parent \in 0 .. Len(es), e.kept <= Len(es) + 1
    PROVE  /\ Tree(Append(es, e)) /\ Len(Append(es, e)) = Len(es) + 1
           /\ e.item[1] # "summary" =>
                 MessagesIn(Append(es, e), Len(es) + 1) = Append(MessagesIn(es, e.parent), e.item)
<1> DEFINE a == Append(es, e)
           N == Len(es)
           at == e.parent
<1>1. /\ N \in Nat
      /\ \A n \in 1 .. N : /\ es[n].parent \in 0 .. N /\ es[n].parent \in 0 .. n - 1
                           /\ es[n].item \in Msg /\ es[n].kept \in 0 .. N
  BY ParentsDescend
<1>2. a \in Seq(EntryType) /\ Len(a) = N + 1 /\ a[N + 1] = e /\ \A n \in 1 .. N : a[n] = es[n]
  BY AppendElements DEF Tree
<1>3. e.item \in Msg /\ e.parent \in Nat /\ e.kept \in Nat
  BY DEF EntryType
<1>4. Tree(a)
  <2>1. ASSUME NEW n \in 1 .. Len(a) PROVE a[n].parent < n /\ a[n].kept <= Len(a)
    <3>1. CASE n = N + 1
      BY <1>1, <1>2, <1>3, <3>1
    <3>2. CASE n # N + 1
      BY <1>1, <1>2, <3>2
    <3> QED
      BY <3>1, <3>2
  <2> HIDE DEF a
  <2> QED
    BY <1>2, <2>1 DEF Tree
<1> HIDE DEF a
<1>5. \A n \in 1 .. N : IsSummary(a, n) <=> IsSummary(es, n)
  BY <1>2 DEF IsSummary
<1>6. SUFFICES ASSUME e.item[1] # "summary"
               PROVE  MessagesIn(a, N + 1) = Append(MessagesIn(es, at), e.item)
  BY <1>2, <1>4 DEF a
<1>7. ~IsSummary(a, N + 1)
  BY <1>2, <1>6 DEF IsSummary
<1> DEFINE l == LastIn(es)
           m == LastIn(a)
<1>8. IsLast(l, es) /\ IsLast(m, a)
  BY <1>4, LastIsLast
<1> HIDE DEF l, m
<1>9. \A n \in 0 .. N : m[n] = l[n]
  <2> DEFINE S == {n \in 0 .. N : m[n] = l[n]}
  <2>1. ASSUME NEW n \in 0 .. N, \A k \in 0 .. n - 1 : k \in S PROVE n \in S
    <3>1. CASE n = 0
      BY <1>8, <3>1 DEF IsLast
    <3>2. CASE n # 0
      <4>1. n \in 1 .. N /\ n \in 1 .. Len(a) /\ a[n].parent = es[n].parent
        BY <1>1, <1>2, <3>2
      <4>2. m[es[n].parent] = l[es[n].parent]
        BY <1>1, <2>1, <4>1
      <4>3. m[n] = IF IsSummary(a, n) THEN n ELSE m[a[n].parent]
        BY <1>8, <4>1 DEF IsLast
      <4>4. l[n] = IF IsSummary(es, n) THEN n ELSE l[es[n].parent]
        BY <1>8, <4>1 DEF IsLast
      <4> QED
        BY <1>5, <4>1, <4>2, <4>3, <4>4
    <3> QED
      BY <3>1, <3>2
  <2> HIDE DEF S
  <2>2. \A n \in 0 .. N : n \in S
    BY <1>1, <2>1, Upward
  <2> QED
    BY <2>2 DEF S
<1>10. m[N + 1] = l[at] /\ l[at] \in 0 .. N
  <2>1. m[N + 1] = m[a[N + 1].parent]
    BY <1>1, <1>2, <1>7, <1>8 DEF IsLast
  <2> QED
    BY <1>2, <1>8, <1>9, <2>1 DEF IsLast
<1>11. FirstIn(a, N + 1) = FirstIn(es, at) /\ FirstIn(es, at) \in 0 .. N
  <2>1. l[at] # 0 => a[l[at]] = es[l[at]]
    BY <1>1, <1>2, <1>10
  <2>2. FirstIn(a, N + 1) = FirstIn(es, at)
    BY <1>10, <2>1 DEF FirstIn, l, m
  <2> QED
    BY <2>2, MessagesTyped
<1> DEFINE first == FirstIn(es, at)
           s == ShownIn(es, first)
           t == ShownIn(a, first)
<1>12. first \in Nat /\ first <= N
  BY <1>1, <1>11
<1> HIDE DEF first
<1>13. IsShown(s, es, first) /\ IsShown(t, a, first)
  BY <1>4, <1>12, ShownIsShown
<1> HIDE DEF s, t
<1>14. \A n \in 0 .. N : t[n] = s[n]
  <2> DEFINE S == {n \in 0 .. N : t[n] = s[n]}
  <2>1. ASSUME NEW n \in 0 .. N, \A k \in 0 .. n - 1 : k \in S PROVE n \in S
    <3>1. CASE n = 0
      BY <1>13, <3>1 DEF IsShown
    <3>2. CASE n # 0
      <4>1. n \in 1 .. N /\ n \in 1 .. Len(a) /\ a[n] = es[n]
        BY <1>1, <1>2, <3>2
      <4>2. t[es[n].parent] = s[es[n].parent]
        BY <1>1, <2>1, <4>1
      <4>3. t[n] = IF n < first THEN <<>> ELSE IF IsSummary(a, n) THEN t[a[n].parent]
                   ELSE Append(t[a[n].parent], a[n].item)
        BY <1>13, <4>1 DEF IsShown
      <4>4. s[n] = IF n < first THEN <<>> ELSE IF IsSummary(es, n) THEN s[es[n].parent]
                   ELSE Append(s[es[n].parent], es[n].item)
        BY <1>13, <4>1 DEF IsShown
      <4>5. IsSummary(a, n) <=> IsSummary(es, n)
        BY <1>5, <4>1
      <4>6. t[n] = s[n]
        BY ONLY <4>1, <4>2, <4>3, <4>4, <4>5
      <4> QED
        BY <4>6
    <3> QED
      BY <3>1, <3>2
  <2> HIDE DEF S
  <2>2. \A n \in 0 .. N : n \in S
    BY <1>1, <2>1, Upward
  <2> QED
    BY <2>2 DEF S
<1>15. t[N + 1] = Append(s[at], e.item) /\ s[at] \in Seq(Msg)
  <2>1. N + 1 \in 1 .. Len(a) /\ ~(N + 1 < first)
    BY <1>1, <1>2, <1>12
  <2>2. t[N + 1] = Append(t[a[N + 1].parent], a[N + 1].item)
    BY <1>7, <1>13, <2>1 DEF IsShown
  <2> QED
    BY <1>2, <1>13, <1>14, <2>2 DEF IsShown
<1> DEFINE head == IF l[at] = 0 THEN <<>> ELSE <<es[l[at]].item>>
<1>16. head \in Seq(Msg)
  <2>1. l[at] # 0 => es[l[at]].item \in Msg
    BY <1>1, <1>10
  <2> QED
    BY <2>1
<1>17. MessagesIn(es, at) = head \o s[at]
  BY DEF MessagesIn, first, s, l
<1>18. MessagesIn(a, N + 1) = head \o t[N + 1]
  <2>1. l[at] # 0 => a[l[at]] = es[l[at]]
    BY <1>1, <1>2, <1>10
  <2>2. MessagesIn(a, N + 1) = (IF m[N + 1] = 0 THEN <<>> ELSE <<a[m[N + 1]].item>>) \o t[N + 1]
    BY <1>11 DEF MessagesIn, first, t, m
  <2> QED
    BY <1>10, <2>1, <2>2
<1> HIDE DEF head
<1>19. head \o Append(s[at], e.item) = Append(head \o s[at], e.item)
  <2> DEFINE v == s[at]
             x == e.item
  <2>1. v \in Seq(Msg) /\ x \in Msg
    BY <1>3, <1>15
  <2> HIDE DEF v, x
  <2>2. head \o Append(v, x) = Append(head \o v, x)
    BY <1>16, <2>1, ConcatOfAppend
  <2> QED
    BY <2>2 DEF v, x
<1> QED
  BY <1>15, <1>17, <1>18, <1>19

---------------------------------------------------------------------------
(* How often a message is in a list.                                       *)

LEMMA TimesTyped ==
    ASSUME NEW T, NEW s \in Seq(T), NEW x
    PROVE  /\ IsFiniteSet({i \in DOMAIN s : s[i] = x})
           /\ Harness!Times(x, s) \in Nat
           /\ Harness!Times(x, s) = 0 <=> x \notin ToSet(s)
<1> DEFINE P == {i \in DOMAIN s : s[i] = x}
<1>1. Len(s) \in Nat /\ DOMAIN s = 1 .. Len(s)
  OBVIOUS
<1>2. IsFiniteSet(1 .. Len(s)) /\ P \subseteq 1 .. Len(s)
  BY <1>1, FS_Interval
<1>3. IsFiniteSet(P)
  <2> HIDE DEF P
  <2> QED
    BY <1>2, FS_Subset
<1>4. x \in ToSet(s) <=> P # {}
  BY DEF ToSet
<1>5. Harness!Times(x, s) = Cardinality(P)
  <2>1. Harness!Cardinality(P) = Cardinality(P)
    BY DEF Harness!Cardinality, Cardinality
  <2> QED
    BY Zenon, <2>1 DEF Harness!Times
<1> HIDE DEF P
<1>6. Cardinality(P) \in Nat /\ (Cardinality(P) = 0 <=> P = {})
  BY <1>3, FS_CardinalityType, FS_EmptySet
<1> QED
  BY <1>3, <1>4, <1>5, <1>6 DEF P

LEMMA TimesOfAppend ==
    ASSUME NEW T, NEW s \in Seq(T), NEW e \in T, NEW x
    PROVE  Harness!Times(x, Append(s, e)) = Harness!Times(x, s) + (IF e = x THEN 1 ELSE 0)
<1> DEFINE a == Append(s, e)
           N == Len(s)
           P == {i \in DOMAIN s : s[i] = x}
           Q == {i \in DOMAIN a : a[i] = x}
<1>1. N \in Nat /\ DOMAIN s = 1 .. N
  OBVIOUS
<1>2. a \in Seq(T) /\ Len(a) = N + 1 /\ a[N + 1] = e /\ \A i \in 1 .. N : a[i] = s[i]
  BY AppendElements
<1>3. DOMAIN a = 1 .. N + 1
  BY <1>2
<1>4. Harness!Times(x, s) = Cardinality(P) /\ Harness!Times(x, a) = Cardinality(Q)
  <2>1. Harness!Cardinality(P) = Cardinality(P) /\ Harness!Cardinality(Q) = Cardinality(Q)
    BY DEF Harness!Cardinality, Cardinality
  <2> QED
    BY Zenon, <2>1 DEF Harness!Times
<1> HIDE DEF a
<1>5. IsFiniteSet(P) /\ Cardinality(P) \in Nat
  BY <1>4, TimesTyped
<1>6. N + 1 \notin P
  BY <1>1
<1>7. CASE e = x
  <2>1. Q = P \cup {N + 1}
    BY <1>1, <1>2, <1>3, <1>7
  <2> HIDE DEF P, Q
  <2>2. Cardinality(P \cup {N + 1}) = Cardinality(P) + 1
    BY <1>5, <1>6, FS_AddElement
  <2> QED
    BY <1>4, <1>7, <2>1, <2>2 DEF a
<1>8. CASE e # x
  <2>1. Q = P
    BY <1>1, <1>2, <1>3, <1>8
  <2> HIDE DEF P, Q
  <2> QED
    BY <1>4, <1>5, <1>8, <2>1 DEF a
<1> QED
  BY <1>7, <1>8

LEMMA TimesOfConcat ==
    ASSUME NEW T, NEW s \in Seq(T), NEW t \in Seq(T), NEW x
    PROVE  Harness!Times(x, s \o t) = Harness!Times(x, s) + Harness!Times(x, t)
<1> DEFINE P == {u \in Seq(T) : Harness!Times(x, s \o u) = Harness!Times(x, s) + Harness!Times(x, u)}
<1>1. <<>> \in P
  <2>1. s \o <<>> = s /\ <<>> \in Seq(T)
    OBVIOUS
  <2>2. x \notin ToSet(<<>>)
    BY DEF ToSet
  <2>3. Harness!Times(x, <<>>) = 0 /\ Harness!Times(x, s) \in Nat
    BY <2>1, <2>2, TimesTyped
  <2> QED
    BY <2>1, <2>3
<1>2. ASSUME NEW u \in Seq(T), NEW e \in T, u \in P PROVE Append(u, e) \in P
  <2> DEFINE c == s \o u
             one == IF e = x THEN 1 ELSE 0
  <2>1. c \in Seq(T) /\ Append(u, e) \in Seq(T)
    BY ConcatElements, AppendElements
  <2>2. s \o Append(u, e) = Append(c, e)
    BY ConcatOfAppend
  <2>3. Harness!Times(x, c) = Harness!Times(x, s) + Harness!Times(x, u)
    BY <1>2
  <2>4. Harness!Times(x, Append(u, e)) = Harness!Times(x, u) + one
    BY TimesOfAppend
  <2> HIDE DEF c
  <2>5. Harness!Times(x, Append(c, e)) = Harness!Times(x, c) + one
    BY <2>1, TimesOfAppend
  <2>6. one \in Nat /\ Harness!Times(x, s) \in Nat /\ Harness!Times(x, u) \in Nat
    BY TimesTyped
  <2> HIDE DEF one
  <2>7. Harness!Times(x, s \o Append(u, e)) = Harness!Times(x, s) + Harness!Times(x, Append(u, e))
    BY <2>2, <2>3, <2>4, <2>5, <2>6
  <2> QED
    BY <2>1, <2>7
<1> HIDE DEF P
<1>3. \A u \in Seq(T) : u \in P
  BY <1>1, <1>2, SequenceInduction
<1> QED
  BY <1>3 DEF P

LEMMA TimesOfTail ==
    ASSUME NEW T, NEW s \in Seq(T), s # <<>>, NEW x
    PROVE  Harness!Times(x, s) = Harness!Times(x, Tail(s)) + (IF Head(s) = x THEN 1 ELSE 0)
<1> DEFINE P == {t \in Seq(T) : t # <<>> =>
                    Harness!Times(x, t) = Harness!Times(x, Tail(t)) + (IF Head(t) = x THEN 1 ELSE 0)}
<1>1. <<>> \in P
  OBVIOUS
<1>2. ASSUME NEW t \in Seq(T), NEW e \in T, t \in P PROVE Append(t, e) \in P
  <2> DEFINE a == Append(t, e)
  <2>1. a \in Seq(T) /\ a # <<>>
    BY AppendElements
  <2>2. Harness!Times(x, a) = Harness!Times(x, t) + (IF e = x THEN 1 ELSE 0)
    BY TimesOfAppend
  <2>3. CASE t = <<>>
    <3>1. Head(a) = e /\ Tail(a) = <<>>
      BY <2>3
    <3>2. Harness!Times(x, t) = 0
      <4>1. x \notin ToSet(t)
        BY <2>3 DEF ToSet
      <4> QED
        BY <4>1, TimesTyped
    <3> HIDE DEF a
    <3>3. Harness!Times(x, a) = Harness!Times(x, Tail(a)) + (IF Head(a) = x THEN 1 ELSE 0)
      BY ONLY <2>2, <2>3, <3>1, <3>2
    <3> QED
      BY <2>1, <3>3 DEF a
  <2>4. CASE t # <<>>
    <3> DEFINE u == Tail(t)
    <3>1. Head(a) = Head(t) /\ Tail(a) = Append(u, e) /\ u \in Seq(T)
      BY <2>4
    <3>2. Harness!Times(x, Tail(a)) = Harness!Times(x, u) + (IF e = x THEN 1 ELSE 0)
      <4> HIDE DEF u, a
      <4>1. Harness!Times(x, Append(u, e)) = Harness!Times(x, u) + (IF e = x THEN 1 ELSE 0)
        BY <3>1, TimesOfAppend
      <4> QED
        BY <3>1, <4>1
    <3>3. Harness!Times(x, t) = Harness!Times(x, Tail(t)) + (IF Head(t) = x THEN 1 ELSE 0)
      BY <1>2, <2>4
    <3>4. Harness!Times(x, Tail(t)) \in Nat
      BY <3>1, TimesTyped
    <3> HIDE DEF a
    <3>5. Harness!Times(x, a) = Harness!Times(x, Tail(a)) + (IF Head(a) = x THEN 1 ELSE 0)
      BY ONLY <2>2, <3>1, <3>2, <3>3, <3>4
    <3> QED
      BY <2>1, <3>5 DEF a
  <2> QED
    BY <2>3, <2>4
<1> HIDE DEF P
<1>3. \A t \in Seq(T) : t \in P
  BY <1>1, <1>2, SequenceInduction
<1> QED
  BY <1>3 DEF P

\* What is recorded, as a list.
ItemsOf(es) == [i \in 1 .. Len(es) |-> es[i].item]

LEMMA ItemsTyped ==
    ASSUME NEW es \in Seq(EntryType)
    PROVE  ItemsOf(es) \in Seq(Msg) /\ Len(ItemsOf(es)) = Len(es) /\ ToSet(ItemsOf(es)) \subseteq Msg
<1>1. Len(es) \in Nat /\ \A i \in 1 .. Len(es) : es[i].item \in Msg
  <2>1. Len(es) \in Nat /\ \A i \in 1 .. Len(es) : es[i] \in EntryType
    OBVIOUS
  <2>2. \A e \in EntryType : e.item \in Msg
    BY DEF EntryType
  <2> QED
    BY <2>1, <2>2
<1>2. ItemsOf(es) \in [1 .. Len(es) -> Msg]
  BY <1>1 DEF ItemsOf
<1> HIDE DEF ItemsOf
<1>3. ItemsOf(es) \in Seq(Msg) /\ Len(ItemsOf(es)) = Len(es)
  BY <1>1, <1>2
<1> QED
  BY <1>1, <1>2, <1>3 DEF ToSet

LEMMA ItemsOfAppend ==
    ASSUME NEW es \in Seq(EntryType), NEW e \in EntryType
    PROVE  ItemsOf(Append(es, e)) = Append(ItemsOf(es), e.item)
<1> DEFINE a == Append(es, e)
           N == Len(es)
<1>1. N \in Nat /\ a \in Seq(EntryType) /\ Len(a) = N + 1 /\ a[N + 1] = e /\ \A i \in 1 .. N : a[i] = es[i]
  BY AppendElements
<1>2. e.item \in Msg
  BY DEF EntryType
<1>3. ItemsOf(es) \in Seq(Msg) /\ Len(ItemsOf(es)) = N /\ ItemsOf(a) \in Seq(Msg) /\ Len(ItemsOf(a)) = N + 1
  BY <1>1, ItemsTyped
<1> DEFINE b == Append(ItemsOf(es), e.item)
<1>4. b \in Seq(Msg) /\ Len(b) = N + 1 /\ b[N + 1] = e.item /\ \A i \in 1 .. N : b[i] = ItemsOf(es)[i]
  BY <1>2, <1>3, AppendElements
<1>5. (\A i \in 1 .. N : ItemsOf(es)[i] = es[i].item) /\ \A i \in 1 .. N + 1 : ItemsOf(a)[i] = a[i].item
  BY <1>1 DEF ItemsOf
<1> HIDE DEF a, b
<1>6. \A i \in 1 .. N + 1 : ItemsOf(a)[i] = b[i]
  BY <1>1, <1>4, <1>5
<1>7. ItemsOf(a) = b
  BY <1>3, <1>4, <1>6, SeqEqual
<1> QED
  BY <1>7 DEF a, b

LEMMA RecordedItems ==
    ASSUME NEW x, entries \in Seq(EntryType)
    PROVE  Harness!Recorded(x) = Harness!Times(x, ItemsOf(entries))
<1>1. DOMAIN entries = 1 .. Len(entries) /\ DOMAIN ItemsOf(entries) = 1 .. Len(entries)
  BY DEF ItemsOf
<1>2. \A i \in 1 .. Len(entries) : ItemsOf(entries)[i] = entries[i].item
  BY DEF ItemsOf
<1>3. {i \in DOMAIN entries : entries[i].item = x} = {i \in DOMAIN ItemsOf(entries) : ItemsOf(entries)[i] = x}
  BY <1>1, <1>2
<1> QED
  BY <1>3 DEF Harness!Recorded, Harness!Times

---------------------------------------------------------------------------
(* A run and what it has in hand.                                          *)

Word == {"none", "begin", "append", "poll", "ask", "stream", "turnEnd", "savePoint", "prepare", "followUp", "ended",
         "return", "reject", "done", "text", "tool", "error", "aborted"}
RunType == [pc : Word, next : Word, context : Seq(Msg), todo : Seq(Msg), item : Msg, parent : Nat,
            flushing : BOOLEAN, reply : Word, replies : Nat, failing : BOOLEAN, late : BOOLEAN,
            taken : SUBSET Msg]

QueueKinds == {"steer", "followUp", "nextTurn"}
Said == QueueKinds \cup {"prompt", "reply", "result", "failure"}
\* Where a run goes when its messages are recorded, and when the writes that waited are.
Behind == {"poll", "ask", "followUp", "turnEnd"}
Through == {"savePoint", "prepare", "ended", "return", "reject"}

Recording(m) == m.pc = "append" /\ ~m.flushing
Flushing(m) == m.pc = "append" /\ m.flushing
\* The messages a run has still to record.
Hand(m) == IF Recording(m) THEN <<m.item>> \o m.todo ELSE <<>>

\* What a run may have in hand, in a session of size entries, when n things have failed.
HandOK(hand, taken) ==
    \A i \in DOMAIN hand : hand[i][1] \in Said /\ (hand[i][1] \in QueueKinds => hand[i] \in taken)
RunOK(m, size, n) ==
    /\ m \in RunType
    /\ m.pc = "append" => m.parent <= size
    /\ Recording(m) => m.next \in Behind
    /\ Flushing(m) => m.next \in Through /\ m.item[1] = "write"
    /\ HandOK(Hand(m), m.taken)
    /\ m.pc \in {"none", "begin"} => ~m.failing
    /\ n = 0 => ~m.late /\ m.pc # "reject" /\ (m.pc = "append" => m.next # "reject")

\* How a run that is alone goes with the session: what it appends goes behind the leaf, what it gives to the model is
\* the branch with what is in hand, and what it flushes is the first of the writes.
SyncOK(m, es, at, waits) ==
    /\ m.pc = "append" => m.parent = at
    /\ m.pc \in {"begin", "poll", "ask", "stream", "prepare", "followUp"} => m.context = MessagesIn(es, at)
    /\ Recording(m) /\ m.next # "turnEnd" => m.context = MessagesIn(es, at) \o Hand(m)
    /\ Flushing(m) => waits # <<>> /\ Head(waits) = m.item

Waits(queue, kind) == queue \in Seq(Msg) /\ \A i \in DOMAIN queue : queue[i][1] = kind
SessionOK(es, at) == Tree(es) /\ at \in 0 .. Len(es)
Same(m, me) == m.failing = me.failing /\ m.late = me.late /\ m.taken = me.taken

LEMMA Words ==
    /\ Behind \subseteq Word /\ Through \subseteq Word
    /\ "append" \in Word /\ "stream" \in Word /\ "error" \in Word /\ "done" \in Word /\ "none" \in Word /\ "begin" \in Word
    /\ "text" \in Word /\ "tool" \in Word /\ "aborted" \in Word
  BY DEF Word, Behind, Through

LEMMA ReachLands ==
    ASSUME NEW me \in RunType, NEW next \in Word, SessionOK(entries, leaf)',
           NEW m, m = Harness!Reach(me, next)
    PROVE  /\ m \in RunType /\ m.pc = next /\ Same(m, me)
           /\ m.context = IF next = "prepare" THEN MessagesIn(entries', leaf') ELSE me.context
<1>1. Harness!Messages(leaf)' = MessagesIn(entries', leaf') /\ MessagesIn(entries', leaf') \in Seq(Msg)
  BY MessagesThen, MessagesTyped DEF SessionOK
<1> DEFINE c == IF next = "prepare" THEN MessagesIn(entries', leaf') ELSE me.context
<1>2. m = [me EXCEPT !.pc = next, !.context = c]
  BY Zenon, <1>1 DEF Harness!Reach
<1>3. c \in Seq(Msg)
  BY <1>1 DEF RunType
<1> HIDE DEF c
<1>4. m \in RunType /\ m.pc = next /\ m.context = c /\ Same(m, me)
  BY <1>2, <1>3 DEF RunType, Same
<1> QED
  BY <1>4 DEF c

Appended(m, me, item, flushing, next) ==
    /\ m \in RunType /\ m.pc = "append" /\ m.item = item /\ m.parent = leaf' /\ m.flushing = flushing
    /\ m.next = next /\ m.todo = me.todo /\ m.context = me.context /\ Same(m, me)

LEMMA AppendingLands ==
    ASSUME NEW me \in RunType, NEW item \in Msg, NEW next \in Word, leaf' \in Nat, NEW m
    PROVE  /\ m = Harness!Appending(me, item, TRUE, next) => Appended(m, me, item, TRUE, next)
           /\ m = Harness!Appending(me, item, FALSE, next) => Appended(m, me, item, FALSE, next)
<1> DEFINE at == leaf'
           Of(b) == [me EXCEPT !.pc = "append", !.item = item, !.parent = at, !.flushing = b, !.next = next]
           Lands(b) == /\ m \in RunType /\ m.pc = "append" /\ m.item = item /\ m.parent = at /\ m.flushing = b
                       /\ m.next = next /\ m.todo = me.todo /\ m.context = me.context /\ Same(m, me)
<1>1. /\ Harness!Appending(me, item, TRUE, next) = Of(TRUE)
      /\ Harness!Appending(me, item, FALSE, next) = Of(FALSE)
  BY Zenon DEF Harness!Appending
<1>2. at \in Nat
  OBVIOUS
<1>5. SUFFICES /\ m = Of(TRUE) => Lands(TRUE)
               /\ m = Of(FALSE) => Lands(FALSE)
  BY Zenon, <1>1 DEF Appended
<1> HIDE DEF at
<1>3. m = Of(TRUE) => Lands(TRUE)
  BY <1>2, Words DEF RunType, Same
<1>4. m = Of(FALSE) => Lands(FALSE)
  BY <1>2, Words DEF RunType, Same
<1> QED
  BY <1>3, <1>4

\* What a run records from here: RunOK and what SyncOK is about.
Goes(m, me, todo, next) ==
    /\ m.context = me.context /\ Hand(m) = todo /\ m.pc \in {"append", next}
    /\ m.pc = "append" => Recording(m) /\ m.parent = leaf' /\ m.next = next

LEMMA RecordLands ==
    ASSUME NEW me \in RunType, NEW todo \in Seq(Msg), NEW next \in Behind, SessionOK(entries, leaf)',
           throws' \in Nat, me.late => throws' # 0, HandOK(todo, me.taken),
           NEW m, m = Harness!Record(me, todo, next)
    PROVE  RunOK(m, Len(entries'), throws') /\ Same(m, me) /\ Goes(m, me, todo, next)
<1>0. Len(entries') \in Nat /\ leaf' \in 0 .. Len(entries')
  BY DEF SessionOK, Tree
<1>1. CASE todo = <<>>
  <2>1. m = Harness!Reach(me, next)
    BY Zenon, <1>1 DEF Harness!Record
  <2>2. next \in Word /\ next # "prepare" /\ next # "append" /\ next # "reject"
      /\ next \notin {"none", "begin"}
    BY Words DEF Behind
  <2>3. m \in RunType /\ m.pc = next /\ Same(m, me) /\ m.context = me.context
    BY <2>1, <2>2, ReachLands
  <2>4. Hand(m) = todo /\ ~Recording(m) /\ ~Flushing(m)
    BY <1>1, <2>2, <2>3 DEF Hand, Recording, Flushing
  <2>5. m.late => throws' # 0
    BY <2>3 DEF Same
  <2>6. HandOK(Hand(m), m.taken)
    BY <2>3, <2>4 DEF Same
  <2>7. RunOK(m, Len(entries'), throws')
    BY <2>2, <2>3, <2>4, <2>5, <2>6 DEF RunOK
  <2> QED
    BY <2>2, <2>3, <2>4, <2>7 DEF Goes
<1>2. CASE todo # <<>>
  <2> DEFINE t == Tail(todo)
  <2>0. PICK h, a : h = Head(todo) /\ a = Harness!Appending(me, h, FALSE, next)
    BY Zenon
  <2>1. m = [a EXCEPT !.todo = t]
    BY Zenon, <1>2, <2>0 DEF Harness!Record
  <2>2. h \in Msg /\ t \in Seq(Msg) /\ next \in Word /\ leaf' \in Nat /\ next # "reject" /\ next \notin Through
    BY <1>0, <1>2, <2>0, Words, HeadAndTail DEF Behind, Through
  <2>3. <<h>> \o t = todo
    BY <1>2, <2>0, HeadThenTail
  <2>4. Appended(a, me, h, FALSE, next)
    BY Zenon, <2>0, <2>2, AppendingLands
  <2> HIDE DEF t
  <2>5. /\ m \in RunType /\ m.pc = "append" /\ m.item = h /\ m.parent = leaf' /\ m.flushing = FALSE
        /\ m.next = next /\ m.context = me.context /\ Same(m, me) /\ m.todo = t
    BY <2>1, <2>2, <2>4 DEF RunType, Same, Appended
  <2>6. Recording(m) /\ ~Flushing(m) /\ Hand(m) = todo
    BY <2>3, <2>5 DEF Recording, Flushing, Hand
  <2>7. (m.late => throws' # 0) /\ HandOK(Hand(m), m.taken)
    BY <2>5, <2>6 DEF Same
  <2>8. RunOK(m, Len(entries'), throws')
    BY <1>0, <2>2, <2>5, <2>6, <2>7 DEF RunOK
  <2> QED
    BY <2>5, <2>6, <2>8 DEF Goes
<1> QED
  BY <1>1, <1>2

\* What is given to the model is then what is recorded.
LEMMA Syncs ==
    ASSUME NEW m, NEW me, NEW todo, NEW next \in Behind, Goes(m, me, todo, next), SessionOK(entries, leaf)', NEW waits,
           next # "turnEnd" => me.context = MessagesIn(entries', leaf') \o todo
    PROVE  SyncOK(m, entries', leaf', waits)
<1>0. MessagesIn(entries', leaf') \in Seq(Msg) /\ next \notin {"append", "begin", "stream", "prepare"}
  BY MessagesTyped DEF SessionOK, Behind
<1>1. CASE m.pc = "append"
  <2>1. Recording(m) /\ ~Flushing(m) /\ m.parent = leaf' /\ m.next = next
    BY <1>1 DEF Goes, Recording, Flushing
  <2> QED
    BY <1>1, <2>1 DEF Goes, SyncOK
<1>2. CASE m.pc # "append"
  <2>1. ~Recording(m) /\ ~Flushing(m) /\ m.pc = next
    BY <1>2 DEF Goes, Recording, Flushing
  <2>2. todo = <<>>
    BY Zenon, <2>1 DEF Goes, Hand
  <2>3. MessagesIn(entries', leaf') \o <<>> = MessagesIn(entries', leaf')
    BY <1>0
  <2>4. next # "turnEnd" => m.context = MessagesIn(entries', leaf')
    BY <2>2, <2>3 DEF Goes
  <2> QED
    BY <1>0, <1>2, <2>1, <2>4 DEF SyncOK
<1> QED
  BY <1>1, <1>2

\* Messages that are taken are in hand, and given to the model.
LEMMA TakeLands ==
    ASSUME NEW me \in RunType, NEW todo \in Seq(Msg), NEW next \in Behind, SessionOK(entries, leaf)',
           throws' \in Nat, me.late => throws' # 0, \A i \in DOMAIN todo : todo[i][1] \in Said,
           NEW m, m = Harness!Take(me, todo, next)
    PROVE  /\ RunOK(m, Len(entries'), throws') /\ m.failing = me.failing /\ me.taken \subseteq m.taken
           /\ \E b \in RunType : b.context = me.context \o todo /\ Goes(m, b, todo, next)
<1> DEFINE c == me.context \o todo
           k == me.taken \cup Harness!Range(todo)
<1>0. PICK b : b = [me EXCEPT !.context = c, !.taken = k]
  BY Zenon
<1>1. m = Harness!Record(b, todo, next)
  BY Zenon, <1>0 DEF Harness!Take
<1>2. Harness!Range(todo) \subseteq Msg /\ \A i \in DOMAIN todo : todo[i] \in Harness!Range(todo)
  BY DEF Harness!Range
<1>3. me.context \in Seq(Msg) /\ me.taken \subseteq Msg /\ me.late \in BOOLEAN
  BY DEF RunType
<1>4. c \in Seq(Msg) /\ k \in SUBSET Msg
  BY <1>2, <1>3, ConcatElements
<1>5. HandOK(todo, k)
  BY <1>2 DEF HandOK
<1>6. me.taken \subseteq k
  OBVIOUS
<1> HIDE DEF c, k
<1>7. b \in RunType /\ b.context = c /\ b.taken = k /\ b.failing = me.failing /\ b.late = me.late
  BY <1>0, <1>4 DEF RunType
<1>9. (b.late => throws' # 0) /\ HandOK(todo, b.taken)
  BY <1>5, <1>7
<1>8. RunOK(m, Len(entries'), throws') /\ Same(m, b) /\ Goes(m, b, todo, next)
  BY Zenon, <1>1, <1>7, <1>9, RecordLands
<1> QED
  BY <1>6, <1>7, <1>8 DEF Same, c

LEMMA TakeSyncs ==
    ASSUME NEW me, NEW todo \in Seq(Msg), NEW next \in Behind, SessionOK(entries, leaf)', NEW waits,
           next # "turnEnd" => me.context = MessagesIn(entries', leaf'),
           NEW m, NEW b, b.context = me.context \o todo, Goes(m, b, todo, next)
    PROVE  SyncOK(m, entries', leaf', waits)
<1>1. next # "turnEnd" => b.context = MessagesIn(entries', leaf') \o todo
  OBVIOUS
<1> QED
  BY Zenon, <1>1, Syncs

LEMMA FlushLands ==
    ASSUME NEW me \in RunType, NEW next \in Through, SessionOK(entries, leaf)', throws' \in Nat,
           me.late \/ next = "reject" => throws' # 0, Waits(pendingSessionWrites, "write")',
           NEW m, m = Harness!Flush(me, next)
    PROVE  /\ RunOK(m, Len(entries'), throws') /\ Same(m, me) /\ Hand(m) = <<>>
           /\ m.pc = "append" \/ (m.pc = next /\ pendingSessionWrites' = <<>>)
           /\ SyncOK(m, entries', leaf', pendingSessionWrites')
<1> DEFINE w == pendingSessionWrites'
<1>0. Len(entries') \in Nat /\ leaf' \in 0 .. Len(entries') /\ MessagesIn(entries', leaf') \in Seq(Msg)
      /\ w \in Seq(Msg) /\ \A i \in DOMAIN w : w[i][1] = "write"
  BY MessagesTyped DEF SessionOK, Tree, Waits
<1>1. next \in Word /\ next \notin Behind /\ next \notin {"append", "begin", "stream", "none"}
  BY Words DEF Through, Behind
<1>2. HandOK(<<>>, m.taken)
  BY DEF HandOK
<1>3. CASE w = <<>>
  <2>1. m = Harness!Reach(me, next)
    BY Zenon, <1>3 DEF Harness!Flush
  <2>2. /\ m \in RunType /\ m.pc = next /\ Same(m, me)
        /\ m.context = IF next = "prepare" THEN MessagesIn(entries', leaf') ELSE me.context
    BY <1>1, <2>1, ReachLands
  <2>3. Hand(m) = <<>> /\ ~Recording(m) /\ ~Flushing(m)
    BY <1>1, <2>2 DEF Hand, Recording, Flushing
  <2>4. throws' = 0 => ~m.late /\ next # "reject"
    BY <2>2 DEF Same
  <2>5. RunOK(m, Len(entries'), throws')
    BY <1>1, <1>2, <2>2, <2>3, <2>4 DEF RunOK
  <2>6. SyncOK(m, entries', leaf', w)
    BY <1>1, <2>2, <2>3 DEF SyncOK, Behind
  <2> QED
    BY <1>3, <2>2, <2>3, <2>5, <2>6
<1>4. CASE w # <<>>
  <2>3. PICK h : h = Head(w)
    BY Zenon
  <2>1. m = Harness!Appending(me, h, TRUE, next)
    BY Zenon, <1>4, <2>3 DEF Harness!Flush
  <2>2. h \in Msg /\ h[1] = "write" /\ TRUE \in BOOLEAN /\ leaf' \in Nat
    <3> HIDE DEF w
    <3>1. 1 \in DOMAIN w /\ h = w[1]
      BY <1>0, <1>4, <2>3
    <3> QED
      BY <1>0, <3>1
  <2> HIDE DEF w
  <2>9. Appended(m, me, h, TRUE, next)
    BY Zenon, <1>1, <2>1, <2>2, AppendingLands
  <2>4. /\ m \in RunType /\ m.pc = "append" /\ m.item = h /\ m.parent = leaf' /\ m.flushing = TRUE
        /\ m.next = next /\ Same(m, me)
    BY <2>9 DEF Appended
  <2>5. Flushing(m) /\ ~Recording(m) /\ Hand(m) = <<>>
    BY <2>4 DEF Flushing, Recording, Hand
  <2>6. throws' = 0 => ~m.late /\ m.next # "reject"
    BY <2>4 DEF Same
  <2>7. RunOK(m, Len(entries'), throws')
    BY <1>0, <1>2, <2>2, <2>4, <2>5, <2>6 DEF RunOK
  <2>8. SyncOK(m, entries', leaf', w)
    BY <1>4, <2>3, <2>4, <2>5 DEF SyncOK
  <2> QED
    BY <2>4, <2>5, <2>7, <2>8 DEF w
<1> QED
  BY <1>3, <1>4

\* An error ends what a run has in hand: it is reported, or the run is rejected.
EndsBadly(m, me) ==
    /\ RunOK(m, Len(entries'), throws') /\ m.failing = TRUE /\ m.taken = me.taken
    /\ m.pc \in {"append", "turnEnd", "reject"} /\ (m.pc # "append" => pendingSessionWrites' = <<>>)
    /\ \A i \in DOMAIN Hand(m) : Hand(m)[i][1] = "failure"
    /\ SyncOK(m, entries', leaf', pendingSessionWrites')

LEMMA ThrownLands ==
    ASSUME NEW me \in RunType, NEW r \in Nat, SessionOK(entries, leaf)', throws' \in Nat, throws' # 0,
           Waits(pendingSessionWrites, "write")', NEW m, m = Harness!Thrown(r, me)
    PROVE  EndsBadly(m, me)
<1>1. CASE me.failing
  <2>1. m = Harness!Flush(me, "reject") /\ "reject" \in Through
    BY Zenon, <1>1 DEF Harness!Thrown, Through
  <2>2. me.failing = TRUE
    BY <1>1 DEF RunType
  <2>3. /\ RunOK(m, Len(entries'), throws') /\ Same(m, me) /\ Hand(m) = <<>>
        /\ m.pc = "append" \/ (m.pc = "reject" /\ pendingSessionWrites' = <<>>)
        /\ SyncOK(m, entries', leaf', pendingSessionWrites')
    BY <2>1, FlushLands
  <2> QED
    BY <2>2, <2>3 DEF Same, EndsBadly
<1>2. CASE ~me.failing
  <2> DEFINE f == Harness!Message("failure", r, 0)
             t == <<f>>
             next == "turnEnd"
  <2>0. PICK b : b = [me EXCEPT !.failing = TRUE, !.reply = "error", !.late = FALSE]
    BY Zenon
  <2>1. m = Harness!Record(b, t, next)
    BY Zenon, <1>2, <2>0 DEF Harness!Thrown
  <2>2. f \in Msg /\ f[1] = "failure"
    BY DEF Harness!Message, Msg, Harness!Kinds, Harness!UserKinds
  <2>3. /\ b \in RunType /\ b.failing = TRUE /\ b.late = FALSE /\ b.taken = me.taken
    BY Words, <2>0 DEF RunType
  <2> HIDE DEF f
  <2>4. t \in Seq(Msg) /\ DOMAIN t = {1} /\ t[1] = f /\ t # <<>>
    BY <2>2
  <2>5. HandOK(t, b.taken)
    BY <2>2, <2>4 DEF HandOK, Said, QueueKinds
  <2> HIDE DEF t
  <2>6. next \in Behind
    BY DEF Behind
  <2>7. RunOK(m, Len(entries'), throws') /\ Same(m, b) /\ Goes(m, b, t, next)
    <3>1. b.late => throws' # 0
      BY <2>3
    <3> HIDE DEF next
    <3> QED
      BY Zenon, <2>1, <2>3, <2>4, <2>5, <2>6, <3>1, RecordLands
  <2>9. SyncOK(m, entries', leaf', pendingSessionWrites')
    <3>1. next # "turnEnd" => b.context = MessagesIn(entries', leaf') \o t
      OBVIOUS
    <3> HIDE DEF next
    <3> QED
      BY Zenon, <2>6, <2>7, <3>1, Syncs
  <2>8. m.pc = "append"
    <3>1. Hand(m) # <<>>
      BY <2>4, <2>7 DEF Goes
    <3> QED
      BY Zenon, <3>1 DEF Hand, Recording
  <2> QED
    BY <2>2, <2>3, <2>4, <2>7, <2>8, <2>9 DEF Same, Goes, EndsBadly
<1> QED
  BY <1>1, <1>2

---------------------------------------------------------------------------
(* The steps of a run.                                                     *)

HarnessTypes ==
    /\ SessionOK(entries, leaf)
    /\ Waits(pendingSessionWrites, "write") /\ Waits(steerQueue, "steer") /\ Waits(followUpQueue, "followUp")
    /\ Waits(nextTurnQueue, "nextTurn")
    /\ run \in [Harness!Run -> RunType] /\ throws \in Nat
    /\ \A r \in Harness!Run : RunOK(run[r], Len(entries), throws)

\* How often a message is recorded or waits, and how often it is in a run's hand.
Count(x) == Harness!Recorded(x) + Harness!Times(x, steerQueue) + Harness!Times(x, followUpQueue)
            + Harness!Times(x, nextTurnQueue)
Held(x, m) == Harness!Times(x, Hand(m))

\* What a step of a run does to a message that was queued: it goes from one place to the next, or a run that fails
\* loses it.
Flows(x, m, me) ==
    \E lost \in Nat : /\ Count(x)' + Held(x, m) + lost = Count(x) + Held(x, me)
                      /\ lost # 0 => m.failing /\ x \in m.taken

Elsewhere == UNCHANGED <<queued, operation, idleWrite, aborted, abortAsked, returned, patience, writes, operations>>
Queues == Waits(steerQueue, "steer") /\ Waits(followUpQueue, "followUp") /\ Waits(nextTurnQueue, "nextTurn")
Persists(me) ==
    /\ me.pc = "append" /\ Harness!Persist(me.item, me.parent, 0)
    /\ pendingSessionWrites' = IF me.flushing THEN Harness!Shifted(pendingSessionWrites, TRUE) ELSE pendingSessionWrites
OldWritesGone == \/ UNCHANGED phase
                 \/ phase' = "idle" /\ (pendingSessionWrites' = <<>> \/ throws' # 0)

\* A step of run r, which becomes m.
Moved(r, m) ==
    /\ run' = [run EXCEPT ![r] = m] /\ RunOK(m, Len(entries'), throws') /\ Elsewhere /\ Queues'
    /\ patience = "patient" /\ SyncOK(run[r], entries, leaf, pendingSessionWrites)
          => SyncOK(m, entries', leaf', pendingSessionWrites')
    /\ UNCHANGED <<entries, leaf, pendingSessionWrites>> \/ Persists(run[r])
    /\ \A x \in Msg : x[1] \in QueueKinds => Flows(x, m, run[r])
    /\ run[r].failing => m.failing /\ run[r].taken \subseteq m.taken
    /\ OldWritesGone /\ throws' \in Nat /\ (throws' = 0 => throws = 0)
    /\ run[r].pc \notin {"none", "done"} /\ m.pc \notin {"none", "begin"}
    /\ m.pc # "done" => runAbortController' = IF run[r].pc = "begin" THEN r ELSE runAbortController
    /\ patience = "patient" /\ run[r].pc = "ended" => idleWrite.item = Harness!Nothing
    /\ run[r].pc = "ask" /\ m.pc = "stream" => r \notin aborted

\* A step that ends no append.
Quiet(r) ==
    /\ run[r].pc \notin {"append", "none", "done"} /\ UNCHANGED <<entries, leaf, pendingSessionWrites>> /\ Elsewhere
    /\ throws' \in Nat /\ (throws' = 0 => throws = 0)
    /\ runAbortController' = IF run[r].pc = "begin" THEN r ELSE runAbortController
    /\ patience = "patient" /\ run[r].pc = "ended" => idleWrite.item = Harness!Nothing

LEMMA NoneHeld ==
    ASSUME NEW m, m.pc # "append"
    PROVE  Hand(m) = <<>> /\ \A x : Held(x, m) = 0
<1>1. Hand(m) = <<>>
  BY DEF Hand, Recording
<1>2. ASSUME NEW x PROVE Held(x, m) = 0
  <2>1. x \notin ToSet(<<>>) /\ <<>> \in Seq(Msg)
    BY DEF ToSet
  <2>2. Harness!Times(x, <<>>) = 0
    BY <2>1, TimesTyped
  <2> QED
    BY <1>1, <2>2 DEF Held
<1> QED
  BY <1>1, <1>2

LEMMA OthersHeld ==
    ASSUME NEW m \in RunType, NEW kind, \A i \in DOMAIN Hand(m) : Hand(m)[i][1] = kind, NEW x, x[1] # kind
    PROVE  Held(x, m) = 0
<1>1. Hand(m) \in Seq(Msg)
  <2>1. m.item \in Msg /\ m.todo \in Seq(Msg)
    BY DEF RunType
  <2>2. <<m.item>> \in Seq(Msg) /\ <<>> \in Seq(Msg)
    BY <2>1
  <2>3. <<m.item>> \o m.todo \in Seq(Msg)
    BY <2>1, <2>2, ConcatElements
  <2> QED
    BY <2>2, <2>3 DEF Hand
<1>2. x \notin ToSet(Hand(m))
  BY DEF ToSet
<1> QED
  BY <1>1, <1>2, TimesTyped DEF Held

LEMMA HandTyped ==
    ASSUME NEW m \in RunType
    PROVE  Hand(m) \in Seq(Msg) /\ \A x : Held(x, m) \in Nat
<1>1. m.item \in Msg /\ m.todo \in Seq(Msg)
  BY DEF RunType
<1>2. <<m.item>> \in Seq(Msg) /\ <<>> \in Seq(Msg)
  BY <1>1
<1>3. <<m.item>> \o m.todo \in Seq(Msg)
  BY <1>1, <1>2, ConcatElements
<1>4. Hand(m) \in Seq(Msg)
  BY <1>2, <1>3 DEF Hand
<1> QED
  BY <1>4, TimesTyped DEF Held

LEMMA CountTyped ==
    ASSUME HarnessTypes
    PROVE  \A x : /\ Count(x) \in Nat /\ Harness!Recorded(x) \in Nat /\ Harness!Times(x, steerQueue) \in Nat
                  /\ Harness!Times(x, followUpQueue) \in Nat /\ Harness!Times(x, nextTurnQueue) \in Nat
<1> SUFFICES ASSUME NEW x
             PROVE  /\ Count(x) \in Nat /\ Harness!Recorded(x) \in Nat /\ Harness!Times(x, steerQueue) \in Nat
                    /\ Harness!Times(x, followUpQueue) \in Nat /\ Harness!Times(x, nextTurnQueue) \in Nat
  OBVIOUS
<1>1. /\ entries \in Seq(EntryType) /\ steerQueue \in Seq(Msg) /\ followUpQueue \in Seq(Msg)
      /\ nextTurnQueue \in Seq(Msg)
  BY DEF HarnessTypes, SessionOK, Tree, Waits
<1>2. ItemsOf(entries) \in Seq(Msg) /\ Harness!Recorded(x) = Harness!Times(x, ItemsOf(entries))
  BY <1>1, ItemsTyped, RecordedItems
<1>3. /\ Harness!Recorded(x) \in Nat /\ Harness!Times(x, steerQueue) \in Nat
      /\ Harness!Times(x, followUpQueue) \in Nat /\ Harness!Times(x, nextTurnQueue) \in Nat
  BY <1>1, <1>2, TimesTyped
<1> QED
  BY <1>3 DEF Count

LEMMA BecomesIs ==
    ASSUME NEW r, NEW m, Harness!Becomes(r, m)
    PROVE  run' = [run EXCEPT ![r] = m] /\ phase' = IF m.pc = "ended" THEN "idle" ELSE phase
  BY Zenon DEF Harness!Becomes

\* A message that stays where it is.
LEMMA StaysPut ==
    ASSUME HarnessTypes, NEW m, NEW me, NEW x, UNCHANGED <<entries, steerQueue, followUpQueue, nextTurnQueue>>,
           Held(x, m) = 0, Held(x, me) = 0
    PROVE  Flows(x, m, me)
<1>1. Count(x) \in Nat
  BY CountTyped
<1>2. Count(x)' = Count(x)
  BY DEF Count, Harness!Recorded
<1>3. Count(x)' + Held(x, m) + 0 = Count(x) + Held(x, me) /\ 0 \in Nat
  BY <1>1, <1>2
<1> QED
  BY <1>3 DEF Flows

LEMMA TakesMove ==
    ASSUME HarnessTypes, NEW r \in Harness!Run, Quiet(r), Queues',
           run[r].pc \in {"begin", "poll", "ask", "stream", "prepare", "followUp"},
           NEW b \in RunType, b.failing = run[r].failing, b.taken = run[r].taken, b.context = run[r].context,
           b.late = run[r].late,
           NEW todo \in Seq(Msg), \A i \in DOMAIN todo : todo[i][1] \in Said, NEW next \in Behind,
           \A x \in Msg : x[1] \in QueueKinds => Count(x)' + Harness!Times(x, todo) = Count(x),
           NEW m, m = Harness!Take(b, todo, next), Harness!Becomes(r, m)
    PROVE  Moved(r, m)
<1>0. SessionOK(entries, leaf)' /\ throws' \in Nat /\ (throws' = 0 => throws = 0) /\ run[r] \in RunType
      /\ RunOK(run[r], Len(entries), throws)
  BY DEF HarnessTypes, Quiet, SessionOK
<1>1. b.late => throws' # 0
  BY <1>0 DEF RunOK
<1>2. /\ RunOK(m, Len(entries'), throws') /\ m.failing = b.failing /\ b.taken \subseteq m.taken
      /\ \E c \in RunType : c.context = b.context \o todo /\ Goes(m, c, todo, next)
  BY <1>0, <1>1, TakeLands
<1>3. PICK c \in RunType : c.context = b.context \o todo /\ Goes(m, c, todo, next)
  BY <1>2
<1>4. run' = [run EXCEPT ![r] = m] /\ phase' = IF m.pc = "ended" THEN "idle" ELSE phase
  BY Zenon, BecomesIs
<1>5. Hand(m) = todo /\ m.pc \in {"append", next} /\ next \notin {"none", "begin", "done", "ended", "stream"}
  BY <1>3 DEF Goes, Behind
<1>6. ASSUME patience = "patient", SyncOK(run[r], entries, leaf, pendingSessionWrites)
      PROVE  SyncOK(m, entries', leaf', pendingSessionWrites')
  <2>1. b.context = MessagesIn(entries', leaf')
    BY <1>6 DEF SyncOK, Quiet
  <2> DEFINE w == pendingSessionWrites'
  <2> HIDE DEF w
  <2>2. SyncOK(m, entries', leaf', w)
    BY <1>0, <1>3, <2>1, TakeSyncs
  <2> QED
    BY <2>2 DEF w
<1>7. ASSUME NEW x \in Msg, x[1] \in QueueKinds PROVE Flows(x, m, run[r])
  <2>1. Held(x, run[r]) = 0 /\ Held(x, m) = Harness!Times(x, todo)
    BY <1>5, NoneHeld DEF Quiet, Held
  <2>2. Count(x)' + Harness!Times(x, todo) = Count(x) /\ Count(x) \in Nat
    BY <1>7, CountTyped
  <2>3. Count(x)' + Held(x, m) + 0 = Count(x) + Held(x, run[r]) /\ 0 \in Nat
    BY <2>1, <2>2
  <2> QED
    BY <2>3 DEF Flows
<1>8. OldWritesGone
  BY <1>4, <1>5 DEF OldWritesGone
<1> QED
  BY <1>0, <1>2, <1>4, <1>5, <1>6, <1>7, <1>8 DEF Moved, Quiet

LEMMA ThrowsMove ==
    ASSUME HarnessTypes, NEW r \in Harness!Run, Quiet(r), run[r].pc # "begin", throws' # 0,
           UNCHANGED <<steerQueue, followUpQueue, nextTurnQueue>>,
           NEW b \in RunType, b.taken = run[r].taken, NEW m, m = Harness!Thrown(r, b), Harness!Becomes(r, m)
    PROVE  Moved(r, m)
<1>0. SessionOK(entries, leaf)' /\ throws' \in Nat /\ Waits(pendingSessionWrites, "write")' /\ Queues' /\ r \in Nat
  BY CountsAssumption DEF HarnessTypes, Quiet, SessionOK, Waits, Queues, Harness!Run
<1>1. /\ RunOK(m, Len(entries'), throws') /\ m.failing = TRUE /\ m.taken = b.taken
      /\ m.pc \in {"append", "turnEnd", "reject"}
      /\ \A i \in DOMAIN Hand(m) : Hand(m)[i][1] = "failure"
      /\ SyncOK(m, entries', leaf', pendingSessionWrites')
  <2>1. EndsBadly(m, b)
    BY <1>0, ThrownLands
  <2> QED
    BY Zenon, <2>1 DEF EndsBadly
<1>2. run' = [run EXCEPT ![r] = m] /\ phase' = IF m.pc = "ended" THEN "idle" ELSE phase
  BY Zenon, BecomesIs
<1>3. ASSUME NEW x \in Msg, x[1] \in QueueKinds PROVE Flows(x, m, run[r])
  <2>1. x[1] # "failure" /\ m \in RunType
    BY <1>1, <1>3 DEF QueueKinds, RunOK
  <2>2. Held(x, m) = 0
    BY <1>1, <2>1, OthersHeld
  <2>3. Held(x, run[r]) = 0
    BY NoneHeld DEF Quiet
  <2> QED
    BY <2>2, <2>3, StaysPut DEF Quiet
<1>4. OldWritesGone
  BY <1>1, <1>2 DEF OldWritesGone
<1> QED
  BY <1>0, <1>1, <1>2, <1>3, <1>4 DEF Moved, Quiet

LEMMA FlushesMove ==
    ASSUME HarnessTypes, NEW r \in Harness!Run, Quiet(r), run[r].pc # "begin",
           UNCHANGED <<steerQueue, followUpQueue, nextTurnQueue>>,
           NEW b \in RunType, b.taken = run[r].taken, b.failing = run[r].failing, b.late => throws' # 0,
           NEW next \in Through, next # "reject",
           NEW m, m = Harness!Flush(b, next), Harness!Becomes(r, m)
    PROVE  Moved(r, m)
<1>0. SessionOK(entries, leaf)' /\ throws' \in Nat /\ Waits(pendingSessionWrites, "write")' /\ Queues'
  BY DEF HarnessTypes, Quiet, SessionOK, Waits, Queues
<1>1. /\ RunOK(m, Len(entries'), throws') /\ Same(m, b) /\ Hand(m) = <<>>
      /\ m.pc = "append" \/ (m.pc = next /\ pendingSessionWrites' = <<>>)
      /\ SyncOK(m, entries', leaf', pendingSessionWrites')
  <2>1. b.late \/ next = "reject" => throws' # 0
    OBVIOUS
  <2> QED
    BY <1>0, <2>1, FlushLands
<1>2. run' = [run EXCEPT ![r] = m] /\ phase' = IF m.pc = "ended" THEN "idle" ELSE phase
  BY Zenon, BecomesIs
<1>3. ASSUME NEW x \in Msg, x[1] \in QueueKinds PROVE Flows(x, m, run[r])
  <2>1. m \in RunType /\ \A i \in DOMAIN Hand(m) : Hand(m)[i][1] = "failure"
    BY <1>1 DEF RunOK
  <2>2. x[1] # "failure"
    BY <1>3 DEF QueueKinds
  <2>3. Held(x, m) = 0
    BY <2>1, <2>2, OthersHeld
  <2>4. Held(x, run[r]) = 0
    BY NoneHeld DEF Quiet
  <2> QED
    BY <2>3, <2>4, StaysPut DEF Quiet
<1>4. OldWritesGone
  BY <1>1, <1>2 DEF OldWritesGone
<1>5. next \notin {"none", "begin", "done", "stream"}
  BY DEF Through
<1> QED
  BY <1>0, <1>1, <1>2, <1>3, <1>4, <1>5 DEF Moved, Quiet, Same

LEMMA DrainedParts ==
    ASSUME NEW kind, NEW q, Waits(q, kind)
    PROVE  /\ Waits(Harness!Drained(q), kind) /\ Waits(Harness!Rest(q), kind)
           /\ \A x : Harness!Times(x, q) = Harness!Times(x, Harness!Drained(q)) + Harness!Times(x, Harness!Rest(q))
           /\ q = <<>> => Harness!Rest(q) = q
<1> DEFINE d == Harness!Drained(q)
           t == Harness!Rest(q)
<1>1. q \in Seq(Msg) /\ Len(q) \in Nat
  BY DEF Waits
<1>2. d \in Seq(Msg) /\ t \in Seq(Msg) /\ q = d \o t /\ (q = <<>> => t = q)
  <2>1. CASE d = q
    <3>1. t = SubSeq(q, Len(q) + 1, Len(q))
      BY Zenon, <2>1 DEF Harness!Rest
    <3>2. t = <<>>
      BY <1>1, <3>1
    <3> QED
      BY <1>1, <2>1, <3>2
  <2>2. CASE d # q
    <3>1. q # <<>> /\ d = <<Head(q)>>
      BY Zenon, <2>2 DEF Harness!Drained
    <3>2. Len(d) = 1 /\ Head(q) \in Msg /\ d \in Seq(Msg)
      BY <1>1, <3>1
    <3> HIDE DEF d
    <3>3. t = SubSeq(q, Len(d) + 1, Len(q))
      BY Zenon DEF Harness!Rest, d
    <3>4. t = Tail(q)
      <4>1. Tail(q) = SubSeq(q, 2, Len(q))
        BY <1>1, <3>1
      <4> QED
        BY <3>2, <3>3, <4>1
    <3>5. <<Head(q)>> \o Tail(q) = q /\ Tail(q) \in Seq(Msg)
      BY <1>1, <3>1, HeadThenTail, HeadAndTail
    <3> QED
      BY <3>1, <3>2, <3>4, <3>5
  <2> QED
    BY <2>1, <2>2
<1> HIDE DEF d, t
<1>3. \A x : Harness!Times(x, d \o t) = Harness!Times(x, d) + Harness!Times(x, t)
  BY <1>2, TimesOfConcat
<1>4. \A i \in DOMAIN q : q[i][1] = kind
  BY DEF Waits
<1>5. /\ Len(q) = Len(d) + Len(t) /\ Len(d) \in Nat /\ Len(t) \in Nat
      /\ (\A i \in 1 .. Len(d) : q[i] = d[i]) /\ \A i \in 1 .. Len(t) : q[Len(d) + i] = t[i]
  BY <1>2, ConcatElements
<1>6. \A i \in DOMAIN d : d[i][1] = kind
  <2> SUFFICES ASSUME NEW i \in DOMAIN d PROVE d[i][1] = kind
    OBVIOUS
  <2>1. i \in 1 .. Len(d) /\ i \in DOMAIN q
    BY <1>1, <1>2, <1>5
  <2> QED
    BY <1>4, <1>5, <2>1
<1>7. \A i \in DOMAIN t : t[i][1] = kind
  <2> SUFFICES ASSUME NEW i \in DOMAIN t PROVE t[i][1] = kind
    OBVIOUS
  <2>1. i \in 1 .. Len(t) /\ Len(d) + i \in DOMAIN q
    BY <1>1, <1>2, <1>5
  <2> QED
    BY <1>4, <1>5, <2>1
<1> QED
  BY <1>2, <1>3, <1>6, <1>7 DEF d, t, Waits

LEMMA MessageTyped ==
    /\ Harness!Nothing \in Msg
    /\ \A r, n \in Nat : \A kind \in Harness!Kinds : Harness!Message(kind, r, n) \in Msg /\ Harness!Message(kind, r, n)[1] = kind
<1>1. "none" \in Harness!Kinds
  BY DEF Harness!Kinds
<1> QED
  BY <1>1 DEF Harness!Nothing, Harness!Message, Msg

LEMMA WaitingIsQuiet ==
    ASSUME HarnessTypes, NEW r \in Harness!Run, NEW at, at \notin {"append", "none", "done", "begin"},
           Harness!Waiting(r, at), Harness!Goes \/ Harness!Throws,
           patience = "patient" /\ at = "ended" => idleWrite.item = Harness!Nothing
    PROVE  /\ Quiet(r) /\ run[r].pc = at /\ UNCHANGED nextTurnQueue /\ run[r] \in RunType
           /\ run[r].late => throws # 0
           /\ Harness!Throws => throws' # 0
           /\ Harness!Goes => throws' = throws
<1>1. run[r] \in RunType /\ RunOK(run[r], Len(entries), throws) /\ throws \in Nat
  BY DEF HarnessTypes
<1>2. run[r].pc = at
  BY DEF Harness!Waiting
<1>3. /\ UNCHANGED <<entries, leaf, pendingSessionWrites>> /\ Elsewhere /\ UNCHANGED <<runAbortController, nextTurnQueue>>
  BY DEF Harness!Waiting, Harness!sessionVars, Harness!callerVars, Elsewhere
<1>4. /\ Harness!Throws => throws' = throws + 1
      /\ Harness!Goes => throws' = throws
  BY DEF Harness!Throws, Harness!Goes
<1>5. throws' \in Nat /\ (throws' = 0 => throws = 0) /\ (Harness!Throws => throws' # 0)
  BY <1>1, <1>4
<1> QED
  BY <1>1, <1>2, <1>3, <1>4, <1>5 DEF Quiet, RunOK

\* What a queue gives to a run.
LEMMA SteeringTaken ==
    ASSUME HarnessTypes, UNCHANGED <<entries, followUpQueue, nextTurnQueue>>, steerQueue' = Harness!Rest(steerQueue)
    PROVE  Queues' /\ \A x : Count(x)' + Harness!Times(x, Harness!Drained(steerQueue)) = Count(x)
<1>1. Waits(steerQueue, "steer") /\ Waits(followUpQueue, "followUp") /\ Waits(nextTurnQueue, "nextTurn")
  BY DEF HarnessTypes
<1>2. Waits(steerQueue', "steer")
  BY <1>1, DrainedParts
<1>3. \A x : Harness!Times(x, steerQueue) = Harness!Times(x, Harness!Drained(steerQueue)) + Harness!Times(x, steerQueue')
  BY <1>1, DrainedParts
<1>4. ASSUME NEW x PROVE Count(x)' + Harness!Times(x, Harness!Drained(steerQueue)) = Count(x)
  <2> DEFINE a == Harness!Times(x, Harness!Drained(steerQueue))
             b == Harness!Times(x, steerQueue')
  <2>1. a \in Nat /\ b \in Nat
    BY <1>1, <1>2, DrainedParts, TimesTyped DEF Waits
  <2>2. /\ Harness!Recorded(x) \in Nat /\ Harness!Times(x, followUpQueue) \in Nat
        /\ Harness!Times(x, nextTurnQueue) \in Nat /\ Harness!Times(x, steerQueue) = a + b
    BY <1>3, CountTyped
  <2>3. Harness!Recorded(x)' = Harness!Recorded(x)
    BY DEF Harness!Recorded
  <2>4. Count(x)' = Harness!Recorded(x) + b + Harness!Times(x, followUpQueue) + Harness!Times(x, nextTurnQueue)
    BY <2>3 DEF Count
  <2> HIDE DEF a, b
  <2>5. Count(x)' + a = Count(x)
    BY <2>1, <2>2, <2>4 DEF Count
  <2> QED
    BY <2>5 DEF a
<1> QED
  BY <1>1, <1>2, <1>4 DEF Queues

LEMMA FollowUpsTaken ==
    ASSUME HarnessTypes, UNCHANGED <<entries, steerQueue, nextTurnQueue>>, followUpQueue' = Harness!Rest(followUpQueue)
    PROVE  Queues' /\ \A x : Count(x)' + Harness!Times(x, Harness!Drained(followUpQueue)) = Count(x)
<1>1. Waits(steerQueue, "steer") /\ Waits(followUpQueue, "followUp") /\ Waits(nextTurnQueue, "nextTurn")
  BY DEF HarnessTypes
<1>2. Waits(followUpQueue', "followUp")
  BY <1>1, DrainedParts
<1>3. \A x : Harness!Times(x, followUpQueue) =
               Harness!Times(x, Harness!Drained(followUpQueue)) + Harness!Times(x, followUpQueue')
  BY <1>1, DrainedParts
<1>4. ASSUME NEW x PROVE Count(x)' + Harness!Times(x, Harness!Drained(followUpQueue)) = Count(x)
  <2> DEFINE a == Harness!Times(x, Harness!Drained(followUpQueue))
             b == Harness!Times(x, followUpQueue')
  <2>1. a \in Nat /\ b \in Nat
    BY <1>1, <1>2, DrainedParts, TimesTyped DEF Waits
  <2>2. /\ Harness!Recorded(x) \in Nat /\ Harness!Times(x, steerQueue) \in Nat
        /\ Harness!Times(x, nextTurnQueue) \in Nat /\ Harness!Times(x, followUpQueue) = a + b
    BY <1>3, CountTyped
  <2>3. Harness!Recorded(x)' = Harness!Recorded(x)
    BY DEF Harness!Recorded
  <2>4. Count(x)' = Harness!Recorded(x) + Harness!Times(x, steerQueue) + b + Harness!Times(x, nextTurnQueue)
    BY <2>3 DEF Count
  <2> HIDE DEF a, b
  <2>5. Count(x)' + a = Count(x)
    BY <2>1, <2>2, <2>4 DEF Count
  <2> QED
    BY <2>5 DEF a
<1> QED
  BY <1>1, <1>2, <1>4 DEF Queues

LEMMA NothingTaken ==
    ASSUME HarnessTypes, UNCHANGED <<entries, steerQueue, followUpQueue, nextTurnQueue>>, NEW x
    PROVE  Count(x)' = Count(x) /\ Count(x) \in Nat
  BY CountTyped DEF Count, Harness!Recorded

LEMMA KindsSaid ==
    ASSUME NEW kind \in QueueKinds, NEW q, Waits(q, kind)
    PROVE  q \in Seq(Msg) /\ \A i \in DOMAIN q : q[i][1] \in Said
  BY DEF Waits, Said

\* The steps that take steering messages.
LEMMA SteeringMoves ==
    ASSUME HarnessTypes, NEW r \in Harness!Run, NEW at \in {"poll", "prepare"}, Harness!Waiting(r, at), Harness!Goes,
           UNCHANGED followUpQueue, steerQueue' = Harness!Rest(steerQueue), NEW next \in Behind,
           NEW m, m = Harness!Take(run[r], Harness!Drained(steerQueue), next), Harness!Becomes(r, m)
    PROVE  Moved(r, m)
<1>1. /\ Quiet(r) /\ run[r].pc = at /\ UNCHANGED nextTurnQueue /\ run[r] \in RunType
  <2>1. at \notin {"append", "none", "done", "begin"} /\ at # "ended"
    OBVIOUS
  <2> QED
    BY <2>1, WaitingIsQuiet
<1>2. UNCHANGED <<entries, followUpQueue, nextTurnQueue>>
  BY <1>1 DEF Quiet
<1>3. Queues' /\ \A x : Count(x)' + Harness!Times(x, Harness!Drained(steerQueue)) = Count(x)
  BY <1>2, SteeringTaken
<1>4. PICK d : d = Harness!Drained(steerQueue)
  BY Zenon
<1>5. Waits(steerQueue, "steer") /\ "steer" \in QueueKinds
  BY DEF HarnessTypes, QueueKinds
<1>6. d \in Seq(Msg) /\ \A i \in DOMAIN d : d[i][1] \in Said
  <2>1. Waits(d, "steer")
    BY <1>4, <1>5, DrainedParts
  <2> QED
    BY <1>5, <2>1, KindsSaid
<1>7. \A x \in Msg : x[1] \in QueueKinds => Count(x)' + Harness!Times(x, d) = Count(x)
  BY Zenon, <1>3, <1>4
<1>8. m = Harness!Take(run[r], d, next)
  BY Zenon, <1>4
<1>9. run[r].pc \in {"begin", "poll", "ask", "stream", "prepare", "followUp"}
  BY <1>1
<1> QED
  BY <1>1, <1>3, <1>6, <1>7, <1>8, <1>9, TakesMove

\* The steps that fail.
LEMMA FailuresMove ==
    ASSUME HarnessTypes, NEW r \in Harness!Run, NEW at, at \notin {"append", "none", "done", "begin"},
           Harness!Waiting(r, at), Harness!Throws \/ (Harness!Goes /\ run[r].late),
           UNCHANGED <<steerQueue, followUpQueue>>,
           patience = "patient" /\ at = "ended" => idleWrite.item = Harness!Nothing,
           NEW m, m = Harness!Thrown(r, run[r]), Harness!Becomes(r, m)
    PROVE  Moved(r, m)
<1>1. /\ Quiet(r) /\ run[r].pc = at /\ UNCHANGED nextTurnQueue /\ run[r] \in RunType
      /\ run[r].late => throws # 0
      /\ Harness!Throws => throws' # 0
      /\ Harness!Goes => throws' = throws
  BY WaitingIsQuiet
<1>2. throws' # 0 /\ run[r].pc # "begin" /\ UNCHANGED <<steerQueue, followUpQueue, nextTurnQueue>>
  BY <1>1
<1> QED
  BY <1>1, <1>2, ThrowsMove

\* The steps that flush the writes that wait.
LEMMA WritesMove ==
    ASSUME HarnessTypes, NEW r \in Harness!Run, NEW at, at \notin {"append", "none", "done", "begin"},
           Harness!Waiting(r, at), Harness!Goes \/ Harness!Throws,
           UNCHANGED <<steerQueue, followUpQueue>>,
           patience = "patient" /\ at = "ended" => idleWrite.item = Harness!Nothing,
           NEW b \in RunType, b.taken = run[r].taken, b.failing = run[r].failing,
           b.late => Harness!Throws \/ run[r].late, NEW next \in Through, next # "reject",
           NEW m, m = Harness!Flush(b, next), Harness!Becomes(r, m)
    PROVE  Moved(r, m)
<1>1. /\ Quiet(r) /\ run[r].pc = at /\ UNCHANGED nextTurnQueue /\ run[r] \in RunType
      /\ run[r].late => throws # 0
      /\ Harness!Throws => throws' # 0
      /\ Harness!Goes => throws' = throws
  BY WaitingIsQuiet
<1>2. (b.late => throws' # 0) /\ run[r].pc # "begin" /\ UNCHANGED <<steerQueue, followUpQueue, nextTurnQueue>>
  BY <1>1
<1> QED
  BY <1>1, <1>2, FlushesMove

LEMMA PollMoves ==
    ASSUME HarnessTypes, NEW r \in Harness!Run, Harness!Poll(r)
    PROVE  \E m : Moved(r, m)
<1>0. Harness!Waiting(r, "poll") /\ UNCHANGED followUpQueue /\ "ask" \in Behind
  BY DEF Harness!Poll, Behind
<1>1. PICK a : a = Harness!Take(run[r], Harness!Drained(steerQueue), "ask")
  BY Zenon
<1>2. PICK b : b = Harness!Thrown(r, run[r])
  BY Zenon
<1>3. \/ Harness!Goes /\ steerQueue' = Harness!Rest(steerQueue) /\ Harness!Becomes(r, a)
      \/ Harness!Throws /\ UNCHANGED steerQueue /\ Harness!Becomes(r, b)
  BY Zenon, <1>1, <1>2 DEF Harness!Poll
<1>4. CASE Harness!Goes /\ steerQueue' = Harness!Rest(steerQueue) /\ Harness!Becomes(r, a)
  <2>1. Moved(r, a)
    BY <1>0, <1>1, <1>4, SteeringMoves
  <2> QED
    BY <2>1
<1>5. CASE Harness!Throws /\ UNCHANGED steerQueue /\ Harness!Becomes(r, b)
  <2>1. Moved(r, b)
    BY <1>0, <1>2, <1>5, FailuresMove
  <2> QED
    BY <2>1
<1> QED
  BY <1>3, <1>4, <1>5

LEMMA PrepareMoves ==
    ASSUME HarnessTypes, NEW r \in Harness!Run, Harness!Prepare(r)
    PROVE  \E m : Moved(r, m)
<1>1. PICK next : next = IF run[r].reply = "tool" \/ steerQueue # <<>> THEN "ask" ELSE "followUp"
  BY Zenon
<1>0. Harness!Waiting(r, "prepare") /\ UNCHANGED followUpQueue /\ next \in Behind
  BY <1>1 DEF Harness!Prepare, Behind
<1>2. PICK a : a = Harness!Take(run[r], Harness!Drained(steerQueue), next)
  BY Zenon
<1>3. PICK b : b = Harness!Thrown(r, run[r])
  BY Zenon
<1>4. \/ Harness!Goes /\ steerQueue' = Harness!Rest(steerQueue) /\ Harness!Becomes(r, a)
      \/ Harness!Throws /\ UNCHANGED steerQueue /\ Harness!Becomes(r, b)
  BY Zenon, <1>1, <1>2, <1>3 DEF Harness!Prepare
<1>5. CASE Harness!Goes /\ steerQueue' = Harness!Rest(steerQueue) /\ Harness!Becomes(r, a)
  <2>1. Moved(r, a)
    BY <1>0, <1>2, <1>5, SteeringMoves
  <2> QED
    BY <2>1
<1>6. CASE Harness!Throws /\ UNCHANGED steerQueue /\ Harness!Becomes(r, b)
  <2>1. Moved(r, b)
    BY <1>0, <1>3, <1>6, FailuresMove
  <2> QED
    BY <2>1
<1> QED
  BY <1>4, <1>5, <1>6

LEMMA TurnEndMoves ==
    ASSUME HarnessTypes, NEW r \in Harness!Run, Harness!TurnEnd(r)
    PROVE  \E m : Moved(r, m)
<1>0. /\ Harness!Waiting(r, "turnEnd") /\ UNCHANGED <<steerQueue, followUpQueue>>
      /\ "savePoint" \in Through /\ run[r] \in RunType
  BY DEF Harness!TurnEnd, Through, HarnessTypes
<1>1. PICK b : b = [run[r] EXCEPT !.late = TRUE]
  BY Zenon
<1>2. PICK a, c : a = Harness!Flush(run[r], "savePoint") /\ c = Harness!Flush(b, "savePoint")
  BY Zenon
<1>3. b \in RunType /\ b.taken = run[r].taken /\ b.failing = run[r].failing
  BY <1>0, <1>1 DEF RunType
<1>4. (Harness!Goes /\ Harness!Becomes(r, a)) \/ (Harness!Throws /\ Harness!Becomes(r, c))
  BY Zenon, <1>1, <1>2 DEF Harness!TurnEnd
<1>5. CASE Harness!Goes /\ Harness!Becomes(r, a)
  <2>1. Moved(r, a)
    BY <1>0, <1>2, <1>5, WritesMove
  <2> QED
    BY <2>1
<1>6. CASE Harness!Throws /\ Harness!Becomes(r, c)
  <2>1. Moved(r, c)
    BY <1>0, <1>2, <1>3, <1>6, WritesMove
  <2> QED
    BY <2>1
<1> QED
  BY <1>4, <1>5, <1>6

LEMMA SavePointMoves ==
    ASSUME HarnessTypes, NEW r \in Harness!Run, Harness!SavePoint(r)
    PROVE  \E m : Moved(r, m)
<1>1. PICK next : next = IF run[r].reply \in {"error", "aborted"} THEN "ended" ELSE "prepare"
  BY Zenon
<1>0. /\ Harness!Waiting(r, "savePoint") /\ UNCHANGED <<steerQueue, followUpQueue>>
      /\ next \in Through /\ next # "reject" /\ run[r] \in RunType
  BY <1>1 DEF Harness!SavePoint, Through, HarnessTypes
<1>2. PICK a, b : a = Harness!Flush(run[r], next) /\ b = Harness!Thrown(r, run[r])
  BY Zenon
<1>3. \/ (Harness!Throws \/ (Harness!Goes /\ run[r].late)) /\ Harness!Becomes(r, b)
      \/ Harness!Goes /\ Harness!Becomes(r, a)
  BY Zenon, <1>1, <1>2 DEF Harness!SavePoint
<1>4. CASE (Harness!Throws \/ (Harness!Goes /\ run[r].late)) /\ Harness!Becomes(r, b)
  <2>1. Moved(r, b)
    BY <1>0, <1>2, <1>4, FailuresMove
  <2> QED
    BY <2>1
<1>5. CASE Harness!Goes /\ Harness!Becomes(r, a)
  <2>1. Moved(r, a)
    BY <1>0, <1>2, <1>5, WritesMove
  <2> QED
    BY <2>1
<1> QED
  BY <1>3, <1>4, <1>5

LEMMA EndedMoves ==
    ASSUME HarnessTypes, NEW r \in Harness!Run, Harness!Ended(r)
    PROVE  \E m : Moved(r, m)
<1>0. /\ Harness!Waiting(r, "ended") /\ UNCHANGED <<steerQueue, followUpQueue>>
      /\ patience = "patient" => idleWrite.item = Harness!Nothing
      /\ "return" \in Through /\ run[r] \in RunType
  BY DEF Harness!Ended, Through, HarnessTypes
<1>2. PICK a, b : a = Harness!Flush(run[r], "return") /\ b = Harness!Thrown(r, run[r])
  BY Zenon
<1>3. (Harness!Goes /\ Harness!Becomes(r, a)) \/ (Harness!Throws /\ Harness!Becomes(r, b))
  BY Zenon, <1>2 DEF Harness!Ended
<1>4. CASE Harness!Throws /\ Harness!Becomes(r, b)
  <2>1. Moved(r, b)
    BY <1>0, <1>2, <1>4, FailuresMove
  <2> QED
    BY <2>1
<1>5. CASE Harness!Goes /\ Harness!Becomes(r, a)
  <2>1. Moved(r, a)
    BY <1>0, <1>2, <1>5, WritesMove
  <2> QED
    BY <2>1
<1> QED
  BY <1>3, <1>4, <1>5

LEMMA FollowUpsMove ==
    ASSUME HarnessTypes, NEW r \in Harness!Run, Harness!FollowUps(r)
    PROVE  \E m : Moved(r, m)
<1>0. /\ Harness!Waiting(r, "followUp") /\ UNCHANGED steerQueue /\ run[r] \in RunType
      /\ "ask" \in Behind /\ "ended" \in Through
  BY DEF Harness!FollowUps, Behind, Through, HarnessTypes
<1>1. PICK a, b, c, d : /\ d = Harness!Drained(followUpQueue) /\ a = Harness!Take(run[r], d, "ask")
                        /\ b = Harness!Thrown(r, run[r]) /\ c = Harness!Flush(run[r], "ended")
  BY Zenon
<1>2. Waits(followUpQueue, "followUp") /\ "followUp" \in QueueKinds
  BY DEF HarnessTypes, QueueKinds
<1>3. \/ /\ Harness!Goes /\ followUpQueue' = Harness!Rest(followUpQueue)
         /\ followUpQueue = <<>> /\ Harness!Becomes(r, c)
      \/ /\ Harness!Goes /\ followUpQueue' = Harness!Rest(followUpQueue)
         /\ Harness!Becomes(r, a)
      \/ Harness!Throws /\ UNCHANGED followUpQueue /\ Harness!Becomes(r, b)
  BY Zenon, <1>1 DEF Harness!FollowUps
<1>4. CASE /\ Harness!Goes /\ followUpQueue' = Harness!Rest(followUpQueue)
           /\ followUpQueue = <<>> /\ Harness!Becomes(r, c)
  <2>1. UNCHANGED <<steerQueue, followUpQueue>>
    <3>1. Harness!Rest(followUpQueue) = followUpQueue
      BY <1>2, <1>4, DrainedParts
    <3> QED
      BY <1>0, <1>4, <3>1
  <2>2. Moved(r, c)
    BY <1>0, <1>1, <1>4, <2>1, WritesMove
  <2> QED
    BY <2>2
<1>5. CASE /\ Harness!Goes /\ followUpQueue' = Harness!Rest(followUpQueue) /\ Harness!Becomes(r, a)
  <2>1. /\ Quiet(r) /\ run[r].pc = "followUp" /\ UNCHANGED nextTurnQueue
    BY <1>0, <1>5, WaitingIsQuiet
  <2>2. UNCHANGED <<entries, steerQueue, nextTurnQueue>>
    BY <1>0, <2>1 DEF Quiet
  <2>3. Queues' /\ \A x : Count(x)' + Harness!Times(x, Harness!Drained(followUpQueue)) = Count(x)
    BY <1>5, <2>2, FollowUpsTaken
  <2>4. d \in Seq(Msg) /\ \A i \in DOMAIN d : d[i][1] \in Said
    <3>1. Waits(d, "followUp")
      BY <1>1, <1>2, DrainedParts
    <3> QED
      BY <1>2, <3>1, KindsSaid
  <2>5. \A x \in Msg : x[1] \in QueueKinds => Count(x)' + Harness!Times(x, d) = Count(x)
    BY Zenon, <1>1, <2>3
  <2>6. Moved(r, a)
    BY <1>0, <1>1, <1>5, <2>1, <2>3, <2>4, <2>5, TakesMove
  <2> QED
    BY <2>6
<1>6. CASE Harness!Throws /\ UNCHANGED followUpQueue /\ Harness!Becomes(r, b)
  <2>1. Moved(r, b)
    BY <1>0, <1>1, <1>6, FailuresMove
  <2> QED
    BY <2>1
<1> QED
  BY <1>3, <1>4, <1>5, <1>6

LEMMA AnswerMoves ==
    ASSUME HarnessTypes, NEW r \in Harness!Run, NEW at \in {"ask", "stream"}, Harness!Waiting(r, at),
           Harness!Goes \/ Harness!Throws, UNCHANGED <<steerQueue, followUpQueue>>,
           NEW kind \in {"text", "tool", "error", "aborted"},
           NEW m, m = Harness!Answer(run[r], r, kind), Harness!Becomes(r, m)
    PROVE  Moved(r, m)
<1>1. Quiet(r) /\ run[r].pc = at /\ UNCHANGED nextTurnQueue /\ run[r] \in RunType
  <2>1. at \notin {"append", "none", "done", "begin"} /\ at # "ended"
    OBVIOUS
  <2> QED
    BY <2>1, WaitingIsQuiet
<1>2. UNCHANGED <<entries, steerQueue, followUpQueue, nextTurnQueue>>
  BY <1>1 DEF Quiet
<1>3. PICK one, two : /\ one = Harness!Message("reply", r, run[r].replies + 1)
                      /\ two = Harness!Message("result", r, run[r].replies + 1)
  BY Zenon
<1>4. PICK b, todo : /\ b = [run[r] EXCEPT !.reply = kind, !.replies = @ + 1]
                     /\ todo = IF kind = "tool" THEN <<one, two>> ELSE <<one>>
  BY Zenon
<1>5. m = Harness!Take(b, todo, "turnEnd") /\ "turnEnd" \in Behind
  BY Zenon, <1>3, <1>4 DEF Harness!Answer, Harness!Reply, Behind
<1>6. /\ b \in RunType /\ b.failing = run[r].failing /\ b.taken = run[r].taken /\ b.context = run[r].context
      /\ b.late = run[r].late
  <2>1. kind \in Word /\ run[r].replies + 1 \in Nat
    BY <1>1 DEF Word, RunType
  <2> QED
    BY <1>1, <1>4, <2>1 DEF RunType
<1>7. one \in Msg /\ two \in Msg /\ one[1] = "reply" /\ two[1] = "result"
  <2>1. r \in Nat /\ run[r].replies + 1 \in Nat /\ "reply" \in Harness!Kinds /\ "result" \in Harness!Kinds
    BY <1>1, CountsAssumption DEF RunType, Harness!Run, Harness!Kinds
  <2> QED
    BY <1>3, <2>1, MessageTyped
<1>8. todo \in Seq(Msg) /\ \A i \in DOMAIN todo : todo[i][1] \in {"reply", "result"}
  <2>1. CASE kind = "tool"
    BY <1>4, <1>7, <2>1
  <2>2. CASE kind # "tool"
    BY <1>4, <1>7, <2>2
  <2> QED
    BY <2>1, <2>2
<1>9. \A i \in DOMAIN todo : todo[i][1] \in Said
  BY <1>8 DEF Said
<1>10. ASSUME NEW x \in Msg, x[1] \in QueueKinds PROVE Count(x)' + Harness!Times(x, todo) = Count(x)
  <2>1. x \notin ToSet(todo)
    BY <1>8, <1>10 DEF ToSet, QueueKinds
  <2>2. Harness!Times(x, todo) = 0
    BY <1>8, <2>1, TimesTyped
  <2>3. Count(x)' = Count(x) /\ Count(x) \in Nat
    BY <1>2, NothingTaken
  <2> QED
    BY <2>2, <2>3
<1>11. Queues' /\ run[r].pc \in {"begin", "poll", "ask", "stream", "prepare", "followUp"}
  BY <1>1, <1>2 DEF HarnessTypes, Queues, Waits
<1> QED
  BY <1>1, <1>5, <1>6, <1>8, <1>9, <1>10, <1>11, TakesMove

LEMMA AnswersMove ==
    ASSUME HarnessTypes, NEW r \in Harness!Run, Harness!Answers(r)
    PROVE  \E m : Moved(r, m)
<1>0. Harness!Waiting(r, "stream") /\ UNCHANGED <<steerQueue, followUpQueue>>
  BY DEF Harness!Answers
<1>1. PICK kind \in IF r \in aborted THEN {"aborted"} ELSE {"text", "tool", "error"} :
        /\ Harness!Goes \/ Harness!Throws
        /\ Harness!Becomes(r, Harness!Answer(run[r], r, kind))
  <2>1. \E kind \in IF r \in aborted THEN {"aborted"} ELSE {"text", "tool", "error"} :
          /\ IF kind = "error" THEN Harness!Throws ELSE Harness!Goes
          /\ Harness!Becomes(r, Harness!Answer(run[r], r, kind))
    BY Zenon DEF Harness!Answers
  <2> QED
    BY Zenon, <2>1
<1>2. kind \in {"text", "tool", "error", "aborted"}
  OBVIOUS
<1>3. PICK m : m = Harness!Answer(run[r], r, kind)
  BY Zenon
<1>4. Harness!Becomes(r, m)
  BY Zenon, <1>1, <1>3
<1>5. Moved(r, m)
  BY <1>0, <1>1, <1>2, <1>3, <1>4, AnswerMoves
<1> QED
  BY <1>5

\* A request whose signal is not aborted is sent.
LEMMA RequestMoves ==
    ASSUME HarnessTypes, NEW r \in Harness!Run, Harness!Waiting(r, "ask"), Harness!Goes, r \notin aborted,
           UNCHANGED <<steerQueue, followUpQueue>>, NEW m, m = [run[r] EXCEPT !.pc = "stream"], Harness!Becomes(r, m)
    PROVE  Moved(r, m)
<1>1. Quiet(r) /\ run[r].pc = "ask" /\ UNCHANGED nextTurnQueue /\ run[r] \in RunType
  BY WaitingIsQuiet
<1>2. UNCHANGED <<entries, leaf, pendingSessionWrites, steerQueue, followUpQueue, nextTurnQueue>>
      /\ throws' \in Nat /\ throws' = throws
  BY <1>1 DEF Quiet, Harness!Goes
<1>3. run' = [run EXCEPT ![r] = m] /\ phase' = IF m.pc = "ended" THEN "idle" ELSE phase
  BY Zenon, BecomesIs
<1>4. /\ m \in RunType /\ m.pc = "stream" /\ m.context = run[r].context /\ m.taken = run[r].taken
      /\ m.failing = run[r].failing /\ m.late = run[r].late
  BY <1>1, Words DEF RunType
<1>5. Hand(m) = <<>> /\ ~Recording(m) /\ ~Flushing(m) /\ \A x : Held(x, m) = 0
  BY <1>4, NoneHeld DEF Recording, Flushing
<1>6. RunOK(m, Len(entries'), throws')
  <2>1. RunOK(run[r], Len(entries), throws)
    BY DEF HarnessTypes
  <2> QED
    BY <1>2, <1>4, <1>5, <2>1 DEF RunOK, HandOK
<1>7. ASSUME patience = "patient", SyncOK(run[r], entries, leaf, pendingSessionWrites)
      PROVE  SyncOK(m, entries', leaf', pendingSessionWrites')
  BY <1>1, <1>2, <1>4, <1>5, <1>7 DEF SyncOK
<1>8. ASSUME NEW x \in Msg PROVE Flows(x, m, run[r])
  BY <1>1, <1>2, <1>5, NoneHeld, StaysPut
<1>9. Queues' /\ OldWritesGone
  BY <1>2, <1>3, <1>4 DEF HarnessTypes, Queues, Waits, OldWritesGone
<1> QED
  BY <1>1, <1>2, <1>3, <1>4, <1>6, <1>7, <1>8, <1>9 DEF Moved, Quiet

LEMMA AskMoves ==
    ASSUME HarnessTypes, NEW r \in Harness!Run, Harness!Ask(r)
    PROVE  \E m : Moved(r, m)
<1>0. Harness!Waiting(r, "ask") /\ UNCHANGED <<steerQueue, followUpQueue>>
  BY DEF Harness!Ask
<1>1. PICK a, b, c : /\ a = Harness!Answer(run[r], r, "aborted") /\ b = [run[r] EXCEPT !.pc = "stream"]
                     /\ c = Harness!Thrown(r, run[r])
  BY Zenon
<1>2. \/ Harness!Goes /\ r \in aborted /\ Harness!Becomes(r, a)
      \/ Harness!Goes /\ r \notin aborted /\ Harness!Becomes(r, b)
      \/ Harness!Throws /\ Harness!Becomes(r, c)
  BY Zenon, <1>1 DEF Harness!Ask, Harness!Stops
<1>3. CASE Harness!Goes /\ r \in aborted /\ Harness!Becomes(r, a)
  <2>1. Moved(r, a)
    BY <1>0, <1>1, <1>3, AnswerMoves
  <2> QED
    BY <2>1
<1>4. CASE Harness!Goes /\ r \notin aborted /\ Harness!Becomes(r, b)
  <2>1. Moved(r, b)
    BY <1>0, <1>1, <1>4, RequestMoves
  <2> QED
    BY <2>1
<1>5. CASE Harness!Throws /\ Harness!Becomes(r, c)
  <2>1. Moved(r, c)
    BY <1>0, <1>1, <1>5, FailuresMove
  <2> QED
    BY <2>1
<1> QED
  BY <1>2, <1>3, <1>4, <1>5

\* A prompt that begins takes the messages for the next turn.
LEMMA FirstTurnMoves ==
    ASSUME HarnessTypes, NEW r \in Harness!Run, Harness!Begin(r), Harness!Goes,
           nextTurnQueue' = Harness!Taken(nextTurnQueue, FALSE), runAbortController' = r,
           NEW prompt, prompt = Harness!Message("prompt", r, 0),
           NEW m, m = Harness!Take(run[r], Append(nextTurnQueue, prompt), "poll"), Harness!Becomes(r, m)
    PROVE  Moved(r, m)
<1>1. /\ run[r].pc = "begin" /\ UNCHANGED <<entries, leaf, pendingSessionWrites, steerQueue, followUpQueue, queued>>
      /\ Elsewhere
  BY DEF Harness!Begin, Harness!sessionVars, Harness!callerVars, Elsewhere
<1>2. throws' = throws /\ throws \in Nat /\ run[r] \in RunType
  BY DEF Harness!Goes, HarnessTypes
<1>3. Quiet(r)
  BY <1>1, <1>2 DEF Quiet
<1>4. PICK q, todo : q = nextTurnQueue /\ todo = Append(q, prompt)
  BY Zenon
<1>5. prompt \in Msg /\ prompt[1] = "prompt"
  <2>1. r \in Nat /\ 0 \in Nat /\ "prompt" \in Harness!Kinds
    BY CountsAssumption DEF Harness!Run, Harness!Kinds, Harness!UserKinds
  <2> QED
    BY <2>1, MessageTyped
<1>6. Waits(q, "nextTurn") /\ nextTurnQueue' = <<>>
  BY <1>4 DEF HarnessTypes, Harness!Taken
<1>7. todo \in Seq(Msg) /\ \A i \in DOMAIN todo : todo[i][1] \in Said
  <2>1. /\ todo \in Seq(Msg) /\ Len(todo) = Len(q) + 1 /\ todo[Len(q) + 1] = prompt
        /\ \A i \in 1 .. Len(q) : todo[i] = q[i]
    BY <1>4, <1>5, <1>6, AppendElements DEF Waits
  <2>2. \A i \in 1 .. Len(q) : q[i][1] = "nextTurn"
    BY <1>6 DEF Waits
  <2>3. "nextTurn" \in Said /\ "prompt" \in Said /\ Len(q) \in Nat
    BY <1>6 DEF Said, QueueKinds, Waits
  <2> QED
    BY <1>5, <2>1, <2>2, <2>3
<1>8. ASSUME NEW x \in Msg, x[1] \in QueueKinds PROVE Count(x)' + Harness!Times(x, todo) = Count(x)
  <2>1. Harness!Times(x, todo) = Harness!Times(x, q)
    <3>1. prompt # x
      BY <1>5, <1>8 DEF QueueKinds
    <3>2. q \in Seq(Msg) /\ Harness!Times(x, q) \in Nat
      BY <1>6, TimesTyped DEF Waits
    <3>3. Harness!Times(x, Append(q, prompt)) = Harness!Times(x, q) + (IF prompt = x THEN 1 ELSE 0)
      BY <1>5, <3>2, TimesOfAppend
    <3> QED
      BY <1>4, <3>1, <3>2, <3>3
  <2>2. /\ Harness!Recorded(x) \in Nat /\ Harness!Times(x, steerQueue) \in Nat
        /\ Harness!Times(x, followUpQueue) \in Nat /\ Harness!Times(x, nextTurnQueue) \in Nat
    BY CountTyped
  <2>3. Harness!Recorded(x)' = Harness!Recorded(x)
    BY <1>1 DEF Harness!Recorded
  <2>4. Harness!Times(x, <<>>) = 0
    <3>1. x \notin ToSet(<<>>) /\ <<>> \in Seq(Msg)
      BY DEF ToSet
    <3> QED
      BY <3>1, TimesTyped
  <2>5. Count(x)' = Harness!Recorded(x) + Harness!Times(x, steerQueue) + Harness!Times(x, followUpQueue) + 0
    BY <1>1, <1>6, <2>3, <2>4 DEF Count
  <2>6. Count(x) = Harness!Recorded(x) + Harness!Times(x, steerQueue) + Harness!Times(x, followUpQueue)
                   + Harness!Times(x, q) /\ Harness!Times(x, q) \in Nat
    BY <1>4, <2>2 DEF Count
  <2> QED
    BY ONLY <2>1, <2>2, <2>5, <2>6
<1>9. Queues'
  <2>1. Waits(<<>>, "nextTurn")
    BY DEF Waits
  <2> QED
    BY <1>1, <1>6, <2>1 DEF HarnessTypes, Queues, Waits
<1>10. m = Harness!Take(run[r], todo, "poll") /\ "poll" \in Behind
  BY Zenon, <1>4 DEF Behind
<1> QED
  BY <1>1, <1>2, <1>3, <1>7, <1>8, <1>9, <1>10, TakesMove

\* A prompt that fails before it begins loses the messages it has taken, if they were not put back.
LEMMA NoTurnMoves ==
    ASSUME HarnessTypes, NEW r \in Harness!Run, Harness!Begin(r), Harness!Throws, NEW threw \in BOOLEAN,
           nextTurnQueue' = Harness!Taken(nextTurnQueue, threw), phase' = "idle",
           NEW m, m = [run[r] EXCEPT !.pc = "done", !.failing = TRUE,
                                     !.taken = IF threw THEN {} ELSE Harness!Range(nextTurnQueue)],
           run' = [run EXCEPT ![r] = m]
    PROVE  Moved(r, m)
<1>1. /\ run[r].pc = "begin" /\ UNCHANGED <<entries, leaf, pendingSessionWrites, steerQueue, followUpQueue, queued>>
      /\ Elsewhere
  BY DEF Harness!Begin, Harness!sessionVars, Harness!callerVars, Elsewhere
<1>2. throws' = throws + 1 /\ throws \in Nat /\ run[r] \in RunType /\ RunOK(run[r], Len(entries), throws)
  BY DEF Harness!Throws, HarnessTypes
<1>3. PICK q, k : q = nextTurnQueue /\ k = IF threw THEN {} ELSE Harness!Range(q)
  BY Zenon
<1>4. Waits(q, "nextTurn") /\ q \in Seq(Msg) /\ nextTurnQueue' = IF threw THEN q ELSE <<>>
  BY <1>3 DEF HarnessTypes, Harness!Taken, Waits
<1>5. Harness!Range(q) = ToSet(q) /\ ToSet(q) \subseteq Msg /\ k \in SUBSET Msg
  BY <1>3, <1>4 DEF Harness!Range, ToSet
<1>6. m \in RunType /\ m.pc = "done" /\ m.failing = TRUE /\ m.taken = k
  <2>1. m = [run[r] EXCEPT !.pc = "done", !.failing = TRUE, !.taken = k]
    BY Zenon, <1>3
  <2> QED
    BY <1>2, <1>5, <2>1, Words DEF RunType
<1>7. Hand(m) = <<>> /\ ~Recording(m) /\ ~Flushing(m) /\ \A x : Held(x, m) = 0
  BY <1>6, NoneHeld DEF Recording, Flushing
<1>8. RunOK(m, Len(entries'), throws') /\ SyncOK(m, entries', leaf', pendingSessionWrites')
  BY <1>2, <1>6, <1>7 DEF RunOK, HandOK, SyncOK
<1>9. ASSUME NEW x \in Msg PROVE Flows(x, m, run[r])
  <2>1. Held(x, run[r]) = 0 /\ Held(x, m) = 0
    BY <1>1, <1>7, NoneHeld
  <2>2. /\ Harness!Recorded(x) \in Nat /\ Harness!Times(x, steerQueue) \in Nat
        /\ Harness!Times(x, followUpQueue) \in Nat /\ Harness!Times(x, nextTurnQueue) \in Nat
    BY CountTyped
  <2>3. Harness!Recorded(x)' = Harness!Recorded(x)
    BY <1>1 DEF Harness!Recorded
  <2>4. CASE threw
    <3>1. UNCHANGED <<entries, steerQueue, followUpQueue, nextTurnQueue>>
      BY <1>1, <1>3, <1>4, <2>4
    <3> QED
      BY <2>1, <3>1, StaysPut
  <2>5. CASE ~threw
    <3>1. Harness!Times(x, <<>>) = 0
      <4>1. x \notin ToSet(<<>>) /\ <<>> \in Seq(Msg)
        BY DEF ToSet
      <4> QED
        BY <4>1, TimesTyped
    <3>2. Count(x)' = Harness!Recorded(x) + Harness!Times(x, steerQueue) + Harness!Times(x, followUpQueue) + 0
      BY <1>1, <1>4, <2>3, <2>5, <3>1 DEF Count
    <3>3. Count(x)' + 0 + Harness!Times(x, q) = Count(x) + 0 /\ Harness!Times(x, q) \in Nat
      BY <1>3, <2>2, <3>2 DEF Count
    <3>4. Harness!Times(x, q) # 0 => x \in m.taken
      BY <1>3, <1>4, <1>5, <1>6, <2>5, TimesTyped
    <3> QED
      BY <1>6, <2>1, <3>3, <3>4 DEF Flows
  <2> QED
    BY <2>4, <2>5
<1>10. Queues'
  <2>1. Waits(<<>>, "nextTurn")
    BY DEF Waits
  <2> QED
    BY <1>1, <1>3, <1>4, <2>1 DEF HarnessTypes, Queues, Waits
<1>11. ~run[r].failing /\ OldWritesGone
  BY <1>1, <1>2 DEF RunOK, OldWritesGone
<1>12. throws' \in Nat /\ throws' # 0
  BY <1>2
<1> QED
  BY <1>1, <1>6, <1>8, <1>9, <1>10, <1>11, <1>12 DEF Moved

LEMMA BeginMoves ==
    ASSUME HarnessTypes, NEW r \in Harness!Run, Harness!Begin(r)
    PROVE  \E m : Moved(r, m)
<1>1. PICK a, prompt : /\ prompt = Harness!Message("prompt", r, 0)
                       /\ a = Harness!Take(run[r], Append(nextTurnQueue, prompt), "poll")
  BY Zenon
<1>2. \/ /\ Harness!Goes /\ nextTurnQueue' = Harness!Taken(nextTurnQueue, FALSE)
         /\ runAbortController' = r /\ Harness!Becomes(r, a)
      \/ /\ Harness!Throws /\ phase' = "idle"
         /\ \E threw \in BOOLEAN :
              /\ nextTurnQueue' = Harness!Taken(nextTurnQueue, threw)
              /\ run' = [run EXCEPT ![r].pc = "done", ![r].failing = TRUE,
                                     ![r].taken = IF threw THEN {} ELSE Harness!Range(nextTurnQueue)]
  BY Zenon, <1>1 DEF Harness!Begin
<1>3. CASE /\ Harness!Goes /\ nextTurnQueue' = Harness!Taken(nextTurnQueue, FALSE)
           /\ runAbortController' = r /\ Harness!Becomes(r, a)
  <2>1. Moved(r, a)
    BY <1>1, <1>3, FirstTurnMoves
  <2> QED
    BY <2>1
<1>4. CASE /\ Harness!Throws /\ phase' = "idle"
           /\ \E threw \in BOOLEAN :
                /\ nextTurnQueue' = Harness!Taken(nextTurnQueue, threw)
                /\ run' = [run EXCEPT ![r].pc = "done", ![r].failing = TRUE,
                                       ![r].taken = IF threw THEN {} ELSE Harness!Range(nextTurnQueue)]
  <2>1. PICK threw \in BOOLEAN :
          /\ nextTurnQueue' = Harness!Taken(nextTurnQueue, threw)
          /\ run' = [run EXCEPT ![r].pc = "done", ![r].failing = TRUE,
                                 ![r].taken = IF threw THEN {} ELSE Harness!Range(nextTurnQueue)]
    BY <1>4
  <2>2. PICK k : k = IF threw THEN {} ELSE Harness!Range(nextTurnQueue)
    BY Zenon
  <2>3. PICK m : m = [run[r] EXCEPT !.pc = "done", !.failing = TRUE, !.taken = k]
    BY Zenon
  <2>4. run \in [Harness!Run -> RunType]
    BY DEF HarnessTypes
  <2>5. run' = [run EXCEPT ![r].pc = "done", ![r].failing = TRUE, ![r].taken = k]
    BY Zenon, <2>1, <2>2
  <2>6. run' = [run EXCEPT ![r] = m]
    BY <2>3, <2>4, <2>5
  <2>7. m = [run[r] EXCEPT !.pc = "done", !.failing = TRUE,
                           !.taken = IF threw THEN {} ELSE Harness!Range(nextTurnQueue)]
    BY Zenon, <2>2, <2>3
  <2>8. Moved(r, m)
    BY <1>4, <2>1, <2>6, <2>7, NoTurnMoves
  <2> QED
    BY <2>8
<1> QED
  BY <1>2, <1>3, <1>4

LEMMA ReturnMoves ==
    ASSUME HarnessTypes, NEW r \in Harness!Run, Harness!Return(r)
    PROVE  \E m : Moved(r, m)
<1>1. /\ run[r].pc \in {"return", "reject"}
      /\ UNCHANGED <<entries, leaf, pendingSessionWrites, steerQueue, followUpQueue, nextTurnQueue, throws>>
      /\ Elsewhere /\ phase' = IF run[r].pc = "reject" THEN "idle" ELSE phase
  BY DEF Harness!Return, Harness!sessionVars, Harness!queueVars, Harness!callerVars, Elsewhere
<1>2. run[r] \in RunType /\ throws \in Nat /\ run \in [Harness!Run -> RunType] /\ RunOK(run[r], Len(entries), throws)
  BY DEF HarnessTypes
<1>3. PICK k : k = IF run[r].failing THEN run[r].taken ELSE {}
  BY Zenon
<1>4. PICK none : none = Harness!Nothing
  BY Zenon
<1>5. PICK m : m = [run[r] EXCEPT !.pc = "done", !.context = <<>>, !.item = none, !.parent = 0, !.reply = "none",
                                  !.taken = k]
  BY Zenon
<1>6. run' = [run EXCEPT ![r] = m]
  <2>1. run' = [run EXCEPT ![r].pc = "done", ![r].context = <<>>, ![r].item = Harness!Nothing, ![r].parent = 0,
                           ![r].reply = "none", ![r].taken = IF run[r].failing THEN @ ELSE {}]
    BY Zenon DEF Harness!Return
  <2>2. PICK c : c = IF run[r].failing THEN run[r].taken ELSE {}
    BY Zenon
  <2>3. run' = [run EXCEPT ![r].pc = "done", ![r].context = <<>>, ![r].item = none, ![r].parent = 0,
                           ![r].reply = "none", ![r].taken = c]
    BY <1>2, <1>4, <2>1, <2>2 DEF RunType
  <2> QED
    BY ONLY <1>2, <1>3, <1>5, <2>2, <2>3, r \in Harness!Run DEF RunType
<1>7. none \in Msg /\ <<>> \in Seq(Msg) /\ k \in SUBSET Msg
  BY <1>2, <1>3, <1>4, MessageTyped DEF RunType
<1>8. /\ m \in RunType /\ m.pc = "done" /\ m.failing = run[r].failing /\ m.taken = k /\ m.late = run[r].late
  BY <1>2, <1>5, <1>7, Words DEF RunType
<1>9. Hand(m) = <<>> /\ ~Recording(m) /\ ~Flushing(m) /\ \A x : Held(x, m) = 0
  BY <1>8, NoneHeld DEF Recording, Flushing
<1>10. RunOK(m, Len(entries'), throws') /\ SyncOK(m, entries', leaf', pendingSessionWrites')
  BY <1>1, <1>2, <1>8, <1>9 DEF RunOK, HandOK, SyncOK
<1>11. ASSUME NEW x \in Msg PROVE Flows(x, m, run[r])
  <2>1. run[r].pc # "append"
    BY <1>1
  <2> QED
    BY <1>1, <1>9, <2>1, NoneHeld, StaysPut
<1>12. Queues' /\ OldWritesGone
  BY <1>1, <1>2 DEF HarnessTypes, Queues, Waits, OldWritesGone, RunOK
<1>13. run[r].failing => m.failing /\ run[r].taken \subseteq m.taken
  BY <1>3, <1>8
<1> QED
  BY <1>1, <1>2, <1>6, <1>8, <1>10, <1>11, <1>12, <1>13 DEF Moved

---------------------------------------------------------------------------
(* The end of an append.                                                   *)

LEMMA RecordedThen ==
    ASSUME NEW x, entries' \in Seq(EntryType)
    PROVE  Harness!Recorded(x)' = Harness!Times(x, ItemsOf(entries'))
<1>1. DOMAIN entries' = 1 .. Len(entries') /\ DOMAIN ItemsOf(entries') = 1 .. Len(entries')
  BY DEF ItemsOf
<1>2. \A i \in 1 .. Len(entries') : ItemsOf(entries')[i] = entries'[i].item
  BY DEF ItemsOf
<1>3. {i \in DOMAIN entries' : entries'[i].item = x} = {i \in DOMAIN ItemsOf(entries') : ItemsOf(entries')[i] = x}
  BY <1>1, <1>2
<1> QED
  BY <1>3 DEF Harness!Recorded, Harness!Times

\* An entry that is persisted is the leaf, and the last of what is shown from there.
LEMMA PersistGrows ==
    ASSUME HarnessTypes, NEW item \in Msg, item[1] # "summary", NEW parent \in 0 .. Len(entries),
           Harness!Persist(item, parent, 0)
    PROVE  /\ SessionOK(entries, leaf)' /\ leaf' = Len(entries')
           /\ MessagesIn(entries', leaf') = Append(MessagesIn(entries, parent), item)
           /\ \A x : Harness!Recorded(x)' = Harness!Recorded(x) + (IF item = x THEN 1 ELSE 0)
<1>1. PICK es, e : es = entries /\ e = Harness!Entry(item, parent, 0)
  BY Zenon
<1>2. entries' = Append(es, e) /\ leaf' = Len(es) + 1
  BY Zenon, <1>1 DEF Harness!Persist
<1>3. Tree(es) /\ Len(es) \in Nat
  BY <1>1 DEF HarnessTypes, SessionOK, Tree
<1>4. e \in EntryType /\ e.item = item /\ e.parent = parent /\ e.kept = 0
  BY <1>1, <1>3 DEF Harness!Entry, EntryType
<1>5. e.parent \in 0 .. Len(es) /\ e.kept <= Len(es) + 1 /\ e.item[1] # "summary"
  BY <1>1, <1>3, <1>4
<1>6. /\ Tree(Append(es, e)) /\ Len(Append(es, e)) = Len(es) + 1
      /\ MessagesIn(Append(es, e), Len(es) + 1) = Append(MessagesIn(es, e.parent), e.item)
  BY <1>3, <1>4, <1>5, MessagesGrow
<1>7. /\ Tree(entries') /\ Len(entries') = Len(es) + 1
      /\ MessagesIn(entries', leaf') = Append(MessagesIn(entries, parent), item)
  BY Zenon, <1>1, <1>2, <1>4, <1>6
<1>8. ASSUME NEW x PROVE Harness!Recorded(x)' = Harness!Recorded(x) + (IF item = x THEN 1 ELSE 0)
  <2>1. entries \in Seq(EntryType) /\ entries' \in Seq(EntryType)
    BY <1>1, <1>3, <1>7 DEF Tree
  <2>2. Harness!Recorded(x) = Harness!Times(x, ItemsOf(entries)) /\ Harness!Recorded(x)' = Harness!Times(x, ItemsOf(entries'))
    BY <2>1, RecordedItems, RecordedThen
  <2>3. ItemsOf(entries') = Append(ItemsOf(entries), item) /\ ItemsOf(entries) \in Seq(Msg)
    BY <1>1, <1>2, <1>4, <2>1, ItemsOfAppend, ItemsTyped
  <2>4. Harness!Times(x, Append(ItemsOf(entries), item)) =
           Harness!Times(x, ItemsOf(entries)) + (IF item = x THEN 1 ELSE 0)
    BY <2>3, TimesOfAppend
  <2> QED
    BY Zenon, <2>2, <2>3, <2>4
<1>9. SessionOK(entries, leaf)' /\ leaf' = Len(entries')
  BY <1>2, <1>3, <1>7 DEF SessionOK
<1> QED
  BY <1>7, <1>8, <1>9

\* How often a message is in the hand of a run that records.
LEMMA HeldInHand ==
    ASSUME NEW m \in RunType, NEW x
    PROVE  /\ Recording(m) => Held(x, m) = (IF m.item = x THEN 1 ELSE 0) + Harness!Times(x, m.todo)
           /\ Harness!Times(x, m.todo) \in Nat
           /\ Held(x, m) # 0 => x \in ToSet(Hand(m))
<1>1. m.item \in Msg /\ m.todo \in Seq(Msg)
  BY DEF RunType
<1>2. PICK s, t, e : e = m.item /\ s = <<e>> /\ t = m.todo
  BY Zenon
<1>3. s \in Seq(Msg) /\ <<>> \in Seq(Msg) /\ s = Append(<<>>, e) /\ e \in Msg /\ t \in Seq(Msg)
  BY <1>1, <1>2
<1>4. Harness!Times(x, s) = IF e = x THEN 1 ELSE 0
  <2>1. Harness!Times(x, Append(<<>>, e)) = Harness!Times(x, <<>>) + (IF e = x THEN 1 ELSE 0)
    BY <1>3, TimesOfAppend
  <2>2. x \notin ToSet(<<>>)
    BY DEF ToSet
  <2>3. Harness!Times(x, <<>>) = 0
    BY <1>3, <2>2, TimesTyped
  <2> QED
    BY <1>3, <2>1, <2>3
<1>5. Harness!Times(x, s \o t) = Harness!Times(x, s) + Harness!Times(x, t) /\ Harness!Times(x, t) \in Nat
  BY <1>3, TimesOfConcat, TimesTyped
<1>6. Recording(m) => Held(x, m) = Harness!Times(x, s \o t)
  BY Zenon, <1>2 DEF Held, Hand
<1>7. Held(x, m) # 0 => x \in ToSet(Hand(m))
  BY HandTyped, TimesTyped DEF Held
<1> QED
  BY <1>2, <1>4, <1>5, <1>6, <1>7

LEMMA TailWaits ==
    ASSUME NEW q, NEW kind, Waits(q, kind), q # <<>>
    PROVE  Waits(Tail(q), kind)
<1>1. q \in Seq(Msg) /\ Tail(q) \in Seq(Msg) /\ Len(Tail(q)) = Len(q) - 1 /\ Len(q) \in Nat
      /\ \A i \in 1 .. Len(q) - 1 : Tail(q)[i] = q[i + 1]
  BY DEF Waits
<1>2. ASSUME NEW i \in DOMAIN Tail(q) PROVE Tail(q)[i][1] = kind
  <2>1. i \in 1 .. Len(q) - 1 /\ i + 1 \in DOMAIN q
    BY <1>1
  <2> QED
    BY <1>1, <2>1 DEF Waits
<1> QED
  BY <1>1, <1>2 DEF Waits

\* What an append that has ended is about, and what becomes of the session and the writes.
Leaves(me) ==
    /\ SessionOK(entries, leaf)' /\ Waits(pendingSessionWrites, "write")'
    /\ UNCHANGED <<entries, leaf, pendingSessionWrites>> \/ Persists(me)
    /\ \A x \in Msg : Harness!Recorded(x)' = Harness!Recorded(x) \/ (x = me.item /\ Harness!Recorded(x)' = Harness!Recorded(x) + 1)

LEMMA AppendedLeaves ==
    ASSUME HarnessTypes, NEW r \in Harness!Run, run[r].pc = "append",
           Harness!Persist(run[r].item, run[r].parent, 0),
           pendingSessionWrites' = IF run[r].flushing THEN Harness!Shifted(pendingSessionWrites, TRUE)
                                   ELSE pendingSessionWrites
    PROVE  /\ Leaves(run[r])
           /\ MessagesIn(entries', leaf') = Append(MessagesIn(entries, run[r].parent), run[r].item)
           /\ \A x : Harness!Recorded(x)' = Harness!Recorded(x) + (IF run[r].item = x THEN 1 ELSE 0)
<1>1. PICK me : me = run[r]
  BY Zenon
<1>2. me \in RunType /\ RunOK(me, Len(entries), throws) /\ Len(entries) \in Nat
  BY <1>1 DEF HarnessTypes, SessionOK, Tree
<1>3. me.item \in Msg /\ me.parent \in 0 .. Len(entries) /\ me.todo \in Seq(Msg) /\ me.flushing \in BOOLEAN
  BY <1>1, <1>2 DEF RunOK, RunType
<1>4. me.item[1] # "summary"
  <2>1. CASE Recording(me)
    <3>1. Hand(me) = <<me.item>> \o me.todo
      BY Zenon, <2>1 DEF Hand
    <3>2. PICK t, s : t = me.todo /\ s = <<me.item>>
      BY Zenon
    <3>3. s \in Seq(Msg) /\ t \in Seq(Msg) /\ Len(s) = 1 /\ s[1] = me.item
      BY <1>3, <3>2
    <3>4. 1 \in DOMAIN (s \o t) /\ (s \o t)[1] = s[1]
      BY <3>3, ConcatElements
    <3>5. Hand(me)[1][1] \in Said
      BY <1>2, <3>1, <3>2, <3>4 DEF RunOK, HandOK
    <3> QED
      BY <3>1, <3>2, <3>3, <3>4, <3>5 DEF Said, QueueKinds
  <2>2. CASE ~Recording(me)
    BY <1>1, <1>2, <2>2 DEF RunOK, Recording, Flushing
  <2> QED
    BY <2>1, <2>2
<1>5. /\ SessionOK(entries, leaf)'
      /\ MessagesIn(entries', leaf') = Append(MessagesIn(entries, me.parent), me.item)
      /\ \A x : Harness!Recorded(x)' = Harness!Recorded(x) + (IF me.item = x THEN 1 ELSE 0)
  BY <1>1, <1>3, <1>4, PersistGrows
<1>6. Waits(pendingSessionWrites, "write")'
  <2>1. Waits(pendingSessionWrites, "write")
    BY DEF HarnessTypes
  <2>2. pendingSessionWrites' \in {pendingSessionWrites, Tail(pendingSessionWrites)}
        /\ (pendingSessionWrites = <<>> => pendingSessionWrites' = pendingSessionWrites)
    BY DEF Harness!Shifted
  <2>3. Waits(pendingSessionWrites', "write")
    BY <2>1, <2>2, TailWaits
  <2> QED
    BY <2>3 DEF Waits
<1>7. Persists(me)
  BY Zenon, <1>1 DEF Persists
<1>8. \A x \in Msg : Harness!Recorded(x)' = Harness!Recorded(x) \/ (x = me.item /\ Harness!Recorded(x)' = Harness!Recorded(x) + 1)
  BY <1>5, CountTyped
<1>9. Leaves(me)
  BY <1>5, <1>6, <1>7, <1>8 DEF Leaves
<1> QED
  BY Zenon, <1>1, <1>5, <1>9

LEMMA NothingLeaves ==
    ASSUME HarnessTypes, NEW me, UNCHANGED <<entries, leaf, pendingSessionWrites>>
    PROVE  Leaves(me)
  BY DEF HarnessTypes, SessionOK, Waits, Leaves, Harness!Recorded

LEMMA ConcatMoves ==
    ASSUME NEW S, NEW M \in Seq(S), NEW e \in S, NEW t \in Seq(S)
    PROVE  M \o (<<e>> \o t) = Append(M, e) \o t
<1>1. PICK s, u, a, x, y : /\ s = <<e>> /\ u = s \o t /\ a = Append(M, e) /\ x = M \o u /\ y = a \o t
  BY Zenon
<1>2. s \in Seq(S) /\ Len(s) = 1 /\ s[1] = e
  BY <1>1
<1>3. /\ u \in Seq(S) /\ Len(u) = 1 + Len(t) /\ u[1] = e /\ \A i \in 1 .. Len(t) : u[1 + i] = t[i]
  BY <1>1, <1>2, ConcatElements
<1>4. /\ a \in Seq(S) /\ Len(a) = Len(M) + 1 /\ a[Len(M) + 1] = e /\ \A i \in 1 .. Len(M) : a[i] = M[i]
  BY <1>1, AppendElements
<1>5. /\ x \in Seq(S) /\ Len(x) = Len(M) + Len(u) /\ (\A i \in 1 .. Len(M) : x[i] = M[i])
      /\ \A i \in 1 .. Len(u) : x[Len(M) + i] = u[i]
  BY <1>1, <1>3, ConcatElements
<1>6. /\ y \in Seq(S) /\ Len(y) = Len(a) + Len(t) /\ (\A i \in 1 .. Len(a) : y[i] = a[i])
      /\ \A i \in 1 .. Len(t) : y[Len(a) + i] = t[i]
  BY <1>1, <1>4, ConcatElements
<1>7. Len(M) \in Nat /\ Len(t) \in Nat
  OBVIOUS
<1>8. Len(x) = Len(y) /\ Len(x) = Len(M) + 1 + Len(t)
  BY <1>3, <1>4, <1>5, <1>6, <1>7
<1>9. ASSUME NEW i \in 1 .. Len(x) PROVE x[i] = y[i]
  <2>1. CASE i <= Len(M)
    <3>1. i \in 1 .. Len(M) /\ i \in 1 .. Len(a)
      BY <1>4, <1>7, <1>8, <2>1
    <3> QED
      BY <1>4, <1>5, <1>6, <3>1
  <2>2. CASE i = Len(M) + 1
    <3>1. 1 \in 1 .. Len(u) /\ i \in 1 .. Len(a)
      BY <1>3, <1>4, <1>7, <2>2
    <3>2. x[i] = u[1] /\ y[i] = a[i]
      BY <1>5, <1>6, <2>2, <3>1
    <3> QED
      BY <1>3, <1>4, <2>2, <3>2
  <2>3. CASE i > Len(M) + 1
    <3>1. PICK j \in 1 .. Len(t) : i = Len(M) + 1 + j
      <4>1. i - (Len(M) + 1) \in 1 .. Len(t) /\ i = Len(M) + 1 + (i - (Len(M) + 1))
        BY <1>7, <1>8, <2>3
      <4> QED
        BY <4>1
    <3>2. 1 + j \in 1 .. Len(u) /\ i = Len(M) + (1 + j) /\ i = Len(a) + j
      BY <1>3, <1>4, <1>7, <3>1
    <3> QED
      BY <1>3, <1>5, <1>6, <3>2
  <2> QED
    BY <1>7, <1>8, <2>1, <2>2, <2>3
<1>10. x = y
  BY <1>5, <1>6, <1>8, <1>9, SeqEqual
<1> QED
  BY <1>1, <1>10

\* What an append leaves behind: the run without what it has appended.
LEMMA RestLands ==
    ASSUME NEW me \in RunType, NEW b, b = [me EXCEPT !.item = Harness!Nothing, !.parent = 0, !.flushing = FALSE]
    PROVE  b \in RunType /\ Same(b, me) /\ b.context = me.context /\ b.todo = me.todo
<1>1. PICK none : none = Harness!Nothing
  BY Zenon
<1>2. b = [me EXCEPT !.item = none, !.parent = 0, !.flushing = FALSE] /\ none \in Msg
  <2>1. none \in Msg
    BY <1>1, MessageTyped
  <2> QED
    BY Zenon, <1>1, <2>1
<1>3. b \in RunType
  <2>1. PICK n : n = 0
    BY Zenon
  <2>2. b = [me EXCEPT !.item = none, !.parent = n, !.flushing = FALSE] /\ none \in Msg /\ n \in Nat
    BY <1>2, <2>1
  <2> QED
    BY ONLY <2>2, me \in RunType DEF RunType
<1>4. /\ b.failing = me.failing /\ b.late = me.late /\ b.taken = me.taken
      /\ b.context = me.context /\ b.todo = me.todo
  BY <1>2 DEF RunType
<1> QED
  BY <1>3, <1>4 DEF Same

\* What else holds of a step that ends an append.
Follows(r) ==
    /\ run[r].pc = "append" /\ Elsewhere /\ UNCHANGED <<steerQueue, followUpQueue, nextTurnQueue, runAbortController>>
    /\ throws' \in Nat /\ (throws' = 0 => throws = 0)

LEMMA FollowsAppend ==
    ASSUME HarnessTypes, NEW r \in Harness!Run, Harness!AppendEnds(r)
    PROVE  Follows(r)
<1>1. /\ run[r].pc = "append" /\ Elsewhere /\ UNCHANGED <<steerQueue, followUpQueue, nextTurnQueue, runAbortController>>
  BY DEF Harness!AppendEnds, Harness!queueVars, Harness!callerVars, Elsewhere
<1>2. Harness!Throws \/ Harness!Goes
  BY Zenon DEF Harness!AppendEnds
<1>3. throws' \in Nat /\ (throws' = 0 => throws = 0)
  BY <1>2 DEF HarnessTypes, Harness!Throws, Harness!Goes
<1> QED
  BY <1>1, <1>3 DEF Follows

LEMMA CountFollows ==
    ASSUME HarnessTypes, NEW r \in Harness!Run, Follows(r), Leaves(run[r]), NEW x \in Msg, x[1] \in QueueKinds
    PROVE  \E got \in {0, 1} : /\ Count(x)' = Count(x) + got /\ Count(x) \in Nat
                               /\ Harness!Recorded(x)' = Harness!Recorded(x) + got
                               /\ got = 1 => Recording(run[r]) /\ x = run[r].item
<1>1. /\ Harness!Recorded(x) \in Nat /\ Harness!Times(x, steerQueue) \in Nat
      /\ Harness!Times(x, followUpQueue) \in Nat /\ Harness!Times(x, nextTurnQueue) \in Nat /\ Count(x) \in Nat
  BY CountTyped
<1>2. Count(x)' = Harness!Recorded(x)' + Harness!Times(x, steerQueue) + Harness!Times(x, followUpQueue)
                  + Harness!Times(x, nextTurnQueue)
  BY DEF Count, Follows
<1>3. \/ Harness!Recorded(x)' = Harness!Recorded(x)
      \/ x = run[r].item /\ Harness!Recorded(x)' = Harness!Recorded(x) + 1
  BY DEF Leaves
<1>4. CASE Harness!Recorded(x)' = Harness!Recorded(x)
  <2>1. Harness!Recorded(x)' = Harness!Recorded(x) + 0 /\ Count(x)' = Count(x) + 0
    BY <1>1, <1>2, <1>4 DEF Count
  <2> QED
    BY <1>1, <2>1
<1>5. CASE x = run[r].item /\ Harness!Recorded(x)' = Harness!Recorded(x) + 1
  <2>1. Count(x)' = Count(x) + 1
    BY <1>1, <1>2, <1>5 DEF Count
  <2>2. ~Flushing(run[r])
    BY <1>5 DEF HarnessTypes, RunOK, QueueKinds
  <2>3. Recording(run[r])
    BY <2>2 DEF Follows, Recording, Flushing
  <2> QED
    BY <1>1, <1>5, <2>1, <2>3
<1> QED
  BY <1>3, <1>4, <1>5

\* A run that drops what it has in hand loses it, and is failing.
LEMMA DropsFlow ==
    ASSUME HarnessTypes, NEW r \in Harness!Run, Follows(r), Leaves(run[r]), NEW x \in Msg, x[1] \in QueueKinds,
           NEW m, Held(x, m) = 0, Recording(run[r]) => m.failing, m.taken = run[r].taken
    PROVE  Flows(x, m, run[r])
<1>1. PICK got \in {0, 1} : /\ Count(x)' = Count(x) + got /\ Count(x) \in Nat
                            /\ got = 1 => Recording(run[r]) /\ x = run[r].item
  BY CountFollows
<1>2. run[r] \in RunType /\ RunOK(run[r], Len(entries), throws)
  BY DEF HarnessTypes
<1>3. PICK h : h = Held(x, run[r])
  BY Zenon
<1>4. /\ h \in Nat /\ (h # 0 => x \in ToSet(Hand(run[r])))
      /\ got = 1 => h # 0
  <2>1. h \in Nat
    BY <1>2, <1>3, HandTyped
  <2>2. h # 0 => x \in ToSet(Hand(run[r]))
    BY <1>2, <1>3, HeldInHand
  <2>3. got = 1 => h # 0
    <3>1. Recording(run[r]) => /\ h = (IF run[r].item = x THEN 1 ELSE 0) + Harness!Times(x, run[r].todo)
                               /\ Harness!Times(x, run[r].todo) \in Nat
      BY <1>2, <1>3, HeldInHand
    <3> QED
      BY <1>1, <3>1
  <2> QED
    BY <2>1, <2>2, <2>3
<1>5. h # 0 => Recording(run[r]) /\ x \in run[r].taken
  <2>1. ToSet(<<>>) = {}
    BY DEF ToSet
  <2>2. h # 0 => Recording(run[r])
    BY <1>4, <2>1 DEF Hand
  <2>3. h # 0 => x \in run[r].taken
    BY <1>2, <1>4 DEF RunOK, HandOK, ToSet
  <2> QED
    BY <2>2, <2>3
<1>6. h - got \in Nat /\ Count(x)' + 0 + (h - got) = Count(x) + h /\ (h - got # 0 => h # 0)
  BY <1>1, <1>4
<1>7. h - got # 0 => m.failing /\ x \in m.taken
  BY <1>5, <1>6
<1> QED
  BY <1>3, <1>6, <1>7 DEF Flows

\* What all these steps have in common.
LEMMA AppendsMove ==
    ASSUME HarnessTypes, NEW r \in Harness!Run, Follows(r), Leaves(run[r]), NEW m, Harness!Becomes(r, m),
           RunOK(m, Len(entries'), throws'), m.pc \notin {"none", "begin", "done"},
           patience = "patient" /\ SyncOK(run[r], entries, leaf, pendingSessionWrites)
               => SyncOK(m, entries', leaf', pendingSessionWrites'),
           \A x \in Msg : x[1] \in QueueKinds => Flows(x, m, run[r]),
           run[r].failing => m.failing, run[r].taken \subseteq m.taken,
           m.pc = "ended" => pendingSessionWrites' = <<>>
    PROVE  Moved(r, m)
<1>1. run' = [run EXCEPT ![r] = m] /\ phase' = IF m.pc = "ended" THEN "idle" ELSE phase
  BY Zenon, BecomesIs
<1>2. OldWritesGone
  BY <1>1 DEF OldWritesGone
<1>3. Queues'
  BY DEF HarnessTypes, Follows, Queues, Waits
<1> QED
  BY <1>1, <1>2, <1>3 DEF Moved, Follows, Leaves

\* An error behind an append.
LEMMA AppendFails ==
    ASSUME HarnessTypes, NEW r \in Harness!Run, Follows(r), Leaves(run[r]), throws' # 0,
           NEW b, b = [run[r] EXCEPT !.item = Harness!Nothing, !.parent = 0, !.flushing = FALSE],
           NEW m, Harness!Becomes(r, m),
           \/ run[r].next \in {"return", "reject"} /\ m = Harness!Reach(b, "reject")
           \/ run[r].next \notin {"return", "reject"} /\ m = Harness!Thrown(r, b)
    PROVE  Moved(r, m)
<1>1. run[r] \in RunType /\ RunOK(run[r], Len(entries), throws) /\ r \in Nat
  BY CountsAssumption DEF HarnessTypes, Harness!Run
<1>2. b \in RunType /\ Same(b, run[r]) /\ b.context = run[r].context /\ b.todo = run[r].todo
  BY <1>1, RestLands
<1>3. SessionOK(entries, leaf)' /\ Waits(pendingSessionWrites, "write")' /\ throws' \in Nat
  BY DEF Leaves, Follows
<1>4. CASE run[r].next \in {"return", "reject"} /\ m = Harness!Reach(b, "reject")
  <2>1. m \in RunType /\ m.pc = "reject" /\ Same(m, b)
    <3>1. "reject" \in Word
      BY DEF Word
    <3> QED
      BY <1>2, <1>3, <1>4, <3>1, ReachLands
  <2>2. Hand(m) = <<>> /\ ~Recording(m) /\ ~Flushing(m) /\ \A x : Held(x, m) = 0
    BY <2>1, NoneHeld DEF Recording, Flushing
  <2>3. RunOK(m, Len(entries'), throws') /\ SyncOK(m, entries', leaf', pendingSessionWrites')
    BY <2>1, <2>2 DEF RunOK, HandOK, SyncOK
  <2>4. ~Recording(run[r])
    BY <1>1, <1>4 DEF RunOK, Behind
  <2>5. m.taken = run[r].taken /\ m.failing = run[r].failing
    BY <1>2, <2>1 DEF Same
  <2>6. \A x \in Msg : x[1] \in QueueKinds => Flows(x, m, run[r])
    BY <2>2, <2>4, <2>5, DropsFlow
  <2> QED
    BY <2>1, <2>3, <2>5, <2>6, AppendsMove
<1>5. CASE run[r].next \notin {"return", "reject"} /\ m = Harness!Thrown(r, b)
  <2>1. EndsBadly(m, b)
    BY <1>1, <1>2, <1>3, <1>5, ThrownLands
  <2>2. /\ RunOK(m, Len(entries'), throws') /\ m.failing = TRUE /\ m.taken = b.taken
        /\ m.pc \in {"append", "turnEnd", "reject"}
        /\ \A i \in DOMAIN Hand(m) : Hand(m)[i][1] = "failure"
        /\ SyncOK(m, entries', leaf', pendingSessionWrites')
    BY Zenon, <2>1 DEF EndsBadly
  <2>3. m.taken = run[r].taken /\ m.failing /\ m \in RunType
    BY <1>2, <2>2 DEF Same, RunOK
  <2>4. ASSUME NEW x \in Msg, x[1] \in QueueKinds PROVE Flows(x, m, run[r])
    <3>1. x[1] # "failure"
      BY <2>4 DEF QueueKinds
    <3>2. Held(x, m) = 0
      BY <2>2, <2>3, <3>1, OthersHeld
    <3> QED
      BY <2>3, <2>4, <3>2, DropsFlow
  <2> QED
    BY <2>2, <2>3, <2>4, AppendsMove
<1> QED
  BY <1>4, <1>5

\* The next of the writes that wait.
LEMMA AppendFlushes ==
    ASSUME HarnessTypes, NEW r \in Harness!Run, Follows(r), Leaves(run[r]), Flushing(run[r]), throws' = throws,
           NEW b, b = [run[r] EXCEPT !.item = Harness!Nothing, !.parent = 0, !.flushing = FALSE],
           NEW m, Harness!Becomes(r, m), m = Harness!Flush(b, run[r].next)
    PROVE  Moved(r, m)
<1>1. run[r] \in RunType /\ RunOK(run[r], Len(entries), throws)
  BY DEF HarnessTypes
<1>2. b \in RunType /\ Same(b, run[r])
  BY <1>1, RestLands
<1>3. SessionOK(entries, leaf)' /\ Waits(pendingSessionWrites, "write")' /\ throws' \in Nat
  BY DEF Leaves, Follows
<1>4. run[r].next \in Through /\ (b.late \/ run[r].next = "reject" => throws' # 0)
  BY <1>1, <1>2, <1>3 DEF RunOK, Same, Flushing
<1>5. /\ RunOK(m, Len(entries'), throws') /\ Same(m, b) /\ Hand(m) = <<>>
      /\ m.pc = "append" \/ (m.pc = run[r].next /\ pendingSessionWrites' = <<>>)
      /\ SyncOK(m, entries', leaf', pendingSessionWrites')
  BY <1>2, <1>3, <1>4, FlushLands
<1>6. m.pc \notin {"none", "begin", "done"} /\ ~Recording(run[r])
  BY <1>4, <1>5 DEF Through, Flushing, Recording
<1>7. m.taken = run[r].taken /\ m.failing = run[r].failing
  BY <1>2, <1>5 DEF Same
<1>8. ASSUME NEW x \in Msg, x[1] \in QueueKinds PROVE Flows(x, m, run[r])
  <2>1. x \notin ToSet(<<>>) /\ <<>> \in Seq(Msg)
    BY DEF ToSet
  <2>2. Held(x, m) = 0
    BY <1>5, <2>1, TimesTyped DEF Held
  <2> QED
    BY <1>6, <1>7, <1>8, <2>2, DropsFlow
<1>9. m.pc = "ended" => pendingSessionWrites' = <<>>
  BY <1>5
<1> QED
  BY <1>5, <1>6, <1>7, <1>8, <1>9, AppendsMove

\* The next of the messages in hand.
LEMMA AppendRecords ==
    ASSUME HarnessTypes, NEW r \in Harness!Run, Follows(r), Leaves(run[r]), Recording(run[r]), throws' = throws,
           MessagesIn(entries', leaf') = Append(MessagesIn(entries, run[r].parent), run[r].item),
           \A x : Harness!Recorded(x)' = Harness!Recorded(x) + (IF run[r].item = x THEN 1 ELSE 0),
           NEW b, b = [run[r] EXCEPT !.item = Harness!Nothing, !.parent = 0, !.flushing = FALSE],
           NEW m, Harness!Becomes(r, m), m = Harness!Record(b, run[r].todo, run[r].next)
    PROVE  Moved(r, m)
<1>1. run[r] \in RunType /\ RunOK(run[r], Len(entries), throws)
  BY DEF HarnessTypes
<1>2. b \in RunType /\ Same(b, run[r]) /\ b.context = run[r].context
  BY <1>1, RestLands
<1>3. SessionOK(entries, leaf)' /\ throws' \in Nat
  BY DEF Leaves, Follows
<1>4. PICK s, t, next : s = <<run[r].item>> /\ t = run[r].todo /\ next = run[r].next
  BY Zenon
<1>5. /\ t \in Seq(Msg) /\ s \in Seq(Msg) /\ run[r].item \in Msg /\ next \in Behind
      /\ (b.late => throws' # 0) /\ Len(s) = 1
  BY <1>1, <1>2, <1>3, <1>4 DEF RunOK, RunType, Same
<1>6. Hand(run[r]) = s \o t
  BY Zenon, <1>4 DEF Hand
<1>14. s \in Seq(Msg) /\ t \in Seq(Msg)
  BY <1>5
<1>7. HandOK(t, b.taken)
  <2> SUFFICES ASSUME NEW i \in DOMAIN t PROVE t[i][1] \in Said /\ (t[i][1] \in QueueKinds => t[i] \in b.taken)
    BY DEF HandOK
  <2>1. 1 + i \in DOMAIN (s \o t) /\ (s \o t)[1 + i] = t[i]
    <3>1. /\ s \o t \in Seq(Msg) /\ Len(s \o t) = Len(s) + Len(t)
          /\ \A j \in 1 .. Len(t) : (s \o t)[Len(s) + j] = t[j]
      BY <1>14, ConcatElements
    <3>2. i \in 1 .. Len(t) /\ Len(t) \in Nat
      BY <1>5
    <3> QED
      BY <1>5, <3>1, <3>2
  <2>2. HandOK(s \o t, b.taken)
    BY <1>1, <1>2, <1>6 DEF RunOK, Same
  <2> QED
    BY Zenon, <2>1, <2>2 DEF HandOK
<1>8. m = Harness!Record(b, t, next)
  BY Zenon, <1>4
<1>9. RunOK(m, Len(entries'), throws') /\ Same(m, b) /\ Goes(m, b, t, next)
  BY <1>2, <1>3, <1>5, <1>7, <1>8, RecordLands
<1>10. ASSUME patience = "patient", SyncOK(run[r], entries, leaf, pendingSessionWrites)
       PROVE  SyncOK(m, entries', leaf', pendingSessionWrites')
  <2>1. next # "turnEnd" => b.context = MessagesIn(entries', leaf') \o t
    <3>1. SUFFICES ASSUME next # "turnEnd" PROVE b.context = MessagesIn(entries', leaf') \o t
      OBVIOUS
    <3>2. PICK M : M = MessagesIn(entries, leaf)
      BY Zenon
    <3>3. run[r].parent = leaf /\ run[r].context = M \o (s \o t)
      BY <1>4, <1>6, <1>10, <3>1, <3>2 DEF SyncOK, Recording
    <3>4. M \in Seq(Msg)
      BY <3>2, MessagesTyped DEF HarnessTypes, SessionOK
    <3>5. MessagesIn(entries', leaf') = Append(M, run[r].item)
      BY <3>2, <3>3
    <3>6. M \o (<<run[r].item>> \o t) = Append(M, run[r].item) \o t
      BY ONLY <1>5, <3>4, ConcatMoves
    <3> QED
      BY Zenon, <1>2, <1>4, <3>3, <3>5, <3>6
  <2> DEFINE w == pendingSessionWrites'
  <2> HIDE DEF w
  <2>2. SyncOK(m, entries', leaf', w)
    BY <1>3, <1>5, <1>9, <2>1, Syncs
  <2> QED
    BY <2>2 DEF w
<1>11. m.taken = run[r].taken /\ m.failing = run[r].failing
  BY <1>2, <1>9 DEF Same
<1>12. m.pc \notin {"none", "begin", "done", "ended"}
  BY <1>5, <1>9 DEF Goes, Behind
<1>13. ASSUME NEW x \in Msg, x[1] \in QueueKinds PROVE Flows(x, m, run[r])
  <2>1. PICK got \in {0, 1} : Count(x)' = Count(x) + got /\ Count(x) \in Nat
                              /\ Harness!Recorded(x)' = Harness!Recorded(x) + got
    BY <1>13, CountFollows
  <2>2. Harness!Recorded(x) \in Nat
    BY CountTyped
  <2>3. got = IF run[r].item = x THEN 1 ELSE 0
    BY <2>1, <2>2
  <2>4. Held(x, run[r]) = (IF run[r].item = x THEN 1 ELSE 0) + Harness!Times(x, t) /\ Harness!Times(x, t) \in Nat
    BY <1>1, <1>4, HeldInHand
  <2>5. Held(x, m) = Harness!Times(x, t)
    BY <1>9 DEF Goes, Held
  <2>6. Count(x)' + Held(x, m) + 0 = Count(x) + Held(x, run[r]) /\ 0 \in Nat
    BY <2>1, <2>3, <2>4, <2>5
  <2> QED
    BY <2>6 DEF Flows
<1> QED
  BY <1>9, <1>10, <1>11, <1>12, <1>13, AppendsMove

LEMMA AppendEndMoves ==
    ASSUME HarnessTypes, NEW r \in Harness!Run, Harness!AppendEnds(r)
    PROVE  \E m : Moved(r, m)
<1>0. Follows(r)
  BY FollowsAppend
<1>1. PICK me, b : me = run[r] /\ b = [me EXCEPT !.item = Harness!Nothing, !.parent = 0, !.flushing = FALSE]
  BY Zenon
<1>2. PICK reached, thrown, flushed, recorded :
        /\ reached = Harness!Reach(b, "reject") /\ thrown = Harness!Thrown(r, b)
        /\ flushed = Harness!Flush(b, me.next) /\ recorded = Harness!Record(b, me.todo, me.next)
  BY Zenon
<1>3. PICK appended \in BOOLEAN, threw \in BOOLEAN :
        /\ ~appended => threw
        /\ IF threw THEN Harness!Throws ELSE Harness!Goes
        /\ IF appended THEN Harness!Persist(me.item, me.parent, 0) ELSE UNCHANGED Harness!sessionVars
        /\ pendingSessionWrites' = IF me.flushing THEN Harness!Shifted(pendingSessionWrites, appended)
                                   ELSE pendingSessionWrites
        /\ Harness!Becomes(r, IF threw THEN IF me.next \in {"return", "reject"} THEN reached ELSE thrown
                              ELSE IF me.flushing THEN flushed ELSE recorded)
  BY Zenon, <1>1, <1>2 DEF Harness!AppendEnds
<1>4. me \in RunType /\ me.pc = "append" /\ me.flushing \in BOOLEAN
  BY <1>0, <1>1 DEF HarnessTypes, Follows, RunType
<1>5. CASE appended
  <2>1. /\ Harness!Persist(me.item, me.parent, 0)
        /\ pendingSessionWrites' = IF me.flushing THEN Harness!Shifted(pendingSessionWrites, TRUE)
                                   ELSE pendingSessionWrites
    BY <1>3, <1>5 DEF Harness!Shifted
  <2>2. /\ Leaves(run[r])
        /\ MessagesIn(entries', leaf') = Append(MessagesIn(entries, run[r].parent), run[r].item)
        /\ \A x : Harness!Recorded(x)' = Harness!Recorded(x) + (IF run[r].item = x THEN 1 ELSE 0)
    BY <1>1, <1>4, <2>1, AppendedLeaves
  <2>3. CASE threw
    <3>1. throws' # 0
      BY <1>3, <2>3 DEF HarnessTypes, Harness!Throws
    <3>2. CASE me.next \in {"return", "reject"}
      <4>1. Harness!Becomes(r, reached)
        BY Zenon, <1>3, <2>3, <3>2
      <4>2. Moved(r, reached)
        BY <1>0, <1>1, <1>2, <2>2, <3>1, <3>2, <4>1, AppendFails
      <4> QED
        BY <4>2
    <3>3. CASE me.next \notin {"return", "reject"}
      <4>1. Harness!Becomes(r, thrown)
        BY Zenon, <1>3, <2>3, <3>3
      <4>2. Moved(r, thrown)
        BY <1>0, <1>1, <1>2, <2>2, <3>1, <3>3, <4>1, AppendFails
      <4> QED
        BY <4>2
    <3> QED
      BY <3>2, <3>3
  <2>4. CASE ~threw
    <3>1. throws' = throws
      BY <1>3, <2>4 DEF Harness!Goes
    <3>2. CASE me.flushing
      <4>1. Harness!Becomes(r, flushed) /\ Flushing(run[r])
        BY Zenon, <1>1, <1>3, <1>4, <2>4, <3>2 DEF Flushing
      <4>2. Moved(r, flushed)
        BY <1>0, <1>1, <1>2, <2>2, <3>1, <4>1, AppendFlushes
      <4> QED
        BY <4>2
    <3>3. CASE ~me.flushing
      <4>1. Harness!Becomes(r, recorded) /\ Recording(run[r])
        BY Zenon, <1>1, <1>3, <1>4, <2>4, <3>3 DEF Recording
      <4>2. Moved(r, recorded)
        BY <1>0, <1>1, <1>2, <2>2, <3>1, <4>1, AppendRecords
      <4> QED
        BY <4>2
    <3> QED
      BY <3>2, <3>3
  <2> QED
    BY <2>3, <2>4
<1>6. CASE ~appended
  <2>1. threw /\ UNCHANGED <<entries, leaf, pendingSessionWrites>> /\ throws' # 0
    <3>1. threw /\ UNCHANGED <<entries, leaf>>
      BY <1>3, <1>6 DEF Harness!sessionVars
    <3>2. pendingSessionWrites' = pendingSessionWrites
      BY Zenon, <1>3, <1>6 DEF Harness!Shifted
    <3>3. throws' # 0
      BY <1>3, <3>1 DEF HarnessTypes, Harness!Throws
    <3> QED
      BY <3>1, <3>2, <3>3
  <2>2. Leaves(run[r])
    BY <2>1, NothingLeaves
  <2>3. CASE me.next \in {"return", "reject"}
    <3>1. Harness!Becomes(r, reached)
      BY Zenon, <1>3, <2>1, <2>3
    <3>2. Moved(r, reached)
      BY <1>0, <1>1, <1>2, <2>1, <2>2, <2>3, <3>1, AppendFails
    <3> QED
      BY <3>2
  <2>4. CASE me.next \notin {"return", "reject"}
    <3>1. Harness!Becomes(r, thrown)
      BY Zenon, <1>3, <2>1, <2>4
    <3>2. Moved(r, thrown)
      BY <1>0, <1>1, <1>2, <2>1, <2>2, <2>4, <3>1, AppendFails
    <3> QED
      BY <3>2
  <2> QED
    BY <2>3, <2>4
<1> QED
  BY <1>5, <1>6

LEMMA RunStepMoves ==
    ASSUME HarnessTypes, NEW r \in Harness!Run, Harness!RunStep(r)
    PROVE  \E m : Moved(r, m)
  BY Zenon, BeginMoves, AppendEndMoves, PollMoves, AskMoves, AnswersMove, TurnEndMoves, SavePointMoves, PrepareMoves,
     FollowUpsMove, EndedMoves, ReturnMoves DEF Harness!RunStep

---------------------------------------------------------------------------
(* What is true of the harness at every moment.                            *)

OtherTypes ==
    /\ queued \in 0 .. MaxQueued /\ writes \in 0 .. MaxWrites /\ operations \in Nat
    /\ operation[1] \in {"none", "compact", "navigate"} /\ operation[2] \in 0 .. Len(entries)
    /\ operation[1] = "navigate" => operation[2] # 0
    /\ operation[1] # "none" => operations # 0
    /\ idleWrite.item \in Msg /\ (idleWrite.item = Harness!Nothing \/ idleWrite.item[1] = "write")
    /\ idleWrite.parent \in 0 .. Len(entries)

\* Callers that await what they call have one thing going on at a time; the controller is that of the run that has
\* begun, and a run is aborted that was asked to.
Alone ==
    /\ \A r \in Harness!Run : SyncOK(run[r], entries, leaf, pendingSessionWrites)
    /\ \A r, s \in Harness!Run : Harness!Active(r) /\ Harness!Active(s) => r = s
    /\ operation[1] # "none" => phase # "idle" /\ \A r \in Harness!Run : ~Harness!Active(r)
    /\ idleWrite.item # Harness!Nothing => \A r \in Harness!Run : Harness!Active(r) => run[r].pc = "ended"
    /\ \A r \in Harness!Run : Harness!Active(r) /\ run[r].pc # "begin" => runAbortController = r
    /\ abortAsked \subseteq aborted

\* A session write is recorded or waits, once, from the time it is made, unless it failed or is being appended.
WriteOf(n) == Harness!Message("write", 0, n)
Kept(x) == Harness!Recorded(x) + Harness!Times(x, pendingSessionWrites)
WritePlaced(n) ==
    /\ n > writes => Kept(WriteOf(n)) = 0 /\ WriteOf(n) \notin returned /\ WriteOf(n) # idleWrite.item
    /\ WriteOf(n) = idleWrite.item => Kept(WriteOf(n)) = 0
    /\ n <= writes /\ WriteOf(n) # idleWrite.item /\ WriteOf(n) \notin returned => Kept(WriteOf(n)) = 1
WritesPlaced == \A n \in 1 .. MaxWrites : WritePlaced(n)

\* A message that was queued waits or is recorded, once; went back to who called abort; is in the hand of one run, once;
\* or was lost by a run that fails.
InNoHand(x) == \A r \in Harness!Run : Held(x, run[r]) = 0
Unused(x) == Count(x) = 0 /\ x \notin returned /\ InNoHand(x)
IsKept(x) == Count(x) = 1 /\ x \notin returned /\ InNoHand(x)
WentBack(x) == Count(x) = 0 /\ x \in returned /\ x[1] # "nextTurn" /\ InNoHand(x)
InHand(x) ==
    /\ Count(x) = 0 /\ x \notin returned
    /\ \E r \in Harness!Run : Held(x, run[r]) = 1 /\ \A s \in Harness!Run \ {r} : Held(x, run[s]) = 0
IsLost(x) == Count(x) = 0 /\ InNoHand(x) /\ \E r \in Harness!Run : run[r].failing /\ x \in run[r].taken
Placed(x) == IsKept(x) \/ WentBack(x) \/ InHand(x) \/ IsLost(x)
QueuedPlaced ==
    \A n \in 1 .. MaxQueued :
        /\ n > queued => \A kind \in QueueKinds : Unused(Harness!Message(kind, 0, n))
        /\ n <= queued => \E kind \in QueueKinds : Placed(Harness!Message(kind, 0, n))

HarnessInv ==
    /\ HarnessTypes /\ OtherTypes /\ QueuedPlaced /\ Harness!NothingWaitsAfterRuns
    /\ patience = "patient" => Alone /\ WritesPlaced

LEMMA RunOKGrows ==
    ASSUME NEW m, NEW size \in Nat, NEW more \in Nat, size <= more, NEW n, NEW k, k = 0 => n = 0, RunOK(m, size, n)
    PROVE  RunOK(m, more, k)
  BY DEF RunOK, RunType

LEMMA OtherTypesStay ==
    ASSUME OtherTypes, Len(entries) \in Nat, Len(entries') \in Nat, Len(entries) <= Len(entries'),
           UNCHANGED <<queued, writes, operations, operation, idleWrite>>
    PROVE  OtherTypes'
  BY DEF OtherTypes

LEMMA ItemInHand ==
    ASSUME NEW m \in RunType, Recording(m)
    PROVE  1 \in DOMAIN Hand(m) /\ Hand(m)[1] = m.item
<1>1. PICK s, t : t = m.todo /\ s = <<m.item>>
  BY Zenon
<1>2. s \in Seq(Msg) /\ t \in Seq(Msg) /\ Len(s) = 1 /\ s[1] = m.item
  BY <1>1 DEF RunType
<1>3. 1 \in DOMAIN (s \o t) /\ (s \o t)[1] = s[1]
  BY <1>2, ConcatElements
<1>4. Hand(m) = s \o t
  BY Zenon, <1>1 DEF Hand
<1> QED
  BY <1>2, <1>3, <1>4

---------------------------------------------------------------------------
(* The steps of runs.                                                      *)

LEMMA SessionMoves ==
    ASSUME HarnessTypes, NEW r \in Harness!Run, NEW m, Moved(r, m)
    PROVE  /\ SessionOK(entries, leaf)' /\ Waits(pendingSessionWrites, "write")'
           /\ Len(entries) \in Nat /\ Len(entries') \in Nat /\ Len(entries) <= Len(entries')
           /\ pendingSessionWrites = <<>> => pendingSessionWrites' = <<>>
<1>1. Len(entries) \in Nat
  BY DEF HarnessTypes, SessionOK, Tree
<1>2. CASE UNCHANGED <<entries, leaf, pendingSessionWrites>>
  BY <1>1, <1>2 DEF HarnessTypes, SessionOK, Waits
<1>3. CASE Persists(run[r])
  <2>1. /\ run[r].pc = "append" /\ Harness!Persist(run[r].item, run[r].parent, 0)
        /\ pendingSessionWrites' = IF run[r].flushing THEN Harness!Shifted(pendingSessionWrites, TRUE)
                                   ELSE pendingSessionWrites
    BY Zenon, <1>3 DEF Persists
  <2>2. Leaves(run[r])
    BY <2>1, AppendedLeaves
  <2>3. Len(entries') = Len(entries) + 1
    <3>1. PICK e : e = Harness!Entry(run[r].item, run[r].parent, 0)
      BY Zenon
    <3>2. entries' = Append(entries, e)
      BY Zenon, <2>1, <3>1 DEF Harness!Persist
    <3>3. e \in EntryType /\ entries \in Seq(EntryType)
      BY <3>1 DEF HarnessTypes, SessionOK, Tree, RunType, Harness!Entry, EntryType
    <3> QED
      BY <3>2, <3>3, AppendElements
  <2>4. pendingSessionWrites = <<>> => pendingSessionWrites' = <<>>
    BY <2>1 DEF Harness!Shifted
  <2> QED
    BY <1>1, <2>2, <2>3, <2>4 DEF Leaves
<1> QED
  BY <1>2, <1>3 DEF Moved

LEMMA TypesMove ==
    ASSUME HarnessTypes, OtherTypes, NEW r \in Harness!Run, NEW m, Moved(r, m)
    PROVE  HarnessTypes' /\ OtherTypes'
<1>1. /\ SessionOK(entries, leaf)' /\ Waits(pendingSessionWrites, "write")'
      /\ Len(entries) \in Nat /\ Len(entries') \in Nat /\ Len(entries) <= Len(entries')
  BY SessionMoves
<1>2. /\ run' = [run EXCEPT ![r] = m] /\ RunOK(m, Len(entries'), throws') /\ throws' \in Nat
      /\ (throws' = 0 => throws = 0) /\ Queues' /\ Elsewhere
  BY DEF Moved
<1>3. run \in [Harness!Run -> RunType] /\ m \in RunType
  BY <1>2 DEF HarnessTypes, RunOK
<1>4. run' \in [Harness!Run -> RunType]
  BY <1>2, <1>3
<1>5. ASSUME NEW s \in Harness!Run PROVE RunOK(run'[s], Len(entries'), throws')
  <2>1. RunOK(run[s], Len(entries), throws)
    BY DEF HarnessTypes
  <2>2. CASE s = r
    BY <1>2, <1>3, <2>2
  <2>3. CASE s # r
    <3>1. run'[s] = run[s]
      BY <1>2, <1>3, <2>3
    <3>2. RunOK(run[s], Len(entries'), throws')
      BY <1>1, <1>2, <2>1, RunOKGrows
    <3> QED
      BY <3>1, <3>2
  <2> QED
    BY <2>2, <2>3
<1>6. HarnessTypes'
  BY <1>1, <1>2, <1>4, <1>5 DEF HarnessTypes, Queues
<1>7. OtherTypes'
  BY <1>1, <1>2, OtherTypesStay DEF Elsewhere
<1> QED
  BY <1>6, <1>7

\* A write that is flushed goes from those that wait to the session.
LEMMA KeptMoves ==
    ASSUME HarnessTypes, NEW r \in Harness!Run, NEW m, Moved(r, m),
           SyncOK(run[r], entries, leaf, pendingSessionWrites), NEW x \in Msg, x[1] = "write"
    PROVE  Kept(x)' = Kept(x) /\ Kept(x) \in Nat
<1>0. pendingSessionWrites \in Seq(Msg) /\ Harness!Times(x, pendingSessionWrites) \in Nat /\ Harness!Recorded(x) \in Nat
  BY CountTyped, TimesTyped DEF HarnessTypes, Waits
<1>1. CASE UNCHANGED <<entries, leaf, pendingSessionWrites>>
  BY <1>0, <1>1 DEF Kept, Harness!Recorded
<1>2. CASE Persists(run[r])
  <2>1. /\ run[r].pc = "append" /\ Harness!Persist(run[r].item, run[r].parent, 0)
        /\ pendingSessionWrites' = IF run[r].flushing THEN Harness!Shifted(pendingSessionWrites, TRUE)
                                   ELSE pendingSessionWrites
    BY Zenon, <1>2 DEF Persists
  <2>2. \A y : Harness!Recorded(y)' = Harness!Recorded(y) + (IF run[r].item = y THEN 1 ELSE 0)
    BY <2>1, AppendedLeaves
  <2>3. run[r] \in RunType /\ RunOK(run[r], Len(entries), throws)
    BY DEF HarnessTypes
  <2>4. Kept(x)' = Harness!Recorded(x)' + Harness!Times(x, pendingSessionWrites')
    BY DEF Kept
  <2>5. CASE Flushing(run[r])
    <3>1. pendingSessionWrites # <<>> /\ Head(pendingSessionWrites) = run[r].item
      BY <2>5 DEF SyncOK
    <3>2. pendingSessionWrites' = Tail(pendingSessionWrites)
      BY <2>1, <2>5, <3>1 DEF Flushing, Harness!Shifted
    <3>3. Harness!Times(x, pendingSessionWrites) =
             Harness!Times(x, Tail(pendingSessionWrites)) + (IF Head(pendingSessionWrites) = x THEN 1 ELSE 0)
      BY <1>0, <3>1, TimesOfTail
    <3>4. Harness!Times(x, Tail(pendingSessionWrites)) \in Nat
      <4>1. Tail(pendingSessionWrites) \in Seq(Msg)
        BY <1>0, <3>1
      <4> QED
        BY <4>1, TimesTyped
    <3>5. Harness!Times(x, pendingSessionWrites') = Harness!Times(x, Tail(pendingSessionWrites))
      BY Zenon, <3>2
    <3> DEFINE i == IF run[r].item = x THEN 1 ELSE 0
    <3>6. i \in Nat /\ Harness!Recorded(x)' = Harness!Recorded(x) + i
          /\ Harness!Times(x, pendingSessionWrites) = Harness!Times(x, Tail(pendingSessionWrites)) + i
      BY <2>2, <3>1, <3>3
    <3> HIDE DEF i
    <3> QED
      BY <1>0, <2>4, <3>4, <3>5, <3>6 DEF Kept
  <2>6. CASE ~Flushing(run[r])
    <3>1. Recording(run[r]) /\ pendingSessionWrites' = pendingSessionWrites
      BY <2>1, <2>3, <2>6 DEF Flushing, Recording, RunType
    <3>2. run[r].item[1] \in Said
      BY <2>3, <3>1, ItemInHand DEF RunOK, HandOK
    <3>3. run[r].item # x
      BY <3>2 DEF Said, QueueKinds
    <3>4. Harness!Recorded(x)' = Harness!Recorded(x)
      BY <1>0, <2>2, <3>3
    <3>5. Harness!Times(x, pendingSessionWrites') = Harness!Times(x, pendingSessionWrites)
      BY Zenon, <3>1
    <3> QED
      BY <1>0, <2>4, <3>4, <3>5 DEF Kept
  <2> QED
    BY <2>5, <2>6
<1> QED
  BY <1>1, <1>2 DEF Moved

LEMMA IdleSyncs ==
    ASSUME NEW m, m.pc \in {"none", "done", "ended"}, NEW es, NEW at, NEW waits
    PROVE  SyncOK(m, es, at, waits)
  BY DEF SyncOK, Recording, Flushing

LEMMA AloneMoves ==
    ASSUME HarnessTypes, Alone, patience = "patient", NEW r \in Harness!Run, NEW m, Moved(r, m)
    PROVE  Alone'
<1>1. /\ run' = [run EXCEPT ![r] = m] /\ run \in [Harness!Run -> RunType] /\ Elsewhere
      /\ run[r].pc \notin {"none", "done"} /\ m.pc \notin {"none", "begin"}
      /\ (m.pc # "done" => runAbortController' = IF run[r].pc = "begin" THEN r ELSE runAbortController)
      /\ (run[r].pc = "ended" => idleWrite.item = Harness!Nothing)
      /\ SyncOK(run[r], entries, leaf, pendingSessionWrites)
  BY DEF Moved, HarnessTypes, Alone
<1>2. run'[r] = m /\ \A s \in Harness!Run \ {r} : run'[s] = run[s]
  BY <1>1
<1>3. Harness!Active(r) /\ \A s \in Harness!Run \ {r} : run[s].pc \in {"none", "done"}
  BY <1>1 DEF Harness!Active, Alone
<1>4. ASSUME NEW s \in Harness!Run PROVE SyncOK(run'[s], entries', leaf', pendingSessionWrites')
  <2>1. CASE s = r
    BY <1>1, <1>2, <2>1 DEF Moved
  <2>2. CASE s # r
    BY <1>2, <1>3, <2>2, IdleSyncs
  <2> QED
    BY <2>1, <2>2
<1>5. ASSUME NEW s \in Harness!Run, s # r PROVE run'[s].pc \in {"none", "done"}
  BY <1>2, <1>3, <1>5
<1>6. operation'[1] = "none"
  BY <1>1, <1>3 DEF Alone, Elsewhere
<1>7. idleWrite'.item = Harness!Nothing
  <2>1. SUFFICES ASSUME idleWrite.item # Harness!Nothing PROVE FALSE
    BY <1>1 DEF Elsewhere
  <2>2. run[r].pc = "ended"
    BY <1>3, <2>1 DEF Alone
  <2> QED
    BY <1>1, <2>1, <2>2
<1>8. m.pc # "done" => runAbortController' = r
  BY <1>1, <1>3 DEF Alone
<1>9. abortAsked' \subseteq aborted'
  BY <1>1 DEF Alone, Elsewhere
<1>10. \A s \in Harness!Run : run'[s].pc \notin {"none", "done"} => s = r
  BY <1>5
<1> QED
  BY <1>2, <1>4, <1>6, <1>7, <1>8, <1>9, <1>10 DEF Alone, Harness!Active

LEMMA WriteTyped ==
    ASSUME NEW n \in Nat
    PROVE  WriteOf(n) \in Msg /\ WriteOf(n)[1] = "write" /\ WriteOf(n)[3] = n /\ WriteOf(n) # Harness!Nothing
<1>1. "write" \in Harness!Kinds
  BY DEF Harness!Kinds
<1> QED
  BY <1>1 DEF WriteOf, Harness!Message, Harness!Nothing, Msg

LEMMA WritesStayPlaced ==
    ASSUME HarnessTypes, Alone, WritesPlaced, NEW r \in Harness!Run, NEW m, Moved(r, m)
    PROVE  WritesPlaced'
<1>1. SUFFICES ASSUME NEW n \in 1 .. MaxWrites PROVE WritePlaced(n)'
  BY DEF WritesPlaced
<1>2. UNCHANGED <<writes, returned, idleWrite>>
  BY DEF Moved, Elsewhere
<1>3. WriteOf(n) \in Msg /\ WriteOf(n)[1] = "write"
  BY CountsAssumption, WriteTyped
<1>4. Kept(WriteOf(n))' = Kept(WriteOf(n))
  <2>1. SyncOK(run[r], entries, leaf, pendingSessionWrites)
    BY DEF Alone
  <2>2. PICK x : x = WriteOf(n)
    BY Zenon
  <2>3. Kept(x)' = Kept(x)
    BY <1>3, <2>1, <2>2, KeptMoves
  <2> QED
    BY Zenon, <2>2, <2>3 DEF WriteOf, Harness!Message
<1> QED
  BY <1>2, <1>4 DEF WritesPlaced, WritePlaced

LEMMA CountTypedThen ==
    ASSUME HarnessTypes', NEW x
    PROVE  Count(x)' \in Nat
<1>1. /\ entries' \in Seq(EntryType) /\ steerQueue' \in Seq(Msg) /\ followUpQueue' \in Seq(Msg)
      /\ nextTurnQueue' \in Seq(Msg)
  BY DEF HarnessTypes, SessionOK, Tree, Waits
<1>2. ItemsOf(entries') \in Seq(Msg) /\ Harness!Recorded(x)' = Harness!Times(x, ItemsOf(entries'))
  BY <1>1, ItemsTyped, RecordedThen
<1>3. /\ Harness!Recorded(x)' \in Nat /\ Harness!Times(x, steerQueue') \in Nat
      /\ Harness!Times(x, followUpQueue') \in Nat /\ Harness!Times(x, nextTurnQueue') \in Nat
  BY <1>1, <1>2, TimesTyped
<1> QED
  BY <1>3 DEF Count

LEMMA QueuedTyped ==
    ASSUME NEW kind \in QueueKinds, NEW n \in Nat
    PROVE  /\ Harness!Message(kind, 0, n) \in Msg /\ Harness!Message(kind, 0, n)[1] = kind
           /\ Harness!Message(kind, 0, n)[3] = n
<1>1. kind \in Harness!Kinds
  BY DEF Harness!Kinds, Harness!UserKinds, QueueKinds
<1> QED
  BY <1>1 DEF Harness!Message, Msg

\* What stays in nobody's hand.
LEMMA UnusedMoves ==
    ASSUME HarnessTypes, OtherTypes, NEW r \in Harness!Run, NEW m, Moved(r, m), NEW x \in Msg, x[1] \in QueueKinds
    PROVE  (Unused(x) => Unused(x)') /\ (Placed(x) => Placed(x)')
<1>1. /\ run' = [run EXCEPT ![r] = m] /\ run \in [Harness!Run -> RunType] /\ Elsewhere /\ RunOK(m, Len(entries'), throws')
      /\ (run[r].failing => m.failing /\ run[r].taken \subseteq m.taken) /\ Flows(x, m, run[r])
  BY DEF Moved, HarnessTypes
<1>2. run'[r] = m /\ \A s \in Harness!Run \ {r} : run'[s] = run[s]
  BY <1>1
<1>3. PICK h, k : h = Held(x, m) /\ k = Held(x, run[r])
  BY Zenon
<1>4. PICK gone \in Nat : /\ Count(x)' + h + gone = Count(x) + k
                          /\ gone # 0 => m.failing /\ x \in m.taken
  BY Zenon, <1>1, <1>3 DEF Flows
<1>5. h \in Nat /\ k \in Nat /\ Count(x) \in Nat
  <2>1. m \in RunType /\ run[r] \in RunType
    BY <1>1 DEF RunOK
  <2> QED
    BY <1>3, <2>1, HandTyped, CountTyped
<1>6. Count(x)' \in Nat
  <2>1. HarnessTypes'
    BY TypesMove
  <2> QED
    BY <2>1, CountTypedThen
<1>7. returned' = returned
  BY <1>1 DEF Elsewhere
<1>8. Held(x, run'[r]) = h /\ \A s \in Harness!Run \ {r} : Held(x, run'[s]) = Held(x, run[s])
  BY <1>2, <1>3
<1>9. InNoHand(x)' <=> h = 0 /\ \A s \in Harness!Run \ {r} : Held(x, run[s]) = 0
  BY <1>8 DEF InNoHand
<1>10. InNoHand(x) <=> k = 0 /\ \A s \in Harness!Run \ {r} : Held(x, run[s]) = 0
  BY <1>3 DEF InNoHand
<1>11. CASE Count(x) + k = 0
  <2>1. Count(x)' = 0 /\ h = 0 /\ Count(x) = 0 /\ k = 0
    BY <1>4, <1>5, <1>6, <1>11
  <2>2. InNoHand(x)' <=> InNoHand(x)
    BY <1>9, <1>10, <2>1
  <2>3. IsLost(x) => IsLost(x)'
    <3>1. SUFFICES ASSUME IsLost(x) PROVE IsLost(x)'
      OBVIOUS
    <3>2. PICK s \in Harness!Run : run[s].failing /\ x \in run[s].taken
      BY <3>1 DEF IsLost
    <3>3. run'[s].failing /\ x \in run'[s].taken
      BY <1>1, <1>2, <3>2
    <3> QED
      BY <2>1, <2>2, <3>1, <3>3 DEF IsLost
  <2>4. (Unused(x) => Unused(x)') /\ (WentBack(x) => WentBack(x)') /\ ~IsKept(x)
    BY <1>7, <2>1, <2>2 DEF Unused, WentBack, IsKept
  <2>5. InHand(x) => InHand(x)'
    <3>1. SUFFICES ASSUME InHand(x) PROVE InHand(x)'
      OBVIOUS
    <3>2. PICK s \in Harness!Run : Held(x, run[s]) = 1 /\ \A t \in Harness!Run \ {s} : Held(x, run[t]) = 0
      BY <3>1 DEF InHand
    <3>3. s # r
      <4>1. SUFFICES ASSUME s = r PROVE FALSE
        OBVIOUS
      <4>2. k = Held(x, run[s])
        BY Zenon, <1>3, <4>1
      <4> QED
        BY <2>1, <3>2, <4>2
    <3>4. Held(x, run'[s]) = 1 /\ \A t \in Harness!Run \ {s} : Held(x, run'[t]) = 0
      BY <1>8, <2>1, <3>2, <3>3
    <3> QED
      BY <1>7, <2>1, <3>1, <3>4 DEF InHand
  <2> QED
    BY <2>3, <2>4, <2>5 DEF Placed
<1>12. CASE Count(x) + k # 0
  <2>1. ~Unused(x) /\ ~WentBack(x) /\ ~IsLost(x)
    BY <1>5, <1>10, <1>12 DEF Unused, WentBack, IsLost
  <2>2. ASSUME IsKept(x) \/ InHand(x) PROVE Placed(x)'
    <3>1. Count(x) + k = 1 /\ \A s \in Harness!Run \ {r} : Held(x, run[s]) = 0
      <4>1. CASE IsKept(x)
        BY <1>5, <1>10, <4>1 DEF IsKept
      <4>2. CASE InHand(x)
        <5>1. PICK s \in Harness!Run : Held(x, run[s]) = 1 /\ \A t \in Harness!Run \ {s} : Held(x, run[t]) = 0
          BY <4>2 DEF InHand
        <5>2. s = r
          BY <1>3, <1>12, <4>2, <5>1 DEF InHand
        <5> QED
          BY <1>3, <4>2, <5>1, <5>2 DEF InHand
      <4> QED
        BY <2>2, <4>1, <4>2
    <3>2. \/ Count(x)' = 1 /\ h = 0 /\ gone = 0
          \/ Count(x)' = 0 /\ h = 1 /\ gone = 0
          \/ Count(x)' = 0 /\ h = 0 /\ gone = 1
      BY <1>4, <1>5, <1>6, <3>1
    <3>3. CASE Count(x)' = 1 /\ h = 0
      <4>1. x \notin returned
        BY <2>2 DEF IsKept, InHand
      <4>2. InNoHand(x)'
        BY <1>9, <3>1, <3>3
      <4>3. IsKept(x)'
        BY <1>7, <3>3, <4>1, <4>2 DEF IsKept
      <4> QED
        BY <4>3 DEF Placed
    <3>4. CASE Count(x)' = 0 /\ h = 1
      <4>1. Held(x, run'[r]) = 1 /\ \A s \in Harness!Run \ {r} : Held(x, run'[s]) = 0
        BY <1>8, <3>1, <3>4
      <4>2. InHand(x)'
        BY <1>7, <2>2, <3>4, <4>1 DEF IsKept, InHand
      <4> QED
        BY <4>2 DEF Placed
    <3>5. CASE Count(x)' = 0 /\ h = 0 /\ gone = 1
      <4>1. run'[r].failing /\ x \in run'[r].taken
        BY <1>2, <1>4, <3>5
      <4>2. InNoHand(x)'
        BY <1>9, <3>1, <3>5
      <4>3. IsLost(x)'
        BY <3>5, <4>1, <4>2 DEF IsLost
      <4> QED
        BY <4>3 DEF Placed
    <3> QED
      BY <3>2, <3>3, <3>4, <3>5
  <2> QED
    BY <2>1, <2>2 DEF Placed
<1> QED
  BY <1>11, <1>12

LEMMA RunStepKeeps ==
    ASSUME HarnessInv, NEW r \in Harness!Run, Harness!RunStep(r)
    PROVE  HarnessInv'
<1>1. PICK m : Moved(r, m)
  BY RunStepMoves DEF HarnessInv
<1>2. HarnessTypes' /\ OtherTypes'
  BY <1>1, TypesMove DEF HarnessInv
<1>3. QueuedPlaced'
  <2>1. SUFFICES ASSUME NEW n \in 1 .. MaxQueued
                 PROVE  /\ n > queued' => \A kind \in QueueKinds : Unused(Harness!Message(kind, 0, n))'
                        /\ n <= queued' => \E kind \in QueueKinds : Placed(Harness!Message(kind, 0, n))'
    BY DEF QueuedPlaced
  <2>2. \A kind \in QueueKinds : /\ Harness!Message(kind, 0, n) \in Msg
                                 /\ Harness!Message(kind, 0, n)[1] \in QueueKinds
    BY CountsAssumption, QueuedTyped
  <2>3. \A kind \in QueueKinds :
           /\ Unused(Harness!Message(kind, 0, n)) => Unused(Harness!Message(kind, 0, n))'
           /\ Placed(Harness!Message(kind, 0, n)) => Placed(Harness!Message(kind, 0, n))'
    <3> SUFFICES ASSUME NEW kind \in QueueKinds
                 PROVE  /\ Unused(Harness!Message(kind, 0, n)) => Unused(Harness!Message(kind, 0, n))'
                        /\ Placed(Harness!Message(kind, 0, n)) => Placed(Harness!Message(kind, 0, n))'
      OBVIOUS
    <3>1. PICK x : x = Harness!Message(kind, 0, n)
      BY Zenon
    <3>2. x \in Msg /\ x[1] \in QueueKinds
      BY <2>2, <3>1
    <3>3. (Unused(x) => Unused(x)') /\ (Placed(x) => Placed(x)')
      BY <1>1, <3>2, UnusedMoves DEF HarnessInv
    <3> QED
      BY Zenon, <3>1, <3>3 DEF Harness!Message
  <2>4. queued' = queued
    BY <1>1 DEF Moved, Elsewhere
  <2> QED
    BY <2>3, <2>4 DEF HarnessInv, QueuedPlaced
<1>4. Harness!NothingWaitsAfterRuns'
  <2>1. /\ throws' = 0 => throws = 0
        /\ operations' = operations
        /\ (UNCHANGED phase) \/ (phase' = "idle" /\ (pendingSessionWrites' = <<>> \/ throws' # 0))
    BY <1>1 DEF Moved, Elsewhere, OldWritesGone
  <2>2. pendingSessionWrites = <<>> => pendingSessionWrites' = <<>>
    BY <1>1, SessionMoves DEF HarnessInv
  <2> QED
    BY <2>1, <2>2 DEF HarnessInv, Harness!NothingWaitsAfterRuns, Harness!NothingWaits
<1>5. patience' = patience
  BY <1>1 DEF Moved, Elsewhere
<1>6. patience = "patient" => Alone' /\ WritesPlaced'
  BY <1>1, AloneMoves, WritesStayPlaced DEF HarnessInv
<1> QED
  BY <1>2, <1>3, <1>4, <1>5, <1>6 DEF HarnessInv

---------------------------------------------------------------------------
(* What listeners, hooks and callers do.                                   *)

\* A step that leaves messages and runs as they are.
LEMMA QueuedStay ==
    ASSUME QueuedPlaced, UNCHANGED <<entries, steerQueue, followUpQueue, nextTurnQueue, run, returned, queued>>
    PROVE  QueuedPlaced'
<1>1. ASSUME NEW x PROVE (Unused(x) => Unused(x)') /\ (Placed(x) => Placed(x)')
  <2>1. Count(x)' = Count(x)
    BY DEF Count, Harness!Recorded
  <2>2. InNoHand(x)' <=> InNoHand(x)
    BY DEF InNoHand
  <2>3. InHand(x)' <=> InHand(x)
    BY <2>1 DEF InHand
  <2>4. IsLost(x)' <=> IsLost(x)
    BY <2>1, <2>2 DEF IsLost
  <2> QED
    BY <2>1, <2>2, <2>3, <2>4 DEF Unused, Placed, IsKept, WentBack
<1> QED
  BY Zenon, <1>1 DEF QueuedPlaced, Harness!Message

LEMMA WritesStay ==
    ASSUME WritesPlaced, UNCHANGED <<entries, pendingSessionWrites, returned, idleWrite, writes>>
    PROVE  WritesPlaced'
  BY Zenon DEF WritesPlaced, WritePlaced, Kept, WriteOf, Harness!Recorded

LEMMA PromptKeeps ==
    ASSUME HarnessInv, NEW r \in Harness!Run, Harness!Prompt(r)
    PROVE  HarnessInv'
<1>1. /\ UNCHANGED <<entries, leaf, pendingSessionWrites, steerQueue, followUpQueue, nextTurnQueue, queued, operation,
                     idleWrite, aborted, abortAsked, returned, patience, writes, operations, throws, runAbortController>>
      /\ run[r].pc = "none" /\ phase' = "turn" /\ phase = "idle"
      /\ patience = "patient" => (\A s \in Harness!Run : ~Harness!Active(s)) /\ idleWrite.item = Harness!Nothing
  BY DEF Harness!Prompt, Harness!sessionVars, Harness!queueVars, Harness!callerVars
<1>2. PICK c : c = MessagesIn(entries, leaf)
  BY Zenon
<1>3. PICK m : m = [Harness!NoRun EXCEPT !.pc = "begin", !.context = c]
  BY Zenon
<1>4. run' = [run EXCEPT ![r] = m]
  BY Zenon, <1>2, <1>3, MessagesNow DEF Harness!Prompt
<1>5. /\ HarnessTypes /\ run \in [Harness!Run -> RunType] /\ c \in Seq(Msg)
      /\ Len(entries) \in Nat /\ leaf \in 0 .. Len(entries) /\ throws \in Nat
  BY <1>2, MessagesTyped DEF HarnessInv, HarnessTypes, SessionOK, Tree
<1>6. /\ m \in RunType /\ m.pc = "begin" /\ m.context = c /\ m.failing = FALSE /\ m.late = FALSE /\ m.next = "none"
  <2>1. PICK n, none : n = 0 /\ none = Harness!Nothing
    BY Zenon
  <2>2. Harness!NoRun = [pc |-> "none", next |-> "none", context |-> <<>>, todo |-> <<>>, item |-> none, parent |-> n,
                         flushing |-> FALSE, reply |-> "none", replies |-> n, failing |-> FALSE, late |-> FALSE,
                         taken |-> {}]
    BY Zenon, <2>1 DEF Harness!NoRun
  <2>3. none \in Msg /\ n \in Nat /\ <<>> \in Seq(Msg) /\ {} \in SUBSET Msg /\ "none" \in Word /\ "begin" \in Word
    BY <2>1, MessageTyped, Words
  <2> QED
    BY <1>3, <1>5, <2>2, <2>3 DEF RunType
<1>7. Hand(m) = <<>> /\ ~Recording(m) /\ ~Flushing(m) /\ \A x : Held(x, m) = 0
  BY <1>6, NoneHeld DEF Recording, Flushing
<1>8. RunOK(m, Len(entries), throws) /\ SyncOK(m, entries, leaf, pendingSessionWrites)
  BY <1>2, <1>6, <1>7 DEF RunOK, HandOK, SyncOK
<1>9. run'[r] = m /\ (\A s \in Harness!Run \ {r} : run'[s] = run[s]) /\ run' \in [Harness!Run -> RunType]
  BY <1>4, <1>5, <1>6
<1>10. HarnessTypes'
  <2>1. \A s \in Harness!Run : RunOK(run'[s], Len(entries), throws)
    BY <1>5, <1>8, <1>9 DEF HarnessTypes
  <2> QED
    BY <1>1, <1>5, <1>9, <2>1 DEF HarnessTypes, SessionOK, Waits
<1>11. OtherTypes'
  BY <1>1, <1>5, OtherTypesStay DEF HarnessInv
<1>12. QueuedPlaced'
  <2>1. ASSUME NEW x PROVE \A s \in Harness!Run : Held(x, run'[s]) = Held(x, run[s])
    <3>1. Held(x, run[r]) = 0 /\ Held(x, run'[r]) = 0
      BY <1>1, <1>7, <1>9, NoneHeld
    <3>2. \A s \in Harness!Run \ {r} : Held(x, run'[s]) = Held(x, run[s])
      BY Zenon, <1>9
    <3> QED
      BY <3>1, <3>2
  <2>2. \A s \in Harness!Run : run[s].failing => run'[s].failing /\ run'[s].taken = run[s].taken
    BY <1>1, <1>5, <1>9 DEF HarnessTypes, RunOK
  <2>3. ASSUME NEW x PROVE /\ Count(x)' = Count(x) /\ (InNoHand(x)' <=> InNoHand(x))
                           /\ (InHand(x) => InHand(x)') /\ (IsLost(x) => IsLost(x)')
    <3>1. Count(x)' = Count(x)
      BY <1>1 DEF Count, Harness!Recorded
    <3>2. InNoHand(x)' <=> InNoHand(x)
      BY <2>1 DEF InNoHand
    <3>3. InHand(x) => InHand(x)'
      BY <1>1, <2>1, <3>1 DEF InHand
    <3>4. IsLost(x) => IsLost(x)'
      BY <2>2, <3>1, <3>2 DEF IsLost
    <3> QED
      BY <3>1, <3>2, <3>3, <3>4
  <2>4. ASSUME NEW x PROVE (Unused(x) => Unused(x)') /\ (Placed(x) => Placed(x)')
    BY <1>1, <2>3 DEF Unused, Placed, IsKept, WentBack
  <2> QED
    BY Zenon, <1>1, <2>4 DEF HarnessInv, QueuedPlaced, Harness!Message
<1>13. Harness!NothingWaitsAfterRuns'
  BY <1>1 DEF Harness!NothingWaitsAfterRuns, Harness!NothingWaits
<1>14. ASSUME patience = "patient" PROVE Alone' /\ WritesPlaced'
  <2>1. Alone /\ WritesPlaced
    BY <1>14 DEF HarnessInv
  <2>2. \A s \in Harness!Run : s # r => run[s].pc \in {"none", "done"}
    BY <1>1, <1>14 DEF Harness!Active
  <2>3. ASSUME NEW s \in Harness!Run PROVE SyncOK(run'[s], entries, leaf, pendingSessionWrites)
    BY <1>8, <1>9, <2>1 DEF Alone
  <2>4. operation[1] = "none"
    BY <1>1, <2>1 DEF Alone
  <2>5. \A s \in Harness!Run : run'[s].pc \notin {"none", "done"} => s = r
    BY <1>9, <2>2
  <2>6. Alone'
    BY <1>1, <1>6, <1>9, <1>14, <2>1, <2>3, <2>4, <2>5 DEF Alone, Harness!Active
  <2>7. WritesPlaced'
    BY <1>1, <2>1, WritesStay
  <2> QED
    BY <2>6, <2>7
<1> QED
  BY <1>1, <1>10, <1>11, <1>12, <1>13, <1>14 DEF HarnessInv

LEMMA AppendWaits ==
    ASSUME NEW kind, NEW q, Waits(q, kind), NEW e \in Msg, e[1] = kind
    PROVE  /\ Waits(Append(q, e), kind)
           /\ \A x : Harness!Times(x, Append(q, e)) = Harness!Times(x, q) + (IF e = x THEN 1 ELSE 0)
<1>1. q \in Seq(Msg) /\ Len(q) \in Nat /\ \A i \in 1 .. Len(q) : q[i][1] = kind
  BY DEF Waits
<1>2. /\ Append(q, e) \in Seq(Msg) /\ Len(Append(q, e)) = Len(q) + 1 /\ Append(q, e)[Len(q) + 1] = e
      /\ \A i \in 1 .. Len(q) : Append(q, e)[i] = q[i]
  BY <1>1, AppendElements
<1>3. DOMAIN Append(q, e) = 1 .. Len(q) + 1
  BY <1>2
<1>4. \A i \in DOMAIN Append(q, e) : Append(q, e)[i][1] = kind
  BY <1>1, <1>2, <1>3
<1>5. \A x : Harness!Times(x, Append(q, e)) = Harness!Times(x, q) + (IF e = x THEN 1 ELSE 0)
  BY <1>1, TimesOfAppend
<1> QED
  BY <1>2, <1>4, <1>5 DEF Waits

LEMMA WriteKeeps ==
    ASSUME HarnessInv, Harness!Write
    PROVE  HarnessInv'
<1>0. PICK item : item = WriteOf(writes + 1)
  BY Zenon
<1>1. /\ writes < MaxWrites /\ writes' = writes + 1
      /\ UNCHANGED <<entries, leaf, phase, runAbortController, steerQueue, followUpQueue, nextTurnQueue, queued, run,
                     operation, aborted, abortAsked, returned, patience, operations, throws>>
      /\ \/ /\ phase # "idle" /\ pendingSessionWrites' = Append(pendingSessionWrites, item) /\ UNCHANGED idleWrite
         \/ /\ phase = "idle" /\ idleWrite.item = Harness!Nothing /\ UNCHANGED pendingSessionWrites
            /\ patience = "patient" => \A r \in Harness!Run : Harness!Active(r) => run[r].pc = "ended"
            /\ idleWrite' = [item |-> item, parent |-> leaf]
  BY <1>0 DEF Harness!Write, Harness!sessionVars, Harness!queueVars, WriteOf
<1>2. /\ writes \in Nat /\ Len(entries) \in Nat /\ leaf \in 0 .. Len(entries) /\ HarnessTypes /\ OtherTypes
  BY CountsAssumption DEF HarnessInv, HarnessTypes, SessionOK, Tree, OtherTypes
<1>3. item \in Msg /\ item[1] = "write" /\ item[3] = writes + 1 /\ item # Harness!Nothing
  BY <1>0, <1>2, WriteTyped
<1>4. Waits(pendingSessionWrites', "write")
  <2>1. Waits(pendingSessionWrites, "write")
    BY <1>2 DEF HarnessTypes
  <2>2. Waits(Append(pendingSessionWrites, item), "write")
    BY <1>3, <2>1, AppendWaits
  <2> QED
    BY <1>1, <2>1, <2>2
<1>5. HarnessTypes'
  BY <1>1, <1>2, <1>4 DEF HarnessTypes, SessionOK, Waits
<1>6. OtherTypes'
  BY <1>1, <1>2, <1>3, CountsAssumption DEF OtherTypes
<1>7. QueuedPlaced'
  BY <1>1, QueuedStay DEF HarnessInv
<1>8. Harness!NothingWaitsAfterRuns'
  BY <1>1 DEF HarnessInv, Harness!NothingWaitsAfterRuns, Harness!NothingWaits
<1>9. ASSUME patience = "patient" PROVE Alone' /\ WritesPlaced'
  <2>1. Alone /\ WritesPlaced
    BY <1>9 DEF HarnessInv
  <2>2. ASSUME NEW r \in Harness!Run PROVE SyncOK(run[r], entries, leaf, pendingSessionWrites')
    <3>1. SyncOK(run[r], entries, leaf, pendingSessionWrites)
      BY <2>1 DEF Alone
    <3>2. pendingSessionWrites # <<>> => pendingSessionWrites' # <<>> /\ Head(pendingSessionWrites') = Head(pendingSessionWrites)
      <4>1. pendingSessionWrites \in Seq(Msg)
        BY <1>2 DEF HarnessTypes, Waits
      <4> QED
        BY <1>1, <1>3, <4>1
    <3> QED
      BY <3>1, <3>2 DEF SyncOK
  <2>3. Alone'
    BY <1>1, <1>9, <2>1, <2>2 DEF Alone, Harness!Active
  <2>4. ASSUME NEW n \in 1 .. MaxWrites PROVE WritePlaced(n)'
    <3>1. PICK w : w = WriteOf(n)
      BY Zenon
    <3>2. w \in Msg /\ w[1] = "write" /\ w[3] = n /\ w # Harness!Nothing /\ n \in Nat
      BY <3>1, CountsAssumption, WriteTyped
    <3>3. item = w <=> n = writes + 1
      <4>1. n = writes + 1 => item = w
        BY Zenon, <1>0, <3>1
      <4> QED
        BY <1>3, <3>2, <4>1
    <3>4. /\ n > writes => Kept(w) = 0 /\ w \notin returned /\ w # idleWrite.item
          /\ w = idleWrite.item => Kept(w) = 0
          /\ n <= writes /\ w # idleWrite.item /\ w \notin returned => Kept(w) = 1
      BY Zenon, <2>1, <3>1 DEF WritesPlaced, WritePlaced
    <3>5. Harness!Recorded(w) \in Nat /\ Harness!Times(w, pendingSessionWrites) \in Nat
      BY <1>2, CountTyped, TimesTyped DEF HarnessTypes, Waits
    <3>6. Kept(w)' = Harness!Recorded(w) + Harness!Times(w, pendingSessionWrites')
      BY <1>1 DEF Kept, Harness!Recorded
    <3>7. /\ n > writes' => Kept(w)' = 0 /\ w \notin returned' /\ w # idleWrite'.item
          /\ w = idleWrite'.item => Kept(w)' = 0
          /\ n <= writes' /\ w # idleWrite'.item /\ w \notin returned' => Kept(w)' = 1
      <4>1. CASE pendingSessionWrites' = Append(pendingSessionWrites, item) /\ UNCHANGED idleWrite
        <5>1. Waits(pendingSessionWrites, "write")
          BY <1>2 DEF HarnessTypes
        <5>2. Harness!Times(w, pendingSessionWrites') = Harness!Times(w, pendingSessionWrites) + (IF item = w THEN 1 ELSE 0)
          <6>1. Harness!Times(w, Append(pendingSessionWrites, item)) =
                   Harness!Times(w, pendingSessionWrites) + (IF item = w THEN 1 ELSE 0)
            BY <1>3, <5>1, AppendWaits
          <6> QED
            BY Zenon, <4>1, <6>1
        <5>3. Kept(w)' = Kept(w) + (IF n = writes + 1 THEN 1 ELSE 0) /\ Kept(w) \in Nat
          BY <3>3, <3>5, <3>6, <5>2 DEF Kept
        <5> QED
          BY <1>1, <1>2, <3>2, <3>4, <4>1, <5>3
      <4>2. CASE idleWrite.item = Harness!Nothing /\ UNCHANGED pendingSessionWrites /\ idleWrite' = [item |-> item, parent |-> leaf]
        <5>1. Kept(w)' = Kept(w)
          BY <3>6, <4>2 DEF Kept
        <5>2. idleWrite'.item = item
          BY <4>2
        <5> QED
          BY <1>1, <1>2, <3>2, <3>3, <3>4, <4>2, <5>1, <5>2
      <4> QED
        BY <1>1, <4>1, <4>2
    <3> QED
      BY Zenon, <3>1, <3>7 DEF WritePlaced, WriteOf, Harness!Message
  <2> QED
    BY <2>3, <2>4 DEF WritesPlaced
<1> QED
  BY <1>1, <1>5, <1>6, <1>7, <1>8, <1>9 DEF HarnessInv

\* A step that leaves a message where it is, and runs as they are.
LEMMA PlacedStays ==
    ASSUME NEW x, Count(x)' = Count(x), UNCHANGED run, x \in returned' <=> x \in returned
    PROVE  (Unused(x) => Unused(x)') /\ (Placed(x) => Placed(x)')
<1>1. InNoHand(x)' <=> InNoHand(x)
  BY DEF InNoHand
<1>2. InHand(x)' <=> InHand(x)
  BY DEF InHand
<1>3. IsLost(x)' <=> IsLost(x)
  BY <1>1 DEF IsLost
<1> QED
  BY <1>1, <1>2, <1>3 DEF Unused, Placed, IsKept, WentBack

\* Such a step of all messages that were queued.
LEMMA QueuedStayPlaced ==
    ASSUME QueuedPlaced, UNCHANGED <<run, queued>>,
           \A x \in Msg : x[1] \in QueueKinds => Count(x)' = Count(x) /\ (x \in returned' <=> x \in returned)
    PROVE  QueuedPlaced'
<1>1. ASSUME NEW n \in 1 .. MaxQueued, NEW kind \in QueueKinds
      PROVE  /\ Unused(Harness!Message(kind, 0, n)) => Unused(Harness!Message(kind, 0, n))'
             /\ Placed(Harness!Message(kind, 0, n)) => Placed(Harness!Message(kind, 0, n))'
  <2>1. PICK x : x = Harness!Message(kind, 0, n)
    BY Zenon
  <2>2. x \in Msg /\ x[1] \in QueueKinds
    BY <2>1, CountsAssumption, QueuedTyped
  <2>3. (Unused(x) => Unused(x)') /\ (Placed(x) => Placed(x)')
    BY <2>2, PlacedStays
  <2> QED
    BY Zenon, <2>1, <2>3 DEF Harness!Message
<1> QED
  BY Zenon, <1>1 DEF QueuedPlaced

\* A message is put at the end of one of the queues.
LEMMA QueueAppends ==
    ASSUME HarnessTypes, NEW e \in Msg, UNCHANGED entries,
           \/ /\ e[1] = "steer" /\ steerQueue' = Append(steerQueue, e) /\ UNCHANGED <<followUpQueue, nextTurnQueue>>
           \/ /\ e[1] = "followUp" /\ followUpQueue' = Append(followUpQueue, e) /\ UNCHANGED <<steerQueue, nextTurnQueue>>
           \/ /\ e[1] = "nextTurn" /\ nextTurnQueue' = Append(nextTurnQueue, e) /\ UNCHANGED <<steerQueue, followUpQueue>>
    PROVE  Queues' /\ \A x : Count(x)' = Count(x) + (IF e = x THEN 1 ELSE 0)
<1>1. Waits(steerQueue, "steer") /\ Waits(followUpQueue, "followUp") /\ Waits(nextTurnQueue, "nextTurn")
  BY DEF HarnessTypes
<1>2. Waits(steerQueue', "steer") /\ Waits(followUpQueue', "followUp") /\ Waits(nextTurnQueue', "nextTurn")
  BY <1>1, AppendWaits
<1>3. ASSUME NEW x PROVE Count(x)' = Count(x) + (IF e = x THEN 1 ELSE 0)
  <2>1. /\ Harness!Recorded(x) \in Nat /\ Harness!Times(x, steerQueue) \in Nat
        /\ Harness!Times(x, followUpQueue) \in Nat /\ Harness!Times(x, nextTurnQueue) \in Nat
    BY CountTyped
  <2>2. PICK i \in Nat : i = IF e = x THEN 1 ELSE 0
    OBVIOUS
  <2>3. Count(x)' = Harness!Recorded(x) + Harness!Times(x, steerQueue') + Harness!Times(x, followUpQueue')
                    + Harness!Times(x, nextTurnQueue')
    BY DEF Count, Harness!Recorded
  <2>4. /\ e[1] = "steer" => Harness!Times(x, Append(steerQueue, e)) = Harness!Times(x, steerQueue) + i
        /\ e[1] = "followUp" => Harness!Times(x, Append(followUpQueue, e)) = Harness!Times(x, followUpQueue) + i
        /\ e[1] = "nextTurn" => Harness!Times(x, Append(nextTurnQueue, e)) = Harness!Times(x, nextTurnQueue) + i
    BY <1>1, <2>2, AppendWaits
  <2>5. CASE /\ e[1] = "steer" /\ steerQueue' = Append(steerQueue, e) /\ UNCHANGED <<followUpQueue, nextTurnQueue>>
    <3>1. /\ Harness!Times(x, steerQueue') = Harness!Times(x, steerQueue) + i
          /\ Harness!Times(x, followUpQueue') = Harness!Times(x, followUpQueue)
          /\ Harness!Times(x, nextTurnQueue') = Harness!Times(x, nextTurnQueue)
      BY Zenon, <2>4, <2>5
    <3> QED
      BY <2>1, <2>2, <2>3, <3>1 DEF Count
  <2>6. CASE /\ e[1] = "followUp" /\ followUpQueue' = Append(followUpQueue, e) /\ UNCHANGED <<steerQueue, nextTurnQueue>>
    <3>1. /\ Harness!Times(x, followUpQueue') = Harness!Times(x, followUpQueue) + i
          /\ Harness!Times(x, steerQueue') = Harness!Times(x, steerQueue)
          /\ Harness!Times(x, nextTurnQueue') = Harness!Times(x, nextTurnQueue)
      BY Zenon, <2>4, <2>6
    <3> QED
      BY <2>1, <2>2, <2>3, <3>1 DEF Count
  <2>7. CASE /\ e[1] = "nextTurn" /\ nextTurnQueue' = Append(nextTurnQueue, e) /\ UNCHANGED <<steerQueue, followUpQueue>>
    <3>1. /\ Harness!Times(x, nextTurnQueue') = Harness!Times(x, nextTurnQueue) + i
          /\ Harness!Times(x, steerQueue') = Harness!Times(x, steerQueue)
          /\ Harness!Times(x, followUpQueue') = Harness!Times(x, followUpQueue)
      BY Zenon, <2>4, <2>7
    <3> QED
      BY <2>1, <2>2, <2>3, <3>1 DEF Count
  <2> QED
    BY <2>5, <2>6, <2>7
<1> QED
  BY <1>2, <1>3 DEF Queues

LEMMA QueueKeeps ==
    ASSUME HarnessInv, Harness!Queue
    PROVE  HarnessInv'
<1>0. PICK s, f, t : s = Harness!Queued("steer") /\ f = Harness!Queued("followUp") /\ t = Harness!Queued("nextTurn")
  BY Zenon
<1>1. /\ queued < MaxQueued /\ queued' = queued + 1
      /\ UNCHANGED <<entries, leaf, phase, runAbortController, pendingSessionWrites, run, operation, idleWrite, aborted,
                     abortAsked, returned, patience, writes, operations, throws>>
      /\ \/ steerQueue' = Append(steerQueue, s) /\ UNCHANGED <<followUpQueue, nextTurnQueue>>
         \/ followUpQueue' = Append(followUpQueue, f) /\ UNCHANGED <<steerQueue, nextTurnQueue>>
         \/ nextTurnQueue' = Append(nextTurnQueue, t) /\ UNCHANGED <<steerQueue, followUpQueue>>
  BY <1>0 DEF Harness!Queue, Harness!sessionVars, Harness!callerVars
<1>2. HarnessTypes /\ OtherTypes /\ QueuedPlaced /\ queued \in Nat
  BY CountsAssumption DEF HarnessInv, OtherTypes
<1>3. /\ s = Harness!Message("steer", 0, queued + 1) /\ f = Harness!Message("followUp", 0, queued + 1)
      /\ t = Harness!Message("nextTurn", 0, queued + 1)
  BY Zenon, <1>0 DEF Harness!Queued
<1>4. /\ s \in Msg /\ s[1] = "steer" /\ f \in Msg /\ f[1] = "followUp" /\ t \in Msg /\ t[1] = "nextTurn"
  BY <1>2, <1>3, QueuedTyped DEF QueueKinds
<1>5. PICK kind \in QueueKinds, e \in Msg :
         /\ e = Harness!Message(kind, 0, queued + 1)
         /\ Queues' /\ \A x : Count(x)' = Count(x) + (IF e = x THEN 1 ELSE 0)
  <2>1. CASE steerQueue' = Append(steerQueue, s) /\ UNCHANGED <<followUpQueue, nextTurnQueue>>
    <3>1. Queues' /\ \A x : Count(x)' = Count(x) + (IF s = x THEN 1 ELSE 0)
      BY <1>1, <1>2, <1>4, <2>1, QueueAppends
    <3> QED
      BY <1>3, <1>4, <3>1 DEF QueueKinds
  <2>2. CASE followUpQueue' = Append(followUpQueue, f) /\ UNCHANGED <<steerQueue, nextTurnQueue>>
    <3>1. Queues' /\ \A x : Count(x)' = Count(x) + (IF f = x THEN 1 ELSE 0)
      BY <1>1, <1>2, <1>4, <2>2, QueueAppends
    <3> QED
      BY <1>3, <1>4, <3>1 DEF QueueKinds
  <2>3. CASE nextTurnQueue' = Append(nextTurnQueue, t) /\ UNCHANGED <<steerQueue, followUpQueue>>
    <3>1. Queues' /\ \A x : Count(x)' = Count(x) + (IF t = x THEN 1 ELSE 0)
      BY <1>1, <1>2, <1>4, <2>3, QueueAppends
    <3> QED
      BY <1>3, <1>4, <3>1 DEF QueueKinds
  <2> QED
    BY <1>1, <2>1, <2>2, <2>3
<1>6. HarnessTypes'
  BY <1>1, <1>2, <1>5 DEF HarnessTypes, SessionOK, Waits, Queues
<1>7. OtherTypes'
  BY <1>1, <1>2, CountsAssumption DEF OtherTypes
<1>8. ASSUME NEW n \in 1 .. MaxQueued, NEW k \in QueueKinds, n # queued + 1
      PROVE  /\ Unused(Harness!Message(k, 0, n)) => Unused(Harness!Message(k, 0, n))'
             /\ Placed(Harness!Message(k, 0, n)) => Placed(Harness!Message(k, 0, n))'
  <2>1. PICK x : x = Harness!Message(k, 0, n)
    BY Zenon
  <2>2. x \in Msg /\ x[3] = n /\ e[3] = queued + 1
    BY <1>2, <1>5, <2>1, CountsAssumption, QueuedTyped
  <2>3. Count(x)' = Count(x)
    <3>1. e # x /\ Count(x) \in Nat
      BY <1>2, <1>8, <2>2, CountTyped
    <3> QED
      BY <1>5, <3>1
  <2>4. (Unused(x) => Unused(x)') /\ (Placed(x) => Placed(x)')
    BY <1>1, <2>3, PlacedStays
  <2> QED
    BY Zenon, <2>1, <2>4 DEF Harness!Message
<1>13. PICK top : top = queued + 1
  BY Zenon
<1>9. Placed(Harness!Message(kind, 0, top))'
  <2>1. Unused(e)
    <3>1. queued + 1 \in 1 .. MaxQueued /\ queued + 1 > queued
      BY <1>1, <1>2, CountsAssumption
    <3> QED
      BY Zenon, <1>2, <1>5, <3>1 DEF QueuedPlaced
  <2>2. Count(e)' = 1 /\ e \notin returned' /\ InNoHand(e)'
    BY <1>1, <1>5, <2>1 DEF Unused, InNoHand
  <2>3. Placed(e)'
    BY <2>2 DEF Placed, IsKept
  <2>4. Harness!Message(kind, 0, top) = e
    BY Zenon, <1>5, <1>13
  <2> QED
    BY Zenon, <2>3, <2>4 DEF Harness!Message
<1>10. QueuedPlaced'
  <2>1. SUFFICES ASSUME NEW n \in 1 .. MaxQueued
                 PROVE  /\ n > queued' => \A k \in QueueKinds : Unused(Harness!Message(k, 0, n))'
                        /\ n <= queued' => \E k \in QueueKinds : Placed(Harness!Message(k, 0, n))'
    BY DEF QueuedPlaced
  <2>2. CASE n = queued + 1
    <3>1. ~(n > queued')
      BY <1>1, <1>2, <2>2
    <3>2. Placed(Harness!Message(kind, 0, n))'
      BY Zenon, <1>9, <1>13, <2>2
    <3> QED
      BY <3>1, <3>2
  <2>3. CASE n # queued + 1
    <3>1. (n > queued' => n > queued) /\ (n <= queued' => n <= queued)
      BY <1>1, <1>2, <2>3
    <3>2. /\ n > queued => \A k \in QueueKinds : Unused(Harness!Message(k, 0, n))
          /\ n <= queued => \E k \in QueueKinds : Placed(Harness!Message(k, 0, n))
      BY Zenon, <1>2 DEF QueuedPlaced
    <3> QED
      BY Zenon, <1>8, <2>3, <3>1, <3>2
  <2> QED
    BY <2>2, <2>3
<1>11. Harness!NothingWaitsAfterRuns'
  BY <1>1 DEF HarnessInv, Harness!NothingWaitsAfterRuns, Harness!NothingWaits
<1>12. ASSUME patience = "patient" PROVE Alone' /\ WritesPlaced'
  <2>1. Alone'
    BY <1>1, <1>12 DEF HarnessInv, Alone, Harness!Active
  <2>2. WritesPlaced'
    BY <1>1, <1>12, WritesStay DEF HarnessInv
  <2> QED
    BY <2>1, <2>2
<1> QED
  BY <1>1, <1>6, <1>7, <1>10, <1>11, <1>12 DEF HarnessInv

LEMMA EmptyTimes == \A x : Harness!Times(x, <<>>) = 0
<1> SUFFICES ASSUME NEW x PROVE Harness!Times(x, <<>>) = 0
  OBVIOUS
<1>1. x \notin ToSet(<<>>) /\ <<>> \in Seq(Msg)
  BY DEF ToSet
<1> QED
  BY <1>1, TimesTyped

LEMMA AbortKeeps ==
    ASSUME HarnessInv, Harness!Abort
    PROVE  HarnessInv'
<1>1. /\ steerQueue' = <<>> /\ followUpQueue' = <<>>
      /\ UNCHANGED <<entries, leaf, phase, runAbortController, pendingSessionWrites, nextTurnQueue, queued, run,
                     operation, idleWrite, patience, writes, operations, throws>>
      /\ aborted' = aborted \cup ({runAbortController} \ {0})
      /\ abortAsked' = abortAsked \cup
            {r \in Harness!Run : run[r].pc \notin {"none", "begin", "ended", "return", "reject", "done"}}
  BY DEF Harness!Abort, Harness!sessionVars, Harness!Cleared
<1>2. returned' = returned \cup ToSet(steerQueue) \cup ToSet(followUpQueue)
  BY DEF Harness!Abort, Harness!Range, ToSet
<1>3. /\ HarnessTypes /\ OtherTypes /\ Waits(steerQueue, "steer") /\ Waits(followUpQueue, "followUp")
      /\ Waits(nextTurnQueue, "nextTurn") /\ Len(entries) \in Nat
  BY DEF HarnessInv, HarnessTypes, SessionOK, Tree
<1>4. HarnessTypes'
  <2>1. Waits(<<>>, "steer") /\ Waits(<<>>, "followUp")
    BY DEF Waits
  <2> QED
    BY <1>1, <1>3, <2>1 DEF HarnessTypes, SessionOK, Waits
<1>5. OtherTypes'
  BY <1>1, <1>3, OtherTypesStay
<1>6. \A x : /\ x \in ToSet(steerQueue) => x[1] = "steer"
             /\ x \in ToSet(followUpQueue) => x[1] = "followUp"
  BY <1>3 DEF Waits, ToSet
<1>7. ASSUME NEW x \in Msg, x[1] \in QueueKinds PROVE (Unused(x) => Unused(x)') /\ (Placed(x) => Placed(x)')
  <2>1. PICK a, b, c, d : /\ a = Harness!Times(x, steerQueue) /\ b = Harness!Times(x, followUpQueue)
                          /\ c = Harness!Times(x, nextTurnQueue) /\ d = Harness!Recorded(x)
    BY Zenon
  <2>2. a \in Nat /\ b \in Nat /\ c \in Nat /\ d \in Nat
    BY <1>3, <2>1, CountTyped
  <2>3. Count(x) = d + a + b + c /\ Count(x)' = d + 0 + 0 + c
    BY <1>1, <2>1, EmptyTimes DEF Count, Harness!Recorded
  <2>4. (a = 0 <=> x \notin ToSet(steerQueue)) /\ (b = 0 <=> x \notin ToSet(followUpQueue))
    BY <1>3, <2>1, TimesTyped DEF Waits
  <2>5. CASE a = 0 /\ b = 0
    <3>1. Count(x)' = Count(x) /\ (x \in returned' <=> x \in returned)
      BY <1>2, <2>2, <2>3, <2>4, <2>5
    <3> QED
      BY <1>1, <3>1, PlacedStays
  <2>6. CASE a # 0 \/ b # 0
    <3>1. Count(x) # 0
      BY <2>2, <2>3, <2>6
    <3>2. ~Unused(x) /\ (Placed(x) => IsKept(x))
      BY <3>1 DEF Unused, Placed, WentBack, InHand, IsLost
    <3>3. ASSUME IsKept(x) PROVE Placed(x)'
      <4>1. Count(x)' = 0
        BY <2>2, <2>3, <2>6, <3>3 DEF IsKept
      <4>2. x \in returned' /\ x[1] # "nextTurn"
        BY <1>2, <1>6, <2>4, <2>6
      <4>3. InNoHand(x)'
        BY <1>1, <3>3 DEF IsKept, InNoHand
      <4> QED
        BY <4>1, <4>2, <4>3 DEF Placed, WentBack
    <3> QED
      BY <3>2, <3>3
  <2> QED
    BY <2>5, <2>6
<1>8. QueuedPlaced'
  <2>1. ASSUME NEW n \in 1 .. MaxQueued, NEW kind \in QueueKinds
        PROVE  /\ Unused(Harness!Message(kind, 0, n)) => Unused(Harness!Message(kind, 0, n))'
               /\ Placed(Harness!Message(kind, 0, n)) => Placed(Harness!Message(kind, 0, n))'
    <3>1. PICK x : x = Harness!Message(kind, 0, n)
      BY Zenon
    <3>2. x \in Msg /\ x[1] \in QueueKinds
      BY <3>1, CountsAssumption, QueuedTyped
    <3>3. (Unused(x) => Unused(x)') /\ (Placed(x) => Placed(x)')
      BY <1>7, <3>2
    <3> QED
      BY Zenon, <3>1, <3>3 DEF Harness!Message
  <2> QED
    BY Zenon, <1>1, <2>1 DEF HarnessInv, QueuedPlaced
<1>9. Harness!NothingWaitsAfterRuns'
  BY <1>1 DEF HarnessInv, Harness!NothingWaitsAfterRuns, Harness!NothingWaits
<1>10. ASSUME patience = "patient" PROVE Alone' /\ WritesPlaced'
  <2>1. Alone /\ WritesPlaced
    BY <1>10 DEF HarnessInv
  <2>2. abortAsked' \subseteq aborted'
    <3>1. ASSUME NEW r \in Harness!Run, run[r].pc \notin {"none", "begin", "ended", "return", "reject", "done"}
          PROVE  r \in aborted'
      <4>1. runAbortController = r
        BY <2>1, <3>1 DEF Alone, Harness!Active
      <4>2. r # 0
        BY CountsAssumption DEF Harness!Run
      <4> QED
        BY <1>1, <4>1, <4>2
    <3> QED
      BY <1>1, <2>1, <3>1 DEF Alone
  <2>3. Alone'
    BY <1>1, <2>1, <2>2 DEF Alone, Harness!Active
  <2>4. ASSUME NEW n \in 1 .. MaxWrites PROVE WritePlaced(n)'
    <3>1. PICK w : w = WriteOf(n)
      BY Zenon
    <3>2. w \in returned' <=> w \in returned
      <4>1. w[1] = "write"
        BY <3>1, CountsAssumption, WriteTyped
      <4> QED
        BY <1>2, <1>6, <4>1
    <3>3. Kept(w)' = Kept(w)
      BY <1>1 DEF Kept, Harness!Recorded
    <3>4. /\ n > writes => Kept(w) = 0 /\ w \notin returned /\ w # idleWrite.item
          /\ w = idleWrite.item => Kept(w) = 0
          /\ n <= writes /\ w # idleWrite.item /\ w \notin returned => Kept(w) = 1
      BY Zenon, <2>1, <3>1 DEF WritesPlaced, WritePlaced
    <3>5. /\ n > writes' => Kept(w)' = 0 /\ w \notin returned' /\ w # idleWrite'.item
          /\ w = idleWrite'.item => Kept(w)' = 0
          /\ n <= writes' /\ w # idleWrite'.item /\ w \notin returned' => Kept(w)' = 1
      BY <1>1, <3>2, <3>3, <3>4
    <3> QED
      BY Zenon, <3>1, <3>5 DEF WritePlaced, WriteOf, Harness!Message
  <2> QED
    BY <2>3, <2>4 DEF WritesPlaced
<1> QED
  BY <1>1, <1>4, <1>5, <1>8, <1>9, <1>10 DEF HarnessInv

---------------------------------------------------------------------------
(* The session's own entries: writes made while idle, and summaries. *)

LEMMA PersistKeeps ==
    ASSUME SessionOK(entries, leaf), NEW item \in Msg, NEW parent \in 0 .. Len(entries), NEW kept \in 0 .. Len(entries),
           Harness!Persist(item, parent, kept)
    PROVE  /\ SessionOK(entries, leaf)' /\ Len(entries) \in Nat /\ Len(entries') = Len(entries) + 1
           /\ \A x : Harness!Recorded(x)' = Harness!Recorded(x) + (IF item = x THEN 1 ELSE 0)
           /\ \A x : Harness!Recorded(x) \in Nat
<1>1. PICK es, e : es = entries /\ e = Harness!Entry(item, parent, kept)
  BY Zenon
<1>2. entries' = Append(es, e) /\ leaf' = Len(es) + 1
  BY Zenon, <1>1 DEF Harness!Persist
<1>3. Tree(es) /\ Len(es) \in Nat /\ entries \in Seq(EntryType)
  BY <1>1 DEF SessionOK, Tree
<1>4. e \in EntryType /\ e.item = item /\ e.parent = parent /\ e.kept = kept
  BY <1>1, <1>3 DEF Harness!Entry, EntryType
<1>5. e.parent \in 0 .. Len(es) /\ e.kept <= Len(es) + 1
  BY <1>1, <1>3, <1>4
<1>6. Tree(Append(es, e)) /\ Len(Append(es, e)) = Len(es) + 1
  BY <1>3, <1>4, <1>5, MessagesGrow
<1>7. Tree(entries') /\ Len(entries') = Len(es) + 1
  BY Zenon, <1>2, <1>6
<1>8. ASSUME NEW x PROVE /\ Harness!Recorded(x)' = Harness!Recorded(x) + (IF item = x THEN 1 ELSE 0)
                         /\ Harness!Recorded(x) \in Nat
  <2>1. entries' \in Seq(EntryType)
    BY <1>7 DEF Tree
  <2>2. Harness!Recorded(x) = Harness!Times(x, ItemsOf(entries)) /\ Harness!Recorded(x)' = Harness!Times(x, ItemsOf(entries'))
    BY <1>3, <2>1, RecordedItems, RecordedThen
  <2>3. ItemsOf(entries') = Append(ItemsOf(entries), item) /\ ItemsOf(entries) \in Seq(Msg)
    BY <1>1, <1>2, <1>3, <1>4, <2>1, ItemsOfAppend, ItemsTyped
  <2>4. Harness!Times(x, Append(ItemsOf(entries), item)) =
           Harness!Times(x, ItemsOf(entries)) + (IF item = x THEN 1 ELSE 0)
    BY <2>3, TimesOfAppend
  <2>5. Harness!Times(x, ItemsOf(entries)) \in Nat
    BY <2>3, TimesTyped
  <2> QED
    BY Zenon, <2>2, <2>3, <2>4, <2>5
<1>9. SessionOK(entries, leaf)'
  BY <1>2, <1>3, <1>7 DEF SessionOK
<1> QED
  BY <1>1, <1>3, <1>7, <1>8, <1>9

\* What is added behind runs that are none, done or ended.
LEMMA HarnessTypesStay ==
    ASSUME HarnessTypes, SessionOK(entries, leaf)', Len(entries) \in Nat, Len(entries') \in Nat,
           Len(entries) <= Len(entries'), throws' \in Nat, throws' = 0 => throws = 0,
           UNCHANGED <<pendingSessionWrites, steerQueue, followUpQueue, nextTurnQueue, run>>
    PROVE  HarnessTypes'
<1>1. ASSUME NEW s \in Harness!Run PROVE RunOK(run[s], Len(entries'), throws')
  <2>1. RunOK(run[s], Len(entries), throws)
    BY DEF HarnessTypes
  <2> QED
    BY <2>1, RunOKGrows
<1> QED
  BY <1>1 DEF HarnessTypes, Waits

LEMMA IdleWriteKeeps ==
    ASSUME HarnessInv, Harness!IdleWriteEnds
    PROVE  HarnessInv'
<1>1. /\ idleWrite.item # Harness!Nothing /\ idleWrite' = [item |-> Harness!Nothing, parent |-> 0]
      /\ UNCHANGED <<phase, runAbortController, pendingSessionWrites, steerQueue, followUpQueue, nextTurnQueue, queued,
                     run, operation, aborted, abortAsked, patience, writes, operations>>
  BY DEF Harness!IdleWriteEnds, Harness!queueVars
<1>2. PICK item, parent : item = idleWrite.item /\ parent = idleWrite.parent
  BY Zenon
<1>3. \/ /\ throws' = throws /\ Harness!Persist(item, parent, 0) /\ UNCHANGED returned
      \/ /\ throws' = throws + 1 /\ returned' = returned \cup {item} /\ UNCHANGED <<entries, leaf>>
  BY <1>2 DEF Harness!IdleWriteEnds, Harness!Goes, Harness!Throws, Harness!sessionVars
<1>4. /\ HarnessTypes /\ OtherTypes /\ SessionOK(entries, leaf) /\ throws \in Nat /\ Len(entries) \in Nat
      /\ item \in Msg /\ item[1] = "write" /\ parent \in 0 .. Len(entries)
  BY <1>1, <1>2 DEF HarnessInv, HarnessTypes, SessionOK, Tree, OtherTypes
<1>5. PICK got \in {0, 1} :
        /\ SessionOK(entries, leaf)' /\ Len(entries') \in Nat /\ Len(entries) <= Len(entries')
        /\ \A x : Harness!Recorded(x)' = Harness!Recorded(x) + (IF item = x THEN got ELSE 0)
        /\ \A x : x # item => (x \in returned' <=> x \in returned)
        /\ got = 0 => item \in returned'
  <2>1. CASE Harness!Persist(item, parent, 0) /\ UNCHANGED returned
    <3>1. 0 \in 0 .. Len(entries)
      BY <1>4
    <3>2. /\ SessionOK(entries, leaf)' /\ Len(entries) \in Nat /\ Len(entries') = Len(entries) + 1
          /\ \A x : Harness!Recorded(x)' = Harness!Recorded(x) + (IF item = x THEN 1 ELSE 0)
      BY <1>4, <2>1, <3>1, PersistKeeps
    <3>3. Len(entries') \in Nat /\ Len(entries) <= Len(entries')
      BY <3>2
    <3> QED
      BY <2>1, <3>2, <3>3
  <2>2. CASE returned' = returned \cup {item} /\ UNCHANGED <<entries, leaf>>
    <3>1. \A x : Harness!Recorded(x)' = Harness!Recorded(x) /\ Harness!Recorded(x) \in Nat
      BY <1>4, <2>2, CountTyped DEF Harness!Recorded
    <3>2. \A x : Harness!Recorded(x)' = Harness!Recorded(x) + (IF item = x THEN 0 ELSE 0)
      BY <3>1
    <3>3. SessionOK(entries, leaf)' /\ Len(entries') \in Nat /\ Len(entries) <= Len(entries')
      BY <1>4, <2>2 DEF SessionOK
    <3> QED
      BY <2>2, <3>2, <3>3
  <2> QED
    BY <1>3, <2>1, <2>2
<1>6. throws' \in Nat /\ (throws' = 0 => throws = 0)
  BY <1>3, <1>4
<1>7. HarnessTypes'
  BY <1>1, <1>4, <1>5, <1>6, HarnessTypesStay
<1>8. OtherTypes'
  <2>1. Harness!Nothing \in Msg
    BY MessageTyped
  <2> QED
    BY <1>1, <1>4, <1>5, <2>1 DEF OtherTypes
<1>9. QueuedPlaced'
  <2>1. ASSUME NEW x \in Msg, x[1] \in QueueKinds PROVE Count(x)' = Count(x) /\ (x \in returned' <=> x \in returned)
    <3>1. x # item /\ Harness!Recorded(x) \in Nat
      BY <1>4, <2>1, CountTyped DEF QueueKinds
    <3>2. Harness!Recorded(x)' = Harness!Recorded(x)
      BY <1>5, <3>1
    <3> QED
      BY <1>1, <1>5, <3>1, <3>2 DEF Count
  <2> QED
    BY <1>1, <2>1, QueuedStayPlaced DEF HarnessInv
<1>10. Harness!NothingWaitsAfterRuns'
  BY <1>1, <1>6 DEF HarnessInv, Harness!NothingWaitsAfterRuns, Harness!NothingWaits
<1>11. ASSUME patience = "patient" PROVE Alone' /\ WritesPlaced'
  <2>1. Alone /\ WritesPlaced
    BY <1>11 DEF HarnessInv
  <2>2. ASSUME NEW r \in Harness!Run PROVE SyncOK(run[r], entries', leaf', pendingSessionWrites')
    <3>1. run[r].pc \in {"none", "done", "ended"}
      BY <1>1, <2>1 DEF Alone, Harness!Active
    <3> QED
      BY <3>1, IdleSyncs
  <2>3. Alone'
    BY <1>1, <2>1, <2>2 DEF Alone, Harness!Active
  <2>4. ASSUME NEW n \in 1 .. MaxWrites PROVE WritePlaced(n)'
    <3>1. PICK w : w = WriteOf(n)
      BY Zenon
    <3>2. w # Harness!Nothing /\ w \in Msg
      BY <3>1, CountsAssumption, WriteTyped
    <3>3. Kept(w)' = Kept(w) + (IF item = w THEN got ELSE 0) /\ Kept(w) \in Nat
      <4>1. Kept(w)' = Harness!Recorded(w)' + Harness!Times(w, pendingSessionWrites)
        BY <1>1 DEF Kept
      <4>2. Harness!Recorded(w) \in Nat /\ Harness!Times(w, pendingSessionWrites) \in Nat
        BY <1>4, CountTyped, TimesTyped DEF HarnessTypes, Waits
      <4>3. Harness!Recorded(w)' = Harness!Recorded(w) + (IF item = w THEN got ELSE 0)
        BY <1>5
      <4> QED
        BY <4>1, <4>2, <4>3 DEF Kept
    <3>4. /\ n > writes => Kept(w) = 0 /\ w \notin returned /\ w # item
          /\ w = item => Kept(w) = 0
          /\ n <= writes /\ w # item /\ w \notin returned => Kept(w) = 1
      BY Zenon, <1>2, <2>1, <3>1 DEF WritesPlaced, WritePlaced
    <3>5. idleWrite'.item = Harness!Nothing /\ writes' = writes
      BY <1>1
    <3>6. /\ n > writes' => Kept(w)' = 0 /\ w \notin returned' /\ w # idleWrite'.item
          /\ w = idleWrite'.item => Kept(w)' = 0
          /\ n <= writes' /\ w # idleWrite'.item /\ w \notin returned' => Kept(w)' = 1
      <4>1. CASE w = item
        <5>1. ~(n > writes') /\ Kept(w)' = got
          BY <3>3, <3>4, <3>5, <4>1
        <5> QED
          BY <1>5, <3>2, <3>5, <4>1, <5>1
      <4>2. CASE w # item
        <5>1. Kept(w)' = Kept(w) /\ (w \in returned' <=> w \in returned)
          BY <1>5, <3>3, <4>2
        <5> QED
          BY <3>2, <3>4, <3>5, <4>2, <5>1
      <4> QED
        BY <4>1, <4>2
    <3> QED
      BY Zenon, <3>1, <3>6 DEF WritePlaced, WriteOf, Harness!Message
  <2> QED
    BY <2>3, <2>4 DEF WritesPlaced
<1> QED
  BY <1>1, <1>7, <1>8, <1>9, <1>10, <1>11 DEF HarnessInv

---------------------------------------------------------------------------
(* Compaction and navigation. *)

PathIn(es) ==
    CHOOSE f : f = [i \in 0 .. Len(es) |-> IF i = 0 THEN <<>> ELSE Append(f[es[i].parent], i)]

LEMMA PathIsThere ==
    ASSUME NEW es, Tree(es), NEW at \in 0 .. Len(es)
    PROVE  PathIn(es)[at] \in Seq(1 .. Len(es))
<1> DEFINE N == Len(es)
           V == Seq(1 .. N)
           h == [n \in 1 .. N |-> [v \in V |-> Append(v, n)]]
           prev == [n \in 1 .. N |-> es[n].parent]
           Body(g) == [i \in 0 .. N |-> IF i = 0 THEN <<>> ELSE Append(g[es[i].parent], i)]
<1>1. /\ N \in Nat /\ Descends(prev, N)
      /\ \A n \in 1 .. N : es[n].parent \in 0 .. N /\ es[n].parent \in 0 .. n - 1
  BY ParentsDescend
<1>2. <<>> \in V /\ \A n \in 1 .. N, v \in V : Append(v, n) \in V
  OBVIOUS
<1> HIDE DEF V
<1>3. IsStep(h, N, V)
  BY <1>2 DEF IsStep
<1> DEFINE b == <<>>
<1>4. b \in V
  BY <1>2
<1>5. PICK g : IsRecursion(g, N, V, b, h, prev)
  <2> HIDE DEF h, prev, N, b
  <2> QED
    BY <1>1, <1>3, <1>4, RecursionExists
<1>6. g \in [0 .. N -> V] /\ g[0] = <<>> /\ \A n \in 1 .. N : g[n] = h[n][g[prev[n]]]
  BY Zenon, <1>5 DEF IsRecursion
<1>7. \A n \in 1 .. N : g[n] = Append(g[es[n].parent], n)
  <2> SUFFICES ASSUME NEW n \in 1 .. N PROVE g[n] = Append(g[es[n].parent], n)
    OBVIOUS
  <2>1. prev[n] = es[n].parent /\ g[es[n].parent] \in V
    BY <1>1, <1>6
  <2>2. \A v \in V : h[n][v] = Append(v, n)
    OBVIOUS
  <2> HIDE DEF h, prev
  <2> QED
    BY <1>6, <2>1, <2>2
<1>8. g = Body(g)
  <2>1. \A i \in 0 .. N : g[i] = Body(g)[i]
    BY <1>1, <1>6, <1>7
  <2>2. DOMAIN g = 0 .. N /\ g = [i \in 0 .. N |-> g[i]]
    BY <1>6
  <2> QED
    BY <2>1, <2>2
<1> DEFINE c == CHOOSE f : f = Body(f)
<1>9. c = Body(c)
  BY Zenon, <1>8
<1>10. PathIn(es) = c
  BY Zenon DEF PathIn
<1> HIDE DEF c
<1>11. c[0] = <<>> /\ \A n \in 1 .. N : c[n] = Append(c[es[n].parent], n)
  <2>1. \A i \in 0 .. N : c[i] = IF i = 0 THEN <<>> ELSE Append(c[es[i].parent], i)
    BY <1>9
  <2>2. 0 \in 0 .. N /\ \A n \in 1 .. N : n \in 0 .. N /\ n # 0
    BY <1>1
  <2> QED
    BY <2>1, <2>2
<1> DEFINE S == {i \in 0 .. N : c[i] \in V}
<1>12. ASSUME NEW n \in 0 .. N, \A k \in 0 .. n - 1 : k \in S PROVE n \in S
  <2>1. CASE n = 0
    BY <1>2, <1>11, <2>1
  <2>2. CASE n # 0
    <3>1. n \in 1 .. N
      BY <1>1, <2>2
    <3>2. PICK p : p = es[n].parent
      OBVIOUS
    <3>3. p \in 0 .. n - 1
      BY <1>1, <3>1, <3>2
    <3>4. c[p] \in V
      BY <1>12, <3>3
    <3>5. c[n] = Append(c[p], n)
      BY <1>11, <3>1, <3>2
    <3>6. c[n] \in V
      BY <1>2, <3>1, <3>4, <3>5
    <3> QED
      BY <3>6
  <2> QED
    BY <2>1, <2>2
<1>13. \A n \in 0 .. N : n \in S
  <2> HIDE DEF N, S
  <2> QED
    BY <1>1, <1>12, Upward
<1> QED
  BY <1>10, <1>13 DEF V

LEMMA OperateKeeps ==
    ASSUME HarnessInv, Harness!Operate
    PROVE  HarnessInv'
<1>1. /\ operations' = operations + 1 /\ phase = "idle"
      /\ patience = "patient" => (\A s \in Harness!Run : ~Harness!Active(s)) /\ idleWrite.item = Harness!Nothing
      /\ UNCHANGED <<entries, leaf, runAbortController, pendingSessionWrites, steerQueue, followUpQueue, nextTurnQueue,
                     queued, run, idleWrite, aborted, abortAsked, returned, patience, writes, throws>>
      /\ \/ /\ phase' = "compaction"
            /\ \E kept \in Harness!Range(Harness!Path(leaf)) : operation' = <<"compact", kept>>
         \/ phase' = "branch_summary" /\ \E target \in DOMAIN entries \ {leaf} : operation' = <<"navigate", target>>
  BY DEF Harness!Operate, Harness!sessionVars, Harness!queueVars
<1>2. /\ HarnessTypes /\ OtherTypes /\ QueuedPlaced /\ entries \in Seq(EntryType) /\ Tree(entries)
      /\ Len(entries) \in Nat /\ leaf \in 0 .. Len(entries) /\ operations \in Nat
  BY DEF HarnessInv, HarnessTypes, SessionOK, Tree, OtherTypes
<1>3. /\ operation'[1] \in {"compact", "navigate"} /\ operation'[2] \in 1 .. Len(entries)
      /\ phase' # "idle"
  <2>1. CASE phase' = "compaction" /\ \E kept \in Harness!Range(Harness!Path(leaf)) : operation' = <<"compact", kept>>
    <3>1. PICK p : p = Harness!Path(leaf)
      BY Zenon
    <3>2. p = PathIn(entries)[leaf]
      BY Zenon, <3>1 DEF Harness!Path, PathIn
    <3>3. p \in Seq(1 .. Len(entries))
      BY <1>2, <3>2, PathIsThere
    <3>4. PICK kept \in Harness!Range(p) : operation' = <<"compact", kept>>
      BY <2>1, <3>1
    <3>5. kept \in 1 .. Len(entries)
      BY <3>3 DEF Harness!Range
    <3> QED
      BY <2>1, <3>4, <3>5
  <2>2. CASE phase' = "branch_summary" /\ \E target \in DOMAIN entries \ {leaf} : operation' = <<"navigate", target>>
    <3>1. DOMAIN entries = 1 .. Len(entries)
      BY <1>2
    <3> QED
      BY <2>2, <3>1
  <2> QED
    BY <1>1, <2>1, <2>2
<1>4. HarnessTypes'
  BY <1>1, <1>2 DEF HarnessTypes, SessionOK, Waits
<1>5. OtherTypes'
  BY <1>1, <1>2, <1>3 DEF OtherTypes
<1>6. QueuedPlaced'
  BY <1>1, <1>2, QueuedStay
<1>7. Harness!NothingWaitsAfterRuns'
  BY <1>1, <1>2 DEF Harness!NothingWaitsAfterRuns
<1>8. ASSUME patience = "patient" PROVE Alone' /\ WritesPlaced'
  <2>1. Alone'
    BY <1>1, <1>3, <1>8 DEF HarnessInv, Alone, Harness!Active
  <2>2. WritesPlaced'
    BY <1>1, <1>8, WritesStay DEF HarnessInv
  <2> QED
    BY <2>1, <2>2
<1> QED
  BY <1>1, <1>4, <1>5, <1>6, <1>7, <1>8 DEF HarnessInv

LEMMA OperationKeeps ==
    ASSUME HarnessInv, Harness!OperationEnds
    PROVE  HarnessInv'
<1>1. /\ operation[1] # "none" /\ operation' = <<"none", 0>> /\ phase' = "idle"
      /\ UNCHANGED <<runAbortController, pendingSessionWrites, steerQueue, followUpQueue, nextTurnQueue,
                     queued, run, idleWrite, aborted, abortAsked, returned, patience, writes, operations, throws>>
  BY DEF Harness!OperationEnds, Harness!queueVars
<1>2. /\ HarnessTypes /\ OtherTypes /\ QueuedPlaced /\ entries \in Seq(EntryType) /\ SessionOK(entries, leaf)
      /\ Len(entries) \in Nat /\ leaf \in 0 .. Len(entries) /\ operations \in Nat /\ operations # 0
      /\ operation[2] \in 0 .. Len(entries) /\ (operation[1] = "navigate" => operation[2] # 0) /\ throws \in Nat
  BY <1>1 DEF HarnessInv, HarnessTypes, SessionOK, Tree, OtherTypes
<1>3. PICK at, summary : at = operation[2] /\ summary = Harness!Message("summary", 0, operations)
  BY Zenon
<1>4. \/ Harness!Persist(summary, leaf, at)
      \/ /\ operation[1] = "navigate" /\ UNCHANGED entries
         /\ leaf' = IF entries[at].item[1] \in Harness!UserKinds THEN entries[at].parent ELSE at
      \/ UNCHANGED <<entries, leaf>>
  BY <1>3 DEF Harness!OperationEnds, Harness!sessionVars
<1>5. summary \in Msg /\ summary[1] = "summary"
  <2>1. "summary" \in Harness!Kinds /\ 0 \in Nat
    BY DEF Harness!Kinds
  <2> QED
    BY <1>2, <1>3, <2>1, MessageTyped
<1>6. /\ SessionOK(entries, leaf)' /\ Len(entries') \in Nat /\ Len(entries) <= Len(entries')
      /\ \A x : x # summary => Harness!Recorded(x)' = Harness!Recorded(x)
  <2>1. CASE Harness!Persist(summary, leaf, at)
    <3>1. /\ SessionOK(entries, leaf)' /\ Len(entries') = Len(entries) + 1
          /\ \A x : Harness!Recorded(x)' = Harness!Recorded(x) + (IF summary = x THEN 1 ELSE 0)
          /\ \A x : Harness!Recorded(x) \in Nat
      BY <1>2, <1>3, <1>5, <2>1, PersistKeeps
    <3>2. \A x : x # summary => Harness!Recorded(x)' = Harness!Recorded(x)
      BY <3>1
    <3> QED
      BY <1>2, <3>1, <3>2
  <2>2. CASE /\ operation[1] = "navigate" /\ UNCHANGED entries
             /\ leaf' = IF entries[at].item[1] \in Harness!UserKinds THEN entries[at].parent ELSE at
    <3>1. at \in 1 .. Len(entries)
      BY <1>2, <1>3, <2>2
    <3>2. entries[at].parent \in 0 .. Len(entries)
      BY <1>2, <3>1, ParentsDescend DEF SessionOK
    <3>3. leaf' \in 0 .. Len(entries)
      BY <1>2, <2>2, <3>1, <3>2
    <3> QED
      BY <1>2, <2>2, <3>3 DEF SessionOK, Harness!Recorded
  <2>3. CASE UNCHANGED <<entries, leaf>>
    BY <1>2, <2>3 DEF SessionOK, Harness!Recorded
  <2> QED
    BY <1>4, <2>1, <2>2, <2>3
<1>7. HarnessTypes'
  BY <1>1, <1>2, <1>6, HarnessTypesStay
<1>8. OtherTypes'
  BY <1>1, <1>2, <1>6 DEF OtherTypes
<1>9. QueuedPlaced'
  <2>1. ASSUME NEW x \in Msg, x[1] \in QueueKinds PROVE Count(x)' = Count(x) /\ (x \in returned' <=> x \in returned)
    <3>1. x # summary
      BY <1>5, <2>1 DEF QueueKinds
    <3>2. Harness!Recorded(x)' = Harness!Recorded(x)
      BY <1>6, <3>1
    <3> QED
      BY <1>1, <3>2 DEF Count
  <2> QED
    BY <1>1, <1>2, <2>1, QueuedStayPlaced
<1>10. Harness!NothingWaitsAfterRuns'
  BY <1>1, <1>2 DEF Harness!NothingWaitsAfterRuns
<1>11. ASSUME patience = "patient" PROVE Alone' /\ WritesPlaced'
  <2>1. Alone /\ WritesPlaced
    BY <1>11 DEF HarnessInv
  <2>2. \A r \in Harness!Run : run[r].pc \in {"none", "done"}
    BY <1>1, <2>1 DEF Alone, Harness!Active
  <2>3. ASSUME NEW r \in Harness!Run PROVE SyncOK(run[r], entries', leaf', pendingSessionWrites')
    BY <2>2, IdleSyncs
  <2>4. Alone'
    BY <1>1, <2>1, <2>2, <2>3 DEF Alone, Harness!Active
  <2>5. ASSUME NEW n \in 1 .. MaxWrites PROVE Kept(WriteOf(n))' = Kept(WriteOf(n))
    <3>1. PICK w : w = WriteOf(n)
      BY Zenon
    <3>2. w # summary
      BY <1>5, <3>1, CountsAssumption, WriteTyped
    <3>3. Kept(w)' = Kept(w)
      BY <1>1, <1>6, <3>2 DEF Kept
    <3> QED
      BY Zenon, <3>1, <3>3 DEF WriteOf, Harness!Message
  <2>6. WritesPlaced'
    BY <1>1, <2>1, <2>5 DEF WritesPlaced, WritePlaced
  <2> QED
    BY <2>4, <2>6
<1> QED
  BY <1>1, <1>7, <1>8, <1>9, <1>10, <1>11 DEF HarnessInv

LEMMA HarnessInvInit == Harness!HarnessInit => HarnessInv
<1> SUFFICES ASSUME Harness!HarnessInit PROVE HarnessInv
  OBVIOUS
<1>1. /\ entries = <<>> /\ leaf = 0 /\ phase = "idle" /\ runAbortController = 0
      /\ pendingSessionWrites = <<>> /\ steerQueue = <<>> /\ followUpQueue = <<>> /\ nextTurnQueue = <<>>
      /\ operation = <<"none", 0>> /\ idleWrite = [item |-> Harness!Nothing, parent |-> 0]
      /\ aborted = {} /\ abortAsked = {} /\ returned = {}
      /\ writes = 0 /\ queued = 0 /\ operations = 0 /\ throws = 0
  BY DEF Harness!HarnessInit
<1>2. PICK m : m = Harness!NoRun
  BY Zenon
<1>3. run = [r \in Harness!Run |-> m]
  BY Zenon, <1>2 DEF Harness!HarnessInit
<1>4. m \in RunType /\ m.pc = "none" /\ m.failing = FALSE /\ m.late = FALSE /\ m.next = "none"
  <2>1. PICK n, none : n = 0 /\ none = Harness!Nothing
    BY Zenon
  <2>2. m = [pc |-> "none", next |-> "none", context |-> <<>>, todo |-> <<>>, item |-> none, parent |-> n,
             flushing |-> FALSE, reply |-> "none", replies |-> n, failing |-> FALSE, late |-> FALSE, taken |-> {}]
    BY Zenon, <1>2, <2>1 DEF Harness!NoRun
  <2>3. none \in Msg /\ n \in Nat /\ <<>> \in Seq(Msg) /\ {} \in SUBSET Msg /\ "none" \in Word
    BY <2>1, MessageTyped, Words
  <2> QED
    BY <2>2, <2>3 DEF RunType
<1>5. Hand(m) = <<>> /\ ~Recording(m) /\ ~Flushing(m) /\ \A x : Held(x, m) = 0
  BY <1>4, NoneHeld DEF Recording, Flushing
<1>6. RunOK(m, 0, 0) /\ Len(<<>>) = 0
  BY <1>4, <1>5 DEF RunOK, HandOK
<1>7. HarnessTypes
  <2>1. SessionOK(<<>>, 0) /\ \A kind : Waits(<<>>, kind)
    BY <1>6 DEF SessionOK, Tree, Waits
  <2> QED
    BY <1>1, <1>3, <1>4, <1>6, <2>1 DEF HarnessTypes
<1>8. OtherTypes
  <2>1. Harness!Nothing \in Msg
    BY MessageTyped
  <2> QED
    BY <1>1, <1>6, <2>1, CountsAssumption DEF OtherTypes
<1>9. \A x : Harness!Recorded(x) = 0
  <2>1. ASSUME NEW x PROVE Harness!Recorded(x) = 0
    <3>1. entries \in Seq(EntryType)
      BY <1>1
    <3>2. ItemsOf(entries) = <<>>
      BY <1>1 DEF ItemsOf
    <3> QED
      BY <3>1, <3>2, RecordedItems, EmptyTimes
  <2> QED
    BY <2>1
<1>10. QueuedPlaced
  <2>1. ASSUME NEW x PROVE Unused(x)
    BY <1>1, <1>3, <1>5, <1>9, EmptyTimes DEF Unused, Count, InNoHand
  <2> QED
    BY <1>1, <2>1, CountsAssumption DEF QueuedPlaced
<1>11. Harness!NothingWaitsAfterRuns
  BY <1>1 DEF Harness!NothingWaitsAfterRuns, Harness!NothingWaits
<1>12. Alone
  <2>1. \A r \in Harness!Run : run[r].pc = "none"
    BY <1>3, <1>4
  <2>2. \A r \in Harness!Run : SyncOK(run[r], entries, leaf, pendingSessionWrites)
    BY <2>1, IdleSyncs
  <2> QED
    BY <1>1, <2>1, <2>2 DEF Alone, Harness!Active
<1>13. WritesPlaced
  <2>1. ASSUME NEW n \in 1 .. MaxWrites PROVE WritePlaced(n)
    <3>1. WriteOf(n) # Harness!Nothing /\ n > writes /\ ~(n <= writes)
      BY <1>1, CountsAssumption, WriteTyped
    <3>2. Kept(WriteOf(n)) = 0
      BY <1>1, <1>9, EmptyTimes DEF Kept
    <3> QED
      BY <1>1, <3>1, <3>2 DEF WritePlaced
  <2> QED
    BY <2>1 DEF WritesPlaced
<1> QED
  BY <1>7, <1>8, <1>10, <1>11, <1>12, <1>13 DEF HarnessInv

LEMMA HarnessInvStep == HarnessInv /\ Harness!HarnessNext => HarnessInv'
  BY Zenon, PromptKeeps, RunStepKeeps, QueueKeeps, WriteKeeps, IdleWriteKeeps, AbortKeeps, OperateKeeps, OperationKeeps
     DEF Harness!HarnessNext

---------------------------------------------------------------------------
(* What the invariant says of the properties.                              *)

LEMMA BranchIsSeen == HarnessInv => Harness!RequestSeesBranch
<1> SUFFICES ASSUME HarnessInv, patience = "patient", NEW r \in Harness!Run, run[r].pc = "stream"
             PROVE  run[r].context = Harness!Messages(leaf)
  BY DEF Harness!RequestSeesBranch
<1>1. SyncOK(run[r], entries, leaf, pendingSessionWrites)
  BY DEF HarnessInv, Alone
<1> QED
  BY <1>1, MessagesNow DEF SyncOK

LEMMA WritesAreKept == HarnessInv => Harness!WritesKept
<1> SUFFICES ASSUME HarnessInv, patience = "patient", NEW n \in 1 .. writes,
                    Harness!Message("write", 0, n) \notin returned \cup {idleWrite.item}
             PROVE  Harness!Recorded(Harness!Message("write", 0, n))
                    + Harness!Times(Harness!Message("write", 0, n), pendingSessionWrites) = 1
  BY Zenon DEF Harness!WritesKept
<1>1. n \in 1 .. MaxWrites /\ n <= writes
  BY CountsAssumption DEF HarnessInv, OtherTypes
<1>2. WritePlaced(n)
  BY <1>1 DEF HarnessInv, WritesPlaced
<1>3. PICK w : w = WriteOf(n)
  BY Zenon
<1>4. w \notin returned /\ w # idleWrite.item
  BY Zenon, <1>3 DEF WriteOf
<1>5. Kept(w) = 1
  BY <1>1, <1>2, <1>3, <1>4 DEF WritePlaced
<1>6. Harness!Recorded(w) + Harness!Times(w, pendingSessionWrites) = 1
  BY Zenon, <1>5 DEF Kept
<1> QED
  BY Zenon, <1>3, <1>6 DEF WriteOf

\* What is in a run's hand it has still to record, and it took it.
LEMMA HandIsTaken ==
    ASSUME NEW m \in RunType, HandOK(Hand(m), m.taken), NEW x \in Msg, x[1] \in QueueKinds, Held(x, m) = 1
    PROVE  x \in m.taken /\ (x \in Harness!Range(m.todo) \/ x = m.item)
<1>1. Hand(m) \in Seq(Msg)
  BY HandTyped
<1>2. x \in ToSet(Hand(m))
  <2>1. PICK hand : hand = Hand(m)
    BY Zenon
  <2>2. hand \in Seq(Msg) /\ Harness!Times(x, hand) = 1
    BY <1>1, <2>1 DEF Held
  <2>3. Harness!Times(x, hand) = 0 <=> x \notin ToSet(hand)
    BY <2>2, TimesTyped
  <2>4. Harness!Times(x, hand) # 0
    BY <2>2
  <2> QED
    BY Zenon, <2>1, <2>3, <2>4
<1>3. PICK i \in DOMAIN Hand(m) : Hand(m)[i] = x
  BY <1>2 DEF ToSet
<1>4. x \in m.taken
  BY <1>3 DEF HandOK
<1>5. Recording(m) /\ Hand(m) = <<m.item>> \o m.todo
  BY <1>3 DEF Hand
<1>6. m.item \in Msg /\ m.todo \in Seq(Msg) /\ <<m.item>> \in Seq(Msg)
  BY DEF RunType
<1>7. PICK one, two : one = <<m.item>> /\ two = m.todo
  BY Zenon
<1>8. x = m.item \/ x \in Harness!Range(m.todo)
  <2>1. one \in Seq(Msg) /\ two \in Seq(Msg) /\ Len(one) = 1 /\ one[1] = m.item /\ Len(two) \in Nat
    BY <1>6, <1>7
  <2>2. Hand(m) = one \o two
    BY <1>5, <1>7
  <2>3. i \in 1 .. 1 + Len(two) /\ x = IF i <= 1 THEN one[i] ELSE two[i - 1]
    <3>1. PICK hand : hand = Hand(m)
      BY Zenon
    <3>2. i \in DOMAIN hand /\ hand[i] = x /\ hand = one \o two
      BY <1>3, <2>2, <3>1
    <3>3. /\ DOMAIN hand = 1 .. 1 + Len(two)
          /\ \A j \in 1 .. 1 + Len(two) : hand[j] = IF j <= 1 THEN one[j] ELSE two[j - 1]
      <4>1. /\ Len(hand) = Len(one) + Len(two) /\ DOMAIN hand = 1 .. Len(hand)
            /\ \A j \in 1 .. Len(one) + Len(two) : hand[j] = IF j <= Len(one) THEN one[j] ELSE two[j - Len(one)]
        <5>1. one \in Seq(Msg) /\ two \in Seq(Msg)
          BY <2>1
        <5>2. /\ one \o two \in Seq(Msg) /\ Len(one \o two) = Len(one) + Len(two)
              /\ \A j \in 1 .. Len(one) + Len(two) :
                    (one \o two)[j] = IF j <= Len(one) THEN one[j] ELSE two[j - Len(one)]
          BY <5>1, ConcatProperties
        <5>3. hand \in Seq(Msg) /\ DOMAIN hand = 1 .. Len(hand)
          BY <3>2, <5>2
        <5> QED
          BY Zenon, <3>2, <5>2, <5>3
      <4> QED
        BY ONLY <2>1, <4>1
    <3> QED
      BY <3>2, <3>3
  <2>4. CASE i = 1
    BY <2>1, <2>3, <2>4
  <2>5. CASE i # 1
    <3>1. i - 1 \in 1 .. Len(two) /\ x = two[i - 1]
      BY <2>1, <2>3, <2>5
    <3>2. DOMAIN two = 1 .. Len(two)
      BY <2>1
    <3> QED
      BY <1>7, <3>1, <3>2 DEF Harness!Range
  <2> QED
    BY <2>4, <2>5
<1> QED
  BY <1>4, <1>8

LEMMA QueuedAreKept == HarnessInv => Harness!QueuedKept
<1> DEFINE Is(x, kind) ==
             \/ Count(x) = 1 /\ x \notin returned
             \/ Count(x) = 0 /\ x \in returned /\ kind # "nextTurn"
             \/ Count(x) = 0 /\ \E r \in Harness!Run :
                                   /\ x \in run[r].taken
                                   /\ run[r].failing \/ x \in Harness!Range(run[r].todo) \cup {run[r].item}
<1> SUFFICES ASSUME HarnessInv, NEW n \in 1 .. queued
             PROVE  \E kind \in QueueKinds : Is(Harness!Message(kind, 0, n), kind)
  BY Zenon DEF Harness!QueuedKept, Count, QueueKinds
<1>1. n \in 1 .. MaxQueued /\ n <= queued
  BY CountsAssumption DEF HarnessInv, OtherTypes
<1>2. PICK kind \in QueueKinds : Placed(Harness!Message(kind, 0, n))
  BY <1>1 DEF HarnessInv, QueuedPlaced
<1>3. PICK x : x = Harness!Message(kind, 0, n)
  BY Zenon
<1>4. x \in Msg /\ x[1] \in QueueKinds
  BY <1>1, <1>3, CountsAssumption, QueuedTyped
<1>5. Placed(x) /\ x[1] = kind
  BY <1>2, <1>3 DEF Harness!Message
<1>6. Is(x, kind)
  <2>1. CASE IsKept(x)
    BY <2>1 DEF IsKept
  <2>2. CASE WentBack(x)
    BY <1>5, <2>2 DEF WentBack
  <2>3. CASE InHand(x)
    <3>1. PICK r \in Harness!Run : Held(x, run[r]) = 1
      BY <2>3 DEF InHand
    <3>2. run[r] \in RunType /\ HandOK(Hand(run[r]), run[r].taken)
      BY DEF HarnessInv, HarnessTypes, RunOK
    <3>3. PICK m : m = run[r]
      BY Zenon
    <3>4. m \in RunType /\ HandOK(Hand(m), m.taken) /\ Held(x, m) = 1
      BY <3>1, <3>2, <3>3
    <3>5. x \in m.taken /\ (x \in Harness!Range(m.todo) \/ x = m.item)
      BY <1>4, <3>4, HandIsTaken
    <3> QED
      BY <2>3, <3>3, <3>5 DEF InHand
  <2>4. CASE IsLost(x)
    BY <2>4 DEF IsLost
  <2> QED
    BY <1>5, <2>1, <2>2, <2>3, <2>4 DEF Placed
<1> HIDE DEF Is
<1> QED
  BY Zenon, <1>3, <1>6

AsksOnlyUnlessAborted ==
    \A r \in Harness!Run : patience = "patient" /\ run[r].pc = "ask" /\ run'[r].pc = "stream" => r \notin abortAsked

LEMMA AbortIsHeard == HarnessInv /\ Harness!HarnessNext => AsksOnlyUnlessAborted
<1> SUFFICES ASSUME HarnessInv, Harness!HarnessNext,
                    NEW r \in Harness!Run, patience = "patient", run[r].pc = "ask", run'[r].pc = "stream"
             PROVE  r \notin abortAsked
  BY DEF AsksOnlyUnlessAborted
<1>1. run \in [Harness!Run -> RunType] /\ abortAsked \subseteq aborted
  BY DEF HarnessInv, HarnessTypes, Alone
<1>2. run' # run
  OBVIOUS
<1>3. ASSUME NEW s \in Harness!Run, Harness!RunStep(s) PROVE r \notin abortAsked
  <2>1. PICK m : Moved(s, m)
    BY <1>3, RunStepMoves DEF HarnessInv
  <2>2. run' = [run EXCEPT ![s] = m]
    BY <2>1 DEF Moved
  <2>3. s = r /\ m.pc = "stream"
    BY <1>1, <2>2
  <2>4. r \notin aborted
    BY <2>1, <2>3 DEF Moved
  <2> QED
    BY <1>1, <2>4
<1>4. ASSUME NEW s \in Harness!Run, Harness!Prompt(s) PROVE r \notin abortAsked
  <2>0. PICK c : c = MessagesIn(entries, leaf)
    BY Zenon
  <2>1. PICK m : m = [Harness!NoRun EXCEPT !.pc = "begin", !.context = c]
    BY Zenon
  <2>2. run[s].pc = "none" /\ run' = [run EXCEPT ![s] = m]
    BY Zenon, <1>4, <2>0, <2>1, MessagesNow DEF Harness!Prompt
  <2> QED
    BY <1>1, <2>2
<1>5. \/ \E s \in Harness!Run : Harness!Prompt(s) \/ Harness!RunStep(s)
      \/ UNCHANGED run
  BY DEF Harness!HarnessNext, Harness!Queue, Harness!Write, Harness!IdleWriteEnds, Harness!Abort, Harness!Operate,
         Harness!OperationEnds
<1> QED
  BY <1>2, <1>3, <1>4, <1>5

---------------------------------------------------------------------------
(* Both together.                                                          *)

EmbeddedInv == ClientInv /\ HarnessInv
EmbeddedVars == <<part, rpcVars, harnessVars>>

\* Neither part moves the other.
LEMMA ClientStays == ClientInv /\ UNCHANGED rpcVars => ClientInv'
  BY ClientListens DEF rpcVars

LEMMA HarnessStays == HarnessInv /\ UNCHANGED harnessVars => HarnessInv'
<1> SUFFICES ASSUME HarnessInv, UNCHANGED harnessVars PROVE HarnessInv'
  OBVIOUS
<1>1. UNCHANGED <<entries, leaf, phase, runAbortController, pendingSessionWrites, steerQueue, followUpQueue,
                  nextTurnQueue, run, operation, idleWrite, aborted, abortAsked, returned, patience, writes, queued,
                  operations, throws>>
  BY DEF harnessVars
<1>2. HarnessTypes' /\ OtherTypes' /\ Harness!NothingWaitsAfterRuns'
  BY <1>1 DEF HarnessInv, HarnessTypes, SessionOK, OtherTypes, Waits, Harness!NothingWaitsAfterRuns, Harness!NothingWaits
<1>3. QueuedPlaced'
  BY <1>1, QueuedStay DEF HarnessInv
<1>4. patience = "patient" => Alone' /\ WritesPlaced'
  BY <1>1, WritesStay DEF HarnessInv, Alone, Harness!Active
<1> QED
  BY <1>1, <1>2, <1>3, <1>4 DEF HarnessInv

THEOREM RecordIsKeptAlways == Embedding => RecordIsKept
<1>1. EmbeddedInit => EmbeddedInv
  BY ClientInvInit, HarnessInvInit DEF EmbeddedInit, EmbeddedInv
<1>2. EmbeddedInv /\ [EmbeddedNext]_EmbeddedVars => EmbeddedInv'
  <2> SUFFICES ASSUME EmbeddedInv, [EmbeddedNext]_EmbeddedVars PROVE EmbeddedInv'
    OBVIOUS
  <2>1. CASE OfClient
    BY <2>1, ClientInvStep, HarnessStays DEF OfClient, EmbeddedInv
  <2>2. CASE OfHarness
    BY <2>2, HarnessInvStep, ClientStays DEF OfHarness, EmbeddedInv
  <2>3. CASE UNCHANGED EmbeddedVars
    BY <2>3, HarnessStays, ClientStays DEF EmbeddedVars, EmbeddedInv
  <2> QED
    BY <2>1, <2>2, <2>3 DEF EmbeddedNext
<1>3. EmbeddedInv => /\ part = "rpc" => Rpc!AnswersMeet
                     /\ part = "harness" => /\ Harness!RequestSeesBranch /\ Harness!WritesKept /\ Harness!QueuedKept
                                            /\ Harness!NothingWaitsAfterRuns
  BY ClientMeets, BranchIsSeen, WritesAreKept, QueuedAreKept DEF EmbeddedInv, HarnessInv
<1>4. EmbeddedInv /\ [EmbeddedNext]_EmbeddedVars => [AsksOnlyUnlessAborted]_(Harness!harnessVars)
  <2> SUFFICES ASSUME EmbeddedInv, [EmbeddedNext]_EmbeddedVars PROVE [AsksOnlyUnlessAborted]_(Harness!harnessVars)
    OBVIOUS
  <2>1. CASE OfHarness
    BY <2>1, AbortIsHeard DEF OfHarness, EmbeddedInv
  <2>2. CASE OfClient \/ UNCHANGED EmbeddedVars
    BY <2>2 DEF OfClient, EmbeddedVars, harnessVars, Harness!harnessVars
  <2> QED
    BY <2>1, <2>2 DEF EmbeddedNext
<1> QED
  BY <1>1, <1>2, <1>3, <1>4, PTL DEF Embedding, EmbeddedVars, RecordIsKept, Harness!AbortStops, AsksOnlyUnlessAborted
===============================================================================
