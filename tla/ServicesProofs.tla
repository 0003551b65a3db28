--------------------------- MODULE ServicesProofs ---------------------------
(***************************************************************************)
(* For any callers, providers and limits, what is asked for at once is     *)
(* done once: tokens are exchanged once, one language server runs, one     *)
(* session is live, a line of the trace is written once.  Progress is      *)
(* shown of the calls that have not returned; settings and credentials     *)
(* that were stored stay stored; a compaction forgets nothing but where it *)
(* splits a turn; the output of a command is shown and kept as promised.   *)
(* One invariant for each part of Services (those of the settings and of   *)
(* the output are in ServicePartsProofs), what the types need beyond it,   *)
(* and at the end of each half the properties of the whole.                *)
(***************************************************************************)
EXTENDS ServicePartsProofs, SequenceLemmas, FiniteSetTheorems

(***************************************************************************)
(* The trace: its file, the append under way and the buffer, together.     *)
(***************************************************************************)
Ordered(s) == \A i, j \in DOMAIN s : i < j => s[i] < s[j]
Below(S, T) == \A x \in S, y \in T : x < y

\* Every line is in one of the three, or gone; and they are in order, unless
\* a synchronous flush has overtaken an append.
Apart(f, i, b) ==
    /\ IsInjective(f) /\ IsInjective(i) /\ IsInjective(b)
    /\ ToSet(f) \cap ToSet(i) = {} /\ (ToSet(f) \cup ToSet(i)) \cap ToSet(b) = {}
InOrder(f, i, b) ==
    /\ Ordered(f) /\ Ordered(i) /\ Ordered(b)
    /\ Below(ToSet(f), ToSet(i)) /\ Below(ToSet(f) \cup ToSet(i), ToSet(b))
Lines(f, i, b, lost, n, over) ==
    /\ f \in Seq(Nat) /\ i \in Seq(Nat) /\ b \in Seq(Nat) /\ n \in Nat
    /\ Apart(f, i, b)
    /\ ToSet(f) \cup ToSet(i) \cup ToSet(b) \cup lost = 1 .. n
    /\ (ToSet(f) \cup ToSet(i) \cup ToSet(b)) \cap lost = {}
    /\ ~over => InOrder(f, i, b)

LEMMA Nothing == <<>> \in Seq(Nat) /\ ToSet(<<>>) = {} /\ IsInjective(<<>>) /\ Ordered(<<>>)
<1>1. <<>> \in Seq(Nat) /\ ToSet(<<>>) = {}
  BY FewElements
<1>2. IsInjective(<<>>) /\ Ordered(<<>>)
  BY DEF IsInjective, Ordered
<1> QED
  BY <1>1, <1>2

LEMMA OrderedConcat ==
    ASSUME NEW s \in Seq(Nat), NEW t \in Seq(Nat), Ordered(s), Ordered(t), Below(ToSet(s), ToSet(t))
    PROVE  Ordered(s \o t)
<1> DEFINE c == s \o t
           m == Len(s)
           n == Len(t)
<1>1. /\ c \in Seq(Nat) /\ Len(c) = m + n
      /\ \A i \in 1 .. m : c[i] = s[i]
      /\ \A i \in 1 .. n : c[m + i] = t[i]
  BY ConcatElements
<1>2. DOMAIN s = 1 .. m /\ DOMAIN t = 1 .. n /\ DOMAIN c = 1 .. Len(c) /\ m \in Nat /\ n \in Nat
  BY <1>1
<1>3. \A i \in 1 .. m, j \in 1 .. n : s[i] < t[j]
  BY <1>2 DEF Below, ToSet
<1> HIDE DEF c
<1>4. ASSUME NEW i \in 1 .. m + n, NEW j \in 1 .. m + n, i < j PROVE c[i] < c[j]
  <2> HIDE DEF m, n
  <2>1. CASE j <= m
    <3>1. i \in 1 .. m /\ j \in 1 .. m
      BY <1>2, <1>4, <2>1
    <3>2. c[i] = s[i] /\ c[j] = s[j] /\ i \in DOMAIN s /\ j \in DOMAIN s
      BY <1>1, <1>2, <3>1
    <3> QED
      BY <1>4, <3>2 DEF Ordered
  <2>2. CASE j > m /\ i <= m
    <3>1. j - m \in 1 .. n /\ j = m + (j - m) /\ i \in 1 .. m
      BY <1>2, <2>2
    <3>2. c[j] = t[j - m] /\ c[i] = s[i]
      BY <1>1, <3>1
    <3> QED
      BY <1>3, <3>1, <3>2
  <2>3. CASE i > m
    <3>1. /\ j - m \in 1 .. n /\ i - m \in 1 .. n /\ i - m < j - m
          /\ j = m + (j - m) /\ i = m + (i - m)
      BY <1>2, <1>4, <2>3
    <3>2. c[j] = t[j - m] /\ c[i] = t[i - m]
      BY <1>1, <3>1
    <3> QED
      BY <1>2, <3>1, <3>2 DEF Ordered
  <2> QED
    BY <1>2, <2>1, <2>2, <2>3
<1> QED
  BY <1>1, <1>2, <1>4 DEF Ordered, c

\* One more line at the end of the buffer.
LEMMA LinesPublished ==
    ASSUME NEW f, NEW i, NEW b, NEW lost, NEW n, NEW over, Lines(f, i, b, lost, n, over)
    PROVE  Lines(f, i, Append(b, n + 1), lost, n + 1, over)
<1> DEFINE e == n + 1
           d == <<e>>
           c == b \o d
<1>1. /\ f \in Seq(Nat) /\ i \in Seq(Nat) /\ b \in Seq(Nat) /\ n \in Nat /\ e \in Nat
      /\ Apart(f, i, b)
      /\ ToSet(f) \cup ToSet(i) \cup ToSet(b) \cup lost = 1 .. n
      /\ (ToSet(f) \cup ToSet(i) \cup ToSet(b)) \cap lost = {}
      /\ ~over => InOrder(f, i, b)
  BY DEF Lines
<1>2. Append(b, e) = c
  BY <1>1
<1>3. d \in Seq(Nat) /\ ToSet(d) = {e} /\ Len(d) = 1 /\ d[1] = e
  BY <1>1, FewElements
<1>4. IsInjective(d) /\ Ordered(d)
  BY <1>3 DEF IsInjective, Ordered
<1>5. e \notin 1 .. n /\ \A x \in 1 .. n : x < e
  BY <1>1
<1>6. 1 .. e = (1 .. n) \cup {e}
  BY <1>1
<1> HIDE DEF e, d
<1>7. c \in Seq(Nat) /\ ToSet(c) = ToSet(b) \cup {e}
  BY <1>1, <1>3, ConcatElements
<1>8. IsInjective(c)
  BY <1>1, <1>3, <1>4, <1>5, InjectiveConcat DEF Apart
<1>9. Apart(f, i, c)
  BY <1>1, <1>5, <1>7, <1>8 DEF Apart
<1>10. ASSUME ~over PROVE InOrder(f, i, c)
  <2>1. InOrder(f, i, b)
    BY <1>1, <1>10
  <2>2. Below(ToSet(b), ToSet(d)) /\ Below(ToSet(f) \cup ToSet(i), ToSet(d))
    BY <1>1, <1>3, <1>5 DEF Below
  <2>3. Ordered(c)
    BY <1>1, <1>3, <1>4, <2>1, <2>2, OrderedConcat DEF InOrder
  <2> HIDE DEF c
  <2>4. Below(ToSet(f) \cup ToSet(i), ToSet(c))
    BY <1>3, <1>7, <2>1, <2>2 DEF InOrder, Below
  <2> QED
    BY <2>1, <2>3, <2>4 DEF InOrder
<1> HIDE DEF c
<1>11. Lines(f, i, c, lost, e, over)
  BY <1>1, <1>5, <1>6, <1>7, <1>9, <1>10 DEF Lines
<1> QED
  BY <1>2, <1>11 DEF e

\* The buffer is taken by an append.
LEMMA LinesTaken ==
    ASSUME NEW f, NEW b, NEW lost, NEW n, NEW over, Lines(f, <<>>, b, lost, n, over)
    PROVE  Lines(f, b, <<>>, lost, n, over)
  BY Nothing DEF Lines, Apart, InOrder, Below

\* An append ends.
LEMMA LinesAppended ==
    ASSUME NEW f, NEW i, NEW b, NEW lost, NEW n, NEW over, Lines(f, i, b, lost, n, over)
    PROVE  Lines(f \o i, <<>>, b, lost, n, over)
<1> DEFINE c == f \o i
<1>1. /\ f \in Seq(Nat) /\ i \in Seq(Nat) /\ b \in Seq(Nat) /\ n \in Nat
      /\ Apart(f, i, b) /\ (~over => InOrder(f, i, b))
  BY DEF Lines
<1>2. c \in Seq(Nat) /\ ToSet(c) = ToSet(f) \cup ToSet(i)
  BY <1>1, ConcatElements
<1>3. IsInjective(c)
  BY <1>1, InjectiveConcat DEF Apart
<1>4. ~over => Ordered(c)
  BY <1>1, OrderedConcat DEF InOrder
<1> HIDE DEF c
<1>5. Lines(c, <<>>, b, lost, n, over)
  BY <1>1, <1>2, <1>3, <1>4, Nothing DEF Lines, Apart, InOrder, Below
<1> QED
  BY <1>5 DEF c

\* An append fails, or an exit interrupts it.
LEMMA LinesLost ==
    ASSUME NEW f, NEW i, NEW b, NEW lost, NEW n, NEW over, Lines(f, i, b, lost, n, over)
    PROVE  Lines(f, <<>>, b, lost \cup ToSet(i), n, over)
<1>1. Apart(f, <<>>, b) /\ (~over => InOrder(f, <<>>, b))
  BY Nothing DEF Lines, Apart, InOrder, Below
<1>2. /\ ToSet(f) \cup {} \cup ToSet(b) \cup (lost \cup ToSet(i)) = 1 .. n
      /\ (ToSet(f) \cup {} \cup ToSet(b)) \cap (lost \cup ToSet(i)) = {}
  BY DEF Lines, Apart
<1> QED
  BY <1>1, <1>2, Nothing DEF Lines

\* The buffer is written behind what the file has.
LEMMA LinesWrittenOut ==
    ASSUME NEW f, NEW i, NEW b, NEW lost, NEW n, NEW over, Lines(f, i, b, lost, n, over)
    PROVE  Lines(f \o b, i, <<>>, lost, n, over \/ i # <<>>)
<1> DEFINE c == f \o b
<1>1. /\ f \in Seq(Nat) /\ i \in Seq(Nat) /\ b \in Seq(Nat) /\ n \in Nat
      /\ Apart(f, i, b) /\ (~over => InOrder(f, i, b))
  BY DEF Lines
<1>2. c \in Seq(Nat) /\ ToSet(c) = ToSet(f) \cup ToSet(b)
  BY <1>1, ConcatElements
<1>3. IsInjective(c)
  <2>1. ToSet(f) \cap ToSet(b) = {}
    BY <1>1 DEF Apart
  <2> QED
    BY <1>1, <2>1, InjectiveConcat DEF Apart
<1>4. ~over => Ordered(c)
  <2>1. ~over => Below(ToSet(f), ToSet(b))
    BY <1>1 DEF InOrder, Below
  <2> QED
    BY <1>1, <2>1, OrderedConcat DEF InOrder
<1> HIDE DEF c
<1>5. Apart(c, i, <<>>)
  BY <1>1, <1>2, <1>3, Nothing DEF Apart
<1>6. ASSUME ~(over \/ i # <<>>) PROVE InOrder(c, i, <<>>)
  BY <1>4, <1>6, Nothing DEF InOrder, Below
<1>7. Lines(c, i, <<>>, lost, n, over \/ i # <<>>)
  BY <1>1, <1>2, <1>5, <1>6, Nothing DEF Lines
<1> QED
  BY <1>7 DEF c

LinesNow == Lines(traceFile, inFlight, buffered, gone, emitted, overtaken)
Flushes == buffered # <<>> => flushTimer \/ inFlight # <<>> \/ unscheduled
TraceInv == LinesNow /\ Flushes

LEMMA TraceInvInit == Trace!TraceInit => TraceInv
<1> SUFFICES ASSUME Trace!TraceInit PROVE TraceInv
  OBVIOUS
<1>1. /\ traceFile = <<>> /\ inFlight = <<>> /\ buffered = <<>> /\ gone = {} /\ emitted = 0
  BY DEF Trace!TraceInit
<1>2. 1 .. 0 = {} /\ 0 \in Nat
  OBVIOUS
<1> QED
  BY <1>1, <1>2, Nothing DEF TraceInv, LinesNow, Flushes, Lines, Apart, InOrder, Below

\* Taken by an append, if there is none, what the buffer holds is still there.
LEMMA FlushKeeps ==
    ASSUME NEW lines, NEW n, Lines(traceFile, inFlight, lines, gone, n, overtaken), Trace!FlushAsync(lines)
    PROVE  Lines(traceFile, inFlight', buffered', gone, n, overtaken)
<1>1. CASE inFlight = <<>>
  BY <1>1, LinesTaken DEF Trace!FlushAsync
<1>2. CASE inFlight # <<>>
  BY <1>2 DEF Trace!FlushAsync
<1> QED
  BY <1>1, <1>2

\* The end of an append.
LEMMA FinallyKeeps ==
    ASSUME NEW f, NEW lost, Lines(f, <<>>, buffered, lost, emitted, overtaken), Trace!Finally
    PROVE  Lines(f, inFlight', buffered', lost, emitted, overtaken)
<1>1. CASE Len(buffered) >= Batch
  BY <1>1, LinesTaken DEF Trace!Finally
<1>2. CASE ~(Len(buffered) >= Batch)
  BY <1>2 DEF Trace!Finally
<1> QED
  BY <1>1, <1>2

LEMMA TraceLinesStep ==
    ASSUME LinesNow, Trace!TraceNext
    PROVE  LinesNow'
<1>1. CASE Trace!Publish
  <2> DEFINE n == emitted + 1
             lines == Append(buffered, n)
  <2>1. /\ emitted' = n /\ UNCHANGED <<traceFile, gone, overtaken>>
        /\ Trace!FlushAsync(lines) \/ (buffered' = lines /\ UNCHANGED inFlight)
    BY <1>1 DEF Trace!Publish
  <2>2. Lines(traceFile, inFlight, lines, gone, n, overtaken)
    BY LinesPublished DEF LinesNow
  <2> HIDE DEF n, lines
  <2>3. Lines(traceFile, inFlight', buffered', gone, n, overtaken)
    BY <2>1, <2>2, FlushKeeps
  <2> QED
    BY <2>1, <2>3 DEF LinesNow
<1>2. CASE Trace!TimerFires
  <2>1. Trace!FlushAsync(buffered) /\ UNCHANGED <<traceFile, emitted, gone, overtaken>>
    BY <1>2 DEF Trace!TimerFires
  <2> QED
    BY <2>1, FlushKeeps DEF LinesNow
<1>3. CASE Trace!AppendEnds
  <2>1. traceFile' = traceFile \o inFlight /\ Trace!Finally /\ UNCHANGED <<emitted, gone, overtaken>>
    BY <1>3 DEF Trace!AppendEnds
  <2> QED
    BY <2>1, LinesAppended, FinallyKeeps DEF LinesNow
<1>4. CASE Trace!AppendFails
  <2>1. gone' = gone \cup ToSet(inFlight) /\ Trace!Finally /\ UNCHANGED <<traceFile, emitted, overtaken>>
    BY <1>4 DEF Trace!AppendFails, Trace!ToSet, ToSet
  <2> QED
    BY <2>1, LinesLost, FinallyKeeps DEF LinesNow
<1>5. ASSUME Trace!WriteOut
      PROVE  Lines(traceFile', inFlight, buffered', gone, emitted, overtaken')
  BY <1>5, LinesWrittenOut DEF LinesNow, Trace!WriteOut
<1>6. CASE Trace!FlushSync
  <2>1. Trace!WriteOut \/ UNCHANGED <<buffered, traceFile, overtaken>>
    BY <1>6 DEF Trace!FlushSync
  <2>2. UNCHANGED <<inFlight, emitted, gone>>
    BY <1>6 DEF Trace!FlushSync
  <2> QED
    BY <1>5, <2>1, <2>2 DEF LinesNow
<1>7. CASE Trace!Signalled
  <2>1. /\ Trace!WriteOut /\ gone' = gone \cup ToSet(inFlight) /\ inFlight' = <<>> /\ emitted' = emitted
    BY <1>7 DEF Trace!Signalled, Trace!ToSet, ToSet
  <2> QED
    BY <1>5, <2>1, LinesLost DEF LinesNow
<1> QED
  BY <1>1, <1>2, <1>3, <1>4, <1>6, <1>7 DEF Trace!TraceNext, Trace!TraceStep

\* What waits in the buffer has a flush coming.
LEMMA TraceFlushesStep ==
    ASSUME Flushes, Trace!TraceNext
    PROVE  Flushes'
<1> USE DEF Flushes
<1>1. CASE Trace!Publish
  BY <1>1 DEF Trace!Publish, Trace!FlushAsync
<1>2. CASE Trace!TimerFires
  BY <1>2 DEF Trace!TimerFires, Trace!FlushAsync
<1>3. CASE Trace!AppendEnds \/ Trace!AppendFails
  BY <1>3 DEF Trace!AppendEnds, Trace!AppendFails, Trace!Finally
<1>4. CASE Trace!FlushSync \/ Trace!Signalled
  BY <1>4 DEF Trace!FlushSync, Trace!Signalled, Trace!WriteOut
<1> QED
  BY <1>1, <1>2, <1>3, <1>4 DEF Trace!TraceNext, Trace!TraceStep

LEMMA TraceInvStep ==
    ASSUME TraceInv, Trace!TraceNext
    PROVE  TraceInv'
  BY TraceLinesStep, TraceFlushesStep DEF TraceInv

LEMMA TraceInvWhole == TraceInv => Trace!TraceIsWhole
<1> SUFFICES ASSUME TraceInv PROVE Trace!TraceIsWhole
  OBVIOUS
<1> DEFINE part1 == traceFile \o inFlight
           all == part1 \o buffered
<1>1. Lines(part1, <<>>, buffered, gone, emitted, overtaken)
  BY LinesAppended DEF TraceInv, LinesNow
<1>2. Lines(all, <<>>, <<>>, gone, emitted, overtaken)
  <2> HIDE DEF part1
  <2>1. Lines(part1, buffered, <<>>, gone, emitted, overtaken)
    BY <1>1, LinesTaken
  <2> QED
    BY <2>1, LinesAppended
<1> HIDE DEF part1, all
<1>3. /\ all \in Seq(Nat) /\ IsInjective(all) /\ (~overtaken => Ordered(all))
      /\ ToSet(all) \cup gone = 1 .. emitted /\ ToSet(all) \cap gone = {}
  BY <1>2, Nothing DEF Lines, Apart, InOrder
<1>4. \A i, j \in DOMAIN all : i < j => all[i] # all[j] /\ (~overtaken => all[i] < all[j])
  <2>1. \A i, j \in DOMAIN all : i < j => i # j
    BY <1>3
  <2> QED
    BY <1>3, <2>1 DEF IsInjective, Ordered
<1>5. Trace!ToSet(all) = ToSet(all)
  BY DEF Trace!ToSet, ToSet
<1>6. (traceFile \o inFlight) \o buffered = all
  BY DEF all, part1
<1> QED
  BY <1>3, <1>4, <1>5, <1>6 DEF Trace!TraceIsWhole, TraceInv, Flushes

(***************************************************************************)
(* The session of the runtime, for callers that wait for one another.      *)
(***************************************************************************)
Events == {"start", "shutdown"}
RuntimeTypes ==
    /\ current \in Runtime!Sessions
    /\ session \in [Runtime!Sessions -> {"none", "live", "disposed"}]
    /\ heard \in [Runtime!Sessions -> Seq(Events)]
    /\ replacing \in [Procs -> {"idle", "before", "shutdown", "creating", "setup", "binding", "again",
                                "quitting", "gone"}]

\* Nobody is in an operation while another is.
OneOperates == \A c, d \in Procs : replacing[c] # "idle" /\ replacing[d] # "idle" => c = d

StartsFirst(events) ==
    \A i, j \in DOMAIN events : events[i] = "start" /\ events[j] = "shutdown" => i < j
Told(s) == "shutdown" \in ToSet(heard[s])

\* What a session was told agrees with what it is.
Telling ==
    \A s \in Runtime!Sessions :
        /\ session[s] = "none" => heard[s] = <<>> /\ s # current
        /\ session[s] = "live" => s = current
        /\ session[s] = "disposed" => Told(s)
        /\ StartsFirst(heard[s])

CurrentIsLive == session[current] = "live"

\* Where an operation stands says what has become of the current session.
Standing ==
    /\ (\A c \in Procs : replacing[c] \in {"idle", "before"}) => failed \/ CurrentIsLive
    /\ \A c \in Procs :
          /\ replacing[c] \in {"shutdown", "quitting"} => Told(current)
          /\ replacing[c] = "creating" => ~CurrentIsLive
          /\ replacing[c] \in {"setup", "binding", "again"} => CurrentIsLive /\ ~Told(current)

RuntimeInv == RuntimeTypes /\ (patient => OneOperates /\ Telling /\ Standing)

LEMMA RuntimeInvInit == Runtime!RuntimeInit => RuntimeInv
<1> SUFFICES ASSUME Runtime!RuntimeInit PROVE RuntimeInv
  OBVIOUS
<1> USE DEF Runtime!RuntimeInit
<1>1. 1 \in Runtime!Sessions
  BY SessionsAssumption DEF Runtime!Sessions
<1>2. <<"start">> \in Seq(Events) /\ <<>> \in Seq(Events) /\ ToSet(<<"start">>) = {"start"}
      /\ Len(<<"start">>) = 1 /\ <<"start">>[1] = "start"
  BY FewElements DEF Events
<1>3. RuntimeTypes
  BY <1>1, <1>2 DEF RuntimeTypes
<1>4. StartsFirst(<<>>) /\ StartsFirst(<<"start">>)
  BY <1>2 DEF StartsFirst
<1>5. Telling
  BY <1>1, <1>2, <1>4 DEF Telling
<1>6. OneOperates /\ Standing
  BY <1>1 DEF OneOperates, Standing, CurrentIsLive
<1> QED
  BY <1>3, <1>5, <1>6 DEF RuntimeInv

\* Telling a session adds an event to what it has heard.
LEMMA TellsOne ==
    ASSUME RuntimeTypes, NEW s \in Runtime!Sessions, NEW e \in Events, Runtime!Tell(s, e)
    PROVE  /\ heard' \in [Runtime!Sessions -> Seq(Events)]
           /\ heard'[s] = Append(heard[s], e) /\ ToSet(heard'[s]) = ToSet(heard[s]) \cup {e}
           /\ \A t \in Runtime!Sessions : t # s => heard'[t] = heard[t]
<1>1. heard[s] \in Seq(Events)
  BY DEF RuntimeTypes
<1>2. Append(heard[s], e) \in Seq(Events) /\ ToSet(Append(heard[s], e)) = ToSet(heard[s]) \cup {e}
  BY <1>1, AppendElements
<1> QED
  BY <1>2 DEF Runtime!Tell, RuntimeTypes

\* An end may always be told, a start before it only.
LEMMA StartsFirstStep ==
    ASSUME NEW events \in Seq(Events), NEW e \in Events, StartsFirst(events),
           e = "start" => "shutdown" \notin ToSet(events)
    PROVE  StartsFirst(Append(events, e))
<1> DEFINE n == Len(events)
           all == Append(events, e)
<1>1. /\ DOMAIN all = 1 .. n + 1 /\ DOMAIN events = 1 .. n /\ n \in Nat /\ all[n + 1] = e
      /\ \A i \in 1 .. n : all[i] = events[i]
  BY AppendElements
<1> HIDE DEF all, n
<1> SUFFICES ASSUME NEW i \in 1 .. n + 1, NEW j \in 1 .. n + 1, all[i] = "start", all[j] = "shutdown"
             PROVE  i < j
  BY <1>1 DEF StartsFirst, all
<1>2. i # j
  OBVIOUS
<1>3. CASE i = n + 1
  <2>1. j \in 1 .. n
    BY <1>1, <1>2, <1>3
  <2>2. events[j] = "shutdown"
    BY <1>1, <2>1
  <2>3. e = "start"
    BY <1>1, <1>3
  <2> QED
    BY <1>1, <2>1, <2>2, <2>3 DEF ToSet
<1>4. CASE i # n + 1
  <2>1. i \in 1 .. n
    BY <1>1, <1>4
  <2>2. CASE j = n + 1
    BY <1>1, <2>1, <2>2
  <2>3. CASE j # n + 1
    <3>1. j \in 1 .. n
      BY <1>1, <2>3
    <3> QED
      BY <1>1, <2>1, <3>1 DEF StartsFirst
  <2> QED
    BY <2>2, <2>3
<1> QED
  BY <1>3, <1>4

\* What a step of the runtime may do.
RuntimeAction(c) ==
    \/ Runtime!BeginReplacement(c) \/ Runtime!Declined(c) \/ Runtime!Teardown(c) \/ Runtime!Dispose(c)
    \/ Runtime!Created(c) \/ Runtime!SetUp(c) \/ Runtime!CreateFails(c) \/ Runtime!Bound(c)
    \/ Runtime!BoundAgain(c) \/ Runtime!Quit(c) \/ Runtime!QuitDisposes(c)

\* The session that is created is one that is not there yet.
Next1 == CHOOSE s \in Runtime!New : \A t \in Runtime!New : s <= t
LEMMA CreatedIsNew ==
    ASSUME Runtime!New # {}
    PROVE  Next1 \in Runtime!Sessions /\ session[Next1] = "none"
<1>1. Runtime!New \subseteq Nat
  BY DEF Runtime!New, Runtime!Sessions
<1>2. PICK s \in Runtime!New : \A t \in Runtime!New : ~(<<t, s>> \in Less)
  BY <1>1, WFMin, LessWellFounded
<1>3. \A t \in Runtime!New : s <= t
  <2> SUFFICES ASSUME NEW t \in Runtime!New, t < s PROVE FALSE
    BY <1>1
  <2> QED
    BY <1>1, <1>2, LessIsLess
<1>4. Next1 \in Runtime!New
  BY <1>3 DEF Next1
<1> QED
  BY <1>4 DEF Runtime!New

LEMMA CreatedDoes ==
    ASSUME NEW c \in Procs, Runtime!Created(c)
    PROVE  /\ Next1 \in Runtime!Sessions /\ session[Next1] = "none"
           /\ current' = Next1 /\ session' = [session EXCEPT ![Next1] = "live"] /\ failed' = FALSE
           /\ \/ Runtime!Goes(c, "creating", "binding") /\ Runtime!Tell(Next1, "start")
              \/ Runtime!Goes(c, "creating", "setup") /\ UNCHANGED heard
           /\ UNCHANGED patient
  BY CreatedIsNew DEF Runtime!Created, Next1

LEMMA RuntimeTypesStep ==
    ASSUME RuntimeTypes, NEW c \in Procs, RuntimeAction(c)
    PROVE  RuntimeTypes' /\ patient' = patient
<1> USE DEF RuntimeTypes
<1>1. Runtime!Sessions' = Runtime!Sessions
  BY DEF Runtime!Sessions
<1>2. CASE \/ Runtime!BeginReplacement(c) \/ Runtime!Declined(c) \/ Runtime!CreateFails(c) \/ Runtime!BoundAgain(c)
  BY <1>2 DEF Runtime!BeginReplacement, Runtime!Declined, Runtime!CreateFails, Runtime!BoundAgain, Runtime!Goes
<1>3. CASE Runtime!Teardown(c) \/ Runtime!SetUp(c) \/ Runtime!Bound(c) \/ Runtime!Quit(c)
  <2>1. UNCHANGED <<current, session, patient>>
    BY <1>3 DEF Runtime!Teardown, Runtime!SetUp, Runtime!Bound, Runtime!Quit
  <2>2. heard' = heard \/ Runtime!Tell(current, "start") \/ Runtime!Tell(current, "shutdown")
    BY <1>3 DEF Runtime!Teardown, Runtime!SetUp, Runtime!Bound, Runtime!Quit
  <2>3. heard' \in [Runtime!Sessions -> Seq(Events)]
    BY <2>2, TellsOne DEF Events
  <2>4. replacing' \in [Procs -> {"idle", "before", "shutdown", "creating", "setup", "binding", "again",
                                  "quitting", "gone"}]
    BY <1>3 DEF Runtime!Teardown, Runtime!SetUp, Runtime!Bound, Runtime!Quit, Runtime!Goes
  <2> QED
    BY <2>1, <2>3, <2>4
<1>4. CASE Runtime!Dispose(c) \/ Runtime!QuitDisposes(c)
  BY <1>4 DEF Runtime!Dispose, Runtime!QuitDisposes, Runtime!Goes
<1>5. CASE Runtime!Created(c)
  <2>1. heard' \in [Runtime!Sessions -> Seq(Events)]
    BY <1>5, CreatedDoes, TellsOne DEF Events
  <2> QED
    BY <1>5, <2>1, CreatedDoes DEF Runtime!Goes
<1> QED
  BY <1>2, <1>3, <1>4, <1>5 DEF RuntimeAction

Waiting == OneOperates /\ Telling /\ Standing

\* An operation begins when nobody is in one, and goes on alone.
LEMMA OneOperatesStep ==
    ASSUME RuntimeTypes, patient, OneOperates, NEW c \in Procs, RuntimeAction(c)
    PROVE  /\ OneOperates' /\ \A d \in Procs : d # c => replacing[d] = "idle" /\ replacing'[d] = "idle"
           /\ \E to \in {"idle", "before", "shutdown", "creating", "setup", "binding", "again",
                         "quitting", "gone"} : replacing' = [replacing EXCEPT ![c] = to]
<1>1. \A d \in Procs : d # c => replacing[d] = "idle"
  <2>1. CASE Runtime!BeginReplacement(c) \/ Runtime!Quit(c)
    BY <2>1 DEF Runtime!BeginReplacement, Runtime!Quit
  <2>2. CASE replacing[c] # "idle"
    BY <2>2 DEF OneOperates
  <2>3. Runtime!BeginReplacement(c) \/ Runtime!Quit(c) \/ replacing[c] # "idle"
    BY DEF RuntimeAction, Runtime!Declined, Runtime!Teardown, Runtime!Dispose, Runtime!Created,
       Runtime!SetUp, Runtime!CreateFails, Runtime!Bound, Runtime!BoundAgain, Runtime!QuitDisposes, Runtime!Goes
  <2> QED
    BY <2>1, <2>2, <2>3
<1>2. \E to \in {"idle", "before", "shutdown", "creating", "setup", "binding", "again",
                 "quitting", "gone"} : replacing' = [replacing EXCEPT ![c] = to]
  BY DEF RuntimeAction, Runtime!BeginReplacement, Runtime!Quit, Runtime!Declined, Runtime!Teardown,
     Runtime!Dispose, Runtime!Created, Runtime!SetUp, Runtime!CreateFails, Runtime!Bound,
     Runtime!BoundAgain, Runtime!QuitDisposes, Runtime!Goes
<1>3. \A d \in Procs : d # c => replacing'[d] = replacing[d]
  BY <1>2 DEF RuntimeTypes
<1> QED
  BY <1>1, <1>2, <1>3 DEF OneOperates

\* To tell the current session changes nothing else that is said of it.
LEMMA TellsCurrent ==
    ASSUME RuntimeTypes, Telling, NEW e \in Events,
           Runtime!Tell(current, e), UNCHANGED <<current, session>>,
           e = "start" => ~Told(current)
    PROVE  /\ Telling' /\ (CurrentIsLive' <=> CurrentIsLive)
           /\ (Told(current)' <=> Told(current) \/ e = "shutdown")
<1>1. /\ current \in Runtime!Sessions /\ heard[current] \in Seq(Events)
      /\ heard'[current] = Append(heard[current], e) /\ ToSet(heard'[current]) = ToSet(heard[current]) \cup {e}
      /\ \A t \in Runtime!Sessions : t # current => heard'[t] = heard[t]
  BY TellsOne DEF RuntimeTypes
<1>2. Told(current)' <=> Told(current) \/ e = "shutdown"
  BY <1>1 DEF Told, Events
<1>3. CurrentIsLive' <=> CurrentIsLive
  BY DEF CurrentIsLive
<1>4. StartsFirst(heard'[current])
  <2>1. StartsFirst(heard[current])
    BY <1>1 DEF Telling
  <2> QED
    BY <1>1, <2>1, StartsFirstStep DEF Told
<1>5. Telling'
  <2> SUFFICES ASSUME NEW s \in Runtime!Sessions
               PROVE  /\ session'[s] = "none" => heard'[s] = <<>> /\ s # current'
                      /\ session'[s] = "live" => s = current'
                      /\ session'[s] = "disposed" => "shutdown" \in ToSet(heard'[s])
                      /\ StartsFirst(heard'[s])
    BY DEF Telling, Told, Runtime!Sessions
  <2>1. CASE s = current
    BY <1>1, <1>4, <2>1 DEF Telling, Told
  <2>2. CASE s # current
    BY <1>1, <2>2 DEF Telling, Told
  <2> QED
    BY <2>1, <2>2
<1> QED
  BY <1>2, <1>3, <1>5

LEMMA WaitingStep ==
    ASSUME RuntimeTypes, patient, Waiting, NEW c \in Procs, RuntimeAction(c)
    PROVE  Waiting'
<1>1. OneOperates' /\ \A d \in Procs : d # c => replacing[d] = "idle" /\ replacing'[d] = "idle"
  BY OneOperatesStep DEF Waiting
<1>2. replacing \in [Procs -> {"idle", "before", "shutdown", "creating", "setup", "binding", "again",
                              "quitting", "gone"}] /\ Telling /\ Standing
  BY DEF RuntimeTypes, Waiting
\* Of the operations, that of c alone stands anywhere.
<1>3. ASSUME Telling',
             replacing'[c] \in {"idle", "before"} => failed' \/ CurrentIsLive',
             replacing'[c] \in {"shutdown", "quitting"} => Told(current)',
             replacing'[c] = "creating" => ~CurrentIsLive',
             replacing'[c] \in {"setup", "binding", "again"} => CurrentIsLive' /\ ~Told(current)'
      PROVE  Waiting'
  BY <1>1, <1>3 DEF Waiting, Standing
<1>4. ASSUME UNCHANGED <<current, session, heard>>
      PROVE  Telling' /\ (CurrentIsLive' <=> CurrentIsLive) /\ (Told(current)' <=> Told(current))
  BY <1>2, <1>4 DEF Telling, CurrentIsLive, Told, Runtime!Sessions
<1>5. replacing[c] \in {"idle", "before"} => failed \/ CurrentIsLive
  BY <1>1, <1>2 DEF Standing
<1>6. CASE Runtime!BeginReplacement(c) \/ Runtime!Declined(c)
  <2>1. /\ UNCHANGED <<current, session, heard, failed>> /\ replacing[c] \in {"idle", "before"}
        /\ replacing'[c] \in {"idle", "before"}
    BY <1>2, <1>6 DEF Runtime!BeginReplacement, Runtime!Declined, Runtime!Goes
  <2> QED
    BY <1>3, <1>4, <1>5, <2>1
<1>7. CASE Runtime!Teardown(c) \/ Runtime!Quit(c)
  <2>1. /\ Runtime!Tell(current, "shutdown") /\ UNCHANGED <<current, session>>
        /\ replacing'[c] \in {"shutdown", "quitting"}
    BY <1>2, <1>7 DEF Runtime!Teardown, Runtime!Quit, Runtime!Goes
  <2>2. Telling' /\ Told(current)'
    BY <1>2, <2>1, TellsCurrent DEF Events
  <2> QED
    BY <1>3, <2>1, <2>2
<1>8. CASE Runtime!Dispose(c) \/ Runtime!QuitDisposes(c)
  <2>1. /\ session' = [session EXCEPT ![current] = "disposed"] /\ UNCHANGED <<current, heard>>
        /\ replacing[c] \in {"shutdown", "quitting"} /\ replacing'[c] \in {"creating", "gone"}
    BY <1>2, <1>8 DEF Runtime!Dispose, Runtime!QuitDisposes, Runtime!Goes
  <2>2. Told(current)
    BY <1>2, <2>1 DEF Standing
  <2>3. session'[current] = "disposed" /\ \A s \in Runtime!Sessions : s # current => session'[s] = session[s]
    BY <2>1 DEF RuntimeTypes
  <2>4. Telling' /\ ~CurrentIsLive'
    BY <1>2, <2>1, <2>2, <2>3 DEF Telling, Told, CurrentIsLive, Runtime!Sessions
  <2> QED
    BY <1>3, <2>1, <2>4
<1>9. CASE Runtime!Created(c)
  <2> DEFINE s == Next1
  <2>1. /\ s \in Runtime!Sessions /\ session[s] = "none" /\ replacing[c] = "creating"
        /\ current' = s /\ session' = [session EXCEPT ![s] = "live"]
        /\ \/ Runtime!Tell(s, "start") /\ replacing'[c] = "binding"
           \/ UNCHANGED heard /\ replacing'[c] = "setup"
    <3>1. /\ Next1 \in Runtime!Sessions /\ session[Next1] = "none"
          /\ current' = Next1 /\ session' = [session EXCEPT ![Next1] = "live"]
          /\ \/ Runtime!Goes(c, "creating", "binding") /\ Runtime!Tell(Next1, "start")
             \/ Runtime!Goes(c, "creating", "setup") /\ UNCHANGED heard
      BY <1>9, CreatedDoes
    <3>2. /\ Runtime!Goes(c, "creating", "binding") => replacing[c] = "creating" /\ replacing'[c] = "binding"
          /\ Runtime!Goes(c, "creating", "setup") => replacing[c] = "creating" /\ replacing'[c] = "setup"
      BY <1>2 DEF Runtime!Goes
    <3> QED
      BY <3>1, <3>2
  <2> HIDE DEF s
  <2>2. ~CurrentIsLive /\ heard[s] = <<>>
    BY <1>2, <2>1 DEF Standing, Telling
  <2>3. session'[s] = "live" /\ \A t \in Runtime!Sessions : t # s => session'[t] = session[t]
    BY <2>1 DEF RuntimeTypes
  <2>4. /\ heard'[s] = <<>> \/ heard'[s] = <<"start">>
        /\ \A t \in Runtime!Sessions : t # s => heard'[t] = heard[t]
    <3>1. CASE UNCHANGED heard
      BY <2>2, <3>1
    <3>2. CASE Runtime!Tell(s, "start")
      <4>1. heard'[s] = Append(heard[s], "start") /\ \A t \in Runtime!Sessions : t # s => heard'[t] = heard[t]
        BY <2>1, <3>2, TellsOne DEF Events
      <4> QED
        BY <2>2, <4>1
    <3> QED
      BY <2>1, <3>1, <3>2
  <2>5. StartsFirst(heard'[s]) /\ "shutdown" \notin ToSet(heard'[s])
    <3>1. /\ ToSet(<<>>) = {} /\ ToSet(<<"start">>) = {"start"}
          /\ Len(<<"start">>) = 1 /\ <<"start">>[1] = "start"
      BY FewElements
    <3> QED
      BY <2>4, <3>1 DEF StartsFirst
  <2>6. Telling'
    <3> SUFFICES ASSUME NEW t \in Runtime!Sessions
                 PROVE  /\ session'[t] = "none" => heard'[t] = <<>> /\ t # current'
                        /\ session'[t] = "live" => t = current'
                        /\ session'[t] = "disposed" => "shutdown" \in ToSet(heard'[t])
                        /\ StartsFirst(heard'[t])
      BY DEF Telling, Told, Runtime!Sessions
    <3>1. CASE t = s
      BY <2>1, <2>3, <2>5, <3>1
    <3>2. CASE t # s
      BY <1>2, <2>1, <2>2, <2>3, <2>4, <3>2 DEF Telling, Told, CurrentIsLive
    <3> QED
      BY <3>1, <3>2
  <2>7. CurrentIsLive' /\ ~Told(current)'
    BY <2>1, <2>3, <2>5 DEF CurrentIsLive, Told
  <2> QED
    BY <1>3, <2>1, <2>6, <2>7
<1>10. CASE Runtime!SetUp(c) \/ Runtime!Bound(c)
  <2>1. /\ UNCHANGED <<current, session>> /\ replacing[c] \in {"setup", "binding"}
        /\ Runtime!Tell(current, "start") \/ UNCHANGED heard
        /\ replacing'[c] \in {"binding", "again", "idle"}
    BY <1>2, <1>10 DEF Runtime!SetUp, Runtime!Bound, Runtime!Goes
  <2>2. CurrentIsLive /\ ~Told(current)
    BY <1>2, <2>1 DEF Standing
  <2>3. Telling' /\ CurrentIsLive' /\ ~Told(current)'
    BY <1>2, <1>4, <2>1, <2>2, TellsCurrent DEF Events
  <2> QED
    BY <1>3, <2>1, <2>3
<1>11. CASE Runtime!CreateFails(c)
  <2>1. UNCHANGED <<current, session, heard>> /\ failed' = TRUE /\ replacing'[c] = "idle"
    BY <1>2, <1>11 DEF Runtime!CreateFails, Runtime!Goes
  <2> QED
    BY <1>3, <1>4, <2>1
<1>12. CASE Runtime!BoundAgain(c)
  <2>1. UNCHANGED <<current, session, heard>> /\ replacing[c] = "again" /\ replacing'[c] = "idle"
    BY <1>2, <1>12 DEF Runtime!BoundAgain, Runtime!Goes
  <2>2. CurrentIsLive
    BY <1>2, <2>1 DEF Standing
  <2> QED
    BY <1>3, <1>4, <2>1, <2>2
<1> QED
  BY <1>6, <1>7, <1>8, <1>9, <1>10, <1>11, <1>12 DEF RuntimeAction

LEMMA RuntimeInvStep ==
    ASSUME RuntimeInv, Runtime!RuntimeNext
    PROVE  RuntimeInv'
<1>1. PICK c \in Procs : RuntimeAction(c)
  BY DEF Runtime!RuntimeNext, RuntimeAction
<1>2. RuntimeTypes' /\ patient' = patient
  BY <1>1, RuntimeTypesStep DEF RuntimeInv
<1>3. patient => Waiting'
  BY <1>1, WaitingStep DEF RuntimeInv, Waiting
<1> QED
  BY <1>2, <1>3 DEF RuntimeInv, Waiting

LEMMA RuntimeInvTurns == RuntimeInv => Runtime!SessionsInTurn
<1> SUFFICES ASSUME RuntimeInv, patient
             PROVE  /\ Runtime!Live \subseteq {current}
                    /\ Runtime!AllIdle /\ ~failed => Runtime!Live = {current}
                    /\ \A s \in Runtime!Sessions :
                         /\ session[s] = "disposed" => "shutdown" \in ToSet(heard[s])
                         /\ StartsFirst(heard[s])
  BY DEF Runtime!SessionsInTurn, StartsFirst, Runtime!ToSet, ToSet
<1>1. Telling /\ Standing /\ current \in Runtime!Sessions
  BY DEF RuntimeInv, RuntimeTypes
<1>2. Runtime!Live \subseteq {current} /\ (CurrentIsLive => Runtime!Live = {current})
  BY <1>1 DEF Runtime!Live, Telling, CurrentIsLive
<1>3. Runtime!AllIdle /\ ~failed => CurrentIsLive
  BY <1>1 DEF Runtime!AllIdle, Standing
<1> QED
  BY <1>1, <1>2, <1>3 DEF Telling, Told

(***************************************************************************)
(* The language servers that run and have not been told to stop.           *)
(***************************************************************************)
ClientType == [proc : {"none", "up", "gone"}, init : {"none", "asked", "done", "failed"}, told : BOOLEAN]
Running == {i \in Lsp!Clients : client[i].proc = "up" /\ client[i].told = FALSE}
OneRuns == \A i, j \in Running : i = j

LspTypes == client \in [Lsp!Clients -> ClientType] /\ registered \in Lsp!Clients \cup {0} /\ stops \in Nat

\* Until something is stopped the registry holds what runs.  After that a
\* server may have lost its place to the exit of its predecessor, but then
\* the key is broken and gets no other.
Held ==
    /\ stops = 0 => Running \subseteq {registered}
    /\ stops = 1 => Running \subseteq {registered} \/ (broken = TRUE /\ OneRuns)
NoneTold == stops = 0 => \A i \in Lsp!Clients : client[i].told = FALSE

LspInv ==
    /\ LspTypes
    /\ ~down => Held /\ NoneTold
    /\ stops <= 1 => OneRuns

LEMMA LspInvInit == Lsp!LspInit => LspInv
<1> SUFFICES ASSUME Lsp!LspInit PROVE LspInv
  OBVIOUS
<1>1. /\ client = [i \in Lsp!Clients |-> [proc |-> "none", init |-> "none", told |-> FALSE]]
      /\ registered = 0 /\ stops = 0
  BY DEF Lsp!LspInit, Lsp!NotSpawned, Lsp!None
<1>2. LspTypes
  BY <1>1 DEF LspTypes, ClientType
<1>3. Running = {}
  BY <1>1 DEF Running
<1> QED
  BY <1>1, <1>2, <1>3 DEF LspInv, Held, NoneTold, OneRuns

\* A step that starts no server and leaves the registry, or tells of its end.
LEMMA FewerRun ==
    ASSUME LspInv, LspTypes', ~down, Running' \subseteq Running, stops' = stops,
           UNCHANGED registered \/ down' = TRUE, UNCHANGED broken \/ down' = TRUE,
           (\A i \in Lsp!Clients : client'[i].told = client[i].told) \/ down' = TRUE
    PROVE  LspInv'
<1>1. OneRuns => OneRuns'
  BY DEF OneRuns
<1>2. stops' <= 1 => OneRuns'
  BY <1>1 DEF LspInv
<1>3. ASSUME ~down' PROVE Held' /\ NoneTold'
  <2>1. UNCHANGED <<registered, broken>> /\ \A i \in Lsp!Clients : client'[i].told = client[i].told
    BY <1>3
  <2> QED
    BY <1>1, <2>1 DEF LspInv, Held, NoneTold, Lsp!Clients
<1> QED
  BY <1>2, <1>3 DEF LspInv

LEMMA SpawnsOne ==
    ASSUME LspInv, NEW c \in Procs, NEW kind, Lsp!Spawn(c, kind)
    PROVE  LspInv'
<1>1. PICK i \in Lsp!Unused :
        /\ client' = [client EXCEPT ![i] = [proc |-> "up", init |-> "asked", told |-> FALSE]]
        /\ registered' = i
  BY DEF Lsp!Spawn, Lsp!Registered
<1>2. /\ i \in Lsp!Clients /\ ~down /\ broken # TRUE /\ UNCHANGED <<stops, down, broken>>
      /\ registered = 0 \/ client[registered].told = TRUE
  <2>1. i \in Lsp!Clients
    BY DEF Lsp!Unused
  <2>2. ~down /\ broken # TRUE /\ UNCHANGED <<stops, down, broken>> /\ ~Lsp!Usable
    BY DEF Lsp!Spawn, Lsp!Rests
  <2>3. registered = 0 \/ client[registered].told = TRUE
    <3>1. registered # 0 => client[registered] \in ClientType
      BY DEF LspInv, LspTypes
    <3> QED
      BY <2>2, <3>1 DEF Lsp!Usable, Lsp!None, ClientType
  <2> QED
    BY <2>1, <2>2, <2>3
<1>3. LspTypes'
  <2>1. [proc |-> "up", init |-> "asked", told |-> FALSE] \in ClientType
    BY DEF ClientType
  <2> QED
    BY <1>1, <1>2, <2>1 DEF LspInv, LspTypes, Lsp!Clients
<1>4. client'[i].told = FALSE /\ \A j \in Lsp!Clients : j # i => client'[j] = client[j]
  BY <1>1, <1>2 DEF LspInv, LspTypes
<1>5. ASSUME stops <= 1 PROVE Running' \subseteq {i}
  <2>1. stops = 0 \/ stops = 1
    BY <1>5 DEF LspInv, LspTypes
  <2>2. Running \subseteq {registered}
    BY <1>2, <2>1 DEF LspInv, Held
  <2>3. registered \notin Running
    <3>1. 0 \notin Lsp!Clients
      BY DEF Lsp!Clients
    <3> QED
      BY <1>2, <3>1 DEF Running
  <2>4. Running = {}
    BY <2>2, <2>3
  <2> QED
    BY <1>4, <2>4 DEF Running, Lsp!Clients
<1>6. stops' <= 1 => OneRuns' /\ Running' \subseteq {registered'}
  BY <1>1, <1>2, <1>5 DEF OneRuns
<1>7. NoneTold'
  BY <1>2, <1>4 DEF LspInv, NoneTold, Lsp!Clients
<1> QED
  BY <1>3, <1>6, <1>7 DEF LspInv, Held

LEMMA LspInvStep ==
    ASSUME LspInv, Lsp!LspNext
    PROVE  LspInv'
<1>1. LspTypes /\ \A i \in Lsp!Clients : client[i] \in ClientType
  BY DEF LspInv, LspTypes
<1>2. CASE \E c \in Procs : Lsp!Diagnosed(c) \/ Lsp!GiveUp(c) \/ \E i \in Lsp!Clients : Lsp!Publish(c, i)
  <2>1. UNCHANGED <<client, registered, broken, stops, down>> /\ ~down
    BY <1>2 DEF Lsp!Diagnosed, Lsp!GiveUp, Lsp!Publish
  <2> QED
    BY <1>1, <2>1, FewerRun DEF LspTypes, Running, Lsp!Clients
<1>3. ASSUME NEW c \in Procs, Lsp!Begin(c) PROVE LspInv'
  <2>1. PICK kind \in {"diagnostics", "request"} : Lsp!Reuse(c, kind) \/ Lsp!Spawn(c, kind)
    BY <1>3 DEF Lsp!Begin
  <2>2. CASE Lsp!Reuse(c, kind)
    <3>1. UNCHANGED <<client, registered, broken, stops, down>> /\ ~down
      BY <2>2 DEF Lsp!Reuse, Lsp!Rests
    <3> QED
      BY <1>1, <3>1, FewerRun DEF LspTypes, Running, Lsp!Clients
  <2> QED
    BY <2>1, <2>2, SpawnsOne
<1>4. ASSUME NEW c \in Procs, Lsp!Initialized(c) PROVE LspInv'
  <2> DEFINE i == caller[c].on
  <2>1. client' = [client EXCEPT ![i].init = "done"] /\ UNCHANGED <<registered, broken, stops, down>> /\ ~down
    BY <1>4 DEF Lsp!Initialized
  <2> HIDE DEF i
  <2>2. \A j \in Lsp!Clients : /\ client'[j] \in ClientType
                               /\ client'[j].proc = client[j].proc /\ client'[j].told = client[j].told
    BY <1>1, <2>1 DEF LspTypes, ClientType
  <2>3. LspTypes'
    BY <1>1, <2>1, <2>2 DEF LspTypes, Lsp!Clients
  <2> QED
    BY <2>1, <2>2, <2>3, FewerRun DEF Running, Lsp!Clients
<1>5. ASSUME NEW c \in Procs, Lsp!InitializeFails(c) PROVE LspInv'
  <2> DEFINE i == caller[c].on
  <2>1. /\ client' = [client EXCEPT ![i].told = TRUE, ![i].init = "failed"]
        /\ registered' = 0 /\ down' = TRUE /\ UNCHANGED <<broken, stops>> /\ ~down
    BY <1>5 DEF Lsp!InitializeFails, Lsp!None
  <2> HIDE DEF i
  <2>2. \A j \in Lsp!Clients : /\ client'[j] \in ClientType
                               /\ client'[j].proc = client[j].proc
                               /\ client[j].told => client'[j].told
    BY <1>1, <2>1 DEF LspTypes, ClientType
  <2>3. LspTypes'
    BY <1>1, <2>1, <2>2 DEF LspTypes, Lsp!Clients
  <2>4. Running' \subseteq Running
    BY <1>1, <2>2 DEF Running, Lsp!Clients, ClientType
  <2> QED
    BY <2>1, <2>3, <2>4, FewerRun
<1>6. ASSUME NEW i \in Lsp!Clients, Lsp!Exit(i) PROVE LspInv'
  <2>1. /\ client' = [client EXCEPT ![i].proc = "gone"] /\ client[i].proc = "up"
        /\ registered' = 0 /\ broken' = TRUE /\ UNCHANGED stops /\ ~down
    BY <1>6 DEF Lsp!Exit, Lsp!None, Lsp!Up
  <2>2. \A j \in Lsp!Clients : /\ client'[j] \in ClientType /\ client'[j].told = client[j].told
                               /\ j # i => client'[j] = client[j]
    BY <1>1, <2>1 DEF LspTypes, ClientType
  <2>3. client'[i].proc = "gone"
    BY <1>1, <2>1 DEF LspTypes, ClientType
  <2>4. LspTypes'
    BY <1>1, <2>1, <2>2 DEF LspTypes, Lsp!Clients
  <2>5. Running' = Running \ {i}
    BY <2>2, <2>3 DEF Running, Lsp!Clients
  <2>6. stops' <= 1 => OneRuns'
    BY <2>1, <2>5 DEF LspInv, OneRuns
  <2>7. NoneTold'
    BY <2>1, <2>2 DEF LspInv, NoneTold, Lsp!Clients
  <2>8. stops = 0 => Running' = {}
    <3>1. stops = 0 => i \in Running /\ Running \subseteq {registered}
      BY <2>1 DEF LspInv, NoneTold, Held, Running
    <3> QED
      BY <2>5, <3>1
  <2> QED
    BY <2>1, <2>4, <2>6, <2>7, <2>8 DEF LspInv, Held
<1>7. CASE Lsp!Reap \/ Lsp!Dispose
  <2>1. /\ registered' = 0 /\ stops' = stops + 1 /\ ~down
        /\ \A j \in Lsp!Clients : client'[j] = IF j = registered THEN [client[j] EXCEPT !.told = TRUE] ELSE client[j]
        /\ client' \in [Lsp!Clients -> ClientType]
    <3>1. CASE Lsp!Reap
      <4>1. /\ registered # 0 /\ client' = [client EXCEPT ![registered].told = TRUE]
            /\ registered' = 0 /\ stops' = stops + 1 /\ ~down
        BY <3>1 DEF Lsp!Reap, Lsp!None
      <4> QED
        BY <1>1, <4>1 DEF LspTypes, ClientType
    <3>2. CASE Lsp!Dispose
      <4>1. /\ client' = [j \in Lsp!Clients |-> IF j = registered THEN [client[j] EXCEPT !.told = TRUE]
                                                                 ELSE client[j]]
            /\ registered' = 0 /\ stops' = stops + 1 /\ ~down
        BY <3>2 DEF Lsp!Dispose, Lsp!None
      <4> QED
        BY <1>1, <4>1 DEF ClientType
    <3> QED
      BY <1>7, <3>1, <3>2
  <2>2. LspTypes' /\ stops \in Nat /\ stops' # 0
    BY <1>1, <2>1 DEF LspTypes, Lsp!Clients
  <2>3. ASSUME stops' <= 1 PROVE Running' = {}
    <3>1. stops = 0
      BY <2>1, <2>2, <2>3
    <3>2. Running \subseteq {registered}
      BY <2>1, <3>1 DEF LspInv, Held
    <3>3. registered \in Lsp!Clients => client'[registered].told = TRUE
      BY <1>1, <2>1 DEF ClientType
    <3>4. \A j \in Lsp!Clients : j # registered => client'[j] = client[j]
      BY <2>1
    <3> QED
      BY <3>2, <3>3, <3>4 DEF Running, Lsp!Clients
  <2> QED
    BY <2>2, <2>3 DEF LspInv, Held, NoneTold, OneRuns
<1> QED
  BY <1>2, <1>3, <1>4, <1>5, <1>6, <1>7 DEF Lsp!LspNext

LEMMA LspInvOne == LspInv => Lsp!OneServer
<1> SUFFICES ASSUME LspInv, stops <= 1
             PROVE  Lsp!Cardinality({i \in Lsp!Clients : Lsp!Up(i) /\ ~client[i].told}) <= 1
  BY DEF Lsp!OneServer
<1> DEFINE R == {i \in Lsp!Clients : Lsp!Up(i) /\ ~client[i].told}
<1>1. \A i, j \in R : i = j
  BY DEF LspInv, LspTypes, ClientType, OneRuns, Running, Lsp!Up
<1> HIDE DEF R
<1>2. Lsp!Cardinality(R) = Cardinality(R)
  BY DEF Lsp!Cardinality, Cardinality
<1>3. Cardinality(R) <= 1
  <2>1. CASE R = {}
    BY <2>1, FS_EmptySet
  <2>2. CASE R # {}
    <3>1. PICK x : R = {x}
      BY <1>1, <2>2
    <3> QED
      BY <3>1, FS_Singleton
  <2> QED
    BY <2>1, <2>2
<1>4. Lsp!Cardinality(R) <= 1
  BY <1>2, <1>3
<1> QED
  BY <1>4 DEF R

(***************************************************************************)
(* The tokens, as long as nobody dies or loses the lock.                   *)
(***************************************************************************)
CredsType == [Auth!Providers -> Nat]
CallTypes ==
    {Auth!NoCall}
    \cup [at : {"create", "lock"}, does : {"change"}, who : Auth!Providers, value : Nat]
    \cup [at : {"create", "lock"}, does : {"refresh"}, who : OAuth]
    \cup [at : {"create", "lock"}, does : {"reload"}]
    \cup [at : {"ask", "answered", "refused"}, does : {"refresh"}, who : OAuth, value : Nat, read : CredsType]

AuthTypes ==
    /\ auth \in [text : {"none", "whole"}, creds : CredsType] /\ authLock \in Procs \cup {Auth!Free}
    /\ call \in [Procs -> CallTypes] /\ compromised \in [Procs -> BOOLEAN]
    /\ issued \in [OAuth -> Nat] /\ used \in [OAuth -> SUBSET Nat]

\* Who asks the server has the lock, and the file is as it was read.
HoldsLock ==
    \A p \in Procs : Auth!Asking(p) =>
        /\ authLock = p /\ compromised[p] = FALSE
        /\ auth.text = "whole" /\ call[p].read = auth.creds
        /\ Auth!At(p, "ask") => call[p].value = auth.creds[call[p].who] /\ call[p].value # 0

\* A token of p that is not in the file yet.
Carries(p, r, t) ==
    /\ call[p].does = "change" \/ call[p].at = "answered"
    /\ call[p].who = r /\ call[p].value = t /\ t # 0

IsIssued ==
    \A r \in OAuth : /\ Auth!Current[r] <= issued[r]
                     /\ \A t \in used[r] : t # 0 /\ t <= issued[r]

IsFresh ==
    \A p \in Procs, r \in OAuth, t \in Nat : Carries(p, r, t) =>
        /\ t <= issued[r] /\ t \notin used[r] /\ t # Auth!Current[r]
        /\ \A q \in Procs \ {p} : ~Carries(q, r, t)

Answered(r) == \E p \in Procs : Auth!At(p, "answered") /\ call[p].who = r /\ authLock = p
Survives == \A r \in OAuth : Auth!Current[r] \in used[r] => Answered(r)

AuthClean == reused = FALSE /\ AuthTypes /\ HoldsLock /\ IsIssued /\ IsFresh /\ Survives
AuthInv == ~mishap => AuthClean

LEMMA CurrentType == AuthTypes => Auth!Current \in CredsType
  BY DEF AuthTypes, Auth!Current, Auth!NoCreds, Auth!Nothing, CredsType

\* What the kind of a call says of it.
LEMMA CallKinds ==
    ASSUME AuthTypes, NEW p \in Procs
    PROVE  /\ call[p].does = "change" => call[p] \in [at : {"create", "lock"}, does : {"change"}, who : Auth!Providers, value : Nat]
           /\ Auth!Asking(p) => call[p] \in [at : {"ask", "answered", "refused"}, does : {"refresh"}, who : OAuth,
                                             value : Nat, read : CredsType]
           /\ call[p].at \in {"create", "lock"} /\ call[p].does = "refresh"
                => call[p] \in [at : {"create", "lock"}, does : {"refresh"}, who : OAuth]
           /\ call[p] \in CallTypes
  BY DEF AuthTypes, CallTypes, Auth!Asking, Auth!NoCall

LEMMA AuthInvInit == Auth!Init => AuthInv
<1> SUFFICES ASSUME Auth!Init PROVE AuthClean
  BY DEF AuthInv
<1>1. /\ auth = [text |-> "none", creds |-> Auth!NoCreds] /\ authLock = Auth!Free
      /\ call = [p \in Procs |-> Auth!NoCall] /\ compromised = [p \in Procs |-> FALSE]
      /\ issued = [r \in OAuth |-> 0] /\ used = [r \in OAuth |-> {}] /\ reused = FALSE
  BY DEF Auth!Init, Auth!Nothing
<1>2. Auth!NoCreds \in CredsType /\ Auth!Current = Auth!NoCreds
  BY <1>1 DEF Auth!NoCreds, Auth!Nothing, CredsType, Auth!Current
<1>3. AuthTypes
  BY <1>1, <1>2 DEF AuthTypes, CallTypes
<1>4. HoldsLock
  BY <1>1 DEF HoldsLock, Auth!Asking, Auth!NoCall
<1>5. IsIssued /\ Survives
  BY <1>1, <1>2 DEF IsIssued, Survives, Auth!NoCreds, Auth!Nothing, Auth!Providers
<1>6. IsFresh
  BY <1>1 DEF IsFresh, Carries, Auth!NoCall
<1> QED
  BY <1>1, <1>3, <1>4, <1>5, <1>6 DEF AuthClean

\* A step that leaves the tokens where they are, and takes none along.
LEMMA TokensStay ==
    ASSUME AuthClean, AuthTypes', HoldsLock', UNCHANGED <<reused, issued, used>>,
           \A r \in OAuth : Auth!Current'[r] = Auth!Current[r] /\ (Answered(r) => Answered(r)'),
           \A q \in Procs, r \in OAuth, t \in Nat : Carries(q, r, t)' => Carries(q, r, t)
    PROVE  AuthClean'
<1>1. IsIssued'
  BY DEF AuthClean, IsIssued
<1>2. IsFresh'
  BY DEF AuthClean, IsFresh
<1>3. Survives'
  BY DEF AuthClean, Survives
<1> QED
  BY <1>1, <1>2, <1>3 DEF AuthClean

\* A call that does not ask the server, before and after the step.
LEMMA QuietStep ==
    ASSUME AuthClean, NEW p \in Procs, NEW c \in CallTypes, call' = [call EXCEPT ![p] = c],
           ~Auth!Asking(p), c.at \in {"none", "create", "lock"},
           UNCHANGED <<authLock, compromised, issued, used, reused>>,
           \/ auth' = auth
           \/ auth.text # "whole" /\ auth' \in [text : {"none", "whole"}, creds : CredsType] /\ Auth!Current' = Auth!Current,
           \A r \in OAuth, t \in Nat : c.does = "change" /\ c.who = r /\ c.value = t /\ t # 0 => Carries(p, r, t)
    PROVE  AuthClean'
<1>1. call'[p] = c /\ \A q \in Procs : q # p => call'[q] = call[q]
  BY DEF AuthClean, AuthTypes
<1>2. AuthTypes'
  BY DEF AuthClean, AuthTypes
<1>3. ~Auth!Asking(p)'
  BY <1>1 DEF Auth!Asking
<1>4. HoldsLock'
  <2> SUFFICES ASSUME NEW q \in Procs, Auth!Asking(q)'
               PROVE  /\ authLock' = q /\ compromised'[q] = FALSE
                      /\ auth'.text = "whole" /\ call'[q].read = auth'.creds
                      /\ Auth!At(q, "ask")' => call'[q].value = auth'.creds[call'[q].who] /\ call'[q].value # 0
    BY DEF HoldsLock
  <2>1. q # p /\ call'[q] = call[q]
    BY <1>1, <1>3
  <2>2. Auth!Asking(q)
    BY <2>1 DEF Auth!Asking
  <2>3. auth' = auth
    BY <2>2 DEF AuthClean, HoldsLock
  <2> QED
    BY <2>1, <2>2, <2>3 DEF AuthClean, HoldsLock, Auth!At
<1>5. Auth!Current' = Auth!Current
  BY DEF Auth!Current
<1>6. ASSUME NEW r \in OAuth, Answered(r) PROVE Answered(r)'
  <2>1. PICK q \in Procs : Auth!At(q, "answered") /\ call[q].who = r /\ authLock = q
    BY <1>6 DEF Answered
  <2>2. q # p
    BY <2>1 DEF Auth!Asking, Auth!At
  <2> QED
    BY <1>1, <2>1, <2>2 DEF Answered, Auth!At
<1>7. ASSUME NEW q \in Procs, NEW r \in OAuth, NEW t \in Nat, Carries(q, r, t)' PROVE Carries(q, r, t)
  <2>1. CASE q = p
    BY <1>1, <1>7, <2>1 DEF Carries
  <2>2. CASE q # p
    BY <1>1, <1>7, <2>2 DEF Carries
  <2> QED
    BY <2>1, <2>2
<1> QED
  BY <1>2, <1>4, <1>5, <1>6, <1>7, TokensStay

\* The fields of a call that does not ask, and what becomes of it.
LEMMA EntryType == Auth!Entry \in {"create", "lock"}
  BY DEF Auth!Entry

LEMMA ReloadCall == [at |-> Auth!Entry, does |-> "reload"] \in CallTypes /\ Auth!NoCall \in CallTypes
<1>1. [at |-> Auth!Entry, does |-> "reload"] \in [at : {"create", "lock"}, does : {"reload"}]
  BY EntryType
<1> QED
  BY <1>1 DEF CallTypes

\* The call of p becomes one that carries nothing.
LEMMA QuietEnd ==
    ASSUME AuthClean, NEW p \in Procs, NEW c \in {Auth!NoCall, [at |-> Auth!Entry, does |-> "reload"]},
           call' = [call EXCEPT ![p] = c], ~Auth!Asking(p),
           UNCHANGED <<auth, authLock, compromised, issued, used, reused>>
    PROVE  AuthClean'
<1>1. c \in CallTypes
  BY ReloadCall
<1>2. c.at \in {"none", "create", "lock"} /\ c.does # "change"
  BY EntryType DEF Auth!NoCall
<1> QED
  BY <1>1, <1>2, QuietStep

LEMMA BeginsQuietly ==
    ASSUME AuthClean, NEW p \in Procs,
           Auth!Reload(p) \/ Auth!Load(p) \/ Auth!Locked(p) \/ Auth!NoLock(p)
    PROVE  AuthClean'
<1>1. ~Auth!Asking(p) /\ UNCHANGED <<auth, authLock, compromised, issued, used, reused>>
  <2>1. CASE Auth!Reload(p)
    BY <2>1 DEF Auth!Reload, Auth!Calls, Auth!At, Auth!Asking
  <2>2. CASE Auth!Load(p)
    BY <2>2 DEF Auth!Load, Auth!Sync, Auth!At, Auth!Asking
  <2>3. CASE Auth!Locked(p)
    BY <2>3 DEF Auth!Locked, Auth!Sync, Auth!At, Auth!Asking
  <2>4. CASE Auth!NoLock(p)
    BY <2>4 DEF Auth!NoLock, Auth!Waits, Auth!At, Auth!Asking
  <2> QED
    BY <2>1, <2>2, <2>3, <2>4
<1>2. \E c \in {Auth!NoCall, [at |-> Auth!Entry, does |-> "reload"]} : call' = [call EXCEPT ![p] = c]
  BY DEF Auth!Reload, Auth!Load, Auth!Locked, Auth!NoLock, Auth!Goto, Auth!AfterError
<1> QED
  BY <1>1, <1>2, QuietEnd

LEMMA GetsKeyQuietly ==
    ASSUME AuthClean, NEW p \in Procs, NEW r \in OAuth, Auth!GetApiKey(p, r)
    PROVE  AuthClean'
<1> DEFINE c == [at |-> Auth!Entry, does |-> "refresh", who |-> r]
<1>1. ~Auth!Asking(p) /\ UNCHANGED <<auth, authLock, compromised, issued, used, reused>> /\ call' = [call EXCEPT ![p] = c]
  BY DEF Auth!GetApiKey, Auth!Calls, Auth!At, Auth!Asking, Auth!Goto
<1>2. c \in CallTypes /\ c.at \in {"none", "create", "lock"} /\ c.does # "change"
  <2>1. c \in [at : {"create", "lock"}, does : {"refresh"}, who : OAuth]
    BY EntryType
  <2> QED
    BY <2>1 DEF CallTypes
<1> HIDE DEF c
<1> QED
  BY <1>1, <1>2, QuietStep

\* A removal, or a plain key: no token is carried.
LEMMA SetsQuietly ==
    ASSUME AuthClean, NEW p \in Procs, NEW r \in Auth!Providers, NEW t \in Nat, r \in OAuth => t = 0,
           Auth!SetOrRemove(p, r, t)
    PROVE  AuthClean'
<1> DEFINE c == [at |-> Auth!Entry, does |-> "change", who |-> r, value |-> t]
<1>1. /\ ~Auth!Asking(p) /\ UNCHANGED <<auth, authLock, compromised, issued, used, reused>>
      /\ call' = call \/ call' = [call EXCEPT ![p] = c]
  BY DEF Auth!SetOrRemove, Auth!Change, Auth!Calls, Auth!At, Auth!Asking, Auth!Goto
<1>2. c \in CallTypes /\ c.at \in {"none", "create", "lock"} /\ c.who = r /\ c.value = t
  <2>1. c \in [at : {"create", "lock"}, does : {"change"}, who : Auth!Providers, value : Nat]
    BY EntryType
  <2> QED
    BY <2>1 DEF CallTypes
<1> HIDE DEF c
<1>3. CASE call' = [call EXCEPT ![p] = c]
  BY <1>1, <1>2, <1>3, QuietStep
<1>4. CASE call' = call
  <2>1. call[p] \in CallTypes /\ call' = [call EXCEPT ![p] = call[p]]
    BY <1>4 DEF AuthClean, AuthTypes
  <2>2. call[p].at = "none" /\ call[p].does # "change"
    <3>1. call[p].at = "none"
      BY DEF Auth!SetOrRemove, Auth!Calls, Auth!At
    <3> QED
      BY <2>1, <3>1 DEF CallTypes, Auth!NoCall
  <2> QED
    BY <1>1, <2>1, <2>2, QuietStep
<1> QED
  BY <1>1, <1>3, <1>4

LEMMA CreatesQuietly ==
    ASSUME AuthClean, NEW p \in Procs, Auth!CreateFile(p), ~mishap'
    PROVE  AuthClean'
<1> DEFINE c == [call[p] EXCEPT !.at = "lock"]
<1>1. /\ call[p].at = "create" /\ auth.text = "none" /\ auth' = [text |-> "whole", creds |-> Auth!NoCreds]
      /\ call' = [call EXCEPT ![p] = c] /\ UNCHANGED <<authLock, compromised, issued, used, reused>>
  BY DEF Auth!CreateFile, Auth!At, Auth!Goto
<1>2. call[p] \in CallTypes
  BY DEF AuthClean, AuthTypes
<1>3. /\ c \in CallTypes /\ c.at = "lock" /\ c.does = call[p].does
      /\ c.does = "change" => c.who = call[p].who /\ c.value = call[p].value
  <2>1. CASE call[p] \in [at : {"create", "lock"}, does : {"change"}, who : Auth!Providers, value : Nat]
    BY <2>1 DEF CallTypes
  <2>2. CASE call[p] \in [at : {"create", "lock"}, does : {"refresh"}, who : OAuth]
    BY <2>2 DEF CallTypes
  <2>3. CASE call[p] \in [at : {"create", "lock"}, does : {"reload"}]
    BY <2>3 DEF CallTypes
  <2> QED
    BY <1>1, <1>2, <2>1, <2>2, <2>3 DEF CallTypes, Auth!NoCall
<1> HIDE DEF c
<1>4. /\ auth' \in [text : {"none", "whole"}, creds : CredsType] /\ Auth!Current' = Auth!Current
  BY <1>1 DEF Auth!Current, CredsType, Auth!NoCreds, Auth!Nothing
<1>5. ~Auth!Asking(p) /\ auth.text # "whole"
  BY <1>1 DEF Auth!Asking
<1>6. \A r \in OAuth, t \in Nat : c.does = "change" /\ c.who = r /\ c.value = t /\ t # 0 => Carries(p, r, t)
  BY <1>3 DEF Carries
<1> QED
  BY <1>1, <1>3, <1>4, <1>5, <1>6, QuietStep

\* Time passes, or a process is stopped and woken.
LEMMA NothingHappens ==
    ASSUME AuthClean, UNCHANGED <<auth, authLock, call, compromised, issued, used, reused>>
    PROVE  AuthClean'
  BY DEF AuthClean, AuthTypes, HoldsLock, IsIssued, IsFresh, Survives, Answered, Carries, Auth!Asking, Auth!At, Auth!Current

\* While the lock is free nobody has exchanged the token of the file.
LEMMA FreeIsUnused ==
    ASSUME AuthClean, authLock = Auth!Free
    PROVE  /\ \A p \in Procs : ~Auth!Asking(p)
           /\ \A r \in OAuth : Auth!Current[r] \notin used[r]
  BY FreeAssumption DEF AuthClean, HoldsLock, Survives, Answered

\* The holder of the lock, before it has an answer.
LEMMA HolderIsUnused ==
    ASSUME AuthClean, NEW p \in Procs, Auth!Asking(p), NEW r \in OAuth,
           ~(call[p].at = "answered" /\ call[p].who = r)
    PROVE  Auth!Current[r] \notin used[r]
<1>1. authLock = p
  BY DEF AuthClean, HoldsLock
<1> QED
  BY <1>1 DEF AuthClean, Survives, Answered, Auth!At

LEMMA OnlyHolderAsks ==
    ASSUME AuthClean, NEW p \in Procs, Auth!Asking(p), NEW q \in Procs, Auth!Asking(q)
    PROVE  q = p
  BY DEF AuthClean, HoldsLock

LEMMA LocksAndReads ==
    ASSUME AuthClean, NEW p \in Procs, Auth!LockAndRead(p)
    PROVE  AuthClean'
<1> DEFINE t == Auth!Current[call[p].who]
           c == [at |-> "ask", does |-> "refresh", who |-> call[p].who, value |-> t, read |-> Auth!Current]
<1>1. /\ call[p].at = "lock" /\ call[p].does = "refresh" /\ authLock = Auth!Free
      /\ UNCHANGED <<auth, issued, used, reused>>
  BY DEF Auth!LockAndRead, Auth!Waits, Auth!At
<1>2. call[p].who \in OAuth /\ ~Auth!Asking(p)
  BY <1>1, CallKinds DEF AuthClean, Auth!Asking
<1>3. CASE call' = [call EXCEPT ![p] = Auth!NoCall] /\ UNCHANGED <<authLock, compromised>>
  BY <1>1, <1>2, <1>3, QuietEnd
<1>4. ASSUME authLock' = p, compromised' = [compromised EXCEPT ![p] = FALSE], call' = [call EXCEPT ![p] = c], t # 0
      PROVE  AuthClean'
  <2>1. auth.text = "whole" /\ Auth!Current = auth.creds
    BY <1>2, <1>4 DEF Auth!Current, Auth!NoCreds, Auth!Nothing, Auth!Providers, AuthClean, AuthTypes
  <2>2. Auth!Current \in CredsType /\ t \in Nat
    BY <1>2, CurrentType DEF AuthClean, CredsType, Auth!Providers
  <2>3. c \in [at : {"ask", "answered", "refused"}, does : {"refresh"}, who : OAuth, value : Nat, read : CredsType]
    BY <1>2, <2>2
  <2>4. c \in CallTypes /\ c.at = "ask" /\ c.does = "refresh" /\ c.value = t /\ c.who = call[p].who /\ c.read = Auth!Current
    BY <2>3 DEF CallTypes
  <2> HIDE DEF c
  <2>5. call'[p] = c /\ \A q \in Procs : q # p => call'[q] = call[q]
    BY <1>4 DEF AuthClean, AuthTypes
  <2>6. AuthTypes'
    BY <1>1, <1>4, <2>4 DEF AuthClean, AuthTypes
  <2>7. compromised'[p] = FALSE
    BY <1>4 DEF AuthClean, AuthTypes
  <2>8. HoldsLock'
    <3> SUFFICES ASSUME NEW q \in Procs, Auth!Asking(q)'
                 PROVE  /\ authLock' = q /\ compromised'[q] = FALSE
                        /\ auth'.text = "whole" /\ call'[q].read = auth'.creds
                        /\ Auth!At(q, "ask")' => call'[q].value = auth'.creds[call'[q].who] /\ call'[q].value # 0
      BY DEF HoldsLock
    <3>1. q = p
      BY <1>1, <2>5, FreeIsUnused DEF Auth!Asking
    <3> QED
      BY <1>1, <1>4, <2>1, <2>4, <2>5, <2>7, <3>1
  <2>9. \A r \in OAuth : Auth!Current'[r] = Auth!Current[r] /\ (Answered(r) => Answered(r)')
    <3>1. \A r \in OAuth : ~Answered(r)
      BY <1>1, FreeAssumption DEF Answered
    <3> QED
      BY <1>1, <3>1 DEF Auth!Current
  <2>10. ASSUME NEW q \in Procs, NEW r \in OAuth, NEW u \in Nat, Carries(q, r, u)' PROVE Carries(q, r, u)
    BY <2>4, <2>5, <2>10 DEF Carries
  <2> QED
    BY <1>1, <2>6, <2>8, <2>9, <2>10, TokensStay
<1>5. \/ call' = [call EXCEPT ![p] = Auth!NoCall] /\ UNCHANGED <<authLock, compromised>>
      \/ authLock' = p /\ compromised' = [compromised EXCEPT ![p] = FALSE] /\ call' = [call EXCEPT ![p] = c] /\ t # 0
  BY DEF Auth!LockAndRead, Auth!ToRefresh, Auth!Goto, Auth!Expired, Auth!Nothing
<1> QED
  BY <1>3, <1>4, <1>5

LEMMA IsRefused ==
    ASSUME AuthClean, NEW p \in Procs, Auth!Refused(p)
    PROVE  AuthClean'
<1> DEFINE c == [at |-> Auth!Entry, does |-> "reload"]
<1>1. /\ call[p].at = "refused" /\ call' = [call EXCEPT ![p] = c] /\ Auth!Unlock(p)
      /\ UNCHANGED <<auth, compromised, issued, used, reused>>
  BY DEF Auth!Refused, Auth!AfterError, Auth!Goto, Auth!At
<1>2. c \in CallTypes /\ c.at \in {"create", "lock"} /\ c.does = "reload"
  BY ReloadCall, EntryType
<1> HIDE DEF c
<1>3. Auth!Asking(p) /\ authLock' = Auth!Free
  BY <1>1 DEF Auth!Asking, Auth!Unlock, AuthClean, HoldsLock
<1>4. call'[p] = c /\ \A q \in Procs : q # p => call'[q] = call[q]
  BY <1>1 DEF AuthClean, AuthTypes
<1>5. AuthTypes'
  BY <1>1, <1>2, <1>3 DEF AuthClean, AuthTypes
<1>6. \A q \in Procs : ~Auth!Asking(q)'
  BY <1>2, <1>3, <1>4, OnlyHolderAsks DEF Auth!Asking
<1>7. HoldsLock'
  BY <1>6 DEF HoldsLock
<1>8. \A r \in OAuth : Auth!Current'[r] = Auth!Current[r] /\ Auth!Current[r] \notin used[r]
  BY <1>1, <1>3, HolderIsUnused DEF Auth!Current
<1>9. ASSUME NEW q \in Procs, NEW r \in OAuth, NEW u \in Nat, Carries(q, r, u)' PROVE Carries(q, r, u)
  BY <1>2, <1>4, <1>9 DEF Carries
<1>10. IsIssued' /\ IsFresh' /\ Survives'
  BY <1>1, <1>8, <1>9 DEF AuthClean, IsIssued, IsFresh, Survives
<1> QED
  BY <1>1, <1>5, <1>7, <1>10 DEF AuthClean

\* A key is stored while nobody asks: the tokens stay.
LEMMA KeyIsStored ==
    ASSUME AuthClean, NEW p \in Procs, NEW k \in Keys, Auth!ChangeDuringRefresh(p, k, 1)
    PROVE  AuthClean'
<1>1. /\ UNCHANGED <<authLock, call, compromised, issued, used, reused>>
      /\ \/ auth' = auth
         \/ authLock = Auth!Free /\ auth' = [text |-> "whole", creds |-> [Auth!Current EXCEPT ![k] = 1]]
  BY DEF Auth!ChangeDuringRefresh
<1>2. CASE auth' = auth
  BY <1>1, <1>2, NothingHappens
<1>3. CASE authLock = Auth!Free /\ auth' = [text |-> "whole", creds |-> [Auth!Current EXCEPT ![k] = 1]]
  <2>1. [Auth!Current EXCEPT ![k] = 1] \in CredsType
    BY CurrentType DEF AuthClean, CredsType
  <2>2. AuthTypes'
    BY <1>1, <1>3, <2>1 DEF AuthClean, AuthTypes
  <2>3. \A q \in Procs : ~Auth!Asking(q)'
    BY <1>1, <1>3, FreeIsUnused DEF Auth!Asking
  <2>4. HoldsLock'
    BY <2>3 DEF HoldsLock
  <2>5. \A r \in OAuth : Auth!Current'[r] = Auth!Current[r]
    <3>1. Auth!Current' = [Auth!Current EXCEPT ![k] = 1]
      BY <1>3 DEF Auth!Current
    <3>2. Auth!Current \in CredsType
      BY CurrentType DEF AuthClean
    <3> QED
      BY <3>1, <3>2, KindsAssumption DEF CredsType, Auth!Providers
  <2>6. \A r \in OAuth : Answered(r) => Answered(r)'
    BY <1>1 DEF Answered, Auth!At
  <2>7. ASSUME NEW q \in Procs, NEW r \in OAuth, NEW u \in Nat, Carries(q, r, u)' PROVE Carries(q, r, u)
    BY <1>1, <2>7 DEF Carries
  <2> QED
    BY <1>1, <2>2, <2>4, <2>5, <2>6, <2>7, TokensStay
<1> QED
  BY <1>1, <1>2, <1>3

\* A login brings a token that nobody has, and nobody had.
LEMMA LogsIn ==
    ASSUME AuthClean, NEW p \in Procs, NEW s \in OAuth, Auth!Login(p, s)
    PROVE  AuthClean'
<1> DEFINE n == issued[s] + 1
           c == [at |-> Auth!Entry, does |-> "change", who |-> s, value |-> n]
<1>1. /\ call[p].at = "none" /\ issued' = [issued EXCEPT ![s] = n]
      /\ UNCHANGED <<auth, authLock, compromised, used, reused>>
      /\ call' = call \/ call' = [call EXCEPT ![p] = c]
  BY DEF Auth!Login, Auth!Change, Auth!Calls, Auth!At, Auth!Goto
<1>2. n \in Nat /\ issued[s] \in Nat
  BY DEF AuthClean, AuthTypes
<1>3. c \in CallTypes /\ c.at \in {"create", "lock"} /\ c.who = s /\ c.value = n /\ c.does = "change"
  <2>1. c \in [at : {"create", "lock"}, does : {"change"}, who : Auth!Providers, value : Nat]
    BY <1>2, EntryType DEF Auth!Providers
  <2> QED
    BY <2>1 DEF CallTypes
<1>4. call[p] \in CallTypes /\ call[p].does # "change"
  <2>1. call[p] \in CallTypes
    BY DEF AuthClean, AuthTypes
  <2> QED
    BY <1>1, <2>1 DEF CallTypes, Auth!NoCall
<1> HIDE DEF c
<1>5. /\ call' \in [Procs -> CallTypes] /\ call'[p] \in {call[p], c}
      /\ \A q \in Procs : q # p => call'[q] = call[q]
  BY <1>1, <1>3, <1>4 DEF AuthClean, AuthTypes
<1>6. /\ issued' \in [OAuth -> Nat] /\ issued'[s] = n
      /\ \A r \in OAuth : r # s => issued'[r] = issued[r]
  BY <1>1, <1>2 DEF AuthClean, AuthTypes
<1> HIDE DEF n
<1>7. n = issued[s] + 1
  BY DEF n
<1>8. AuthTypes'
  BY <1>1, <1>5, <1>6 DEF AuthClean, AuthTypes
<1>9. \A q \in Procs : Auth!Asking(q)' => q # p /\ Auth!Asking(q) /\ call'[q] = call[q]
  BY <1>1, <1>3, <1>5 DEF Auth!Asking
<1>10. HoldsLock'
  BY <1>1, <1>9 DEF AuthClean, HoldsLock, Auth!At
<1>11. Auth!Current' = Auth!Current /\ Auth!Current \in CredsType
  BY <1>1, CurrentType DEF AuthClean, Auth!Current
<1>12. IsIssued'
  <2> SUFFICES ASSUME NEW r \in OAuth
               PROVE  Auth!Current[r] <= issued'[r] /\ \A u \in used[r] : u # 0 /\ u <= issued'[r]
    BY <1>1, <1>11 DEF IsIssued
  <2>1. Auth!Current[r] <= issued[r] /\ \A u \in used[r] : u # 0 /\ u <= issued[r]
    BY DEF AuthClean, IsIssued
  <2>2. issued[r] \in Nat /\ used[r] \subseteq Nat /\ Auth!Current[r] \in Nat
    BY <1>11 DEF AuthClean, AuthTypes, CredsType, Auth!Providers
  <2>3. issued[r] <= issued'[r]
    BY <1>2, <1>6, <1>7, <2>2
  <2> QED
    BY <1>8, <2>1, <2>2, <2>3 DEF AuthTypes
<1>13. ASSUME NEW q \in Procs, NEW r \in OAuth, NEW u \in Nat, Carries(q, r, u)'
       PROVE  (Carries(q, r, u) /\ q # p) \/ (q = p /\ r = s /\ u = n)
  BY <1>1, <1>3, <1>4, <1>5, <1>13 DEF Carries
<1>14. IsFresh'
  <2> SUFFICES ASSUME NEW q \in Procs, NEW r \in OAuth, NEW u \in Nat, Carries(q, r, u)'
               PROVE  /\ u <= issued'[r] /\ u \notin used[r] /\ u # Auth!Current[r]
                      /\ \A o \in Procs \ {q} : ~Carries(o, r, u)'
    BY <1>1, <1>11 DEF IsFresh
  <2>1. /\ issued[r] \in Nat /\ used[r] \subseteq Nat /\ Auth!Current[r] \in Nat
    BY <1>11 DEF AuthClean, AuthTypes, CredsType, Auth!Providers
  <2>2. CASE q = p /\ r = s /\ u = n
    <3>1. \A v \in used[s] : v <= issued[s]
      BY DEF AuthClean, IsIssued
    <3>2. Auth!Current[s] <= issued[s]
      BY DEF AuthClean, IsIssued
    <3>3. \A o \in Procs : Carries(o, s, n) => n <= issued[s]
      BY <1>2 DEF AuthClean, IsFresh
    <3> QED
      BY <1>2, <1>6, <1>7, <1>13, <2>1, <2>2, <3>1, <3>2, <3>3
  <2>3. CASE Carries(q, r, u) /\ q # p
    <3>1. /\ u <= issued[r] /\ u \notin used[r] /\ u # Auth!Current[r]
          /\ \A o \in Procs \ {q} : ~Carries(o, r, u)
      BY <2>3 DEF AuthClean, IsFresh
    <3>2. ~(r = s /\ u = n) /\ issued[r] <= issued'[r]
      BY <1>2, <1>6, <1>7, <2>1, <3>1
    <3>3. u <= issued'[r]
      BY <1>6, <2>1, <3>1, <3>2
    <3>4. \A o \in Procs \ {q} : ~Carries(o, r, u)'
      BY <1>13, <3>1, <3>2
    <3> QED
      BY <3>1, <3>3, <3>4
  <2> QED
    BY <1>13, <2>2, <2>3
<1>15. Survives'
  <2>1. ASSUME NEW r \in OAuth, Answered(r) PROVE Answered(r)'
    <3>1. PICK q \in Procs : Auth!At(q, "answered") /\ call[q].who = r /\ authLock = q
      BY <2>1 DEF Answered
    <3>2. q # p
      BY <1>1, <3>1 DEF Auth!At
    <3> QED
      BY <1>1, <1>5, <3>1, <3>2 DEF Answered, Auth!At
  <2> QED
    BY <1>1, <1>11, <2>1 DEF AuthClean, Survives
<1> QED
  BY <1>1, <1>8, <1>10, <1>12, <1>14, <1>15 DEF AuthClean

\* The token of p is put into the file: what one calls a token of the file
\* now is one that p carried, or was there and unused.
LEMMA TokenIsStored ==
    ASSUME AuthClean, NEW p \in Procs, NEW c \in {Auth!NoCall, [at |-> Auth!Entry, does |-> "reload"]},
           call' = [call EXCEPT ![p] = c], UNCHANGED <<compromised, issued, used, reused>>,
           authLock' = Auth!Free, authLock = Auth!Free \/ Auth!Asking(p),
           NEW w \in Auth!Providers, NEW v \in Nat, v # 0 /\ w \in OAuth => Carries(p, w, v),
           \A r \in OAuth : r # w => Auth!Current[r] \notin used[r],
           auth' = [text |-> "whole", creds |-> [Auth!Current EXCEPT ![w] = v]]
    PROVE  AuthClean'
<1>1. c \in CallTypes /\ c.at \in {"none", "create", "lock"} /\ c.does # "change"
  BY ReloadCall, EntryType DEF Auth!NoCall
<1>2. call'[p] = c /\ \A q \in Procs : q # p => call'[q] = call[q]
  BY DEF AuthClean, AuthTypes
<1>3. Auth!Current \in CredsType
  BY CurrentType DEF AuthClean
<1>4. /\ Auth!Current' \in CredsType /\ auth'.text = "whole" /\ Auth!Current'[w] = v
      /\ \A r \in OAuth : r # w => Auth!Current'[r] = Auth!Current[r]
      /\ auth' \in [text : {"none", "whole"}, creds : CredsType]
  BY <1>3 DEF CredsType, Auth!Current, Auth!Providers
<1>5. AuthTypes'
  BY <1>1, <1>4 DEF AuthClean, AuthTypes
<1>6. \A q \in Procs : ~Auth!Asking(q)'
  <2>1. \A q \in Procs : q # p => ~Auth!Asking(q)
    BY FreeIsUnused, OnlyHolderAsks
  <2> QED
    BY <1>1, <1>2, <2>1 DEF Auth!Asking
<1>7. HoldsLock'
  BY <1>6 DEF HoldsLock
<1>8. ASSUME NEW r \in OAuth
      PROVE  /\ Auth!Current'[r] <= issued[r] /\ Auth!Current'[r] \notin used[r]
             /\ \A u \in used[r] : u # 0 /\ u <= issued[r]
             /\ \A q \in Procs \ {p} : Auth!Current'[r] # 0 => Auth!Current'[r] = Auth!Current[r] \/ ~Carries(q, r, Auth!Current'[r])
  <2>1. /\ Auth!Current[r] <= issued[r] /\ issued[r] \in Nat /\ \A u \in used[r] : u # 0 /\ u <= issued[r]
    BY DEF AuthClean, AuthTypes, IsIssued
  <2>2. CASE r # w
    BY <1>4, <2>1, <2>2
  <2>3. CASE r = w /\ v = 0
    BY <1>4, <2>1, <2>3
  <2>4. CASE r = w /\ v # 0
    <3>1. Carries(p, r, v)
      BY <2>4
    <3>2. v <= issued[r] /\ v \notin used[r] /\ \A q \in Procs \ {p} : ~Carries(q, r, v)
      BY <3>1 DEF AuthClean, IsFresh
    <3> QED
      BY <1>4, <2>1, <2>4, <3>2
  <2> QED
    BY <2>2, <2>3, <2>4
<1>9. IsIssued' /\ Survives'
  BY <1>8 DEF IsIssued, Survives
<1>10. ASSUME NEW q \in Procs, NEW r \in OAuth, NEW u \in Nat, Carries(q, r, u)'
       PROVE  Carries(q, r, u) /\ q # p
  BY <1>1, <1>2, <1>10 DEF Carries
<1>11. IsFresh'
  <2> SUFFICES ASSUME NEW q \in Procs, NEW r \in OAuth, NEW u \in Nat, Carries(q, r, u)'
               PROVE  /\ u <= issued[r] /\ u \notin used[r] /\ u # Auth!Current'[r]
                      /\ \A o \in Procs \ {q} : ~Carries(o, r, u)'
    BY DEF IsFresh
  <2>1. Carries(q, r, u) /\ q # p /\ u # 0
    BY <1>10 DEF Carries
  <2>2. /\ u <= issued[r] /\ u \notin used[r] /\ u # Auth!Current[r]
        /\ \A o \in Procs \ {q} : ~Carries(o, r, u)
    BY <2>1 DEF AuthClean, IsFresh
  <2>3. u # Auth!Current'[r]
    BY <1>8, <2>1, <2>2
  <2>4. \A o \in Procs \ {q} : ~Carries(o, r, u)'
    BY <1>10, <2>2
  <2> QED
    BY <2>2, <2>3, <2>4
<1> QED
  BY <1>5, <1>7, <1>9, <1>11 DEF AuthClean

LEMMA Persists ==
    ASSUME AuthClean, NEW p \in Procs, Auth!Persist(p)
    PROVE  AuthClean'
<1>1. /\ call[p].does = "change" /\ call[p].at = "lock" /\ authLock = Auth!Free
      /\ call' = [call EXCEPT ![p] = Auth!NoCall] /\ UNCHANGED <<authLock, compromised, issued, used, reused>>
      /\ Auth!Parses => auth' = [text |-> "whole", creds |-> [Auth!Current EXCEPT ![call[p].who] = call[p].value]]
  BY DEF Auth!Persist, Auth!Sync, Auth!At, Auth!Goto, Auth!WithChange
<1>2. Auth!Parses
  BY DEF AuthClean, AuthTypes, Auth!Parses
<1>3. call[p].who \in Auth!Providers /\ call[p].value \in Nat
  BY <1>1, CallKinds DEF AuthClean
<1>4. call[p].value # 0 /\ call[p].who \in OAuth => Carries(p, call[p].who, call[p].value)
  BY <1>1 DEF Carries
<1>5. \A r \in OAuth : Auth!Current[r] \notin used[r]
  BY <1>1, FreeIsUnused
<1> DEFINE w == call[p].who
           v == call[p].value
<1>6. /\ w \in Auth!Providers /\ v \in Nat /\ (v # 0 /\ w \in OAuth => Carries(p, w, v))
      /\ auth' = [text |-> "whole", creds |-> [Auth!Current EXCEPT ![w] = v]]
  BY <1>1, <1>2, <1>3, <1>4
<1> HIDE DEF w, v
<1> QED
  BY <1>1, <1>5, <1>6, TokenIsStored

LEMMA Receives ==
    ASSUME AuthClean, NEW p \in Procs, Auth!Receive(p)
    PROVE  AuthClean'
<1>1. call[p].at = "answered" /\ Auth!Asking(p)
  BY DEF Auth!Receive, Auth!At, Auth!Asking
<1>2. authLock = p /\ compromised[p] = FALSE /\ auth.text = "whole" /\ call[p].read = auth.creds
  BY <1>1 DEF AuthClean, HoldsLock
<1>3. call[p].who \in OAuth /\ call[p].value \in Nat
  BY <1>1, CallKinds DEF AuthClean
<1> DEFINE w == call[p].who
           v == call[p].value
<1>4. /\ auth' = [text |-> "whole", creds |-> [Auth!Current EXCEPT ![w] = v]] /\ authLock' = Auth!Free
      /\ call' = [call EXCEPT ![p] = Auth!NoCall] /\ UNCHANGED <<compromised, issued, used, reused>>
  BY <1>2 DEF Auth!Receive, Auth!Stored, Auth!Unlock, Auth!Goto, Auth!Current
<1>5. w \in Auth!Providers /\ w \in OAuth /\ v \in Nat /\ (v # 0 /\ w \in OAuth => Carries(p, w, v))
  BY <1>1, <1>3 DEF Carries, Auth!Providers
<1>6. \A r \in OAuth : r # w => Auth!Current[r] \notin used[r]
  BY <1>1, HolderIsUnused
<1> HIDE DEF w, v
<1> QED
  BY <1>1, <1>4, <1>5, <1>6, TokenIsStored

LEMMA Serves ==
    ASSUME AuthClean, NEW p \in Procs, Auth!Serve(p)
    PROVE  AuthClean'
<1> DEFINE s == call[p].who
           t == call[p].value
           n == issued[s] + 1
<1>1. call[p].at = "ask" /\ Auth!Asking(p)
  BY DEF Auth!Serve, Auth!At, Auth!Asking
<1>2. authLock = p /\ compromised[p] = FALSE /\ auth.text = "whole" /\ call[p].read = auth.creds /\ t = Auth!Current[s] /\ t # 0
  BY <1>1 DEF AuthClean, HoldsLock, Auth!At, Auth!Current
<1>3. call[p] \in [at : {"ask", "answered", "refused"}, does : {"refresh"}, who : OAuth, value : Nat, read : CredsType]
  BY <1>1, CallKinds DEF AuthClean
<1>4. s \in OAuth /\ t \in Nat /\ issued[s] \in Nat /\ n \in Nat
  BY <1>3 DEF AuthClean, AuthTypes
<1>5. t \notin used[s]
  BY <1>1, <1>2, <1>4, HolderIsUnused
<1>6. reused' = FALSE
  BY <1>5 DEF Auth!Serve, AuthClean
<1>7. CASE Auth!Goto(p, [call[p] EXCEPT !.at = "refused"]) /\ UNCHANGED <<issued, used>>
  <2> DEFINE c == [call[p] EXCEPT !.at = "refused"]
  <2>1. call' = [call EXCEPT ![p] = c] /\ UNCHANGED <<auth, authLock, compromised, issued, used>>
    BY <1>7 DEF Auth!Goto, Auth!Serve
  <2>2. /\ c \in CallTypes /\ c.at = "refused" /\ c.does = "refresh" /\ c.who = s /\ c.value = t /\ c.read = call[p].read
    BY <1>3 DEF CallTypes
  <2> HIDE DEF c
  <2>3. call'[p] = c /\ \A q \in Procs : q # p => call'[q] = call[q]
    BY <2>1 DEF AuthClean, AuthTypes
  <2>4. AuthTypes'
    BY <2>1, <2>2 DEF AuthClean, AuthTypes
  <2>5. HoldsLock'
    BY <1>2, <2>1, <2>2, <2>3 DEF AuthClean, HoldsLock, Auth!Asking, Auth!At
  <2>6. \A r \in OAuth : Auth!Current'[r] = Auth!Current[r] /\ (Answered(r) => Answered(r)')
    BY <1>1, <1>2, <2>1, <2>3 DEF Answered, Auth!At, Auth!Current
  <2>7. ASSUME NEW q \in Procs, NEW r \in OAuth, NEW u \in Nat, Carries(q, r, u)' PROVE Carries(q, r, u)
    BY <2>2, <2>3, <2>7 DEF Carries
  <2>8. UNCHANGED <<reused, issued, used>>
    BY <1>6, <2>1 DEF AuthClean
  <2> QED
    BY <2>4, <2>5, <2>6, <2>7, <2>8, TokensStay
<1>8. CASE /\ issued' = [issued EXCEPT ![s] = n] /\ used' = [used EXCEPT ![s] = @ \cup {t}]
           /\ Auth!Goto(p, [call[p] EXCEPT !.at = "answered", !.value = n])
  <2> DEFINE c == [call[p] EXCEPT !.at = "answered", !.value = n]
  <2>1. call' = [call EXCEPT ![p] = c] /\ UNCHANGED <<auth, authLock, compromised>>
    BY <1>8 DEF Auth!Goto, Auth!Serve
  <2>2. /\ c \in CallTypes /\ c.at = "answered" /\ c.does = "refresh" /\ c.who = s /\ c.value = n /\ c.read = call[p].read
    BY <1>3, <1>4 DEF CallTypes
  <2> HIDE DEF c
  <2>3. call'[p] = c /\ \A q \in Procs : q # p => call'[q] = call[q]
    BY <2>1 DEF AuthClean, AuthTypes
  <2>4. /\ issued' \in [OAuth -> Nat] /\ issued'[s] = n /\ \A r \in OAuth : r # s => issued'[r] = issued[r]
        /\ used' \in [OAuth -> SUBSET Nat] /\ used'[s] = used[s] \cup {t} /\ \A r \in OAuth : r # s => used'[r] = used[r]
    BY <1>4, <1>8 DEF AuthClean, AuthTypes
  <2>5. AuthTypes'
    BY <2>1, <2>2, <2>4 DEF AuthClean, AuthTypes
  <2>6. \A q \in Procs : q # p => ~Auth!Asking(q)
    BY <1>1, OnlyHolderAsks
  <2>7. HoldsLock'
    BY <1>2, <2>1, <2>2, <2>3, <2>6 DEF AuthClean, HoldsLock, Auth!Asking, Auth!At
  <2> HIDE DEF n, s, t
  <2>8. n = issued[s] + 1 /\ s = call[p].who
    BY DEF n, s
  <2>9. Auth!Current' = Auth!Current /\ Auth!Current \in CredsType
    BY <2>1, CurrentType DEF AuthClean, Auth!Current
  <2>10. \A r \in OAuth : /\ issued[r] \in Nat /\ used[r] \subseteq Nat /\ Auth!Current[r] \in Nat
                          /\ Auth!Current[r] <= issued[r] /\ \A u \in used[r] : u # 0 /\ u <= issued[r]
    BY <2>9 DEF AuthClean, AuthTypes, CredsType, Auth!Providers, IsIssued
  <2>11. IsIssued'
    <3> SUFFICES ASSUME NEW r \in OAuth
                 PROVE  Auth!Current[r] <= issued'[r] /\ \A u \in used'[r] : u # 0 /\ u <= issued'[r]
      BY <2>9 DEF IsIssued
    <3>1. CASE r # s
      BY <2>4, <2>10, <3>1
    <3>2. CASE r = s
      BY <1>2, <1>4, <2>4, <2>8, <2>10, <3>2
    <3> QED
      BY <3>1, <3>2
  <2>12. ASSUME NEW q \in Procs, NEW r \in OAuth, NEW u \in Nat, Carries(q, r, u)'
         PROVE  (Carries(q, r, u) /\ q # p) \/ (q = p /\ r = s /\ u = n)
    BY <2>2, <2>3, <2>12 DEF Carries
  <2>13. IsFresh'
    <3> SUFFICES ASSUME NEW q \in Procs, NEW r \in OAuth, NEW u \in Nat, Carries(q, r, u)'
                 PROVE  /\ u <= issued'[r] /\ u \notin used'[r] /\ u # Auth!Current[r]
                        /\ \A o \in Procs \ {q} : ~Carries(o, r, u)'
      BY <2>9 DEF IsFresh
    <3>1. CASE q = p /\ r = s /\ u = n
      <4>1. \A o \in Procs : Carries(o, s, n) => n <= issued[s]
        BY <1>4 DEF AuthClean, IsFresh
      <4> QED
        BY <1>2, <1>4, <2>4, <2>8, <2>10, <2>12, <3>1, <4>1
    <3>2. CASE Carries(q, r, u) /\ q # p
      <4>1. /\ u <= issued[r] /\ u \notin used[r] /\ u # Auth!Current[r]
            /\ \A o \in Procs \ {q} : ~Carries(o, r, u)
        BY <3>2 DEF AuthClean, IsFresh
      <4>2. ~(r = s /\ u = n) /\ u <= issued'[r] /\ u \notin used'[r]
        BY <1>2, <1>4, <2>4, <2>8, <2>10, <4>1
      <4>3. \A o \in Procs \ {q} : ~Carries(o, r, u)'
        BY <2>12, <4>1, <4>2
      <4> QED
        BY <4>1, <4>2, <4>3
    <3> QED
      BY <2>12, <3>1, <3>2
  <2>14. Survives'
    <3> SUFFICES ASSUME NEW r \in OAuth, Auth!Current[r] \in used'[r] PROVE Answered(r)'
      BY <2>9 DEF Survives
    <3>1. CASE r = s
      BY <1>2, <2>1, <2>2, <2>3, <3>1 DEF Answered, Auth!At
    <3>2. CASE r # s
      <4>1. Auth!Current[r] \notin used[r]
        BY <1>1, <2>8, <3>2, HolderIsUnused
      <4> QED
        BY <2>4, <3>2, <4>1
    <3> QED
      BY <3>1, <3>2
  <2> QED
    BY <1>6, <2>5, <2>7, <2>11, <2>13, <2>14 DEF AuthClean
<1>9. \/ Auth!Goto(p, [call[p] EXCEPT !.at = "refused"]) /\ UNCHANGED <<issued, used>>
      \/ /\ issued' = [issued EXCEPT ![s] = n] /\ used' = [used EXCEPT ![s] = @ \cup {t}]
         /\ Auth!Goto(p, [call[p] EXCEPT !.at = "answered", !.value = n])
  BY DEF Auth!Serve
<1> QED
  BY <1>7, <1>8, <1>9

\* While nobody has died or lost the lock, each step keeps what is known of the tokens.
LEMMA AuthInvStep ==
    ASSUME AuthInv, Auth!Next
    PROVE  AuthInv'
<1> SUFFICES ASSUME ~mishap' PROVE AuthClean'
  BY DEF AuthInv
<1>1. ASSUME NEW p \in Procs, Auth!Steal(p) \/ Auth!Die(p) PROVE FALSE
  BY <1>1 DEF Auth!Steal, Auth!Die
<1>2. ASSUME mishap' = mishap \/ mishap' = (mishap \/ auth.text # "none") PROVE AuthClean
  BY <1>2 DEF AuthInv
<1>3. ASSUME NEW p \in Procs, Auth!CreateFile(p) PROVE AuthClean'
  BY <1>2, <1>3, CreatesQuietly DEF Auth!CreateFile
<1>4. ASSUME NEW p \in Procs, Auth!Reload(p) \/ Auth!Load(p) \/ Auth!Locked(p) \/ Auth!NoLock(p) PROVE AuthClean'
  BY <1>2, <1>4, BeginsQuietly DEF Auth!Reload, Auth!Load, Auth!Locked, Auth!NoLock
<1>5. ASSUME NEW p \in Procs, Auth!Persist(p) PROVE AuthClean'
  BY <1>2, <1>5, Persists DEF Auth!Persist
<1>6. ASSUME NEW p \in Procs, Auth!LockAndRead(p) PROVE AuthClean'
  BY <1>2, <1>6, LocksAndReads DEF Auth!LockAndRead
<1>7. ASSUME NEW p \in Procs, Auth!Serve(p) PROVE AuthClean'
  BY <1>2, <1>7, Serves DEF Auth!Serve
<1>8. ASSUME NEW p \in Procs, Auth!Receive(p) PROVE AuthClean'
  BY <1>2, <1>8, Receives DEF Auth!Receive
<1>9. ASSUME NEW p \in Procs, Auth!Refused(p) PROVE AuthClean'
  BY <1>2, <1>9, IsRefused DEF Auth!Refused
<1>10. ASSUME NEW p \in Procs, Auth!Wake(p) \/ Auth!Stall(p) PROVE AuthClean'
  BY <1>2, <1>10, NothingHappens DEF Auth!Wake, Auth!Stall
<1>11. ASSUME NEW p \in Procs, Auth!Notice(p) PROVE AuthClean'
  <2>1. AuthClean
    BY <1>2, <1>11 DEF Auth!Notice
  <2> QED
    BY <1>11, <2>1 DEF Auth!Notice, AuthClean, HoldsLock
<1>12. ASSUME NEW p \in Procs, NEW r \in OAuth, Auth!Login(p, r) PROVE AuthClean'
  BY <1>2, <1>12, LogsIn DEF Auth!Login
<1>13. ASSUME NEW p \in Procs, NEW r \in OAuth, Auth!GetApiKey(p, r) PROVE AuthClean'
  BY <1>2, <1>13, GetsKeyQuietly DEF Auth!GetApiKey
<1>14. ASSUME NEW p \in Procs, NEW r \in OAuth, Auth!SetOrRemove(p, r, Auth!Nothing) PROVE AuthClean'
  <2>1. AuthClean
    BY <1>2, <1>14 DEF Auth!SetOrRemove
  <2> QED
    BY <1>14, <2>1, SetsQuietly DEF Auth!Nothing, Auth!Providers
<1>15. ASSUME NEW p \in Procs, NEW k \in Keys, Auth!SetOrRemove(p, k, 1) PROVE AuthClean'
  <2>1. AuthClean
    BY <1>2, <1>15 DEF Auth!SetOrRemove
  <2>2. k \in Auth!Providers /\ k \notin OAuth
    BY KindsAssumption DEF Auth!Providers
  <2> QED
    BY <1>15, <2>1, <2>2, SetsQuietly
<1>16. ASSUME NEW p \in Procs, NEW k \in Keys, Auth!ChangeDuringRefresh(p, k, 1) PROVE AuthClean'
  BY <1>2, <1>16, KeyIsStored DEF Auth!ChangeDuringRefresh
<1>17. ASSUME NEW r \in OAuth, Auth!Expire(r) PROVE AuthClean'
  BY <1>2, <1>17, NothingHappens DEF Auth!Expire
<1> QED
  BY <1>1, <1>3, <1>4, <1>5, <1>6, <1>7, <1>8, <1>9, <1>10, <1>11, <1>12, <1>13, <1>14, <1>15, <1>16, <1>17
     DEF Auth!Next, Auth!Step

LEMMA AuthInvTokens == AuthInv => Auth!NeverReused /\ Auth!TokenSurvives
<1> SUFFICES ASSUME AuthInv, ~mishap PROVE Auth!NeverReused /\ Auth!TokenSurvives
  BY DEF Auth!NeverReused, Auth!TokenSurvives
<1>1. AuthClean
  BY DEF AuthInv
<1> QED
  BY <1>1 DEF AuthClean, Survives, Answered, Auth!Current, Auth!NeverReused, Auth!TokenSurvives

\* The copies in memory are credentials, and without a file there are none.
AuthCopies ==
    /\ data \in [Procs -> CredsType] /\ spent \in [calls : Nat, faults : Nat]
    /\ auth.text = "none" => auth.creds = Auth!NoCreds
CopiesInv == ~mishap => AuthCopies

LEMMA CopiesInit == Auth!Init => CopiesInv
  BY DEF Auth!Init, CopiesInv, AuthCopies, CredsType, Auth!NoCreds, Auth!Nothing

LEMMA MishapStays == Auth!Next /\ ~mishap' => ~mishap
<1> SUFFICES ASSUME Auth!Next, ~mishap', mishap PROVE FALSE
  OBVIOUS
<1>1. ASSUME NEW p \in Procs PROVE ~Auth!Reload(p) /\ ~Auth!Stall(p) /\ ~Auth!Steal(p) /\ ~Auth!Notice(p) /\ ~Auth!Die(p)
  BY DEF Auth!Reload, Auth!Stall, Auth!Steal, Auth!Notice, Auth!Die
<1>2. ASSUME NEW p \in Procs PROVE ~Auth!Step(p)
  BY DEF Auth!Step, Auth!CreateFile, Auth!Persist, Auth!Load, Auth!Locked, Auth!LockAndRead, Auth!NoLock, Auth!Serve,
     Auth!Receive, Auth!Refused, Auth!Wake
<1>3. ASSUME NEW p, NEW r, NEW t
      PROVE  /\ ~Auth!Login(p, r) /\ ~Auth!GetApiKey(p, r) /\ ~Auth!SetOrRemove(p, r, t) /\ ~Auth!ChangeDuringRefresh(p, r, t)
             /\ ~Auth!Expire(r)
  BY DEF Auth!Login, Auth!GetApiKey, Auth!SetOrRemove, Auth!ChangeDuringRefresh, Auth!Expire
<1> QED
  BY <1>1, <1>2, <1>3 DEF Auth!Next

\* Memory changes by one credential, or to what the file holds.
LEMMA CopiesStep ==
    ASSUME AuthInv, CopiesInv, Auth!Next
    PROVE  CopiesInv'
<1> SUFFICES ASSUME ~mishap' PROVE AuthCopies'
  BY DEF CopiesInv
<1>1. AuthClean /\ AuthCopies
  BY MishapStays DEF AuthInv, CopiesInv
<1>2. data \in [Procs -> CredsType] /\ Auth!Current \in CredsType /\ spent \in [calls : Nat, faults : Nat]
  BY <1>1, CurrentType DEF AuthCopies, AuthClean
<1>3. Auth!Count \/ UNCHANGED spent => spent' \in [calls : Nat, faults : Nat]
  BY <1>2 DEF Auth!Count
<1>4. ASSUME NEW p \in Procs, NEW r \in Auth!Providers, NEW t \in Nat, data' = [data EXCEPT ![p][r] = t]
      PROVE  data' \in [Procs -> CredsType]
  BY <1>2, <1>4 DEF CredsType
<1>5. ASSUME auth' = auth \/ auth'.text = "whole" PROVE auth'.text = "none" => auth'.creds = Auth!NoCreds
  BY <1>1, <1>5 DEF AuthCopies
<1>6. ASSUME NEW p \in Procs, Auth!Reload(p) \/ Auth!Notice(p) \/ Auth!Persist(p) \/ Auth!Locked(p) \/ Auth!NoLock(p)
                              \/ Auth!CreateFile(p) \/ Auth!Serve(p) \/ Auth!Refused(p) \/ Auth!Wake(p)
      PROVE  AuthCopies'
  BY <1>2, <1>3, <1>5, <1>6 DEF Auth!Reload, Auth!Notice, Auth!Persist, Auth!Locked, Auth!NoLock, Auth!CreateFile, Auth!Serve,
     Auth!Refused, Auth!Wake, AuthCopies
<1>7. ASSUME NEW p \in Procs, Auth!Stall(p) PROVE AuthCopies'
  <2>1. spent' \in [calls : Nat, faults : Nat]
    BY <1>2, <1>7 DEF Auth!Stall
  <2> QED
    BY <1>2, <1>5, <1>7, <2>1 DEF Auth!Stall, AuthCopies
<1>8. ASSUME NEW p \in Procs, Auth!Load(p) \/ Auth!LockAndRead(p) PROVE AuthCopies'
  BY <1>2, <1>5, <1>8 DEF Auth!Load, Auth!LockAndRead, AuthCopies
<1>9. ASSUME NEW p \in Procs, Auth!Receive(p) PROVE AuthCopies'
  <2> DEFINE merged == [call[p].read EXCEPT ![call[p].who] = call[p].value]
  <2>1. data' = [data EXCEPT ![p] = merged] /\ (auth' = auth \/ auth'.text = "whole") /\ Auth!Asking(p)
    BY <1>9 DEF Auth!Receive, Auth!Stored, Auth!Asking, Auth!At
  <2>2. call[p].read \in CredsType /\ call[p].value \in Nat
    BY <1>1, <2>1, CallKinds DEF AuthClean
  <2>3. merged \in CredsType
    BY <2>2 DEF CredsType
  <2> HIDE DEF merged
  <2> QED
    BY <1>2, <1>3, <1>5, <1>9, <2>1, <2>3 DEF Auth!Receive, AuthCopies
<1>10. ASSUME NEW p \in Procs, Auth!Steal(p) \/ Auth!Die(p) PROVE FALSE
  BY <1>10 DEF Auth!Steal, Auth!Die
<1>11. ASSUME NEW p \in Procs, NEW r \in OAuth, Auth!Login(p, r) PROVE AuthCopies'
  <2>1. r \in Auth!Providers /\ issued[r] + 1 \in Nat
    BY <1>1 DEF AuthClean, AuthTypes, Auth!Providers
  <2>2. data' = [data EXCEPT ![p][r] = issued[r] + 1] /\ Auth!Count /\ UNCHANGED auth
    BY <1>11 DEF Auth!Login, Auth!Change
  <2>3. data' \in [Procs -> CredsType]
    BY <1>4, <2>1, <2>2
  <2> QED
    BY <1>3, <1>5, <2>2, <2>3 DEF AuthCopies
<1>12. ASSUME NEW p \in Procs, NEW r \in OAuth, Auth!GetApiKey(p, r) PROVE AuthCopies'
  BY <1>2, <1>3, <1>5, <1>12 DEF Auth!GetApiKey, AuthCopies
<1>13. ASSUME NEW p \in Procs, NEW r \in Auth!Providers, NEW t \in Nat, Auth!SetOrRemove(p, r, t) PROVE AuthCopies'
  <2>1. data' = [data EXCEPT ![p][r] = t] /\ Auth!Count /\ UNCHANGED auth
    BY <1>13 DEF Auth!SetOrRemove, Auth!Change
  <2>2. data' \in [Procs -> CredsType]
    BY <1>4, <2>1
  <2> QED
    BY <1>3, <1>5, <2>1, <2>2 DEF AuthCopies
<1>14. ASSUME NEW p \in Procs, NEW k \in Keys, Auth!ChangeDuringRefresh(p, k, 1) PROVE AuthCopies'
  <2>1. data' = [data EXCEPT ![p][k] = 1] /\ Auth!Count /\ (auth' = auth \/ auth'.text = "whole")
    BY <1>14 DEF Auth!ChangeDuringRefresh
  <2>2. data' \in [Procs -> CredsType]
    BY <1>4, <2>1 DEF Auth!Providers
  <2> QED
    BY <1>3, <1>5, <2>1, <2>2 DEF AuthCopies
<1>15. ASSUME NEW r \in OAuth, Auth!Expire(r) PROVE AuthCopies'
  BY <1>2, <1>3, <1>5, <1>15 DEF Auth!Expire, AuthCopies
<1>16. OAuth \subseteq Auth!Providers /\ Keys \subseteq Auth!Providers /\ Auth!Nothing \in Nat
  BY DEF Auth!Providers, Auth!Nothing
<1> QED
  BY <1>6, <1>7, <1>8, <1>9, <1>10, <1>11, <1>12, <1>13, <1>14, <1>15, <1>16 DEF Auth!Next, Auth!Step

\* A credential in the file changes by a call about its provider.
LEMMA CredentialsKept ==
    ASSUME AuthInv, CopiesInv, Auth!Next, NEW r \in Auth!Providers, auth'.creds[r] # auth.creds[r], ~mishap'
    PROVE  \E p \in Procs : \/ call[p].does \in {"change", "refresh"} /\ call[p].who = r
                            \/ data'[p][r] # data[p][r] /\ spent' # spent
<1>1. AuthClean /\ AuthCopies
  BY MishapStays DEF AuthInv, CopiesInv
<1>2. Auth!Current = auth.creds /\ auth.creds \in CredsType
  BY <1>1 DEF AuthClean, AuthTypes, AuthCopies, Auth!Current
<1>3. PICK p \in Procs : \/ Auth!CreateFile(p) \/ Auth!Persist(p) \/ Auth!Receive(p)
                         \/ \E k \in Keys : Auth!ChangeDuringRefresh(p, k, 1)
  <2>1. ASSUME NEW p \in Procs PROVE ~Auth!Reload(p) /\ ~Auth!Stall(p) /\ ~Auth!Steal(p) /\ ~Auth!Notice(p) /\ ~Auth!Die(p)
    BY DEF Auth!Reload, Auth!Stall, Auth!Steal, Auth!Notice, Auth!Die
  <2>2. ASSUME NEW p \in Procs
        PROVE  ~Auth!Load(p) /\ ~Auth!Locked(p) /\ ~Auth!LockAndRead(p) /\ ~Auth!NoLock(p) /\ ~Auth!Serve(p)
               /\ ~Auth!Refused(p) /\ ~Auth!Wake(p)
    BY DEF Auth!Load, Auth!Locked, Auth!LockAndRead, Auth!NoLock, Auth!Serve, Auth!Refused, Auth!Wake
  <2>3. ASSUME NEW p, NEW s, NEW t
        PROVE  ~Auth!Login(p, s) /\ ~Auth!GetApiKey(p, s) /\ ~Auth!SetOrRemove(p, s, t) /\ ~Auth!Expire(s)
    BY DEF Auth!Login, Auth!GetApiKey, Auth!SetOrRemove, Auth!Expire
  <2> QED
    BY <2>1, <2>2, <2>3 DEF Auth!Next, Auth!Step
<1>4. CASE Auth!CreateFile(p)
  <2>1. auth.text = "none" /\ auth'.creds = Auth!NoCreds
    BY <1>4 DEF Auth!CreateFile
  <2> QED
    BY <1>1, <2>1 DEF AuthCopies
<1>5. CASE Auth!Persist(p)
  <2>1. call[p].does = "change" /\ (auth' = auth \/ auth'.creds = [auth.creds EXCEPT ![call[p].who] = call[p].value])
    BY <1>2, <1>5 DEF Auth!Persist, Auth!WithChange
  <2>2. call[p].who = r
    BY <1>2, <2>1 DEF CredsType
  <2> QED
    BY <2>1, <2>2
<1>6. CASE Auth!Receive(p)
  <2>1. Auth!Asking(p) /\ (auth' = auth \/ auth'.creds = [call[p].read EXCEPT ![call[p].who] = call[p].value])
    BY <1>6 DEF Auth!Receive, Auth!Asking, Auth!At, Auth!Stored
  <2>2. call[p].read = auth.creds /\ call[p].does = "refresh"
    BY <1>1, <2>1, CallKinds DEF AuthClean, HoldsLock
  <2>3. call[p].who = r
    BY <1>2, <2>1, <2>2 DEF CredsType
  <2> QED
    BY <2>2, <2>3
<1>7. ASSUME NEW k \in Keys, Auth!ChangeDuringRefresh(p, k, 1) PROVE data'[p][r] # data[p][r] /\ spent' # spent
  <2>1. /\ data[p][k] # 1 /\ data' = [data EXCEPT ![p][k] = 1] /\ spent' = [spent EXCEPT !.calls = @ + 1]
        /\ auth' = auth \/ auth'.creds = [auth.creds EXCEPT ![k] = 1]
    BY <1>2, <1>7 DEF Auth!ChangeDuringRefresh, Auth!Count
  <2>2. k = r
    BY <1>2, <2>1 DEF CredsType
  <2>3. data \in [Procs -> [Auth!Providers -> Nat]] /\ spent \in [calls : Nat, faults : Nat]
    BY <1>1 DEF AuthCopies, CredsType
  <2>4. data'[p][r] = 1
    BY <2>1, <2>2, <2>3
  <2>5. spent'.calls # spent.calls
    BY <2>1, <2>3
  <2> QED
    BY <2>1, <2>2, <2>4, <2>5
<1> QED
  BY <1>3, <1>4, <1>5, <1>6, <1>7

(***************************************************************************)
(* The progress of sub-agents.                                             *)
(***************************************************************************)
AgentStates == {"none", "running", "stopping", "ended"}
TaskTypes ==
    /\ toolCall \in [Procs -> {"waiting", "running", "returned"}]
    /\ subAgent \in [Procs -> [TaskIds -> AgentStates]]
    /\ localMap \in [Procs -> SUBSET TaskIds] /\ shared \in [TaskIds -> Procs \cup {NoTask}]

\* A sub-agent that runs is one of a call that has not returned.
RunsForCall ==
    \A c \in Procs, id \in TaskIds :
        subAgent[c][id] \in {"running", "stopping"} => toolCall[c] = "running" /\ id \in tasks[c]

\* What the session shows of a call, the call shows itself.
ShowsOwn ==
    \A id \in TaskIds : shared[id] # NoTask =>
        toolCall[shared[id]] = "running" /\ id \in localMap[shared[id]]

TaskInv == TaskTypes /\ RunsForCall /\ ShowsOwn

LEMMA TaskInvInit == SubAgents!TaskInit => TaskInv
  BY DEF SubAgents!TaskInit, TaskInv, TaskTypes, RunsForCall, ShowsOwn, AgentStates

\* A report of a sub-agent.
LEMMA Reports ==
    ASSUME TaskInv, NEW c \in Procs, NEW id \in TaskIds, subAgent[c][id] \in {"running", "stopping"},
           SubAgents!Report(c, id), UNCHANGED toolCall
    PROVE  /\ ShowsOwn' /\ localMap' \in [Procs -> SUBSET TaskIds] /\ shared' \in [TaskIds -> Procs \cup {NoTask}]
           /\ \A i \in TaskIds : shared[i] \in Procs => shared'[i] # NoTask
<1>1. /\ localMap' = [localMap EXCEPT ![c] = @ \cup {id}] /\ shared' = [shared EXCEPT ![id] = c]
      /\ localMap' \in [Procs -> SUBSET TaskIds] /\ shared' \in [TaskIds -> Procs \cup {NoTask}]
  BY DEF SubAgents!Report, TaskInv, TaskTypes
<1>2. toolCall[c] = "running" /\ shared'[id] = c /\ \A i \in TaskIds : i # id => shared'[i] = shared[i]
  BY <1>1 DEF TaskInv, TaskTypes, RunsForCall
<1>3. id \in localMap'[c] /\ \A d \in Procs : localMap[d] \subseteq localMap'[d]
  BY <1>1 DEF TaskInv, TaskTypes
<1>4. ShowsOwn'
  <2> SUFFICES ASSUME NEW i \in TaskIds, shared'[i] # NoTask
               PROVE  toolCall[shared'[i]] = "running" /\ i \in localMap'[shared'[i]]
    BY DEF ShowsOwn
  <2>1. CASE i = id
    BY <1>2, <1>3, <2>1
  <2>2. CASE i # id
    <3>1. shared'[i] = shared[i] /\ shared[i] \in Procs
      BY <1>2, <2>2 DEF TaskInv, TaskTypes
    <3> QED
      BY <1>3, <3>1 DEF TaskInv, ShowsOwn
  <2> QED
    BY <2>1, <2>2
<1> QED
  BY <1>1, <1>2, <1>4, NoTaskAssumption

\* What is shown of a call that returns is taken away.
LEMMA Clears ==
    ASSUME TaskInv, NEW c \in Procs, SubAgents!Return(c)
    PROVE  /\ shared' \in [TaskIds -> Procs \cup {NoTask}]
           /\ \A id \in TaskIds : /\ shared'[id] \in {shared[id], NoTask} /\ shared'[id] # c
                                  /\ shared'[id] # shared[id] => shared[id] = c \/ sameTime
<1>1. \A id \in TaskIds : shared'[id] =
        IF id \in localMap[c] /\ (sameTime \/ shared[id] = c) THEN NoTask ELSE shared[id]
  BY DEF SubAgents!Return, SubAgents!Cleared
<1>2. shared' \in [TaskIds -> Procs \cup {NoTask}]
  BY DEF SubAgents!Return, SubAgents!Cleared, TaskInv, TaskTypes
<1>3. \A id \in TaskIds : shared[id] = c => id \in localMap[c]
  BY NoTaskAssumption DEF TaskInv, ShowsOwn
<1> QED
  BY <1>1, <1>2, <1>3, NoTaskAssumption

LEMMA TaskInvStep ==
    ASSUME TaskInv, SubAgents!TaskNext
    PROVE  TaskInv'
<1>1. TaskTypes /\ RunsForCall /\ ShowsOwn
  BY DEF TaskInv
<1>2. CASE SubAgents!AbortTasks
  <2>1. /\ \A c \in Procs, id \in TaskIds :
             subAgent'[c][id] = subAgent[c][id] \/ (subAgent[c][id] = "running" /\ subAgent'[c][id] = "stopping")
        /\ subAgent' \in [Procs -> [TaskIds -> AgentStates]]
        /\ UNCHANGED <<toolCall, localMap, shared, tasks>>
    BY <1>1, <1>2 DEF SubAgents!AbortTasks, SubAgents!Listening, TaskTypes, AgentStates
  <2> QED
    BY <1>1, <2>1 DEF TaskInv, TaskTypes, RunsForCall, ShowsOwn
<1>3. CASE SubAgents!Replace
  BY <1>1, <1>3 DEF SubAgents!Replace, TaskInv, TaskTypes, RunsForCall, ShowsOwn
<1>4. ASSUME NEW c \in Procs, SubAgents!StartTasks(c) PROVE TaskInv'
  <2>1. /\ toolCall' = [toolCall EXCEPT ![c] = "running"] /\ toolCall[c] = "waiting"
        /\ subAgent' = [subAgent EXCEPT ![c] = [id \in TaskIds |-> IF id \in tasks[c] THEN "running" ELSE "none"]]
        /\ UNCHANGED <<localMap, shared, tasks>>
    BY <1>4 DEF SubAgents!StartTasks
  <2>2. TaskTypes'
    BY <1>1, <2>1 DEF TaskTypes, AgentStates
  <2>3. toolCall'[c] = "running" /\ \A d \in Procs : d # c => toolCall'[d] = toolCall[d] /\ subAgent'[d] = subAgent[d]
    BY <1>1, <2>1 DEF TaskTypes
  <2>4. \A id \in TaskIds : subAgent'[c][id] = IF id \in tasks[c] THEN "running" ELSE "none"
    BY <1>1, <2>1 DEF TaskTypes
  <2>5. RunsForCall'
    BY <1>1, <2>1, <2>3, <2>4 DEF RunsForCall
  <2>6. ShowsOwn'
    BY <1>1, <2>1, <2>3 DEF ShowsOwn, TaskTypes
  <2> QED
    BY <2>2, <2>5, <2>6 DEF TaskInv
<1>5. ASSUME NEW c \in Procs, SubAgents!RefuseTasks(c) PROVE TaskInv'
  <2>1. /\ toolCall' = [toolCall EXCEPT ![c] = "returned"] /\ toolCall[c] = "waiting"
        /\ UNCHANGED <<subAgent, localMap, shared, tasks>>
    BY <1>5 DEF SubAgents!RefuseTasks
  <2>2. TaskTypes'
    BY <1>1, <2>1 DEF TaskTypes
  <2>3. \A d \in Procs : d # c => toolCall'[d] = toolCall[d]
    BY <1>1, <2>1 DEF TaskTypes
  <2>4. RunsForCall'
    BY <1>1, <2>1, <2>3 DEF RunsForCall
  <2>5. ShowsOwn'
    BY <1>1, <2>1, <2>3 DEF ShowsOwn, TaskTypes
  <2> QED
    BY <2>2, <2>4, <2>5 DEF TaskInv
<1>6. ASSUME NEW c \in Procs, SubAgents!Return(c) PROVE TaskInv'
  <2>1. /\ toolCall' = [toolCall EXCEPT ![c] = "returned"] /\ \A id \in tasks[c] : subAgent[c][id] = "ended"
        /\ UNCHANGED <<subAgent, localMap, tasks>>
    BY <1>6 DEF SubAgents!Return
  <2>2. TaskTypes'
    BY <1>1, <1>6, <2>1, Clears DEF TaskTypes
  <2>3. \A d \in Procs : d # c => toolCall'[d] = toolCall[d]
    BY <1>1, <2>1 DEF TaskTypes
  <2>4. RunsForCall'
    BY <1>1, <2>1, <2>3 DEF RunsForCall
  <2>5. ShowsOwn'
    <3>1. \A id \in TaskIds : shared'[id] # NoTask => shared'[id] = shared[id] /\ shared[id] # c /\ shared[id] \in Procs
      BY <1>1, <1>6, Clears DEF TaskTypes
    <3> QED
      BY <1>1, <2>1, <2>3, <3>1 DEF ShowsOwn
  <2> QED
    BY <2>2, <2>4, <2>5 DEF TaskInv
<1>7. ASSUME NEW c \in Procs, NEW id \in TaskIds, SubAgents!Progress(c, id) PROVE TaskInv'
  <2>1. /\ subAgent[c][id] \in {"running", "stopping"} /\ SubAgents!Report(c, id)
        /\ UNCHANGED <<toolCall, subAgent, tasks>>
    BY <1>7 DEF SubAgents!Progress
  <2>2. /\ ShowsOwn' /\ localMap' \in [Procs -> SUBSET TaskIds] /\ shared' \in [TaskIds -> Procs \cup {NoTask}]
    BY <2>1, Reports
  <2> QED
    BY <1>1, <2>1, <2>2 DEF TaskInv, TaskTypes, RunsForCall
<1>8. ASSUME NEW c \in Procs, NEW id \in TaskIds, SubAgents!SubAgentEnds(c, id) PROVE TaskInv'
  <2>1. /\ subAgent[c][id] \in {"running", "stopping"} /\ SubAgents!Report(c, id)
        /\ subAgent' = [subAgent EXCEPT ![c][id] = "ended"] /\ UNCHANGED <<toolCall, tasks>>
    BY <1>8 DEF SubAgents!SubAgentEnds
  <2>2. /\ ShowsOwn' /\ localMap' \in [Procs -> SUBSET TaskIds] /\ shared' \in [TaskIds -> Procs \cup {NoTask}]
    BY <2>1, Reports
  <2>3. /\ subAgent' \in [Procs -> [TaskIds -> AgentStates]]
        /\ \A d \in Procs, i \in TaskIds : subAgent'[d][i] \in {subAgent[d][i], "ended"}
    BY <1>1, <2>1 DEF TaskTypes, AgentStates
  <2> QED
    BY <1>1, <2>1, <2>2, <2>3 DEF TaskInv, TaskTypes, RunsForCall
<1> QED
  BY <1>2, <1>3, <1>4, <1>5, <1>6, <1>7, <1>8 DEF SubAgents!TaskNext, SubAgents!TaskStep

LEMMA TaskInvTrue == TaskInv => SubAgents!ProgressIsTrue
  BY DEF TaskInv, ShowsOwn, SubAgents!ProgressIsTrue

\* Only the return of a call takes away what is shown, and what is another's
\* only when both were started at one time.
LEMMA ProgressStaysStep ==
    ASSUME TaskInv, SubAgents!TaskNext, NEW c \in Procs, NEW id \in TaskIds,
           shared[id] = c, shared'[id] = NoTask, replaced' = replaced
    PROVE  toolCall'[c] = "returned" \/ (sameTime /\ toolCall # toolCall')
<1>1. ASSUME NEW d \in Procs, SubAgents!Return(d)
      PROVE  toolCall'[c] = "returned" \/ (sameTime /\ toolCall # toolCall')
  <2>1. toolCall[d] = "running" /\ toolCall'[d] = "returned"
    BY <1>1 DEF SubAgents!Return, TaskInv, TaskTypes
  <2>2. c = d \/ sameTime
    BY <1>1, Clears, NoTaskAssumption
  <2> QED
    BY <2>1, <2>2
<1>2. ASSUME NEW d \in Procs, NEW i \in TaskIds, SubAgents!Progress(d, i) \/ SubAgents!SubAgentEnds(d, i)
      PROVE  FALSE
  BY <1>2, Reports DEF SubAgents!Progress, SubAgents!SubAgentEnds
<1>3. ASSUME UNCHANGED shared PROVE FALSE
  BY <1>3, NoTaskAssumption
<1> QED
  BY <1>1, <1>2, <1>3 DEF SubAgents!TaskNext, SubAgents!TaskStep, SubAgents!AbortTasks, SubAgents!Replace,
     SubAgents!StartTasks, SubAgents!RefuseTasks

\* After an abort no sub-agent runs that does not know of it.
LEMMA AbortsAreHeardStep ==
    ASSUME TaskInv, SubAgents!TaskNext, signalAborted # signalAborted', NEW c \in Procs, NEW id \in TaskIds
    PROVE  subAgent'[c][id] # "running"
<1>1. SubAgents!AbortTasks
  BY DEF SubAgents!TaskNext, SubAgents!TaskStep, SubAgents!Replace, SubAgents!StartTasks,
     SubAgents!RefuseTasks, SubAgents!Progress, SubAgents!SubAgentEnds, SubAgents!Return
<1> QED
  BY <1>1 DEF SubAgents!AbortTasks, SubAgents!Listening

(***************************************************************************)
(* The path that is compacted.                                             *)
(***************************************************************************)
LEMMA LeastOne ==
    ASSUME NEW S \in SUBSET Nat, S # {}
    PROVE  Min(S) \in S /\ \A y \in S : Min(S) <= y
<1>1. PICK x \in S : \A y \in S : ~(<<y, x>> \in Less)
  BY WFMin, LessWellFounded
<1>2. ASSUME NEW y \in S PROVE x <= y
  <2>1. x \in Nat /\ y \in Nat
    OBVIOUS
  <2>2. ASSUME y < x PROVE <<y, x>> \in Less
    BY ONLY <2>1, <2>2, LessIsLess
  <2> QED
    BY <1>1, <2>1, <2>2
<1> QED
  BY <1>2 DEF Min

LEMMA CompactorMinMax == \A S : Compactor!Min(S) = Min(S) /\ Compactor!Max(S) = Max(S)
  BY DEF Compactor!Min, Compactor!Max, Min, Max

EntryTypes == Compactor!HasMessage \cup {"label", "compaction"}
Entries == [type : EntryTypes, size : Int, first : Nat, covers : SUBSET Nat]

\* The last compaction of a path, and the first entry it has kept.
SummariesOf(p) == {i \in DOMAIN p : p[i].type = "compaction"}
LastOf(p) == IF SummariesOf(p) = {} THEN 0 ELSE Max(SummariesOf(p))
StartOf(p) == IF LastOf(p) = 0 THEN 1 ELSE p[LastOf(p)].first

\* A compaction keeps from an entry before it on; of what is kept, a result
\* follows an entry where a cut may be, and a call that waits for its result
\* is in what is kept.
KeepsBefore(p) == \A i \in DOMAIN p : p[i].type = "compaction" => p[i].first \in 1 .. i - 1
ResultsFollow(p) == \A i \in StartOf(p) .. Len(p) :
    p[i].type = "toolResult" => \E j \in StartOf(p) .. i - 1 : p[j].type \in Compactor!CutTypes
CallIsKept(p, o) == o > 0 => \E j \in StartOf(p) .. Len(p) : p[j].type = "assistant"
PathInv(p, o) == p \in Seq(Entries) /\ KeepsBefore(p) /\ ResultsFollow(p) /\ CallIsKept(p, o)
CompactionInv == PathInv(path, open)

LEMMA CompactionInvInit == Compactor!CompactionInit => CompactionInv
<1> SUFFICES ASSUME path = <<>>, open = 0 PROVE PathInv(path, open)
  BY DEF Compactor!CompactionInit, CompactionInv
<1>1. path \in Seq(Entries) /\ DOMAIN path = {} /\ Len(path) = 0
  OBVIOUS
<1>2. KeepsBefore(path) /\ CallIsKept(path, open)
  BY <1>1 DEF KeepsBefore, CallIsKept
<1>3. StartOf(path) = 1
  BY <1>1 DEF StartOf, LastOf, SummariesOf
<1> QED
  BY <1>1, <1>2, <1>3 DEF PathInv, ResultsFollow

LEMMA Starts ==
    /\ Compactor!Previous = LastOf(path) /\ Compactor!BoundaryStart = StartOf(path)
    /\ Compactor!Compactions = SummariesOf(path)
  BY CompactorMinMax DEF Compactor!Previous, Compactor!BoundaryStart, Compactor!Compactions, StartOf, LastOf, SummariesOf

LEMMA StartsWithin ==
    ASSUME NEW p \in Seq(Entries), KeepsBefore(p)
    PROVE  /\ LastOf(p) \in 0 .. Len(p) /\ StartOf(p) \in 1 .. Len(p) + 1
           /\ LastOf(p) # 0 => LastOf(p) \in DOMAIN p /\ p[LastOf(p)].type = "compaction" /\ StartOf(p) \in 1 .. Len(p)
           /\ \A i \in SummariesOf(p) : LastOf(p) >= i
<1>1. Len(p) \in Nat /\ DOMAIN p = 1 .. Len(p)
  OBVIOUS
<1>2. CASE SummariesOf(p) = {}
  BY <1>1, <1>2 DEF LastOf, StartOf
<1>3. CASE SummariesOf(p) # {}
  <2>1. SummariesOf(p) \in SUBSET (1 .. Len(p))
    BY <1>1 DEF SummariesOf
  <2>2. Max(SummariesOf(p)) \in SummariesOf(p) /\ \A y \in SummariesOf(p) : Max(SummariesOf(p)) >= y
    BY <1>1, <1>3, <2>1, GreatestOne
  <2>3. LastOf(p) \in SummariesOf(p) /\ \A y \in SummariesOf(p) : LastOf(p) >= y
    BY <1>3, <2>2 DEF LastOf
  <2>4. LastOf(p) \in 1 .. Len(p) /\ p[LastOf(p)].type = "compaction"
    BY <1>1, <2>3 DEF SummariesOf
  <2>5. StartOf(p) = p[LastOf(p)].first /\ StartOf(p) \in 1 .. LastOf(p) - 1
    BY <1>1, <2>4 DEF StartOf, KeepsBefore
  <2> QED
    BY <1>1, <2>3, <2>4, <2>5
<1> QED
  BY <1>2, <1>3

LEMMA StartsOfAppend ==
    ASSUME NEW p \in Seq(Entries), NEW e \in Entries, KeepsBefore(p)
    PROVE  /\ e.type # "compaction" => LastOf(Append(p, e)) = LastOf(p) /\ StartOf(Append(p, e)) = StartOf(p)
           /\ e.type = "compaction" => LastOf(Append(p, e)) = Len(p) + 1 /\ StartOf(Append(p, e)) = e.first
           /\ Append(p, e) \in Seq(Entries) /\ Len(Append(p, e)) = Len(p) + 1 /\ Append(p, e)[Len(p) + 1] = e
           /\ \A i \in 1 .. Len(p) : Append(p, e)[i] = p[i]
           /\ DOMAIN Append(p, e) = 1 .. Len(p) + 1
<1> DEFINE q == Append(p, e)
<1>1. /\ Len(p) \in Nat /\ DOMAIN p = 1 .. Len(p) /\ q \in Seq(Entries) /\ Len(q) = Len(p) + 1
      /\ q[Len(p) + 1] = e /\ DOMAIN q = 1 .. Len(p) + 1 /\ \A i \in 1 .. Len(p) : q[i] = p[i]
  BY AppendElements
<1> HIDE DEF q
<1>2. e.type # "compaction" => SummariesOf(q) = SummariesOf(p)
  BY <1>1 DEF SummariesOf
<1>3. e.type = "compaction" => Len(p) + 1 \in SummariesOf(q)
  BY <1>1 DEF SummariesOf
<1>4. e.type # "compaction" => LastOf(q) = LastOf(p)
  BY <1>2 DEF LastOf
<1>5. e.type # "compaction" => StartOf(q) = StartOf(p)
  BY <1>1, <1>4, StartsWithin DEF StartOf
<1>6. ASSUME e.type = "compaction" PROVE LastOf(q) = Len(p) + 1
  <2>1. SummariesOf(q) \in SUBSET (1 .. Len(p) + 1) /\ SummariesOf(q) # {} /\ Len(p) + 1 \in Nat
    BY <1>1, <1>3, <1>6 DEF SummariesOf
  <2>2. Max(SummariesOf(q)) \in SummariesOf(q) /\ \A y \in SummariesOf(q) : Max(SummariesOf(q)) >= y
    BY ONLY <2>1, GreatestOne
  <2> QED
    BY <1>1, <1>3, <1>6, <2>1, <2>2 DEF LastOf
<1>7. e.type = "compaction" => StartOf(q) = e.first
  BY <1>1, <1>6 DEF StartOf
<1> QED
  BY <1>1, <1>4, <1>5, <1>6, <1>7 DEF q

\* The conversation grows by an entry that is no compaction.
LEMMA GrownKeeps ==
    ASSUME NEW p \in Seq(Entries), NEW o, NEW e \in Entries, NEW r, PathInv(p, o), e.type # "compaction",
           e.type = "toolResult" => o > 0,
           r > 0 => o > 0 \/ e.type = "assistant"
    PROVE  PathInv(Append(p, e), r)
<1> DEFINE q == Append(p, e)
           n == Len(p)
           b == StartOf(p)
<1>1. KeepsBefore(p) /\ ResultsFollow(p) /\ CallIsKept(p, o)
  BY DEF PathInv
<1>2. /\ StartOf(q) = b /\ q \in Seq(Entries) /\ Len(q) = n + 1 /\ q[n + 1] = e /\ DOMAIN q = 1 .. n + 1
      /\ \A i \in 1 .. n : q[i] = p[i]
  BY <1>1, StartsOfAppend
<1>3. n \in Nat /\ b \in 1 .. n + 1 /\ DOMAIN p = 1 .. n
  BY <1>1, StartsWithin
<1> HIDE DEF q, b, n
<1>4. KeepsBefore(q)
  <2> SUFFICES ASSUME NEW i \in DOMAIN q, q[i].type = "compaction" PROVE q[i].first \in 1 .. i - 1
    BY DEF KeepsBefore
  <2>1. i \in 1 .. n /\ q[i] = p[i]
    BY <1>2, <1>3
  <2> QED
    BY <1>1, <1>3, <2>1 DEF KeepsBefore
<1>5. (\E j \in b .. n : p[j].type = "assistant") => \E j \in b .. n : q[j].type = "assistant"
  BY <1>2, <1>3
<1>6. ResultsFollow(q)
  <2> SUFFICES ASSUME NEW i \in b .. n + 1, q[i].type = "toolResult"
               PROVE  \E j \in b .. i - 1 : q[j].type \in Compactor!CutTypes
    BY <1>2 DEF ResultsFollow
  <2>1. CASE i \in b .. n
    <3>1. q[i] = p[i]
      BY <1>2, <1>3, <2>1
    <3>2. PICK j \in b .. i - 1 : p[j].type \in Compactor!CutTypes
      BY <1>1, <2>1, <3>1 DEF ResultsFollow, b, n
    <3>3. j \in 1 .. n
      BY <1>3, <2>1
    <3> QED
      BY <1>2, <3>2, <3>3
  <2>2. CASE i = n + 1
    <3>1. o > 0
      BY <1>2, <2>2
    <3>2. PICK j \in b .. n : q[j].type = "assistant"
      BY <1>1, <1>5, <3>1 DEF CallIsKept, b, n
    <3>3. j \in b .. i - 1 /\ q[j].type \in Compactor!CutTypes
      BY <1>3, <2>2, <3>2 DEF Compactor!CutTypes, Compactor!HasMessage, Compactor!Messages
    <3> QED
      BY <3>3
  <2> QED
    BY <1>3, <2>1, <2>2
<1>7. CallIsKept(q, r)
  <2> SUFFICES ASSUME r > 0 PROVE \E j \in b .. n + 1 : q[j].type = "assistant"
    BY <1>2 DEF CallIsKept
  <2>1. CASE e.type = "assistant"
    BY <1>2, <1>3, <2>1
  <2>2. CASE o > 0
    BY <1>1, <1>3, <1>5, <2>2 DEF CallIsKept, b, n
  <2> QED
    BY <2>1, <2>2
<1> QED
  BY <1>2, <1>4, <1>6, <1>7 DEF PathInv, q

\* What may be cut away and what is kept: no message stands between the first
\* entry that is kept and the cut, and without a place to cut nothing moves.
LEMMA KeptFromCut ==
    ASSUME CompactionInv, Compactor!BoundaryStart <= Len(path)
    PROVE  /\ Compactor!FirstKept \in Compactor!BoundaryStart .. Len(path)
           /\ Compactor!CutPoints = {} => Compactor!FirstKept = Compactor!BoundaryStart
           /\ Compactor!CutPoints # {} =>
                /\ Compactor!Cut \in Compactor!CutPoints /\ Compactor!FirstKept <= Compactor!Cut
                /\ \A j \in Compactor!FirstKept .. Compactor!Cut - 1 : path[j].type \notin Compactor!Messages \cup {"compaction"}
           /\ Compactor!Reached # {} /\ (\E c \in Compactor!CutPoints : c >= Max(Compactor!Reached)) =>
                Compactor!Cut >= Max(Compactor!Reached)
<1> DEFINE b == Compactor!BoundaryStart
           n == Len(path)
           points == Compactor!CutPoints
           reached == Compactor!Reached
           behind == IF reached = {} THEN {} ELSE {c \in points : c >= Max(reached)}
           place == Compactor!Cut
           stays(i) == path[i].type \in Compactor!Messages \cup {"compaction"}
           fronts == {i \in b .. place : \A j \in i .. place - 1 : ~stays(j)}
           first == Compactor!FirstKept
<1>1. n \in Nat /\ b \in 1 .. n
  <2>1. path \in Seq(Entries) /\ KeepsBefore(path)
    BY DEF CompactionInv, PathInv
  <2> QED
    BY <2>1, Starts, StartsWithin
<1>2. points \in SUBSET Nat /\ points \subseteq b .. n
  BY <1>1 DEF Compactor!CutPoints
<1>3. place = IF behind = {} THEN Min(points) ELSE Min(behind)
  BY CompactorMinMax DEF Compactor!Cut
<1>4. first = IF points = {} THEN b ELSE Min(fronts)
  BY CompactorMinMax DEF Compactor!FirstKept
<1>5. ASSUME points # {} PROVE place \in points /\ (behind # {} => place \in behind)
  <2>1. behind \in SUBSET points
    OBVIOUS
  <2> HIDE DEF behind, points
  <2>2. CASE behind = {}
    BY <1>2, <1>3, <1>5, <2>2, LeastOne
  <2>3. CASE behind # {}
    <3>1. behind \in SUBSET Nat
      BY <1>2, <2>1
    <3>2. Min(behind) \in behind
      BY ONLY <2>3, <3>1, LeastOne
    <3> QED
      BY <1>3, <2>1, <2>3, <3>2
  <2> QED
    BY <2>2, <2>3
<1>6. ASSUME points # {} PROVE first \in fronts
  <2>1. place \in b .. n
    BY <1>2, <1>5, <1>6
  <2> HIDE DEF b, n, place
  <2>2. place \in fronts /\ fronts \in SUBSET Nat
    BY <1>1, <2>1
  <2> HIDE DEF fronts
  <2>3. Min(fronts) \in fronts
    BY ONLY <2>2, LeastOne
  <2> QED
    BY <1>4, <1>6, <2>3
<1>7. points = {} => first = b
  BY <1>4
<1>8. points # {} => /\ place \in points /\ first <= place /\ first \in b .. n
                     /\ \A j \in first .. place - 1 : ~stays(j)
  <2> SUFFICES ASSUME points # {}
               PROVE  /\ place \in points /\ first <= place /\ first \in b .. n
                      /\ \A j \in first .. place - 1 : ~stays(j)
    OBVIOUS
  <2>1. place \in points /\ place \in b .. n
    BY <1>2, <1>5
  <2>2. first \in b .. place /\ \A j \in first .. place - 1 : ~stays(j)
    BY <1>6
  <2> HIDE DEF b, n, place, points, first, stays
  <2> QED
    BY <1>1, <2>1, <2>2
<1>9. reached # {} /\ (\E c \in points : c >= Max(reached)) => place >= Max(reached)
  BY <1>5
<1> QED
  BY <1>1, <1>7, <1>8, <1>9

LEMMA CompactedKeeps ==
    ASSUME CompactionInv, NEW reason \in Compactor!Reasons, Compactor!Compact(reason)
    PROVE  CompactionInv' /\ Compactor!FirstKept \in Compactor!BoundaryStart .. Len(path)
<1> DEFINE n == Len(path)
           first == Compactor!FirstKept
           b == StartOf(path)
           e == Compactor!Entry("compaction", 0, first, Compactor!Summary(first, reason))
           q == Append(path, e)
<1>1. path' = q /\ open' = 0 /\ Compactor!BoundaryStart <= Len(path)
  BY DEF Compactor!Compact
<1>2. path \in Seq(Entries) /\ KeepsBefore(path) /\ ResultsFollow(path)
  BY DEF CompactionInv, PathInv
<1>3. n \in Nat /\ b \in 1 .. n /\ Compactor!BoundaryStart = b /\ DOMAIN path = 1 .. n
  BY <1>1, <1>2, Starts, StartsWithin
<1>4. first \in b .. n
  BY <1>1, <1>3, KeptFromCut
<1>5. Compactor!Summary(first, reason) \in SUBSET Nat
  <2> HIDE DEF first
  <2>1. /\ Compactor!MessagesToSummarize(first) \in SUBSET Nat
        /\ Compactor!TurnPrefixMessages(first) \in SUBSET Nat
    <3>1. Compactor!HistoryEnd(first) \in Nat
      <4>1. CASE Compactor!IsSplitTurn(first)
        <5> DEFINE starts == Compactor!TurnStarts(first)
        <5>1. starts \in SUBSET (1 .. n) /\ starts # {}
          BY <1>3, <1>4, <4>1 DEF Compactor!TurnStarts, Compactor!IsSplitTurn
        <5>2. Compactor!HistoryEnd(first) = Max(starts)
          BY <4>1, CompactorMinMax DEF Compactor!HistoryEnd
        <5> HIDE DEF starts, n
        <5>3. Max(starts) \in starts
          BY ONLY <1>3, <5>1, GreatestOne
        <5>4. starts \subseteq Nat
          BY <5>1
        <5>5. Max(starts) \in Nat
          BY ONLY <5>3, <5>4, Zenon
        <5> QED
          BY ONLY <5>2, <5>5
      <4>2. CASE ~Compactor!IsSplitTurn(first)
        BY <1>3, <1>4, <4>2 DEF Compactor!HistoryEnd
      <4> QED
        BY <4>1, <4>2
    <3> QED
      BY <1>3, <1>4, <3>1 DEF Compactor!MessagesToSummarize, Compactor!TurnPrefixMessages, Compactor!InRange
  <2>2. Compactor!PreviousCovers \in SUBSET Nat
    <3>1. CASE Compactor!Previous = 0
      BY <3>1 DEF Compactor!PreviousCovers
    <3>2. CASE Compactor!Previous # 0
      <4>1. Compactor!Previous \in DOMAIN path
        BY <1>2, <3>2, Starts, StartsWithin
      <4>2. path[Compactor!Previous] \in Entries
        BY <1>2, <1>3, <4>1
      <4> QED
        BY <3>2, <4>2 DEF Compactor!PreviousCovers, Entries
    <3> QED
      BY <3>1, <3>2
  <2> QED
    BY <2>1, <2>2 DEF Compactor!Summary
<1>6. e \in Entries /\ e.type = "compaction" /\ e.first = first
  BY <1>3, <1>4, <1>5 DEF Entries, EntryTypes, Compactor!Entry
<1> HIDE DEF e
<1>7. /\ StartOf(q) = first /\ q \in Seq(Entries) /\ Len(q) = n + 1 /\ q[n + 1] = e /\ DOMAIN q = 1 .. n + 1
      /\ \A i \in 1 .. n : q[i] = path[i]
  BY <1>2, <1>6, StartsOfAppend
<1> HIDE DEF q, first, b, n
<1>8. KeepsBefore(q)
  <2> SUFFICES ASSUME NEW i \in DOMAIN q, q[i].type = "compaction" PROVE q[i].first \in 1 .. i - 1
    BY DEF KeepsBefore
  <2>1. CASE i = n + 1
    BY <1>3, <1>4, <1>6, <1>7, <2>1
  <2>2. CASE i \in 1 .. n
    BY <1>2, <1>3, <1>7, <2>2 DEF KeepsBefore
  <2> QED
    BY <1>3, <1>7, <2>1, <2>2
<1>9. ResultsFollow(q)
  <2> SUFFICES ASSUME NEW i \in first .. n + 1, q[i].type = "toolResult"
               PROVE  \E j \in first .. i - 1 : q[j].type \in Compactor!CutTypes
    BY <1>7 DEF ResultsFollow
  <2>1. i \in 1 .. n /\ q[i] = path[i]
    BY <1>3, <1>4, <1>6, <1>7
  <2>2. CASE Compactor!CutPoints = {}
    <3>1. first = b
      BY <1>1, <1>3, <2>2, KeptFromCut DEF first
    <3>2. PICK j \in b .. i - 1 : path[j].type \in Compactor!CutTypes
      BY <1>2, <1>3, <2>1, <3>1 DEF ResultsFollow, b, n
    <3> QED
      BY <1>3, <1>7, <2>1, <3>1, <3>2
  <2>3. CASE Compactor!CutPoints # {}
    <3> DEFINE place == Compactor!Cut
    <3>1. /\ place \in Compactor!CutPoints /\ first <= place
          /\ \A j \in first .. place - 1 : path[j].type \notin Compactor!Messages \cup {"compaction"}
      BY <1>1, <2>3, KeptFromCut DEF first
    <3>2. place \in 1 .. n /\ path[place].type \in Compactor!CutTypes
      BY <1>3, <3>1 DEF Compactor!CutPoints, n
    <3> HIDE DEF place
    <3>3. path[i].type \notin Compactor!CutTypes /\ path[i].type \in Compactor!Messages
      BY <2>1 DEF Compactor!CutTypes, Compactor!Messages
    <3>4. i # place /\ ~(i \in first .. place - 1)
      BY <3>1, <3>2, <3>3
    <3>5. place \in first .. i - 1
      BY <1>3, <1>4, <2>1, <3>1, <3>2, <3>4
    <3> QED
      BY <1>7, <3>2, <3>5
  <2> QED
    BY <2>2, <2>3
<1>10. CallIsKept(q, 0)
  BY DEF CallIsKept
<1> QED
  BY <1>1, <1>3, <1>4, <1>7, <1>8, <1>9, <1>10 DEF CompactionInv, PathInv, first

\* What grows the path is no compaction.
LEMMA GrowStep ==
    ASSUME CompactionInv, Compactor!Grow
    PROVE  \E e \in Entries :
             /\ path' = Append(path, e) /\ e.type # "compaction"
             /\ e.type = "toolResult" => open > 0
             /\ open' > 0 => open > 0 \/ e.type = "assistant"
<1>1. CASE Compactor!Ask
  <2>1. PICK type \in Compactor!UserLike : Compactor!Append1(type, 1) /\ UNCHANGED open
    BY <1>1 DEF Compactor!Ask
  <2>2. /\ Compactor!Entry(type, 1, 0, {}) \in Entries
        /\ Compactor!Entry(type, 1, 0, {}).type \notin {"compaction", "toolResult"}
    BY DEF Compactor!UserLike, Compactor!Entry, Entries, EntryTypes, Compactor!HasMessage, Compactor!Messages
  <2> QED
    BY <2>1, <2>2 DEF Compactor!Append1
<1>2. CASE Compactor!Reply
  <2>1. Compactor!Append1("assistant", 1)
    BY <1>2 DEF Compactor!Reply
  <2>2. /\ Compactor!Entry("assistant", 1, 0, {}) \in Entries
        /\ Compactor!Entry("assistant", 1, 0, {}).type = "assistant"
    BY DEF Compactor!Entry, Entries, EntryTypes, Compactor!HasMessage, Compactor!Messages
  <2> QED
    BY <2>1, <2>2 DEF Compactor!Append1
<1>3. CASE Compactor!Answer
  <2>1. PICK size \in 1 .. MaxSize : Compactor!Append1("toolResult", size) /\ open > 0
    BY <1>3 DEF Compactor!Answer
  <2>2. /\ Compactor!Entry("toolResult", size, 0, {}) \in Entries
        /\ Compactor!Entry("toolResult", size, 0, {}).type = "toolResult"
    BY DEF Compactor!Entry, Entries, EntryTypes, Compactor!HasMessage, Compactor!Messages
  <2> QED
    BY <2>1, <2>2 DEF Compactor!Append1
<1>4. CASE Compactor!Mark
  <2>1. Compactor!Append1("label", 0) /\ UNCHANGED open
    BY <1>4 DEF Compactor!Mark
  <2>2. /\ Compactor!Entry("label", 0, 0, {}) \in Entries
        /\ Compactor!Entry("label", 0, 0, {}).type = "label"
    BY DEF Compactor!Entry, Entries, EntryTypes
  <2> QED
    BY <2>1, <2>2 DEF Compactor!Append1
<1> QED
  BY <1>1, <1>2, <1>3, <1>4 DEF Compactor!Grow

LEMMA CompactionInvStep == CompactionInv /\ Compactor!CompactionNext => CompactionInv'
<1> SUFFICES ASSUME CompactionInv, Compactor!CompactionNext PROVE CompactionInv'
  OBVIOUS
<1>1. CASE Compactor!Grow
  <2>1. PICK e \in Entries : /\ path' = Append(path, e) /\ e.type # "compaction"
                             /\ e.type = "toolResult" => open > 0
                             /\ open' > 0 => open > 0 \/ e.type = "assistant"
    BY <1>1, GrowStep
  <2>2. path \in Seq(Entries) /\ PathInv(path, open)
    BY DEF CompactionInv, PathInv
  <2>3. PathInv(Append(path, e), open')
    BY <2>1, <2>2, GrownKeeps
  <2> QED
    BY <2>1, <2>3 DEF CompactionInv
<1>2. CASE Compactor!Abort
  BY <1>2 DEF Compactor!Abort, CompactionInv, PathInv, CallIsKept
<1>3. CASE \E reason \in Compactor!Reasons : Compactor!Compact(reason)
  BY <1>3, CompactedKeeps
<1> QED
  BY <1>1, <1>2, <1>3 DEF Compactor!CompactionNext

\* Only a compaction compacts.
LEMMA CompactsOnly ==
    ASSUME CompactionInv, Compactor!CompactionNext, Compactor!Compacts
    PROVE  \E reason \in Compactor!Reasons : Compactor!Compact(reason)
<1>1. ASSUME Compactor!Grow PROVE FALSE
  <2>1. PICK e \in Entries : path' = Append(path, e) /\ e.type # "compaction"
    BY <1>1, GrowStep
  <2>2. path \in Seq(Entries) /\ KeepsBefore(path)
    BY DEF CompactionInv, PathInv
  <2>3. path'[Len(path')] = e
    BY <2>1, <2>2, StartsOfAppend
  <2> QED
    BY <2>1, <2>3 DEF Compactor!Compacts
<1> QED
  BY <1>1 DEF Compactor!CompactionNext, Compactor!Abort, Compactor!Compacts

\* The summary of the last compaction goes on into the new one, and the messages
\* it has kept are read for the summary or kept again.
LEMMA ForgetsOnlyAtSplitsStep ==
    ASSUME CompactionInv, NEW reason \in Compactor!Reasons, Compactor!Compact(reason),
           ~Compactor!IsSplitTurn(Compactor!FirstKept)
    PROVE  Compactor!Known(path) \subseteq Compactor!Known(path')
<1> DEFINE n == Len(path)
           first == Compactor!FirstKept
           b == StartOf(path)
           covers == Compactor!Summary(first, reason)
           e == Compactor!Entry("compaction", 0, first, covers)
           q == Append(path, e)
           messages(p, from) == {i \in from .. Len(p) : p[i].type \in Compactor!HasMessage}
           before == Compactor!PreviousCovers
<1>1. path' = q /\ Compactor!BoundaryStart <= Len(path)
  BY DEF Compactor!Compact
<1>2. path \in Seq(Entries) /\ KeepsBefore(path) /\ path' \in Seq(Entries) /\ KeepsBefore(path')
  BY CompactedKeeps DEF CompactionInv, PathInv
<1>3. n \in Nat /\ b \in 1 .. n /\ Compactor!BoundaryStart = b /\ DOMAIN path = 1 .. n
  BY <1>1, <1>2, Starts, StartsWithin
<1>4. first \in b .. n
  BY <1>1, <1>3, KeptFromCut
<1>5. \A p : Compactor!Known(p) = IF SummariesOf(p) = {} THEN messages(p, 1)
                                 ELSE p[Max(SummariesOf(p))].covers \cup messages(p, p[Max(SummariesOf(p))].first)
  BY CompactorMinMax DEF Compactor!Known, SummariesOf
<1>6. Compactor!Known(path) = before \cup messages(path, b)
  <2>1. Compactor!Previous = IF SummariesOf(path) = {} THEN 0 ELSE Max(SummariesOf(path))
    BY Starts DEF LastOf
  <2>2. CASE SummariesOf(path) = {}
    <3>1. before = {} /\ b = 1
      BY <2>1, <2>2 DEF Compactor!PreviousCovers, StartOf, LastOf
    <3> QED
      BY <1>5, <2>2, <3>1
  <2>3. CASE SummariesOf(path) # {}
    <3>1. LastOf(path) = Max(SummariesOf(path)) /\ Compactor!Previous = Max(SummariesOf(path))
      BY <2>1, <2>3 DEF LastOf
    <3>2. Max(SummariesOf(path)) # 0
      <4>1. SummariesOf(path) \in SUBSET (1 .. n)
        BY <1>3 DEF SummariesOf
      <4>2. Max(SummariesOf(path)) \in SummariesOf(path)
        BY ONLY <1>3, <2>3, <4>1, GreatestOne
      <4> QED
        BY <4>1, <4>2
    <3>3. before = path[Max(SummariesOf(path))].covers /\ b = path[Max(SummariesOf(path))].first
      BY <3>1, <3>2 DEF Compactor!PreviousCovers, StartOf
    <3> QED
      BY <1>5, <2>3, <3>3
  <2> QED
    BY <2>2, <2>3
<1>7. covers = (messages(path, b) \ messages(path, first)) \cup before
  <2>1. Compactor!HistoryEnd(first) = first
    BY DEF Compactor!HistoryEnd
  <2>2. Compactor!TurnPrefixMessages(first) = {}
    BY <1>3, <1>4, <2>1 DEF Compactor!TurnPrefixMessages, Compactor!InRange
  <2>3. covers = Compactor!MessagesToSummarize(first) \cup before
    BY <2>2 DEF Compactor!Summary
  <2>4. Compactor!MessagesToSummarize(first) = messages(path, b) \ messages(path, first)
    BY <1>3, <1>4, <2>1 DEF Compactor!MessagesToSummarize, Compactor!InRange
  <2> QED
    BY <2>3, <2>4
<1>8. e \in Entries /\ e.type = "compaction" /\ e.first = first /\ e.covers = covers
  <2>1. e = path'[n + 1] /\ Len(path') = n + 1 /\ DOMAIN path' = 1 .. n + 1
    BY <1>1, <1>2
  <2>2. e \in Entries
    BY <1>2, <1>3, <2>1
  <2> QED
    BY <2>2 DEF Compactor!Entry
<1> HIDE DEF e, covers, first, before
<1>9. /\ LastOf(q) = n + 1 /\ Len(q) = n + 1 /\ q[n + 1] = e /\ \A i \in 1 .. n : q[i] = path[i]
  BY <1>2, <1>8, StartsOfAppend
<1> HIDE DEF q
<1>10. Compactor!Known(q) = covers \cup messages(q, first)
  <2>1. SummariesOf(q) # {} /\ Max(SummariesOf(q)) = n + 1
    BY <1>3, <1>9 DEF LastOf
  <2> QED
    BY <1>5, <1>8, <1>9, <2>1
<1>11. messages(path, first) \subseteq messages(q, first)
  BY <1>3, <1>4, <1>9
<1>12. Compactor!Known(path) \subseteq Compactor!Known(q)
  BY <1>6, <1>7, <1>10, <1>11
<1> QED
  BY <1>1, <1>12

\* The first message kept is no result of a call that was cut away, and what is
\* kept behind it is less than the budget: the walk would have stopped there.
LEMMA CutsBetweenCallsStep ==
    ASSUME CompactionInv, NEW reason \in Compactor!Reasons, Compactor!Compact(reason)
    PROVE  Compactor!CutIsBetweenCalls
<1> DEFINE n == Len(path)
           first == Compactor!FirstKept
           b == StartOf(path)
           kept == {i \in first .. n : path[i].type \in Compactor!HasMessage}
           counted == {i \in kept : path[i].type \in Compactor!Messages}
           rest == counted \ {Min(counted)}
           place == Compactor!Cut
           reached == Compactor!Reached
           points == Compactor!CutPoints
<1>1. Compactor!BoundaryStart <= Len(path) /\ path'[Len(path')].first = first
  <2> DEFINE e == Compactor!Entry("compaction", 0, first, Compactor!Summary(first, reason))
  <2>1. path' = Append(path, e) /\ Compactor!BoundaryStart <= Len(path) /\ e.first = first
    BY DEF Compactor!Compact, Compactor!Entry
  <2> HIDE DEF e, first
  <2>2. path'[Len(path')] = e
    BY <2>1 DEF CompactionInv, PathInv
  <2> QED
    BY <2>1, <2>2
<1>2. path \in Seq(Entries) /\ KeepsBefore(path) /\ ResultsFollow(path)
  BY DEF CompactionInv, PathInv
<1>3. n \in Nat /\ b \in 1 .. n /\ Compactor!BoundaryStart = b /\ DOMAIN path = 1 .. n
  BY <1>1, <1>2, Starts, StartsWithin
<1>4. /\ first \in b .. n /\ (points = {} => first = b)
      /\ points # {} => /\ place \in points /\ first <= place
                        /\ \A j \in first .. place - 1 : path[j].type \notin Compactor!Messages \cup {"compaction"}
      /\ reached # {} /\ (\E c \in points : c >= Max(reached)) => place >= Max(reached)
  BY <1>1, <1>3, KeptFromCut
<1>5. points # {} => place \in b .. n /\ path[place].type \in Compactor!CutTypes
  BY <1>3, <1>4 DEF Compactor!CutPoints
<1> HIDE DEF first, b, place, points, n
<1>6. ASSUME kept # {} PROVE path[Min(kept)].type # "toolResult"
  <2>1. kept \in SUBSET Nat
    BY <1>3, <1>4
  <2>2. Min(kept) \in kept /\ \A y \in kept : Min(kept) <= y
    BY ONLY <1>6, <2>1, LeastOne
  <2> DEFINE k == Min(kept)
  <2> HIDE DEF k
  <2>3. SUFFICES ASSUME path[k].type = "toolResult" PROVE FALSE
    BY DEF k
  <2>4. k \in first .. n /\ path[k].type \in Compactor!Messages /\ path[k].type \notin Compactor!CutTypes
    BY <2>2, <2>3 DEF k, Compactor!Messages, Compactor!CutTypes
  <2>5. points # {}
    <3>1. PICK j \in b .. k - 1 : path[j].type \in Compactor!CutTypes
      BY <1>2, <1>3, <1>4, <2>3, <2>4 DEF ResultsFollow, b, n
    <3>2. j \in points
      BY <1>3, <1>4, <2>4, <3>1 DEF Compactor!CutPoints, points, n
    <3> QED
      BY <3>2
  <2>6. place \in kept
    BY <1>3, <1>4, <1>5, <2>5 DEF Compactor!CutTypes
  <2>7. k <= place
    BY <2>2, <2>6 DEF k
  <2>8. k # place /\ ~(k \in first .. place - 1)
    BY <1>4, <1>5, <2>4, <2>5
  <2> QED
    BY <1>3, <1>4, <1>5, <2>4, <2>5, <2>7, <2>8
<1>7. ASSUME NEW c \in points, reached # {}, c >= Max(reached), rest # {} PROVE ~Compactor!FillsBudget(rest)
  <2> HIDE DEF reached
  <2>1. counted \in SUBSET (b .. n) /\ counted # {} /\ b .. n \subseteq Nat
    <3>1. counted \subseteq first .. n /\ rest \subseteq counted
      OBVIOUS
    <3>2. first .. n \subseteq b .. n /\ b .. n \subseteq Nat
      BY <1>3, <1>4
    <3> HIDE DEF counted, rest
    <3> QED
      BY <1>7, <3>1, <3>2
  <2>2. place >= Max(reached) /\ points # {}
    BY <1>4, <1>7
  <2>3. \A i \in counted : i >= place
    BY <1>3, <1>4, <1>5, <2>2
  <2> DEFINE m == Min(counted)
             r == Min(rest)
  <2>4. m \in counted /\ \A y \in counted : m <= y
    <3> HIDE DEF counted
    <3> QED
      BY ONLY <2>1, LeastOne
  <2>5. r \in rest /\ \A y \in rest : r <= y
    <3>1. rest \in SUBSET Nat
      BY <2>1
    <3> HIDE DEF rest
    <3> QED
      BY ONLY <1>7, <3>1, LeastOne
  <2> HIDE DEF m, r
  <2>6. r \in counted /\ r # m /\ m <= r /\ m \in b .. n /\ r \in b .. n /\ m >= place
    BY <2>1, <2>3, <2>4, <2>5 DEF m
  <2>7. reached \in SUBSET (1 .. n)
    BY <1>3 DEF Compactor!Reached, reached, n
  <2>8. Max(reached) \in reached /\ \A y \in reached : Max(reached) >= y
    BY ONLY <1>3, <1>7, <2>7, GreatestOne
  <2>9. Max(reached) \in Nat /\ place \in Nat
    <3>1. place \in b .. n
      BY <1>5, <2>2
    <3>2. Max(reached) \in 1 .. n
      BY ONLY <2>7, <2>8
    <3> HIDE DEF kept
    <3> QED
      BY ONLY <1>3, <3>1, <3>2
  <2>10. r \notin reached
    <3>1. r > Max(reached)
      BY <2>2, <2>6, <2>9
    <3> QED
      BY <2>6, <2>8, <2>9, <3>1
  <2>11. ~Compactor!FillsBudget(Compactor!MessagesFrom(r))
    BY <1>3, <2>6, <2>10 DEF Compactor!Reached, reached, n
  <2>12. Compactor!MessagesFrom(r) = rest
    <3>1. Compactor!MessagesFrom(r) = {j \in r .. n : path[j].type \in Compactor!Messages}
      BY DEF Compactor!MessagesFrom, n
    <3>2. ASSUME NEW j \in r .. n, path[j].type \in Compactor!Messages PROVE j \in rest
      <4>1. j \in first .. n /\ path[j].type \in Compactor!HasMessage
        BY <1>3, <1>4, <2>6, <3>2 DEF Compactor!HasMessage
      <4>2. j \in counted /\ j # m
        BY <2>6, <3>2, <4>1
      <4> QED
        BY <4>2 DEF m
    <3>3. ASSUME NEW j \in rest PROVE j \in r .. n /\ path[j].type \in Compactor!Messages
      BY <1>3, <2>1, <2>5, <2>6, <3>3
    <3> QED
      BY <3>1, <3>2, <3>3
  <2> QED
    BY <2>11, <2>12
<1> QED
  BY <1>1, <1>6, <1>7, CompactorMinMax DEF first, n, points, Compactor!CutIsBetweenCalls

(***************************************************************************)
(* The services together.                                                  *)
(***************************************************************************)
ServicesInv ==
    /\ part = "settings" => SettingsInv
    /\ part = "auth" => AuthInv /\ CopiesInv
    /\ part = "lsp" => LspInv
    /\ part = "compaction" => CompactionInv
    /\ part = "runtime" => RuntimeInv
    /\ part = "trace" => TraceInv
    /\ part = "tasks" => TaskInv

LEMMA ServicesInvInit == ServicesInit => ServicesInv
  BY SettingsInvInit, AuthInvInit, CopiesInit, LspInvInit, CompactionInvInit, RuntimeInvInit, TraceInvInit, TaskInvInit
     DEF ServicesInit, ServicesInv

\* A step of another part leaves the part of a behaviour as it is.
LEMMA OnlyItsPart ==
    ASSUME [ServicesNext]_allVars
    PROVE  /\ part' = part
           /\ part = "settings" => Settings!Next \/ UNCHANGED settingsVars
           /\ part = "auth" => Auth!Next \/ UNCHANGED authVars
           /\ part = "lsp" => Lsp!LspNext \/ UNCHANGED lspVars
           /\ part = "compaction" => Compactor!CompactionNext \/ UNCHANGED compactionVars
           /\ part = "runtime" => Runtime!RuntimeNext \/ UNCHANGED runtimeVars
           /\ part = "trace" => Trace!TraceNext \/ UNCHANGED traceVars
           /\ part = "tasks" => SubAgents!TaskNext \/ UNCHANGED taskVars
<1>1. CASE UNCHANGED allVars
  BY <1>1 DEF allVars, firstVars, othersVars
<1>2. CASE ServicesNext
  BY <1>2 DEF ServicesNext, SettingsStep, AuthStep, LspStep, BashStep, CompactionStep, TraceStep, RuntimeStep, TaskStep
<1> QED
  BY <1>1, <1>2

LEMMA ServicesInvStep == ServicesInv /\ [ServicesNext]_allVars => ServicesInv'
<1> SUFFICES ASSUME ServicesInv, [ServicesNext]_allVars PROVE ServicesInv'
  OBVIOUS
<1>1. part' = part
  BY OnlyItsPart
<1>2. ASSUME part = "auth" PROVE AuthInv' /\ CopiesInv'
  <2>1. CASE Auth!Next
    BY <1>2, <2>1, AuthInvStep, CopiesStep DEF ServicesInv
  <2>2. CASE UNCHANGED authVars
    <3>1. UNCHANGED <<auth, authLock, data, call, compromised, issued, used, reused, mishap, spent>>
      BY <2>2 DEF authVars
    <3>2. AuthInv'
      BY <1>2, <3>1, NothingHappens DEF ServicesInv, AuthInv
    <3>3. CopiesInv'
      BY <1>2, <3>1 DEF ServicesInv, CopiesInv, AuthCopies
    <3> QED
      BY <3>2, <3>3
  <2> QED
    BY <1>2, <2>1, <2>2, OnlyItsPart
<1>3. ASSUME part = "lsp" PROVE LspInv'
  <2>1. CASE Lsp!LspNext
    BY <1>3, <2>1, LspInvStep DEF ServicesInv
  <2>2. CASE UNCHANGED lspVars
    BY <1>3, <2>2 DEF lspVars, ServicesInv, LspInv, LspTypes, Held, NoneTold, OneRuns, Running, Lsp!Clients
  <2> QED
    BY <1>3, <2>1, <2>2, OnlyItsPart
<1>4. ASSUME part = "runtime" PROVE RuntimeInv'
  <2>1. CASE Runtime!RuntimeNext
    BY <1>4, <2>1, RuntimeInvStep DEF ServicesInv
  <2>2. CASE UNCHANGED runtimeVars
    BY <1>4, <2>2 DEF runtimeVars, ServicesInv, RuntimeInv, RuntimeTypes, OneOperates, Telling, Standing, Told, CurrentIsLive
  <2> QED
    BY <1>4, <2>1, <2>2, OnlyItsPart
<1>5. ASSUME part = "trace" PROVE TraceInv'
  <2>1. CASE Trace!TraceNext
    BY <1>5, <2>1, TraceInvStep DEF ServicesInv
  <2>2. CASE UNCHANGED traceVars
    BY <1>5, <2>2 DEF traceVars, ServicesInv, TraceInv, LinesNow, Flushes
  <2> QED
    BY <1>5, <2>1, <2>2, OnlyItsPart
<1>6. ASSUME part = "tasks" PROVE TaskInv'
  <2>1. CASE SubAgents!TaskNext
    BY <1>6, <2>1, TaskInvStep DEF ServicesInv
  <2>2. CASE UNCHANGED taskVars
    BY <1>6, <2>2 DEF taskVars, ServicesInv, TaskInv, TaskTypes, RunsForCall, ShowsOwn
  <2> QED
    BY <1>6, <2>1, <2>2, OnlyItsPart
<1>7. ASSUME part = "settings" PROVE SettingsInv'
  BY <1>7, OnlyItsPart, SettingsInvStep, SettingsRest DEF ServicesInv
<1>8. ASSUME part = "compaction" PROVE CompactionInv'
  <2>1. UNCHANGED compactionVars => UNCHANGED path /\ UNCHANGED open
    BY DEF compactionVars
  <2>2. UNCHANGED path /\ UNCHANGED open /\ CompactionInv => CompactionInv'
    BY DEF CompactionInv
  <2> QED
    BY <1>8, <2>1, <2>2, OnlyItsPart, CompactionInvStep DEF ServicesInv
<1> QED
  BY <1>1, <1>2, <1>3, <1>4, <1>5, <1>6, <1>7, <1>8 DEF ServicesInv

\* What several may ask for at once is done once, in any number of processes and with any limits.
THEOREM OneAtATimeAlways == Services => []OneAtATime
<1>1. ServicesInv => OneAtATime
  BY AuthInvTokens, LspInvOne, RuntimeInvTurns, TraceInvWhole DEF ServicesInv, OneAtATime
<1> QED
  BY <1>1, ServicesInvInit, ServicesInvStep, PTL DEF Services

\* The progress that is shown is of calls that run, one call does not take
\* another's away, and an abort reaches every sub-agent.
THEOREM ProgressIsKeptAlways == Services => ProgressIsKept
<1>1. ServicesInv => (part = "tasks" => SubAgents!ProgressIsTrue)
  BY TaskInvTrue DEF ServicesInv
<1>2. ServicesInv /\ [ServicesNext]_allVars => (part = "tasks" /\ TaskInv /\ SubAgents!TaskNext) \/ UNCHANGED SubAgents!taskVars
  <2>1. UNCHANGED taskVars => UNCHANGED SubAgents!taskVars
    BY DEF SubAgents!taskVars, taskVars
  <2>2. ASSUME [ServicesNext]_allVars, part # "tasks" PROVE UNCHANGED taskVars
    BY <2>2 DEF ServicesNext, SettingsStep, AuthStep, LspStep, BashStep, CompactionStep, TraceStep, RuntimeStep, TaskStep,
       allVars, othersVars
  <2> QED
    BY <2>1, <2>2, OnlyItsPart DEF ServicesInv
<1>3. ServicesInv /\ [ServicesNext]_allVars =>
        [\A c \in Procs, id \in TaskIds :
           shared[id] = c /\ shared'[id] = NoTask /\ replaced' = replaced =>
             \/ toolCall'[c] = "returned"
             \/ sameTime /\ toolCall # toolCall']_(SubAgents!taskVars)
  BY <1>2, ProgressStaysStep
<1>4. ServicesInv /\ [ServicesNext]_allVars =>
        [signalAborted # signalAborted'
           => \A c \in Procs, id \in TaskIds : subAgent'[c][id] # "running"]_(SubAgents!taskVars)
  BY <1>2, AbortsAreHeardStep
<1> QED
  BY <1>1, <1>3, <1>4, ServicesInvInit, ServicesInvStep, PTL
     DEF Services, ProgressIsKept, SubAgents!ProgressStays, SubAgents!AbortsAreHeard

\* Settings: when all writes are done the file holds what the setters were given; a write changes only
\* what its process has changed, nor a file that was cut short; a reload forgets no setting.  And a
\* credential in auth.json changes only by a call about its provider.
THEOREM StoredIsKeptAlways == Services => StoredIsKept
<1>1. ServicesInv => (part = "settings" => Settings!FlushIsDurable)
  BY FlushIsDurableNow DEF ServicesInv
<1>2. ServicesInv /\ [ServicesNext]_allVars =>
        (part = "settings" /\ SettingsInv /\ Settings!Next) \/ UNCHANGED Settings!vars
  <2>1. UNCHANGED settingsVars => UNCHANGED Settings!vars
    BY DEF Settings!vars, settingsVars
  <2>2. ASSUME [ServicesNext]_allVars, part # "settings" PROVE UNCHANGED settingsVars
    BY <2>2 DEF ServicesNext, SettingsStep, AuthStep, LspStep, BashStep, CompactionStep, TraceStep, RuntimeStep, TaskStep,
       allVars, firstVars
  <2> QED
    BY <2>1, <2>2, OnlyItsPart DEF ServicesInv
<1>3. ServicesInv /\ [ServicesNext]_allVars =>
        (part = "auth" /\ AuthInv /\ CopiesInv /\ Auth!Next) \/ UNCHANGED Auth!authVars
  <2>1. UNCHANGED authVars => UNCHANGED Auth!authVars
    BY DEF Auth!authVars, authVars
  <2>2. ASSUME [ServicesNext]_allVars, part # "auth" PROVE UNCHANGED authVars
    BY <2>2 DEF ServicesNext, SettingsStep, AuthStep, LspStep, BashStep, CompactionStep, TraceStep, RuntimeStep, TaskStep,
       allVars, firstVars
  <2> QED
    BY <2>1, <2>2, OnlyItsPart DEF ServicesInv
<1>4. ServicesInv /\ [ServicesNext]_allVars =>
        [\A s \in Settings!Scopes, q \in Paths :
           file'[s].val[q] # file[s].val[q]
             => \/ \E p \in Procs : task[p].stage = "fill" /\ lock[s] = p /\ (q \in Settings!Job(p).fields \/ task[p].created)
                \/ file[s].text = "empty" /\ count.faults > 0]_(Settings!vars)
  BY <1>2, OthersKeptStep DEF Scopes
<1>5. ServicesInv /\ [ServicesNext]_allVars =>
        [\A s \in Settings!Scopes :
           file[s].text = "cut" /\ ~(\E p \in Procs : task[p] # Settings!Idle /\ task[p].created /\ Settings!Job(p).scope = s)
             => file'[s] = file[s]]_(Settings!vars)
  BY <1>2, CutFileStep DEF Scopes
<1>6. ServicesInv /\ [ServicesNext]_allVars =>
        [\A p \in Procs, s \in Settings!Scopes, q \in Paths :
           (/\ queue[p] # <<>> /\ Settings!Job(p).kind = "reload" /\ queue'[p] = Tail(queue[p]) /\ alive'[p]
            /\ asked[p][s][q] # Settings!Absent /\ s \notin errors'[p] /\ Settings!Own(p, s, q) /\ ~file[s].raced /\ count.faults = 0
            /\ \A i \in 2..Len(queue[p]) : ~(queue[p][i].kind = "write" /\ q \in queue[p][i].fields))
             => mem'[p][s][q] = asked[p][s][q]]_(Settings!vars)
  BY <1>2, ReloadKeepsSetsStep DEF Scopes, Absent
<1>7. ServicesInv /\ [ServicesNext]_allVars =>
        [\A r \in Auth!Providers :
           (auth'.creds[r] # auth.creds[r] /\ ~mishap')
             => \E p \in Procs : \/ call[p].does \in {"change", "refresh"} /\ call[p].who = r
                                 \/ data'[p][r] # data[p][r] /\ spent' # spent]_(Auth!authVars)
  BY <1>3, CredentialsKept
<1> QED
  BY <1>1, <1>4, <1>5, <1>6, <1>7, ServicesInvInit, ServicesInvStep, PTL
     DEF Services, StoredIsKept, Settings!OthersKept, Settings!CutFileIsKept, Settings!ReloadKeepsSets, Auth!OthersKept

\* However often a path has been compacted, a compaction that splits no turn forgets no message, and
\* none separates the result of a call from it.
THEOREM CompactionKeepsAlways == Services => CompactionKeeps
<1>1. ServicesInv /\ [ServicesNext]_allVars =>
        (CompactionInv /\ Compactor!CompactionNext) \/ UNCHANGED Compactor!compactionVars
  <2>1. UNCHANGED compactionVars => UNCHANGED Compactor!compactionVars
    BY DEF Compactor!compactionVars, compactionVars
  <2>2. ASSUME [ServicesNext]_allVars, part # "compaction" PROVE UNCHANGED compactionVars
    BY <2>2 DEF ServicesNext, SettingsStep, AuthStep, LspStep, BashStep, CompactionStep, TraceStep, RuntimeStep, TaskStep,
       allVars, othersVars
  <2> QED
    BY <2>1, <2>2, OnlyItsPart DEF ServicesInv
<1>2. ServicesInv /\ [ServicesNext]_allVars =>
        [Compactor!Compacts /\ ~Compactor!IsSplitTurn(Compactor!FirstKept)
           => Compactor!Known(path) \subseteq Compactor!Known(path')]_(Compactor!compactionVars)
  BY <1>1, CompactsOnly, ForgetsOnlyAtSplitsStep
<1>3. ServicesInv /\ [ServicesNext]_allVars =>
        [Compactor!Compacts => Compactor!CutIsBetweenCalls]_(Compactor!compactionVars)
  BY <1>1, CompactsOnly, CutsBetweenCallsStep
<1> QED
  BY <1>2, <1>3, ServicesInvInit, ServicesInvStep, PTL
     DEF Services, CompactionKeeps, Compactor!ForgetsOnlyAtSplits, Compactor!CutsBetweenCalls

---------------------------------------------------------------------------
(***************************************************************************)
(* The types of the services.                                              *)
(***************************************************************************)
\* No number of an event, of a failed append or of a failed creation is beyond its bound.
TraceShape ==
    /\ emitted \in 0 .. MaxTrace /\ badDisk \in 0 .. MaxBadDisk
    /\ flushTimer \in BOOLEAN /\ overtaken \in BOOLEAN /\ unscheduled \in BOOLEAN /\ exited \in BOOLEAN
RuntimeShape == failures \in 0 .. MaxFailures
TaskShape ==
    /\ reported \in [Procs -> [TaskIds -> {"none", "completed", "failed"}]]
    /\ sameTime \in BOOLEAN

LEMMA ElementsWithin ==
    ASSUME NEW S, NEW T, NEW s \in Seq(S), \A i \in 1 .. Len(s) : s[i] \in T
    PROVE  s \in Seq(T)
  OBVIOUS

LEMMA SettingsTyped == SettingsInv => Settings!TypeOK
<1> SUFFICES ASSUME SettingsInv PROVE Settings!TypeOK
  OBVIOUS
<1>1. SettingsTypes /\ \A p \in Procs : JobRuns(p)
  BY DEF SettingsInv, ProcessInv
<1>2. ASSUME NEW p \in Procs
      PROVE  /\ task[p].stage \in {"idle", "lock", "write", "fill"}
             /\ task[p] # Settings!Idle => alive[p] /\ queue[p] # <<>> /\ Settings!Job(p).kind = "write"
  BY <1>1 DEF SettingsTypes, Tasks, Settings!Idle, JobRuns
<1> QED
  BY <1>1, <1>2 DEF Settings!TypeOK, SettingsTypes, Scopes

LEMMA TraceShapeInit == Trace!TraceInit => TraceShape
<1>1. 0 \in 0 .. MaxTrace /\ 0 \in 0 .. MaxBadDisk
  BY BoundsAssumption
<1> QED
  BY <1>1 DEF Trace!TraceInit, TraceShape

LEMMA TraceShapeStep ==
    ASSUME TraceShape, Trace!TraceNext
    PROVE  TraceShape'
<1>0. emitted \in 0 .. MaxTrace /\ badDisk \in 0 .. MaxBadDisk
  BY DEF TraceShape
<1>1. emitted' = emitted \/ (emitted < MaxTrace /\ emitted' = emitted + 1)
  BY DEF Trace!TraceNext, Trace!TraceStep, Trace!Publish, Trace!TimerFires, Trace!AppendEnds, Trace!AppendFails,
     Trace!FlushSync, Trace!Signalled
<1>2. badDisk' = badDisk \/ (badDisk < MaxBadDisk /\ badDisk' = badDisk + 1)
  BY DEF Trace!TraceNext, Trace!TraceStep, Trace!Publish, Trace!TimerFires, Trace!AppendEnds, Trace!AppendFails,
     Trace!FlushSync, Trace!Signalled
<1>3. emitted' \in 0 .. MaxTrace /\ badDisk' \in 0 .. MaxBadDisk
  BY ONLY <1>0, <1>1, <1>2, BoundsAssumption
<1>4. flushTimer' \in BOOLEAN /\ overtaken' \in BOOLEAN /\ unscheduled' \in BOOLEAN /\ exited' \in BOOLEAN
  BY Zenon DEF TraceShape, Trace!TraceNext, Trace!TraceStep, Trace!Publish, Trace!TimerFires, Trace!AppendEnds,
     Trace!AppendFails, Trace!FlushSync, Trace!Signalled, Trace!FlushAsync, Trace!Finally, Trace!WriteOut
<1> QED
  BY <1>3, <1>4 DEF TraceShape

LEMMA TraceTyped == TraceInv /\ TraceShape => Trace!TraceTypeOK
<1> SUFFICES ASSUME TraceInv, TraceShape PROVE Trace!TraceTypeOK
  OBVIOUS
<1>1. /\ traceFile \in Seq(Nat) /\ inFlight \in Seq(Nat) /\ buffered \in Seq(Nat) /\ emitted \in 0 .. MaxTrace
      /\ ToSet(traceFile) \cup ToSet(inFlight) \cup ToSet(buffered) \cup gone = 1 .. emitted
  BY DEF TraceInv, LinesNow, Lines, TraceShape
<1>2. ASSUME NEW s \in Seq(Nat), ToSet(s) \subseteq 1 .. emitted PROVE s \in Seq(1 .. MaxTrace)
  <2>1. \A k \in 1 .. emitted : k \in 1 .. MaxTrace
    BY ONLY <1>1, BoundsAssumption
  <2>2. \A i \in 1 .. Len(s) : s[i] \in 1 .. MaxTrace
    BY <1>2, <2>1 DEF ToSet
  <2> QED
    BY <2>2, ElementsWithin
<1> QED
  BY <1>1, <1>2 DEF Trace!TraceTypeOK, TraceShape

LEMMA RuntimeShapeStep ==
    ASSUME RuntimeShape, Runtime!RuntimeNext
    PROVE  RuntimeShape'
  BY BoundsAssumption DEF RuntimeShape, Runtime!RuntimeNext, Runtime!BeginReplacement, Runtime!Declined, Runtime!Teardown,
     Runtime!Dispose, Runtime!Created, Runtime!SetUp, Runtime!CreateFails, Runtime!Bound, Runtime!BoundAgain,
     Runtime!Quit, Runtime!QuitDisposes

LEMMA RuntimeTyped == RuntimeInv /\ RuntimeShape => Runtime!RuntimeTypeOK
  BY DEF RuntimeInv, RuntimeTypes, Events, RuntimeShape, Runtime!RuntimeTypeOK

LEMMA TaskShapeStep ==
    ASSUME TaskShape, SubAgents!TaskNext
    PROVE  TaskShape'
<1> USE DEF TaskShape
<1>1. ASSUME NEW c \in Procs, NEW id \in TaskIds, SubAgents!SubAgentEnds(c, id) PROVE TaskShape'
  <2>1. PICK status \in {"completed", "failed"} : reported' = [reported EXCEPT ![c][id] = status]
    BY <1>1 DEF SubAgents!SubAgentEnds
  <2> QED
    BY <1>1, <2>1 DEF SubAgents!SubAgentEnds
<1>2. ASSUME UNCHANGED <<reported, sameTime>> PROVE TaskShape'
  BY <1>2
<1> QED
  BY <1>1, <1>2 DEF SubAgents!TaskNext, SubAgents!TaskStep, SubAgents!AbortTasks, SubAgents!Replace,
     SubAgents!StartTasks, SubAgents!RefuseTasks, SubAgents!Progress, SubAgents!Return

LEMMA TaskTyped == TaskInv /\ TaskShape => SubAgents!TaskTypeOK
  BY DEF TaskInv, TaskTypes, AgentStates, TaskShape, SubAgents!TaskTypeOK

\* What an entry of a path says of itself at place i.
EntryFits(e, i) == e.size \in 0 .. MaxSize /\ e.first \in 0 .. i - 1 /\ e.covers \subseteq 1 .. e.first - 1
CompactionShape == (\A i \in DOMAIN path : EntryFits(path[i], i)) /\ open \in 0 .. 1

LEMMA EntryAppended ==
    ASSUME path \in Seq(Entries), \A i \in DOMAIN path : EntryFits(path[i], i),
           NEW e \in Entries, EntryFits(e, Len(path) + 1), path' = Append(path, e)
    PROVE  \A i \in DOMAIN path' : EntryFits(path'[i], i)
<1> DEFINE q == Append(path, e)
<1>1. /\ q \in Seq(Entries) /\ Len(q) = Len(path) + 1 /\ Len(path) \in Nat
      /\ (\A i \in 1 .. Len(path) : q[i] = path[i]) /\ q[Len(path) + 1] = e
  BY AppendElements
<1> HIDE DEF q
<1>2. ASSUME NEW i \in 1 .. Len(path) + 1 PROVE EntryFits(q[i], i)
  <2>1. CASE i = Len(path) + 1
    BY <1>1, <2>1
  <2>2. CASE i # Len(path) + 1
    BY <1>1, <2>2
  <2> QED
    BY <2>1, <2>2
<1>3. DOMAIN q = 1 .. Len(path) + 1
  BY <1>1
<1> QED
  BY <1>2, <1>3 DEF q

\* The entries a conversation grows by.
LEMMA EntryGrows ==
    ASSUME CompactionInv, CompactionShape, NEW type \in EntryTypes, NEW size \in 0 .. MaxSize,
           Compactor!Append1(type, size)
    PROVE  \A i \in DOMAIN path' : EntryFits(path'[i], i)
<1> DEFINE e == Compactor!Entry(type, size, 0, {})
<1>1. e \in Entries /\ e.size \in 0 .. MaxSize /\ e.first = 0 /\ e.covers = {}
  BY BoundsAssumption DEF Compactor!Entry, Entries
<1>2. path' = Append(path, e)
  BY DEF Compactor!Append1
<1> HIDE DEF e
<1>3. path \in Seq(Entries) /\ Len(path) \in Nat
  BY DEF CompactionInv, PathInv
<1>4. EntryFits(e, Len(path) + 1)
  BY <1>1, <1>3 DEF EntryFits
<1> QED
  BY <1>1, <1>2, <1>3, <1>4, EntryAppended DEF CompactionShape

\* The summary of a compaction covers what stands before the first entry it keeps.
LEMMA SummaryIsBefore ==
    ASSUME CompactionInv, CompactionShape, NEW reason \in Compactor!Reasons, NEW first \in Compactor!BoundaryStart .. Len(path)
    PROVE  Compactor!Summary(first, reason) \subseteq 1 .. first - 1
<1> DEFINE b == StartOf(path)
           n == Len(path)
           h == Compactor!HistoryEnd(first)
<1>1. path \in Seq(Entries) /\ KeepsBefore(path)
  BY DEF CompactionInv, PathInv
<1>2. b \in 1 .. n + 1 /\ Compactor!BoundaryStart = b /\ n \in Nat /\ DOMAIN path = 1 .. n
  BY <1>1, Starts, StartsWithin
<1>3. first \in b .. n
  BY <1>2
<1> HIDE DEF b, n
<1>4. h \in b .. first
  <2>1. CASE Compactor!IsSplitTurn(first)
    <3> DEFINE starts == Compactor!TurnStarts(first)
    <3>1. starts \in SUBSET (b .. first) /\ starts # {}
      BY <1>2, <2>1 DEF Compactor!TurnStarts, Compactor!IsSplitTurn
    <3>2. h = Max(starts)
      BY <2>1, CompactorMinMax DEF Compactor!HistoryEnd
    <3> HIDE DEF starts, h
    <3>3. starts \in SUBSET (1 .. n) /\ n \in Nat
      BY <1>2, <1>3, <3>1
    <3>4. Max(starts) \in starts
      BY ONLY <3>1, <3>3, GreatestOne
    <3> QED
      BY ONLY <3>1, <3>2, <3>4
  <2>2. CASE ~Compactor!IsSplitTurn(first)
    BY <1>3, <1>2, <2>2 DEF Compactor!HistoryEnd
  <2> QED
    BY <2>1, <2>2
<1> HIDE DEF h
<1>5. /\ Compactor!MessagesToSummarize(first) \subseteq 1 .. first - 1
      /\ Compactor!TurnPrefixMessages(first) \subseteq 1 .. first - 1
  <2>1. Compactor!MessagesToSummarize(first) = Compactor!InRange(b, h)
    BY <1>2 DEF Compactor!MessagesToSummarize, h
  <2>2. Compactor!TurnPrefixMessages(first) = Compactor!InRange(h, first)
    BY DEF Compactor!TurnPrefixMessages, h
  <2>3. Compactor!InRange(b, h) \subseteq b .. h - 1 /\ Compactor!InRange(h, first) \subseteq h .. first - 1
    BY DEF Compactor!InRange
  <2> QED
    BY <1>2, <1>3, <1>4, <2>1, <2>2, <2>3
<1>6. Compactor!PreviousCovers \subseteq 1 .. first - 1
  <2>1. CASE Compactor!Previous = 0
    BY <2>1 DEF Compactor!PreviousCovers
  <2>2. CASE Compactor!Previous # 0
    <3> DEFINE p == Compactor!Previous
    <3>1. p \in DOMAIN path /\ b = path[p].first
      BY <1>1, <1>2, <2>2, Starts, StartsWithin DEF StartOf, b
    <3>2. path[p].covers \subseteq 1 .. b - 1
      BY <3>1 DEF CompactionShape, EntryFits
    <3> QED
      BY <1>2, <1>3, <2>2, <3>2 DEF Compactor!PreviousCovers
  <2> QED
    BY <2>1, <2>2
<1> QED
  BY <1>5, <1>6 DEF Compactor!Summary

LEMMA CompactionShapeStep ==
    ASSUME CompactionInv, CompactionShape, Compactor!CompactionNext
    PROVE  CompactionShape'
<1> USE DEF CompactionShape
<1>1. /\ 1 \in 0 .. MaxSize /\ 0 \in 0 .. MaxSize /\ \A size \in 1 .. MaxSize : size \in 0 .. MaxSize
  BY BoundsAssumption
<1>2. /\ Compactor!UserLike \subseteq EntryTypes
      /\ {"assistant", "toolResult", "label"} \subseteq EntryTypes
  BY DEF Compactor!UserLike, EntryTypes, Compactor!HasMessage, Compactor!Messages
<1>3. CASE Compactor!Ask
  BY <1>1, <1>2, <1>3, EntryGrows DEF Compactor!Ask
<1>4. CASE Compactor!Reply
  <2>1. Compactor!Append1("assistant", 1) /\ open' \in 0 .. 1
    BY <1>4 DEF Compactor!Reply
  <2> QED
    BY <1>1, <1>2, <2>1, EntryGrows
<1>5. CASE Compactor!Answer
  <2>1. PICK size \in 1 .. MaxSize : Compactor!Append1("toolResult", size) /\ open > 0 /\ open' = open - 1
    BY <1>5 DEF Compactor!Answer
  <2>2. size \in 0 .. MaxSize /\ open' \in 0 .. 1
    BY <1>1, <2>1
  <2> QED
    BY <1>2, <2>1, <2>2, EntryGrows
<1>6. CASE Compactor!Mark
  BY <1>1, <1>2, <1>6, EntryGrows DEF Compactor!Mark
<1>7. CASE Compactor!Abort
  BY <1>7 DEF Compactor!Abort
<1>8. ASSUME NEW reason \in Compactor!Reasons, Compactor!Compact(reason) PROVE CompactionShape'
  <2> DEFINE first == Compactor!FirstKept
             covers == Compactor!Summary(first, reason)
             e == Compactor!Entry("compaction", 0, first, covers)
  <2>1. path' = Append(path, e) /\ open' = 0
    BY <1>8 DEF Compactor!Compact
  <2>2. first \in Compactor!BoundaryStart .. Len(path)
    BY <1>8, CompactedKeeps
  <2>3. path \in Seq(Entries) /\ Compactor!BoundaryStart \in Nat /\ Len(path) \in Nat
    BY Starts, StartsWithin DEF CompactionInv, PathInv
  <2> HIDE DEF first
  <2>4. covers \subseteq 1 .. first - 1
    BY <2>2, SummaryIsBefore
  <2> HIDE DEF covers
  <2>5. first \in Nat /\ first <= Len(path) /\ covers \in SUBSET Nat
    BY <2>2, <2>3, <2>4
  <2>6. /\ e \in Entries /\ e.size = 0 /\ e.first = first /\ e.covers = covers
    BY <2>5 DEF Entries, EntryTypes, Compactor!Entry
  <2> HIDE DEF e
  <2>7. EntryFits(e, Len(path) + 1)
    BY <1>1, <2>3, <2>4, <2>5, <2>6 DEF EntryFits
  <2> QED
    BY <2>1, <2>3, <2>6, <2>7, EntryAppended
<1> QED
  BY <1>3, <1>4, <1>5, <1>6, <1>7, <1>8 DEF Compactor!CompactionNext, Compactor!Grow

LEMMA CompactionTyped == CompactionInv /\ CompactionShape => Compactor!CompactionTypeOK
<1> SUFFICES ASSUME CompactionInv, CompactionShape, NEW i \in DOMAIN path
             PROVE  path[i].type \in Compactor!HasMessage \cup {"label", "compaction"}
  BY DEF Compactor!CompactionTypeOK, CompactionShape, EntryFits
<1>1. path[i] \in Entries
  BY DEF CompactionInv, PathInv
<1> QED
  BY <1>1 DEF Entries, EntryTypes

\* Where a call is; a server was sent no text that does not exist, and diagnostics are about a text it was sent.
Kinds == {"diagnostics", "request"}
CallerTypes ==
    {Lsp!AtRest}
    \cup [at : {"starting"}, on : Lsp!Clients, since : {0}, then : Kinds]
    \cup [at : Kinds, on : Lsp!Clients, since : Nat]
TextsAreSent ==
    \A c \in Procs, i \in Lsp!Clients : published[c][i] <= synced[c][i] /\ synced[c][i] <= edits[c]
LspShape ==
    /\ caller \in [Procs -> CallerTypes] /\ edits \in [Procs -> Nat]
    /\ synced \in [Procs -> [Lsp!Clients -> Nat]] /\ published \in [Procs -> [Lsp!Clients -> Nat]]
    /\ diagnosticsVersion \in [Lsp!Clients -> Nat]
    /\ TextsAreSent

LEMMA LspShapeInit == Lsp!LspInit => LspShape
<1> SUFFICES ASSUME Lsp!LspInit PROVE LspShape
  OBVIOUS
<1>1. Lsp!AtRest \in CallerTypes
  BY DEF CallerTypes
<1> QED
  BY <1>1 DEF Lsp!LspInit, LspShape, TextsAreSent

\* A caller that has its client syncs its text and waits.
LEMMA GoesOn ==
    ASSUME LspShape, NEW c \in Procs, NEW i \in Lsp!Clients, NEW kind \in Kinds,
           edits' \in [Procs -> Nat], \A d \in Procs : edits[d] <= edits'[d],
           Lsp!GoOn(c, i, kind), UNCHANGED <<published, diagnosticsVersion>>
    PROVE  LspShape'
<1> DEFINE now == [at |-> kind, on |-> i, since |-> diagnosticsVersion[i]]
<1>1. now \in CallerTypes
  BY DEF LspShape, CallerTypes
<1>2. caller' = [caller EXCEPT ![c] = now] /\ synced' = [synced EXCEPT ![c][i] = edits'[c]]
  BY DEF Lsp!GoOn
<1> HIDE DEF now
<1>3. caller' \in [Procs -> CallerTypes]
  BY <1>1, <1>2 DEF LspShape
<1>4. edits'[c] \in Nat /\ synced \in [Procs -> [Lsp!Clients -> Nat]]
  BY DEF LspShape
<1>5. /\ synced' \in [Procs -> [Lsp!Clients -> Nat]]
      /\ \A d \in Procs, j \in Lsp!Clients :
           synced'[d][j] = IF d = c /\ j = i THEN edits'[c] ELSE synced[d][j]
  BY ONLY <1>2, <1>4
<1>6. ASSUME NEW d \in Procs, NEW j \in Lsp!Clients
      PROVE  published[d][j] <= synced'[d][j] /\ synced'[d][j] <= edits'[d]
  <2>1. /\ published[d][j] <= synced[d][j] /\ synced[d][j] <= edits[d] /\ edits[d] <= edits'[d]
        /\ published[d][j] \in Nat /\ synced[d][j] \in Nat /\ edits[d] \in Nat /\ edits'[d] \in Nat
    BY DEF LspShape, TextsAreSent
  <2>2. synced'[d][j] = edits'[d] \/ synced'[d][j] = synced[d][j]
    BY <1>5
  <2> QED
    BY ONLY <2>1, <2>2
<1> QED
  BY <1>3, <1>5, <1>6 DEF LspShape, TextsAreSent

LEMMA LspShapeStep ==
    ASSUME LspInv, LspShape, Lsp!LspNext
    PROVE  LspShape'
<1>0. /\ caller \in [Procs -> CallerTypes] /\ edits \in [Procs -> Nat] /\ registered \in Lsp!Clients \cup {0}
      /\ \A c \in Procs : edits[c] \in Nat
  BY DEF LspShape, LspInv, LspTypes
<1>1. ASSUME NEW c \in Procs, Lsp!Begin(c) PROVE LspShape'
  <2>1. PICK kind \in Kinds : Lsp!Reuse(c, kind) \/ Lsp!Spawn(c, kind)
    BY <1>1 DEF Lsp!Begin, Kinds
  <2>2. edits' = [edits EXCEPT ![c] = @ + 1] \/ edits' = edits
    BY <1>1 DEF Lsp!Begin
  <2>3. edits' \in [Procs -> Nat] /\ \A d \in Procs : edits[d] <= edits'[d]
    BY <1>0, <2>2
  <2>4. CASE Lsp!Reuse(c, kind)
    <3>1. registered \in Lsp!Clients
      BY <1>0, <2>4 DEF Lsp!Reuse, Lsp!Usable, Lsp!None
    <3> QED
      BY <2>3, <2>4, <3>1, GoesOn DEF Lsp!Reuse
  <2>5. CASE Lsp!Spawn(c, kind)
    <3>1. PICK i \in Lsp!Clients : caller' = [caller EXCEPT ![c] = [at |-> "starting", on |-> i, since |-> 0, then |-> kind]]
      BY <2>5 DEF Lsp!Spawn, Lsp!Unused
    <3>2. [at |-> "starting", on |-> i, since |-> 0, then |-> kind] \in CallerTypes
      BY DEF CallerTypes
    <3>3. caller' \in [Procs -> CallerTypes]
      BY <1>0, <3>1, <3>2
    <3>4. UNCHANGED <<synced, published, diagnosticsVersion>>
      BY <2>5 DEF Lsp!Spawn
    <3>5. TextsAreSent'
      <4> SUFFICES ASSUME NEW d \in Procs, NEW j \in Lsp!Clients
                   PROVE  published[d][j] <= synced[d][j] /\ synced[d][j] <= edits'[d]
        BY <3>4 DEF TextsAreSent
      <4>1. /\ published[d][j] <= synced[d][j] /\ synced[d][j] <= edits[d] /\ edits[d] <= edits'[d]
            /\ synced[d][j] \in Nat /\ edits[d] \in Nat /\ edits'[d] \in Nat
        BY <2>3 DEF LspShape, TextsAreSent
      <4> QED
        BY ONLY <4>1
    <3> QED
      BY <2>3, <3>3, <3>4, <3>5 DEF LspShape
  <2> QED
    BY <2>1, <2>4, <2>5
<1>2. ASSUME NEW c \in Procs, Lsp!Initialized(c) PROVE LspShape'
  <2>1. caller[c] \in CallerTypes /\ caller[c].at = "starting"
    BY <1>0, <1>2 DEF Lsp!Initialized
  <2>2. caller[c].on \in Lsp!Clients /\ caller[c].then \in Kinds
    BY <2>1 DEF CallerTypes, Kinds, Lsp!AtRest
  <2>3. edits' = edits /\ \A d \in Procs : edits[d] <= edits[d]
    BY <1>0, <1>2 DEF Lsp!Initialized
  <2> QED
    BY <1>0, <1>2, <2>2, <2>3, GoesOn DEF Lsp!Initialized
<1>3. ASSUME UNCHANGED <<edits, synced, published, diagnosticsVersion>>,
             \/ \E c \in Procs : caller' = Lsp!Ends(c)
             \/ UNCHANGED caller
             \/ \E i \in Lsp!Clients :
                  caller' = [c \in Procs |-> IF caller[c].on = i /\ caller[c].at \in {"request", "starting"}
                                             THEN Lsp!AtRest ELSE caller[c]]
      PROVE  LspShape'
  <2>1. Lsp!AtRest \in CallerTypes
    BY DEF CallerTypes
  <2>2. caller' \in [Procs -> CallerTypes]
    BY <1>0, <1>3, <2>1 DEF Lsp!Ends
  <2> QED
    BY <1>3, <2>2 DEF LspShape, TextsAreSent
<1>4. ASSUME NEW c \in Procs, NEW i \in Lsp!Clients, Lsp!Publish(c, i) PROVE LspShape'
  <2>1. PICK new \in (published[c][i] + 1) .. synced[c][i] : published' = [published EXCEPT ![c][i] = new]
    BY <1>4 DEF Lsp!Publish
  <2>2. /\ published \in [Procs -> [Lsp!Clients -> Nat]] /\ published[c][i] \in Nat /\ synced[c][i] \in Nat
        /\ diagnosticsVersion \in [Lsp!Clients -> Nat]
    BY DEF LspShape
  <2>3. new \in Nat /\ new <= synced[c][i]
    BY <2>1, <2>2
  <2>4. /\ published' \in [Procs -> [Lsp!Clients -> Nat]]
        /\ \A d \in Procs, j \in Lsp!Clients :
             published'[d][j] = IF d = c /\ j = i THEN new ELSE published[d][j]
    BY ONLY <2>1, <2>2, <2>3
  <2>5. UNCHANGED <<caller, edits, synced>> /\ diagnosticsVersion' = [diagnosticsVersion EXCEPT ![i] = @ + 1]
    BY <1>4 DEF Lsp!Publish
  <2>6. diagnosticsVersion' \in [Lsp!Clients -> Nat]
    BY <2>2, <2>5
  <2>7. TextsAreSent'
    BY <2>3, <2>4, <2>5 DEF LspShape, TextsAreSent
  <2> QED
    BY <1>0, <2>4, <2>5, <2>6, <2>7 DEF LspShape
<1> QED
  BY <1>1, <1>2, <1>3, <1>4 DEF Lsp!LspNext, Lsp!InitializeFails, Lsp!Diagnosed, Lsp!GiveUp, Lsp!Exit, Lsp!Reap, Lsp!Dispose

LEMMA LspTyped == LspInv /\ LspShape => Lsp!LspTypeOK
<1> SUFFICES ASSUME LspInv, LspShape PROVE Lsp!LspTypeOK
  OBVIOUS
<1>1. \A c \in Procs : caller[c].at \in {"none", "starting", "diagnostics", "request"}
  BY DEF LspShape, CallerTypes, Kinds, Lsp!AtRest
<1> QED
  BY <1>1 DEF LspInv, LspTypes, ClientType, LspShape, TextsAreSent, Lsp!LspTypeOK, Lsp!None

\* The credentials keep their types also when a process dies or loses the lock.
Tokens == 0 .. MaxToken
CallShapes ==
    {Auth!NoCall}
    \cup [at : {"create", "lock"}, does : {"change"}, who : Auth!Providers, value : Tokens]
    \cup [at : {"create", "lock"}, does : {"refresh"}, who : OAuth]
    \cup [at : {"create", "lock"}, does : {"reload"}]
    \cup [at : {"ask", "answered", "refused"}, does : {"refresh"}, who : OAuth, value : Tokens, read : Auth!Creds]
FileShape == auth \in [text : {"none", "empty", "cut", "whole"}, creds : Auth!Creds]
LockShape == authLock \in Procs \cup {Auth!Free}
DataShape == data \in [Procs -> Auth!Creds]
CallShape == call \in [Procs -> CallShapes]
ServerShape == issued \in [OAuth -> Tokens] /\ expired \in [OAuth -> Tokens]
AuthShape == FileShape /\ LockShape /\ DataShape /\ CallShape /\ ServerShape

LEMMA TokenTypes == 0 \in Tokens /\ 1 \in Tokens /\ Auth!NoCreds \in Auth!Creds /\ Auth!Creds = [Auth!Providers -> Tokens]
  BY BoundsAssumption DEF Tokens, Auth!NoCreds, Auth!Creds, Auth!Nothing

LEMMA CurrentShape == FileShape => Auth!Current \in Auth!Creds
  BY TokenTypes DEF FileShape, Auth!Current

LEMMA OneReplaced ==
    ASSUME NEW f \in Auth!Creds, NEW r \in Auth!Providers, NEW t \in Tokens
    PROVE  [f EXCEPT ![r] = t] \in Auth!Creds
  BY TokenTypes

LEMMA OneCopyReplaced ==
    ASSUME DataShape, NEW p \in Procs, NEW r \in Auth!Providers, NEW t \in Tokens, data' = [data EXCEPT ![p][r] = t]
    PROVE  DataShape'
<1>1. data[p] \in Auth!Creds
  BY DEF DataShape
<1>2. [data[p] EXCEPT ![r] = t] \in Auth!Creds
  BY <1>1, OneReplaced
<1>3. data' = [data EXCEPT ![p] = [data[p] EXCEPT ![r] = t]]
  BY DEF DataShape
<1> QED
  BY <1>2, <1>3 DEF DataShape

LEMMA CallGoes ==
    ASSUME CallShape, NEW p \in Procs, NEW c \in CallShapes, Auth!Goto(p, c)
    PROVE  CallShape'
  BY DEF CallShape, Auth!Goto

LEMMA ReloadShape == [at |-> Auth!Entry, does |-> "reload"] \in CallShapes /\ Auth!NoCall \in CallShapes
  BY DEF CallShapes, Auth!Entry

\* What the kind of a call says of it.
LEMMA CallParts ==
    ASSUME CallShape, NEW p \in Procs
    PROVE  /\ call[p].does = "change" => call[p].who \in Auth!Providers /\ call[p].value \in Tokens
           /\ Auth!Asking(p) =>
                /\ call[p] \in [at : {"ask", "answered", "refused"}, does : {"refresh"}, who : OAuth, value : Tokens,
                                read : Auth!Creds]
                /\ call[p].who \in OAuth /\ call[p].value \in Tokens /\ call[p].read \in Auth!Creds
           /\ call[p].does = "refresh" => call[p].who \in OAuth
           /\ call[p].at = "create" => [call[p] EXCEPT !.at = "lock"] \in CallShapes
<1>1. call[p] \in CallShapes
  BY DEF CallShape
<1> QED
  BY <1>1 DEF CallShapes, Auth!Asking, Auth!NoCall

LEMMA AuthShapeInit == Auth!Init => AuthShape
<1> SUFFICES ASSUME Auth!Init PROVE AuthShape
  OBVIOUS
<1>1. Auth!NoCall \in CallShapes
  BY DEF CallShapes
<1> QED
  BY <1>1, TokenTypes DEF Auth!Init, AuthShape, FileShape, LockShape, DataShape, CallShape, ServerShape, Auth!Nothing

\* A change: memory, and then a call that stores it.
LEMMA ChangeShape ==
    ASSUME AuthShape, NEW p \in Procs, NEW r \in Auth!Providers, NEW t \in Tokens, Auth!Change(p, r, t)
    PROVE  DataShape' /\ CallShape'
<1>1. DataShape'
  BY OneCopyReplaced DEF Auth!Change, AuthShape
<1> DEFINE c == [at |-> Auth!Entry, does |-> "change", who |-> r, value |-> t]
<1>2. c \in CallShapes
  BY DEF CallShapes, Auth!Entry
<1>3. UNCHANGED call \/ Auth!Goto(p, c)
  BY DEF Auth!Change
<1> HIDE DEF c
<1>4. CallShape'
  BY <1>2, <1>3, CallGoes DEF AuthShape, CallShape
<1> QED
  BY <1>1, <1>4

LEMMA AuthShapeCalls ==
    ASSUME AuthShape, NEW p \in Procs,
           \/ Auth!Reload(p)
           \/ \E r \in OAuth : Auth!Login(p, r) \/ Auth!GetApiKey(p, r) \/ Auth!SetOrRemove(p, r, Auth!Nothing)
           \/ \E k \in Keys : Auth!SetOrRemove(p, k, 1) \/ Auth!ChangeDuringRefresh(p, k, 1)
    PROVE  AuthShape'
<1>0. FileShape /\ LockShape /\ DataShape /\ CallShape /\ ServerShape
  BY DEF AuthShape
<1>1. CASE Auth!Reload(p)
  <2>1. CallShape'
    BY <1>0, <1>1, ReloadShape, CallGoes DEF Auth!Reload
  <2> QED
    BY <1>0, <1>1, <2>1 DEF Auth!Reload, AuthShape, FileShape, LockShape, DataShape, ServerShape
<1>2. ASSUME NEW r \in OAuth, Auth!Login(p, r) PROVE AuthShape'
  <2>1. issued[r] < MaxToken /\ issued' = [issued EXCEPT ![r] = @ + 1] /\ Auth!Change(p, r, issued[r] + 1)
        /\ UNCHANGED <<auth, authLock, expired>>
    BY <1>2 DEF Auth!Login
  <2>2. issued[r] + 1 \in Tokens /\ issued \in [OAuth -> Tokens]
    BY <1>0, <2>1, BoundsAssumption DEF ServerShape, Tokens
  <2>3. issued' \in [OAuth -> Tokens]
    BY <2>1, <2>2
  <2>4. DataShape' /\ CallShape'
    BY <2>1, <2>2, ChangeShape DEF Auth!Providers
  <2> QED
    BY <1>0, <2>1, <2>3, <2>4 DEF AuthShape, FileShape, LockShape, ServerShape
<1>3. ASSUME NEW r \in OAuth, Auth!GetApiKey(p, r) PROVE AuthShape'
  <2>1. [at |-> Auth!Entry, does |-> "refresh", who |-> r] \in CallShapes
    BY DEF CallShapes, Auth!Entry
  <2>2. CallShape'
    BY <1>0, <1>3, <2>1, CallGoes DEF Auth!GetApiKey
  <2> QED
    BY <1>0, <1>3, <2>2 DEF Auth!GetApiKey, AuthShape, FileShape, LockShape, DataShape, ServerShape
<1>4. ASSUME NEW r \in Auth!Providers, NEW t \in Tokens, Auth!SetOrRemove(p, r, t) PROVE AuthShape'
  <2>1. DataShape' /\ CallShape'
    BY <1>4, ChangeShape DEF Auth!SetOrRemove
  <2> QED
    BY <1>0, <1>4, <2>1 DEF Auth!SetOrRemove, AuthShape, FileShape, LockShape, ServerShape
<1>5. ASSUME NEW k \in Keys, Auth!ChangeDuringRefresh(p, k, 1) PROVE AuthShape'
  <2>1. k \in Auth!Providers /\ 1 \in Tokens
    BY TokenTypes DEF Auth!Providers
  <2>2. DataShape'
    BY <1>0, <1>5, <2>1, OneCopyReplaced DEF Auth!ChangeDuringRefresh
  <2>3. FileShape'
    <3>1. [Auth!Current EXCEPT ![k] = 1] \in Auth!Creds
      BY <1>0, <2>1, CurrentShape, OneReplaced
    <3> QED
      BY <1>0, <1>5, <3>1 DEF Auth!ChangeDuringRefresh, FileShape
  <2> QED
    BY <1>0, <1>5, <2>2, <2>3 DEF Auth!ChangeDuringRefresh, AuthShape, LockShape, CallShape, ServerShape
<1> QED
  BY <1>1, <1>2, <1>3, <1>4, <1>5, TokenTypes DEF Auth!Providers, Auth!Nothing

LEMMA AuthShapeStep ==
    ASSUME AuthShape, Auth!Next
    PROVE  AuthShape'
<1>0. FileShape /\ LockShape /\ DataShape /\ CallShape /\ ServerShape /\ Auth!Current \in Auth!Creds
  BY CurrentShape DEF AuthShape
<1>1. ASSUME NEW p \in Procs, Auth!CreateFile(p) PROVE AuthShape'
  <2>1. FileShape'
    BY <1>1, TokenTypes DEF Auth!CreateFile, FileShape
  <2>2. CallShape'
    BY <1>0, <1>1, CallParts, CallGoes DEF Auth!CreateFile, Auth!At
  <2> QED
    BY <1>0, <1>1, <2>1, <2>2 DEF Auth!CreateFile, AuthShape, LockShape, DataShape, ServerShape
<1>2. ASSUME NEW p \in Procs, Auth!Persist(p) PROVE AuthShape'
  <2>1. Auth!WithChange(p) \in Auth!Creds
    BY <1>0, <1>2, CallParts, OneReplaced DEF Auth!Persist, Auth!WithChange
  <2>2. FileShape'
    BY <1>0, <1>2, <2>1 DEF Auth!Persist, FileShape
  <2>3. CallShape'
    BY <1>0, <1>2, ReloadShape, CallGoes DEF Auth!Persist
  <2> QED
    BY <1>0, <1>2, <2>2, <2>3 DEF Auth!Persist, AuthShape, LockShape, DataShape, ServerShape
<1>3. ASSUME NEW p \in Procs, Auth!Load(p) \/ Auth!Locked(p) PROVE AuthShape'
  <2>1. CallShape'
    BY <1>0, <1>3, ReloadShape, CallGoes DEF Auth!Load, Auth!Locked
  <2>2. DataShape'
    BY <1>0, <1>3 DEF Auth!Load, Auth!Locked, DataShape
  <2> QED
    BY <1>0, <1>3, <2>1, <2>2 DEF Auth!Load, Auth!Locked, AuthShape, FileShape, LockShape, ServerShape
<1>4. ASSUME NEW p \in Procs, Auth!LockAndRead(p) PROVE AuthShape'
  <2> DEFINE t == Auth!ToRefresh(p)
             c == [at |-> "ask", does |-> "refresh", who |-> call[p].who, value |-> t, read |-> Auth!Current]
  <2>1. call[p].who \in OAuth
    BY <1>0, <1>4, CallParts DEF Auth!LockAndRead, Auth!Waits
  <2>2. t \in Tokens
    BY <1>0, <2>1, TokenTypes DEF Auth!ToRefresh, Auth!Providers
  <2> HIDE DEF t
  <2>3. c \in CallShapes
    BY <1>0, <2>1, <2>2 DEF CallShapes
  <2>4. /\ (authLock' = p /\ Auth!Goto(p, c)) \/ (Auth!Goto(p, Auth!NoCall) /\ UNCHANGED authLock)
        /\ data' = [data EXCEPT ![p] = Auth!Current] /\ UNCHANGED <<auth, issued, expired>>
    BY <1>4 DEF Auth!LockAndRead, t
  <2> HIDE DEF c
  <2>5. CallShape' /\ LockShape'
    BY <1>0, <2>3, <2>4, ReloadShape, CallGoes DEF LockShape
  <2>6. DataShape'
    BY <1>0, <2>4 DEF DataShape
  <2> QED
    BY <1>0, <2>4, <2>5, <2>6 DEF AuthShape, FileShape, ServerShape
<1>5. ASSUME NEW p \in Procs, Auth!NoLock(p) PROVE AuthShape'
  <2>1. CallShape'
    BY <1>0, <1>5, ReloadShape, CallGoes DEF Auth!NoLock, Auth!AfterError
  <2> QED
    BY <1>0, <1>5, <2>1 DEF Auth!NoLock, AuthShape, FileShape, LockShape, DataShape, ServerShape
<1>6. ASSUME NEW p \in Procs, Auth!Serve(p) PROVE AuthShape'
  <2> DEFINE r == call[p].who
  <2>1. /\ call[p] \in [at : {"ask", "answered", "refused"}, does : {"refresh"}, who : OAuth, value : Tokens, read : Auth!Creds]
        /\ r \in OAuth
    BY <1>0, <1>6, CallParts DEF Auth!Serve, Auth!At, Auth!Asking
  <2>2. UNCHANGED <<auth, authLock, data, expired>>
    BY <1>6 DEF Auth!Serve
  <2>3. \/ /\ issued[r] < MaxToken /\ issued' = [issued EXCEPT ![r] = @ + 1]
           /\ Auth!Goto(p, [call[p] EXCEPT !.at = "answered", !.value = issued[r] + 1])
        \/ Auth!Goto(p, [call[p] EXCEPT !.at = "refused"]) /\ UNCHANGED issued
    BY <1>6 DEF Auth!Serve
  <2>4. CASE Auth!Goto(p, [call[p] EXCEPT !.at = "refused"]) /\ UNCHANGED issued
    <3>1. [call[p] EXCEPT !.at = "refused"] \in CallShapes
      BY <2>1 DEF CallShapes
    <3>2. CallShape'
      BY <1>0, <2>4, <3>1, CallGoes
    <3> QED
      BY <1>0, <2>2, <2>4, <3>2 DEF AuthShape, FileShape, LockShape, DataShape, ServerShape
  <2>5. CASE /\ issued[r] < MaxToken /\ issued' = [issued EXCEPT ![r] = @ + 1]
             /\ Auth!Goto(p, [call[p] EXCEPT !.at = "answered", !.value = issued[r] + 1])
    <3> HIDE DEF r
    <3>1. issued[r] + 1 \in Tokens /\ issued \in [OAuth -> Tokens]
      BY <1>0, <2>1, <2>5, BoundsAssumption DEF ServerShape, Tokens
    <3>2. issued' \in [OAuth -> Tokens]
      BY <2>5, <3>1
    <3>3. [call[p] EXCEPT !.at = "answered", !.value = issued[r] + 1] \in CallShapes
      BY <2>1, <3>1 DEF CallShapes
    <3>4. CallShape'
      BY <1>0, <2>5, <3>3, CallGoes
    <3> QED
      BY <1>0, <2>2, <3>2, <3>4 DEF AuthShape, FileShape, LockShape, DataShape, ServerShape
  <2> QED
    BY <2>3, <2>4, <2>5
<1>7. ASSUME NEW p \in Procs, Auth!Receive(p) PROVE AuthShape'
  <2> DEFINE merged == [call[p].read EXCEPT ![call[p].who] = call[p].value]
  <2>1. call[p].who \in OAuth /\ call[p].value \in Tokens /\ call[p].read \in Auth!Creds
    BY <1>0, <1>7, CallParts DEF Auth!Receive, Auth!At, Auth!Asking
  <2>2. merged \in Auth!Creds
    BY <2>1, OneReplaced DEF Auth!Providers
  <2> HIDE DEF merged
  <2>3. /\ data' = [data EXCEPT ![p] = merged] /\ auth' = Auth!Stored(p, merged)
        /\ UNCHANGED <<issued, expired>> /\ Auth!Unlock(p)
        /\ Auth!AfterError(p) \/ Auth!Goto(p, Auth!NoCall)
    BY <1>7 DEF Auth!Receive, merged
  <2>4. DataShape' /\ FileShape' /\ LockShape'
    BY <1>0, <2>2, <2>3 DEF DataShape, FileShape, LockShape, Auth!Stored, Auth!Unlock
  <2>5. CallShape'
    BY <1>0, <2>3, ReloadShape, CallGoes DEF Auth!AfterError
  <2> QED
    BY <1>0, <2>3, <2>4, <2>5 DEF AuthShape, ServerShape
<1>8. ASSUME NEW p \in Procs, Auth!Refused(p) PROVE AuthShape'
  <2>1. CallShape' /\ LockShape'
    BY <1>0, <1>8, ReloadShape, CallGoes DEF Auth!Refused, Auth!AfterError, Auth!Unlock, LockShape
  <2> QED
    BY <1>0, <1>8, <2>1 DEF Auth!Refused, AuthShape, FileShape, DataShape, ServerShape
<1>9. ASSUME NEW p \in Procs, Auth!Stall(p) \/ Auth!Notice(p) \/ Auth!Wake(p) \/ Auth!Steal(p) PROVE AuthShape'
  BY <1>0, <1>9 DEF Auth!Stall, Auth!Notice, Auth!Wake, Auth!Steal, AuthShape, FileShape, LockShape, DataShape,
     CallShape, ServerShape
<1>10. ASSUME NEW p \in Procs, Auth!Die(p) PROVE AuthShape'
  <2>1. CallShape' /\ LockShape'
    BY <1>0, <1>10, ReloadShape, CallGoes DEF Auth!Die, Auth!Unlock, LockShape
  <2>2. DataShape'
    BY <1>0, <1>10, TokenTypes DEF Auth!Die, DataShape
  <2>3. FileShape'
    BY <1>0, <1>10 DEF Auth!Die, FileShape
  <2> QED
    BY <1>0, <1>10, <2>1, <2>2, <2>3 DEF Auth!Die, AuthShape, ServerShape
<1>11. ASSUME NEW r \in OAuth, Auth!Expire(r) PROVE AuthShape'
  <2>1. issued[r] \in Tokens /\ expired \in [OAuth -> Tokens]
    BY <1>0 DEF ServerShape
  <2>2. expired' \in [OAuth -> Tokens]
    BY <1>11, <2>1 DEF Auth!Expire
  <2> QED
    BY <1>0, <1>11, <2>2 DEF Auth!Expire, AuthShape, FileShape, LockShape, DataShape, CallShape, ServerShape
<1>12. ASSUME NEW p \in Procs, Auth!Step(p) PROVE AuthShape'
  BY <1>1, <1>2, <1>3, <1>4, <1>5, <1>6, <1>7, <1>8, <1>9, <1>12 DEF Auth!Step
<1> QED
  BY <1>9, <1>10, <1>11, <1>12, AuthShapeCalls DEF Auth!Next

LEMMA AuthTyped == AuthShape => Auth!TypeOK
<1> SUFFICES ASSUME AuthShape PROVE Auth!TypeOK
  OBVIOUS
<1>1. \A p \in Procs : call[p].at \in {"none", "create", "lock", "ask", "answered", "refused"}
  BY DEF AuthShape, CallShape, CallShapes, Auth!NoCall
<1> QED
  BY <1>1 DEF AuthShape, FileShape, LockShape, DataShape, ServerShape, Tokens, Auth!TypeOK

LEMMA RuntimeShapeInit == Runtime!RuntimeInit => RuntimeShape
  BY BoundsAssumption DEF Runtime!RuntimeInit, RuntimeShape

LEMMA TaskShapeInit == SubAgents!TaskInit => TaskShape
  BY DEF SubAgents!TaskInit, TaskShape

LEMMA CompactionShapeInit == Compactor!CompactionInit => CompactionShape
  BY DEF Compactor!CompactionInit, CompactionShape

\* The invariant of the services with the output of a command, and with the rest of the types.
TypedInv ==
    /\ ServicesInv
    /\ part \in Parts
    /\ part = "auth" => AuthShape
    /\ part = "lsp" => LspShape
    /\ part = "bash" => OutputShape
    /\ part = "compaction" => CompactionShape
    /\ part = "trace" => TraceShape
    /\ part = "runtime" => RuntimeShape
    /\ part = "tasks" => TaskShape

LEMMA TypedInvInit == ServicesInit => TypedInv
  BY ServicesInvInit, AuthShapeInit, LspShapeInit, OutputShapeInit, CompactionShapeInit, TraceShapeInit,
     RuntimeShapeInit, TaskShapeInit
     DEF ServicesInit, TypedInv

LEMMA TypedInvStep == TypedInv /\ [ServicesNext]_allVars => TypedInv'
<1> SUFFICES ASSUME TypedInv, [ServicesNext]_allVars PROVE TypedInv'
  OBVIOUS
<1>1. part' = part /\ ServicesInv' /\ part \in Parts
  BY OnlyItsPart, ServicesInvStep DEF TypedInv
<1>2. ASSUME part = "auth" PROVE AuthShape'
  <2>1. CASE Auth!Next
    BY <1>2, <2>1, AuthShapeStep DEF TypedInv
  <2>2. CASE UNCHANGED authVars
    BY <1>2, <2>2 DEF authVars, TypedInv, AuthShape, FileShape, LockShape, DataShape, CallShape, ServerShape
  <2> QED
    BY <1>2, <2>1, <2>2, OnlyItsPart
<1>3. ASSUME part = "lsp" PROVE LspShape'
  <2>1. CASE Lsp!LspNext
    BY <1>3, <2>1, LspShapeStep DEF TypedInv, ServicesInv
  <2>2. CASE UNCHANGED lspVars
    BY <1>3, <2>2 DEF lspVars, TypedInv, LspShape, TextsAreSent
  <2> QED
    BY <1>3, <2>1, <2>2, OnlyItsPart
<1>4. ASSUME part = "bash" PROVE OutputShape'
  <2>1. Bash!OutputNext \/ UNCHANGED outputVars
    <3>1. CASE UNCHANGED allVars
      BY <3>1 DEF allVars, firstVars
    <3>2. CASE ServicesNext
      BY <1>4, <3>2 DEF ServicesNext, SettingsStep, AuthStep, LspStep, BashStep, CompactionStep, TraceStep, RuntimeStep,
         TaskStep
    <3> QED
      BY <3>1, <3>2
  <2>2. UNCHANGED outputVars => UNCHANGED Bash!outputVars
    BY DEF outputVars, Bash!outputVars
  <2> QED
    BY <1>4, <2>1, <2>2, OutputShapeStep DEF TypedInv
<1>5. ASSUME part = "compaction" PROVE CompactionShape'
  <2>1. CASE Compactor!CompactionNext
    BY <1>5, <2>1, CompactionShapeStep DEF TypedInv, ServicesInv
  <2>2. CASE UNCHANGED compactionVars
    BY <1>5, <2>2 DEF compactionVars, TypedInv, CompactionShape, EntryFits
  <2> QED
    BY <1>5, <2>1, <2>2, OnlyItsPart
<1>6. ASSUME part = "trace" PROVE TraceShape'
  <2>1. CASE Trace!TraceNext
    BY <1>6, <2>1, TraceShapeStep DEF TypedInv
  <2>2. CASE UNCHANGED traceVars
    BY <1>6, <2>2 DEF traceVars, TypedInv, TraceShape
  <2> QED
    BY <1>6, <2>1, <2>2, OnlyItsPart
<1>7. ASSUME part = "runtime" PROVE RuntimeShape'
  <2>1. CASE Runtime!RuntimeNext
    BY <1>7, <2>1, RuntimeShapeStep DEF TypedInv
  <2>2. CASE UNCHANGED runtimeVars
    BY <1>7, <2>2 DEF runtimeVars, TypedInv, RuntimeShape
  <2> QED
    BY <1>7, <2>1, <2>2, OnlyItsPart
<1>8. ASSUME part = "tasks" PROVE TaskShape'
  <2>1. CASE SubAgents!TaskNext
    BY <1>8, <2>1, TaskShapeStep DEF TypedInv
  <2>2. CASE UNCHANGED taskVars
    BY <1>8, <2>2 DEF taskVars, TypedInv, TaskShape
  <2> QED
    BY <1>8, <2>1, <2>2, OnlyItsPart
<1> QED
  BY <1>1, <1>2, <1>3, <1>4, <1>5, <1>6, <1>7, <1>8 DEF TypedInv

\* Every variable of every part keeps its type.
THEOREM ServicesTypeOKAlways == Services => []ServicesTypeOK
<1>1. ASSUME TypedInv PROVE ServicesTypeOK
  <2>1. /\ part = "settings" => Settings!TypeOK
        /\ part = "auth" => Auth!TypeOK
        /\ part = "lsp" => Lsp!LspTypeOK
        /\ part = "bash" => Bash!OutputTypeOK
        /\ part = "compaction" => Compactor!CompactionTypeOK
        /\ part = "trace" => Trace!TraceTypeOK
        /\ part = "runtime" => Runtime!RuntimeTypeOK
        /\ part = "tasks" => SubAgents!TaskTypeOK
    BY <1>1, SettingsTyped, AuthTyped, LspTyped, ShapeIsTyped, CompactionTyped, TraceTyped, RuntimeTyped, TaskTyped
       DEF TypedInv, ServicesInv
  <2>2. part \in {"settings", "auth", "lsp", "bash", "compaction", "trace", "runtime", "tasks"}
    BY <1>1, PartsAssumption DEF TypedInv
  <2> QED
    BY <2>1, <2>2 DEF ServicesTypeOK
<1> QED
  BY <1>1, TypedInvInit, TypedInvStep, PTL DEF Services

\* What a command prints is kept and shown as promised, whatever it prints, however its output comes in
\* pieces, and for all limits: the tool shows what truncateTail makes of the whole output (but for a last
\* line longer than the kept tail that a newline ends), the totals are those of the whole, the files have
\* it from its first byte on, memory is bounded, and the executor shows the end.
THEOREM OutputIsWholeAlways == Services => []OutputIsWhole
<1>1. TypedInv => OutputIsWhole
  BY ShapeIsWhole DEF TypedInv, OutputIsWhole
<1> QED
  BY <1>1, TypedInvInit, TypedInvStep, PTL DEF Services
=============================================================================
