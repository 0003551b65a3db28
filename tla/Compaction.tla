----------------------------- MODULE Compaction -----------------------------
(***************************************************************************)
(* Where a compaction cuts a conversation and what its summary has read:   *)
(* prepareCompaction, findCutPoint and compact of                          *)
(* core/compaction/compaction.ts, on the path of one session that is       *)
(* compacted again and again.  A message is its place in the path.         *)
(***************************************************************************)
EXTENDS Integers, Sequences, FiniteSets, FiniteSetsExt

CONSTANTS MaxPath,           \* bound on the entries of the path
          MaxSize,           \* bound on the estimated tokens of a message
          KeepRecentTokens   \* settings.keepRecentTokens

VARIABLES path,              \* the entries of the branch
          open               \* tool calls of the last reply that have no result yet

compactionVars == <<path, open>>

\* Custom messages and summaries of branches are treated alike; a threshold and an overflow, too.
UserLike == {"user", "bashExecution", "custom_message"}
Messages == {"user", "bashExecution", "assistant", "toolResult"}
HasMessage == Messages \cup {"custom_message"}
CutTypes == HasMessage \ {"toolResult"}
Reasons == {"manual", "threshold"}

\* A compaction names the first entry it keeps, and covers the messages that were given to the model that
\* wrote its summary, or to the one that wrote the summary before.
Entry(type, size, first, covers) == [type |-> type, size |-> size, first |-> first, covers |-> covers]

CompactionInit == path = <<>> /\ open = 0

LastEntry == IF path = <<>> THEN "none" ELSE path[Len(path)].type

---------------------------------------------------------------------------
(* The conversation grows. *)

Append1(type, size) == path' = Append(path, Entry(type, size, 0, {}))

\* A prompt, a steering message or the output of a command of the user's, between two turns of the model.
Ask == /\ open = 0
       /\ \E type \in UserLike : Append1(type, 1)
       /\ UNCHANGED open

Reply == /\ open = 0 /\ path # <<>>
         /\ \E calls \in 0 .. 1 : Append1("assistant", 1) /\ open' = calls

Answer == /\ open > 0
          /\ \E n \in 1 .. MaxSize : Append1("toolResult", n)
          /\ open' = open - 1

\* A label, or another entry without a message.
Mark == Append1("label", 0) /\ UNCHANGED open

\* The run is aborted: no results follow.
Abort == open > 0 /\ open' = 0 /\ UNCHANGED path

---------------------------------------------------------------------------
(* The cut. *)

Compactions == {i \in DOMAIN path : path[i].type = "compaction"}
Previous == IF Compactions = {} THEN 0 ELSE Max(Compactions)

\* Mutation: the messages that survived the last compaction are not read again.
BoundaryAfterLast == Previous + 1

\* The first entry the last compaction has kept.
BoundaryStart == IF Previous = 0 THEN 1 ELSE path[Previous].first

\* Mutation: a cut may separate a result from its call.
CutPointsAnywhere == {i \in BoundaryStart .. Len(path) : path[i].type \in HasMessage}

CutPoints == {i \in BoundaryStart .. Len(path) : path[i].type \in CutTypes}

\* The estimated tokens of the entries of type message from a place on, against keepRecentTokens.
MessagesFrom(i) == {j \in i .. Len(path) : path[j].type \in Messages}
Tokens(places) == MapThenSumSet(LAMBDA j : path[j].size, places)
FillsBudget(places) == Tokens(places) >= KeepRecentTokens

\* Where the walk backwards has accumulated keepRecentTokens.
Reached == {i \in BoundaryStart .. Len(path) : path[i].type \in Messages /\ FillsBudget(MessagesFrom(i))}

\* Mutation: the walk stops only when the whole path has been seen.
CutNeverReached == Min(CutPoints)

\* The first cut point at or after that place, or the first of all.
Cut == LET reached == Reached
           behind == IF reached = {} THEN {} ELSE {c \in CutPoints : c >= Max(reached)}
       IN IF behind = {} THEN Min(CutPoints) ELSE Min(behind)

\* Entries without a message of type message in front of the cut are kept with it.
FirstKept ==
  LET cut == Cut
      stays(i) == path[i].type \in Messages \cup {"compaction"}
  IN IF CutPoints = {} THEN BoundaryStart
     ELSE Min({i \in BoundaryStart .. cut : \A j \in i .. cut - 1 : ~stays(j)})

TurnStarts(first) == {i \in BoundaryStart .. first : path[i].type \in UserLike}
IsSplitTurn(first) == CutPoints # {} /\ path[first].type # "user" /\ TurnStarts(first) # {}
HistoryEnd(first) == IF IsSplitTurn(first) THEN Max(TurnStarts(first)) ELSE first

InRange(from, to) == {i \in from .. to - 1 : path[i].type \in HasMessage}
MessagesToSummarize(first) == InRange(BoundaryStart, HistoryEnd(first))
TurnPrefixMessages(first) == InRange(HistoryEnd(first), first)
PreviousCovers == IF Previous = 0 THEN {} ELSE path[Previous].covers

\* Mutation: the summary does not go on from the one before it.
SummaryAnew(first, reason) ==
  MessagesToSummarize(first) \cup (IF reason = "manual" THEN TurnPrefixMessages(first) ELSE {})

\* What the summary stands for.  Only a manual compaction reads the prefix of a split turn, and with
\* no history before that turn it says "No prior history.".
Summary(first, reason) ==
  LET history == MessagesToSummarize(first)
      prefix == TurnPrefixMessages(first)
  IN IF reason = "manual" /\ prefix # {}
     THEN prefix \cup (IF history = {} THEN {} ELSE history \cup PreviousCovers)
     ELSE history \cup PreviousCovers

Compact(reason) ==
  /\ path # <<>> /\ LastEntry # "compaction" /\ BoundaryStart <= Len(path)
  /\ LET first == FirstKept
     IN path' = Append(path, Entry("compaction", 0, first, Summary(first, reason)))
  /\ open' = 0

Grow == Len(path) < MaxPath /\ (Ask \/ Reply \/ Answer \/ Mark)
CompactionNext == Grow \/ Abort \/ (Len(path) < MaxPath /\ \E reason \in Reasons : Compact(reason))

---------------------------------------------------------------------------
\* Type invariant.
CompactionTypeOK ==
  /\ \A i \in DOMAIN path : /\ path[i].type \in HasMessage \cup {"label", "compaction"}
                            /\ path[i].size \in 0 .. MaxSize
                            /\ path[i].first \in 0 .. i - 1
                            /\ path[i].covers \subseteq 1 .. path[i].first - 1
  /\ open \in 0 .. 1

Compacts == path' # path /\ path'[Len(path')].type = "compaction"

\* What a later compaction, or the model through its summary, can still know of: the messages the last
\* summary covers and those from its first kept entry on.
Known(p) ==
  LET cs == {i \in DOMAIN p : p[i].type = "compaction"}
      messages(from) == {i \in from .. Len(p) : p[i].type \in HasMessage}
  IN IF cs = {} THEN messages(1) ELSE p[Max(cs)].covers \cup messages(p[Max(cs)].first)

\* A compaction forgets nothing, however often the path has been compacted: each message is read for
\* the summary or kept.  What it may forget is named: the prefix of a turn that an automatic compaction
\* splits, and what was known before that turn when a manual one finds no history to summarize.
ForgetsOnlyAtSplits ==
  [][Compacts /\ ~IsSplitTurn(FirstKept) => Known(path) \subseteq Known(path')]_compactionVars

\* The same without exception, as docs/compaction.md:105 says of split turns: "pi generates two
\* summaries and merges them".
ForgetsNothing == [][Compacts => Known(path) \subseteq Known(path')]_compactionVars

\* "Never cut at tool results (they must stay with their tool call)": the first message kept is no
\* result, and of the messages all but the first are fewer tokens than keepRecentTokens, unless only
\* results fill the budget.
CutIsBetweenCalls ==
  LET kept == {i \in path'[Len(path')].first .. Len(path) : path[i].type \in HasMessage}
      counted == {i \in kept : path[i].type \in Messages}
      rest == counted \ {Min(counted)}
  IN /\ kept # {} => path[Min(kept)].type # "toolResult"
     /\ (\E c \in CutPoints : Reached # {} /\ c >= Max(Reached)) => rest = {} \/ ~FillsBudget(rest)
CutsBetweenCalls == [][Compacts => CutIsBetweenCalls]_compactionVars
=============================================================================
