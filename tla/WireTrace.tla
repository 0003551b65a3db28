------------------------------ MODULE WireTrace ------------------------------
(***************************************************************************)
(* The writer of the wire trace (core/wire/file.ts): lines are collected   *)
(* in memory and appended to the file by a timer, by a full batch, and     *)
(* synchronously when the process ends.  A line is its number.             *)
(***************************************************************************)
EXTENDS Naturals, Sequences, SequencesExt

CONSTANTS MaxTrace,    \* bound on the events published
          Batch,       \* FLUSH_BATCH_SIZE
          MaxBadDisk   \* bound on the appends that fail

VARIABLES buffered,    \* buffer
          flushTimer,  \* whether the timer runs
          inFlight,    \* what the asynchronous append under way writes; flushing, when it is not empty
          traceFile,   \* the lines of the file
          emitted,     \* events published so far
          badDisk,     \* appends that have failed
          gone,        \* lines that failed appends or the exit have taken with them
          overtaken,   \* a synchronous flush has written while an append was under way
          unscheduled, \* a synchronous flush has failed and left its lines without a timer
          exited

traceVars == <<buffered, flushTimer, inFlight, traceFile, emitted, badDisk, gone, overtaken, unscheduled, exited>>

TraceInit ==
  /\ buffered = <<>> /\ flushTimer = FALSE /\ inFlight = <<>> /\ traceFile = <<>>
  /\ emitted = 0 /\ badDisk = 0 /\ gone = {}
  /\ overtaken = FALSE /\ unscheduled = FALSE /\ exited = FALSE

\* flushAsync: takes all lines, unless an append is under way.
FlushAsync(lines) ==
  IF inFlight = <<>> THEN inFlight' = lines /\ buffered' = <<>> ELSE buffered' = lines /\ UNCHANGED inFlight

\* The writer: a full batch is flushed at once, anything less within FLUSH_INTERVAL_MS.
Publish ==
  /\ ~exited /\ emitted < MaxTrace
  /\ emitted' = emitted + 1
  /\ LET lines == Append(buffered, emitted')
     IN IF Len(lines) >= Batch THEN FlushAsync(lines) /\ UNCHANGED flushTimer
        ELSE buffered' = lines /\ flushTimer' = TRUE /\ UNCHANGED inFlight
  /\ unscheduled' = FALSE
  /\ UNCHANGED <<traceFile, badDisk, gone, overtaken, exited>>

TimerFires ==
  /\ ~exited /\ flushTimer
  /\ flushTimer' = FALSE
  /\ FlushAsync(buffered)
  /\ UNCHANGED <<traceFile, emitted, badDisk, gone, overtaken, unscheduled, exited>>

\* Mutation: what came during the append waits for the next event.
FinallyNothing == inFlight' = <<>> /\ UNCHANGED <<buffered, flushTimer>>

\* The end of flushAsync, whatever became of its append.
Finally ==
  IF Len(buffered) >= Batch THEN inFlight' = buffered /\ buffered' = <<>> /\ UNCHANGED flushTimer
  ELSE inFlight' = <<>> /\ flushTimer' = (flushTimer \/ buffered # <<>>) /\ UNCHANGED buffered

AppendEnds ==
  /\ ~exited /\ inFlight # <<>>
  /\ traceFile' = traceFile \o inFlight
  /\ Finally
  /\ UNCHANGED <<emitted, badDisk, gone, overtaken, unscheduled, exited>>

\* The error is swallowed, and with it the lines.
AppendFails ==
  /\ ~exited /\ inFlight # <<>> /\ badDisk < MaxBadDisk
  /\ badDisk' = badDisk + 1
  /\ gone' = gone \cup ToSet(inFlight)
  /\ Finally
  /\ UNCHANGED <<traceFile, emitted, overtaken, unscheduled, exited>>

\* Mutation: the buffer is not emptied by a synchronous flush.
WriteOutAgain == traceFile' = traceFile \o buffered /\ overtaken' = (overtaken \/ inFlight # <<>>) /\ UNCHANGED buffered

\* What is left in memory is appended behind what the file has now.
WriteOut == traceFile' = traceFile \o buffered /\ buffered' = <<>> /\ overtaken' = (overtaken \/ inFlight # <<>>)

\* flushSync, for tests and before the process exits by itself.
FlushSync ==
  /\ ~exited /\ buffered # <<>>
  /\ flushTimer' = FALSE
  /\ \/ WriteOut /\ UNCHANGED <<badDisk, unscheduled>>
     \/ badDisk < MaxBadDisk /\ badDisk' = badDisk + 1 /\ unscheduled' = TRUE
        /\ UNCHANGED <<buffered, traceFile, overtaken>>
  /\ UNCHANGED <<inFlight, emitted, gone, exited>>

\* SIGINT and SIGTERM: flushSync and exit, which an append under way does not survive.
Signalled ==
  /\ ~exited /\ exited' = TRUE
  /\ WriteOut
  /\ gone' = gone \cup ToSet(inFlight)
  /\ inFlight' = <<>> /\ flushTimer' = FALSE
  /\ UNCHANGED <<emitted, badDisk, unscheduled>>

TraceStep == TimerFires \/ AppendEnds \/ AppendFails
TraceNext == Publish \/ TraceStep \/ FlushSync \/ Signalled

---------------------------------------------------------------------------
\* Type invariant.
TraceTypeOK ==
  /\ {buffered, inFlight, traceFile} \subseteq Seq(1 .. MaxTrace)
  /\ emitted \in 0 .. MaxTrace /\ badDisk \in 0 .. MaxBadDisk /\ gone \subseteq 1 .. emitted
  /\ {flushTimer, overtaken, unscheduled, exited} \subseteq BOOLEAN

\* Each event is once in the file, on its way there or in the buffer, in the order of publication as
\* long as no synchronous flush overtakes an append; only failed appends, and appends an exit
\* interrupts, lose lines.  And what is in the buffer has a flush coming, but for a failed last one.
TraceIsWhole ==
  LET all == traceFile \o inFlight \o buffered
  IN /\ ToSet(all) \cup gone = 1 .. emitted /\ ToSet(all) \cap gone = {}
     /\ \A i, j \in DOMAIN all : i < j => all[i] # all[j] /\ (~overtaken => all[i] < all[j])
     /\ buffered # <<>> => flushTimer \/ inFlight # <<>> \/ unscheduled
=============================================================================
