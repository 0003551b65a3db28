-------------------------- MODULE SettingsManager --------------------------
(***************************************************************************)
(* The settings of Lumen (src/packages/coding-agent/src/core/              *)
(* settings-manager.ts): one manager per process, two files (global and    *)
(* project) that all processes share under a file lock, setters that       *)
(* change memory at once and queue a write, reloads that wait for the      *)
(* queue, and processes that die in the middle of a write.                 *)
(*                                                                         *)
(* A setting is a path: a plain field, or one key of a nested field.  A    *)
(* write merges the paths the process has changed into what it finds in    *)
(* the file.  The queue of a process is the chain of promises writeQueue:  *)
(* a job runs when those before it are done, and runs to its end without   *)
(* anything else of its process coming between; other processes do.        *)
(***************************************************************************)
EXTENDS Naturals, Sequences, FiniteSets

CONSTANTS Procs,     \* processes that share the files
          Paths,     \* settings
          Values,    \* what a setting may be set to
          Asks,      \* process -> the <<scope, path, value>> its setters may be called with
          MaxCalls, MaxFaults  \* bounds on calls of setters and reload, and on deaths with failed writes

Scopes == {"global", "project"}
Absent == "absent"
Settings == [Paths -> Values \cup {Absent}]
NoSettings == [q \in Paths |-> Absent]
Free == "free"

VARIABLES
  file,      \* scope -> [text, val, raced]: no file, emptied, cut short or whole; the last
             \* whole content; whether a write that found no file has replaced one made meanwhile
  lock,      \* scope -> the process holding the lock of the file, or Free
  alive,     \* process -> it runs and has loaded its settings
  mem,       \* process -> scope -> globalSettings, projectSettings
  modified,  \* process -> scope -> the paths changed since the last write or reload
  loadError, \* process -> scope -> the last load failed
  shown,     \* process -> settings: what the getters read
  queue,     \* process -> the jobs chained to writeQueue
  task,      \* process -> where its running job is inside withLock
  errors,    \* process -> the scopes it recorded an error for since it started
  asked,     \* process -> scope -> the last value a setter was given, per path
  count      \* how many calls and faults there have been

vars == <<file, lock, alive, mem, modified, loadError, shown, queue, task, errors, asked, count>>

Idle == [stage |-> "idle"]

Init ==
  /\ file = [s \in Scopes |-> [text |-> "none", val |-> NoSettings, raced |-> FALSE]]
  /\ lock = [s \in Scopes |-> Free]
  /\ alive = [p \in Procs |-> FALSE]
  /\ mem = [p \in Procs |-> [s \in Scopes |-> NoSettings]]
  /\ modified = [p \in Procs |-> [s \in Scopes |-> {}]]
  /\ loadError = [p \in Procs |-> [s \in Scopes |-> FALSE]]
  /\ shown = [p \in Procs |-> NoSettings]
  /\ queue = [p \in Procs |-> <<>>]
  /\ task = [p \in Procs |-> Idle]
  /\ errors = [p \in Procs |-> {}]
  /\ asked = [p \in Procs |-> [s \in Scopes |-> NoSettings]]
  /\ count = [calls |-> 0, faults |-> 0]

---------------------------------------------------------------------------
\* deepMergeSettings: what is set above wins, path by path.
DeepMerge(base, over) == [q \in Paths |-> IF over[q] # Absent THEN over[q] ELSE base[q]]

\* What a reader makes of a file: none and an empty one are no settings, one cut short does not parse.
Content(s) == IF file[s].text = "whole" THEN file[s].val ELSE NoSettings
\* Mutation: what is left of a file that was cut short is read.
ParsesAnything(s) == TRUE
Parses(s) == file[s].text # "cut"

\* A load of one scope may be read, or fail: on a file that does not parse or one that stays locked.
MayLoad(s) == (file[s].text = "none" \/ lock[s] = Free) /\ Parses(s)
MayNotLoad(s) == ~Parses(s) \/ (file[s].text # "none" /\ lock[s] # Free)

\* loadFromStorage for both scopes: the scopes in bad fail, the others are read.
Loads(bad) == \A s \in Scopes : IF s \in bad THEN MayNotLoad(s) ELSE MayLoad(s)

Ready(p) == alive[p] /\ task[p] = Idle

\* fromStorage: a scope that cannot be loaded starts empty, and its error is kept.
Start(p) ==
  /\ ~alive[p]
  /\ \E bad \in SUBSET Scopes :
       LET loaded == [s \in Scopes |-> IF s \in bad THEN NoSettings ELSE Content(s)] IN
       /\ Loads(bad)
       /\ mem' = [mem EXCEPT ![p] = loaded]
       /\ loadError' = [loadError EXCEPT ![p] = [s \in Scopes |-> s \in bad]]
       /\ shown' = [shown EXCEPT ![p] = DeepMerge(loaded["global"], loaded["project"])]
       /\ errors' = [errors EXCEPT ![p] = bad]
  /\ alive' = [alive EXCEPT ![p] = TRUE]
  /\ UNCHANGED <<file, lock, modified, queue, task, asked, count>>

\* Mutation: while a write is queued another one is not.
SetOnce(p, s, q, v) ==
  /\ Ready(p) /\ count.calls < MaxCalls
  /\ LET now == [mem[p] EXCEPT ![s][q] = v]
         changed == modified[p][s] \cup {q}
     IN /\ mem' = [mem EXCEPT ![p] = now]
        /\ modified' = [modified EXCEPT ![p][s] = changed]
        /\ shown' = [shown EXCEPT ![p] = DeepMerge(now["global"], now["project"])]
        /\ queue' = IF loadError[p][s] \/ queue[p] # <<>> THEN queue
                    ELSE [queue EXCEPT ![p] = Append(@, [kind |-> "write", scope |-> s, snapshot |-> now[s],
                                                         fields |-> changed])]
        /\ asked' = IF loadError[p][s] THEN asked ELSE [asked EXCEPT ![p][s][q] = v]
  /\ count' = [count EXCEPT !.calls = @ + 1]
  /\ UNCHANGED <<file, lock, alive, loadError, task, errors>>
\* A setter of either scope: memory, what the getters show, and a write with a copy of both, unless
\* the file of the scope could not be loaded.
Set(p, s, q, v) ==
  /\ Ready(p) /\ count.calls < MaxCalls
  /\ LET now == [mem[p] EXCEPT ![s][q] = v]
         changed == modified[p][s] \cup {q}
     IN /\ mem' = [mem EXCEPT ![p] = now]
        /\ modified' = [modified EXCEPT ![p][s] = changed]
        /\ shown' = [shown EXCEPT ![p] = DeepMerge(now["global"], now["project"])]
        /\ queue' = IF loadError[p][s] THEN queue
                    ELSE [queue EXCEPT ![p] = Append(@, [kind |-> "write", scope |-> s, snapshot |-> now[s],
                                                         fields |-> changed])]
        /\ asked' = IF loadError[p][s] THEN asked ELSE [asked EXCEPT ![p][s][q] = v]
  /\ count' = [count EXCEPT !.calls = @ + 1]
  /\ UNCHANGED <<file, lock, alive, loadError, task, errors>>

\* applyOverrides: on top of what is shown, and nowhere else.
ApplyOverrides(p, q, v) ==
  /\ Ready(p) /\ shown[p][q] # v
  /\ count.calls < MaxCalls /\ count' = [count EXCEPT !.calls = @ + 1]
  /\ shown' = [shown EXCEPT ![p][q] = v]
  /\ UNCHANGED <<file, lock, alive, mem, modified, loadError, queue, task, errors, asked>>

\* reload, called: it waits for the writes that are queued at that moment.
Reload(p) ==
  /\ Ready(p) /\ count.calls < MaxCalls
  /\ queue' = [queue EXCEPT ![p] = Append(@, [kind |-> "reload"])]
  /\ count' = [count EXCEPT !.calls = @ + 1]
  /\ UNCHANGED <<file, lock, alive, mem, modified, loadError, shown, task, errors, asked>>

\* reload, after its wait: a scope that cannot be read keeps its memory; nothing counts as changed any more.
FinishReload(p) ==
  /\ Ready(p) /\ queue[p] # <<>> /\ Head(queue[p]).kind = "reload"
  /\ \E bad \in SUBSET Scopes :
       LET loaded == [s \in Scopes |-> IF s \in bad THEN mem[p][s] ELSE Content(s)] IN
       /\ Loads(bad)
       /\ mem' = [mem EXCEPT ![p] = loaded]
       /\ loadError' = [loadError EXCEPT ![p] = [s \in Scopes |-> s \in bad]]
       /\ shown' = [shown EXCEPT ![p] = DeepMerge(loaded["global"], loaded["project"])]
       /\ errors' = [errors EXCEPT ![p] = @ \cup bad]
  /\ modified' = [modified EXCEPT ![p] = [s \in Scopes |-> {}]]
  /\ queue' = [queue EXCEPT ![p] = Tail(@)]
  /\ UNCHANGED <<file, lock, alive, task, asked, count>>

---------------------------------------------------------------------------
(* withLock around persistScopedSettings                                   *)

Writing(p) == Ready(p) /\ queue[p] # <<>> /\ Head(queue[p]).kind = "write"
Job(p) == Head(queue[p])

\* Mutation: what the file holds wins.
MergedUnder(job, current) == DeepMerge(job.snapshot, current)
\* Mutation: the whole memory is written.
MergedWhole(job, current) == job.snapshot
\* persistScopedSettings: the changed paths of the snapshot over what the file holds.
Merged(job, current) == [q \in Paths |-> IF q \in job.fields THEN job.snapshot[q] ELSE current[q]]

\* There is a file: it is locked and read.
Open(p) ==
  /\ Writing(p)
  /\ LET s == Job(p).scope IN
     /\ file[s].text # "none" /\ lock[s] = Free /\ Parses(s)
     /\ lock' = [lock EXCEPT ![s] = p]
     /\ task' = [task EXCEPT ![p] = [stage |-> "write", next |-> Merged(Job(p), Content(s)), created |-> FALSE]]
  /\ UNCHANGED <<file, alive, mem, modified, loadError, shown, queue, errors, asked, count>>

\* There is none: the merge is made from nothing, and the lock is taken only then.
OpenMissing(p) ==
  /\ Writing(p)
  /\ file[Job(p).scope].text = "none"
  /\ task' = [task EXCEPT ![p] = [stage |-> "lock", next |-> Merged(Job(p), NoSettings), created |-> TRUE]]
  /\ UNCHANGED <<file, lock, alive, mem, modified, loadError, shown, queue, errors, asked, count>>

LockLate(p) ==
  /\ alive[p] /\ task[p].stage = "lock" /\ lock[Job(p).scope] = Free
  /\ lock' = [lock EXCEPT ![Job(p).scope] = p]
  /\ task' = [task EXCEPT ![p].stage = "write"]
  /\ UNCHANGED <<file, alive, mem, modified, loadError, shown, queue, errors, asked, count>>

\* writeFileSync opens the file and empties it ...
Truncate(p) ==
  /\ alive[p] /\ task[p].stage = "write"
  /\ file' = [file EXCEPT ![Job(p).scope].text = "empty"]
  /\ task' = [task EXCEPT ![p].stage = "fill"]
  /\ UNCHANGED <<lock, alive, mem, modified, loadError, shown, queue, errors, asked, count>>

\* ... and writes it; the lock is released and the scope counts as unchanged.
WriteOut(p) ==
  /\ alive[p] /\ task[p].stage = "fill"
  /\ LET s == Job(p).scope IN
     /\ file' = [file EXCEPT ![s].text = "whole", ![s].val = task[p].next,
                             ![s].raced = @ \/ (task[p].created /\ file[s].val # NoSettings)]
     /\ lock' = [lock EXCEPT ![s] = Free]
     /\ modified' = [modified EXCEPT ![p][s] = {}]
  /\ task' = [task EXCEPT ![p] = Idle]
  /\ queue' = [queue EXCEPT ![p] = Tail(@)]
  /\ UNCHANGED <<alive, mem, loadError, shown, errors, asked, count>>

\* Mutation: a job that throws stays at the head of the queue.
FailedKept(p) ==
  /\ queue' = queue
  /\ task' = [task EXCEPT ![p] = Idle]
  /\ errors' = [errors EXCEPT ![p] = @ \cup {Job(p).scope}]
\* Mutation: the job counts as running.
FailedInside(p) ==
  /\ queue' = [queue EXCEPT ![p] = Tail(@)]
  /\ task' = task
  /\ errors' = [errors EXCEPT ![p] = @ \cup {Job(p).scope}]

\* What a job that throws leaves: its error; the changed paths stay changed.
Failed(p) ==
  /\ queue' = [queue EXCEPT ![p] = Tail(@)]
  /\ task' = [task EXCEPT ![p] = Idle]
  /\ errors' = [errors EXCEPT ![p] = @ \cup {Job(p).scope}]

\* The file does not parse, or another process keeps the lock for all ten attempts.
CannotOpen(p) ==
  /\ \/ Writing(p) /\ MayNotLoad(Job(p).scope)
     \/ alive[p] /\ task[p].stage = "lock" /\ lock[Job(p).scope] # Free
  /\ Failed(p)
  /\ UNCHANGED <<file, lock, alive, mem, modified, loadError, shown, asked, count>>

\* writeFileSync throws, at once or after a part of the text; the lock is released.
DiskFails(p) ==
  /\ alive[p] /\ task[p].stage \in {"write", "fill"} /\ count.faults < MaxFaults
  /\ LET s == Job(p).scope IN
     /\ lock' = [lock EXCEPT ![s] = Free]
     /\ \/ file' = file
        \/ task[p].stage = "fill" /\ file' = [file EXCEPT ![s].text = "cut"]
  /\ count' = [count EXCEPT !.faults = @ + 1]
  /\ Failed(p)
  /\ UNCHANGED <<alive, mem, modified, loadError, shown, asked>>

\* The process dies; a lock it held grows stale and is taken for free.
Crash(p) ==
  /\ alive[p] /\ count.faults < MaxFaults
  /\ alive' = [alive EXCEPT ![p] = FALSE]
  /\ lock' = [s \in Scopes |-> IF lock[s] = p THEN Free ELSE lock[s]]
  /\ \/ file' = file
     \/ task[p].stage = "fill" /\ file' = [file EXCEPT ![Job(p).scope].text = "cut"]
  /\ mem' = [mem EXCEPT ![p] = [s \in Scopes |-> NoSettings]]
  /\ modified' = [modified EXCEPT ![p] = [s \in Scopes |-> {}]]
  /\ loadError' = [loadError EXCEPT ![p] = [s \in Scopes |-> FALSE]]
  /\ shown' = [shown EXCEPT ![p] = NoSettings]
  /\ queue' = [queue EXCEPT ![p] = <<>>]
  /\ task' = [task EXCEPT ![p] = Idle]
  /\ errors' = [errors EXCEPT ![p] = {}]
  /\ asked' = [asked EXCEPT ![p] = [s \in Scopes |-> NoSettings]]
  /\ count' = [count EXCEPT !.faults = @ + 1]

Step(p) == FinishReload(p) \/ Open(p) \/ OpenMissing(p) \/ LockLate(p) \/ Truncate(p) \/ WriteOut(p) \/ CannotOpen(p)

Next ==
  \E p \in Procs :
    \/ Start(p) \/ Reload(p) \/ DiskFails(p) \/ Crash(p) \/ Step(p)
    \/ \E ask \in Asks[p] : Set(p, ask[1], ask[2], ask[3]) \/ ApplyOverrides(p, ask[2], ask[3])

---------------------------------------------------------------------------
TypeOK ==
  /\ file \in [Scopes -> [text: {"none", "empty", "cut", "whole"}, val: Settings, raced: BOOLEAN]]
  /\ lock \in [Scopes -> Procs \cup {Free}]
  /\ mem \in [Procs -> [Scopes -> Settings]]
  /\ modified \in [Procs -> [Scopes -> SUBSET Paths]]
  /\ shown \in [Procs -> Settings]
  /\ errors \in [Procs -> SUBSET Scopes]
  /\ \A p \in Procs : task[p].stage \in {"idle", "lock", "write", "fill"}
                    /\ (task[p] # Idle => alive[p] /\ queue[p] # <<>> /\ Job(p).kind = "write")

\* Setting q of scope s is one that no other process sets.
Own(p, s, q) == \A r \in Procs \ {p} : \A ask \in Asks[r] : ask[1] # s \/ ask[2] # q

\* When the queue of writes has been awaited and no error was recorded, the file holds what the setters
\* were last given, whatever the other processes wrote meanwhile to settings of their own
\* (docs/sdk.md:820).  What may take it away again is named: a death or a full disk in the middle of a
\* write, and two processes that both found no file.
FlushIsDurable ==
  \A p \in Procs, s \in Scopes, q \in Paths :
    (/\ alive[p] /\ queue[p] = <<>> /\ s \notin errors[p] /\ asked[p][s][q] # Absent
     /\ Own(p, s, q) /\ ~file[s].raced /\ count.faults = 0)
      => file[s].val[q] = asked[p][s][q]

\* Once there is a file, a write changes only paths its process has changed: an edit of another
\* process, or of the user, to another setting stays, however old the writer's memory is
\* (test/settings-manager-bug.test.ts).
OthersKept ==
  [][\A s \in Scopes, q \in Paths :
       file'[s].val[q] # file[s].val[q]
         => \/ \E p \in Procs : task[p].stage = "fill" /\ lock[s] = p /\ (q \in Job(p).fields \/ task[p].created)
            \/ file[s].text = "empty" /\ count.faults > 0]_vars

\* A file that was cut short is left as it is, for the user to repair: no write that begins later
\* replaces it by the few settings of one process.
CutFileIsKept ==
  [][\A s \in Scopes :
       file[s].text = "cut" /\ ~(\E p \in Procs : task[p] # Idle /\ task[p].created /\ Job(p).scope = s)
         => file'[s] = file[s]]_vars

\* A reload takes a setting back in memory only when its write is still queued: it never forgets one
\* that was set before and did not fail.
ReloadKeepsSets ==
  [][\A p \in Procs, s \in Scopes, q \in Paths :
       (/\ queue[p] # <<>> /\ Job(p).kind = "reload" /\ queue'[p] = Tail(queue[p]) /\ alive'[p]
        /\ asked[p][s][q] # Absent /\ s \notin errors'[p] /\ Own(p, s, q) /\ ~file[s].raced /\ count.faults = 0
        /\ \A i \in 2..Len(queue[p]) : ~(queue[p][i].kind = "write" /\ q \in queue[p][i].fields))
         => mem'[p][s][q] = asked[p][s][q]]_vars

\* flush and reload return: the queue of a process that lives is worked off, also past jobs that fail.
FlushWaits(p) == alive[p] /\ queue[p] # <<>>
FlushEnds == \A p \in Procs : FlushWaits(p) ~> ~FlushWaits(p)

\* docs/sdk.md:785 applies overrides to a manager and hands it to createAgentSession, which reloads it
\* (sdk.ts:218, resource-loader.ts:322): what was overridden is still shown after a reload.
OverridesSurviveReload ==
  [][\A p \in Procs, q \in Paths :
       (/\ queue[p] # <<>> /\ Job(p).kind = "reload" /\ queue'[p] = Tail(queue[p]) /\ alive'[p]
        /\ shown[p][q] # DeepMerge(mem[p]["global"], mem[p]["project"])[q])
         => shown'[p][q] = shown[p][q]]_vars

\* Jobs are microtasks and their calls synchronous: a process that lives goes on with them.
Fairness == \A p \in Procs : WF_vars(Step(p))

Spec == Init /\ [][Next]_vars /\ Fairness
=============================================================================
