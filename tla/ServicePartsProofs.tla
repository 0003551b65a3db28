------------------------- MODULE ServicePartsProofs -------------------------
(***************************************************************************)
(* Two of the eight services, whose proofs are the longest; ServicesProofs *)
(* makes theorems of them.                                                 *)
(*                                                                         *)
(* The settings, for any processes, whatever each sets, and whenever one   *)
(* dies or the disk fills up: an invariant that relates the files, what    *)
(* each process has in memory, its queue of writes and what its setters    *)
(* were given, and what a step of Settings may not do.                     *)
(*                                                                         *)
(* What the bash tool and the executor of the user's commands keep of the  *)
(* output of a command, for all commands, chunks and limits: the lemmas    *)
(* about the folds of module BashOutput (the bytes and lines of a text,    *)
(* the decoder, truncateTail), the inductive invariant, and the proof that *)
(* it implies what is promised of the tail, the totals and the files.      *)
(***************************************************************************)
EXTENDS Services, SequenceLemmas

(***************************************************************************)
(* The settings.                                                           *)
(***************************************************************************)

Scopes == Settings!Scopes
Absent == Settings!Absent
WriteJobs == [kind : {"write"}, scope : Scopes, snapshot : Settings!Settings, fields : SUBSET Paths]
ReloadJobs == [kind : {"reload"}]
Tasks == {Settings!Idle} \cup [stage : {"lock", "write", "fill"}, next : Settings!Settings, created : BOOLEAN]

SettingsTypes ==
    /\ file \in [Scopes -> [text : {"none", "empty", "cut", "whole"}, val : Settings!Settings, raced : BOOLEAN]]
    /\ lock \in [Scopes -> Procs \cup {Settings!Free}]
    /\ alive \in [Procs -> BOOLEAN]
    /\ mem \in [Procs -> [Scopes -> Settings!Settings]]
    /\ modified \in [Procs -> [Scopes -> SUBSET Paths]]
    /\ loadError \in [Procs -> [Scopes -> BOOLEAN]]
    /\ shown \in [Procs -> Settings!Settings]
    /\ queue \in [Procs -> Seq(WriteJobs \cup ReloadJobs)]
    /\ task \in [Procs -> Tasks]
    /\ errors \in [Procs -> SUBSET Scopes]
    /\ asked \in [Procs -> [Scopes -> Settings!Settings]]
    /\ count \in [calls : Nat, faults : Nat]

\* Job job writes setting q of scope s.
WritesTo(job, s, q) == job.kind = "write" /\ job.scope = s /\ q \in job.fields

\* The last of the jobs that writes the setting writes v; when none does, v is in the file.
Holds(jobs, s, q, v, now) ==
    \/ now = v /\ \A i \in DOMAIN jobs : ~WritesTo(jobs[i], s, q)
    \/ \E i \in DOMAIN jobs : /\ WritesTo(jobs[i], s, q) /\ jobs[i].snapshot[q] = v
                              /\ \A j \in DOMAIN jobs : j > i => ~WritesTo(jobs[j], s, q)

\* An empty file is being filled, as long as nothing has failed; no file is no settings.
EmptyIsFilled ==
    \A s \in Scopes : file[s].text = "empty" =>
        count.faults > 0 \/ \E p \in Procs : task[p].stage = "fill" /\ Settings!Job(p).scope = s
NoneIsNothing == \A s \in Scopes : file[s].text = "none" => file[s].val = Settings!NoSettings

\* What p is at.
JobRuns(p) ==
    /\ task[p] # Settings!Idle => alive[p] /\ queue[p] # <<>> /\ Settings!Job(p).kind = "write"
    /\ task[p].stage = "lock" => task[p].created
    /\ ~alive[p] => asked[p] = [s \in Scopes |-> Settings!NoSettings]

\* The writer has the lock, and the file is as it left it.
WriterHasLock(p) ==
    task[p].stage \in {"write", "fill"} =>
        LET s == Settings!Job(p).scope IN
        /\ lock[s] = p
        /\ task[p].stage = "fill" => file[s].text = "empty"
        /\ ~task[p].created => file[s].text # "cut"

\* It writes the fields of its job over what is in the file.
WritesFields(p) ==
    task[p] # Settings!Idle =>
        LET job == Settings!Job(p) IN
        /\ \A q \in job.fields : task[p].next[q] = job.snapshot[q]
        /\ ~task[p].created /\ count.faults = 0 =>
             \A q \in Paths \ job.fields : task[p].next[q] = file[job.scope].val[q]

\* A process changes settings it is asked to.
AskedBy(p, s) == {q \in Paths : ~(\A ask \in Asks[p] : ask[1] # s \/ ask[2] # q)}
FieldsAsked(p) ==
    /\ \A s \in Scopes : modified[p][s] \subseteq AskedBy(p, s)
    /\ \A i \in DOMAIN queue[p] : queue[p][i].kind = "write" => queue[p][i].fields \subseteq AskedBy(p, queue[p][i].scope)

\* Memory and the queue hold what was asked for.
ErrorsAreKept(p) == \A s \in Scopes : loadError[p][s] => s \in errors[p]
MemoryHolds(p) == \A s \in Scopes : \A q \in modified[p][s] :
    asked[p][s][q] # Absent /\ s \notin errors[p] => mem[p][s][q] = asked[p][s][q]
AskedIsKept(p) == \A s \in Scopes, q \in Paths :
    (asked[p][s][q] # Absent /\ s \notin errors[p] /\ Settings!Own(p, s, q) /\ ~file[s].raced /\ count.faults = 0)
        => Holds(queue[p], s, q, asked[p][s][q], file[s].val[q])

ProcessInv(p) ==
    /\ JobRuns(p) /\ WriterHasLock(p) /\ WritesFields(p) /\ FieldsAsked(p)
    /\ ErrorsAreKept(p) /\ MemoryHolds(p) /\ AskedIsKept(p)
SettingsInv == SettingsTypes /\ EmptyIsFilled /\ NoneIsNothing /\ \A p \in Procs : ProcessInv(p)

LEMMA SettingsInvInit == Settings!Init => SettingsInv
<1> SUFFICES ASSUME Settings!Init PROVE SettingsInv
  OBVIOUS
<1>1. SettingsTypes
  BY DEF Settings!Init, SettingsTypes, Scopes, Settings!NoSettings, Settings!Settings, Tasks, Absent, Settings!Absent
<1>2. EmptyIsFilled /\ NoneIsNothing
  BY DEF Settings!Init, EmptyIsFilled, NoneIsNothing, Scopes
<1>3. ASSUME NEW p \in Procs PROVE ProcessInv(p)
  <2>1. JobRuns(p) /\ WriterHasLock(p) /\ WritesFields(p)
    BY DEF Settings!Init, JobRuns, WriterHasLock, WritesFields, Settings!Idle, Scopes
  <2>2. FieldsAsked(p) /\ ErrorsAreKept(p) /\ MemoryHolds(p)
    BY DEF Settings!Init, FieldsAsked, ErrorsAreKept, MemoryHolds, Scopes
  <2>3. AskedIsKept(p)
    BY DEF Settings!Init, AskedIsKept, Scopes, Settings!NoSettings, Absent
  <2> QED
    BY <2>1, <2>2, <2>3 DEF ProcessInv
<1> QED
  BY <1>1, <1>2, <1>3 DEF SettingsInv

\* Another process took a step: it changed its own state, and files it had
\* locked, in settings it is asked to change.
SameFor(r) ==
    /\ alive'[r] = alive[r] /\ mem'[r] = mem[r] /\ modified'[r] = modified[r] /\ loadError'[r] = loadError[r]
    /\ queue'[r] = queue[r] /\ task'[r] = task[r] /\ errors'[r] = errors[r] /\ asked'[r] = asked[r]
Touches(p) ==
    /\ count.faults \in Nat /\ count'.faults \in Nat /\ count'.faults >= count.faults
    /\ \A s \in Scopes :
         /\ lock'[s] # lock[s] => lock[s] \in {Settings!Free, p}
         /\ file'[s] # file[s] => lock[s] = p
         /\ file[s].raced => file'[s].raced
         /\ \A q \in Paths : file'[s].val[q] # file[s].val[q] =>
              q \in AskedBy(p, s) \/ file'[s].raced \/ count'.faults # 0 \/ file[s].val[q] = Absent

LEMMA OthersStay ==
    ASSUME SettingsTypes, NEW p \in Procs, NEW r \in Procs, r # p, ProcessInv(r), SameFor(r), Touches(p)
    PROVE  ProcessInv(r)'
<1>1. JobRuns(r)' /\ FieldsAsked(r)' /\ ErrorsAreKept(r)' /\ MemoryHolds(r)'
  BY DEF ProcessInv, SameFor, JobRuns, FieldsAsked, ErrorsAreKept, MemoryHolds, Settings!Job
<1>2. ASSUME task[r].stage \in {"write", "fill"}
      PROVE  LET s == Settings!Job(r).scope IN s \in Scopes /\ file'[s] = file[s] /\ lock'[s] = r
  <2>1. task[r] # Settings!Idle
    BY <1>2 DEF Settings!Idle
  <2>2. Settings!Job(r) \in WriteJobs
    BY <2>1 DEF ProcessInv, JobRuns, SettingsTypes, Settings!Job, WriteJobs, ReloadJobs
  <2>3. lock[Settings!Job(r).scope] = r /\ Settings!Job(r).scope \in Scopes
    BY <1>2, <2>2 DEF ProcessInv, WriterHasLock, WriteJobs
  <2>4. Settings!Free = Auth!Free
    BY DEF Settings!Free, Auth!Free
  <2> QED
    BY <2>3, <2>4, FreeAssumption DEF Touches
<1>3. WriterHasLock(r)'
  BY <1>2 DEF ProcessInv, SameFor, WriterHasLock, Settings!Job
<1>4. WritesFields(r)'
  <2>1. task[r] \in Tasks
    BY DEF SettingsTypes
  <2>2. task[r] = Settings!Idle \/ task[r].stage \in {"write", "fill"} \/ (task[r].stage = "lock" /\ task[r].created)
    BY <2>1 DEF ProcessInv, JobRuns, Tasks
  <2> QED
    BY <1>2, <2>2 DEF ProcessInv, SameFor, WritesFields, Settings!Job, Touches
<1>5. AskedIsKept(r)'
  <2> SUFFICES ASSUME NEW s \in Scopes, NEW q \in Paths, asked'[r][s][q] # Absent, s \notin errors'[r],
                      Settings!Own(r, s, q), ~file'[s].raced, count'.faults = 0
               PROVE  Holds(queue'[r], s, q, asked'[r][s][q], file'[s].val[q])
    BY DEF AskedIsKept, Settings!Own
  <2>1. Holds(queue[r], s, q, asked[r][s][q], file[s].val[q]) /\ asked[r][s][q] # Absent
    BY DEF ProcessInv, AskedIsKept, SameFor, Touches
  <2>2. q \notin AskedBy(p, s)
    BY DEF Settings!Own, AskedBy
  <2>3. file'[s].val[q] = file[s].val[q] \/ file[s].val[q] = Absent
    BY <2>2 DEF Touches
  <2> QED
    BY <2>1, <2>3 DEF Holds, SameFor
<1> QED
  BY <1>1, <1>3, <1>4, <1>5 DEF ProcessInv

LEMMA MergeTypes ==
    /\ \A base, over \in Settings!Settings : Settings!DeepMerge(base, over) \in Settings!Settings
    /\ \A job \in WriteJobs, now \in Settings!Settings : Settings!Merged(job, now) \in Settings!Settings
    /\ Settings!NoSettings \in Settings!Settings
  BY DEF Settings!DeepMerge, Settings!Merged, Settings!Settings, Settings!NoSettings, WriteJobs

LEMMA ContentType == SettingsTypes => \A s \in Scopes : Settings!Content(s) \in Settings!Settings
  BY MergeTypes DEF SettingsTypes, Settings!Content

\* A setter is called with a setting its process is asked for.
LEMMA AskTypes ==
    ASSUME NEW p \in Procs, NEW ask \in Asks[p]
    PROVE  ask[1] \in Scopes /\ ask[2] \in AskedBy(p, ask[1]) /\ ask[3] \in Values
<1>1. ask \in Scopes \X Paths \X Values
  BY AsksAssumption DEF Scopes
<1> QED
  BY <1>1 DEF AskedBy

\* The job at the head of a queue, and the queue behind it.
LEMMA JobTypes ==
    ASSUME SettingsTypes, NEW p \in Procs, queue[p] # <<>>
    PROVE  /\ Settings!Job(p) \in WriteJobs \cup ReloadJobs /\ Settings!Job(p) = queue[p][1]
           /\ Settings!Job(p).kind = "write" => Settings!Job(p) \in WriteJobs
           /\ Len(queue[p]) \in Nat /\ Len(queue[p]) >= 1 /\ DOMAIN queue[p] = 1 .. Len(queue[p])
           /\ Tail(queue[p]) \in Seq(WriteJobs \cup ReloadJobs) /\ Len(Tail(queue[p])) = Len(queue[p]) - 1
           /\ DOMAIN Tail(queue[p]) = 1 .. Len(queue[p]) - 1
           /\ \A i \in 1 .. Len(queue[p]) - 1 : Tail(queue[p])[i] = queue[p][i + 1]
<1>1. queue[p] \in Seq(WriteJobs \cup ReloadJobs)
  BY DEF SettingsTypes
<1> DEFINE jobs == queue[p]
           T == WriteJobs \cup ReloadJobs
<1>2. jobs \in Seq(T) /\ jobs # <<>> /\ Settings!Job(p) = Head(jobs)
  BY <1>1 DEF Settings!Job
<1> HIDE DEF jobs, T
<1>3. /\ Head(jobs) \in T /\ Head(jobs) = jobs[1] /\ Len(jobs) \in Nat /\ Len(jobs) >= 1 /\ DOMAIN jobs = 1 .. Len(jobs)
      /\ Tail(jobs) \in Seq(T) /\ Len(Tail(jobs)) = Len(jobs) - 1
      /\ DOMAIN Tail(jobs) = 1 .. Len(jobs) - 1
      /\ \A i \in 1 .. Len(jobs) - 1 : Tail(jobs)[i] = jobs[i + 1]
  BY <1>2, HeadAndTail
<1> QED
  BY <1>2, <1>3 DEF jobs, T, WriteJobs, ReloadJobs

LEMMA JobAppended ==
    ASSUME SettingsTypes, NEW p \in Procs, NEW job \in WriteJobs \cup ReloadJobs
    PROVE  LET jobs == Append(queue[p], job) IN
           /\ jobs \in Seq(WriteJobs \cup ReloadJobs)
           /\ Len(queue[p]) \in Nat /\ DOMAIN queue[p] = 1 .. Len(queue[p])
           /\ Len(jobs) = Len(queue[p]) + 1 /\ DOMAIN jobs = 1 .. Len(queue[p]) + 1
           /\ jobs[Len(queue[p]) + 1] = job /\ \A i \in 1 .. Len(queue[p]) : jobs[i] = queue[p][i]
<1>1. queue[p] \in Seq(WriteJobs \cup ReloadJobs)
  BY DEF SettingsTypes
<1> QED
  BY <1>1, AppendElements

\* A job that was worked off has left what it was to write in the file, and
\* one that was not written leaves nothing to write.
LEMMA HoldsInTail ==
    ASSUME SettingsTypes, NEW p \in Procs, queue[p] # <<>>, NEW s, NEW q, NEW v, NEW old, NEW new,
           Holds(queue[p], s, q, v, old),
           WritesTo(Settings!Job(p), s, q) => new = Settings!Job(p).snapshot[q],
           ~WritesTo(Settings!Job(p), s, q) /\ old = v => new = v
    PROVE  Holds(Tail(queue[p]), s, q, v, new)
<1> DEFINE jobs == queue[p]
           n == Len(jobs)
           rest == Tail(jobs)
<1>1. /\ n \in Nat /\ n >= 1 /\ DOMAIN jobs = 1 .. n /\ DOMAIN rest = 1 .. n - 1
      /\ \A i \in 1 .. n - 1 : rest[i] = jobs[i + 1]
      /\ Settings!Job(p) = jobs[1]
  BY JobTypes
<1>2. Holds(jobs, s, q, v, old)
  OBVIOUS
<1> HIDE DEF jobs, n, rest
<1>3. CASE old = v /\ \A i \in DOMAIN jobs : ~WritesTo(jobs[i], s, q)
  <2>1. \A i \in DOMAIN rest : ~WritesTo(rest[i], s, q)
    BY <1>1, <1>3
  <2> QED
    BY <1>1, <1>3, <2>1 DEF Holds, rest, jobs
<1>4. CASE \E i \in DOMAIN jobs : /\ WritesTo(jobs[i], s, q) /\ jobs[i].snapshot[q] = v
                                  /\ \A j \in DOMAIN jobs : j > i => ~WritesTo(jobs[j], s, q)
  <2>1. PICK i \in 1 .. n : /\ WritesTo(jobs[i], s, q) /\ jobs[i].snapshot[q] = v
                            /\ \A j \in 1 .. n : j > i => ~WritesTo(jobs[j], s, q)
    BY <1>1, <1>4
  <2>2. CASE i = 1
    <3>1. new = v
      BY <1>1, <2>1, <2>2
    <3>2. \A j \in DOMAIN rest : ~WritesTo(rest[j], s, q)
      BY <1>1, <2>1, <2>2
    <3> QED
      BY <3>1, <3>2 DEF Holds, rest, jobs
  <2>3. CASE i # 1
    <3>1. i - 1 \in 1 .. n - 1 /\ rest[i - 1] = jobs[i]
      BY <1>1, <2>3
    <3>2. \A j \in DOMAIN rest : j > i - 1 => ~WritesTo(rest[j], s, q)
      BY <1>1, <2>1
    <3>3. \E k \in DOMAIN rest : /\ WritesTo(rest[k], s, q) /\ rest[k].snapshot[q] = v
                                 /\ \A j \in DOMAIN rest : j > k => ~WritesTo(rest[j], s, q)
      BY <1>1, <2>1, <3>1, <3>2
    <3> QED
      BY <3>3 DEF Holds, rest, jobs
  <2> QED
    BY <2>2, <2>3
<1> QED
  BY <1>2, <1>3, <1>4 DEF Holds

\* One more job that writes the setting holds it, one that does not changes nothing.
LEMMA HoldsAppended ==
    ASSUME SettingsTypes, NEW p \in Procs, NEW job \in WriteJobs \cup ReloadJobs, NEW s, NEW q, NEW v, NEW now,
           ~WritesTo(job, s, q) => Holds(queue[p], s, q, v, now),
           WritesTo(job, s, q) => job.snapshot[q] = v
    PROVE  Holds(Append(queue[p], job), s, q, v, now)
<1> DEFINE jobs == queue[p]
           n == Len(jobs)
           more == Append(jobs, job)
<1>1. /\ n \in Nat /\ DOMAIN jobs = 1 .. n /\ DOMAIN more = 1 .. n + 1
      /\ more[n + 1] = job /\ \A i \in 1 .. n : more[i] = jobs[i]
  BY JobAppended
<1> SUFFICES Holds(more, s, q, v, now)
  OBVIOUS
<1>2. ~WritesTo(job, s, q) => Holds(jobs, s, q, v, now)
  OBVIOUS
<1> HIDE DEF jobs, n, more
<1>3. CASE WritesTo(job, s, q)
  <2>1. n + 1 \in DOMAIN more /\ \A j \in DOMAIN more : ~(j > n + 1)
    BY <1>1
  <2> QED
    BY <1>1, <1>3, <2>1 DEF Holds
<1>4. CASE ~WritesTo(job, s, q)
  <2>1. CASE now = v /\ \A i \in DOMAIN jobs : ~WritesTo(jobs[i], s, q)
    <3>1. \A i \in DOMAIN more : ~WritesTo(more[i], s, q)
      BY <1>1, <1>4, <2>1
    <3> QED
      BY <2>1, <3>1 DEF Holds
  <2>2. CASE \E i \in DOMAIN jobs : /\ WritesTo(jobs[i], s, q) /\ jobs[i].snapshot[q] = v
                                    /\ \A j \in DOMAIN jobs : j > i => ~WritesTo(jobs[j], s, q)
    <3>1. PICK i \in 1 .. n : /\ WritesTo(jobs[i], s, q) /\ jobs[i].snapshot[q] = v
                              /\ \A j \in 1 .. n : j > i => ~WritesTo(jobs[j], s, q)
      BY <1>1, <2>2
    <3>2. \A j \in DOMAIN more : j > i => ~WritesTo(more[j], s, q)
      BY <1>1, <1>4, <3>1
    <3>3. i \in DOMAIN more /\ more[i] = jobs[i]
      BY <1>1
    <3> QED
      BY <3>1, <3>2, <3>3 DEF Holds
  <2> QED
    BY <1>2, <1>4, <2>1, <2>2 DEF Holds
<1> QED
  BY <1>3, <1>4

\* A step of p that leaves the files alone.
LEMMA FileStays ==
    ASSUME SettingsInv, NEW p \in Procs, SettingsTypes', file' = file, count'.faults = count.faults,
           task[p].stage # "fill", \A r \in Procs \ {p} : SameFor(r),
           \A s \in Scopes : lock'[s] # lock[s] => lock[s] = Settings!Free,
           ProcessInv(p)'
    PROVE  SettingsInv'
<1>1. Touches(p)
  BY DEF SettingsInv, SettingsTypes, Touches
<1>2. EmptyIsFilled'
  <2> SUFFICES ASSUME NEW s \in Scopes, file[s].text = "empty", ~(count.faults > 0)
               PROVE  \E r \in Procs : task'[r].stage = "fill" /\ Settings!Job(r)'.scope = s
    BY DEF EmptyIsFilled
  <2>1. PICK r \in Procs : task[r].stage = "fill" /\ Settings!Job(r).scope = s
    BY DEF SettingsInv, EmptyIsFilled
  <2>2. r # p /\ SameFor(r)
    BY <2>1
  <2> QED
    BY <2>1, <2>2 DEF SameFor, Settings!Job
<1>3. NoneIsNothing'
  BY DEF SettingsInv, NoneIsNothing
<1>4. ASSUME NEW r \in Procs PROVE ProcessInv(r)'
  BY <1>1, OthersStay DEF SettingsInv
<1> QED
  BY <1>2, <1>3, <1>4 DEF SettingsInv

LEMMA StartKeeps ==
    ASSUME SettingsInv, NEW p \in Procs, Settings!Start(p) PROVE SettingsInv'
<1>1. SettingsTypes /\ ProcessInv(p)
  BY DEF SettingsInv
<1>2. PICK bad \in SUBSET Scopes :
        LET loaded == [s \in Scopes |-> IF s \in bad THEN Settings!NoSettings ELSE Settings!Content(s)] IN
        /\ mem' = [mem EXCEPT ![p] = loaded]
        /\ loadError' = [loadError EXCEPT ![p] = [s \in Scopes |-> s \in bad]]
        /\ shown' = [shown EXCEPT ![p] = Settings!DeepMerge(loaded["global"], loaded["project"])]
        /\ errors' = [errors EXCEPT ![p] = bad]
  BY DEF Settings!Start, Scopes
<1>3. /\ ~alive[p] /\ alive' = [alive EXCEPT ![p] = TRUE]
      /\ UNCHANGED <<file, lock, modified, queue, task, asked, count>>
  BY DEF Settings!Start
<1> DEFINE loaded == [s \in Scopes |-> IF s \in bad THEN Settings!NoSettings ELSE Settings!Content(s)]
<1>4. loaded \in [Scopes -> Settings!Settings] /\ Settings!DeepMerge(loaded["global"], loaded["project"]) \in Settings!Settings
  <2>1. loaded \in [Scopes -> Settings!Settings]
    BY <1>1, MergeTypes, ContentType
  <2>2. "global" \in Scopes /\ "project" \in Scopes
    BY DEF Scopes, Settings!Scopes
  <2> HIDE DEF loaded
  <2> QED
    BY <2>1, <2>2, MergeTypes
<1> HIDE DEF loaded
<1>5. SettingsTypes'
  BY <1>1, <1>2, <1>3, <1>4 DEF SettingsTypes, loaded
<1>6. \A r \in Procs \ {p} : SameFor(r)
  BY <1>1, <1>2, <1>3 DEF SettingsTypes, SameFor
<1>7. task[p] = Settings!Idle /\ asked[p] = [s \in Scopes |-> Settings!NoSettings]
  BY <1>1, <1>3 DEF ProcessInv, JobRuns
<1>8. alive'[p] /\ loadError'[p] = [s \in Scopes |-> s \in bad] /\ errors'[p] = bad
  BY <1>1, <1>2, <1>3 DEF SettingsTypes
<1>9. ProcessInv(p)'
  <2>1. JobRuns(p)' /\ WriterHasLock(p)' /\ WritesFields(p)'
    BY <1>3, <1>7, <1>8 DEF JobRuns, WriterHasLock, WritesFields, Settings!Idle
  <2>2. FieldsAsked(p)' /\ ErrorsAreKept(p)'
    BY <1>1, <1>3, <1>8 DEF ProcessInv, FieldsAsked, ErrorsAreKept
  <2>3. \A s \in Scopes, q \in Paths : asked'[p][s][q] = Absent
    BY <1>3, <1>7 DEF Settings!NoSettings, Absent
  <2>4. MemoryHolds(p)' /\ AskedIsKept(p)'
    BY <1>1, <1>3, <2>3 DEF MemoryHolds, AskedIsKept, SettingsTypes
  <2> QED
    BY <2>1, <2>2, <2>4 DEF ProcessInv
<1> QED
  BY <1>3, <1>5, <1>6, <1>7, <1>9, FileStays DEF Settings!Idle

LEMMA SetKeeps ==
    ASSUME SettingsInv, NEW p \in Procs, NEW s \in Scopes, NEW q \in AskedBy(p, s), NEW v \in Values,
           Settings!Set(p, s, q, v)
    PROVE  SettingsInv'
<1> DEFINE now == [mem[p] EXCEPT ![s][q] = v]
           changed == modified[p][s] \cup {q}
           job == [kind |-> "write", scope |-> s, snapshot |-> now[s], fields |-> changed]
<1>1. SettingsTypes /\ ProcessInv(p)
  BY DEF SettingsInv
<1>2. /\ alive[p] /\ task[p] = Settings!Idle
      /\ mem' = [mem EXCEPT ![p] = now]
      /\ modified' = [modified EXCEPT ![p][s] = changed]
      /\ shown' = [shown EXCEPT ![p] = Settings!DeepMerge(now["global"], now["project"])]
      /\ queue' = IF loadError[p][s] THEN queue ELSE [queue EXCEPT ![p] = Append(@, job)]
      /\ asked' = IF loadError[p][s] THEN asked ELSE [asked EXCEPT ![p][s][q] = v]
      /\ count' = [count EXCEPT !.calls = @ + 1]
      /\ UNCHANGED <<file, lock, alive, loadError, task, errors>>
  BY DEF Settings!Set, Settings!Ready
<1>3. q \in Paths
  BY DEF AskedBy
<1>4. now \in [Scopes -> Settings!Settings] /\ changed \in SUBSET Paths /\ modified[p] \in [Scopes -> SUBSET Paths]
  BY <1>1, <1>3 DEF SettingsTypes, Settings!Settings
<1>5. now[s] = [mem[p][s] EXCEPT ![q] = v] /\ now[s][q] = v /\ \A t \in Scopes \ {s} : now[t] = mem[p][t]
  <2>1. mem[p] \in [Scopes -> Settings!Settings] /\ mem[p][s] \in [Paths -> Values \cup {Settings!Absent}]
    BY <1>1 DEF SettingsTypes, Settings!Settings
  <2> QED
    BY <1>3, <2>1
<1>6. job \in WriteJobs
  BY <1>4 DEF WriteJobs
<1>7. Settings!DeepMerge(now["global"], now["project"]) \in Settings!Settings
  <2>1. "global" \in Scopes /\ "project" \in Scopes
    BY DEF Scopes, Settings!Scopes
  <2> HIDE DEF now
  <2> QED
    BY <1>4, <2>1, MergeTypes
<1> HIDE DEF now, changed, job
<1>8. /\ Append(queue[p], job) \in Seq(WriteJobs \cup ReloadJobs)
      /\ \A i \in DOMAIN Append(queue[p], job) : Append(queue[p], job)[i] = job \/ (i \in DOMAIN queue[p] /\ Append(queue[p], job)[i] = queue[p][i])
  BY <1>1, <1>6, JobAppended
<1>9. /\ mem'[p] = now /\ modified'[p] = [modified[p] EXCEPT ![s] = changed]
      /\ queue'[p] = IF loadError[p][s] THEN queue[p] ELSE Append(queue[p], job)
      /\ asked'[p] = IF loadError[p][s] THEN asked[p] ELSE [asked[p] EXCEPT ![s][q] = v]
      /\ errors'[p] = errors[p] /\ count'.faults = count.faults
  BY <1>1, <1>2 DEF SettingsTypes
<1>10. \A t \in Scopes, k \in Paths : (t # s \/ k # q) => asked'[p][t][k] = asked[p][t][k]
  BY <1>1, <1>9 DEF SettingsTypes, Settings!Settings
<1>11. ~loadError[p][s] => asked'[p][s][q] = v
  BY <1>1, <1>3, <1>9 DEF SettingsTypes, Settings!Settings
<1>12. SettingsTypes'
  <2>1. modified' \in [Procs -> [Scopes -> SUBSET Paths]]
    BY <1>1, <1>2, <1>4 DEF SettingsTypes
  <2>2. asked' \in [Procs -> [Scopes -> Settings!Settings]]
    BY <1>1, <1>2, <1>3 DEF SettingsTypes, Settings!Settings
  <2>3. queue' \in [Procs -> Seq(WriteJobs \cup ReloadJobs)]
    BY <1>1, <1>2, <1>8 DEF SettingsTypes
  <2>4. mem' \in [Procs -> [Scopes -> Settings!Settings]] /\ shown' \in [Procs -> Settings!Settings]
    BY <1>1, <1>2, <1>4, <1>7 DEF SettingsTypes
  <2>5. count' \in [calls : Nat, faults : Nat]
    <3>1. count \in [calls : Nat, faults : Nat]
      BY <1>1 DEF SettingsTypes
    <3> QED
      BY <1>2, <3>1
  <2> QED
    BY <1>1, <1>2, <2>1, <2>2, <2>3, <2>4, <2>5 DEF SettingsTypes
<1>13. \A r \in Procs \ {p} : SameFor(r)
  BY <1>1, <1>2 DEF SettingsTypes, SameFor
<1>14. ProcessInv(p)'
  <2>1. JobRuns(p)' /\ WriterHasLock(p)' /\ WritesFields(p)'
    BY <1>1, <1>2 DEF JobRuns, WriterHasLock, WritesFields, Settings!Idle
  <2>2. changed \subseteq AskedBy(p, s)
    BY <1>1 DEF changed, ProcessInv, FieldsAsked
  <2>3. ErrorsAreKept(p)'
    BY <1>1, <1>2 DEF ProcessInv, ErrorsAreKept
  <2>4. \A t \in Scopes : modified'[p][t] = IF t = s THEN changed ELSE modified[p][t]
    BY <1>4, <1>9
  <2>5. FieldsAsked(p)'
    <3>1. \A t \in Scopes : modified'[p][t] \subseteq AskedBy(p, t)
      BY <1>1, <2>2, <2>4 DEF ProcessInv, FieldsAsked
    <3>2. ASSUME NEW i \in DOMAIN queue'[p], queue'[p][i].kind = "write"
          PROVE  queue'[p][i].fields \subseteq AskedBy(p, queue'[p][i].scope)
      <4>1. queue'[p][i] = job \/ (i \in DOMAIN queue[p] /\ queue'[p][i] = queue[p][i])
        BY <1>8, <1>9, <3>2
      <4> QED
        BY <1>1, <2>2, <3>2, <4>1 DEF ProcessInv, FieldsAsked, job
    <3> QED
      BY <3>1, <3>2 DEF FieldsAsked, AskedBy
  <2>6. MemoryHolds(p)'
    <3> SUFFICES ASSUME NEW t \in Scopes, NEW k \in modified'[p][t], asked'[p][t][k] # Absent, t \notin errors'[p]
                 PROVE  mem'[p][t][k] = asked'[p][t][k]
      BY DEF MemoryHolds
    <3>1. k \in Paths /\ t \notin errors[p] /\ ~loadError[p][t]
      BY <1>1, <1>4, <1>9, <2>4 DEF SettingsTypes, ProcessInv, ErrorsAreKept
    <3>2. CASE t = s /\ k = q
      BY <1>5, <1>9, <1>11, <3>1, <3>2
    <3>3. CASE t # s \/ k # q
      <4>1. k \in modified[p][t] /\ asked'[p][t][k] = asked[p][t][k]
        BY <1>10, <2>4, <3>1, <3>3 DEF changed
      <4>2. now[t][k] = mem[p][t][k]
        BY <1>1, <1>5, <3>1, <3>3 DEF SettingsTypes, Settings!Settings
      <4> QED
        BY <1>1, <1>9, <3>1, <4>1, <4>2 DEF ProcessInv, MemoryHolds
    <3> QED
      BY <3>2, <3>3
  <2>7. AskedIsKept(p)'
    <3> SUFFICES ASSUME NEW t \in Scopes, NEW k \in Paths, asked'[p][t][k] # Absent, t \notin errors[p],
                        Settings!Own(p, t, k), ~file[t].raced, count.faults = 0
                 PROVE  Holds(queue'[p], t, k, asked'[p][t][k], file[t].val[k])
      BY <1>2, <1>9 DEF AskedIsKept, Settings!Own
    <3>1. ~loadError[p][t]
      BY <1>1 DEF ProcessInv, ErrorsAreKept
    <3>2. CASE loadError[p][s]
      <4>1. t # s /\ asked'[p] = asked[p] /\ queue'[p] = queue[p]
        BY <1>9, <3>1, <3>2
      <4> QED
        BY <1>1, <4>1 DEF ProcessInv, AskedIsKept
    <3>3. CASE ~loadError[p][s]
      <4>1. WritesTo(job, t, k) => job.snapshot[k] = asked'[p][t][k]
        <5> SUFFICES ASSUME t = s, k \in changed PROVE now[s][k] = asked'[p][s][k]
          BY DEF WritesTo, job
        <5> QED
          BY <1>9, <2>4, <2>6 DEF MemoryHolds
      <4>2. ~WritesTo(job, t, k) => Holds(queue[p], t, k, asked'[p][t][k], file[t].val[k])
        <5>1. ASSUME ~WritesTo(job, t, k) PROVE t # s \/ k # q
          BY <5>1 DEF WritesTo, job, changed
        <5>2. ASSUME t # s \/ k # q PROVE Holds(queue[p], t, k, asked[p][t][k], file[t].val[k])
          BY <1>1, <1>10, <5>2 DEF ProcessInv, AskedIsKept
        <5> QED
          BY <1>10, <5>1, <5>2
      <4> DEFINE value == asked'[p][t][k]
                 stored == file[t].val[k]
      <4>3. job \in WriteJobs \cup ReloadJobs
        BY <1>6
      <4> HIDE DEF value, stored
      <4>4. Holds(Append(queue[p], job), t, k, value, stored)
        BY <1>1, <4>1, <4>2, <4>3, HoldsAppended DEF value, stored
      <4> QED
        BY <1>9, <3>3, <4>4 DEF value, stored
    <3> QED
      BY <3>2, <3>3
  <2> QED
    BY <2>1, <2>3, <2>5, <2>6, <2>7 DEF ProcessInv
<1> QED
  BY <1>2, <1>9, <1>12, <1>13, <1>14, FileStays DEF Settings!Idle

LEMMA OverrideKeeps ==
    ASSUME SettingsInv, NEW p \in Procs, NEW q \in Paths, NEW v \in Values, Settings!ApplyOverrides(p, q, v)
    PROVE  SettingsInv'
<1>1. SettingsTypes /\ ProcessInv(p)
  BY DEF SettingsInv
<1>2. /\ task[p] = Settings!Idle /\ shown' = [shown EXCEPT ![p][q] = v] /\ count' = [count EXCEPT !.calls = @ + 1]
      /\ UNCHANGED <<file, lock, alive, mem, modified, loadError, queue, task, errors, asked>>
  BY DEF Settings!ApplyOverrides, Settings!Ready
<1>3. count \in [calls : Nat, faults : Nat] /\ shown \in [Procs -> [Paths -> Values \cup {Settings!Absent}]]
  BY <1>1 DEF SettingsTypes, Settings!Settings
<1>4. count' \in [calls : Nat, faults : Nat] /\ count'.faults = count.faults
  BY <1>2, <1>3
<1>5. shown' \in [Procs -> [Paths -> Values \cup {Settings!Absent}]]
  BY <1>2, <1>3
<1>6. SettingsTypes'
  BY <1>1, <1>2, <1>4, <1>5 DEF SettingsTypes, Settings!Settings
<1>7. \A r \in Procs : SameFor(r)
  BY <1>2 DEF SameFor
<1>8. ProcessInv(p)'
  BY <1>1, <1>2, <1>4 DEF ProcessInv, JobRuns, WriterHasLock, WritesFields, FieldsAsked, ErrorsAreKept, MemoryHolds,
     AskedIsKept, Settings!Job, Settings!Own
<1> QED
  BY <1>2, <1>4, <1>6, <1>7, <1>8, FileStays DEF Settings!Idle

LEMMA ReloadKeeps ==
    ASSUME SettingsInv, NEW p \in Procs, Settings!Reload(p)
    PROVE  SettingsInv'
<1> DEFINE job == [kind |-> "reload"]
<1>1. SettingsTypes /\ ProcessInv(p)
  BY DEF SettingsInv
<1>2. /\ task[p] = Settings!Idle /\ queue' = [queue EXCEPT ![p] = Append(@, job)] /\ count' = [count EXCEPT !.calls = @ + 1]
      /\ UNCHANGED <<file, lock, alive, mem, modified, loadError, shown, task, errors, asked>>
  BY DEF Settings!Reload, Settings!Ready
<1>3. job \in WriteJobs \cup ReloadJobs /\ job.kind # "write"
  BY DEF ReloadJobs
<1> HIDE DEF job
<1>4. count \in [calls : Nat, faults : Nat] /\ queue \in [Procs -> Seq(WriteJobs \cup ReloadJobs)]
  BY <1>1 DEF SettingsTypes
<1>5. count' \in [calls : Nat, faults : Nat] /\ count'.faults = count.faults
  BY <1>2, <1>4
<1>6. /\ Append(queue[p], job) \in Seq(WriteJobs \cup ReloadJobs)
      /\ \A i \in DOMAIN Append(queue[p], job) : Append(queue[p], job)[i] = job \/ (i \in DOMAIN queue[p] /\ Append(queue[p], job)[i] = queue[p][i])
  BY <1>1, <1>3, JobAppended
<1>7. queue'[p] = Append(queue[p], job) /\ queue' \in [Procs -> Seq(WriteJobs \cup ReloadJobs)]
  BY <1>2, <1>4, <1>6
<1>8. SettingsTypes'
  BY <1>1, <1>2, <1>5, <1>7 DEF SettingsTypes
<1>9. \A r \in Procs \ {p} : SameFor(r)
  BY <1>2, <1>4 DEF SameFor
<1>10. ProcessInv(p)'
  <2>1. JobRuns(p)' /\ WriterHasLock(p)' /\ WritesFields(p)' /\ ErrorsAreKept(p)' /\ MemoryHolds(p)'
    BY <1>1, <1>2 DEF ProcessInv, JobRuns, WriterHasLock, WritesFields, ErrorsAreKept, MemoryHolds, Settings!Idle
  <2>2. FieldsAsked(p)'
    <3> SUFFICES ASSUME NEW i \in DOMAIN queue'[p], queue'[p][i].kind = "write"
                 PROVE  queue'[p][i].fields \subseteq AskedBy(p, queue'[p][i].scope)
      BY <1>1, <1>2 DEF ProcessInv, FieldsAsked, AskedBy
    <3>1. i \in DOMAIN queue[p] /\ queue'[p][i] = queue[p][i]
      BY <1>3, <1>6, <1>7
    <3> QED
      BY <1>1, <3>1 DEF ProcessInv, FieldsAsked
  <2>3. AskedIsKept(p)'
    <3> SUFFICES ASSUME NEW s \in Scopes, NEW q \in Paths, asked[p][s][q] # Absent, s \notin errors[p],
                        Settings!Own(p, s, q), ~file[s].raced, count.faults = 0
                 PROVE  Holds(Append(queue[p], job), s, q, asked[p][s][q], file[s].val[q])
      BY <1>2, <1>5, <1>7 DEF AskedIsKept, Settings!Own
    <3> DEFINE value == asked[p][s][q]
               stored == file[s].val[q]
    <3>1. Holds(queue[p], s, q, value, stored)
      BY <1>1 DEF ProcessInv, AskedIsKept
    <3>2. ~WritesTo(job, s, q)
      BY <1>3 DEF WritesTo
    <3> HIDE DEF value, stored
    <3>3. Holds(Append(queue[p], job), s, q, value, stored)
      BY <1>1, <1>3, <3>1, <3>2, HoldsAppended
    <3> QED
      BY <3>3 DEF value, stored
  <2> QED
    BY <2>1, <2>2, <2>3 DEF ProcessInv
<1> QED
  BY <1>2, <1>5, <1>8, <1>9, <1>10, FileStays DEF Settings!Idle

\* The job at the head is done with, or has failed and left its error.
LEMMA JobDropped ==
    ASSUME SettingsTypes, NEW p \in Procs, ProcessInv(p), queue[p] # <<>>,
           queue'[p] = Tail(queue[p]), asked'[p] = asked[p], file' = file, count'.faults = count.faults,
           errors[p] \subseteq errors'[p],
           Settings!Job(p).kind = "write" => Settings!Job(p).scope \in errors'[p]
    PROVE  /\ AskedIsKept(p)'
           /\ \A i \in DOMAIN queue'[p] : queue'[p][i].kind = "write" => queue'[p][i].fields \subseteq AskedBy(p, queue'[p][i].scope)
<1>1. AskedIsKept(p)'
  <2> SUFFICES ASSUME NEW s \in Scopes, NEW q \in Paths, asked[p][s][q] # Absent, s \notin errors'[p],
                      Settings!Own(p, s, q), ~file[s].raced, count.faults = 0
               PROVE  Holds(Tail(queue[p]), s, q, asked[p][s][q], file[s].val[q])
    BY DEF AskedIsKept, Settings!Own
  <2> DEFINE value == asked[p][s][q]
             stored == file[s].val[q]
  <2>1. Holds(queue[p], s, q, value, stored)
    BY DEF ProcessInv, AskedIsKept
  <2>2. ~WritesTo(Settings!Job(p), s, q)
    BY DEF WritesTo
  <2> HIDE DEF value, stored
  <2>3. Holds(Tail(queue[p]), s, q, value, stored)
    BY <2>1, <2>2, HoldsInTail
  <2> QED
    BY <2>3 DEF value, stored
<1>2. ASSUME NEW i \in DOMAIN queue'[p], queue'[p][i].kind = "write"
      PROVE  queue'[p][i].fields \subseteq AskedBy(p, queue'[p][i].scope)
  <2>1. i + 1 \in DOMAIN queue[p] /\ queue'[p][i] = queue[p][i + 1]
    BY <1>2, JobTypes
  <2> QED
    BY <1>2, <2>1 DEF ProcessInv, FieldsAsked
<1> QED
  BY <1>1, <1>2

LEMMA FinishReloadKeeps ==
    ASSUME SettingsInv, NEW p \in Procs, Settings!FinishReload(p)
    PROVE  SettingsInv'
<1>1. SettingsTypes /\ ProcessInv(p)
  BY DEF SettingsInv
<1>2. PICK bad \in SUBSET Scopes :
        LET loaded == [s \in Scopes |-> IF s \in bad THEN mem[p][s] ELSE Settings!Content(s)] IN
        /\ mem' = [mem EXCEPT ![p] = loaded]
        /\ loadError' = [loadError EXCEPT ![p] = [s \in Scopes |-> s \in bad]]
        /\ shown' = [shown EXCEPT ![p] = Settings!DeepMerge(loaded["global"], loaded["project"])]
        /\ errors' = [errors EXCEPT ![p] = @ \cup bad]
  BY DEF Settings!FinishReload, Scopes
<1>3. /\ alive[p] /\ task[p] = Settings!Idle /\ queue[p] # <<>> /\ Settings!Job(p).kind = "reload"
      /\ modified' = [modified EXCEPT ![p] = [s \in Scopes |-> {}]]
      /\ queue' = [queue EXCEPT ![p] = Tail(@)]
      /\ UNCHANGED <<file, lock, alive, task, asked, count>>
  BY DEF Settings!FinishReload, Settings!Ready, Settings!Job, Scopes
<1> DEFINE loaded == [s \in Scopes |-> IF s \in bad THEN mem[p][s] ELSE Settings!Content(s)]
<1>4. loaded \in [Scopes -> Settings!Settings] /\ Settings!DeepMerge(loaded["global"], loaded["project"]) \in Settings!Settings
  <2>1. loaded \in [Scopes -> Settings!Settings]
    BY <1>1, ContentType DEF SettingsTypes
  <2>2. "global" \in Scopes /\ "project" \in Scopes
    BY DEF Scopes, Settings!Scopes
  <2> HIDE DEF loaded
  <2> QED
    BY <2>1, <2>2, MergeTypes
<1> HIDE DEF loaded
<1>5. Tail(queue[p]) \in Seq(WriteJobs \cup ReloadJobs)
  BY <1>1, <1>3, JobTypes
<1>6. SettingsTypes'
  BY <1>1, <1>2, <1>3, <1>4, <1>5 DEF SettingsTypes, loaded
<1>7. \A r \in Procs \ {p} : SameFor(r)
  BY <1>1, <1>2, <1>3 DEF SettingsTypes, SameFor
<1>8. /\ queue'[p] = Tail(queue[p]) /\ loadError'[p] = [s \in Scopes |-> s \in bad] /\ errors'[p] = errors[p] \cup bad
      /\ modified'[p] = [s \in Scopes |-> {}]
  BY <1>1, <1>2, <1>3 DEF SettingsTypes
<1>9. ProcessInv(p)'
  <2>1. JobRuns(p)' /\ WriterHasLock(p)' /\ WritesFields(p)'
    BY <1>1, <1>3 DEF JobRuns, WriterHasLock, WritesFields, Settings!Idle
  <2>2. ErrorsAreKept(p)' /\ MemoryHolds(p)'
    BY <1>8 DEF ErrorsAreKept, MemoryHolds
  <2>3. /\ AskedIsKept(p)'
        /\ \A i \in DOMAIN queue'[p] : queue'[p][i].kind = "write" => queue'[p][i].fields \subseteq AskedBy(p, queue'[p][i].scope)
    BY <1>1, <1>3, <1>8, JobDropped
  <2>4. FieldsAsked(p)'
    BY <1>8, <2>3 DEF FieldsAsked, AskedBy
  <2> QED
    BY <2>1, <2>2, <2>3, <2>4 DEF ProcessInv
<1> QED
  BY <1>3, <1>6, <1>7, <1>9, FileStays DEF Settings!Idle

LEMMA OpenKeeps ==
    ASSUME SettingsInv, NEW p \in Procs, Settings!Open(p)
    PROVE  SettingsInv'
<1> DEFINE job == Settings!Job(p)
           s == job.scope
           next == Settings!Merged(job, Settings!Content(s))
           now == [stage |-> "write", next |-> next, created |-> FALSE]
<1>1. SettingsTypes /\ ProcessInv(p) /\ EmptyIsFilled
  BY DEF SettingsInv
<1>2. /\ alive[p] /\ task[p] = Settings!Idle /\ queue[p] # <<>> /\ job.kind = "write"
      /\ file[s].text # "none" /\ lock[s] = Settings!Free /\ file[s].text # "cut"
      /\ lock' = [lock EXCEPT ![s] = p] /\ task' = [task EXCEPT ![p] = now]
      /\ UNCHANGED <<file, alive, mem, modified, loadError, shown, queue, errors, asked, count>>
  BY DEF Settings!Open, Settings!Writing, Settings!Ready, Settings!Job, Settings!Parses
<1>3. job \in WriteJobs /\ s \in Scopes
  BY <1>1, <1>2, JobTypes DEF WriteJobs
<1>4. next \in Settings!Settings
  BY <1>1, <1>3, ContentType, MergeTypes
<1>5. /\ \A q \in job.fields : next[q] = job.snapshot[q]
      /\ \A q \in Paths \ job.fields : next[q] = Settings!Content(s)[q]
  BY <1>3 DEF Settings!Merged, WriteJobs
<1>6. count.faults = 0 => Settings!Content(s) = file[s].val
  <2> SUFFICES ASSUME count.faults = 0 PROVE file[s].text = "whole"
    BY DEF Settings!Content
  <2>1. ASSUME file[s].text = "empty" PROVE FALSE
    <3>1. PICK r \in Procs : task[r].stage = "fill" /\ Settings!Job(r).scope = s
      BY <1>1, <1>3, <2>1 DEF EmptyIsFilled
    <3>2. lock[s] = r
      BY <3>1 DEF SettingsInv, ProcessInv, WriterHasLock
    <3>3. Settings!Free = Auth!Free
      BY DEF Settings!Free, Auth!Free
    <3> QED
      BY <1>2, <3>2, <3>3, FreeAssumption
  <2> QED
    BY <1>1, <1>2, <1>3, <2>1 DEF SettingsTypes
<1> HIDE DEF next, s
<1>7. now \in Tasks
  BY <1>4 DEF Tasks
<1>8. /\ task'[p] = now /\ lock'[s] = p /\ SettingsTypes'
  BY <1>1, <1>2, <1>3, <1>7 DEF SettingsTypes
<1>9. \A r \in Procs \ {p} : SameFor(r)
  BY <1>1, <1>2 DEF SettingsTypes, SameFor
<1>10. \A t \in Scopes : lock'[t] # lock[t] => lock[t] = Settings!Free
  BY <1>1, <1>2, <1>3 DEF SettingsTypes
<1>11. Settings!Job(p)' = job
  BY <1>2 DEF Settings!Job
<1> HIDE DEF job
<1>12. ProcessInv(p)'
  <2>1. JobRuns(p)'
    BY <1>2, <1>8, <1>11 DEF JobRuns
  <2>2. WriterHasLock(p)'
    BY <1>2, <1>8, <1>11 DEF WriterHasLock, s
  <2>3. WritesFields(p)'
    BY <1>2, <1>5, <1>6, <1>8, <1>11 DEF WritesFields, s
  <2>4. FieldsAsked(p)' /\ ErrorsAreKept(p)' /\ MemoryHolds(p)' /\ AskedIsKept(p)'
    BY <1>1, <1>2 DEF ProcessInv, FieldsAsked, ErrorsAreKept, MemoryHolds, AskedIsKept, AskedBy, Settings!Own
  <2> QED
    BY <2>1, <2>2, <2>3, <2>4 DEF ProcessInv
<1> QED
  BY <1>2, <1>8, <1>9, <1>10, <1>12, FileStays DEF Settings!Idle

LEMMA OpenMissingKeeps ==
    ASSUME SettingsInv, NEW p \in Procs, Settings!OpenMissing(p)
    PROVE  SettingsInv'
<1> DEFINE job == Settings!Job(p)
           next == Settings!Merged(job, Settings!NoSettings)
           now == [stage |-> "lock", next |-> next, created |-> TRUE]
<1>1. SettingsTypes /\ ProcessInv(p)
  BY DEF SettingsInv
<1>2. /\ alive[p] /\ task[p] = Settings!Idle /\ queue[p] # <<>> /\ job.kind = "write"
      /\ task' = [task EXCEPT ![p] = now]
      /\ UNCHANGED <<file, lock, alive, mem, modified, loadError, shown, queue, errors, asked, count>>
  BY DEF Settings!OpenMissing, Settings!Writing, Settings!Ready, Settings!Job
<1>3. job \in WriteJobs
  BY <1>1, <1>2, JobTypes
<1>4. next \in Settings!Settings /\ \A q \in job.fields : next[q] = job.snapshot[q]
  BY <1>3, MergeTypes DEF Settings!Merged, WriteJobs
<1> HIDE DEF next
<1>5. now \in Tasks
  BY <1>4 DEF Tasks
<1>6. task'[p] = now /\ SettingsTypes'
  BY <1>1, <1>2, <1>5 DEF SettingsTypes
<1>7. \A r \in Procs \ {p} : SameFor(r)
  BY <1>1, <1>2 DEF SettingsTypes, SameFor
<1>8. Settings!Job(p)' = job
  BY <1>2 DEF Settings!Job
<1> HIDE DEF job
<1>9. ProcessInv(p)'
  <2>1. JobRuns(p)' /\ WriterHasLock(p)'
    BY <1>2, <1>6, <1>8 DEF JobRuns, WriterHasLock
  <2>2. WritesFields(p)'
    BY <1>4, <1>6, <1>8 DEF WritesFields
  <2>3. FieldsAsked(p)' /\ ErrorsAreKept(p)' /\ MemoryHolds(p)' /\ AskedIsKept(p)'
    BY <1>1, <1>2 DEF ProcessInv, FieldsAsked, ErrorsAreKept, MemoryHolds, AskedIsKept, AskedBy, Settings!Own
  <2> QED
    BY <2>1, <2>2, <2>3 DEF ProcessInv
<1> QED
  BY <1>2, <1>6, <1>7, <1>9, FileStays DEF Settings!Idle

\* The job of a task, and its scope.
LEMMA WriterTypes ==
    ASSUME SettingsTypes, NEW p \in Procs, ProcessInv(p), task[p].stage \in {"lock", "write", "fill"}
    PROVE  /\ task[p] \in [stage : {"lock", "write", "fill"}, next : Settings!Settings, created : BOOLEAN]
           /\ task[p] # Settings!Idle /\ alive[p] /\ queue[p] # <<>>
           /\ Settings!Job(p) \in WriteJobs /\ Settings!Job(p).kind = "write" /\ Settings!Job(p).scope \in Scopes
<1>1. task[p] # Settings!Idle /\ task[p] \in Tasks
  BY DEF Settings!Idle, SettingsTypes
<1>2. task[p] \in [stage : {"lock", "write", "fill"}, next : Settings!Settings, created : BOOLEAN]
  BY <1>1 DEF Tasks
<1>3. queue[p] # <<>> /\ Settings!Job(p).kind = "write" /\ alive[p]
  BY <1>1 DEF ProcessInv, JobRuns
<1>4. Settings!Job(p) \in WriteJobs
  BY <1>3, JobTypes
<1> QED
  BY <1>1, <1>2, <1>3, <1>4 DEF WriteJobs

LEMMA LockLateKeeps ==
    ASSUME SettingsInv, NEW p \in Procs, Settings!LockLate(p)
    PROVE  SettingsInv'
<1> DEFINE job == Settings!Job(p)
           s == job.scope
           now == [task[p] EXCEPT !.stage = "write"]
<1>1. SettingsTypes /\ ProcessInv(p)
  BY DEF SettingsInv
<1>2. /\ alive[p] /\ task[p].stage = "lock" /\ lock[s] = Settings!Free
      /\ lock' = [lock EXCEPT ![s] = p] /\ task' = [task EXCEPT ![p] = now]
      /\ UNCHANGED <<file, alive, mem, modified, loadError, shown, queue, errors, asked, count>>
  BY DEF Settings!LockLate
<1>3. /\ task[p] \in [stage : {"lock", "write", "fill"}, next : Settings!Settings, created : BOOLEAN]
      /\ job \in WriteJobs /\ job.kind = "write" /\ s \in Scopes /\ task[p] # Settings!Idle /\ queue[p] # <<>> /\ task[p].created
  BY <1>1, <1>2, WriterTypes DEF ProcessInv, JobRuns
<1>4. /\ now \in [stage : {"lock", "write", "fill"}, next : Settings!Settings, created : BOOLEAN]
      /\ now.stage = "write" /\ now.next = task[p].next /\ now.created
  BY <1>3
<1> HIDE DEF now, s
<1>5. task'[p] = now /\ lock'[s] = p /\ SettingsTypes'
  BY <1>1, <1>2, <1>3, <1>4 DEF SettingsTypes, Tasks
<1>6. \A r \in Procs \ {p} : SameFor(r)
  BY <1>1, <1>2 DEF SettingsTypes, SameFor
<1>7. \A t \in Scopes : lock'[t] # lock[t] => lock[t] = Settings!Free
  BY <1>1, <1>2, <1>3 DEF SettingsTypes
<1>8. Settings!Job(p)' = job
  BY <1>2 DEF Settings!Job
<1> HIDE DEF job
<1>9. ProcessInv(p)'
  <2>1. JobRuns(p)' /\ WriterHasLock(p)'
    BY <1>2, <1>3, <1>4, <1>5, <1>8 DEF JobRuns, WriterHasLock, s
  <2>2. WritesFields(p)'
    BY <1>1, <1>3, <1>4, <1>5, <1>8 DEF WritesFields, ProcessInv, job
  <2>3. FieldsAsked(p)' /\ ErrorsAreKept(p)' /\ MemoryHolds(p)' /\ AskedIsKept(p)'
    BY <1>1, <1>2 DEF ProcessInv, FieldsAsked, ErrorsAreKept, MemoryHolds, AskedIsKept, AskedBy, Settings!Own
  <2> QED
    BY <2>1, <2>2, <2>3 DEF ProcessInv
<1> QED
  BY <1>2, <1>5, <1>6, <1>7, <1>9, FileStays

\* What a job that throws leaves of its process.
LEMMA FailedLeaves ==
    ASSUME SettingsInv, NEW p \in Procs, alive[p], queue[p] # <<>>, Settings!Job(p).kind = "write", Settings!Failed(p),
           UNCHANGED <<alive, mem, modified, loadError, shown, asked>>
    PROVE  /\ task'[p] = Settings!Idle /\ task' \in [Procs -> Tasks]
           /\ queue' \in [Procs -> Seq(WriteJobs \cup ReloadJobs)] /\ errors' \in [Procs -> SUBSET Scopes]
           /\ \A r \in Procs \ {p} : SameFor(r)
           /\ AskedIsKept(p)' => ProcessInv(p)'
           /\ file' = file /\ count'.faults = count.faults => AskedIsKept(p)'
<1> DEFINE s == Settings!Job(p).scope
<1>1. SettingsTypes /\ ProcessInv(p)
  BY DEF SettingsInv
<1>2. /\ queue' = [queue EXCEPT ![p] = Tail(@)] /\ task' = [task EXCEPT ![p] = Settings!Idle]
      /\ errors' = [errors EXCEPT ![p] = @ \cup {s}]
  BY DEF Settings!Failed
<1>3. s \in Scopes /\ Tail(queue[p]) \in Seq(WriteJobs \cup ReloadJobs)
  BY <1>1, JobTypes DEF WriteJobs
<1> HIDE DEF s
<1>4. /\ queue'[p] = Tail(queue[p]) /\ task'[p] = Settings!Idle /\ errors'[p] = errors[p] \cup {s}
      /\ task' \in [Procs -> Tasks]
      /\ queue' \in [Procs -> Seq(WriteJobs \cup ReloadJobs)] /\ errors' \in [Procs -> SUBSET Scopes]
  BY <1>1, <1>2, <1>3 DEF SettingsTypes, Tasks
<1>5. \A r \in Procs \ {p} : SameFor(r)
  BY <1>1, <1>2 DEF SettingsTypes, SameFor
<1>6. file' = file /\ count'.faults = count.faults => AskedIsKept(p)'
  BY <1>1, <1>4, JobDropped DEF s
<1>7. JobRuns(p)' /\ WriterHasLock(p)' /\ WritesFields(p)'
  BY <1>1, <1>4 DEF JobRuns, WriterHasLock, WritesFields, Settings!Idle
<1>8. FieldsAsked(p)'
  <2>1. \A t \in Scopes : modified'[p][t] \subseteq AskedBy(p, t)'
    BY <1>1 DEF ProcessInv, FieldsAsked, AskedBy
  <2>2. ASSUME NEW i \in DOMAIN queue'[p], queue'[p][i].kind = "write"
        PROVE  queue'[p][i].fields \subseteq AskedBy(p, queue'[p][i].scope)
    <3>1. i + 1 \in DOMAIN queue[p] /\ queue'[p][i] = queue[p][i + 1]
      BY <1>1, <1>4, <2>2, JobTypes
    <3> QED
      BY <1>1, <2>2, <3>1 DEF ProcessInv, FieldsAsked
  <2> QED
    BY <2>1, <2>2 DEF FieldsAsked, AskedBy
<1>9. ErrorsAreKept(p)' /\ MemoryHolds(p)'
  BY <1>1, <1>4 DEF ProcessInv, ErrorsAreKept, MemoryHolds
<1> QED
  BY <1>4, <1>5, <1>6, <1>7, <1>8, <1>9 DEF ProcessInv

LEMMA CannotOpenKeeps ==
    ASSUME SettingsInv, NEW p \in Procs, Settings!CannotOpen(p)
    PROVE  SettingsInv'
<1>1. SettingsTypes /\ ProcessInv(p)
  BY DEF SettingsInv
<1>2. Settings!Failed(p) /\ UNCHANGED <<file, lock, alive, mem, modified, loadError, shown, asked, count>>
  BY DEF Settings!CannotOpen
<1>3. /\ alive[p] /\ queue[p] # <<>> /\ Settings!Job(p).kind = "write" /\ task[p].stage # "fill"
  <2>1. CASE Settings!Writing(p)
    BY <2>1 DEF Settings!Writing, Settings!Ready, Settings!Idle, Settings!Job
  <2>2. CASE task[p].stage = "lock"
    BY <1>1, <2>2, WriterTypes
  <2> QED
    BY <2>1, <2>2 DEF Settings!CannotOpen
<1>4. /\ task'[p] = Settings!Idle /\ task' \in [Procs -> Tasks]
      /\ queue' \in [Procs -> Seq(WriteJobs \cup ReloadJobs)] /\ errors' \in [Procs -> SUBSET Scopes]
      /\ \A r \in Procs \ {p} : SameFor(r)
      /\ ProcessInv(p)'
  BY <1>2, <1>3, FailedLeaves
<1>5. SettingsTypes'
  BY <1>1, <1>2, <1>4 DEF SettingsTypes
<1> QED
  BY <1>2, <1>3, <1>4, <1>5, FileStays

LEMMA TruncateKeeps ==
    ASSUME SettingsInv, NEW p \in Procs, Settings!Truncate(p)
    PROVE  SettingsInv'
<1> DEFINE job == Settings!Job(p)
           s == job.scope
           now == [task[p] EXCEPT !.stage = "fill"]
           after == [file[s] EXCEPT !.text = "empty"]
<1>1. SettingsTypes /\ ProcessInv(p) /\ NoneIsNothing /\ EmptyIsFilled
  BY DEF SettingsInv
<1>2. /\ alive[p] /\ task[p].stage = "write"
      /\ file' = [file EXCEPT ![s] = after] /\ task' = [task EXCEPT ![p] = now]
      /\ UNCHANGED <<lock, alive, mem, modified, loadError, shown, queue, errors, asked, count>>
  BY DEF Settings!Truncate
<1>3. /\ task[p] \in [stage : {"lock", "write", "fill"}, next : Settings!Settings, created : BOOLEAN]
      /\ job \in WriteJobs /\ job.kind = "write" /\ s \in Scopes /\ task[p] # Settings!Idle /\ queue[p] # <<>>
  BY <1>1, <1>2, WriterTypes
<1>4. lock[s] = p
  BY <1>1, <1>2 DEF ProcessInv, WriterHasLock
<1>5. /\ now \in [stage : {"lock", "write", "fill"}, next : Settings!Settings, created : BOOLEAN]
      /\ now.stage = "fill" /\ now.next = task[p].next /\ now.created = task[p].created
  BY <1>3
<1>6. /\ file[s] \in [text : {"none", "empty", "cut", "whole"}, val : Settings!Settings, raced : BOOLEAN]
      /\ after \in [text : {"none", "empty", "cut", "whole"}, val : Settings!Settings, raced : BOOLEAN]
      /\ after.text = "empty" /\ after.val = file[s].val /\ after.raced = file[s].raced
  <2>1. file[s] \in [text : {"none", "empty", "cut", "whole"}, val : Settings!Settings, raced : BOOLEAN]
    BY <1>1, <1>3 DEF SettingsTypes
  <2> QED
    BY <2>1
<1> HIDE DEF now, after, s
<1>7. /\ task'[p] = now /\ file'[s] = after /\ \A t \in Scopes \ {s} : file'[t] = file[t]
      /\ SettingsTypes'
  BY <1>1, <1>2, <1>3, <1>5, <1>6 DEF SettingsTypes, Tasks
<1>8. \A t \in Scopes : file'[t].val = file[t].val /\ file'[t].raced = file[t].raced
  BY <1>6, <1>7
<1>9. \A r \in Procs \ {p} : SameFor(r)
  BY <1>1, <1>2 DEF SettingsTypes, SameFor
<1>10. Touches(p)
  BY <1>1, <1>2, <1>4, <1>7, <1>8 DEF Touches, SettingsTypes
<1>11. Settings!Job(p)' = job
  BY <1>2 DEF Settings!Job
<1>12. EmptyIsFilled'
  <2> SUFFICES ASSUME NEW t \in Scopes, file'[t].text = "empty", ~(count.faults > 0)
               PROVE  \E r \in Procs : task'[r].stage = "fill" /\ Settings!Job(r)'.scope = t
    BY <1>2 DEF EmptyIsFilled
  <2>1. CASE t = s
    BY <1>5, <1>7, <1>11, <2>1 DEF s
  <2>2. CASE t # s
    <3>1. PICK r \in Procs : task[r].stage = "fill" /\ Settings!Job(r).scope = t
      BY <1>1, <1>7, <2>2 DEF EmptyIsFilled
    <3>2. r # p /\ SameFor(r)
      BY <1>2, <1>9, <3>1
    <3> QED
      BY <3>1, <3>2 DEF SameFor, Settings!Job
  <2> QED
    BY <2>1, <2>2
<1>13. NoneIsNothing'
  BY <1>1, <1>6, <1>7 DEF NoneIsNothing
<1> HIDE DEF job
<1>14. ProcessInv(p)'
  <2>1. JobRuns(p)' /\ WriterHasLock(p)'
    BY <1>2, <1>3, <1>4, <1>5, <1>6, <1>7, <1>11 DEF JobRuns, WriterHasLock, s
  <2>2. WritesFields(p)'
    BY <1>1, <1>2, <1>3, <1>5, <1>7, <1>8, <1>11 DEF WritesFields, ProcessInv, job, s
  <2>3. FieldsAsked(p)' /\ ErrorsAreKept(p)' /\ MemoryHolds(p)' /\ AskedIsKept(p)'
    BY <1>1, <1>2, <1>8 DEF ProcessInv, FieldsAsked, ErrorsAreKept, MemoryHolds, AskedIsKept, AskedBy, Settings!Own
  <2> QED
    BY <2>1, <2>2, <2>3 DEF ProcessInv
<1>15. ASSUME NEW r \in Procs PROVE ProcessInv(r)'
  BY <1>1, <1>9, <1>10, <1>14, OthersStay DEF SettingsInv
<1> QED
  BY <1>7, <1>12, <1>13, <1>15 DEF SettingsInv

\* A whole write changes the fields of its job, unless it was made without a
\* file that has come meanwhile.
LEMMA WritesOnly ==
    ASSUME SettingsInv, NEW p \in Procs, Settings!WriteOut(p)
    PROVE  LET s == Settings!Job(p).scope IN
           /\ s \in Scopes /\ lock[s] = p /\ file[s].text = "empty"
           /\ file'[s].text = "whole" /\ file'[s].val = task[p].next /\ file'[s].val \in Settings!Settings
           /\ file'[s].raced \in BOOLEAN /\ (file[s].raced => file'[s].raced)
           /\ file' \in [Scopes -> [text : {"none", "empty", "cut", "whole"}, val : Settings!Settings, raced : BOOLEAN]]
           /\ \A t \in Scopes \ {s} : file'[t] = file[t]
           /\ \A q \in Settings!Job(p).fields : file'[s].val[q] = Settings!Job(p).snapshot[q] /\ q \in AskedBy(p, s)
           /\ \A q \in Paths : file'[s].val[q] # file[s].val[q] =>
                \/ q \in Settings!Job(p).fields
                \/ task[p].created /\ (file'[s].raced \/ file[s].val[q] = Absent)
                \/ count.faults # 0
<1> DEFINE job == Settings!Job(p)
           s == job.scope
           after == [file[s] EXCEPT !.text = "whole", !.val = task[p].next,
                                    !.raced = @ \/ (task[p].created /\ file[s].val # Settings!NoSettings)]
<1>1. SettingsTypes /\ ProcessInv(p)
  BY DEF SettingsInv
<1>2. task[p].stage = "fill" /\ file' = [file EXCEPT ![s] = after]
  BY DEF Settings!WriteOut
<1>3. /\ task[p] \in [stage : {"lock", "write", "fill"}, next : Settings!Settings, created : BOOLEAN]
      /\ job \in WriteJobs /\ job.kind = "write" /\ s \in Scopes /\ task[p] # Settings!Idle /\ queue[p] # <<>>
      /\ job = queue[p][1] /\ 1 \in DOMAIN queue[p]
  BY <1>1, <1>2, WriterTypes, JobTypes
<1>4. lock[s] = p /\ file[s].text = "empty"
  BY <1>1, <1>2 DEF ProcessInv, WriterHasLock
<1>5. /\ file \in [Scopes -> [text : {"none", "empty", "cut", "whole"}, val : Settings!Settings, raced : BOOLEAN]]
      /\ file[s] \in [text : {"none", "empty", "cut", "whole"}, val : Settings!Settings, raced : BOOLEAN]
  BY <1>1, <1>3 DEF SettingsTypes
<1>6. /\ after \in [text : {"none", "empty", "cut", "whole"}, val : Settings!Settings, raced : BOOLEAN]
      /\ after.text = "whole" /\ after.val = task[p].next
      /\ after.raced <=> (file[s].raced \/ (task[p].created /\ file[s].val # Settings!NoSettings))
  BY <1>3, <1>5
<1>7. job.fields \subseteq AskedBy(p, s)
  BY <1>1, <1>3 DEF ProcessInv, FieldsAsked
<1>8. \A q \in job.fields : task[p].next[q] = job.snapshot[q]
  BY <1>1, <1>3 DEF ProcessInv, WritesFields
<1>9. ~task[p].created /\ count.faults = 0 => \A q \in Paths \ job.fields : task[p].next[q] = file[s].val[q]
  BY <1>1, <1>3 DEF ProcessInv, WritesFields
<1> HIDE DEF job, s, after
<1>10. file'[s] = after /\ \A t \in Scopes \ {s} : file'[t] = file[t]
  BY <1>2, <1>3, <1>5
<1>11. file' \in [Scopes -> [text : {"none", "empty", "cut", "whole"}, val : Settings!Settings, raced : BOOLEAN]]
  BY <1>2, <1>3, <1>5, <1>6
<1>12. ASSUME NEW q \in Paths, after.val[q] # file[s].val[q], q \notin job.fields, count.faults = 0
       PROVE  task[p].created /\ (after.raced \/ file[s].val[q] = Absent)
  <2>1. task[p].created
    BY <1>6, <1>9, <1>12
  <2>2. file[s].val = Settings!NoSettings => file[s].val[q] = Absent
    BY DEF Settings!NoSettings, Absent
  <2> QED
    BY <1>6, <2>1, <2>2
<1> QED
  BY <1>3, <1>4, <1>6, <1>7, <1>8, <1>10, <1>11, <1>12 DEF s, job

LEMMA WriteOutKeeps ==
    ASSUME SettingsInv, NEW p \in Procs, Settings!WriteOut(p)
    PROVE  SettingsInv'
<1> DEFINE job == Settings!Job(p)
           s == job.scope
<1>1. SettingsTypes /\ ProcessInv(p) /\ NoneIsNothing /\ EmptyIsFilled
  BY DEF SettingsInv
<1>2. /\ alive[p] /\ task[p].stage = "fill"
      /\ lock' = [lock EXCEPT ![s] = Settings!Free] /\ modified' = [modified EXCEPT ![p][s] = {}]
      /\ task' = [task EXCEPT ![p] = Settings!Idle] /\ queue' = [queue EXCEPT ![p] = Tail(@)]
      /\ UNCHANGED <<alive, mem, loadError, shown, errors, asked, count>>
  BY DEF Settings!WriteOut
<1>3. job \in WriteJobs /\ job.kind = "write" /\ queue[p] # <<>> /\ Tail(queue[p]) \in Seq(WriteJobs \cup ReloadJobs)
  BY <1>1, <1>2, WriterTypes, JobTypes
<1>4. /\ s \in Scopes /\ lock[s] = p
      /\ file'[s].text = "whole" /\ (file[s].raced => file'[s].raced)
      /\ file' \in [Scopes -> [text : {"none", "empty", "cut", "whole"}, val : Settings!Settings, raced : BOOLEAN]]
      /\ \A t \in Scopes \ {s} : file'[t] = file[t]
      /\ \A q \in job.fields : file'[s].val[q] = job.snapshot[q] /\ q \in AskedBy(p, s)
      /\ \A q \in Paths : file'[s].val[q] # file[s].val[q] =>
           q \in job.fields \/ file'[s].raced \/ file[s].val[q] = Absent \/ count.faults # 0
  BY WritesOnly
<1> HIDE DEF s
<1>5. /\ task'[p] = Settings!Idle /\ queue'[p] = Tail(queue[p])
      /\ modified'[p] = [modified[p] EXCEPT ![s] = {}] /\ modified[p] \in [Scopes -> SUBSET Paths]
  BY <1>1, <1>2, <1>3 DEF SettingsTypes
<1>6. SettingsTypes'
  <2>1. modified' \in [Procs -> [Scopes -> SUBSET Paths]]
    BY <1>1, <1>2, <1>4 DEF SettingsTypes
  <2> QED
    BY <1>1, <1>2, <1>3, <1>4, <2>1 DEF SettingsTypes, Tasks
<1>7. \A r \in Procs \ {p} : SameFor(r)
  BY <1>1, <1>2 DEF SettingsTypes, SameFor
<1>8. Touches(p)
  <2>1. count.faults \in Nat /\ count' = count
    BY <1>1, <1>2 DEF SettingsTypes
  <2>2. \A t \in Scopes : lock'[t] # lock[t] => lock[t] = p
    BY <1>1, <1>2, <1>4 DEF SettingsTypes
  <2> QED
    BY <1>4, <2>1, <2>2 DEF Touches
<1>9. EmptyIsFilled'
  <2> SUFFICES ASSUME NEW t \in Scopes, file'[t].text = "empty", ~(count.faults > 0)
               PROVE  \E r \in Procs : task'[r].stage = "fill" /\ Settings!Job(r)'.scope = t
    BY <1>2 DEF EmptyIsFilled
  <2>1. t # s /\ file[t].text = "empty"
    BY <1>4
  <2>2. PICK r \in Procs : task[r].stage = "fill" /\ Settings!Job(r).scope = t
    BY <1>1, <2>1 DEF EmptyIsFilled
  <2>3. r # p
    BY <2>1, <2>2 DEF s, job
  <2> QED
    BY <1>7, <2>2, <2>3 DEF SameFor, Settings!Job
<1>10. NoneIsNothing'
  BY <1>1, <1>4 DEF NoneIsNothing
<1>11. ProcessInv(p)'
  <2>1. JobRuns(p)' /\ WriterHasLock(p)' /\ WritesFields(p)'
    BY <1>2, <1>5 DEF JobRuns, WriterHasLock, WritesFields, Settings!Idle
  <2>2. \A t \in Scopes : modified'[p][t] \subseteq modified[p][t]
    BY <1>5
  <2>3. FieldsAsked(p)'
    <3>1. \A t \in Scopes : modified'[p][t] \subseteq AskedBy(p, t)'
      BY <1>1, <2>2 DEF ProcessInv, FieldsAsked, AskedBy
    <3>2. ASSUME NEW i \in DOMAIN queue'[p], queue'[p][i].kind = "write"
          PROVE  queue'[p][i].fields \subseteq AskedBy(p, queue'[p][i].scope)
      <4>1. i + 1 \in DOMAIN queue[p] /\ queue'[p][i] = queue[p][i + 1]
        BY <1>1, <1>3, <1>5, <3>2, JobTypes
      <4> QED
        BY <1>1, <3>2, <4>1 DEF ProcessInv, FieldsAsked
    <3> QED
      BY <3>1, <3>2 DEF FieldsAsked, AskedBy
  <2>4. ErrorsAreKept(p)' /\ MemoryHolds(p)'
    BY <1>1, <1>2, <2>2 DEF ProcessInv, ErrorsAreKept, MemoryHolds
  <2>5. AskedIsKept(p)'
    <3> SUFFICES ASSUME NEW t \in Scopes, NEW q \in Paths, asked[p][t][q] # Absent, t \notin errors[p],
                        Settings!Own(p, t, q), ~file'[t].raced, count.faults = 0
                 PROVE  Holds(Tail(queue[p]), t, q, asked[p][t][q], file'[t].val[q])
      BY <1>2, <1>5 DEF AskedIsKept, Settings!Own
    <3> DEFINE value == asked[p][t][q]
               old == file[t].val[q]
               new == file'[t].val[q]
    <3>1. ~file[t].raced
      BY <1>4
    <3>2. Holds(queue[p], t, q, value, old)
      BY <1>1, <3>1 DEF ProcessInv, AskedIsKept
    <3>3. WritesTo(job, t, q) => new = job.snapshot[q]
      BY <1>4 DEF WritesTo, s
    <3>4. ~WritesTo(job, t, q) /\ old = value => new = value
      <4> SUFFICES ASSUME ~WritesTo(job, t, q), old = value PROVE new = old
        OBVIOUS
      <4>1. CASE t = s
        <5>1. q \notin job.fields
          BY <1>3, <4>1 DEF WritesTo, s
        <5> QED
          BY <1>4, <4>1, <5>1
      <4>2. CASE t # s
        BY <1>4, <4>2
      <4> QED
        BY <4>1, <4>2
    <3> HIDE DEF value, old, new
    <3>5. Holds(Tail(queue[p]), t, q, value, new)
      BY <1>1, <1>3, <3>2, <3>3, <3>4, HoldsInTail
    <3> QED
      BY <3>5 DEF value, new
  <2> QED
    BY <2>1, <2>3, <2>4, <2>5 DEF ProcessInv
<1>12. ASSUME NEW r \in Procs PROVE ProcessInv(r)'
  BY <1>1, <1>7, <1>8, <1>11, OthersStay DEF SettingsInv
<1> QED
  BY <1>6, <1>9, <1>10, <1>12 DEF SettingsInv

LEMMA DiskFailsKeeps ==
    ASSUME SettingsInv, NEW p \in Procs, Settings!DiskFails(p)
    PROVE  SettingsInv'
<1> DEFINE s == Settings!Job(p).scope
           after == [file[s] EXCEPT !.text = "cut"]
           textType == {"none", "empty", "cut", "whole"}
<1>1. SettingsTypes /\ ProcessInv(p) /\ NoneIsNothing
  BY DEF SettingsInv
<1>2. /\ alive[p] /\ task[p].stage \in {"write", "fill"} /\ Settings!Failed(p)
      /\ lock' = [lock EXCEPT ![s] = Settings!Free] /\ count' = [count EXCEPT !.faults = @ + 1]
      /\ file' = file \/ (task[p].stage = "fill" /\ file' = [file EXCEPT ![s] = after])
      /\ UNCHANGED <<alive, mem, modified, loadError, shown, asked>>
  BY DEF Settings!DiskFails
<1>3. s \in Scopes /\ queue[p] # <<>> /\ Settings!Job(p).kind = "write" /\ lock[s] = p
  BY <1>1, <1>2, WriterTypes DEF ProcessInv, WriterHasLock
<1>4. /\ task'[p] = Settings!Idle /\ task' \in [Procs -> Tasks]
      /\ queue' \in [Procs -> Seq(WriteJobs \cup ReloadJobs)] /\ errors' \in [Procs -> SUBSET Scopes]
      /\ \A r \in Procs \ {p} : SameFor(r)
      /\ AskedIsKept(p)' => ProcessInv(p)'
  BY <1>2, <1>3, FailedLeaves
<1>5. count \in [calls : Nat, faults : Nat]
  BY <1>1 DEF SettingsTypes
<1>6. count' \in [calls : Nat, faults : Nat] /\ count'.faults > 0 /\ count'.faults >= count.faults /\ count.faults \in Nat
  BY <1>2, <1>5
<1>7. /\ file \in [Scopes -> [text : textType, val : Settings!Settings, raced : BOOLEAN]]
      /\ file[s] \in [text : textType, val : Settings!Settings, raced : BOOLEAN]
  BY <1>1, <1>3 DEF SettingsTypes
<1>8. /\ after \in [text : textType, val : Settings!Settings, raced : BOOLEAN]
      /\ after.text = "cut" /\ after.val = file[s].val /\ after.raced = file[s].raced
  BY <1>7
<1> HIDE DEF s, after
<1>9. /\ file' \in [Scopes -> [text : textType, val : Settings!Settings, raced : BOOLEAN]]
      /\ \A t \in Scopes : file'[t] # file[t] => t = s /\ file'[t] = after
  BY <1>2, <1>7, <1>8
<1>10. \A t \in Scopes : file'[t].val = file[t].val /\ file'[t].raced = file[t].raced
  BY <1>8, <1>9
<1>11. SettingsTypes'
  BY <1>1, <1>2, <1>3, <1>4, <1>6, <1>9 DEF SettingsTypes
<1>12. Touches(p)
  <2>1. \A t \in Scopes : lock'[t] # lock[t] => lock[t] = p
    BY <1>1, <1>2, <1>3 DEF SettingsTypes
  <2> QED
    BY <1>3, <1>6, <1>9, <1>10, <2>1 DEF Touches
<1>13. EmptyIsFilled' /\ AskedIsKept(p)'
  BY <1>6 DEF EmptyIsFilled, AskedIsKept
<1>14. NoneIsNothing'
  BY <1>1, <1>8, <1>9, <1>10 DEF NoneIsNothing
<1>15. ASSUME NEW r \in Procs PROVE ProcessInv(r)'
  BY <1>1, <1>4, <1>12, <1>13, OthersStay DEF SettingsInv
<1> QED
  BY <1>11, <1>13, <1>14, <1>15 DEF SettingsInv

LEMMA CrashKeeps ==
    ASSUME SettingsInv, NEW p \in Procs, Settings!Crash(p)
    PROVE  SettingsInv'
<1> DEFINE s == Settings!Job(p).scope
           after == [file[s] EXCEPT !.text = "cut"]
           textType == {"none", "empty", "cut", "whole"}
<1>1. SettingsTypes /\ ProcessInv(p) /\ NoneIsNothing
  BY DEF SettingsInv
<1>2. /\ alive' = [alive EXCEPT ![p] = FALSE]
      /\ lock' = [t \in Scopes |-> IF lock[t] = p THEN Settings!Free ELSE lock[t]]
      /\ file' = file \/ (task[p].stage = "fill" /\ file' = [file EXCEPT ![s] = after])
      /\ mem' = [mem EXCEPT ![p] = [t \in Scopes |-> Settings!NoSettings]]
      /\ modified' = [modified EXCEPT ![p] = [t \in Scopes |-> {}]]
      /\ loadError' = [loadError EXCEPT ![p] = [t \in Scopes |-> FALSE]]
      /\ shown' = [shown EXCEPT ![p] = Settings!NoSettings]
      /\ queue' = [queue EXCEPT ![p] = <<>>]
      /\ task' = [task EXCEPT ![p] = Settings!Idle]
      /\ errors' = [errors EXCEPT ![p] = {}]
      /\ asked' = [asked EXCEPT ![p] = [t \in Scopes |-> Settings!NoSettings]]
      /\ count' = [count EXCEPT !.faults = @ + 1]
  BY DEF Settings!Crash, Scopes
<1>3. task[p].stage = "fill" => s \in Scopes /\ lock[s] = p
  BY <1>1, WriterTypes DEF ProcessInv, WriterHasLock
<1>4. count \in [calls : Nat, faults : Nat] /\ file \in [Scopes -> [text : textType, val : Settings!Settings, raced : BOOLEAN]]
  BY <1>1 DEF SettingsTypes
<1>5. count' \in [calls : Nat, faults : Nat] /\ count'.faults > 0 /\ count'.faults >= count.faults /\ count.faults \in Nat
  BY <1>2, <1>4
<1>6. s \in Scopes =>
        /\ after \in [text : textType, val : Settings!Settings, raced : BOOLEAN]
        /\ after.text = "cut" /\ after.val = file[s].val /\ after.raced = file[s].raced
  <2> SUFFICES ASSUME s \in Scopes
               PROVE  /\ after \in [text : textType, val : Settings!Settings, raced : BOOLEAN]
                      /\ after.text = "cut" /\ after.val = file[s].val /\ after.raced = file[s].raced
    OBVIOUS
  <2>1. file[s] \in [text : textType, val : Settings!Settings, raced : BOOLEAN]
    BY <1>4
  <2> QED
    BY <2>1
<1> HIDE DEF s, after
<1>7. /\ file' \in [Scopes -> [text : textType, val : Settings!Settings, raced : BOOLEAN]]
      /\ \A t \in Scopes : file'[t] # file[t] => t = s /\ file'[t] = after /\ lock[t] = p
  BY <1>2, <1>3, <1>4, <1>6
<1>8. \A t \in Scopes : file'[t].val = file[t].val /\ file'[t].raced = file[t].raced
  BY <1>6, <1>7
<1>9. SettingsTypes'
  <2>1. <<>> \in Seq(WriteJobs \cup ReloadJobs) /\ Settings!NoSettings \in Settings!Settings
    BY MergeTypes
  <2>2. lock' \in [Scopes -> Procs \cup {Settings!Free}]
    BY <1>1, <1>2 DEF SettingsTypes
  <2> QED
    BY <1>1, <1>2, <1>5, <1>7, <2>1, <2>2 DEF SettingsTypes, Tasks
<1>10. \A r \in Procs \ {p} : SameFor(r)
  BY <1>1, <1>2 DEF SettingsTypes, SameFor
<1>11. Touches(p)
  BY <1>2, <1>5, <1>7, <1>8 DEF Touches
<1>12. EmptyIsFilled' /\ AskedIsKept(p)'
  BY <1>5 DEF EmptyIsFilled, AskedIsKept
<1>13. NoneIsNothing'
  BY <1>1, <1>6, <1>7, <1>8 DEF NoneIsNothing
<1>14. ProcessInv(p)'
  <2>1. /\ task'[p] = Settings!Idle /\ queue'[p] = <<>> /\ errors'[p] = {}
        /\ asked'[p] = [t \in Scopes |-> Settings!NoSettings]
        /\ modified'[p] = [t \in Scopes |-> {}] /\ loadError'[p] = [t \in Scopes |-> FALSE]
    BY <1>1, <1>2 DEF SettingsTypes
  <2>2. JobRuns(p)' /\ WriterHasLock(p)' /\ WritesFields(p)'
    BY <2>1 DEF JobRuns, WriterHasLock, WritesFields, Settings!Idle
  <2>3. FieldsAsked(p)' /\ ErrorsAreKept(p)' /\ MemoryHolds(p)'
    BY <2>1 DEF FieldsAsked, ErrorsAreKept, MemoryHolds
  <2> QED
    BY <1>12, <2>2, <2>3 DEF ProcessInv
<1>15. ASSUME NEW r \in Procs PROVE ProcessInv(r)'
  BY <1>1, <1>10, <1>11, <1>14, OthersStay DEF SettingsInv
<1> QED
  BY <1>9, <1>12, <1>13, <1>15 DEF SettingsInv

LEMMA SettingsInvStep == SettingsInv /\ Settings!Next => SettingsInv'
<1> SUFFICES ASSUME SettingsInv, Settings!Next PROVE SettingsInv'
  OBVIOUS
<1>1. PICK p \in Procs :
        \/ Settings!Start(p) \/ Settings!Reload(p) \/ Settings!DiskFails(p) \/ Settings!Crash(p) \/ Settings!Step(p)
        \/ \E ask \in Asks[p] : Settings!Set(p, ask[1], ask[2], ask[3]) \/ Settings!ApplyOverrides(p, ask[2], ask[3])
  BY DEF Settings!Next
<1>2. CASE Settings!Start(p) \/ Settings!Reload(p) \/ Settings!DiskFails(p) \/ Settings!Crash(p)
  BY <1>2, StartKeeps, ReloadKeeps, DiskFailsKeeps, CrashKeeps
<1>3. CASE Settings!Step(p)
  BY <1>3, FinishReloadKeeps, OpenKeeps, OpenMissingKeeps, LockLateKeeps, TruncateKeeps, WriteOutKeeps, CannotOpenKeeps
     DEF Settings!Step
<1>4. ASSUME NEW ask \in Asks[p], Settings!Set(p, ask[1], ask[2], ask[3]) \/ Settings!ApplyOverrides(p, ask[2], ask[3])
      PROVE  SettingsInv'
  <2> DEFINE s == ask[1]
             q == ask[2]
             v == ask[3]
  <2>1. s \in Scopes /\ q \in AskedBy(p, s) /\ v \in Values /\ q \in Paths
    BY AskTypes DEF AskedBy
  <2>2. Settings!Set(p, s, q, v) \/ Settings!ApplyOverrides(p, q, v)
    BY <1>4
  <2> HIDE DEF s, q, v
  <2> QED
    BY <2>1, <2>2, SetKeeps, OverrideKeeps
<1> QED
  BY <1>1, <1>2, <1>3, <1>4

\* When nothing happens to the settings, all of it stays.
LEMMA SettingsRest ==
    ASSUME SettingsInv, UNCHANGED settingsVars
    PROVE  SettingsInv'
<1>1. /\ file' = file /\ lock' = lock /\ alive' = alive /\ mem' = mem /\ modified' = modified
      /\ loadError' = loadError /\ shown' = shown /\ queue' = queue /\ task' = task /\ errors' = errors
      /\ asked' = asked /\ count' = count
  BY DEF settingsVars
<1>2. SettingsTypes'
  BY <1>1 DEF SettingsInv, SettingsTypes
<1>3. EmptyIsFilled' /\ NoneIsNothing'
  BY <1>1 DEF SettingsInv, EmptyIsFilled, NoneIsNothing, Settings!Job
<1>4. ASSUME NEW p \in Procs PROVE ProcessInv(p)'
  <2>1. ProcessInv(p)
    BY DEF SettingsInv
  <2>2. JobRuns(p)' /\ WriterHasLock(p)' /\ WritesFields(p)'
    BY <1>1, <2>1 DEF ProcessInv, JobRuns, WriterHasLock, WritesFields, Settings!Job
  <2>3. FieldsAsked(p)' /\ ErrorsAreKept(p)' /\ MemoryHolds(p)'
    BY <1>1, <2>1 DEF ProcessInv, FieldsAsked, ErrorsAreKept, MemoryHolds
  <2>4. AskedIsKept(p)'
    BY <1>1, <2>1 DEF ProcessInv, AskedIsKept, Settings!Own
  <2> QED
    BY <2>2, <2>3, <2>4 DEF ProcessInv
<1> QED
  BY <1>2, <1>3, <1>4 DEF SettingsInv

LEMMA FlushIsDurableNow == SettingsInv => Settings!FlushIsDurable
<1> SUFFICES ASSUME SettingsInv, NEW p \in Procs, NEW s \in Scopes, NEW q \in Paths,
                    queue[p] = <<>>, s \notin errors[p], asked[p][s][q] # Absent,
                    Settings!Own(p, s, q), ~file[s].raced, count.faults = 0
             PROVE  file[s].val[q] = asked[p][s][q]
  BY DEF Settings!FlushIsDurable, Scopes, Absent
<1>1. Holds(<<>>, s, q, asked[p][s][q], file[s].val[q])
  BY DEF SettingsInv, ProcessInv, AskedIsKept
<1> QED
  BY <1>1 DEF Holds

\* Only the holder of its lock changes a file, and only a whole write changes the settings in it.
LEMMA ChangesFile ==
    ASSUME SettingsInv, Settings!Next, NEW s \in Scopes, file'[s] # file[s]
    PROVE  \E p \in Procs : /\ task[p].stage \in {"write", "fill"} /\ Settings!Job(p).scope = s /\ lock[s] = p
                            /\ file'[s].val # file[s].val => Settings!WriteOut(p)
<1>1. PICK p \in Procs : \/ Settings!DiskFails(p)
                         \/ Settings!Crash(p) /\ task[p].stage = "fill"
                         \/ Settings!Truncate(p) \/ Settings!WriteOut(p)
  <2>1. PICK p \in Procs :
          \/ Settings!Start(p) \/ Settings!Reload(p) \/ Settings!DiskFails(p) \/ Settings!Crash(p) \/ Settings!Step(p)
          \/ \E ask \in Asks[p] : Settings!Set(p, ask[1], ask[2], ask[3]) \/ Settings!ApplyOverrides(p, ask[2], ask[3])
    BY DEF Settings!Next
  <2>2. ~Settings!Start(p) /\ ~Settings!Reload(p)
    BY DEF Settings!Start, Settings!Reload
  <2>3. ASSUME NEW t, NEW q, NEW v PROVE ~Settings!Set(p, t, q, v) /\ ~Settings!ApplyOverrides(p, q, v)
    BY DEF Settings!Set, Settings!ApplyOverrides
  <2>4. /\ ~Settings!FinishReload(p) /\ ~Settings!Open(p) /\ ~Settings!OpenMissing(p) /\ ~Settings!LockLate(p)
        /\ ~Settings!CannotOpen(p)
    BY DEF Settings!FinishReload, Settings!Open, Settings!OpenMissing, Settings!LockLate, Settings!CannotOpen
  <2>5. Settings!Crash(p) => task[p].stage = "fill"
    BY DEF Settings!Crash
  <2> QED
    BY <2>1, <2>2, <2>3, <2>4, <2>5 DEF Settings!Step
<1>2. task[p].stage \in {"write", "fill"}
  BY <1>1 DEF Settings!DiskFails, Settings!Truncate, Settings!WriteOut
<1>3. SettingsTypes /\ ProcessInv(p)
  BY DEF SettingsInv
<1> DEFINE t == Settings!Job(p).scope
<1>4. t \in Scopes /\ lock[t] = p
  BY <1>2, <1>3, WriterTypes DEF ProcessInv, WriterHasLock
<1>5. file \in [Scopes -> [text : {"none", "empty", "cut", "whole"}, val : Settings!Settings, raced : BOOLEAN]]
  BY <1>3 DEF SettingsTypes
<1>6. CASE Settings!WriteOut(p)
  <2>1. \A u \in Scopes \ {t} : file'[u] = file[u]
    BY <1>6, WritesOnly
  <2> HIDE DEF t
  <2>2. s = t
    BY <2>1
  <2> QED
    BY <1>2, <1>4, <1>6, <2>2 DEF t
<1>7. CASE ~Settings!WriteOut(p)
  <2>1. file' = file \/ \E text2 \in {"empty", "cut"} : file' = [file EXCEPT ![t].text = text2]
    BY <1>1, <1>7 DEF Settings!DiskFails, Settings!Crash, Settings!Truncate
  <2> HIDE DEF t
  <2>2. s = t /\ file'[s].val = file[s].val
    BY <1>4, <1>5, <2>1
  <2> QED
    BY <1>2, <1>4, <2>2 DEF t
<1> QED
  BY <1>6, <1>7

\* A write changes only what its process has changed.
LEMMA OthersKeptStep ==
    ASSUME SettingsInv, Settings!Next, NEW s \in Scopes, NEW q \in Paths, file'[s].val[q] # file[s].val[q]
    PROVE  \/ \E p \in Procs : /\ task[p].stage = "fill" /\ lock[s] = p
                               /\ q \in Settings!Job(p).fields \/ task[p].created
           \/ file[s].text = "empty" /\ count.faults > 0
<1>1. PICK p \in Procs : Settings!WriteOut(p) /\ Settings!Job(p).scope = s /\ lock[s] = p
  BY ChangesFile
<1>2. task[p].stage = "fill" /\ file[s].text = "empty"
  BY <1>1, WritesOnly DEF Settings!WriteOut
<1>3. q \in Settings!Job(p).fields \/ task[p].created \/ count.faults # 0
  BY <1>1, WritesOnly
<1>4. count.faults \in Nat
  BY DEF SettingsInv, SettingsTypes
<1> QED
  BY <1>1, <1>2, <1>3, <1>4

\* A file that was cut short is written by no one who has looked at it.
LEMMA CutFileStep ==
    ASSUME SettingsInv, Settings!Next, NEW s \in Scopes, file[s].text = "cut",
           ~(\E p \in Procs : task[p] # Settings!Idle /\ task[p].created /\ Settings!Job(p).scope = s)
    PROVE  file'[s] = file[s]
<1> SUFFICES ASSUME file'[s] # file[s] PROVE FALSE
  OBVIOUS
<1>1. PICK p \in Procs : task[p].stage \in {"write", "fill"} /\ Settings!Job(p).scope = s
  BY ChangesFile
<1>2. task[p] # Settings!Idle
  BY <1>1 DEF Settings!Idle
<1>3. ~task[p].created
  BY <1>1, <1>2
<1> QED
  BY <1>1, <1>3 DEF SettingsInv, ProcessInv, WriterHasLock

\* Only a reload takes its own job from the queue.
LEMMA ReloadsOnly ==
    ASSUME SettingsInv, Settings!Next, NEW p \in Procs, queue[p] # <<>>, Settings!Job(p).kind = "reload",
           queue'[p] = Tail(queue[p]), alive'[p]
    PROVE  Settings!FinishReload(p)
<1>1. SettingsTypes /\ ProcessInv(p)
  BY DEF SettingsInv
<1>2. queue'[p] # queue[p] /\ \A job : queue'[p] # Append(queue[p], job)
  <2> DEFINE jobs == queue[p]
  <2>1. jobs \in Seq(WriteJobs \cup ReloadJobs) /\ jobs # <<>> /\ queue'[p] = Tail(jobs)
    BY <1>1 DEF SettingsTypes
  <2> HIDE DEF jobs
  <2>2. Len(Tail(jobs)) = Len(jobs) - 1 /\ Len(jobs) \in Nat
    BY <2>1
  <2>3. ASSUME NEW job PROVE Tail(jobs) # Append(jobs, job)
    <3>1. Len(jobs) \in Nat /\ DOMAIN jobs = 1 .. Len(jobs) /\ \A i \in 1 .. Len(jobs) : jobs[i] \in WriteJobs \cup ReloadJobs \cup {job}
      BY <2>1
    <3>2. jobs \in Seq(WriteJobs \cup ReloadJobs \cup {job})
      BY <2>1, <3>1
    <3>3. Len(Append(jobs, job)) = Len(jobs) + 1
      BY <3>2, AppendElements
    <3> QED
      BY <2>2, <3>3
  <2>4. Tail(jobs) # jobs
    BY <2>2
  <2> QED
    BY <2>1, <2>3, <2>4 DEF jobs
<1>3. ASSUME task[p].stage \in {"lock", "write", "fill"} PROVE FALSE
  BY <1>1, <1>3, WriterTypes
<1>4. queue \in [Procs -> Seq(WriteJobs \cup ReloadJobs)] /\ alive \in [Procs -> BOOLEAN]
  BY <1>1 DEF SettingsTypes
<1>5. PICK r \in Procs :
        \/ Settings!Start(r) \/ Settings!Reload(r) \/ Settings!DiskFails(r) \/ Settings!Crash(r) \/ Settings!Step(r)
        \/ \E ask \in Asks[r] : Settings!Set(r, ask[1], ask[2], ask[3]) \/ Settings!ApplyOverrides(r, ask[2], ask[3])
  BY DEF Settings!Next
<1>6. UNCHANGED queue \/ \E jobs : queue' = [queue EXCEPT ![r] = jobs]
  BY <1>5 DEF Settings!Start, Settings!Reload, Settings!DiskFails, Settings!Crash, Settings!Step, Settings!FinishReload,
     Settings!Open, Settings!OpenMissing, Settings!LockLate, Settings!Truncate, Settings!WriteOut, Settings!CannotOpen,
     Settings!Failed, Settings!Set, Settings!ApplyOverrides
<1>7. r = p
  BY <1>2, <1>4, <1>6
<1>8. ~Settings!Start(p) /\ ~Settings!Reload(p)
  BY <1>2, <1>4 DEF Settings!Start, Settings!Reload
<1>9. ~Settings!DiskFails(p) /\ ~Settings!Crash(p)
  BY <1>3, <1>4 DEF Settings!DiskFails, Settings!Crash
<1>10. ASSUME NEW s, NEW q, NEW v PROVE ~Settings!Set(p, s, q, v) /\ ~Settings!ApplyOverrides(p, q, v)
  BY <1>2, <1>4 DEF Settings!Set, Settings!ApplyOverrides
<1>11. ~Settings!Open(p) /\ ~Settings!OpenMissing(p) /\ ~Settings!LockLate(p) /\ ~Settings!Truncate(p)
  BY <1>2 DEF Settings!Open, Settings!OpenMissing, Settings!LockLate, Settings!Truncate
<1>12. ~Settings!WriteOut(p) /\ ~Settings!CannotOpen(p)
  BY <1>3 DEF Settings!WriteOut, Settings!CannotOpen, Settings!Writing, Settings!Job
<1> QED
  BY <1>5, <1>7, <1>8, <1>9, <1>10, <1>11, <1>12 DEF Settings!Step

\* A reload reads back what was asked for, when no write of it is queued.
LEMMA ReloadKeepsSetsStep ==
    ASSUME SettingsInv, Settings!Next, NEW p \in Procs, NEW s \in Scopes, NEW q \in Paths,
           queue[p] # <<>>, Settings!Job(p).kind = "reload", queue'[p] = Tail(queue[p]), alive'[p],
           asked[p][s][q] # Absent, s \notin errors'[p], Settings!Own(p, s, q), ~file[s].raced, count.faults = 0,
           \A i \in 2 .. Len(queue[p]) : ~(queue[p][i].kind = "write" /\ q \in queue[p][i].fields)
    PROVE  mem'[p][s][q] = asked[p][s][q]
<1>1. SettingsTypes /\ ProcessInv(p) /\ EmptyIsFilled /\ NoneIsNothing
  BY DEF SettingsInv
<1>2. PICK bad \in SUBSET Scopes :
        /\ Settings!Loads(bad)
        /\ mem' = [mem EXCEPT ![p] = [t \in Scopes |-> IF t \in bad THEN mem[p][t] ELSE Settings!Content(t)]]
        /\ errors' = [errors EXCEPT ![p] = @ \cup bad]
  BY ReloadsOnly DEF Settings!FinishReload, Scopes
<1>3. errors'[p] = errors[p] \cup bad /\ mem'[p] = [t \in Scopes |-> IF t \in bad THEN mem[p][t] ELSE Settings!Content(t)]
  BY <1>1, <1>2 DEF SettingsTypes
<1>4. s \notin bad /\ mem'[p][s] = Settings!Content(s) /\ Settings!MayLoad(s)
  BY <1>2, <1>3 DEF Settings!Loads, Scopes
<1>5. Holds(queue[p], s, q, asked[p][s][q], file[s].val[q])
  BY <1>1, <1>3 DEF ProcessInv, AskedIsKept
<1>6. \A i \in DOMAIN queue[p] : ~WritesTo(queue[p][i], s, q)
  <2> SUFFICES ASSUME NEW i \in DOMAIN queue[p], i = 1 \/ i \in 2 .. Len(queue[p]) PROVE ~WritesTo(queue[p][i], s, q)
    BY <1>1, JobTypes
  <2> QED
    BY <1>1, JobTypes DEF WritesTo
<1>7. file[s].val[q] = asked[p][s][q]
  BY <1>5, <1>6 DEF Holds
<1>8. file[s].text \notin {"none", "cut"}
  <2>1. file[s].text # "none"
    BY <1>1, <1>7 DEF NoneIsNothing, Settings!NoSettings, Absent
  <2> QED
    BY <1>4, <2>1 DEF Settings!MayLoad, Settings!Parses
<1>9. file[s].text # "empty"
  <2> SUFFICES ASSUME file[s].text = "empty" PROVE FALSE
    OBVIOUS
  <2>1. PICK r \in Procs : task[r].stage = "fill" /\ Settings!Job(r).scope = s
    BY <1>1 DEF EmptyIsFilled
  <2>2. lock[s] = r
    BY <2>1 DEF SettingsInv, ProcessInv, WriterHasLock
  <2>3. lock[s] = Settings!Free /\ Settings!Free = Auth!Free
    BY <1>4, <1>8 DEF Settings!MayLoad, Settings!Free, Auth!Free
  <2> QED
    BY <2>2, <2>3, FreeAssumption
<1>10. Settings!Content(s) = file[s].val
  BY <1>1, <1>8, <1>9 DEF SettingsTypes, Settings!Content
<1> QED
  BY <1>4, <1>7, <1>10

(***************************************************************************)
(* The output of commands.                                                 *)
(***************************************************************************)

---------------------------------------------------------------------------
(* Bytes, lines and the decoder, as folds: one character, line or byte more.  *)

Letters == {"a", "n", "e", "?"}

\* A character has one byte or two, the replacement character three.
LEMMA SizeIsSmall == \A c : Bash!Size(c) \in 1 .. 3 /\ (c # "?" => Bash!Size(c) <= 2)
  BY DEF Bash!Size

\* Bytes, position by position.
BytesSteps(s) == [n \in 1 .. Len(s) |-> [v \in Nat |-> v + Bash!Size(s[n])]]

\* The bytes of a text are added up character by character.
LEMMA BytesRun ==
    ASSUME NEW T, NEW s \in Seq(T)
    PROVE  \E r : IsRun(r, Len(s), Nat, 0, BytesSteps(s)) /\ Bash!Bytes(s) = r[Len(s)]
<1> DEFINE N == Len(s)
           h == BytesSteps(s)
           Body(f) == [S \in SUBSET (DOMAIN s) |->
                          IF S = {} THEN 0 ELSE f[S \ {Bash!Max(S)}] + Bash!Size(s[Bash!Max(S)])]
<1>1. N \in Nat /\ DOMAIN s = 1 .. N
  OBVIOUS
<1>2. \A S : Bash!Max(S) = Max(S)
  BY DEF Bash!Max, Max
<1>3. IsStep(h, N, Nat) /\ \A n \in 1 .. N, v \in Nat : h[n][v] = v + Bash!Size(s[n])
  BY <1>1, SizeIsSmall DEF IsStep, BytesSteps
<1> DEFINE b == 0
<1>4. b \in Nat
  OBVIOUS
<1> HIDE DEF h, N, b
<1>5. \E f : f = Body(f)
  <2>1. PICK g : IsFold(g, N, Nat, b, h)
    BY <1>1, <1>3, <1>4, FoldExists
  <2>2. g \in [SUBSET (1 .. N) -> Nat] /\ g[{}] = 0
        /\ \A S \in SUBSET (1 .. N) : S # {} => g[S] = h[Max(S)][g[S \ {Max(S)}]]
    BY <2>1 DEF IsFold, b
  <2>3. ASSUME NEW S \in SUBSET (1 .. N), S # {}
        PROVE  g[S] = g[S \ {Bash!Max(S)}] + Bash!Size(s[Bash!Max(S)])
    <3>1. Max(S) \in 1 .. N
      BY <1>1, <2>3, GreatestOne
    <3>2. S \ {Max(S)} \in SUBSET (1 .. N)
      OBVIOUS
    <3>3. g[S \ {Max(S)}] \in Nat
      BY <2>2, <3>2
    <3> QED
      BY <1>2, <1>3, <2>2, <2>3, <3>1, <3>3
  <2>4. g = [S \in SUBSET (1 .. N) |-> g[S]]
    BY <2>2
  <2>5. g = Body(g)
    BY <1>1, <2>2, <2>3, <2>4
  <2> QED
    BY <2>5
<1> DEFINE c == CHOOSE f : f = Body(f)
<1>6. c = Body(c)
  BY Zenon, <1>5
<1>7. Bash!Bytes(s) = c[DOMAIN s]
  BY Zenon DEF Bash!Bytes, Bash!FoldLeft, Bash!MapThenFoldSet
<1> HIDE DEF c
<1>8. IsFolded(c, N, Nat, b, h)
  <2>1. \A S \in SUBSET (1 .. N) :
           c[S] = IF S = {} THEN 0 ELSE c[S \ {Max(S)}] + Bash!Size(s[Max(S)])
    BY <1>1, <1>2, <1>6
  <2> SUFFICES ASSUME NEW S \in SUBSET (1 .. N)
               PROVE  /\ S = {} => c[S] = b
                      /\ S # {} /\ c[S \ {Max(S)}] \in Nat => c[S] = h[Max(S)][c[S \ {Max(S)}]]
    BY DEF IsFolded
  <2>2. S # {} => Max(S) \in 1 .. N
    BY <1>1, GreatestOne
  <2> QED
    BY <1>3, <2>1, <2>2 DEF b
<1>9. PICK r : IsRun(r, N, Nat, b, h) /\ c[1 .. N] = r[N]
  <2> DEFINE V == Nat
  <2>1. N \in Nat /\ b \in V /\ IsStep(h, N, V) /\ IsFolded(c, N, V, b, h)
    BY <1>1, <1>3, <1>4, <1>8
  <2> HIDE DEF V
  <2>2. \E r : IsRun(r, N, V, b, h) /\ c[1 .. N] = r[N]
    BY ONLY <2>1, FoldRuns
  <2> QED
    BY <2>2 DEF V
<1>10. IsRun(r, N, Nat, b, h) /\ Bash!Bytes(s) = r[N]
  BY <1>1, <1>7, <1>9
<1> QED
  BY <1>10 DEF N, b, h

\* One more character adds its bytes.
LEMMA BytesOfAppend ==
    ASSUME NEW T, NEW s \in Seq(T), NEW e \in T
    PROVE  Bash!Bytes(s) \in Nat /\ Bash!Bytes(Append(s, e)) = Bash!Bytes(s) + Bash!Size(e)
<1> DEFINE a == Append(s, e)
           N == Len(s)
           h == BytesSteps(s)
           k == BytesSteps(a)
           b == 0
<1>1. a \in Seq(T) /\ Len(a) = N + 1 /\ N \in Nat /\ (\A i \in 1 .. N : a[i] = s[i]) /\ a[N + 1] = e
  BY AppendElements
<1>2. (\A n \in 1 .. N : k[n] = h[n]) /\ k[N + 1] = [v \in Nat |-> v + Bash!Size(e)]
  <2> HIDE DEF a
  <2> QED
    BY <1>1 DEF BytesSteps
<1> HIDE DEF a
<1>3. PICK r : IsRun(r, N, Nat, b, h) /\ Bash!Bytes(s) = r[N]
  BY BytesRun
<1>4. PICK q : IsRun(q, N + 1, Nat, b, k) /\ Bash!Bytes(a) = q[N + 1]
  BY <1>1, BytesRun
<1> HIDE DEF h, k, N, b
<1>5. q[N + 1] = k[N + 1][r[N]] /\ r[N] \in Nat
  BY <1>1, <1>2, <1>3, <1>4, RunGoesOn
<1> QED
  BY <1>2, <1>3, <1>4, <1>5 DEF a

\* No text has no bytes.
LEMMA BytesOfNothing == Bash!Bytes(<<>>) = 0
<1> DEFINE s == <<>>
<1>1. s \in Seq(Letters) /\ Len(s) = 0
  OBVIOUS
<1> HIDE DEF s
<1>2. PICK r : IsRun(r, Len(s), Nat, 0, BytesSteps(s)) /\ Bash!Bytes(s) = r[Len(s)]
  BY <1>1, BytesRun
<1> QED
  BY <1>1, <1>2 DEF IsRun, s

Text == Seq(Letters)
TextLines == Seq(Text) \ {<<>>}

\* The bytes of a text are a number.
LEMMA BytesTyped == \A s \in Text : Bash!Bytes(s) \in Nat
  BY BytesOfAppend DEF Text, Letters

\* What a character adds to the lines before it.
LineGoesOn(ls, c) ==
    IF c = Bash!NL THEN Append(ls, <<>>) ELSE [ls EXCEPT ![Len(ls)] = Append(@, c)]

\* A newline starts a line, any other character goes to the last one.
LEMMA LineGoesOnTyped ==
    ASSUME NEW ls \in TextLines, NEW c \in Letters
    PROVE  /\ LineGoesOn(ls, c) \in TextLines
           /\ Len(ls) \in Nat \ {0} /\ Last(ls) \in Text
           /\ Front(ls) \in Seq(Text) /\ Len(Front(ls)) = Len(ls) - 1
           /\ ls = Append(Front(ls), Last(ls))
           /\ LineGoesOn(ls, c) = IF c = Bash!NL THEN Append(ls, <<>>)
                                  ELSE Append(Front(ls), Append(Last(ls), c))
<1> DEFINE f == Front(ls)
           l == Last(ls)
           m == Append(l, c)
           N == Len(ls)
<1>1. /\ f \in Seq(Text) /\ l \in Text /\ l = ls[N] /\ N = Len(f) + 1 /\ N \in Nat /\ Len(f) \in Nat
      /\ (\A i \in 1 .. Len(f) : f[i] = ls[i])
      /\ ls = Append(f, l) /\ ls \in Seq(Text)
  <2>1. ls \in Seq(Text) /\ ls # <<>>
    BY DEF TextLines
  <2> QED
    BY <2>1, FrontThenLast
<1>2. m \in Text /\ <<>> \in Text
  BY <1>1 DEF Text
<1> HIDE DEF f, l, m
<1>3. Append(ls, <<>>) \in TextLines
  <2>1. Append(ls, <<>>) \in Seq(Text) /\ Len(Append(ls, <<>>)) = N + 1
    BY <1>1, <1>2
  <2> QED
    BY <1>1, <2>1 DEF TextLines
<1>4. [ls EXCEPT ![N] = m] = Append(f, m) /\ Append(f, m) \in TextLines
  <2> DEFINE x == [ls EXCEPT ![N] = m]
             y == Append(f, m)
  <2>0. N \in 1 .. Len(ls) /\ ls \in Seq(Text) /\ m \in Text
    BY <1>1, <1>2
  <2>1. x \in Seq(Text) /\ Len(x) = Len(ls) /\ \A j \in 1 .. Len(ls) : x[j] = IF j = N THEN m ELSE ls[j]
    BY ONLY <2>0, ExceptSeq
  <2>2. y \in Seq(Text) /\ Len(y) = N /\ y[N] = m /\ \A j \in 1 .. Len(f) : y[j] = f[j]
    BY <1>1, <1>2, AppendElements
  <2> HIDE DEF x, y
  <2>3. ASSUME NEW j \in 1 .. N PROVE x[j] = y[j]
    <3>1. CASE j = N
      BY <2>1, <2>2, <3>1
    <3>2. CASE j # N
      <4>1. j \in 1 .. Len(f)
        BY <1>1, <3>2
      <4> QED
        BY <1>1, <2>1, <2>2, <3>2, <4>1
    <3> QED
      BY <3>1, <3>2
  <2>4. x = y
    BY <2>1, <2>2, <2>3, SeqEqual
  <2>5. y # <<>>
    BY <1>1, <2>2
  <2> QED
    BY <2>2, <2>4, <2>5 DEF x, y, TextLines
<1>5. LineGoesOn(ls, c) = IF c = Bash!NL THEN Append(ls, <<>>) ELSE [ls EXCEPT ![N] = m]
  BY DEF LineGoesOn, m, l, Last
<1> HIDE DEF N
<1>6. LineGoesOn(ls, c) = IF c = Bash!NL THEN Append(ls, <<>>) ELSE Append(f, m)
  BY Zenon, <1>4, <1>5
<1>7. LineGoesOn(ls, c) \in TextLines
  BY Zenon, <1>3, <1>4, <1>6
<1>8. N \in Nat \ {0} /\ Len(f) = N - 1
  BY <1>1
<1> QED
  BY <1>1, <1>6, <1>7, <1>8 DEF f, l, m, N

SplitSteps(s) == [n \in 1 .. Len(s) |-> [v \in TextLines |-> LineGoesOn(v, s[n])]]

\* A text is split into lines character by character.
LEMMA SplitRun ==
    ASSUME NEW s \in Text
    PROVE  \E r : IsRun(r, Len(s), TextLines, << <<>> >>, SplitSteps(s)) /\ Bash!Split(s) = r[Len(s)]
<1> DEFINE N == Len(s)
           h == SplitSteps(s)
           Body(f) == [S \in SUBSET (DOMAIN s) |->
                          IF S = {} THEN << <<>> >> ELSE LineGoesOn(f[S \ {Bash!Max(S)}], s[Bash!Max(S)])]
<1>1. N \in Nat /\ DOMAIN s = 1 .. N /\ \A n \in 1 .. N : s[n] \in Letters
  BY DEF Text
<1>2. \A S : Bash!Max(S) = Max(S)
  BY DEF Bash!Max, Max
<1>3. IsStep(h, N, TextLines) /\ \A n \in 1 .. N, v \in TextLines : h[n][v] = LineGoesOn(v, s[n])
  BY <1>1, LineGoesOnTyped DEF IsStep, SplitSteps
<1> DEFINE b == << <<>> >>
<1>4. b \in TextLines
  BY DEF Text, TextLines
<1> HIDE DEF h, N, b
<1>5. \E f : f = Body(f)
  <2>1. PICK g : IsFold(g, N, TextLines, b, h)
    BY <1>1, <1>3, <1>4, FoldExists
  <2>2. g \in [SUBSET (1 .. N) -> TextLines] /\ g[{}] = << <<>> >>
        /\ \A S \in SUBSET (1 .. N) : S # {} => g[S] = h[Max(S)][g[S \ {Max(S)}]]
    BY <2>1 DEF IsFold, b
  <2>3. ASSUME NEW S \in SUBSET (1 .. N), S # {}
        PROVE  g[S] = LineGoesOn(g[S \ {Bash!Max(S)}], s[Bash!Max(S)])
    <3>1. Max(S) \in 1 .. N
      BY <1>1, <2>3, GreatestOne
    <3>2. S \ {Max(S)} \in SUBSET (1 .. N)
      OBVIOUS
    <3>3. g[S \ {Max(S)}] \in TextLines
      BY <2>2, <3>2
    <3> QED
      BY <1>2, <1>3, <2>2, <2>3, <3>1, <3>3
  <2>4. g = [S \in SUBSET (1 .. N) |-> g[S]]
    BY <2>2
  <2>5. g = Body(g)
    BY <1>1, <2>2, <2>3, <2>4
  <2> QED
    BY <2>5
<1> DEFINE c == CHOOSE f : f = Body(f)
<1>6. c = Body(c)
  BY Zenon, <1>5
<1>7. Bash!Split(s) = c[DOMAIN s]
  BY Zenon DEF LineGoesOn, Bash!Split, Bash!FoldLeft, Bash!MapThenFoldSet
<1> HIDE DEF c
<1>8. IsFolded(c, N, TextLines, b, h)
  <2>1. \A S \in SUBSET (1 .. N) :
           c[S] = IF S = {} THEN << <<>> >> ELSE LineGoesOn(c[S \ {Max(S)}], s[Max(S)])
    BY <1>1, <1>2, <1>6
  <2> SUFFICES ASSUME NEW S \in SUBSET (1 .. N)
               PROVE  /\ S = {} => c[S] = b
                      /\ S # {} /\ c[S \ {Max(S)}] \in TextLines => c[S] = h[Max(S)][c[S \ {Max(S)}]]
    BY DEF IsFolded
  <2>2. S # {} => Max(S) \in 1 .. N
    BY <1>1, GreatestOne
  <2> QED
    BY <1>3, <2>1, <2>2 DEF b
<1>9. PICK r : IsRun(r, N, TextLines, b, h) /\ c[1 .. N] = r[N]
  <2> DEFINE V == TextLines
  <2>1. N \in Nat /\ b \in V /\ IsStep(h, N, V) /\ IsFolded(c, N, V, b, h)
    BY <1>1, <1>3, <1>4, <1>8
  <2> HIDE DEF V
  <2>2. \E r : IsRun(r, N, V, b, h) /\ c[1 .. N] = r[N]
    BY ONLY <2>1, FoldRuns
  <2> QED
    BY <2>2 DEF V
<1>10. IsRun(r, N, TextLines, b, h) /\ Bash!Split(s) = r[N]
  BY <1>1, <1>7, <1>9
<1> QED
  BY <1>10 DEF N, b, h

\* One more character goes on with the lines.
LEMMA SplitOfAppend ==
    ASSUME NEW s \in Text, NEW e \in Letters
    PROVE  Bash!Split(s) \in TextLines /\ Bash!Split(Append(s, e)) = LineGoesOn(Bash!Split(s), e)
<1> DEFINE a == Append(s, e)
           N == Len(s)
           h == SplitSteps(s)
           k == SplitSteps(a)
           b == << <<>> >>
<1>1. a \in Text /\ Len(a) = N + 1 /\ N \in Nat /\ (\A i \in 1 .. N : a[i] = s[i]) /\ a[N + 1] = e
  BY AppendElements DEF Text
<1>2. (\A n \in 1 .. N : k[n] = h[n]) /\ k[N + 1] = [v \in TextLines |-> LineGoesOn(v, e)]
  <2> HIDE DEF a
  <2> QED
    BY <1>1 DEF SplitSteps
<1> HIDE DEF a
<1>3. PICK r : IsRun(r, N, TextLines, b, h) /\ Bash!Split(s) = r[N]
  BY SplitRun
<1>4. PICK q : IsRun(q, N + 1, TextLines, b, k) /\ Bash!Split(a) = q[N + 1]
  BY <1>1, SplitRun
<1> HIDE DEF h, k, N, b
<1>5. q[N + 1] = k[N + 1][r[N]] /\ r[N] \in TextLines
  BY <1>1, <1>2, <1>3, <1>4, RunGoesOn
<1> QED
  BY <1>2, <1>3, <1>4, <1>5 DEF a

\* No text is one line with nothing in it.
LEMMA SplitOfNothing == Bash!Split(<<>>) = << <<>> >>
<1> DEFINE s == <<>>
<1>1. s \in Text /\ Len(s) = 0
  BY DEF Text
<1> HIDE DEF s
<1>2. PICK r : IsRun(r, Len(s), TextLines, << <<>> >>, SplitSteps(s)) /\ Bash!Split(s) = r[Len(s)]
  BY <1>1, SplitRun
<1> QED
  BY <1>1, <1>2 DEF IsRun, s

\* What a line adds to the bytes of those before it, with its newline.
LineAdds(n, l) == n + Bash!Bytes(l) + 1

\* The bytes with one more line are a number.
LEMMA LineAddsTyped == \A n \in Nat, l \in Text : LineAdds(n, l) \in Nat
  BY BytesTyped DEF LineAdds

LineBytesSteps(s) == [n \in 1 .. Len(s) |-> [v \in Nat |-> LineAdds(v, s[n])]]

SomeLines == Seq(Text)

\* The bytes of lines are added up line by line.
LEMMA LineBytesRun ==
    ASSUME NEW s \in SomeLines
    PROVE  \E r : IsRun(r, Len(s), Nat, 0, LineBytesSteps(s)) /\ Bash!BytesOfLines(s) = r[Len(s)]
<1> DEFINE N == Len(s)
           h == LineBytesSteps(s)
           Body(f) == [S \in SUBSET (DOMAIN s) |->
                          IF S = {} THEN 0 ELSE LineAdds(f[S \ {Bash!Max(S)}], s[Bash!Max(S)])]
<1>1. N \in Nat /\ DOMAIN s = 1 .. N /\ \A n \in 1 .. N : s[n] \in Text
  BY DEF SomeLines
<1>2. \A S : Bash!Max(S) = Max(S)
  BY DEF Bash!Max, Max
<1>3. IsStep(h, N, Nat) /\ \A n \in 1 .. N, v \in Nat : h[n][v] = LineAdds(v, s[n])
  BY <1>1, LineAddsTyped DEF IsStep, LineBytesSteps
<1> DEFINE b == 0
<1>4. b \in Nat
  OBVIOUS
<1> HIDE DEF h, N, b
<1>5. \E f : f = Body(f)
  <2>1. PICK g : IsFold(g, N, Nat, b, h)
    BY <1>1, <1>3, <1>4, FoldExists
  <2>2. g \in [SUBSET (1 .. N) -> Nat] /\ g[{}] = 0
        /\ \A S \in SUBSET (1 .. N) : S # {} => g[S] = h[Max(S)][g[S \ {Max(S)}]]
    BY <2>1 DEF IsFold, b
  <2>3. ASSUME NEW S \in SUBSET (1 .. N), S # {}
        PROVE  g[S] = LineAdds(g[S \ {Bash!Max(S)}], s[Bash!Max(S)])
    <3>1. Max(S) \in 1 .. N
      BY <1>1, <2>3, GreatestOne
    <3>2. S \ {Max(S)} \in SUBSET (1 .. N)
      OBVIOUS
    <3>3. g[S \ {Max(S)}] \in Nat
      BY <2>2, <3>2
    <3> QED
      BY <1>2, <1>3, <2>2, <2>3, <3>1, <3>3
  <2>4. g = [S \in SUBSET (1 .. N) |-> g[S]]
    BY <2>2
  <2>5. g = Body(g)
    BY <1>1, <2>2, <2>3, <2>4
  <2> QED
    BY <2>5
<1> DEFINE c == CHOOSE f : f = Body(f)
<1>6. c = Body(c)
  BY Zenon, <1>5
<1>7. Bash!BytesOfLines(s) = c[DOMAIN s]
  BY Zenon DEF LineAdds, Bash!BytesOfLines, Bash!FoldLeft, Bash!MapThenFoldSet
<1> HIDE DEF c
<1>8. IsFolded(c, N, Nat, b, h)
  <2>1. \A S \in SUBSET (1 .. N) :
           c[S] = IF S = {} THEN 0 ELSE LineAdds(c[S \ {Max(S)}], s[Max(S)])
    BY <1>1, <1>2, <1>6
  <2> SUFFICES ASSUME NEW S \in SUBSET (1 .. N)
               PROVE  /\ S = {} => c[S] = b
                      /\ S # {} /\ c[S \ {Max(S)}] \in Nat => c[S] = h[Max(S)][c[S \ {Max(S)}]]
    BY DEF IsFolded
  <2>2. S # {} => Max(S) \in 1 .. N
    BY <1>1, GreatestOne
  <2> QED
    BY <1>3, <2>1, <2>2 DEF b
<1>9. PICK r : IsRun(r, N, Nat, b, h) /\ c[1 .. N] = r[N]
  <2> DEFINE V == Nat
  <2>1. N \in Nat /\ b \in V /\ IsStep(h, N, V) /\ IsFolded(c, N, V, b, h)
    BY <1>1, <1>3, <1>4, <1>8
  <2> HIDE DEF V
  <2>2. \E r : IsRun(r, N, V, b, h) /\ c[1 .. N] = r[N]
    BY ONLY <2>1, FoldRuns
  <2> QED
    BY <2>2 DEF V
<1>10. IsRun(r, N, Nat, b, h) /\ Bash!BytesOfLines(s) = r[N]
  BY <1>1, <1>7, <1>9
<1> QED
  BY <1>10 DEF N, b, h

\* One more line adds its bytes and its newline.
LEMMA LineBytesOfAppend ==
    ASSUME NEW s \in SomeLines, NEW e \in Text
    PROVE  Bash!BytesOfLines(s) \in Nat /\ Bash!BytesOfLines(Append(s, e)) = LineAdds(Bash!BytesOfLines(s), e)
<1> DEFINE a == Append(s, e)
           N == Len(s)
           h == LineBytesSteps(s)
           k == LineBytesSteps(a)
           b == 0
<1>1. a \in SomeLines /\ Len(a) = N + 1 /\ N \in Nat /\ (\A i \in 1 .. N : a[i] = s[i]) /\ a[N + 1] = e
  BY AppendElements DEF SomeLines
<1>2. (\A n \in 1 .. N : k[n] = h[n]) /\ k[N + 1] = [v \in Nat |-> LineAdds(v, e)]
  <2> HIDE DEF a
  <2> QED
    BY <1>1 DEF LineBytesSteps
<1> HIDE DEF a
<1>3. PICK r : IsRun(r, N, Nat, b, h) /\ Bash!BytesOfLines(s) = r[N]
  BY LineBytesRun
<1>4. PICK q : IsRun(q, N + 1, Nat, b, k) /\ Bash!BytesOfLines(a) = q[N + 1]
  BY <1>1, LineBytesRun
<1> HIDE DEF h, k, N, b
<1>5. q[N + 1] = k[N + 1][r[N]] /\ r[N] \in Nat
  BY <1>1, <1>2, <1>3, <1>4, RunGoesOn
<1> QED
  BY <1>2, <1>3, <1>4, <1>5 DEF a

\* No lines have no bytes.
LEMMA LineBytesOfNothing == Bash!BytesOfLines(<<>>) = 0
<1> DEFINE s == <<>>
<1>1. s \in SomeLines /\ Len(s) = 0
  BY DEF SomeLines
<1> HIDE DEF s
<1>2. PICK r : IsRun(r, Len(s), Nat, 0, LineBytesSteps(s)) /\ Bash!BytesOfLines(s) = r[Len(s)]
  BY <1>1, LineBytesRun
<1> QED
  BY <1>1, <1>2 DEF IsRun, s

\* What a byte adds to the text: a character, when it is the last of one.
RawBytes == {"a", "n", "L", "T"}
Raw == Seq(RawBytes)
Plain == Seq({"a", "n", "e"})
Decoded(s, b) == IF b = "L" THEN s ELSE Append(s, IF b = "T" THEN "e" ELSE b)

\* A byte adds a character or none.
LEMMA DecodedTyped == \A s \in Plain, b \in RawBytes : Decoded(s, b) \in Plain
  BY DEF Decoded, Plain, RawBytes

DecodeSteps(s) == [n \in 1 .. Len(s) |-> [v \in Plain |-> Decoded(v, s[n])]]

\* Bytes are decoded one after the other.
LEMMA DecodeRun ==
    ASSUME NEW s \in Raw
    PROVE  \E r : IsRun(r, Len(s), Plain, <<>>, DecodeSteps(s)) /\ Bash!Decode(s) = r[Len(s)]
<1> DEFINE N == Len(s)
           h == DecodeSteps(s)
           Body(f) == [S \in SUBSET (DOMAIN s) |->
                          IF S = {} THEN <<>> ELSE Decoded(f[S \ {Bash!Max(S)}], s[Bash!Max(S)])]
<1>1. N \in Nat /\ DOMAIN s = 1 .. N /\ \A n \in 1 .. N : s[n] \in RawBytes
  BY DEF Raw
<1>2. \A S : Bash!Max(S) = Max(S)
  BY DEF Bash!Max, Max
<1>3. IsStep(h, N, Plain) /\ \A n \in 1 .. N, v \in Plain : h[n][v] = Decoded(v, s[n])
  BY <1>1, DecodedTyped DEF IsStep, DecodeSteps
<1> DEFINE b == <<>>
<1>4. b \in Plain
  BY DEF Plain
<1> HIDE DEF h, N, b
<1>5. \E f : f = Body(f)
  <2>1. PICK g : IsFold(g, N, Plain, b, h)
    BY <1>1, <1>3, <1>4, FoldExists
  <2>2. g \in [SUBSET (1 .. N) -> Plain] /\ g[{}] = <<>>
        /\ \A S \in SUBSET (1 .. N) : S # {} => g[S] = h[Max(S)][g[S \ {Max(S)}]]
    BY <2>1 DEF IsFold, b
  <2>3. ASSUME NEW S \in SUBSET (1 .. N), S # {}
        PROVE  g[S] = Decoded(g[S \ {Bash!Max(S)}], s[Bash!Max(S)])
    <3>1. Max(S) \in 1 .. N
      BY <1>1, <2>3, GreatestOne
    <3>2. S \ {Max(S)} \in SUBSET (1 .. N)
      OBVIOUS
    <3>3. g[S \ {Max(S)}] \in Plain
      BY <2>2, <3>2
    <3> QED
      BY <1>2, <1>3, <2>2, <2>3, <3>1, <3>3
  <2>4. g = [S \in SUBSET (1 .. N) |-> g[S]]
    BY <2>2
  <2>5. g = Body(g)
    BY <1>1, <2>2, <2>3, <2>4
  <2> QED
    BY <2>5
<1> DEFINE c == CHOOSE f : f = Body(f)
<1>6. c = Body(c)
  BY Zenon, <1>5
<1>7. Bash!Decode(s) = c[DOMAIN s]
  BY Zenon DEF Decoded, Bash!Decode, Bash!FoldLeft, Bash!MapThenFoldSet
<1> HIDE DEF c
<1>8. IsFolded(c, N, Plain, b, h)
  <2>1. \A S \in SUBSET (1 .. N) :
           c[S] = IF S = {} THEN <<>> ELSE Decoded(c[S \ {Max(S)}], s[Max(S)])
    BY <1>1, <1>2, <1>6
  <2> SUFFICES ASSUME NEW S \in SUBSET (1 .. N)
               PROVE  /\ S = {} => c[S] = b
                      /\ S # {} /\ c[S \ {Max(S)}] \in Plain => c[S] = h[Max(S)][c[S \ {Max(S)}]]
    BY DEF IsFolded
  <2>2. S # {} => Max(S) \in 1 .. N
    BY <1>1, GreatestOne
  <2> QED
    BY <1>3, <2>1, <2>2 DEF b
<1>9. PICK r : IsRun(r, N, Plain, b, h) /\ c[1 .. N] = r[N]
  <2> DEFINE V == Plain
  <2>1. N \in Nat /\ b \in V /\ IsStep(h, N, V) /\ IsFolded(c, N, V, b, h)
    BY <1>1, <1>3, <1>4, <1>8
  <2> HIDE DEF V
  <2>2. \E r : IsRun(r, N, V, b, h) /\ c[1 .. N] = r[N]
    BY ONLY <2>1, FoldRuns
  <2> QED
    BY <2>2 DEF V
<1>10. IsRun(r, N, Plain, b, h) /\ Bash!Decode(s) = r[N]
  BY <1>1, <1>7, <1>9
<1> QED
  BY <1>10 DEF N, b, h

\* One more byte goes on with the text that is decoded.
LEMMA DecodeOfAppend ==
    ASSUME NEW s \in Raw, NEW e \in RawBytes
    PROVE  Bash!Decode(s) \in Plain /\ Bash!Decode(Append(s, e)) = Decoded(Bash!Decode(s), e)
<1> DEFINE a == Append(s, e)
           N == Len(s)
           h == DecodeSteps(s)
           k == DecodeSteps(a)
           b == <<>>
<1>1. a \in Raw /\ Len(a) = N + 1 /\ N \in Nat /\ (\A i \in 1 .. N : a[i] = s[i]) /\ a[N + 1] = e
  BY AppendElements DEF Raw
<1>2. (\A n \in 1 .. N : k[n] = h[n]) /\ k[N + 1] = [v \in Plain |-> Decoded(v, e)]
  <2> HIDE DEF a
  <2> QED
    BY <1>1 DEF DecodeSteps
<1> HIDE DEF a
<1>3. PICK r : IsRun(r, N, Plain, b, h) /\ Bash!Decode(s) = r[N]
  BY DecodeRun
<1>4. PICK q : IsRun(q, N + 1, Plain, b, k) /\ Bash!Decode(a) = q[N + 1]
  BY <1>1, DecodeRun
<1> HIDE DEF h, k, N, b
<1>5. q[N + 1] = k[N + 1][r[N]] /\ r[N] \in Plain
  BY <1>1, <1>2, <1>3, <1>4, RunGoesOn
<1> QED
  BY <1>2, <1>3, <1>4, <1>5 DEF a

\* No bytes are decoded to no text.
LEMMA DecodeOfNothing == Bash!Decode(<<>>) = <<>>
<1> DEFINE s == <<>>
<1>1. s \in Raw /\ Len(s) = 0
  BY DEF Raw
<1> HIDE DEF s
<1>2. PICK r : IsRun(r, Len(s), Plain, <<>>, DecodeSteps(s)) /\ Bash!Decode(s) = r[Len(s)]
  BY <1>1, DecodeRun
<1> QED
  BY <1>1, <1>2 DEF IsRun, s

---------------------------------------------------------------------------
(* Chunks in a row.                                                        *)

\* Chunks put together, chunk by chunk.
Joined(s) == [v \in Plain |-> v \o s]
FlatSteps(cs) == [n \in 1 .. Len(cs) |-> Joined(cs[n])]

\* A chunk goes behind the text so far.
LEMMA FlatStepsTyped ==
    ASSUME NEW cs \in Seq(Plain)
    PROVE  /\ IsStep(FlatSteps(cs), Len(cs), Plain)
           /\ \A n \in 1 .. Len(cs), v \in Plain : FlatSteps(cs)[n][v] = v \o cs[n] /\ v \o cs[n] \in Plain
<1>1. \A n \in 1 .. Len(cs) : cs[n] \in Plain
  OBVIOUS
<1>2. \A v, w \in Plain : v \o w \in Plain
  BY DEF Plain
<1> QED
  BY <1>1, <1>2 DEF IsStep, FlatSteps, Joined

\* Chunks are joined one after the other.
LEMMA FlatRun ==
    ASSUME NEW cs \in Seq(Plain)
    PROVE  \E r : IsRun(r, Len(cs), Plain, <<>>, FlatSteps(cs)) /\ Bash!FlattenSeq(cs) = r[Len(cs)]
<1> DEFINE N == Len(cs)
           h == FlatSteps(cs)
           b == <<>>
           Body(f) == [i \in 1 .. Len(cs) |-> IF i = 1 THEN cs[i] ELSE f[i - 1] \o cs[i]]
<1>1. N \in Nat /\ \A n \in 1 .. N : cs[n] \in Plain
  OBVIOUS
<1>2. IsStep(h, N, Plain) /\ \A n \in 1 .. N, v \in Plain : h[n][v] = v \o cs[n] /\ v \o cs[n] \in Plain
  BY FlatStepsTyped
<1>3. b \in Plain /\ \A v \in Plain : b \o v = v
  BY ConcatEmptySeq DEF Plain
<1> HIDE DEF h
<1>4. CASE N = 0
  <2> DEFINE r == [n \in 0 .. 0 |-> b]
  <2>1. IsRun(r, N, Plain, b, h)
    BY <1>3, <1>4 DEF IsRun
  <2>2. Bash!FlattenSeq(cs) = cs /\ cs = <<>>
    BY <1>4 DEF Bash!FlattenSeq
  <2>3. r[0] = b
    OBVIOUS
  <2> HIDE DEF r
  <2> QED
    BY <1>4, <2>1, <2>2, <2>3 DEF h
<1>5. CASE N # 0
  <2>1. \E f : f = Body(f)
    <3> DEFINE prev == [n \in 1 .. N |-> n - 1]
    <3>1. Descends(prev, N)
      BY <1>1 DEF Descends
    <3>2. \A n \in 1 .. N : prev[n] = n - 1
      OBVIOUS
    <3> HIDE DEF prev, b, N
    <3>3. PICK g : IsRecursion(g, N, Plain, b, h, prev)
      BY <1>1, <1>2, <1>3, <3>1, RecursionExists
    <3>4. g \in [0 .. N -> Plain] /\ g[0] = b /\ \A n \in 1 .. N : g[n] = h[n][g[n - 1]]
      BY <3>2, <3>3 DEF IsRecursion
    <3> DEFINE f == [i \in 1 .. N |-> g[i]]
    <3>5. ASSUME NEW i \in 1 .. N
          PROVE  f[i] = IF i = 1 THEN cs[i] ELSE f[i - 1] \o cs[i]
      <4>1. i - 1 \in 0 .. N /\ g[i - 1] \in Plain
        BY <1>1, <3>4
      <4>2. g[i] = g[i - 1] \o cs[i]
        BY <1>2, <3>4, <4>1
      <4>3. CASE i = 1
        <5>1. i - 1 = 0
          BY <4>3
        <5> QED
          BY <1>1, <1>3, <3>4, <4>2, <4>3, <5>1
      <4>4. CASE i # 1
        <5>1. i - 1 \in 1 .. N
          BY <1>1, <4>4
        <5> QED
          BY <4>2, <4>4, <5>1
      <4> QED
        BY <4>3, <4>4
    <3>6. f = [i \in 1 .. N |-> f[i]]
      OBVIOUS
    <3> HIDE DEF f
    <3>7. f = Body(f)
      BY <3>5, <3>6 DEF N
    <3> QED
      BY <3>7
  <2> DEFINE c == CHOOSE f : f = Body(f)
  <2>2. c = Body(c)
    BY Zenon, <2>1
  <2>3. Bash!FlattenSeq(cs) = c[Len(cs)]
    BY Zenon, <1>5 DEF Bash!FlattenSeq
  <2> HIDE DEF c
  <2>4. \A i \in 1 .. N : c[i] = IF i = 1 THEN cs[i] ELSE c[i - 1] \o cs[i]
    BY <2>2
  <2> DEFINE r == [n \in 0 .. N |-> IF n = 0 THEN b ELSE c[n]]
             P == {n \in 0 .. N : r[n] \in Plain}
  <2>5. r[0] = b /\ \A n \in 1 .. N : r[n] = c[n]
    BY <1>1
  <2>6. r[N] = c[N] /\ r = [n \in 0 .. N |-> r[n]]
    BY <1>1, <1>5
  <2> HIDE DEF r, b, N
  <2>7. ASSUME NEW n \in 1 .. N, r[n - 1] \in Plain
        PROVE  r[n] = r[n - 1] \o cs[n] /\ r[n] \in Plain
    <3>1. CASE n = 1
      <4>1. n - 1 = 0
        BY <3>1
      <4> QED
        BY <1>1, <1>3, <2>4, <2>5, <3>1, <4>1
    <3>2. CASE n # 1
      <4>1. n - 1 \in 1 .. N
        BY <1>1, <3>2
      <4>2. r[n] = r[n - 1] \o cs[n]
        BY <2>4, <2>5, <3>2, <4>1
      <4> QED
        BY <1>2, <2>7, <4>2
    <3> QED
      BY <3>1, <3>2
  <2>8. ASSUME NEW n \in 0 .. N, \A k \in 0 .. n - 1 : k \in P PROVE n \in P
    <3>1. CASE n = 0
      BY <1>3, <2>5, <3>1
    <3>2. CASE n # 0
      <4>1. n \in 1 .. N /\ n - 1 \in 0 .. n - 1
        BY <1>1, <3>2
      <4>2. r[n - 1] \in Plain
        BY <2>8, <4>1
      <4> QED
        BY <2>7, <4>1, <4>2
    <3> QED
      BY <3>1, <3>2
  <2>9. \A n \in 0 .. N : n \in P
    <3> HIDE DEF P
    <3> QED
      BY <1>1, <2>8, Upward
  <2>10. r \in [0 .. N -> Plain]
    BY <2>6, <2>9
  <2>11. \A n \in 1 .. N : n - 1 \in 0 .. N /\ r[n - 1] \in Plain
    BY <1>1, <2>9
  <2>12. IsRun(r, N, Plain, b, h)
    BY <1>2, <2>5, <2>7, <2>10, <2>11 DEF IsRun
  <2> QED
    BY <2>3, <2>6, <2>12 DEF N, b, h
<1> QED
  BY <1>4, <1>5

\* One more chunk goes behind those before.
LEMMA FlatOfAppend ==
    ASSUME NEW cs \in Seq(Plain), NEW s \in Plain
    PROVE  /\ Bash!FlattenSeq(cs) \in Plain
           /\ Bash!FlattenSeq(Append(cs, s)) = Bash!FlattenSeq(cs) \o s
<1> DEFINE a == Append(cs, s)
           N == Len(cs)
           h == FlatSteps(cs)
           k == FlatSteps(a)
           b == <<>>
<1>1. a \in Seq(Plain) /\ Len(a) = N + 1 /\ N \in Nat /\ (\A i \in 1 .. N : a[i] = cs[i]) /\ a[N + 1] = s
  BY AppendElements
<1>2. (\A n \in 1 .. N : k[n] = h[n]) /\ \A v \in Plain : k[N + 1][v] = v \o s
  <2> HIDE DEF a
  <2>1. (\A n \in 1 .. N : k[n] = h[n]) /\ k[N + 1] = Joined(s)
    BY <1>1 DEF FlatSteps
  <2> QED
    BY <2>1 DEF Joined
<1> HIDE DEF a
<1>3. PICK r : IsRun(r, N, Plain, b, h) /\ Bash!FlattenSeq(cs) = r[N]
  BY FlatRun
<1>4. PICK q : IsRun(q, N + 1, Plain, b, k) /\ Bash!FlattenSeq(a) = q[N + 1]
  BY <1>1, FlatRun
<1> HIDE DEF h, k, N, b
<1>5. q[N + 1] = k[N + 1][r[N]] /\ r[N] \in Plain
  BY <1>1, <1>2, <1>3, <1>4, RunGoesOn
<1> QED
  BY <1>2, <1>3, <1>4, <1>5 DEF a

\* No chunks are no text.
LEMMA FlatOfNothing == Bash!FlattenSeq(<<>>) = <<>>
  BY DEF Bash!FlattenSeq

---------------------------------------------------------------------------
(* Two texts in a row: their bytes and lines.                              *)

\* The bytes of two texts are those of the one and those of the other.
LEMMA BytesOfConcat ==
    ASSUME NEW s \in Text, NEW t \in Text
    PROVE  /\ Bash!Bytes(s) \in Nat /\ Bash!Bytes(t) \in Nat
           /\ Bash!Bytes(s \o t) = Bash!Bytes(s) + Bash!Bytes(t)
<1> DEFINE P == {w \in Text : Bash!Bytes(s \o w) = Bash!Bytes(s) + Bash!Bytes(w)}
<1>1. Bash!Bytes(s) \in Nat /\ Bash!Bytes(t) \in Nat
  BY BytesTyped
<1>2. <<>> \in P
  <2>1. s \o <<>> = s /\ <<>> \in Text
    BY ConcatEmptySeq DEF Text
  <2> QED
    BY <1>1, <2>1, BytesOfNothing
<1>3. ASSUME NEW w \in Seq(Letters), NEW e \in Letters, w \in P PROVE Append(w, e) \in P
  <2>1. s \o w \in Seq(Letters) /\ s \in Seq(Letters) /\ Append(w, e) \in Text
    BY DEF Text
  <2>2. s \o Append(w, e) = Append(s \o w, e)
    BY <2>1, ConcatOfAppend
  <2>3. Bash!Bytes(Append(s \o w, e)) = Bash!Bytes(s \o w) + Bash!Size(e)
    <3> DEFINE v == s \o w
    <3> HIDE DEF v
    <3>1. v \in Seq(Letters)
      BY <2>1 DEF v
    <3>2. Bash!Bytes(Append(v, e)) = Bash!Bytes(v) + Bash!Size(e)
      BY <3>1, BytesOfAppend
    <3> QED
      BY <3>2 DEF v
  <2>4. Bash!Bytes(Append(w, e)) = Bash!Bytes(w) + Bash!Size(e) /\ Bash!Bytes(w) \in Nat
    BY BytesOfAppend
  <2>5. Bash!Bytes(s \o w) = Bash!Bytes(s) + Bash!Bytes(w) /\ Bash!Size(e) \in Nat
    BY <1>3, SizeIsSmall
  <2>6. Bash!Bytes(s \o Append(w, e)) = Bash!Bytes(s) + Bash!Bytes(Append(w, e))
    BY <1>1, <2>2, <2>3, <2>4, <2>5
  <2> QED
    BY <2>1, <2>6
<1>4. \A w \in Seq(Letters) : w \in P
  <2> HIDE DEF P
  <2> QED
    BY <1>2, <1>3, SequenceInduction
<1> QED
  BY <1>1, <1>4 DEF Text

\* A character has a byte.
LEMMA BytesAreMany ==
    ASSUME NEW s \in Text
    PROVE  Bash!Bytes(s) \in Nat /\ Bash!Bytes(s) >= Len(s)
<1> DEFINE P == {w \in Text : Bash!Bytes(w) >= Len(w)}
<1>1. <<>> \in P
  BY BytesOfNothing DEF Text
<1>2. ASSUME NEW w \in Seq(Letters), NEW e \in Letters, w \in P PROVE Append(w, e) \in P
  <2>1. Append(w, e) \in Text /\ Len(Append(w, e)) = Len(w) + 1 /\ Len(w) \in Nat
    BY DEF Text
  <2>2. Bash!Bytes(Append(w, e)) = Bash!Bytes(w) + Bash!Size(e) /\ Bash!Bytes(w) \in Nat
    BY BytesOfAppend
  <2>3. Bash!Size(e) \in Nat /\ Bash!Size(e) >= 1 /\ Bash!Bytes(w) >= Len(w)
    BY <1>2, SizeIsSmall
  <2> QED
    BY <2>1, <2>2, <2>3
<1>3. \A w \in Seq(Letters) : w \in P
  <2> HIDE DEF P
  <2> QED
    BY <1>1, <1>2, SequenceInduction
<1> QED
  BY <1>3, BytesTyped DEF Text

\* The bytes of lines are a number.
LEMMA LineBytesTyped == \A ls \in SomeLines : Bash!BytesOfLines(ls) \in Nat
<1> SUFFICES ASSUME NEW ls \in SomeLines PROVE Bash!BytesOfLines(ls) \in Nat
  OBVIOUS
<1>1. <<>> \in Text
  BY DEF Text
<1> QED
  BY <1>1, LineBytesOfAppend

\* The bytes of lines in two parts are those of the one and those of the other.
LEMMA LineBytesOfConcat ==
    ASSUME NEW s \in SomeLines, NEW t \in SomeLines
    PROVE  /\ Bash!BytesOfLines(s) \in Nat /\ Bash!BytesOfLines(t) \in Nat
           /\ Bash!BytesOfLines(s \o t) = Bash!BytesOfLines(s) + Bash!BytesOfLines(t)
<1> DEFINE P == {w \in SomeLines : Bash!BytesOfLines(s \o w) = Bash!BytesOfLines(s) + Bash!BytesOfLines(w)}
<1>1. Bash!BytesOfLines(s) \in Nat /\ Bash!BytesOfLines(t) \in Nat
  BY LineBytesTyped
<1>2. <<>> \in P
  <2>1. s \o <<>> = s /\ <<>> \in SomeLines
    BY ConcatEmptySeq DEF SomeLines
  <2> QED
    BY <1>1, <2>1, LineBytesOfNothing
<1>3. ASSUME NEW w \in Seq(Text), NEW e \in Text, w \in P PROVE Append(w, e) \in P
  <2>1. s \o w \in Seq(Text) /\ s \in Seq(Text) /\ Append(w, e) \in SomeLines
    BY DEF SomeLines
  <2>2. s \o Append(w, e) = Append(s \o w, e)
    BY <2>1, ConcatOfAppend
  <2>3. Bash!BytesOfLines(Append(s \o w, e)) = LineAdds(Bash!BytesOfLines(s \o w), e)
    <3> DEFINE v == s \o w
    <3> HIDE DEF v
    <3>1. v \in SomeLines
      BY <2>1 DEF v, SomeLines
    <3>2. Bash!BytesOfLines(Append(v, e)) = LineAdds(Bash!BytesOfLines(v), e)
      BY <3>1, LineBytesOfAppend
    <3> QED
      BY <3>2 DEF v
  <2>4. Bash!BytesOfLines(Append(w, e)) = LineAdds(Bash!BytesOfLines(w), e) /\ Bash!BytesOfLines(w) \in Nat
    BY LineBytesOfAppend DEF SomeLines
  <2>5. Bash!BytesOfLines(s \o w) = Bash!BytesOfLines(s) + Bash!BytesOfLines(w) /\ Bash!Bytes(e) \in Nat
    BY <1>3, BytesTyped
  <2>6. Bash!BytesOfLines(s \o Append(w, e)) = Bash!BytesOfLines(s) + Bash!BytesOfLines(Append(w, e))
    BY <1>1, <2>2, <2>3, <2>4, <2>5 DEF LineAdds
  <2> QED
    BY <2>1, <2>6
<1>4. \A w \in Seq(Text) : w \in P
  <2> HIDE DEF P
  <2> QED
    BY <1>2, <1>3, SequenceInduction
<1> QED
  BY <1>1, <1>4 DEF SomeLines

\* A text is split into one line or more.
LEMMA SplitTyped == \A s \in Text : Bash!Split(s) \in TextLines
<1>1. "a" \in Letters
  BY DEF Letters
<1> QED
  BY <1>1, SplitOfAppend

\* The number of lines, and the last one, after one more character.
LEMMA LineGoesOnEnds ==
    ASSUME NEW ls \in TextLines, NEW c \in Letters
    PROVE  /\ LineGoesOn(ls, c) \in TextLines /\ Len(ls) \in Nat \ {0} /\ Last(ls) \in Text
           /\ Len(LineGoesOn(ls, c)) = IF c = Bash!NL THEN Len(ls) + 1 ELSE Len(ls)
           /\ Last(LineGoesOn(ls, c)) = IF c = Bash!NL THEN <<>> ELSE Append(Last(ls), c)
<1> DEFINE f == Front(ls)
           l == Last(ls)
           m == Append(l, c)
           new == LineGoesOn(ls, c)
           none == <<>>
<1>1. /\ new \in TextLines /\ Len(ls) \in Nat \ {0} /\ l \in Text
      /\ f \in Seq(Text) /\ Len(f) = Len(ls) - 1
      /\ new = IF c = Bash!NL THEN Append(ls, none) ELSE Append(f, m)
  BY LineGoesOnTyped
<1>2. m \in Text /\ none \in Text /\ ls \in Seq(Text)
  BY <1>1 DEF Text, TextLines
<1> HIDE DEF f, l, m, new, none
<1>3. CASE c = Bash!NL
  <2>1. new = Append(ls, none)
    BY <1>1, <1>3
  <2>2. Len(Append(ls, none)) = Len(ls) + 1 /\ Last(Append(ls, none)) = none
    BY <1>2, AppendElements, FrontOfAppend
  <2> QED
    BY <1>1, <1>3, <2>1, <2>2 DEF new, none, l
<1>4. CASE c # Bash!NL
  <2>1. new = Append(f, m)
    BY <1>1, <1>4
  <2>2. Len(Append(f, m)) = Len(f) + 1 /\ Last(Append(f, m)) = m
    BY <1>1, <1>2, AppendElements, FrontOfAppend
  <2>3. Len(Append(f, m)) = Len(ls)
    BY <1>1, <2>2
  <2> QED
    BY <1>1, <1>4, <2>1, <2>2, <2>3 DEF new, m, l
<1> QED
  BY <1>3, <1>4

\* The number of lines of two texts together, and the last line.
LEMMA SplitOfConcat ==
    ASSUME NEW s \in Text, NEW t \in Text
    PROVE  /\ Len(Bash!Split(s \o t)) = Len(Bash!Split(s)) + Len(Bash!Split(t)) - 1
           /\ Last(Bash!Split(s \o t)) = IF Len(Bash!Split(t)) = 1
                                         THEN Last(Bash!Split(s)) \o Last(Bash!Split(t))
                                         ELSE Last(Bash!Split(t))
<1> DEFINE Both(w) ==
              /\ Len(Bash!Split(s \o w)) = Len(Bash!Split(s)) + Len(Bash!Split(w)) - 1
              /\ Last(Bash!Split(s \o w)) = IF Len(Bash!Split(w)) = 1
                                            THEN Last(Bash!Split(s)) \o Last(Bash!Split(w))
                                            ELSE Last(Bash!Split(w))
           P == {w \in Text : Both(w)}
           ls == Bash!Split(s)
<1>1. ls \in TextLines /\ Len(ls) \in Nat \ {0} /\ Last(ls) \in Text
  <2>1. ls \in TextLines /\ "a" \in Letters
    BY SplitTyped DEF Letters
  <2> HIDE DEF ls
  <2> QED
    BY <2>1, LineGoesOnEnds
<1>2. <<>> \in P
  <2> DEFINE none == <<>>
             one == << none >>
  <2>1. s \o none = s /\ none \in Text /\ Last(ls) \o none = Last(ls)
    BY <1>1, ConcatEmptySeq DEF Text
  <2>2. Bash!Split(none) = one
    BY SplitOfNothing
  <2>3. Len(one) = 1 /\ Last(one) = none
    BY DEF Last
  <2> HIDE DEF none, one
  <2>4. Both(none)
    BY <1>1, <2>1, <2>2, <2>3
  <2> QED
    BY <2>1, <2>4 DEF none
<1>3. ASSUME NEW w \in Seq(Letters), NEW e \in Letters, w \in P PROVE Append(w, e) \in P
  <2> DEFINE v == s \o w
             x == Bash!Split(w)
             y == Bash!Split(v)
             a == Append(w, e)
  <2>1. v \in Text /\ w \in Text /\ a \in Text /\ s \o a = Append(v, e)
    BY ConcatOfAppend DEF Text
  <2>2. Len(y) = Len(ls) + Len(x) - 1
        /\ Last(y) = IF Len(x) = 1 THEN Last(ls) \o Last(x) ELSE Last(x)
    BY <1>3
  <2> HIDE DEF v, a
  <2>3. x \in TextLines /\ y \in TextLines /\ Bash!Split(a) = LineGoesOn(x, e) /\ Bash!Split(s \o a) = LineGoesOn(y, e)
    BY <2>1, SplitOfAppend DEF a
  <2> HIDE DEF x, y, ls
  <2>4. /\ Len(x) \in Nat \ {0} /\ Last(x) \in Text
        /\ Len(LineGoesOn(x, e)) = IF e = Bash!NL THEN Len(x) + 1 ELSE Len(x)
        /\ Last(LineGoesOn(x, e)) = IF e = Bash!NL THEN <<>> ELSE Append(Last(x), e)
    BY <2>3, LineGoesOnEnds
  <2>5. /\ Len(y) \in Nat \ {0} /\ Last(y) \in Text
        /\ Len(LineGoesOn(y, e)) = IF e = Bash!NL THEN Len(y) + 1 ELSE Len(y)
        /\ Last(LineGoesOn(y, e)) = IF e = Bash!NL THEN <<>> ELSE Append(Last(y), e)
    BY <2>3, LineGoesOnEnds
  <2>6. Last(ls) \o Append(Last(x), e) = Append(Last(ls) \o Last(x), e)
    BY SMTT(30), <1>1, <2>4, ConcatOfAppend DEF Text
  <2>7. Len(Bash!Split(s \o a)) = Len(ls) + Len(Bash!Split(a)) - 1
    BY <1>1, <2>2, <2>3, <2>4, <2>5
  <2>8. Last(Bash!Split(s \o a)) = IF Len(Bash!Split(a)) = 1 THEN Last(ls) \o Last(Bash!Split(a))
                                   ELSE Last(Bash!Split(a))
    <3>1. CASE e = Bash!NL
      <4>1. Len(LineGoesOn(x, e)) # 1
        BY <2>4, <3>1
      <4> QED
        BY <2>3, <2>4, <2>5, <3>1, <4>1
    <3>2. CASE e # Bash!NL /\ Len(x) = 1
      BY <2>2, <2>3, <2>4, <2>5, <2>6, <3>2
    <3>3. CASE e # Bash!NL /\ Len(x) # 1
      BY <2>2, <2>3, <2>4, <2>5, <3>3
    <3> QED
      BY <3>1, <3>2, <3>3
  <2>9. a \in P
    BY <2>1, <2>7, <2>8 DEF ls
  <2> QED
    BY <2>9 DEF a
<1>4. \A w \in Seq(Letters) : w \in P
  <2> HIDE DEF P
  <2> QED
    BY <1>2, <1>3, SequenceInduction
<1>5. t \in P
  BY <1>4 DEF Text
<1> QED
  BY <1>5

\* Text without a newline is one line.
LEMMA SplitOfLine ==
    ASSUME NEW s \in Text
    PROVE  /\ Len(Bash!Split(s)) = 1 <=> ~Bash!Contains(s, Bash!NL)
           /\ Len(Bash!Split(s)) = 1 => Last(Bash!Split(s)) = s
<1> DEFINE P == {w \in Text : /\ Len(Bash!Split(w)) = 1 <=> ~Bash!Contains(w, Bash!NL)
                              /\ Len(Bash!Split(w)) = 1 => Last(Bash!Split(w)) = w}
<1>1. <<>> \in P
  <2> DEFINE none == <<>>
             one == << none >>
  <2>1. none \in Text /\ Bash!Split(none) = one /\ Len(one) = 1 /\ Last(one) = none
    BY SplitOfNothing DEF Text, Last
  <2>2. ~Bash!Contains(none, Bash!NL)
    BY DEF Bash!Contains
  <2> HIDE DEF one
  <2> QED
    BY <2>1, <2>2
<1>2. ASSUME NEW w \in Seq(Letters), NEW e \in Letters, w \in P PROVE Append(w, e) \in P
  <2> DEFINE a == Append(w, e)
             x == Bash!Split(w)
  <2>1. /\ a \in Text /\ w \in Text /\ Len(a) = Len(w) + 1 /\ Len(w) \in Nat
        /\ (\A i \in 1 .. Len(w) : a[i] = w[i]) /\ a[Len(w) + 1] = e
    BY AppendElements DEF Text
  <2>2. Bash!Split(a) = LineGoesOn(x, e) /\ x \in TextLines
    BY <2>1, SplitOfAppend
  <2> HIDE DEF x
  <2>3. /\ Len(x) \in Nat \ {0} /\ Last(x) \in Text
        /\ Len(LineGoesOn(x, e)) = IF e = Bash!NL THEN Len(x) + 1 ELSE Len(x)
        /\ Last(LineGoesOn(x, e)) = IF e = Bash!NL THEN <<>> ELSE Append(Last(x), e)
    BY <2>2, LineGoesOnEnds
  <2>4. /\ Len(x) = 1 <=> ~Bash!Contains(w, Bash!NL)
        /\ Len(x) = 1 => Last(x) = w
    BY <1>2 DEF x
  <2> HIDE DEF a
  <2>5. Bash!Contains(a, Bash!NL) <=> Bash!Contains(w, Bash!NL) \/ e = Bash!NL
    BY <2>1 DEF Bash!Contains
  <2>6. Len(Bash!Split(a)) = 1 <=> e # Bash!NL /\ Len(x) = 1
    BY <2>2, <2>3
  <2>7. Len(Bash!Split(a)) = 1 => Last(Bash!Split(a)) = a
    BY <2>2, <2>3, <2>4, <2>6 DEF a
  <2>8. a \in P
    BY <2>1, <2>4, <2>5, <2>6, <2>7
  <2> QED
    BY <2>8 DEF a
<1>3. \A w \in Seq(Letters) : w \in P
  <2> HIDE DEF P
  <2> QED
    BY <1>1, <1>2, SequenceInduction
<1>4. s \in P
  BY <1>3 DEF Text
<1> QED
  BY <1>4

\* A newline separates lines.
LEMMA SplitAtNewline ==
    ASSUME NEW s \in Text, NEW t \in Text
    PROVE  Bash!Split(Append(s, Bash!NL) \o t) = Bash!Split(s) \o Bash!Split(t)
<1> DEFINE b == Append(s, Bash!NL)
           ls == Bash!Split(s)
           P == {w \in Text : Bash!Split(b \o w) = ls \o Bash!Split(w)}
<1>1. b \in Text /\ Bash!NL \in Letters /\ ls \in TextLines /\ ls \in Seq(Text) /\ Bash!Split(b) = LineGoesOn(ls, Bash!NL)
  <2>1. Bash!NL \in Letters
    BY DEF Letters, Bash!NL
  <2>2. b \in Text
    BY <2>1 DEF Text
  <2>3. ls \in TextLines /\ Bash!Split(b) = LineGoesOn(ls, Bash!NL)
    BY <2>1, SplitOfAppend
  <2> QED
    BY <2>1, <2>2, <2>3 DEF TextLines
<1> HIDE DEF b, ls
<1>2. <<>> \in P
  <2> DEFINE none == <<>>
             one == << none >>
  <2>1. none \in Text /\ b \o none = b /\ Bash!Split(none) = one
    BY <1>1, SplitOfNothing, ConcatEmptySeq DEF Text
  <2>2. LineGoesOn(ls, Bash!NL) = Append(ls, none)
    BY DEF LineGoesOn
  <2>3. Append(ls, none) = ls \o one
    BY <1>1, <2>1
  <2> HIDE DEF one
  <2> QED
    BY <1>1, <2>1, <2>2, <2>3
<1>3. ASSUME NEW w \in Seq(Letters), NEW e \in Letters, w \in P PROVE Append(w, e) \in P
  <2> DEFINE a == Append(w, e)
             v == b \o w
             x == Bash!Split(w)
             f == Front(x)
             l == Last(x)
             m == Append(l, e)
             none == <<>>
  <2>1. v \in Text /\ w \in Text /\ a \in Text /\ b \o a = Append(v, e)
    BY <1>1, ConcatOfAppend DEF Text
  <2>2. Bash!Split(v) = ls \o x
    BY <1>3
  <2> HIDE DEF v, a
  <2>3. x \in TextLines /\ Bash!Split(a) = LineGoesOn(x, e) /\ Bash!Split(b \o a) = LineGoesOn(ls \o x, e)
        /\ ls \o x \in TextLines
    BY <2>1, <2>2, SplitOfAppend DEF a
  <2> HIDE DEF x
  <2>4. /\ f \in Seq(Text) /\ l \in Text /\ x = Append(f, l)
        /\ LineGoesOn(x, e) = IF e = Bash!NL THEN Append(x, none) ELSE Append(f, m)
    BY <2>3, LineGoesOnTyped
  <2>5. m \in Text /\ none \in Text /\ x \in Seq(Text)
    BY <2>3, <2>4 DEF Text, TextLines
  <2> DEFINE g == ls \o f
             y == ls \o x
  <2> HIDE DEF f, l, m, none
  <2>6. g \in Seq(Text) /\ y = Append(g, l)
    BY <1>1, <2>4, ConcatOfAppend
  <2> HIDE DEF g
  <2>7. Front(Append(g, l)) = g /\ Last(Append(g, l)) = l
    BY <2>4, <2>6, FrontOfAppend
  <2> HIDE DEF y
  <2>8. LineGoesOn(y, e) = IF e = Bash!NL THEN Append(y, none) ELSE Append(Front(y), Append(Last(y), e))
    BY <2>3, LineGoesOnTyped DEF y, none
  <2>9. LineGoesOn(y, e) = IF e = Bash!NL THEN Append(y, none) ELSE Append(g, m)
    BY <2>6, <2>7, <2>8 DEF m
  <2>10. ls \o Append(x, none) = Append(y, none) /\ ls \o Append(f, m) = Append(g, m)
    BY <1>1, <2>4, <2>5, ConcatOfAppend DEF y, g
  <2>11. LineGoesOn(y, e) = ls \o LineGoesOn(x, e)
    BY <2>4, <2>9, <2>10
  <2>12. a \in P
    BY <2>1, <2>3, <2>11 DEF y
  <2> QED
    BY <2>12 DEF a
<1>4. \A w \in Seq(Letters) : w \in P
  <2> HIDE DEF P
  <2> QED
    BY <1>2, <1>3, SequenceInduction
<1>5. t \in P
  BY <1>4 DEF Text
<1> QED
  BY <1>5 DEF b, ls

\* The bytes of lines are those of their text, with a newline for the last one too.
LEMMA BytesOfSplit ==
    ASSUME NEW s \in Text
    PROVE  Bash!BytesOfLines(Bash!Split(s)) = Bash!Bytes(s) + 1
<1> DEFINE P == {w \in Text : Bash!BytesOfLines(Bash!Split(w)) = Bash!Bytes(w) + 1}
<1>1. <<>> \in P
  <2> DEFINE none == <<>>
             one == << none >>
  <2>1. none \in Text /\ none \in SomeLines /\ one = Append(none, none) /\ Bash!Split(none) = one
    BY SplitOfNothing DEF Text, SomeLines
  <2>2. Bash!Bytes(none) = 0 /\ Bash!BytesOfLines(none) = 0
    BY BytesOfNothing, LineBytesOfNothing
  <2> HIDE DEF none, one
  <2>3. Bash!BytesOfLines(one) = LineAdds(0, none)
    BY <2>1, <2>2, LineBytesOfAppend
  <2>4. Bash!BytesOfLines(Bash!Split(none)) = Bash!Bytes(none) + 1
    BY <2>1, <2>2, <2>3 DEF LineAdds
  <2>5. none \in P
    BY <2>1, <2>4
  <2> QED
    BY <2>5 DEF none
<1>2. ASSUME NEW w \in Seq(Letters), NEW e \in Letters, w \in P PROVE Append(w, e) \in P
  <2> DEFINE a == Append(w, e)
             x == Bash!Split(w)
             f == Front(x)
             l == Last(x)
             m == Append(l, e)
             none == <<>>
  <2>1. a \in Text /\ w \in Text /\ x \in TextLines /\ Bash!Split(a) = LineGoesOn(x, e)
    BY SplitOfAppend DEF Text
  <2>2. Bash!Bytes(a) = Bash!Bytes(w) + Bash!Size(e) /\ Bash!Bytes(w) \in Nat /\ Bash!Size(e) \in Nat
    BY <2>1, BytesOfAppend, SizeIsSmall DEF Text
  <2> HIDE DEF x, a
  <2>3. /\ f \in Seq(Text) /\ l \in Text /\ x = Append(f, l)
        /\ LineGoesOn(x, e) = IF e = Bash!NL THEN Append(x, none) ELSE Append(f, m)
    BY <2>1, LineGoesOnTyped
  <2>4. m \in Text /\ none \in Text /\ x \in SomeLines /\ f \in SomeLines
    BY <2>1, <2>3 DEF Text, TextLines, SomeLines
  <2>5. Bash!Bytes(none) = 0
    BY BytesOfNothing
  <2>6. Bash!Bytes(m) = Bash!Bytes(l) + Bash!Size(e) /\ Bash!Bytes(l) \in Nat
    BY <2>3, BytesOfAppend DEF Text
  <2> HIDE DEF f, l, m, none
  <2>7. Bash!BytesOfLines(x) = Bash!Bytes(w) + 1
    BY <1>2 DEF x
  <2>8. /\ Bash!BytesOfLines(Append(x, none)) = LineAdds(Bash!BytesOfLines(x), none)
        /\ Bash!BytesOfLines(Append(f, m)) = LineAdds(Bash!BytesOfLines(f), m)
        /\ Bash!BytesOfLines(Append(f, l)) = LineAdds(Bash!BytesOfLines(f), l)
        /\ Bash!BytesOfLines(f) \in Nat
    BY <2>3, <2>4, LineBytesOfAppend
  <2>9. CASE e = Bash!NL
    <3>1. Bash!Size(e) = 1
      BY <2>9 DEF Bash!Size, Bash!NL
    <3>2. Bash!BytesOfLines(Bash!Split(a)) = Bash!Bytes(a) + 1
      BY <2>1, <2>2, <2>3, <2>5, <2>7, <2>8, <2>9, <3>1 DEF LineAdds
    <3> QED
      BY <2>1, <3>2 DEF a
  <2>10. CASE e # Bash!NL
    <3>1. Bash!Split(a) = Append(f, m)
      BY <2>1, <2>3, <2>10
    <3>2. Bash!BytesOfLines(Bash!Split(a)) = Bash!Bytes(a) + 1
      <4>1. Bash!Bytes(w) + 1 = Bash!BytesOfLines(f) + Bash!Bytes(l) + 1
        BY <2>3, <2>7, <2>8 DEF LineAdds
      <4>2. Bash!BytesOfLines(Bash!Split(a)) = Bash!BytesOfLines(f) + (Bash!Bytes(l) + Bash!Size(e)) + 1
        BY <2>6, <2>8, <3>1 DEF LineAdds
      <4> QED
        BY <2>2, <2>6, <2>8, <4>1, <4>2
    <3> QED
      BY <2>1, <3>2 DEF a
  <2> QED
    BY <2>9, <2>10
<1>3. \A w \in Seq(Letters) : w \in P
  <2> HIDE DEF P
  <2> QED
    BY <1>1, <1>2, SequenceInduction
<1>4. s \in P
  BY <1>3 DEF Text
<1> QED
  BY <1>4

\* The last line is empty when there is no text, or a newline ends it.
LEMMA LastLine ==
    ASSUME NEW s \in Text
    PROVE  /\ Last(Bash!Split(s)) \in Text
           /\ Bash!Bytes(Last(Bash!Split(s))) <= Bash!Bytes(s)
           /\ Last(Bash!Split(s)) = <<>> <=> s = <<>> \/ Last(s) = Bash!NL
<1> DEFINE x == Bash!Split(s)
           f == Front(x)
           l == Last(x)
<1>1. x \in TextLines
  BY SplitTyped
<1>2. "a" \in Letters
  BY DEF Letters
<1> HIDE DEF x
<1>3. f \in Seq(Text) /\ l \in Text /\ x = Append(f, l)
  BY <1>1, <1>2, LineGoesOnTyped
<1>4. Bash!Bytes(l) <= Bash!Bytes(s)
  <2> HIDE DEF f, l
  <2>1. Bash!BytesOfLines(x) = Bash!Bytes(s) + 1 /\ Bash!Bytes(s) \in Nat
    BY BytesOfSplit, BytesTyped DEF x
  <2>2. Bash!BytesOfLines(x) = LineAdds(Bash!BytesOfLines(f), l) /\ Bash!BytesOfLines(f) \in Nat
    BY <1>3, LineBytesOfAppend DEF SomeLines
  <2>3. Bash!Bytes(l) \in Nat
    BY <1>3, BytesTyped
  <2> QED
    BY <2>1, <2>2, <2>3 DEF LineAdds
<1>5. l = <<>> <=> s = <<>> \/ Last(s) = Bash!NL
  <2>1. CASE s = <<>>
    <3>1. x = << <<>> >>
      BY <2>1, SplitOfNothing DEF x
    <3>2. l = <<>>
      BY <3>1 DEF Last
    <3> QED
      BY <2>1, <3>2
  <2>2. CASE s # <<>>
    <3> DEFINE p == Front(s)
               e == Last(s)
               y == Bash!Split(p)
    <3>1. p \in Text /\ e \in Letters /\ s = Append(p, e)
      BY <2>2, FrontThenLast DEF Text
    <3> HIDE DEF p, e
    <3>2. y \in TextLines /\ x = LineGoesOn(y, e)
      BY <3>1, SplitOfAppend DEF x
    <3> HIDE DEF y
    <3>3. Last(y) \in Text /\ l = IF e = Bash!NL THEN <<>> ELSE Append(Last(y), e)
      BY <3>1, <3>2, LineGoesOnEnds
    <3>4. Append(Last(y), e) # <<>>
      BY <3>1, <3>3 DEF Text
    <3> HIDE DEF l
    <3>5. l = <<>> <=> e = Bash!NL
      BY <3>3, <3>4
    <3> QED
      BY <2>2, <3>5 DEF e
  <2> QED
    BY <2>1, <2>2
<1> QED
  BY <1>3, <1>4, <1>5 DEF x

\* The operators on sequences are those of the community modules.
LEMMA BashNames ==
    /\ \A s : Bash!Last(s) = Last(s) /\ Bash!Front(s) = Front(s) /\ Bash!Reverse(s) = Reverse(s)
    /\ \A s, e : Bash!Contains(s, e) = Contains(s, e)
  BY DEF Bash!Last, Last, Bash!Front, Front, Bash!Contains, Contains, Bash!Reverse, Reverse

\* No text has no lines.
LEMMA LinesOfNothing == Bash!LinesOf(<<>>) = <<>>
  BY DEF Bash!LinesOf

\* What LinesOf makes of text: a newline at the end starts no line.
LEMMA LinesOfText ==
    ASSUME NEW s \in Text, s # <<>>
    PROVE  /\ Bash!LinesOf(s) \in TextLines
           /\ Last(s) = Bash!NL =>
                 /\ Front(s) \in Text /\ s = Append(Front(s), Bash!NL)
                 /\ Bash!LinesOf(s) = Bash!Split(Front(s))
                 /\ Bash!BytesOfLines(Bash!LinesOf(s)) = Bash!Bytes(s)
                 /\ Len(Bash!LinesOf(s)) = Len(Bash!Split(s)) - 1
           /\ Last(s) # Bash!NL =>
                 /\ Bash!LinesOf(s) = Bash!Split(s)
                 /\ Bash!BytesOfLines(Bash!LinesOf(s)) = Bash!Bytes(s) + 1
<1> DEFINE p == Front(s)
           e == Last(s)
           x == Bash!Split(p)
           none == <<>>
<1>1. p \in Text /\ e \in Letters /\ s = Append(p, e)
  BY FrontThenLast DEF Text
<1>2. Bash!LinesOf(s) = IF e = Bash!NL THEN Front(Bash!Split(s)) ELSE Bash!Split(s)
  BY BashNames DEF Bash!LinesOf
<1>3. Bash!Split(s) \in TextLines /\ Bash!BytesOfLines(Bash!Split(s)) = Bash!Bytes(s) + 1
  BY SplitTyped, BytesOfSplit
<1> HIDE DEF p, e
<1>4. x \in TextLines /\ Bash!Split(s) = LineGoesOn(x, e)
  BY <1>1, SplitOfAppend
<1>5. Bash!BytesOfLines(x) = Bash!Bytes(p) + 1 /\ Bash!Bytes(p) \in Nat /\ Bash!Bytes(s) = Bash!Bytes(p) + Bash!Size(e)
  BY <1>1, BytesOfSplit, BytesOfAppend DEF Text
<1> HIDE DEF x
<1>6. CASE e = Bash!NL
  <2>1. LineGoesOn(x, e) = Append(x, none)
    BY <1>6 DEF LineGoesOn
  <2>2. x \in Seq(Text) /\ none \in Text
    BY <1>4 DEF TextLines, Text
  <2> HIDE DEF none
  <2>3. Front(Append(x, none)) = x /\ Len(Append(x, none)) = Len(x) + 1 /\ Len(x) \in Nat
    BY <2>2, FrontOfAppend, AppendElements
  <2>4. Bash!LinesOf(s) = x
    BY <1>2, <1>4, <1>6, <2>1, <2>3
  <2>5. Bash!Size(e) = 1
    BY <1>6 DEF Bash!Size, Bash!NL
  <2>6. Bash!BytesOfLines(Bash!LinesOf(s)) = Bash!Bytes(s)
    BY <1>5, <2>4, <2>5
  <2>7. Len(Bash!LinesOf(s)) = Len(Bash!Split(s)) - 1
    BY <1>4, <2>1, <2>3, <2>4
  <2> QED
    BY <1>1, <1>4, <1>6, <2>4, <2>6, <2>7 DEF x, p, e
<1>7. CASE e # Bash!NL
  BY <1>2, <1>3, <1>7 DEF e
<1> QED
  BY <1>6, <1>7

\* The lines of what follows a newline come after those before it.
LEMMA LinesAfterNewline ==
    ASSUME NEW s \in Text, NEW t \in Text, t # <<>>
    PROVE  Bash!LinesOf(Append(s, Bash!NL) \o t) = Bash!Split(s) \o Bash!LinesOf(t)
<1> DEFINE b == Append(s, Bash!NL)
           p == Front(t)
           e == Last(t)
           w == b \o t
<1>1. p \in Text /\ e \in Letters /\ t = Append(p, e) /\ Bash!NL \in Letters
  BY FrontThenLast DEF Text, Letters, Bash!NL
<1>2. b \in Text
  BY <1>1 DEF Text
<1>3. /\ e = Bash!NL => Bash!LinesOf(t) = Bash!Split(p)
      /\ e # Bash!NL => Bash!LinesOf(t) = Bash!Split(t)
  BY LinesOfText
<1> HIDE DEF p, e, b
<1>4. w = Append(b \o p, e)
  BY <1>1, <1>2, ConcatOfAppend DEF Text
<1>5. b \o p \in Text /\ w \in Text
  BY <1>1, <1>2 DEF Text
<1>6. /\ Front(w) = b \o p /\ Last(w) = e /\ w # <<>>
  <2> DEFINE q == b \o p
  <2> HIDE DEF q
  <2>1. q \in Seq(Letters) /\ w = Append(q, e)
    BY <1>4, <1>5 DEF q, Text
  <2>2. Append(q, e) # <<>>
    BY <1>1, <2>1
  <2>3. Front(Append(q, e)) = q /\ Last(Append(q, e)) = e
    BY <1>1, <2>1, FrontOfAppend
  <2> HIDE DEF w
  <2> QED
    BY <2>1, <2>2, <2>3 DEF q
<1> HIDE DEF w
<1>7. /\ e = Bash!NL => Bash!LinesOf(w) = Bash!Split(Front(w))
      /\ e # Bash!NL => Bash!LinesOf(w) = Bash!Split(w)
  BY <1>5, <1>6, LinesOfText
<1>8. /\ Bash!Split(b \o p) = Bash!Split(s) \o Bash!Split(p)
      /\ Bash!Split(w) = Bash!Split(s) \o Bash!Split(t)
  BY <1>1, SplitAtNewline DEF w, b
<1>9. Bash!LinesOf(w) = Bash!Split(s) \o Bash!LinesOf(t)
  BY <1>3, <1>6, <1>7, <1>8
<1> QED
  BY <1>9 DEF w, b

---------------------------------------------------------------------------
(* The end of a text.                                                      *)

LEMMA LengthFrom ==
    ASSUME NEW l \in Nat, NEW i \in Nat, i <= l + 1, NEW n, n = IF i <= l THEN l - i + 1 ELSE 0
    PROVE  n = l - i + 1
  OBVIOUS

\* A sequence from one of its positions on.
LEMMA FromParts ==
    ASSUME NEW S, NEW s \in Seq(S), NEW i \in 1 .. Len(s) + 1
    PROVE  /\ Bash!From(s, i) \in Seq(S) /\ Len(Bash!From(s, i)) = Len(s) - i + 1
           /\ SubSeq(s, 1, i - 1) \in Seq(S) /\ Len(SubSeq(s, 1, i - 1)) = i - 1
           /\ s = SubSeq(s, 1, i - 1) \o Bash!From(s, i)
           /\ \A j \in 1 .. Len(s) - i + 1 : Bash!From(s, i)[j] = s[i + j - 1]
<1> DEFINE p == SubSeq(s, 1, i - 1)
           q == SubSeq(s, i, Len(s))
<1>1. Len(s) \in Nat /\ i \in Nat /\ i >= 1 /\ i <= Len(s) + 1 /\ i - 1 \in 0 .. Len(s) /\ (i - 1) + 1 = i
  OBVIOUS
<1>2. p \in Seq(S) /\ Len(p) = i - 1
  BY <1>1, PrefixElements
<1>3. /\ q \in Seq(S) /\ Len(q) = IF i <= Len(s) THEN Len(s) - i + 1 ELSE 0
      /\ \A j \in 1 .. Len(s) - i + 1 : q[j] = s[i + j - 1]
  <2>1. i \in Int /\ Len(s) \in Int
    BY <1>1
  <2>2. \A j \in i .. Len(s) : s[j] \in S
    <3>1. \A j \in 1 .. Len(s) : s[j] \in S
      OBVIOUS
    <3>2. \A j \in i .. Len(s) : j \in 1 .. Len(s)
      BY ONLY <1>1
    <3> QED
      BY ONLY <3>1, <3>2
  <2> QED
    BY ONLY <2>1, <2>2, SubSeqProperties
<1>4. Len(q) = Len(s) - i + 1
  <2>1. Len(q) = IF i <= Len(s) THEN Len(s) - i + 1 ELSE 0
    BY <1>3
  <2> HIDE DEF q
  <2> QED
    BY ONLY Zenon, <1>1, <2>1, LengthFrom
<1>5. p \o q = s
  <2>1. /\ 1 \in 1 .. Len(s) + 1 /\ i - 1 \in 1 - 1 .. Len(s) /\ Len(s) \in i - 1 .. Len(s)
    BY <1>1
  <2>2. SubSeq(s, 1, i - 1) \o SubSeq(s, (i - 1) + 1, Len(s)) = SubSeq(s, 1, Len(s))
    BY Zenon, <2>1, ConcatAdjacentSubSeq
  <2>3. SubSeq(s, 1, Len(s)) = s
    BY PrefixWhole
  <2>4. (i - 1) + 1 = i
    BY ONLY <1>1
  <2> QED
    BY Zenon, <2>2, <2>3, <2>4
<1> QED
  BY <1>2, <1>3, <1>4, <1>5 DEF Bash!From

\* From the second of two sequences on, the first one does not matter.
LEMMA FromSecond ==
    ASSUME NEW S, NEW s \in Seq(S), NEW t \in Seq(S), NEW i \in 1 .. Len(t) + 1
    PROVE  Bash!From(s \o t, Len(s) + i) = Bash!From(t, i)
<1> DEFINE c == s \o t
           x == Bash!From(c, Len(s) + i)
           y == Bash!From(t, i)
<1>1. /\ c \in Seq(S) /\ Len(c) = Len(s) + Len(t) /\ Len(s) \in Nat /\ Len(t) \in Nat
      /\ \A j \in 1 .. Len(t) : c[Len(s) + j] = t[j]
  BY ConcatElements
<1> HIDE DEF c
<1>2. Len(s) + i \in 1 .. Len(c) + 1
  BY <1>1
<1>3. x \in Seq(S) /\ Len(x) = Len(c) - (Len(s) + i) + 1
      /\ \A j \in 1 .. Len(c) - (Len(s) + i) + 1 : x[j] = c[(Len(s) + i) + j - 1]
  <2> DEFINE k == Len(s) + i
  <2>1. c \in Seq(S) /\ k \in 1 .. Len(c) + 1
    BY <1>1, <1>2
  <2> HIDE DEF k
  <2>2. Bash!From(c, k) \in Seq(S) /\ Len(Bash!From(c, k)) = Len(c) - k + 1
        /\ \A j \in 1 .. Len(c) - k + 1 : Bash!From(c, k)[j] = c[k + j - 1]
    BY ONLY <2>1, FromParts
  <2> QED
    BY <2>2 DEF k
<1>4. y \in Seq(S) /\ Len(y) = Len(t) - i + 1 /\ \A j \in 1 .. Len(t) - i + 1 : y[j] = t[i + j - 1]
  BY <1>1, FromParts
<1> HIDE DEF x, y
<1>5. Len(x) = Len(y)
  BY <1>1, <1>3, <1>4
<1>6. ASSUME NEW j \in 1 .. Len(x) PROVE x[j] = y[j]
  <2>1. j \in 1 .. Len(t) - i + 1 /\ i + j - 1 \in 1 .. Len(t) /\ Len(s) + (i + j - 1) = (Len(s) + i) + j - 1
        /\ j \in 1 .. Len(c) - (Len(s) + i) + 1
    BY <1>1, <1>3
  <2> QED
    BY <1>1, <1>3, <1>4, <2>1
<1>7. x = y
  BY <1>3, <1>4, <1>5, <1>6, SeqEqual
<1> QED
  BY <1>7 DEF x, y, c

\* From a position of the first one on, the second comes whole.
LEMMA FromFirst ==
    ASSUME NEW S, NEW s \in Seq(S), NEW t \in Seq(S), NEW i \in 1 .. Len(s) + 1
    PROVE  Bash!From(s \o t, i) = Bash!From(s, i) \o t
<1> DEFINE c == s \o t
           f == Bash!From(s, i)
           x == Bash!From(c, i)
           y == f \o t
<1>1. /\ c \in Seq(S) /\ Len(c) = Len(s) + Len(t) /\ Len(s) \in Nat /\ Len(t) \in Nat
      /\ \A j \in 1 .. Len(s) + Len(t) : c[j] = IF j <= Len(s) THEN s[j] ELSE t[j - Len(s)]
  BY ConcatProperties
<1> HIDE DEF c
<1>2. f \in Seq(S) /\ Len(f) = Len(s) - i + 1 /\ \A j \in 1 .. Len(s) - i + 1 : f[j] = s[i + j - 1]
  BY FromParts
<1> HIDE DEF f
<1>3. /\ y \in Seq(S) /\ Len(y) = Len(f) + Len(t)
      /\ \A j \in 1 .. Len(f) + Len(t) : y[j] = IF j <= Len(f) THEN f[j] ELSE t[j - Len(f)]
  BY <1>2, ConcatProperties
<1>4. i \in 1 .. Len(c) + 1
  BY <1>1
<1>5. x \in Seq(S) /\ Len(x) = Len(c) - i + 1 /\ \A j \in 1 .. Len(c) - i + 1 : x[j] = c[i + j - 1]
  <2>1. c \in Seq(S)
    BY <1>1
  <2> QED
    BY ONLY <1>4, <2>1, FromParts
<1> HIDE DEF x, y
<1>0. /\ Len(s) \in Nat /\ Len(t) \in Nat /\ i \in 1 .. Len(s) + 1
      /\ Len(c) = Len(s) + Len(t) /\ Len(f) = Len(s) - i + 1
      /\ Len(x) = Len(c) - i + 1 /\ Len(y) = Len(f) + Len(t)
  BY <1>1, <1>2, <1>3, <1>5
<1>6. Len(x) = Len(y)
  BY ONLY <1>0
<1>7. ASSUME NEW j \in 1 .. Len(x) PROVE x[j] = y[j]
  <2>0. j \in 1 .. Len(x)
    OBVIOUS
  <2>1. j \in 1 .. Len(c) - i + 1 /\ i + j - 1 \in 1 .. Len(s) + Len(t) /\ j \in 1 .. Len(f) + Len(t)
    BY ONLY <1>0, <2>0
  <2>2. CASE j <= Len(f)
    <3>1. j \in 1 .. Len(s) - i + 1 /\ i + j - 1 <= Len(s)
      BY ONLY <1>0, <2>0, <2>1, <2>2
    <3>2. x[j] = c[i + j - 1] /\ c[i + j - 1] = s[i + j - 1]
      BY <1>1, <1>5, <2>1, <3>1
    <3>3. y[j] = f[j] /\ f[j] = s[i + j - 1]
      BY <1>2, <1>3, <2>1, <2>2, <3>1
    <3> QED
      BY ONLY <3>2, <3>3
  <2>3. CASE ~(j <= Len(f))
    <3>1. ~(i + j - 1 <= Len(s)) /\ (i + j - 1) - Len(s) = j - Len(f)
      BY ONLY <1>0, <2>0, <2>1, <2>3
    <3>2. x[j] = c[i + j - 1] /\ c[i + j - 1] = t[(i + j - 1) - Len(s)]
      BY <1>1, <1>5, <2>1, <3>1
    <3>3. y[j] = t[j - Len(f)]
      BY <1>3, <2>1, <2>3
    <3> QED
      BY ONLY <3>1, <3>2, <3>3
  <2> QED
    BY <2>2, <2>3
<1>8. x = y
  BY <1>3, <1>5, <1>6, <1>7, SeqEqual
<1> QED
  BY <1>8 DEF x, y, c, f

\* From the start it is all of a sequence, from behind its end nothing.
LEMMA FromStart ==
    ASSUME NEW S, NEW s \in Seq(S)
    PROVE  Bash!From(s, 1) = s /\ Bash!From(s, Len(s) + 1) = <<>>
<1>1. Bash!From(s, 1) = s
  BY PrefixWhole DEF Bash!From
<1>2. Len(s) \in Nat /\ Len(s) + 1 \in 1 .. Len(s) + 1
  OBVIOUS
<1> DEFINE x == Bash!From(s, Len(s) + 1)
<1>3. x \in Seq(S) /\ Len(x) = Len(s) - (Len(s) + 1) + 1
  BY <1>2, FromParts
<1> HIDE DEF x
<1>4. x = <<>>
  BY <1>2, <1>3
<1> QED
  BY <1>1, <1>4 DEF x

\* An earlier start adds the elements between.
LEMMA FromEarlier ==
    ASSUME NEW S, NEW s \in Seq(S), NEW i \in 1 .. Len(s) + 1, NEW j \in i .. Len(s) + 1
    PROVE  \E m \in Seq(S) : Bash!From(s, i) = m \o Bash!From(s, j)
<1> DEFINE p == SubSeq(s, 1, j - 1)
           q == Bash!From(s, j)
<1>1. j \in 1 .. Len(s) + 1 /\ Len(s) \in Nat
  OBVIOUS
<1>2. q \in Seq(S) /\ p \in Seq(S) /\ Len(p) = j - 1 /\ s = p \o q
  BY <1>1, FromParts
<1> HIDE DEF p, q
<1>3. i \in 1 .. Len(p) + 1
  BY <1>1, <1>2
<1>4. Bash!From(p \o q, i) = Bash!From(p, i) \o q
  BY <1>2, <1>3, FromFirst
<1>5. Bash!From(p, i) \in Seq(S)
  BY <1>2, <1>3, FromParts
<1> QED
  BY <1>2, <1>4, <1>5 DEF q

---------------------------------------------------------------------------
(* truncateTail: how many lines are kept.                                  *)

\* A set of numbers has a least one.
LEMMA LeastNumber ==
    ASSUME NEW S \in SUBSET Nat, S # {}
    PROVE  \E x \in S : \A y \in S : x <= y
<1>1. PICK x \in S : \A y \in S : ~(<<y, x>> \in Less)
  BY WFMin, LessWellFounded
<1>2. ASSUME NEW y \in S PROVE x <= y
  <2>1. x \in Nat /\ y \in Nat /\ ~(<<y, x>> \in Less)
    BY <1>1
  <2>2. ~(y < x)
    BY <2>1, LessIsLess
  <2> QED
    BY <2>1, <2>2
<1> QED
  BY <1>1, <1>2

\* Where the longest end within n bytes starts.
IsEnd(s, n, i) ==
    /\ i \in 1 .. Len(s) + 1 /\ Bash!Bytes(Bash!From(s, i)) <= n
    /\ \A j \in 1 .. i - 1 : Bash!Bytes(Bash!From(s, j)) > n

\* There is a longest end within n bytes,
LEMMA EndIs ==
    ASSUME NEW s \in Text, NEW n \in Nat
    PROVE  \E i \in 1 .. Len(s) + 1 : IsEnd(s, n, i) /\ Bash!EndWithin(s, n) = Bash!From(s, i)
<1> DEFINE S == {i \in 1 .. Len(s) + 1 : Bash!Bytes(Bash!From(s, i)) <= n}
           Q(i) == Bash!Bytes(Bash!From(s, i)) <= n /\ \A j \in 1 .. (i - 1) : Bash!Bytes(Bash!From(s, j)) > n
<1>1. Len(s) \in Nat /\ s \in Seq(Letters)
  BY DEF Text
<1>2. Len(s) + 1 \in S
  <2>1. Bash!From(s, Len(s) + 1) = <<>>
    BY <1>1, FromStart
  <2> QED
    BY <1>1, <2>1, BytesOfNothing
<1>3. ASSUME NEW i \in 1 .. Len(s) + 1 PROVE Bash!Bytes(Bash!From(s, i)) \in Nat
  <2>1. Bash!From(s, i) \in Text
    BY <1>1, FromParts DEF Text
  <2> QED
    BY <2>1, BytesTyped
<1>4. \E i \in 1 .. Len(s) + 1 : Q(i)
  <2>1. S \in SUBSET Nat /\ S # {}
    BY <1>1, <1>2
  <2>2. PICK i \in S : \A y \in S : i <= y
    <3> HIDE DEF S
    <3> QED
      BY <2>1, LeastNumber
  <2>3. ASSUME NEW j \in 1 .. (i - 1) PROVE Bash!Bytes(Bash!From(s, j)) > n
    <3>1. i \in 1 .. Len(s) + 1 /\ j \in 1 .. Len(s) + 1 /\ ~(i <= j)
      BY <1>1
    <3>2. j \notin S
      BY <2>2, <3>1
    <3> QED
      BY <1>3, <3>1, <3>2
  <2> QED
    BY <2>2, <2>3
<1> DEFINE c == CHOOSE i \in 1 .. (Len(s) + 1) : Q(i)
<1>5. c \in 1 .. Len(s) + 1 /\ Q(c)
  BY <1>4
<1>6. Bash!EndWithin(s, n) = Bash!From(s, c)
  BY Zenon DEF Bash!EndWithin
<1> HIDE DEF c
<1> QED
  BY <1>5, <1>6 DEF IsEnd

\* and one only.
LEMMA EndIsOne ==
    ASSUME NEW s \in Text, NEW n \in Nat, NEW i, NEW j, IsEnd(s, n, i), IsEnd(s, n, j)
    PROVE  i = j
<1>1. Len(s) \in Nat
  BY DEF Text
<1>2. i \in 1 .. Len(s) + 1 /\ j \in 1 .. Len(s) + 1
  BY DEF IsEnd
<1>3. \A k \in 1 .. Len(s) + 1 : Bash!Bytes(Bash!From(s, k)) \in Nat
  BY FromParts, BytesTyped DEF Text
<1>4. ASSUME i < j PROVE FALSE
  <2>1. i \in 1 .. j - 1
    BY <1>1, <1>2, <1>4
  <2> QED
    BY <1>2, <1>3, <2>1 DEF IsEnd
<1>5. ASSUME j < i PROVE FALSE
  <2>1. j \in 1 .. i - 1
    BY <1>1, <1>2, <1>5
  <2> QED
    BY <1>2, <1>3, <2>1 DEF IsEnd
<1> QED
  BY <1>1, <1>2, <1>4, <1>5

\* What comes before too long a text does not change its end.
LEMMA EndOfConcat ==
    ASSUME NEW s \in Text, NEW t \in Text, NEW n \in Nat, Bash!Bytes(t) > n
    PROVE  Bash!EndWithin(s \o t, n) = Bash!EndWithin(t, n)
<1> DEFINE c == s \o t
           M == Len(s)
<1>1. /\ c \in Text /\ Len(c) = M + Len(t) /\ M \in Nat /\ Len(t) \in Nat
      /\ s \in Seq(Letters) /\ t \in Seq(Letters)
  BY ConcatElements DEF Text
<1>2. PICK i \in 1 .. Len(t) + 1 : IsEnd(t, n, i) /\ Bash!EndWithin(t, n) = Bash!From(t, i)
  BY EndIs
<1>3. \A k \in 1 .. Len(t) + 1 : Bash!From(c, M + k) = Bash!From(t, k)
  BY <1>1, FromSecond
<1>4. \A k \in 1 .. M + 1 : Bash!From(c, k) = Bash!From(s, k) \o t
  BY <1>1, FromFirst
<1> HIDE DEF c, M
<1>5. ASSUME NEW j \in 1 .. (M + i) - 1 PROVE Bash!Bytes(Bash!From(c, j)) > n
  <2>1. CASE j <= M
    <3>1. j \in 1 .. M + 1
      BY <1>1, <2>1
    <3>2. Bash!From(s, j) \in Text
      BY <1>1, <3>1, FromParts DEF Text, M
    <3>3. Bash!Bytes(Bash!From(s, j) \o t) = Bash!Bytes(Bash!From(s, j)) + Bash!Bytes(t)
          /\ Bash!Bytes(Bash!From(s, j)) \in Nat /\ Bash!Bytes(t) \in Nat
      <4> DEFINE f == Bash!From(s, j)
      <4> HIDE DEF f
      <4>1. f \in Text
        BY <3>2 DEF f
      <4> QED
        BY <4>1, BytesOfConcat DEF f
    <3>4. Bash!From(c, j) = Bash!From(s, j) \o t
      BY <1>4, <3>1
    <3>5. Bash!Bytes(Bash!From(c, j)) = Bash!Bytes(Bash!From(s, j)) + Bash!Bytes(t)
      BY <3>3, <3>4
    <3> QED
      BY <3>3, <3>5
  <2>2. CASE j > M
    <3>1. j - M \in 1 .. Len(t) + 1 /\ j - M \in 1 .. i - 1 /\ M + (j - M) = j
      BY <1>1, <2>2
    <3>2. Bash!From(c, j) = Bash!From(t, j - M)
      BY <1>3, <3>1
    <3> QED
      BY <1>2, <3>1, <3>2 DEF IsEnd
  <2> QED
    BY <1>1, <2>1, <2>2
<1>6. IsEnd(c, n, M + i)
  <2>1. M + i \in 1 .. Len(c) + 1
    BY <1>1
  <2>2. Bash!Bytes(Bash!From(c, M + i)) <= n
    BY <1>2, <1>3 DEF IsEnd
  <2> QED
    BY <1>5, <2>1, <2>2 DEF IsEnd
<1>7. PICK k \in 1 .. Len(c) + 1 : IsEnd(c, n, k) /\ Bash!EndWithin(c, n) = Bash!From(c, k)
  BY <1>1, EndIs
<1>8. k = M + i
  BY <1>1, <1>6, <1>7, EndIsOne
<1> QED
  BY <1>2, <1>3, <1>7, <1>8 DEF c

(***************************************************************************)
(* truncateTail on lines                                                   *)
(***************************************************************************)

FitsIn(ls, k) == Bash!BytesOfLines(Bash!From(ls, Len(ls) - k + 1)) - 1 <= MaxBytes
IsKept(ls, k) ==
    /\ k \in 0 .. Len(ls)
    /\ k <= MaxLines /\ (k > 0 => FitsIn(ls, k))
    /\ k < Len(ls) /\ k < MaxLines => ~FitsIn(ls, k + 1)

LastLines(ls, k) ==
    IF k = 0 THEN [lines |-> <<Bash!EndWithin(Last(ls), MaxBytes)>>, truncated |-> TRUE, partial |-> TRUE]
    ELSE [lines |-> Bash!From(ls, Len(ls) - k + 1), truncated |-> TRUE, partial |-> FALSE]

\* The bytes of the last k lines, and of k + 1 of them.
LEMMA MoreLines ==
    ASSUME NEW ls \in SomeLines, NEW k \in 0 .. Len(ls), NEW m \in 0 .. k
    PROVE  /\ Bash!BytesOfLines(Bash!From(ls, Len(ls) - k + 1)) \in Nat
           /\ Bash!BytesOfLines(Bash!From(ls, Len(ls) - m + 1)) \in Nat
           /\ Bash!BytesOfLines(Bash!From(ls, Len(ls) - m + 1)) <= Bash!BytesOfLines(Bash!From(ls, Len(ls) - k + 1))
<1> DEFINE i == Len(ls) - k + 1
           j == Len(ls) - m + 1
           x == Bash!From(ls, i)
           y == Bash!From(ls, j)
<1>1. ls \in Seq(Text) /\ Len(ls) \in Nat
  BY DEF SomeLines
<1>2. i \in 1 .. Len(ls) + 1 /\ j \in i .. Len(ls) + 1 /\ j \in 1 .. Len(ls) + 1
  BY <1>1
<1> HIDE DEF i, j
<1>3. y \in SomeLines /\ x \in SomeLines
  BY <1>1, <1>2, FromParts DEF SomeLines
<1>4. PICK p \in Seq(Text) : x = p \o y
  BY <1>1, <1>2, FromEarlier
<1> HIDE DEF x, y
<1>5. Bash!BytesOfLines(p \o y) = Bash!BytesOfLines(p) + Bash!BytesOfLines(y)
      /\ Bash!BytesOfLines(p) \in Nat /\ Bash!BytesOfLines(y) \in Nat
  BY <1>3, LineBytesOfConcat DEF SomeLines
<1>6. Bash!BytesOfLines(x) \in Nat /\ Bash!BytesOfLines(y) \in Nat /\ Bash!BytesOfLines(y) <= Bash!BytesOfLines(x)
  BY <1>4, <1>5
<1> QED
  BY <1>6 DEF x, y, i, j

\* Where k lines fit, fewer do.
LEMMA FewerFit ==
    ASSUME NEW ls \in SomeLines, NEW k \in 0 .. Len(ls), NEW m \in 0 .. k, FitsIn(ls, k)
    PROVE  FitsIn(ls, m)
<1>1. /\ Bash!BytesOfLines(Bash!From(ls, Len(ls) - k + 1)) \in Nat
      /\ Bash!BytesOfLines(Bash!From(ls, Len(ls) - m + 1)) \in Nat
      /\ Bash!BytesOfLines(Bash!From(ls, Len(ls) - m + 1)) <= Bash!BytesOfLines(Bash!From(ls, Len(ls) - k + 1))
  BY MoreLines
<1> QED
  BY <1>1, LimitsAssumption DEF FitsIn

\* How many lines are kept is determined,
LEMMA KeptIsOne ==
    ASSUME NEW ls \in SomeLines, NEW k, NEW m, IsKept(ls, k), IsKept(ls, m)
    PROVE  k = m
<1>1. Len(ls) \in Nat /\ MaxLines \in Nat
  BY LimitsAssumption DEF SomeLines
<1>2. ASSUME NEW i, NEW j, IsKept(ls, i), IsKept(ls, j), i < j PROVE FALSE
  <2>1. i \in 0 .. Len(ls) /\ j \in 0 .. Len(ls) /\ j <= MaxLines
    BY <1>2 DEF IsKept
  <2>2. i < Len(ls) /\ i < MaxLines /\ j > 0 /\ i + 1 \in 0 .. j
    BY <1>1, <1>2, <2>1
  <2>3. FitsIn(ls, j) /\ ~FitsIn(ls, i + 1)
    BY <1>2, <2>2 DEF IsKept
  <2>4. FitsIn(ls, i + 1)
    <3> DEFINE n == i + 1
    <3>1. n \in 0 .. j
      BY <2>2
    <3> HIDE DEF n
    <3>2. FitsIn(ls, n)
      BY <2>1, <2>3, <3>1, FewerFit
    <3> QED
      BY <3>2 DEF n
  <2> QED
    BY <2>3, <2>4
<1>3. k \in 0 .. Len(ls) /\ m \in 0 .. Len(ls)
  BY DEF IsKept
<1>4. ~(k < m) /\ ~(m < k)
  BY <1>2
<1> QED
  BY <1>1, <1>3, <1>4

\* and there always is such a number.
LEMMA KeptExists ==
    ASSUME NEW ls \in SomeLines
    PROVE  \E k \in 0 .. Len(ls) : IsKept(ls, k)
<1> DEFINE N == Len(ls)
           S == {k \in 1 .. N : k <= MaxLines /\ FitsIn(ls, k)}
<1>1. N \in Nat /\ MaxLines \in Nat /\ MaxLines >= 1
  BY LimitsAssumption DEF SomeLines
<1> HIDE DEF N
<1>2. CASE S = {}
  <2>1. 0 < N /\ 0 < MaxLines => ~FitsIn(ls, 0 + 1)
    BY <1>1, <1>2
  <2>2. 0 \in 0 .. N
    BY <1>1
  <2>3. IsKept(ls, 0)
    BY <1>1, <2>1, <2>2 DEF IsKept, N
  <2> QED
    BY <2>2, <2>3 DEF N
<1>3. CASE S # {}
  <2> DEFINE k == Max(S)
  <2>1. k \in S /\ \A y \in S : k >= y
    <3>1. S \in SUBSET (1 .. N)
      OBVIOUS
    <3> HIDE DEF S
    <3> QED
      BY <1>1, <1>3, <3>1, GreatestOne
  <2>2. k \in 0 .. N /\ k <= MaxLines /\ FitsIn(ls, k)
    BY <1>1, <2>1
  <2>3. ASSUME k < N, k < MaxLines PROVE ~FitsIn(ls, k + 1)
    <3> HIDE DEF k
    <3>1. ~(k >= k + 1) /\ k + 1 \in 1 .. N /\ k + 1 <= MaxLines
      BY <1>1, <2>2, <2>3
    <3> QED
      BY <2>1, <3>1
  <2> HIDE DEF k
  <2>4. IsKept(ls, k)
    BY <2>2, <2>3 DEF IsKept, N
  <2> QED
    BY <2>2, <2>4 DEF N
<1> QED
  BY <1>2, <1>3

\* truncateTail of text with more lines or bytes than the limits.
LEMMA TruncateTailIs ==
    ASSUME NEW s \in Text, s # <<>>
    PROVE  \E k \in 0 .. Len(Bash!LinesOf(s)) :
              /\ IsKept(Bash!LinesOf(s), k)
              /\ Bash!TruncateTail(s) =
                    IF Len(Bash!LinesOf(s)) <= MaxLines /\ Bash!Bytes(s) <= MaxBytes
                    THEN [lines |-> Bash!LinesOf(s), truncated |-> FALSE, partial |-> FALSE]
                    ELSE LastLines(Bash!LinesOf(s), k)
<1> DEFINE ls == Bash!LinesOf(s)
           Q(k) == /\ k <= MaxLines /\ (k > 0 => FitsIn(ls, k))
                   /\ k < Len(ls) /\ k < MaxLines => ~FitsIn(ls, k + 1)
           c == CHOOSE k \in 0 .. Len(ls) : Q(k)
<1>1. ls \in SomeLines
  BY LinesOfText DEF TextLines, SomeLines
<1>2. \E k \in 0 .. Len(ls) : Q(k)
  <2> HIDE DEF ls
  <2> QED
    BY <1>1, KeptExists DEF IsKept
<1>3. c \in 0 .. Len(ls) /\ Q(c)
  BY Zenon, <1>2
<1>4. Bash!TruncateTail(s) = IF Len(ls) <= MaxLines /\ Bash!Bytes(s) <= MaxBytes
                            THEN [lines |-> ls, truncated |-> FALSE, partial |-> FALSE]
                            ELSE IF c = 0 THEN [lines |-> <<Bash!EndWithin(Bash!Last(ls), MaxBytes)>>, truncated |-> TRUE, partial |-> TRUE]
                                 ELSE [lines |-> Bash!From(ls, Len(ls) - c + 1), truncated |-> TRUE, partial |-> FALSE]
  BY Zenon DEF Bash!TruncateTail, FitsIn
<1> HIDE DEF c, ls
<1>5. IsKept(ls, c)
  BY <1>3 DEF IsKept
<1>6. Bash!TruncateTail(s) = IF Len(ls) <= MaxLines /\ Bash!Bytes(s) <= MaxBytes
                            THEN [lines |-> ls, truncated |-> FALSE, partial |-> FALSE]
                            ELSE LastLines(ls, c)
  BY <1>4, BashNames DEF LastLines
<1> QED
  BY <1>3, <1>5, <1>6 DEF ls

---------------------------------------------------------------------------
(* What is shown of a truncated text depends on its end only.              *)

\* The end of two texts is that of the second.
LEMMA LastOfConcat ==
    ASSUME NEW S, NEW s \in Seq(S), NEW t \in Seq(S), t # <<>>
    PROVE  Last(s \o t) = Last(t) /\ s \o t # <<>>
<1> DEFINE c == s \o t
<1>1. /\ c \in Seq(S) /\ Len(c) = Len(s) + Len(t) /\ Len(s) \in Nat /\ Len(t) \in Nat /\ Len(t) > 0
      /\ \A j \in 1 .. Len(t) : c[Len(s) + j] = t[j]
  BY ConcatElements
<1> HIDE DEF c
<1>2. c[Len(c)] = t[Len(t)] /\ c # <<>>
  BY <1>1
<1> QED
  BY <1>2 DEF Last, c

\* The last line alone.
LEMMA LastLineAlone ==
    ASSUME NEW ms \in TextLines
    PROVE  /\ Len(ms) \in Nat \ {0} /\ Last(ms) \in Text
           /\ Bash!BytesOfLines(Bash!From(ms, Len(ms))) = Bash!Bytes(Last(ms)) + 1
<1> DEFINE f == Front(ms)
           l == Last(ms)
           none == <<>>
           one == <<l>>
<1>1. /\ Len(ms) \in Nat \ {0} /\ l \in Text /\ f \in Seq(Text) /\ Len(f) = Len(ms) - 1 /\ ms = Append(f, l)
  <2>1. "a" \in Letters
    BY DEF Letters
  <2> QED
    BY <2>1, LineGoesOnTyped
<1>2. one = Append(none, l) /\ none \in SomeLines /\ one \in Seq(Text) /\ Len(one) = 1 /\ Append(f, l) = f \o one
  BY <1>1 DEF SomeLines
<1>3. Bash!BytesOfLines(none) = 0
  BY LineBytesOfNothing
<1> HIDE DEF f, l, none, one
<1>4. Bash!BytesOfLines(one) = LineAdds(0, l)
  BY <1>1, <1>2, <1>3, LineBytesOfAppend
<1>5. Bash!From(f \o one, Len(f) + 1) = Bash!From(one, 1) /\ Bash!From(one, 1) = one
  <2> DEFINE i == 1
  <2>1. i \in 1 .. Len(one) + 1
    BY <1>2
  <2> HIDE DEF i
  <2>2. Bash!From(f \o one, Len(f) + i) = Bash!From(one, i)
    BY <1>1, <1>2, <2>1, FromSecond
  <2>3. Bash!From(one, 1) = one
    BY <1>2, FromStart
  <2> QED
    BY <2>2, <2>3 DEF i
<1>6. Len(f) + 1 = Len(ms) /\ Bash!Bytes(l) \in Nat
  BY <1>1, BytesTyped
<1>7. Bash!From(ms, Len(ms)) = one
  BY <1>1, <1>2, <1>5, <1>6
<1>8. Bash!BytesOfLines(Bash!From(ms, Len(ms))) = Bash!Bytes(l) + 1
  BY <1>4, <1>6, <1>7 DEF LineAdds
<1> QED
  BY <1>1, <1>8 DEF l

\* TextLines before too many bytes are left out, whatever they are.
LEMMA LinesBeforeAreLeft ==
    ASSUME NEW ms \in TextLines, NEW ls \in TextLines,
           Bash!Bytes(Last(ms)) + Bash!BytesOfLines(ls) > MaxBytes,
           NEW k, IsKept(ls, k)
    PROVE  IsKept(ms \o ls, k) /\ LastLines(ms \o ls, k) = LastLines(ls, k)
<1> DEFINE all == ms \o ls
           M == Len(ms)
           N == Len(ls)
<1>1. ms \in Seq(Text) /\ ls \in Seq(Text) /\ ls # <<>> /\ ms \in SomeLines /\ ls \in SomeLines
  BY DEF TextLines, SomeLines
<1>2. all \in Seq(Text) /\ Len(all) = M + N
  BY <1>1
<1>3. M \in Nat \ {0} /\ Last(ms) \in Text
      /\ Bash!BytesOfLines(Bash!From(ms, M)) = Bash!Bytes(Last(ms)) + 1 /\ N \in Nat \ {0}
  BY LastLineAlone
<1>4. Last(all) = Last(ls)
  BY <1>1, LastOfConcat
<1>5. \A i \in 1 .. N + 1 : Bash!From(all, M + i) = Bash!From(ls, i)
  BY <1>1, FromSecond
<1>6. Bash!From(all, M) = Bash!From(ms, M) \o ls /\ Bash!From(ms, M) \in SomeLines
  <2> DEFINE i == Len(ms)
  <2>1. i \in 1 .. Len(ms) + 1
    BY <1>3
  <2> HIDE DEF i
  <2>2. Bash!From(ms \o ls, i) = Bash!From(ms, i) \o ls
    BY <1>1, <2>1, FromFirst
  <2>3. Bash!From(ms, i) \in SomeLines
    BY <1>1, <2>1, FromParts DEF SomeLines
  <2> QED
    BY <2>2, <2>3 DEF i
<1> HIDE DEF all, M, N
<1>7. ASSUME NEW j \in 0 .. N
      PROVE  Bash!From(all, Len(all) - j + 1) = Bash!From(ls, N - j + 1)
  <2>1. N - j + 1 \in 1 .. N + 1 /\ Len(all) - j + 1 = M + (N - j + 1)
    BY <1>2, <1>3
  <2> QED
    BY <1>5, <2>1
<1>8. \A j \in 0 .. N : FitsIn(all, j) <=> FitsIn(ls, j)
  BY <1>7 DEF FitsIn, N
<1>9. ~FitsIn(all, N + 1)
  <2> DEFINE x == Bash!From(ms, M)
  <2>1. Len(all) - (N + 1) + 1 = M
    BY <1>2, <1>3
  <2>2. Bash!BytesOfLines(x \o ls) = Bash!BytesOfLines(x) + Bash!BytesOfLines(ls)
        /\ Bash!BytesOfLines(ls) \in Nat
    <3>1. x \in SomeLines
      BY <1>6
    <3> HIDE DEF x
    <3> QED
      BY <1>1, <3>1, LineBytesOfConcat
  <2>3. Bash!BytesOfLines(Bash!From(all, M)) = Bash!Bytes(Last(ms)) + 1 + Bash!BytesOfLines(ls)
    BY <1>3, <1>6, <2>2
  <2>4. Bash!Bytes(Last(ms)) \in Nat
    BY <1>3, BytesTyped
  <2>5. ~(Bash!BytesOfLines(Bash!From(all, M)) - 1 <= MaxBytes)
    BY <2>2, <2>3, <2>4, LimitsAssumption
  <2> QED
    BY <2>1, <2>5 DEF FitsIn
<1>10. k \in 0 .. N /\ k \in 0 .. M + N /\ k <= MaxLines
  BY <1>3 DEF IsKept, N
<1>11. k > 0 => FitsIn(all, k)
  BY <1>8, <1>10 DEF IsKept
<1>12. ASSUME k < M + N, k < MaxLines PROVE ~FitsIn(all, k + 1)
  <2>1. CASE k = N
    BY <1>9, <2>1
  <2>2. CASE k < N
    <3>1. ~FitsIn(ls, k + 1)
      BY <1>12, <2>2 DEF IsKept, N
    <3>2. k + 1 \in 0 .. N
      BY <1>3, <1>10, <2>2
    <3> DEFINE j == k + 1
    <3> HIDE DEF j
    <3>3. FitsIn(all, j) <=> FitsIn(ls, j)
      BY <1>8, <3>2 DEF j
    <3> QED
      BY <3>1, <3>3 DEF j
  <2> QED
    BY <1>3, <1>10, <2>1, <2>2
<1>13. IsKept(all, k)
  BY <1>2, <1>10, <1>11, <1>12 DEF IsKept
<1>14. LastLines(all, k) = LastLines(ls, k)
  <2>1. Bash!From(all, Len(all) - k + 1) = Bash!From(ls, Len(ls) - k + 1)
    BY <1>7, <1>10 DEF N
  <2> QED
    BY Zenon, <1>4, <2>1 DEF LastLines
<1> QED
  BY <1>13, <1>14 DEF all

\* A result that is said to be truncated is otherwise the same.
LEMMA SaidTruncated ==
    ASSUME NEW x, NEW t, NEW p
    PROVE  [[lines |-> x, truncated |-> t, partial |-> p] EXCEPT !.truncated = TRUE]
              = [lines |-> x, truncated |-> TRUE, partial |-> p]
<1> DEFINE Fields == {"lines", "truncated", "partial"}
           r == [lines |-> x, truncated |-> t, partial |-> p]
           q == [lines |-> x, truncated |-> TRUE, partial |-> p]
           e == [r EXCEPT !.truncated = TRUE]
<1>1. r = [lines |-> x, truncated |-> t, partial |-> p] /\ q = [lines |-> x, truncated |-> TRUE, partial |-> p]
      /\ e = [r EXCEPT !.truncated = TRUE]
  OBVIOUS
<1> HIDE DEF r, q, e
<1>2. DOMAIN r = Fields /\ DOMAIN q = Fields
  BY <1>1
<1>3. DOMAIN e = DOMAIN r
  BY <1>1
<1>4. e = [f \in DOMAIN r |-> e[f]] /\ q = [f \in DOMAIN q |-> q[f]]
  BY <1>1
<1>5. e.lines = q.lines
  BY <1>1
<1>6. e.partial = q.partial
  BY <1>1
<1>7. e.truncated = TRUE
  BY <1>1
<1>8. q.truncated = TRUE
  BY <1>1
<1>9. \A f \in DOMAIN r : e[f] = q[f]
  BY <1>2, <1>5, <1>6, <1>7, <1>8
<1>10. e = q
  BY <1>2, <1>3, <1>4, <1>9
<1> QED
  BY <1>10 DEF r, q, e

\* When everything fits, all lines are kept.
LEMMA AllAreKept ==
    ASSUME NEW ls \in TextLines, Len(ls) <= MaxLines, Bash!BytesOfLines(ls) - 1 <= MaxBytes,
           NEW k, IsKept(ls, k)
    PROVE  LastLines(ls, k) = [lines |-> ls, truncated |-> TRUE, partial |-> FALSE]
<1> DEFINE N == Len(ls)
<1>1. ls \in Seq(Text) /\ N \in Nat /\ N > 0 /\ ls \in SomeLines /\ MaxLines \in Nat
  BY LimitsAssumption DEF TextLines, SomeLines
<1>2. Bash!From(ls, 1) = ls
  BY <1>1, FromStart
<1> HIDE DEF N
<1>3. N - N + 1 = 1
  BY <1>1
<1>4. FitsIn(ls, N)
  BY <1>2, <1>3 DEF FitsIn, N
<1>5. IsKept(ls, N)
  <2>1. N \in 0 .. N /\ N <= MaxLines /\ ~(N < N)
    BY <1>1 DEF N
  <2> QED
    BY <1>4, <2>1 DEF IsKept, N
<1>6. k = N
  BY <1>1, <1>5, KeptIsOne
<1>7. k # 0 /\ Len(ls) - k + 1 = 1
  BY <1>1, <1>3, <1>6 DEF N
<1>8. LastLines(ls, k) = [lines |-> Bash!From(ls, Len(ls) - k + 1), truncated |-> TRUE, partial |-> FALSE]
  BY Zenon, <1>7 DEF LastLines
<1> QED
  BY Zenon, <1>2, <1>7, <1>8

\* The lines that truncateTail shows, said to be truncated.
Shown(s) == [Bash!TruncateTail(s) EXCEPT !.truncated = TRUE]

\* What is shown of a text that is said to be truncated: its last lines.
LEMMA ShownLines ==
    ASSUME NEW s \in Text, s # <<>>
    PROVE  \E k : IsKept(Bash!LinesOf(s), k) /\ Shown(s) = LastLines(Bash!LinesOf(s), k)
<1> DEFINE ls == Bash!LinesOf(s)
<1>1. ls \in TextLines
  BY LinesOfText
<1>2. Bash!BytesOfLines(ls) = Bash!Bytes(s) \/ Bash!BytesOfLines(ls) = Bash!Bytes(s) + 1
  BY LinesOfText
<1>3. PICK k \in 0 .. Len(ls) :
         /\ IsKept(ls, k)
         /\ Bash!TruncateTail(s) =
               IF Len(ls) <= MaxLines /\ Bash!Bytes(s) <= MaxBytes
               THEN [lines |-> ls, truncated |-> FALSE, partial |-> FALSE]
               ELSE LastLines(ls, k)
  BY TruncateTailIs
<1> HIDE DEF ls
<1>4. CASE Len(ls) <= MaxLines /\ Bash!Bytes(s) <= MaxBytes
  <2>1. Bash!Bytes(s) \in Nat /\ MaxBytes \in Nat
    BY BytesTyped, LimitsAssumption
  <2>2. Bash!BytesOfLines(ls) - 1 <= MaxBytes
    BY <1>2, <1>4, <2>1
  <2>3. LastLines(ls, k) = [lines |-> ls, truncated |-> TRUE, partial |-> FALSE]
    BY <1>1, <1>3, <1>4, <2>2, AllAreKept
  <2>4. Bash!TruncateTail(s) = [lines |-> ls, truncated |-> FALSE, partial |-> FALSE]
    BY Zenon, <1>3, <1>4
  <2>5. Shown(s) = [lines |-> ls, truncated |-> TRUE, partial |-> FALSE]
    <3> DEFINE r == [lines |-> ls, truncated |-> FALSE, partial |-> FALSE]
    <3>1. [r EXCEPT !.truncated = TRUE] = [lines |-> ls, truncated |-> TRUE, partial |-> FALSE]
      BY SaidTruncated
    <3>2. Bash!TruncateTail(s) = r
      BY <2>4
    <3> HIDE DEF r
    <3>3. Shown(s) = [r EXCEPT !.truncated = TRUE]
      BY Zenon, <3>2 DEF Shown
    <3> QED
      BY Zenon, <3>1, <3>3
  <2> QED
    BY Zenon, <1>3, <2>3, <2>5 DEF ls
<1>5. CASE ~(Len(ls) <= MaxLines /\ Bash!Bytes(s) <= MaxBytes)
  <2>1. Bash!TruncateTail(s) = LastLines(ls, k)
    BY <1>3, <1>5
  <2>2. [LastLines(ls, k) EXCEPT !.truncated = TRUE] = LastLines(ls, k)
    BY Zenon, SaidTruncated DEF LastLines
  <2> QED
    BY Zenon, <1>3, <2>1, <2>2 DEF Shown, ls
<1> QED
  BY <1>4, <1>5

\* What is shown of text that goes on behind a newline, when the line before it and the rest are too much.
LEMMA ShownAfterNewline ==
    ASSUME NEW s \in Text, NEW t \in Text, t # <<>>,
           Bash!Bytes(Last(Bash!Split(s))) + Bash!Bytes(t) > MaxBytes
    PROVE  Shown(Append(s, Bash!NL) \o t) = Shown(t)
<1> DEFINE w == Append(s, Bash!NL) \o t
           ls == Bash!LinesOf(t)
           ms == Bash!Split(s)
<1>1. w \in Text /\ w # <<>>
  <2> DEFINE b == Append(s, Bash!NL)
  <2>1. Bash!NL \in Letters
    BY DEF Bash!NL, Letters
  <2>2. b \in Seq(Letters) /\ t \in Seq(Letters)
    BY <2>1 DEF Text
  <2> HIDE DEF b
  <2>3. b \o t \in Seq(Letters) /\ b \o t # <<>>
    BY <2>2, LastOfConcat
  <2> QED
    BY <2>3 DEF b, Text
<1>2. Bash!LinesOf(w) = ms \o ls
  BY LinesAfterNewline
<1>3. ls \in TextLines /\ ms \in TextLines
  BY LinesOfText, SplitTyped
<1>4. Bash!BytesOfLines(ls) = Bash!Bytes(t) \/ Bash!BytesOfLines(ls) = Bash!Bytes(t) + 1
  BY LinesOfText
<1> HIDE DEF w
<1>5. PICK k : IsKept(ls, k) /\ Shown(t) = LastLines(ls, k)
  BY ShownLines
<1>6. PICK m : IsKept(Bash!LinesOf(w), m) /\ Shown(w) = LastLines(Bash!LinesOf(w), m)
  BY <1>1, ShownLines
<1>7. Bash!Bytes(Last(ms)) + Bash!BytesOfLines(ls) > MaxBytes
  <2>1. Bash!Bytes(Last(ms)) \in Nat /\ Bash!Bytes(t) \in Nat /\ MaxBytes \in Nat
    BY LastLine, BytesTyped, LimitsAssumption
  <2> QED
    BY <1>4, <2>1
<1> HIDE DEF ms, ls
<1>8. IsKept(ms \o ls, k) /\ LastLines(ms \o ls, k) = LastLines(ls, k)
  BY <1>3, <1>5, <1>7, LinesBeforeAreLeft
<1>9. ms \o ls \in SomeLines
  BY <1>3 DEF TextLines, SomeLines
<1>10. k = m
  <2> DEFINE all == ms \o ls
  <2>1. IsKept(all, k) /\ IsKept(all, m) /\ all \in SomeLines
    BY <1>2, <1>6, <1>8, <1>9
  <2> HIDE DEF all
  <2> QED
    BY <2>1, KeptIsOne
<1> QED
  BY <1>2, <1>5, <1>6, <1>8, <1>10 DEF w

\* What is shown of a last line that is too long by itself.
LEMMA ShownOfLongLine ==
    ASSUME NEW s \in Text, s # <<>>, Last(s) # Bash!NL, Bash!Bytes(Last(Bash!Split(s))) > MaxBytes
    PROVE  Shown(s) = [lines |-> <<Bash!EndWithin(Last(Bash!Split(s)), MaxBytes)>>, truncated |-> TRUE, partial |-> TRUE]
<1> DEFINE ls == Bash!LinesOf(s)
<1>1. ls \in TextLines /\ ls = Bash!Split(s) /\ ls \in SomeLines
  BY LinesOfText DEF TextLines, SomeLines
<1>2. PICK k : IsKept(ls, k) /\ Shown(s) = LastLines(ls, k)
  BY ShownLines
<1> HIDE DEF ls
<1>3. Len(ls) \in Nat \ {0} /\ Last(ls) \in Text
      /\ Bash!BytesOfLines(Bash!From(ls, Len(ls))) = Bash!Bytes(Last(ls)) + 1
  BY <1>1, LastLineAlone
<1>4. ~FitsIn(ls, 1)
  <2>1. Len(ls) - 1 + 1 = Len(ls)
    BY <1>3
  <2>2. Bash!Bytes(Last(ls)) \in Nat /\ Bash!Bytes(Last(ls)) > MaxBytes /\ MaxBytes \in Nat
    BY <1>1, <1>3, BytesTyped, LimitsAssumption
  <2>3. ~(Bash!BytesOfLines(Bash!From(ls, Len(ls))) - 1 <= MaxBytes)
    BY <1>3, <2>2
  <2> QED
    BY <2>1, <2>3 DEF FitsIn
<1>5. k = 0
  <2> SUFFICES ASSUME k # 0 PROVE FALSE
    OBVIOUS
  <2>1. k \in 0 .. Len(ls) /\ k > 0 /\ 1 \in 0 .. k
    BY <1>2, <1>3 DEF IsKept
  <2>2. FitsIn(ls, k)
    BY <1>2, <2>1 DEF IsKept
  <2>3. FitsIn(ls, 1)
    <3> DEFINE one == 1
    <3>1. one \in 0 .. k
      BY <2>1
    <3> HIDE DEF one
    <3>2. FitsIn(ls, one)
      BY <1>1, <2>1, <2>2, <3>1, FewerFit
    <3> QED
      BY <3>2 DEF one
  <2> QED
    BY <1>4, <2>3
<1> QED
  BY <1>1, <1>2, <1>5 DEF LastLines

---------------------------------------------------------------------------
(* The tail that the tool keeps, and what snapshot shows of it.            *)

\* What is kept of the text: all, or an end with more than MaxRolling bytes when the character before it,
\* which says whether a line starts there, is counted.
KeptEnd(w, t, start) ==
    \/ t = w /\ start
    \/ \E u \in Text, c \in Letters :
          /\ w = Append(u, c) \o t
          /\ Bash!Size(c) + Bash!Bytes(t) > Bash!MaxRolling
          /\ start <=> c = Bash!NL

\* The replacement character comes last.
ReplacedLast(w) == \A i \in 1 .. Len(w) - 1 : w[i] # "?"

\* A newline is a character of one byte.
LEMMA NewlineIsLetter == Bash!NL \in Letters /\ Bash!Size(Bash!NL) = 1
  BY DEF Bash!NL, Letters, Bash!Size

\* Text and text is text.
LEMMA TextTyped ==
    /\ <<>> \in Text
    /\ \A s \in Text, c \in Letters : Append(s, c) \in Text
    /\ \A s, t \in Text : s \o t \in Text
  BY DEF Text

\* Three texts in a row are the same however they are put together.
Together(s, t, u) == (s \o t) \o u = s \o (t \o u)
LEMMA TextAssociative ==
    ASSUME NEW s \in Text, NEW t \in Text, NEW u \in Text
    PROVE  Together(s, t, u)
  BY ConcatAssociative DEF Text, Together

\* The end that is kept when something is left out is long.
LEMMA KeptEndIsLong ==
    ASSUME NEW w \in Text, NEW t \in Text, NEW u \in Text, NEW c \in Letters,
           w = Append(u, c) \o t, Bash!Size(c) + Bash!Bytes(t) > Bash!MaxRolling, ReplacedLast(w)
    PROVE  t # <<>> /\ Bash!Bytes(t) > MaxBytes /\ Bash!Bytes(w) > MaxBytes /\ w # <<>>
<1> DEFINE b == Append(u, c)
<1>1. b \in Text /\ Len(b) = Len(u) + 1 /\ b[Len(u) + 1] = c /\ Len(u) \in Nat /\ Len(t) \in Nat
      /\ b \in Seq(Letters) /\ t \in Seq(Letters)
  BY AppendElements DEF Text
<1> HIDE DEF b
<1>2. Len(w) = Len(b) + Len(t) /\ \A i \in 1 .. Len(b) : w[i] = b[i]
  BY <1>1, ConcatElements DEF b
<1>3. Bash!Bytes(w) = Bash!Bytes(b) + Bash!Bytes(t) /\ Bash!Bytes(b) \in Nat /\ Bash!Bytes(t) \in Nat
  BY <1>1, BytesOfConcat DEF b
<1>4. Bash!MaxRolling = 2 * MaxBytes /\ MaxBytes \in Nat /\ MaxBytes >= 2 /\ Bash!Size(c) \in 1 .. 3
  BY LimitsAssumption, SizeIsSmall DEF Bash!MaxRolling
<1>5. t # <<>>
  <2> SUFFICES ASSUME t = <<>> PROVE FALSE
    OBVIOUS
  <2>1. Bash!Bytes(t) = 0
    BY BytesOfNothing
  <2> QED
    BY <1>4, <2>1
<1>6. c # "?"
  <2>1. Len(t) > 0
    BY <1>1, <1>5
  <2>2. Len(u) + 1 \in 1 .. Len(w) - 1 /\ Len(u) + 1 \in 1 .. Len(b)
    BY <1>1, <1>2, <2>1
  <2>3. w[Len(u) + 1] = c
    BY <1>1, <1>2, <2>2
  <2> QED
    BY <2>2, <2>3 DEF ReplacedLast
<1>7. Bash!Size(c) <= 2
  BY <1>6, SizeIsSmall
<1>8. Bash!Bytes(t) > MaxBytes /\ Bash!Bytes(w) > MaxBytes
  BY <1>3, <1>4, <1>7
<1>9. w # <<>>
  BY <1>1, <1>5, LastOfConcat DEF b
<1> QED
  BY <1>5, <1>8, <1>9

\* A line that goes on over a character and a text without a newline.
LEMMA LineOver ==
    ASSUME NEW u \in Text, NEW c \in Letters, c # Bash!NL, NEW h \in Text, ~Bash!Contains(h, Bash!NL)
    PROVE  \E l \in Text :
              /\ Last(Bash!Split(Append(u, c) \o h)) = Append(l, c) \o h
              /\ Bash!Bytes(Append(l, c) \o h) \in Nat
              /\ Bash!Bytes(Append(l, c) \o h) >= Bash!Size(c) + Bash!Bytes(h)
<1> DEFINE b == Append(u, c)
           x == Bash!Split(u)
           l == Last(x)
           m == Append(l, c)
<1>1. b \in Text /\ x \in TextLines /\ Bash!Split(b) = LineGoesOn(x, c)
  BY SplitOfAppend, TextTyped
<1> HIDE DEF x, b
<1>2. l \in Text /\ Last(Bash!Split(b)) = m
  BY <1>1, LineGoesOnEnds
<1>3. Len(Bash!Split(h)) = 1 /\ Last(Bash!Split(h)) = h
  BY SplitOfLine
<1>4. Last(Bash!Split(b \o h)) = m \o h
  <2>1. Last(Bash!Split(b \o h)) = IF Len(Bash!Split(h)) = 1
                                   THEN Last(Bash!Split(b)) \o Last(Bash!Split(h))
                                   ELSE Last(Bash!Split(h))
    BY <1>1, SplitOfConcat
  <2> QED
    BY Zenon, <1>2, <1>3, <2>1
<1> HIDE DEF l
<1>5. m \in Text /\ Bash!Bytes(m) = Bash!Bytes(l) + Bash!Size(c) /\ Bash!Bytes(l) \in Nat
  BY <1>2, BytesOfAppend, TextTyped DEF Text
<1> HIDE DEF m
<1>6. Bash!Bytes(m \o h) = Bash!Bytes(m) + Bash!Bytes(h) /\ Bash!Bytes(h) \in Nat
  BY <1>5, BytesOfConcat
<1>7. Bash!Size(c) \in Nat
  BY SizeIsSmall
<1>8. Bash!Bytes(m \o h) \in Nat /\ Bash!Bytes(m \o h) >= Bash!Size(c) + Bash!Bytes(h)
  BY <1>5, <1>6, <1>7
<1> QED
  BY <1>2, <1>4, <1>8 DEF m, b

\* The first newline of a text.
LEMMA FirstNewline ==
    ASSUME NEW t \in Text, Bash!Contains(t, Bash!NL)
    PROVE  \E i \in 1 .. Len(t) :
              /\ t[i] = Bash!NL /\ \A j \in 1 .. (i - 1) : t[j] # Bash!NL
<1> DEFINE S == {i \in 1 .. Len(t) : t[i] = Bash!NL}
<1>1. S \in SUBSET Nat /\ S # {} /\ Len(t) \in Nat
  BY DEF Bash!Contains, Text
<1>2. PICK i \in S : \A y \in S : i <= y
  <2> HIDE DEF S
  <2> QED
    BY <1>1, LeastNumber
<1>3. ASSUME NEW j \in 1 .. (i - 1) PROVE t[j] # Bash!NL
  <2>1. i \in 1 .. Len(t) /\ j \in 1 .. Len(t) /\ ~(i <= j)
    BY <1>1
  <2> QED
    BY <1>2, <2>1
<1> QED
  BY <1>2, <1>3

\* What is cut at the first newline: a text without one, the newline, and the rest.
LEMMA CutAtNewline ==
    ASSUME NEW t \in Text, NEW i \in 1 .. Len(t), t[i] = Bash!NL, \A j \in 1 .. (i - 1) : t[j] # Bash!NL
    PROVE  \E h \in Text :
              /\ ~Bash!Contains(h, Bash!NL) /\ Bash!From(t, i + 1) \in Text
              /\ t = Append(h, Bash!NL) \o Bash!From(t, i + 1)
<1> DEFINE k == i + 1
           h == SubSeq(t, 1, i - 1)
           p == SubSeq(t, 1, k - 1)
           x == Bash!From(t, k)
<1>1. t \in Seq(Letters) /\ Len(t) \in Nat /\ i \in Nat
  BY DEF Text
<1>2. k \in 1 .. Len(t) + 1 /\ i - 1 \in 0 .. Len(t) /\ i \in 0 .. Len(t) /\ k - 1 = i
  BY <1>1
<1>3. x \in Seq(Letters) /\ p \in Seq(Letters) /\ t = p \o x
  <2> HIDE DEF k
  <2> QED
    BY <1>1, <1>2, FromParts
<1>4. h \in Seq(Letters) /\ Len(h) = i - 1 /\ \A j \in 1 .. i - 1 : h[j] = t[j]
  BY <1>1, <1>2, PrefixElements
<1>5. p = Append(h, Bash!NL)
  <2>1. 1 \in 1 .. Len(t) /\ i \in 1 .. Len(t)
    BY <1>1
  <2>2. SubSeq(t, 1, i) = SubSeq(t, 1, i - 1) \o <<t[i]>>
    BY <1>1, <2>1, SubSeqRecursiveSecond
  <2>3. h \o <<Bash!NL>> = Append(h, Bash!NL)
    BY <1>4, NewlineIsLetter
  <2> QED
    BY <1>2, <2>2, <2>3
<1>6. ~Bash!Contains(h, Bash!NL)
  BY <1>4 DEF Bash!Contains
<1> QED
  BY <1>3, <1>4, <1>5, <1>6 DEF Text

\* What the tool shows of the kept end is what it would show of the whole text, unless a long last line
\* ends in a newline.
LEMMA ShownOfKeptEnd ==
    ASSUME text \in Text, tail \in Text, KeptEnd(text, tail, atLineStart), ReplacedLast(text)
    PROVE  \/ Bash!LongLastLine
           \/ Bash!SnapshotText = text
           \/ text # <<>> /\ Bash!Bytes(text) > MaxBytes /\ Shown(Bash!SnapshotText) = Shown(text)
<1>1. CASE tail = text /\ atLineStart
  BY <1>1 DEF Bash!SnapshotText
<1>2. ASSUME NEW u \in Text, NEW c \in Letters, text = Append(u, c) \o tail,
             Bash!Size(c) + Bash!Bytes(tail) > Bash!MaxRolling, atLineStart <=> c = Bash!NL
      PROVE  \/ Bash!LongLastLine
             \/ text # <<>> /\ Bash!Bytes(text) > MaxBytes /\ Shown(Bash!SnapshotText) = Shown(text)
  <2>1. tail # <<>> /\ Bash!Bytes(tail) > MaxBytes /\ Bash!Bytes(text) > MaxBytes /\ text # <<>>
    BY <1>2, KeptEndIsLong
  <2>2. Append(u, c) \in Text
    BY TextTyped
  <2>3. Bash!MaxRolling = 2 * MaxBytes /\ MaxBytes \in Nat /\ MaxBytes >= 2 /\ Bash!Size(c) \in Nat
        /\ Bash!Bytes(tail) \in Nat
    BY LimitsAssumption, SizeIsSmall, BytesTyped DEF Bash!MaxRolling
  <2>4. CASE atLineStart
    <3>1. Bash!SnapshotText = tail
      BY <2>4 DEF Bash!SnapshotText
    <3>2. c = Bash!NL
      BY <1>2, <2>4
    <3>3. Bash!Bytes(Last(Bash!Split(u))) + Bash!Bytes(tail) > MaxBytes
      <4>1. Bash!Bytes(Last(Bash!Split(u))) \in Nat
        BY LastLine, BytesTyped
      <4> QED
        BY <2>1, <2>3, <4>1
    <3>4. Shown(Append(u, Bash!NL) \o tail) = Shown(tail)
      BY <2>1, <3>3, ShownAfterNewline
    <3> QED
      BY <1>2, <2>1, <3>1, <3>2, <3>4
  <2>5. CASE ~atLineStart /\ Bash!Contains(tail, Bash!NL)
    <3> DEFINE First(i) == tail[i] = Bash!NL /\ \A j \in 1 .. (i - 1) : tail[j] # Bash!NL
               i == CHOOSE k \in 1 .. Len(tail) : First(k)
               x == Bash!From(tail, i + 1)
    <3>1. i \in 1 .. Len(tail) /\ First(i)
      BY <2>5, FirstNewline
    <3>2. Bash!SnapshotText = x
      BY Zenon, <2>5 DEF Bash!SnapshotText
    <3> HIDE DEF i
    <3>3. PICK h \in Text : /\ ~Bash!Contains(h, Bash!NL) /\ x \in Text
                            /\ tail = Append(h, Bash!NL) \o x
      BY <3>1, CutAtNewline
    <3> HIDE DEF x
    <3> DEFINE b == Append(u, c)
               s == b \o h
               w == Append(s, Bash!NL)
               n == Append(h, Bash!NL)
    <3>4. c # Bash!NL
      BY <1>2, <2>5
    <3>5. PICK l \in Text :
             /\ Last(Bash!Split(s)) = Append(l, c) \o h
             /\ Bash!Bytes(Append(l, c) \o h) \in Nat
             /\ Bash!Bytes(Append(l, c) \o h) >= Bash!Size(c) + Bash!Bytes(h)
      BY <3>3, <3>4, LineOver
    <3>6. n \in Text /\ s \in Text /\ w \in Text /\ b \o n = w
      <4>1. b \in Text /\ n \in Text /\ Bash!NL \in Letters
        BY <2>2, <3>3, TextTyped, NewlineIsLetter
      <4> HIDE DEF b, n
      <4>2. s \in Text
        BY <3>3, <4>1, TextTyped
      <4>3. b \o Append(h, Bash!NL) = Append(b \o h, Bash!NL)
        BY <3>3, <4>1, ConcatOfAppend DEF Text
      <4> QED
        BY <4>1, <4>2, <4>3, TextTyped DEF n
    <3>7. text = w \o x
      <4>1. b \in Text
        BY <2>2
      <4> HIDE DEF b, n, w
      <4>2. (b \o n) \o x = b \o (n \o x)
        <5>1. b \in Text /\ n \in Text /\ x \in Text
          BY <3>3, <3>6, <4>1
        <5>2. Together(b, n, x)
          BY ONLY <5>1, TextAssociative
        <5> QED
          BY Zenon, <5>2 DEF Together
      <4> QED
        BY <1>2, <3>3, <3>6, <4>2 DEF b, n
    <3>8. Bash!Bytes(tail) = Bash!Bytes(h) + 1 + Bash!Bytes(x) /\ Bash!Bytes(h) \in Nat /\ Bash!Bytes(x) \in Nat
      <4>1. Bash!Bytes(n) = Bash!Bytes(h) + 1 /\ Bash!Bytes(h) \in Nat
        BY <3>3, BytesOfAppend, NewlineIsLetter DEF Text
      <4> HIDE DEF n
      <4>2. Bash!Bytes(n \o x) = Bash!Bytes(n) + Bash!Bytes(x) /\ Bash!Bytes(x) \in Nat
        BY <3>3, <3>6, BytesOfConcat
      <4> QED
        BY <3>3, <4>1, <4>2 DEF n
    <3> HIDE DEF s, b, n
    <3>9. Bash!Bytes(Last(Bash!Split(s))) + 1 + Bash!Bytes(x) > 2 * MaxBytes /\ Bash!Bytes(Last(Bash!Split(s))) \in Nat
      BY <1>2, <2>3, <3>5, <3>8
    <3>10. CASE x # <<>>
      <4>1. Bash!Bytes(Last(Bash!Split(s))) + Bash!Bytes(x) > MaxBytes
        BY <2>3, <3>8, <3>9
      <4>2. Shown(Append(s, Bash!NL) \o x) = Shown(x)
        BY <3>3, <3>6, <3>10, <4>1, ShownAfterNewline
      <4> QED
        BY <2>1, <3>2, <3>7, <4>2
    <3>11. CASE x = <<>>
      <4>1. text = Append(s, Bash!NL)
        BY <3>6, <3>7, <3>11, ConcatEmptySeq DEF Text
      <4>2. Last(text) = Bash!NL /\ Front(text) = s
        BY <3>6, <4>1, FrontOfAppend, NewlineIsLetter DEF Text
      <4>3. Bash!LinesOf(text) = Bash!Split(s)
        BY <2>1, <4>2, LinesOfText
      <4>4. Bash!Bytes(x) = 0
        BY <3>11, BytesOfNothing
      <4>5. Bash!Bytes(Last(Bash!LinesOf(text))) >= Bash!MaxRolling
        BY <2>3, <3>9, <4>3, <4>4
      <4> QED
        BY <2>1, <4>2, <4>5, BashNames DEF Bash!LongLastLine
    <3> QED
      BY <3>10, <3>11
  <2>6. CASE ~atLineStart /\ ~Bash!Contains(tail, Bash!NL)
    <3> DEFINE b == Append(u, c)
    <3>1. Bash!SnapshotText = tail
      BY <2>6 DEF Bash!SnapshotText
    <3>2. c # Bash!NL
      BY <1>2, <2>6
    <3>3. PICK l \in Text : Last(Bash!Split(b \o tail)) = Append(l, c) \o tail
      BY <2>6, <3>2, LineOver
    <3> DEFINE m == Append(l, c)
    <3>4. m \in Text /\ b \in Text /\ b \in Seq(Letters) /\ tail \in Seq(Letters)
      BY <3>3, <2>2, TextTyped DEF Text
    <3> HIDE DEF b, m
    <3>5. Bash!EndWithin(m \o tail, MaxBytes) = Bash!EndWithin(tail, MaxBytes)
      BY <2>1, <2>3, <3>4, EndOfConcat
    <3>6. Bash!Bytes(m \o tail) = Bash!Bytes(m) + Bash!Bytes(tail) /\ Bash!Bytes(m) \in Nat
      BY <3>4, BytesOfConcat
    <3>7. Last(tail) # Bash!NL
      <4>1. Len(tail) \in 1 .. Len(tail)
        BY <2>1, <3>4
      <4> QED
        BY <2>6, <4>1 DEF Bash!Contains, Last
    <3>8. Last(text) = Last(tail)
      BY <1>2, <2>1, <3>4, LastOfConcat DEF b
    <3>9. Last(Bash!Split(tail)) = tail
      BY <2>6, SplitOfLine
    <3>10. Last(Bash!Split(text)) = m \o tail
      BY <1>2, <3>3 DEF b, m
    <3>11. Bash!Bytes(m \o tail) > MaxBytes
      BY <2>1, <2>3, <3>6
    <3>12. Shown(tail) = [lines |-> <<Bash!EndWithin(tail, MaxBytes)>>, truncated |-> TRUE, partial |-> TRUE]
      BY <2>1, <3>7, <3>9, ShownOfLongLine
    <3>13. Shown(text) = [lines |-> <<Bash!EndWithin(m \o tail, MaxBytes)>>, truncated |-> TRUE, partial |-> TRUE]
      <4>1. Bash!Bytes(Last(Bash!Split(text))) > MaxBytes
        BY <3>10, <3>11
      <4>2. Shown(text) = [lines |-> <<Bash!EndWithin(Last(Bash!Split(text)), MaxBytes)>>, truncated |-> TRUE, partial |-> TRUE]
        BY <2>1, <3>7, <3>8, <4>1, ShownOfLongLine
      <4> QED
        BY Zenon, <3>10, <4>2
    <3> QED
      BY <2>1, <3>1, <3>5, <3>12, <3>13
  <2> QED
    BY <2>4, <2>5, <2>6
<1>3. (tail = text /\ atLineStart) \/ \E u \in Text, c \in Letters :
                                        /\ text = Append(u, c) \o tail
                                        /\ Bash!Size(c) + Bash!Bytes(tail) > Bash!MaxRolling
                                        /\ atLineStart <=> c = Bash!NL
  BY DEF KeptEnd
<1> QED
  BY <1>1, <1>2, <1>3

---------------------------------------------------------------------------
(* appendDecodedText keeps an end of the text.                             *)

\* What is kept is all of the text, or what follows another text.
LEMMA KeptEndParts ==
    ASSUME NEW w \in Text, NEW t \in Text, NEW start, KeptEnd(w, t, start)
    PROVE  \E v \in Text : w = v \o t
<1>1. CASE w = t
  <2>1. <<>> \o t = t /\ <<>> \in Text
    BY ConcatEmptySeq, TextTyped DEF Text
  <2> QED
    BY <1>1, <2>1
<1>2. ASSUME NEW u \in Text, NEW c \in Letters, w = Append(u, c) \o t
      PROVE  \E v \in Text : w = v \o t
  BY <1>2, TextTyped
<1> QED
  BY <1>1, <1>2 DEF KeptEnd

\* What is kept stays the end of the text when both go on.
LEMMA KeptEndGrows ==
    ASSUME NEW w \in Text, NEW t \in Text, NEW start, KeptEnd(w, t, start), NEW s \in Text
    PROVE  KeptEnd(w \o s, t \o s, start)
<1>1. CASE w = t /\ start
  BY <1>1 DEF KeptEnd
<1>2. ASSUME NEW u \in Text, NEW c \in Letters, w = Append(u, c) \o t,
             Bash!Size(c) + Bash!Bytes(t) > Bash!MaxRolling, start <=> c = Bash!NL
      PROVE  KeptEnd(w \o s, t \o s, start)
  <2> DEFINE b == Append(u, c)
             all == t \o s
  <2>1. b \in Text /\ all \in Text
    BY TextTyped
  <2>2. w \o s = b \o all
    <3> HIDE DEF b
    <3>1. Together(b, t, s)
      BY <2>1, TextAssociative
    <3>2. (b \o t) \o s = b \o (t \o s)
      BY Zenon, <3>1 DEF Together
    <3> QED
      BY <1>2, <3>2 DEF b
  <2>3. Bash!Bytes(all) = Bash!Bytes(t) + Bash!Bytes(s) /\ Bash!Bytes(t) \in Nat /\ Bash!Bytes(s) \in Nat
    BY BytesOfConcat
  <2>4. Bash!Size(c) \in Nat /\ Bash!MaxRolling \in Nat
    BY SizeIsSmall, LimitsAssumption DEF Bash!MaxRolling
  <2> HIDE DEF all
  <2>5. Bash!Size(c) + Bash!Bytes(all) > Bash!MaxRolling
    BY <1>2, <2>3, <2>4
  <2> QED
    BY <1>2, <2>2, <2>5 DEF KeptEnd, all
<1> QED
  BY <1>1, <1>2 DEF KeptEnd

\* The character before the longest end within n bytes.
LEMMA BeforeEnd ==
    ASSUME NEW t \in Text, NEW n \in Nat, Bash!Bytes(t) > n
    PROVE  LET e == Bash!EndWithin(t, n) IN
           \E u \in Text, c \in Letters :
              /\ e \in Text /\ Bash!Bytes(e) <= n
              /\ t = Append(u, c) \o e
              /\ Bash!Size(c) + Bash!Bytes(e) > n
              /\ t[Len(t) - Len(e)] = c
<1>1. PICK i \in 1 .. Len(t) + 1 : IsEnd(t, n, i) /\ Bash!EndWithin(t, n) = Bash!From(t, i)
  BY EndIs
<1> DEFINE e == Bash!From(t, i)
           k == i - 1
           d == Bash!From(t, k)
           p == SubSeq(t, 1, k)
           u == SubSeq(t, 1, k - 1)
           c == t[k]
<1>2. t \in Seq(Letters) /\ Len(t) \in Nat /\ i \in Nat
  BY DEF Text
<1>3. i # 1
  <2> SUFFICES ASSUME i = 1 PROVE FALSE
    OBVIOUS
  <2>1. Bash!From(t, i) = t
    BY <1>2, FromStart
  <2>2. Bash!Bytes(t) <= n /\ Bash!Bytes(t) \in Nat
    BY <1>1, <2>1, BytesTyped DEF IsEnd
  <2> QED
    BY <2>2
<1>4. k \in 1 .. Len(t) /\ k \in 1 .. Len(t) + 1 /\ k \in 1 .. i - 1 /\ k + 1 = i /\ k - 1 \in 0 .. Len(t)
  BY <1>2, <1>3
<1>5. c \in Letters
  BY <1>2, <1>4
<1>6. e \in Seq(Letters) /\ Len(e) = Len(t) - i + 1 /\ t = SubSeq(t, 1, i - 1) \o e
  BY <1>2, FromParts
<1>7. Bash!Bytes(d) > n /\ Bash!Bytes(e) <= n
  BY <1>1, <1>4 DEF IsEnd
<1> HIDE DEF k
<1>8. d \in Seq(Letters) /\ u \in Seq(Letters) /\ t = u \o d
  BY <1>2, <1>4, FromParts
<1>9. p = Append(u, c)
  <2>1. 1 \in 1 .. Len(t) /\ k \in 1 .. Len(t)
    BY <1>2, <1>4
  <2>2. SubSeq(t, 1, k) = SubSeq(t, 1, k - 1) \o <<t[k]>>
    BY <1>2, <2>1, SubSeqRecursiveSecond
  <2>3. u \o <<c>> = Append(u, c)
    <3> HIDE DEF u, c
    <3> QED
      BY ONLY <1>5, <1>8 DEF Letters
  <2> QED
    BY <2>2, <2>3
<1>10. t = p \o e
  BY <1>6 DEF k
<1> HIDE DEF d, e, p, u, c
<1>11. p \in Text /\ u \in Text /\ d \in Text /\ e \in Text
  BY <1>5, <1>6, <1>8, <1>9, TextTyped DEF Text
<1>12. /\ Bash!Bytes(t) = Bash!Bytes(u) + Bash!Bytes(d) /\ Bash!Bytes(u) \in Nat /\ Bash!Bytes(d) \in Nat
       /\ Bash!Bytes(t) = Bash!Bytes(p) + Bash!Bytes(e) /\ Bash!Bytes(p) \in Nat /\ Bash!Bytes(e) \in Nat
       /\ Bash!Bytes(p) = Bash!Bytes(u) + Bash!Size(c) /\ Bash!Size(c) \in Nat
  <2>1. Bash!Bytes(u \o d) = Bash!Bytes(u) + Bash!Bytes(d) /\ Bash!Bytes(u) \in Nat /\ Bash!Bytes(d) \in Nat
    BY ONLY <1>11, BytesOfConcat
  <2>2. Bash!Bytes(p \o e) = Bash!Bytes(p) + Bash!Bytes(e) /\ Bash!Bytes(p) \in Nat /\ Bash!Bytes(e) \in Nat
    BY ONLY <1>11, BytesOfConcat
  <2>3. Bash!Bytes(Append(u, c)) = Bash!Bytes(u) + Bash!Size(c)
    BY ONLY <1>5, <1>8, BytesOfAppend
  <2>4. Bash!Size(c) \in Nat
    BY SizeIsSmall
  <2>5. Bash!Bytes(t) = Bash!Bytes(u) + Bash!Bytes(d)
    BY Zenon, <1>8, <2>1
  <2>6. Bash!Bytes(t) = Bash!Bytes(p) + Bash!Bytes(e)
    BY Zenon, <1>10, <2>2
  <2>7. Bash!Bytes(p) = Bash!Bytes(u) + Bash!Size(c)
    BY Zenon, <1>9, <2>3
  <2> QED
    BY Zenon, <2>1, <2>2, <2>4, <2>5, <2>6, <2>7
<1>13. Bash!Size(c) + Bash!Bytes(e) > n
  BY <1>7, <1>12
<1>14. t[Len(t) - Len(e)] = c
  <2>1. Len(t) - Len(e) = k
    BY <1>2, <1>4, <1>6
  <2> QED
    BY <2>1 DEF c
<1> QED
  BY <1>1, <1>5, <1>7, <1>9, <1>10, <1>11, <1>13, <1>14 DEF e

\* appendDecodedText keeps an end of the text, with a bound.
LEMMA TailGoesOn ==
    ASSUME text \in Text, tail \in Text, atLineStart \in BOOLEAN, KeptEnd(text, tail, atLineStart),
           NEW s \in Text, Bash!AppendTail(s), text' = text \o s
    PROVE  /\ tail' \in Text /\ atLineStart' \in BOOLEAN
           /\ KeptEnd(text', tail', atLineStart')
           /\ Bash!Bytes(tail') <= 2 * Bash!MaxRolling
<1> DEFINE all == tail \o s
           R == Bash!MaxRolling
           e == Bash!EndWithin(all, R)
<1>1. all \in Text /\ text' \in Text /\ R \in Nat /\ Bash!Bytes(all) \in Nat
  BY TextTyped, BytesTyped, LimitsAssumption DEF Bash!MaxRolling
<1>2. KeptEnd(text', all, atLineStart)
  BY KeptEndGrows
<1>3. /\ Bash!Bytes(all) > 2 * R => tail' = e /\ atLineStart' = (all[Len(all) - Len(e)] = Bash!NL)
      /\ ~(Bash!Bytes(all) > 2 * R) => tail' = all /\ atLineStart' = atLineStart
  BY DEF Bash!AppendTail
<1> HIDE DEF all, R
<1>4. CASE ~(Bash!Bytes(all) > 2 * R)
  BY <1>1, <1>2, <1>3, <1>4 DEF R
<1>5. CASE Bash!Bytes(all) > 2 * R
  <2>1. Bash!Bytes(all) > R
    BY <1>1, <1>5
  <2>2. PICK u \in Text, c \in Letters :
           /\ e \in Text /\ Bash!Bytes(e) <= R
           /\ all = Append(u, c) \o e
           /\ Bash!Size(c) + Bash!Bytes(e) > R
           /\ all[Len(all) - Len(e)] = c
    BY <1>1, <2>1, BeforeEnd
  <2>3. PICK v \in Text : text' = v \o all
    BY <1>1, <1>2, KeptEndParts
  <2> HIDE DEF e
  <2> DEFINE b == Append(u, c)
             w == v \o u
  <2>4. b \in Text /\ w \in Text
    BY TextTyped
  <2>5. v \o b = Append(w, c)
    BY ConcatOfAppend DEF Text
  <2>6. text' = (v \o b) \o e
    <3> HIDE DEF b
    <3>1. Together(v, b, e)
      BY <2>2, <2>4, TextAssociative
    <3>2. (v \o b) \o e = v \o (b \o e)
      BY Zenon, <3>1 DEF Together
    <3> QED
      BY <2>2, <2>3, <3>2 DEF b
  <2> HIDE DEF w, b
  <2>7. text' = Append(w, c) \o e
    BY <2>5, <2>6
  <2>8. tail' = e /\ (atLineStart' <=> c = Bash!NL) /\ atLineStart' \in BOOLEAN
    BY <1>3, <1>5, <2>2
  <2>9. KeptEnd(text', e, atLineStart')
    BY <2>2, <2>4, <2>7, <2>8 DEF KeptEnd, R
  <2>10. Bash!Bytes(e) <= 2 * R
    BY <1>1, <2>2, BytesTyped
  <2> QED
    BY <2>2, <2>8, <2>9, <2>10 DEF R
<1> QED
  BY <1>4, <1>5

---------------------------------------------------------------------------
(* The decoder over several chunks, and the chunks of the executor.        *)

\* What is decoded is text, also with a replacement character behind it.
LEMMA PlainTyped ==
    /\ <<>> \in Plain /\ Plain \subseteq Text
    /\ \A d, s \in Plain : d \o s \in Plain /\ d \o <<>> = d /\ <<>> \o d = d
    /\ \A d \in Plain : Append(d, "?") \in Text /\ d \o <<"?">> = Append(d, "?")
<1>1. <<>> \in Plain
  BY DEF Plain
<1>2. Plain \subseteq Text
  <2> DEFINE A == {"a", "n", "e"}
  <2>1. A \subseteq Letters
    BY DEF Letters
  <2> HIDE DEF A
  <2>2. Seq(A) \subseteq Seq(Letters)
    BY <2>1
  <2> QED
    BY <2>2 DEF Plain, Text, A
<1>3. ASSUME NEW d \in Plain, NEW s \in Plain
      PROVE  d \o s \in Plain /\ d \o <<>> = d /\ <<>> \o d = d
  BY ConcatEmptySeq DEF Plain
<1>4. ASSUME NEW d \in Plain
      PROVE  Append(d, "?") \in Text /\ d \o <<"?">> = Append(d, "?")
  <2>1. d \in Text /\ "?" \in Letters
    BY <1>2 DEF Letters
  <2> QED
    BY <2>1 DEF Text
<1> QED
  BY <1>1, <1>2, <1>3, <1>4

\* Bytes that come in two pieces are decoded as if they came at once, and to no more characters than bytes.
LEMMA DecodeOfConcat ==
    ASSUME NEW s \in Raw, NEW t \in Raw
    PROVE  /\ Bash!Decode(s) \in Plain /\ Bash!Decode(t) \in Plain
           /\ Bash!Decode(s \o t) = Bash!Decode(s) \o Bash!Decode(t)
<1> DEFINE P == {w \in Raw : Bash!Decode(s \o w) = Bash!Decode(s) \o Bash!Decode(w)}
           D == {"a", "n", "e"}
<1>0. \A w \in Raw : Bash!Decode(w) \in Plain
  <2>1. "a" \in RawBytes
    BY DEF RawBytes
  <2> QED
    BY <2>1, DecodeOfAppend
<1>1. <<>> \in P
  <2>1. s \o <<>> = s /\ <<>> \in Raw
    BY ConcatEmptySeq DEF Raw
  <2>2. Bash!Decode(s) \o <<>> = Bash!Decode(s)
    BY <1>0, PlainTyped
  <2> QED
    BY <2>1, <2>2, DecodeOfNothing
<1>2. ASSUME NEW w \in Seq(RawBytes), NEW e \in RawBytes, w \in P PROVE Append(w, e) \in P
  <2> DEFINE x == s \o w
             a == Bash!Decode(s)
             b == Bash!Decode(w)
             f == IF e = "T" THEN "e" ELSE e
  <2>1. x \in Raw /\ s \in Seq(RawBytes) /\ w \in Raw /\ Append(w, e) \in Raw
    BY DEF Raw
  <2>2. s \o Append(w, e) = Append(x, e)
    BY <2>1, ConcatOfAppend
  <2>3. Bash!Decode(x) = a \o b /\ a \in Plain /\ b \in Plain
    BY <1>0, <1>2, <2>1
  <2> HIDE DEF x, a, b
  <2>4. Bash!Decode(Append(x, e)) = Decoded(a \o b, e)
    BY <2>1, <2>3, DecodeOfAppend
  <2>5. Bash!Decode(Append(w, e)) = Decoded(b, e)
    BY <2>1, DecodeOfAppend DEF b
  <2>6. Decoded(a \o b, e) = a \o Decoded(b, e)
    <3>1. CASE e = "L"
      BY <3>1 DEF Decoded
    <3>2. CASE e # "L"
      <4>1. f \in D
        BY <3>2 DEF RawBytes
      <4>2. a \in Seq(D) /\ b \in Seq(D)
        BY <2>3 DEF Plain
      <4> HIDE DEF f, D
      <4>3. a \o Append(b, f) = Append(a \o b, f)
        BY ONLY <4>1, <4>2, ConcatOfAppend
      <4> QED
        BY <3>2, <4>3 DEF Decoded, f
    <3> QED
      BY <3>1, <3>2
  <2> QED
    BY <2>1, <2>2, <2>4, <2>5, <2>6 DEF a
<1>3. \A w \in Seq(RawBytes) : w \in P
  <2> HIDE DEF P
  <2> QED
    BY <1>1, <1>2, SequenceInduction
<1> QED
  BY <1>0, <1>3 DEF Raw

\* There are no more characters than bytes.
LEMMA DecodedAreFew ==
    ASSUME NEW s \in Raw
    PROVE  Bash!Decode(s) \in Plain /\ Len(Bash!Decode(s)) <= Len(s)
<1> DEFINE P == {w \in Raw : Len(Bash!Decode(w)) <= Len(w)}
<1>0. \A w \in Raw : Bash!Decode(w) \in Plain
  BY DecodeOfConcat
<1>1. <<>> \in P
  <2>1. <<>> \in Raw
    BY DEF Raw
  <2> QED
    BY <2>1, DecodeOfNothing
<1>2. ASSUME NEW w \in Seq(RawBytes), NEW e \in RawBytes, w \in P PROVE Append(w, e) \in P
  <2> DEFINE b == Bash!Decode(w)
  <2>1. w \in Raw /\ Append(w, e) \in Raw /\ Len(Append(w, e)) = Len(w) + 1 /\ Len(w) \in Nat
    BY DEF Raw
  <2>2. Bash!Decode(Append(w, e)) = Decoded(b, e) /\ b \in Plain /\ Len(b) <= Len(w)
    BY <1>2, <2>1, DecodeOfAppend
  <2> HIDE DEF b
  <2>3. Len(Decoded(b, e)) <= Len(b) + 1 /\ Len(b) \in Nat
    <3>1. Decoded(b, e) = b \/ \E f \in {"a", "n", "e"} : Decoded(b, e) = Append(b, f)
      BY DEF Decoded, RawBytes
    <3> QED
      BY <2>2, <3>1 DEF Plain
  <2>4. Decoded(b, e) \in Plain
    BY <2>2, DecodedTyped
  <2>5. Len(Decoded(b, e)) \in Nat
    BY <2>4 DEF Plain
  <2> QED
    BY <2>1, <2>2, <2>3, <2>5
<1>3. \A w \in Seq(RawBytes) : w \in P
  <2> HIDE DEF P
  <2> QED
    BY <1>1, <1>2, SequenceInduction
<1> QED
  BY <1>0, <1>3 DEF Raw

\* Chunks that are kept in two parts hold the text of the one and then of the other.
LEMMA FlatOfConcat ==
    ASSUME NEW a \in Seq(Plain), NEW b \in Seq(Plain)
    PROVE  /\ Bash!FlattenSeq(a) \in Plain /\ Bash!FlattenSeq(b) \in Plain
           /\ Bash!FlattenSeq(a \o b) = Bash!FlattenSeq(a) \o Bash!FlattenSeq(b)
<1> DEFINE P == {w \in Seq(Plain) : Bash!FlattenSeq(a \o w) = Bash!FlattenSeq(a) \o Bash!FlattenSeq(w)}
<1>0. \A w \in Seq(Plain) : Bash!FlattenSeq(w) \in Plain
  BY PlainTyped, FlatOfAppend
<1>1. <<>> \in P
  <2>1. a \o <<>> = a /\ <<>> \in Seq(Plain)
    BY ConcatEmptySeq
  <2>2. Bash!FlattenSeq(a) \o <<>> = Bash!FlattenSeq(a)
    BY <1>0, PlainTyped
  <2> QED
    BY <2>1, <2>2, FlatOfNothing
<1>2. ASSUME NEW w \in Seq(Plain), NEW e \in Plain, w \in P PROVE Append(w, e) \in P
  <2> DEFINE x == a \o w
             y == Append(w, e)
             f == Bash!FlattenSeq(a)
             g == Bash!FlattenSeq(w)
  <2>1. x \in Seq(Plain) /\ y \in Seq(Plain)
    OBVIOUS
  <2>2. a \o y = Append(x, e)
    BY ConcatOfAppend
  <2>3. Bash!FlattenSeq(x) = f \o g /\ f \in Plain /\ g \in Plain
    BY <1>0, <1>2
  <2>4. Bash!FlattenSeq(y) = g \o e
    BY FlatOfAppend
  <2> HIDE DEF x, y, f, g
  <2>5. Bash!FlattenSeq(Append(x, e)) = Bash!FlattenSeq(x) \o e
    BY <2>1, FlatOfAppend
  <2>6. (f \o g) \o e = f \o (g \o e)
    <3>1. f \in Text /\ g \in Text /\ e \in Text
      BY <2>3, PlainTyped
    <3>2. Together(f, g, e)
      BY <3>1, TextAssociative
    <3> QED
      BY Zenon, <3>2 DEF Together
  <2>7. Bash!FlattenSeq(a \o y) = f \o Bash!FlattenSeq(y)
    BY <2>2, <2>3, <2>4, <2>5, <2>6
  <2> QED
    BY <2>1, <2>7 DEF f, y
<1>3. \A w \in Seq(Plain) : w \in P
  <2> HIDE DEF P
  <2> QED
    BY <1>1, <1>2, SequenceInduction
<1> QED
  BY <1>0, <1>3

\* The executor drops chunks from the start, never the last, and none while all are within the limit.
LEMMA RollKeepsEnd ==
    ASSUME NEW cs \in Seq(Plain), cs # <<>>
    PROVE  /\ Bash!Roll(cs) \in Seq(Plain)
           /\ \E h \in Plain : Bash!FlattenSeq(cs) = h \o Bash!FlattenSeq(Bash!Roll(cs))
           /\ Len(Bash!FlattenSeq(cs)) <= Bash!MaxRolling => Bash!Roll(cs) = cs
<1> DEFINE N == Len(cs)
           R == Bash!MaxRolling
           Over(j) == Len(Bash!FlattenSeq(Bash!From(cs, j))) > R
           Is(i) == (i = N \/ Len(Bash!FlattenSeq(Bash!From(cs, i))) <= R) /\ \A j \in 1 .. (i - 1) : Over(j)
           S == {i \in 1 .. N : i = N \/ Len(Bash!FlattenSeq(Bash!From(cs, i))) <= R}
<1>1. N \in Nat \ {0} /\ DOMAIN cs = 1 .. N /\ R \in Nat
  BY LimitsAssumption DEF Bash!MaxRolling
<1>2. \A i \in 1 .. N : Bash!From(cs, i) \in Seq(Plain) /\ Len(Bash!FlattenSeq(Bash!From(cs, i))) \in Nat
  <2> SUFFICES ASSUME NEW i \in 1 .. N
               PROVE  Bash!From(cs, i) \in Seq(Plain) /\ Len(Bash!FlattenSeq(Bash!From(cs, i))) \in Nat
    OBVIOUS
  <2>1. i \in 1 .. Len(cs) + 1
    BY <1>1
  <2>2. Bash!From(cs, i) \in Seq(Plain)
    BY <2>1, FromParts
  <2>3. Bash!FlattenSeq(Bash!From(cs, i)) \in Plain
    BY <2>2, FlatOfConcat
  <2> QED
    BY <2>2, <2>3 DEF Plain
<1> HIDE DEF N, R
<1>3. \E i \in DOMAIN cs : Is(i)
  <2>1. S \in SUBSET Nat /\ S # {}
    <3>1. N \in S
      BY <1>1
    <3>2. S \subseteq 1 .. N /\ 1 .. N \subseteq Nat
      BY <1>1
    <3> HIDE DEF S
    <3> QED
      BY <3>1, <3>2
  <2>2. PICK i \in S : \A y \in S : i <= y
    <3> HIDE DEF S
    <3> QED
      BY <2>1, LeastNumber
  <2>3. ASSUME NEW j \in 1 .. (i - 1) PROVE Over(j)
    <3>1. j \in 1 .. N /\ ~(i <= j) /\ j # N
      BY <1>1, <2>2
    <3>2. j \notin S
      BY <2>2, <3>1
    <3>3. ~(Len(Bash!FlattenSeq(Bash!From(cs, j))) <= R)
      BY <3>1, <3>2
    <3> QED
      BY <1>1, <1>2, <3>1, <3>3
  <2> QED
    BY <1>1, <2>2, <2>3
<1> DEFINE k == CHOOSE i \in DOMAIN cs : Is(i)
<1>4. k \in DOMAIN cs /\ Is(k)
  <2> HIDE DEF Is
  <2> QED
    BY Zenon, <1>3
<1>5. Bash!Roll(cs) = Bash!From(cs, k)
  BY Zenon DEF Bash!Roll, N, R
<1> HIDE DEF k
<1>6. k \in 1 .. Len(cs) + 1 /\ k \in 1 .. N
  BY <1>1, <1>4 DEF N
<1>7. /\ Bash!From(cs, k) \in Seq(Plain) /\ SubSeq(cs, 1, k - 1) \in Seq(Plain)
      /\ cs = SubSeq(cs, 1, k - 1) \o Bash!From(cs, k)
  BY <1>6, FromParts
<1>8. \E h \in Plain : Bash!FlattenSeq(cs) = h \o Bash!FlattenSeq(Bash!From(cs, k))
  <2> DEFINE a == SubSeq(cs, 1, k - 1)
             b == Bash!From(cs, k)
  <2> HIDE DEF a, b
  <2>1. a \in Seq(Plain) /\ b \in Seq(Plain) /\ cs = a \o b
    BY <1>7 DEF a, b
  <2>2. Bash!FlattenSeq(a) \in Plain /\ Bash!FlattenSeq(a \o b) = Bash!FlattenSeq(a) \o Bash!FlattenSeq(b)
    BY ONLY <2>1, FlatOfConcat
  <2> QED
    BY <2>1, <2>2 DEF b
<1>9. Len(Bash!FlattenSeq(cs)) <= R => Bash!From(cs, k) = cs
  <2>1. Bash!From(cs, 1) = cs
    BY FromStart
  <2> SUFFICES ASSUME Len(Bash!FlattenSeq(cs)) <= R PROVE k = 1
    BY <2>1
  <2>2. ~Over(1)
    BY <1>1, <1>2, <2>1
  <2>3. 1 \notin 1 .. (k - 1)
    BY <1>4, <2>2
  <2> QED
    BY <1>1, <1>6, <2>3
<1> QED
  BY <1>5, <1>7, <1>8, <1>9 DEF R

---------------------------------------------------------------------------
(* The inductive invariant.                                                *)

OutputText ==
    /\ raw \in Raw /\ Len(raw) <= MaxOutput /\ cut \in BOOLEAN /\ finished \in BOOLEAN
    /\ \/ text = Bash!Decode(raw)
       \/ finished /\ text = Append(Bash!Decode(raw), "?")

OutputTail ==
    /\ tail \in Text /\ atLineStart \in BOOLEAN
    /\ KeptEnd(text, tail, atLineStart) /\ Bash!Bytes(tail) <= 2 * Bash!MaxRolling

CountsOf(r, w) ==
    [raw |-> Len(r), decoded |-> Bash!Bytes(w), completed |-> Len(Bash!Split(w)) - 1,
     current |-> Bash!Bytes(Last(Bash!Split(w))), open |-> Last(Bash!Split(w)) # <<>>]

OutputFiles ==
    /\ toolFile = Bash!NoFile => rawChunks = raw /\ ~Bash!UsesFile(counts)
    /\ toolFile # Bash!NoFile => rawChunks = <<>> /\ toolFile = raw

OutputChunks ==
    /\ chunks \in Seq(Plain)
    /\ \E h \in Plain : Bash!Decode(raw) = h \o Bash!FlattenSeq(chunks)
    /\ execFile # Bash!NoFile => execFile = Bash!Decode(raw)
    /\ execFile = Bash!NoFile =>
          Bash!FlattenSeq(chunks) = Bash!Decode(raw) /\ (~finished => Len(raw) <= MaxBytes)

OutputShape ==
    OutputText /\ OutputTail /\ counts = CountsOf(raw, text) /\ OutputFiles /\ OutputChunks

\* The text that is decoded has the replacement character at its end, if at all.
LEMMA DecodedText ==
    ASSUME OutputText
    PROVE  /\ Bash!Decode(raw) \in Plain /\ text \in Text /\ ReplacedLast(text)
           /\ ~finished => text = Bash!Decode(raw)
           /\ (IF Bash!Contains(text, "?") THEN Bash!Front(text) ELSE text) = Bash!Decode(raw)
           /\ \E x \in Text : text = Bash!Decode(raw) \o x
<1> DEFINE d == Bash!Decode(raw)
           w == Append(d, "?")
<1>1. d \in Plain /\ d \in Text /\ raw \in Raw
  BY DecodedAreFew, PlainTyped DEF OutputText
<1>2. text = d \/ (finished /\ text = w)
  BY DEF OutputText
<1> HIDE DEF d
<1>3. d \in Seq({"a", "n", "e"}) /\ Len(d) \in Nat /\ \A i \in 1 .. Len(d) : d[i] \in {"a", "n", "e"} /\ d[i] # "?"
  BY <1>1 DEF Plain
<1>4. /\ w \in Text /\ Len(w) = Len(d) + 1 /\ w[Len(d) + 1] = "?" /\ \A i \in 1 .. Len(d) : w[i] = d[i]
      /\ Front(w) = d
  <2>1. "?" \in Letters /\ d \in Seq(Letters)
    BY <1>1 DEF Letters, Text
  <2> QED
    BY <1>1, <2>1, AppendElements, FrontOfAppend, PlainTyped
<1>5. d = d \o <<>> /\ w = d \o <<"?">> /\ <<>> \in Text /\ <<"?">> \in Text
  <2>1. <<"?">> \in Text
    BY DEF Text, Letters
  <2> QED
    BY <1>1, <2>1, PlainTyped, TextTyped
<1> HIDE DEF w
<1>6. CASE text = d
  <2>1. ~Bash!Contains(d, "?")
    BY <1>3 DEF Bash!Contains
  <2>2. ReplacedLast(d)
    BY <1>3 DEF ReplacedLast
  <2> QED
    BY <1>1, <1>5, <1>6, <2>1, <2>2 DEF d
<1>7. CASE finished /\ text = w
  <2>1. Bash!Contains(w, "?")
    <3>1. Len(d) + 1 \in 1 .. Len(w)
      BY <1>3, <1>4
    <3> QED
      BY <1>4, <3>1 DEF Bash!Contains
  <2>2. ReplacedLast(w)
    <3> SUFFICES ASSUME NEW i \in 1 .. Len(w) - 1 PROVE w[i] # "?"
      BY DEF ReplacedLast
    <3>1. i \in 1 .. Len(d)
      BY <1>3, <1>4
    <3> QED
      BY <1>3, <1>4, <3>1
  <2>3. Bash!Front(w) = d
    BY <1>4, BashNames
  <2> QED
    BY <1>1, <1>4, <1>5, <1>7, <2>1, <2>2, <2>3 DEF d
<1> QED
  BY <1>2, <1>6, <1>7

\* The counters stay those of the whole, wherever the chunks end.
LEMMA CountsGoOn ==
    ASSUME NEW r \in Raw, NEW w \in Text, counts = CountsOf(r, w), NEW b \in Raw, NEW s \in Text
    PROVE  Bash!Counted(s, Len(b)) = CountsOf(r \o b, w \o s)
<1> DEFINE ls == Bash!Split(w)
           ms == Bash!Split(s)
           ns == Bash!Split(w \o s)
           m == Len(ms) - 1
           x == Last(ls)
           y == Last(ms)
           z == Last(ns)
<1>1. /\ Bash!Bytes(w) \in Nat /\ Bash!Bytes(s) \in Nat
      /\ Bash!Bytes(w \o s) = Bash!Bytes(w) + Bash!Bytes(s)
  BY BytesOfConcat
<1>2. Len(r \o b) = Len(r) + Len(b)
  BY DEF Raw
<1>3. /\ Len(ns) = Len(ls) + Len(ms) - 1
      /\ z = IF Len(ms) = 1 THEN x \o y ELSE y
  BY SplitOfConcat
<1>4. ls \in TextLines /\ ms \in TextLines /\ w \o s \in Text
  BY SplitTyped, TextTyped
<1>5. x \in Text /\ y \in Text
  BY LastLine
<1>6. Len(ms) = 1 => y = s
  BY SplitOfLine
<1>7. Bash!Last(ms) = y
  BY BashNames
<1>8. Len(ls) \in Nat \ {0} /\ Len(ms) \in Nat \ {0}
  BY <1>4 DEF TextLines
<1>9. Bash!Bytes(x \o y) = Bash!Bytes(x) + Bash!Bytes(y)
  <2> HIDE DEF x, y
  <2> QED
    BY <1>5, BytesOfConcat
<1>10. Bash!Counted(s, Len(b)) =
         [raw |-> counts.raw + Len(b), decoded |-> counts.decoded + Bash!Bytes(s), completed |-> counts.completed + m,
          current |-> IF m = 0 THEN counts.current + Bash!Bytes(s) ELSE Bash!Bytes(y),
          open |-> IF s = <<>> THEN counts.open ELSE m = 0 \/ y # <<>>]
  BY <1>7 DEF Bash!Counted
<1>11. /\ counts.raw = Len(r) /\ counts.decoded = Bash!Bytes(w) /\ counts.completed = Len(ls) - 1
       /\ counts.current = Bash!Bytes(x) /\ counts.open = (x # <<>>)
  BY DEF CountsOf
<1>12. s = <<>> => Len(ms) = 1
  <2> HIDE DEF ms
  <2>1. s = <<>> => ms = << <<>> >>
    BY SplitOfNothing DEF ms
  <2> QED
    BY <2>1
<1>13. x \o <<>> = x
  <2> HIDE DEF x
  <2> QED
    BY <1>5, ConcatEmptySeq DEF Text
<1>14. s # <<>> => x \o s # <<>>
  <2> HIDE DEF x
  <2> QED
    BY <1>5, LastOfConcat DEF Text
<1>15. CountsOf(r \o b, w \o s) =
         [raw |-> Len(r \o b), decoded |-> Bash!Bytes(w \o s), completed |-> Len(ns) - 1,
          current |-> Bash!Bytes(z), open |-> z # <<>>]
  BY DEF CountsOf
<1> HIDE DEF ls, ms, ns, x, y, z
<1>16. counts.completed + m = Len(ns) - 1
  BY <1>3, <1>8, <1>11
<1>17. m = 0 <=> Len(ms) = 1
  BY <1>8
<1> HIDE DEF m
<1>18. (IF m = 0 THEN counts.current + Bash!Bytes(s) ELSE Bash!Bytes(y)) = Bash!Bytes(z)
  BY Zenon, <1>3, <1>6, <1>9, <1>11, <1>17
<1>19. (IF s = <<>> THEN counts.open ELSE m = 0 \/ y # <<>>) = (z # <<>>)
  BY Zenon, <1>3, <1>6, <1>11, <1>12, <1>13, <1>14, <1>17
<1> QED
  BY Zenon, <1>1, <1>2, <1>10, <1>11, <1>15, <1>16, <1>18, <1>19

\* More lines are told than MaxLines, or more bytes than MaxBytes, exactly when there are.
LEMMA LinesAreCounted ==
    ASSUME NEW r \in Raw, NEW w \in Text
    PROVE  /\ Bash!TotalLines(CountsOf(r, w)) = Len(Bash!LinesOf(w))
           /\ Len(Bash!LinesOf(w)) \in Nat
           /\ Bash!TooMuch(CountsOf(r, w)) <=> Bash!Bytes(w) > MaxBytes \/ Len(Bash!LinesOf(w)) > MaxLines
           /\ CountsOf(r, w).current \in Nat /\ CountsOf(r, w).current <= CountsOf(r, w).decoded
           /\ CountsOf(r, w).raw = Len(r)
<1> DEFINE ls == Bash!Split(w)
           x == Last(ls)
           ms == Bash!LinesOf(w)
           c == CountsOf(r, w)
<1>1. ls \in TextLines /\ Len(ls) \in Nat \ {0}
  BY SplitTyped DEF TextLines
<1>2. x = <<>> <=> w = <<>> \/ Last(w) = Bash!NL
  BY LastLine
<1>3. /\ c.raw = Len(r) /\ c.decoded = Bash!Bytes(w) /\ c.completed = Len(ls) - 1
      /\ c.current = Bash!Bytes(x) /\ c.open = (x # <<>>)
  BY DEF CountsOf
<1>4. CASE w = <<>>
  <2> HIDE DEF ls, ms
  <2>1. ls = << <<>> >> /\ ms = <<>>
    BY <1>4, SplitOfNothing, LinesOfNothing DEF ls, ms
  <2>2. Len(ms) = 0 /\ Len(ls) = 1
    BY <2>1
  <2> HIDE DEF x, c
  <2>3. Bash!TotalLines(c) = Len(ms) /\ Len(ms) \in Nat
    <3>1. ~c.open
      BY Zenon, <1>2, <1>3, <1>4
    <3>2. Bash!TotalLines(c) = c.completed + 0
      BY Zenon, <3>1 DEF Bash!TotalLines
    <3> QED
      BY <1>3, <2>2, <3>2
  <2> QED
    BY <2>3, <1>3, LastLine, BytesTyped DEF Bash!TooMuch, ms, c, x, ls
<1>5. CASE w # <<>>
  <2>1. /\ ms \in TextLines
        /\ Last(w) = Bash!NL => Len(ms) = Len(ls) - 1
        /\ Last(w) # Bash!NL => ms = ls
    BY <1>5, LinesOfText
  <2> HIDE DEF ls, ms, x, c
  <2>2. Bash!TotalLines(c) = Len(ms) /\ Len(ms) \in Nat
    <3>1. CASE Last(w) = Bash!NL
      <4>1. ~c.open
        BY Zenon, <1>2, <1>3, <3>1
      <4>2. Bash!TotalLines(c) = c.completed + 0
        BY Zenon, <4>1 DEF Bash!TotalLines
      <4> QED
        BY <1>1, <1>3, <2>1, <3>1, <4>2
    <3>2. CASE Last(w) # Bash!NL
      <4>1. c.open
        BY Zenon, <1>2, <1>3, <1>5, <3>2
      <4>2. Bash!TotalLines(c) = c.completed + 1
        BY Zenon, <4>1 DEF Bash!TotalLines
      <4> QED
        BY <1>1, <1>3, <2>1, <3>2, <4>2
    <3> QED
      BY <3>1, <3>2
  <2> QED
    BY <2>2, <1>3, LastLine, BytesTyped DEF Bash!TooMuch, ms, c, x, ls
<1> QED
  BY <1>4, <1>5

\* No output is taken for the mark of a file that is not there.
LEMMA NoFileDiffers ==
    /\ \A r \in Raw : r # Bash!NoFile
    /\ \A d \in Plain : d # Bash!NoFile
<1>1. "no file" \notin RawBytes /\ "no file" \notin {"a", "n", "e"}
  BY DEF RawBytes
<1>2. Bash!NoFile[1] = "no file" /\ Len(Bash!NoFile) = 1
  BY DEF Bash!NoFile
<1>3. ASSUME NEW A, "no file" \notin A, NEW s \in Seq(A) PROVE s # Bash!NoFile
  <2> SUFFICES ASSUME s = Bash!NoFile PROVE FALSE
    OBVIOUS
  <2>1. Len(s) = 1
    BY <1>2
  <2>2. s[1] \in A
    BY <2>1
  <2> QED
    BY <1>2, <1>3, <2>2
<1>4. \A r \in Raw : r # Bash!NoFile
  BY <1>1, <1>3 DEF Raw
<1>5. \A d \in Plain : d # Bash!NoFile
  BY <1>1, <1>3 DEF Plain
<1> QED
  BY <1>4, <1>5

\* It holds before the first byte,
LEMMA OutputShapeInit == Bash!OutputInit => OutputShape
<1> SUFFICES ASSUME Bash!OutputInit PROVE OutputShape
  OBVIOUS
<1>1. /\ raw = <<>> /\ text = <<>> /\ cut = FALSE /\ tail = <<>> /\ atLineStart = TRUE
      /\ counts = [raw |-> 0, decoded |-> 0, completed |-> 0, current |-> 0, open |-> FALSE]
      /\ rawChunks = <<>> /\ toolFile = Bash!NoFile /\ finished = FALSE /\ chunks = <<>> /\ execFile = Bash!NoFile
  BY DEF Bash!OutputInit
<1>2. <<>> \in Raw /\ <<>> \in Plain /\ <<>> \in Text /\ <<>> \in Seq(Plain) /\ <<>> \o <<>> = <<>>
  BY PlainTyped, TextTyped DEF Raw
<1>3. OutputText
  <2>1. Len(raw) <= MaxOutput
    BY <1>1, BoundsAssumption
  <2> QED
    BY <1>1, <1>2, <2>1, DecodeOfNothing DEF OutputText
<1>4. OutputTail
  <2>1. Bash!Bytes(tail) <= 2 * Bash!MaxRolling
    BY <1>1, BytesOfNothing, LimitsAssumption DEF Bash!MaxRolling
  <2> QED
    BY <1>1, <1>2, <2>1 DEF OutputTail, KeptEnd
<1>5. counts = CountsOf(raw, text)
  <2>1. Bash!Split(<<>>) = << <<>> >>
    BY SplitOfNothing
  <2>2. Len(<< <<>> >>) - 1 = 0 /\ Last(<< <<>> >>) = <<>> /\ Len(<<>>) = 0
    BY DEF Last
  <2>3. Len(raw) = 0 /\ Bash!Bytes(text) = 0 /\ Len(Bash!Split(text)) - 1 = 0
        /\ Bash!Bytes(Last(Bash!Split(text))) = 0 /\ (Last(Bash!Split(text)) # <<>>) = FALSE
    BY Zenon, <1>1, <2>1, <2>2, BytesOfNothing
  <2> QED
    BY Zenon, <1>1, <2>3 DEF CountsOf
<1>6. OutputFiles
  <2>1. counts.raw = 0 /\ counts.decoded = 0 /\ counts.completed = 0 /\ ~counts.open
    BY <1>1
  <2>2. Bash!TotalLines(counts) = 0
    BY <2>1 DEF Bash!TotalLines
  <2>3. ~Bash!UsesFile(counts)
    BY <2>1, <2>2, LimitsAssumption DEF Bash!UsesFile, Bash!TooMuch
  <2> QED
    BY <1>1, <2>3 DEF OutputFiles
<1>7. OutputChunks
  <2>1. Bash!Decode(raw) = <<>> /\ Bash!FlattenSeq(chunks) = <<>>
    BY <1>1, DecodeOfNothing, FlatOfNothing
  <2>2. Len(raw) <= MaxBytes
    BY <1>1, LimitsAssumption
  <2> QED
    BY <1>1, <1>2, <2>1, <2>2 DEF OutputChunks
<1> QED
  BY <1>3, <1>4, <1>5, <1>6, <1>7 DEF OutputShape

\* A chunk has a byte.
LEMMA ChunkIsRaw ==
    ASSUME NEW bytes \in Chunks
    PROVE  bytes \in Raw /\ bytes # <<>>
  BY ChunksAssumption DEF Raw, RawBytes

\* The file of the tool is opened in time: until then all bytes are kept in memory.
LEMMA FileGoesOn ==
    ASSUME raw \in Raw, OutputFiles, NEW bytes \in Raw, NEW s, Bash!ToTool(bytes, s), raw' = raw \o bytes
    PROVE  OutputFiles'
<1>1. raw' \in Raw
  BY ConcatProperties DEF Raw
<1>2. raw' # Bash!NoFile
  BY <1>1, NoFileDiffers
<1>3. CASE toolFile # Bash!NoFile
  BY <1>2, <1>3 DEF OutputFiles, Bash!ToTool
<1>4. CASE toolFile = Bash!NoFile /\ Bash!UsesFile(counts')
  BY <1>2, <1>4 DEF OutputFiles, Bash!ToTool
<1>5. CASE toolFile = Bash!NoFile /\ ~Bash!UsesFile(counts')
  <2>1. toolFile' = Bash!NoFile /\ rawChunks' = raw'
    BY <1>5 DEF OutputFiles, Bash!ToTool
  <2>2. ~Bash!UsesFile(counts)'
    BY <1>5 DEF Bash!UsesFile, Bash!TooMuch, Bash!TotalLines
  <2>3. Bash!NoFile' = Bash!NoFile
    BY DEF Bash!NoFile
  <2> QED
    BY Zenon, <2>1, <2>2, <2>3 DEF OutputFiles
<1> QED
  BY <1>3, <1>4, <1>5

\* The file of the executor is opened before a chunk is dropped.
LEMMA ExecutorGoesOn ==
    ASSUME OutputText, OutputChunks, ~finished, finished' = finished, NEW bytes \in Raw, raw' = raw \o bytes,
           Bash!ToExecutor(bytes, Bash!Decode(bytes))
    PROVE  OutputChunks'
<1> DEFINE d == Bash!Decode(raw)
           s == Bash!Decode(bytes)
           e == Bash!Decode(raw')
           cs == Append(chunks, s)
           f == Bash!FlattenSeq(chunks)
           g == Bash!FlattenSeq(cs)
           k == Bash!FlattenSeq(Bash!Roll(cs))
<1>1. raw \in Raw /\ raw' \in Raw /\ Len(raw') = Len(raw) + Len(bytes)
      /\ Len(raw) \in Nat /\ Len(bytes) \in Nat /\ Len(raw') \in Nat
  <2>1. raw \in Raw
    BY DEF OutputText
  <2> QED
    BY <2>1, ConcatProperties DEF Raw
<1>2. d \in Plain /\ s \in Plain /\ e = d \o s /\ e \in Plain
  <2>1. Bash!Decode(raw \o bytes) = d \o s /\ d \in Plain /\ s \in Plain
    BY <1>1, DecodeOfConcat
  <2>2. d \o s \in Plain
    BY <2>1, PlainTyped
  <2> QED
    BY <2>1, <2>2
<1>3. Len(e) <= Len(raw') /\ Len(e) \in Nat
  <2>1. Len(e) <= Len(raw')
    BY <1>1, DecodedAreFew
  <2> QED
    BY <1>2, <2>1 DEF Plain
<1>4. chunks \in Seq(Plain) /\ f \in Plain /\ cs \in Seq(Plain) /\ cs # <<>> /\ g = f \o s /\ g \in Plain
  <2>1. chunks \in Seq(Plain)
    BY DEF OutputChunks
  <2> HIDE DEF s
  <2>2. f \in Plain /\ g = f \o s
    BY <1>2, <2>1, FlatOfAppend
  <2>3. cs \in Seq(Plain) /\ Len(cs) = Len(chunks) + 1 /\ Len(chunks) \in Nat
    BY <1>2, <2>1
  <2>4. cs # <<>>
    BY <2>3
  <2>5. f \o s \in Plain
    BY <1>2, <2>2, PlainTyped
  <2> QED
    BY <2>1, <2>2, <2>3, <2>4, <2>5
<1>5. /\ chunks' = Bash!Roll(cs)
      /\ execFile' = IF execFile # Bash!NoFile THEN execFile \o s
                     ELSE IF Len(raw) + Len(bytes) > MaxBytes THEN f \o s ELSE Bash!NoFile
  BY DEF Bash!ToExecutor
<1>6. /\ Bash!Roll(cs) \in Seq(Plain)
      /\ \E h \in Plain : g = h \o k
      /\ Len(g) <= Bash!MaxRolling => Bash!Roll(cs) = cs
  <2> HIDE DEF cs
  <2> QED
    BY <1>4, RollKeepsEnd
<1>7. PICK p \in Plain : d = p \o f
  BY DEF OutputChunks
<1>8. PICK h \in Plain : g = h \o k
  BY <1>6
<1>9. k \in Plain
  BY <1>6, FlatOfConcat
<1>10. e = (p \o h) \o k /\ p \o h \in Plain
  <2> HIDE DEF d, s, e, f, g, k
  <2>1. (p \o f) \o s = p \o (f \o s) /\ (p \o h) \o k = p \o (h \o k)
    <3>1. p \in Text /\ f \in Text /\ s \in Text /\ h \in Text /\ k \in Text
      BY <1>2, <1>4, <1>9, PlainTyped
    <3>2. Together(p, f, s) /\ Together(p, h, k)
      BY <3>1, TextAssociative
    <3> QED
      BY Zenon, <3>2 DEF Together
  <2>2. e = p \o g
    BY <1>2, <1>4, <1>7, <2>1
  <2> QED
    BY <1>8, <2>1, <2>2, PlainTyped
<1>11. execFile' # Bash!NoFile => execFile' = e
  <2> HIDE DEF d, s, e, f
  <2>1. execFile # Bash!NoFile => execFile = d
    BY DEF OutputChunks, d
  <2>2. execFile = Bash!NoFile => f = d
    BY DEF OutputChunks, d, f
  <2> QED
    BY Zenon, <1>2, <1>5, <2>1, <2>2
<1>12. execFile' = Bash!NoFile => k = e /\ Len(raw') <= MaxBytes
  <2> SUFFICES ASSUME execFile' = Bash!NoFile PROVE k = e /\ Len(raw') <= MaxBytes
    OBVIOUS
  <2>1. execFile = Bash!NoFile => f = d
    BY DEF OutputChunks
  <2>2. execFile # Bash!NoFile => execFile = d
    BY DEF OutputChunks
  <2>3. e # Bash!NoFile
    BY <1>2, NoFileDiffers
  <2> HIDE DEF d, s, e, f, g, k
  <2>4. execFile = Bash!NoFile
    BY Zenon, <1>2, <1>5, <2>2, <2>3
  <2>5. ~(Len(raw) + Len(bytes) > MaxBytes)
    BY Zenon, <1>2, <1>5, <2>1, <2>3, <2>4
  <2>6. g = e
    BY <1>2, <1>4, <2>1, <2>4
  <2>7. Len(raw') <= MaxBytes
    BY <1>1, <2>5, LimitsAssumption
  <2>8. Len(g) <= Bash!MaxRolling
    BY <1>1, <1>3, <2>6, <2>7, LimitsAssumption DEF Bash!MaxRolling
  <2>9. k = g
    BY <1>6, <2>8 DEF k, g
  <2> QED
    BY <2>6, <2>7, <2>9
<1>13. /\ chunks' \in Seq(Plain)
       /\ Bash!FlattenSeq(chunks)' = k /\ Bash!Decode(raw)' = e /\ Bash!NoFile' = Bash!NoFile
  BY <1>5, <1>6
<1> HIDE DEF d, s, e, f, g, k
<1> QED
  BY Zenon, <1>10, <1>11, <1>12, <1>13 DEF OutputChunks

\* What a step adds to the text.
LEMMA StepOfOutput ==
    ASSUME OutputShape, NEW bytes \in Chunks, Bash!Output(bytes)
    PROVE  OutputShape'
<1> DEFINE s == Bash!Decode(bytes)
           d == Bash!Decode(raw)
<1>1. /\ ~finished /\ Len(raw) + Len(bytes) <= MaxOutput
      /\ raw' = raw \o bytes /\ text' = text \o s /\ cut' = (Last(bytes) = "L")
      /\ Bash!ToTool(bytes, s) /\ Bash!ToExecutor(bytes, s) /\ finished' = finished
  BY BashNames DEF Bash!Output
<1>2. bytes \in Raw /\ raw \in Raw /\ Len(raw') = Len(raw) + Len(bytes) /\ raw' \in Raw
  <2>1. bytes \in Raw /\ raw \in Raw
    BY ChunkIsRaw DEF OutputShape, OutputText
  <2> QED
    BY <1>1, <2>1, ConcatProperties DEF Raw
<1>3. s \in Plain /\ s \in Text /\ d \in Plain /\ Bash!Decode(raw') = d \o s
  <2>1. s \in Plain /\ d \in Plain /\ Bash!Decode(raw \o bytes) = d \o s
    BY <1>2, DecodeOfConcat
  <2> QED
    BY <1>1, <2>1, PlainTyped
<1>4. text = d /\ text \in Text /\ finished \in BOOLEAN
  BY <1>1, DecodedText DEF OutputShape, OutputText
<1> HIDE DEF s, d
<1>5. OutputText'
  <2>1. text' = Bash!Decode(raw')
    BY <1>1, <1>3, <1>4
  <2>2. cut' \in BOOLEAN /\ finished' \in BOOLEAN
    BY <1>1, <1>4
  <2>3. raw' \in Raw /\ Len(raw') <= MaxOutput
    BY <1>1, <1>2
  <2> QED
    BY Zenon, <2>1, <2>2, <2>3 DEF OutputText
<1>6. OutputTail'
  <2>1. Bash!AppendTail(s) /\ text \in Text /\ tail \in Text /\ atLineStart \in BOOLEAN /\ KeptEnd(text, tail, atLineStart)
    BY <1>1, <1>4 DEF Bash!ToTool, OutputShape, OutputTail
  <2>2. /\ tail' \in Text /\ atLineStart' \in BOOLEAN /\ KeptEnd(text', tail', atLineStart')
        /\ Bash!Bytes(tail') <= 2 * Bash!MaxRolling
    BY ONLY <1>1, <1>3, <2>1, TailGoesOn
  <2> QED
    BY <2>2 DEF OutputTail
<1>7. (counts = CountsOf(raw, text))'
  <2>1. counts = CountsOf(raw, text) /\ counts' = Bash!Counted(s, Len(bytes))
    BY <1>1 DEF OutputShape, Bash!ToTool
  <2>2. Bash!Counted(s, Len(bytes)) = CountsOf(raw \o bytes, text \o s)
    BY ONLY <1>2, <1>3, <1>4, <2>1, CountsGoOn
  <2> QED
    BY <1>1, <2>1, <2>2
<1>8. OutputFiles'
  BY <1>1, <1>2, FileGoesOn DEF OutputShape
<1>9. OutputChunks'
  BY <1>1, <1>2, ExecutorGoesOn DEF OutputShape, s
<1> QED
  BY <1>5, <1>6, <1>7, <1>8, <1>9 DEF OutputShape

\* The end of the command: the decoder of the tool is flushed.
LEMMA StepOfFinish ==
    ASSUME OutputShape, Bash!Finish
    PROVE  OutputShape'
<1> DEFINE s == IF cut THEN <<"?">> ELSE <<>>
           d == Bash!Decode(raw)
<1>1. /\ ~finished /\ finished' = TRUE /\ text' = text \o s /\ Bash!AppendTail(s)
      /\ counts' = Bash!Counted(s, 0)
      /\ IF toolFile = Bash!NoFile /\ Bash!UsesFile(counts') THEN toolFile' = rawChunks /\ rawChunks' = <<>>
         ELSE UNCHANGED <<toolFile, rawChunks>>
      /\ execFile' = IF execFile = Bash!NoFile /\ Bash!ExecutorResult.truncated THEN Bash!FlattenSeq(chunks) ELSE execFile
      /\ cut' = FALSE /\ raw' = raw /\ chunks' = chunks
  BY DEF Bash!Finish
<1>2. raw \in Raw /\ Len(raw) <= MaxOutput
  BY DEF OutputShape, OutputText
<1>3. d \in Plain /\ text = d /\ text \in Text /\ s \in Text
  <2>1. d \in Plain /\ text = d /\ text \in Text
    BY <1>1, DecodedText DEF OutputShape
  <2>2. s = <<"?">> \/ s = <<>>
    OBVIOUS
  <2>3. <<"?">> \in Text /\ <<>> \in Text
    BY TextTyped DEF Text, Letters
  <2> HIDE DEF s
  <2>4. s \in Text
    BY Zenon, <2>2, <2>3
  <2> QED
    BY <2>1, <2>4
<1>4. d \o s = d \/ d \o s = Append(d, "?")
  <2>1. d \o <<>> = d /\ d \o <<"?">> = Append(d, "?")
    BY <1>3, PlainTyped
  <2>2. s = <<"?">> \/ s = <<>>
    OBVIOUS
  <2> HIDE DEF d, s
  <2> QED
    BY <2>1, <2>2
<1> HIDE DEF s
<1>5. OutputText'
  <2>1. text' = d \/ text' = Append(d, "?")
    BY <1>1, <1>3, <1>4
  <2>2. Bash!Decode(raw') = d
    BY <1>1
  <2> QED
    BY <1>1, <1>2, <2>1, <2>2 DEF OutputText
<1>6. OutputTail'
  <2>1. text \in Text /\ tail \in Text /\ atLineStart \in BOOLEAN /\ KeptEnd(text, tail, atLineStart)
    BY <1>3 DEF OutputShape, OutputTail
  <2>2. /\ tail' \in Text /\ atLineStart' \in BOOLEAN /\ KeptEnd(text', tail', atLineStart')
        /\ Bash!Bytes(tail') <= 2 * Bash!MaxRolling
    BY ONLY <1>1, <1>3, <2>1, TailGoesOn
  <2> QED
    BY <2>2 DEF OutputTail
<1>7. counts' = CountsOf(raw', text')
  <2>1. counts = CountsOf(raw, text) /\ <<>> \in Raw /\ Len(<<>>) = 0 /\ raw \o <<>> = raw
    BY <1>2, ConcatEmptySeq DEF OutputShape, Raw
  <2> DEFINE b == <<>>
  <2>2. b \in Raw /\ Len(b) = 0 /\ raw \o b = raw
    BY <2>1
  <2> HIDE DEF b
  <2>3. Bash!Counted(s, Len(b)) = CountsOf(raw \o b, text \o s)
    BY ONLY ZenonT(40), <1>2, <1>3, <2>1, <2>2, CountsGoOn
  <2> QED
    BY <1>1, <2>2, <2>3
<1>8. OutputFiles'
  <2>1. raw # Bash!NoFile
    BY <1>2, NoFileDiffers
  <2>2. Bash!NoFile' = Bash!NoFile
    BY DEF Bash!NoFile
  <2>3. Bash!UsesFile(counts)' <=> Bash!UsesFile(counts')
    BY DEF Bash!UsesFile, Bash!TooMuch, Bash!TotalLines
  <2>4. OutputFiles
    BY DEF OutputShape
  <2>5. CASE toolFile # Bash!NoFile
    <3>1. toolFile' = toolFile /\ rawChunks' = rawChunks
      BY <1>1, <2>5
    <3> QED
      BY Zenon, <1>1, <2>2, <2>4, <2>5, <3>1 DEF OutputFiles
  <2>6. CASE toolFile = Bash!NoFile /\ Bash!UsesFile(counts')
    BY Zenon, <1>1, <2>1, <2>2, <2>4, <2>6 DEF OutputFiles
  <2>7. CASE toolFile = Bash!NoFile /\ ~Bash!UsesFile(counts')
    <3>1. toolFile' = toolFile /\ rawChunks' = rawChunks
      BY <1>1, <2>7
    <3> QED
      BY Zenon, <1>1, <2>2, <2>3, <2>4, <2>7, <3>1 DEF OutputFiles
  <2> QED
    BY <2>5, <2>6, <2>7
<1>9. OutputChunks'
  <2> DEFINE f == Bash!FlattenSeq(chunks)
  <2>1. /\ chunks \in Seq(Plain) /\ \E h \in Plain : d = h \o f
        /\ execFile # Bash!NoFile => execFile = d
        /\ execFile = Bash!NoFile => f = d
    BY DEF OutputShape, OutputChunks
  <2>2. d # Bash!NoFile
    BY <1>3, NoFileDiffers
  <2>3. execFile' = f \/ execFile' = execFile
    BY <1>1
  <2>4. execFile' # execFile => execFile = Bash!NoFile
    BY <1>1
  <2>5. Bash!FlattenSeq(chunks)' = f /\ Bash!Decode(raw)' = d /\ Bash!NoFile' = Bash!NoFile
    BY <1>1
  <2> HIDE DEF f, d
  <2> QED
    BY Zenon, <1>1, <2>1, <2>2, <2>3, <2>4, <2>5 DEF OutputChunks
<1> QED
  BY <1>1, <1>5, <1>6, <1>7, <1>8, <1>9 DEF OutputShape

\* and every step keeps it.
LEMMA OutputShapeStep ==
    ASSUME OutputShape, Bash!OutputNext \/ UNCHANGED Bash!outputVars
    PROVE  OutputShape'
<1>1. ASSUME NEW bytes \in Chunks, Bash!Output(bytes) PROVE OutputShape'
  BY <1>1, StepOfOutput
<1>2. ASSUME Bash!Finish PROVE OutputShape'
  BY <1>2, StepOfFinish
<1>3. CASE UNCHANGED Bash!outputVars
  BY Zenon, <1>3 DEF OutputShape, OutputText, OutputTail, OutputFiles, OutputChunks, Bash!outputVars, Bash!UsesFile,
     Bash!TooMuch, Bash!TotalLines
<1> QED
  BY <1>1, <1>2, <1>3 DEF Bash!OutputNext

\* What follows from the shapes.
LEMMA ShapeIsTyped == ASSUME OutputShape PROVE Bash!OutputTypeOK
<1>1. raw \in Raw /\ text \in Text /\ counts = CountsOf(raw, text)
  BY DecodedText DEF OutputShape, OutputText
<1>2. counts.raw = Len(raw) /\ counts.current <= counts.decoded
  BY <1>1, LinesAreCounted
<1> QED
  BY <1>2 DEF OutputShape, OutputText, OutputTail, Bash!OutputTypeOK

\* The totals are those of the whole output.
LEMMA ShapeIsExact == ASSUME OutputShape PROVE Bash!CountsAreExact
<1>1. raw \in Raw /\ text \in Text /\ counts = CountsOf(raw, text)
  BY DecodedText DEF OutputShape, OutputText
<1>2. Bash!TotalLines(counts) = Len(Bash!LinesOf(text))
  BY <1>1, LinesAreCounted
<1>3. counts.decoded = Bash!Bytes(text) /\ counts.raw = Len(raw) /\ counts.current = Bash!Bytes(Last(Bash!Split(text)))
  BY <1>1 DEF CountsOf
<1>4. Bash!Last(Bash!Split(text)) = Last(Bash!Split(text))
  BY BashNames
<1> QED
  BY <1>2, <1>3, <1>4 DEF Bash!CountsAreExact

\* The memory of the tool is bounded.
LEMMA ShapeIsBounded == ASSUME OutputShape PROVE Bash!MemoryIsBounded
<1>1. raw \in Raw /\ text \in Text /\ counts = CountsOf(raw, text) /\ Len(raw) \in Nat
  BY DecodedText DEF OutputShape, OutputText, Raw
<1>2. Bash!Bytes(tail) <= 2 * Bash!MaxRolling
  BY DEF OutputShape, OutputTail
<1>3. counts.raw = Len(raw)
  BY <1>1, LinesAreCounted
<1>4. toolFile = Bash!NoFile => rawChunks = raw /\ ~(counts.raw > MaxBytes)
  BY DEF OutputShape, OutputFiles, Bash!UsesFile
<1>5. toolFile # Bash!NoFile => rawChunks = <<>>
  BY DEF OutputShape, OutputFiles
<1>6. Len(<<>>) = 0
  OBVIOUS
<1>7. Len(rawChunks) <= MaxBytes
  BY <1>1, <1>3, <1>4, <1>5, <1>6, LimitsAssumption
<1> QED
  BY <1>2, <1>7 DEF Bash!MemoryIsBounded

---------------------------------------------------------------------------
(* What follows from it.                                                   *)

\* What truncateTail makes is a record that says whether it left something out.
LEMMA TruncateTailRecord ==
    ASSUME NEW s
    PROVE  \E x, t, p : Bash!TruncateTail(s) = [lines |-> x, truncated |-> t, partial |-> p]
  BY Zenon DEF Bash!TruncateTail

\* Only the field is replaced.
LEMMA SaidAsItIs ==
    ASSUME NEW x, NEW t, NEW p, NEW u
    PROVE  /\ [[lines |-> x, truncated |-> t, partial |-> p] EXCEPT !.truncated = u]
                 = [lines |-> x, truncated |-> u, partial |-> p]
           /\ [[lines |-> x, truncated |-> t, partial |-> p] EXCEPT !.truncated = u].truncated = u
<1> DEFINE a == [lines |-> x, truncated |-> t, partial |-> p]
           y == [a EXCEPT !.truncated = u]
           z == [lines |-> x, truncated |-> u, partial |-> p]
           D == {"lines", "truncated", "partial"}
<1>1. DOMAIN y = D /\ DOMAIN z = D /\ y = [k \in D |-> y[k]] /\ z = [k \in D |-> z[k]]
  OBVIOUS
<1>2. y["lines"] = z["lines"] /\ y["truncated"] = z["truncated"] /\ y["partial"] = z["partial"]
  OBVIOUS
<1>3. y["truncated"] = u
  OBVIOUS
<1>4. y.truncated = u
  OBVIOUS
<1> HIDE DEF y, z
<1>5. \A k \in D : y[k] = z[k]
  BY <1>2
<1>6. y = z
  BY <1>1, <1>5
<1> QED
  BY <1>4, <1>6 DEF y, z

\* It says that something is left out exactly when the text is more than a limit.
LEMMA TruncatedIsTold ==
    ASSUME NEW w \in Text, NEW u \in BOOLEAN,
           u <=> Bash!Bytes(w) > MaxBytes \/ Len(Bash!LinesOf(w)) > MaxLines
    PROVE  [Bash!TruncateTail(w) EXCEPT !.truncated = u] = Bash!TruncateTail(w)
<1> DEFINE ls == Bash!LinesOf(w)
           over == ~(Len(ls) <= MaxLines /\ Bash!Bytes(w) <= MaxBytes)
<1>1. Bash!Bytes(w) \in Nat /\ Len(ls) \in Nat /\ MaxBytes \in Nat /\ MaxLines \in Nat
  <2>1. <<>> \in Raw
    BY DEF Raw
  <2> QED
    BY <2>1, BytesTyped, LinesAreCounted, LimitsAssumption
<1>2. u <=> over
  <2> HIDE DEF ls
  <2> QED
    BY <1>1 DEF ls
<1>3. CASE ~over
  <2>1. Bash!TruncateTail(w) = [lines |-> ls, truncated |-> FALSE, partial |-> FALSE]
    BY <1>3 DEF Bash!TruncateTail
  <2>2. u = FALSE
    BY <1>2, <1>3
  <2> HIDE DEF ls, over
  <2>3. [[lines |-> ls, truncated |-> FALSE, partial |-> FALSE] EXCEPT !.truncated = FALSE]
           = [lines |-> ls, truncated |-> FALSE, partial |-> FALSE]
    BY Zenon, SaidAsItIs
  <2>4. [Bash!TruncateTail(w) EXCEPT !.truncated = FALSE] = Bash!TruncateTail(w)
    BY ONLY Zenon, <2>1, <2>3
  <2> QED
    BY ONLY Zenon, <2>2, <2>4
<1>4. CASE over
  <2>1. w # <<>>
    <3> SUFFICES ASSUME w = <<>> PROVE FALSE
      OBVIOUS
    <3>1. Bash!Bytes(w) = 0 /\ ls = <<>>
      BY BytesOfNothing, LinesOfNothing
    <3> HIDE DEF ls
    <3> QED
      BY <1>1, <1>4, <3>1
  <2>2. \E k : Bash!TruncateTail(w) = LastLines(ls, k)
    <3>1. PICK k \in 0 .. Len(ls) :
             Bash!TruncateTail(w) =
                IF Len(ls) <= MaxLines /\ Bash!Bytes(w) <= MaxBytes
                THEN [lines |-> ls, truncated |-> FALSE, partial |-> FALSE]
                ELSE LastLines(ls, k)
      BY <2>1, TruncateTailIs
    <3> QED
      BY Zenon, <1>4, <3>1
  <2>3. \E x, p : Bash!TruncateTail(w) = [lines |-> x, truncated |-> TRUE, partial |-> p]
    BY Zenon, <2>2 DEF LastLines
  <2>4. u = TRUE
    BY <1>2, <1>4
  <2>5. PICK x, p : Bash!TruncateTail(w) = [lines |-> x, truncated |-> TRUE, partial |-> p]
    BY <2>3
  <2> DEFINE v == Bash!TruncateTail(w)
  <2> HIDE DEF v
  <2>8. [[lines |-> x, truncated |-> TRUE, partial |-> p] EXCEPT !.truncated = TRUE]
           = [lines |-> x, truncated |-> TRUE, partial |-> p]
    BY Zenon, SaidAsItIs
  <2>9. v = [lines |-> x, truncated |-> TRUE, partial |-> p]
    BY Zenon, <2>5 DEF v
  <2>6. [v EXCEPT !.truncated = TRUE] = [lines |-> x, truncated |-> TRUE, partial |-> p]
    BY ONLY Zenon, <2>8, <2>9
  <2>7. [v EXCEPT !.truncated = TRUE] = v
    BY ONLY Zenon, <2>6, <2>9
  <2> QED
    BY Zenon, <2>4, <2>7 DEF v
<1> QED
  BY <1>3, <1>4

\* The tool shows what truncateTail makes of the whole output, or the last line is the long one.
LEMMA ShapeShowsTail == ASSUME OutputShape PROVE Bash!SnapshotIsTailOrLongLine
<1> DEFINE u == Bash!TooMuch(counts)
           w == text
<1>1. raw \in Raw /\ w \in Text /\ counts = CountsOf(raw, w) /\ ReplacedLast(w)
  BY DecodedText DEF OutputShape, OutputText
<1>2. tail \in Text /\ KeptEnd(w, tail, atLineStart)
  BY DEF OutputShape, OutputTail
<1>3. u <=> Bash!Bytes(w) > MaxBytes \/ Len(Bash!LinesOf(w)) > MaxLines
  BY <1>1, LinesAreCounted
<1>4. u \in BOOLEAN
  BY Zenon DEF Bash!TooMuch
<1>5. [Bash!TruncateTail(w) EXCEPT !.truncated = u] = Bash!TruncateTail(w)
  <2> HIDE DEF u, w
  <2> QED
    BY ONLY <1>1, <1>3, <1>4, TruncatedIsTold
<1>6. Bash!Snapshot = [Bash!TruncateTail(Bash!SnapshotText) EXCEPT !.truncated = u]
  BY Zenon DEF Bash!Snapshot
<1>7. \/ Bash!LongLastLine
      \/ Bash!SnapshotText = w
      \/ w # <<>> /\ Bash!Bytes(w) > MaxBytes /\ Shown(Bash!SnapshotText) = Shown(w)
  BY <1>1, <1>2, ShownOfKeptEnd
<1>8. CASE Bash!SnapshotText = w
  BY Zenon, <1>5, <1>6, <1>8 DEF Bash!SnapshotIsTailOrLongLine, Bash!SnapshotIsTail
<1>9. CASE Bash!Bytes(w) > MaxBytes /\ Shown(Bash!SnapshotText) = Shown(w)
  <2>1. u = TRUE
    BY Zenon, <1>3, <1>4, <1>9
  <2>2. Bash!Snapshot = Shown(Bash!SnapshotText)
    BY Zenon, <1>6, <2>1 DEF Shown
  <2>3. Shown(w) = Bash!TruncateTail(w)
    BY Zenon, <1>5, <2>1 DEF Shown
  <2> QED
    BY Zenon, <1>9, <2>2, <2>3 DEF Bash!SnapshotIsTailOrLongLine, Bash!SnapshotIsTail
<1> QED
  BY <1>7, <1>8, <1>9 DEF Bash!SnapshotIsTailOrLongLine

\* The files have the output from its first byte on.
LEMMA ShapeHasFiles == ASSUME OutputShape PROVE Bash!TempFilesAreWhole
<1> DEFINE d == Bash!Decode(raw)
<1>1. OutputFiles /\ OutputChunks
  BY DEF OutputShape
<1>2. d \in Plain /\ d \in Text /\ text \in Text /\ \E x \in Text : text = d \o x
  BY DecodedText, PlainTyped DEF OutputShape
<1>3. Bash!Snapshot.truncated <=> Bash!TooMuch(counts)
  <2>1. PICK x, t, p : Bash!TruncateTail(Bash!SnapshotText) = [lines |-> x, truncated |-> t, partial |-> p]
    BY TruncateTailRecord
  <2> DEFINE u == Bash!TooMuch(counts)
  <2> HIDE DEF u
  <2>3. [[lines |-> x, truncated |-> t, partial |-> p] EXCEPT !.truncated = u].truncated = u
    BY Zenon, SaidAsItIs
  <2>4. Bash!Snapshot = [Bash!TruncateTail(Bash!SnapshotText) EXCEPT !.truncated = u]
    BY Zenon DEF Bash!Snapshot, u
  <2>2. Bash!Snapshot.truncated = Bash!TooMuch(counts)
    BY ONLY Zenon, <2>1, <2>3, <2>4 DEF u
  <2> QED
    BY <2>2
<1>4. Bash!Snapshot.truncated => toolFile # Bash!NoFile
  BY <1>1, <1>3 DEF OutputFiles, Bash!UsesFile
<1>5. Bash!IsPrefix(d, text)
  <2>1. PICK x \in Text : text = d \o x
    BY <1>2
  <2> HIDE DEF d
  <2>2. d \in Seq(Letters) /\ x \in Seq(Letters) /\ Len(d) \in Nat /\ Len(x) \in Nat /\ Len(text) = Len(d) + Len(x)
    BY <1>2, <2>1 DEF Text
  <2>3. SubSeq(d, 1, Len(d)) = d
    BY <2>2, PrefixWhole
  <2>4. SubSeq(text, 1, Len(d)) = d
    <3> DEFINE y == SubSeq(text, 1, Len(d))
    <3>1. text \in Seq(Letters) /\ Len(d) \in 0 .. Len(text)
      BY <1>2, <2>2 DEF Text
    <3>2. y \in Seq(Letters) /\ Len(y) = Len(d) /\ \A i \in 1 .. Len(d) : y[i] = text[i]
      BY <3>1, PrefixElements
    <3>3. \A i \in 1 .. Len(d) : text[i] = d[i]
      BY <2>1, <2>2, ConcatElements
    <3> HIDE DEF y
    <3>4. y = d
      BY <2>2, <3>2, <3>3, SeqEqual
    <3> QED
      BY <3>4 DEF y
  <2> QED
    BY <2>2, <2>3, <2>4 DEF Bash!IsPrefix
<1>6. execFile # Bash!NoFile => execFile = d
  BY <1>1 DEF OutputChunks
<1>7. /\ toolFile # Bash!NoFile => toolFile = raw
      /\ toolFile = Bash!NoFile => rawChunks = raw
  BY <1>1 DEF OutputFiles
<1> HIDE DEF d
<1> QED
  BY Zenon, <1>4, <1>5, <1>6, <1>7 DEF Bash!TempFilesAreWhole

\* The second of two texts is a suffix of both together.
LEMMA EndIsSuffix ==
    ASSUME NEW h \in Text, NEW t \in Text
    PROVE  Bash!IsSuffix(t, h \o t)
<1> DEFINE w == h \o t
           x == Bash!Reverse(t)
           y == Bash!Reverse(w)
<1>1. w \in Text /\ Len(w) = Len(h) + Len(t) /\ Len(h) \in Nat /\ Len(t) \in Nat
      /\ \A i \in 1 .. Len(t) : w[Len(h) + i] = t[i]
  BY ConcatElements DEF Text
<1> HIDE DEF w
<1>2. /\ x \in Seq(Letters) /\ Len(x) = Len(t) /\ \A i \in 1 .. Len(t) : x[i] = t[Len(t) - i + 1]
  BY DEF Bash!Reverse, Text
<1>3. /\ y \in Seq(Letters) /\ Len(y) = Len(w) /\ \A i \in 1 .. Len(w) : y[i] = w[Len(w) - i + 1]
  BY <1>1 DEF Bash!Reverse, Text
<1> HIDE DEF x, y
<1>4. ASSUME NEW i \in 1 .. Len(t) PROVE x[i] = y[i]
  <2>1. Len(t) - i + 1 \in 1 .. Len(t) /\ i \in 1 .. Len(w) /\ Len(w) - i + 1 = Len(h) + (Len(t) - i + 1)
    BY <1>1
  <2> QED
    BY <1>1, <1>2, <1>3, <2>1
<1>5. SubSeq(x, 1, Len(x)) = x
  BY <1>2, PrefixWhole
<1>6. SubSeq(y, 1, Len(x)) = x
  <2> DEFINE z == SubSeq(y, 1, Len(x))
  <2>1. Len(x) \in 0 .. Len(y)
    BY <1>1, <1>2, <1>3
  <2>2. z \in Seq(Letters) /\ Len(z) = Len(x) /\ \A i \in 1 .. Len(x) : z[i] = y[i]
    BY <1>3, <2>1, PrefixElements
  <2> HIDE DEF z
  <2>3. z = x
    BY <1>1, <1>2, <1>4, <2>2, SeqEqual
  <2> QED
    BY <2>3 DEF z
<1>7. Len(x) <= Len(y)
  BY <1>1, <1>2, <1>3
<1>8. Bash!IsPrefix(x, y)
  BY Zenon, <1>5, <1>6, <1>7 DEF Bash!IsPrefix
<1> QED
  BY <1>8 DEF Bash!IsSuffix, x, y, w

\* The executor shows the end of the output, and has a file with all of it when it does not show all.
LEMMA ShapeShowsEnd == ASSUME OutputShape PROVE Bash!ExecutorShowsEnd
<1> DEFINE d == Bash!Decode(raw)
           f == Bash!FlattenSeq(chunks)
<1>1. d = IF Bash!Contains(text, "?") THEN Bash!Front(text) ELSE text
  BY DecodedText DEF OutputShape
<1>2. PICK h \in Plain : d = h \o f
  BY DEF OutputShape, OutputChunks
<1>3. f \in Plain
  BY FlatOfConcat DEF OutputShape, OutputChunks
<1>4. f # d => execFile = d
  BY DEF OutputShape, OutputChunks
<1> HIDE DEF d, f
<1>5. Bash!IsSuffix(f, d)
  <2>1. h \in Text /\ f \in Text
    BY <1>3, PlainTyped
  <2> QED
    BY <1>2, <2>1, EndIsSuffix
<1> QED
  BY Zenon, <1>1, <1>4, <1>5 DEF Bash!ExecutorShowsEnd, d, f

\* All that is promised of the output.
LEMMA ShapeIsWhole == OutputShape => Bash!SnapshotIsTailOrLongLine /\ Bash!CountsAreExact /\ Bash!TempFilesAreWhole
                                     /\ Bash!MemoryIsBounded /\ Bash!ExecutorShowsEnd
  BY ShapeShowsTail, ShapeIsExact, ShapeHasFiles, ShapeIsBounded, ShapeShowsEnd
=============================================================================
