------------------------- MODULE FileMutationQueue -------------------------
(***************************************************************************)
(* withFileMutationQueue (core/tools/file-mutation-queue.ts) and the two   *)
(* tools that run under it, write and edit.  A call registers one at a     *)
(* time (registrationQueue), finds its key with realpath, chains itself    *)
(* behind the promise the map holds for that key, runs when that promise   *)
(* settles, and releases the next one in a finally block.                  *)
(*                                                                         *)
(* A promise of the map is named by the call that created it: tail[k] is   *)
(* the entry of fileMutationQueues, prev[o] is the currentQueue of call o. *)
(* A file's content is the sequence of the calls whose changes it holds.   *)
(***************************************************************************)
EXTENDS Naturals, Sequences

CONSTANTS
    Ops,        \* calls of the write and edit tools
    EditOps,    \* the calls of the edit tool, the others being writes
    Paths,      \* resolved absolute paths
    PathOf,     \* PathOf[o]: the path call o was given
    RealPath,   \* RealPath[p]: the file p reaches through symbolic links
    Existing,   \* the files that exist at the start
    NoOp        \* "no promise": a resolved one, or no entry in the map

ASSUME OpsAssumption == EditOps \subseteq Ops /\ NoOp \notin Ops
ASSUME PathAssumption ==
    /\ PathOf \in [Ops -> Paths]
    /\ RealPath \in [Paths -> Paths]
    /\ \A p \in Paths : RealPath[RealPath[p]] = RealPath[p]
    /\ Existing \subseteq Paths

VARIABLES
    pc,         \* where each call stands
    regQueue,   \* registrationQueue: calls not yet registered, in call order
    key,        \* key[o]: what getMutationQueueKey returned
    prev,       \* prev[o]: the currentQueue o awaits
    tail,       \* fileMutationQueues
    exists,     \* the files on disk
    content,    \* content[f]: the calls whose changes are in f
    buf,        \* buf[o]: the content edit call o has read
    aborted,    \* the calls whose abort signal has fired
    ticket,     \* ticket[o]: o was the ticket[o]-th call made (history)
    called      \* number of calls made so far (history)

disk == <<exists, content, buf>>
queue == <<key, prev, tail>>
history == <<ticket, called>>
vars == <<pc, regQueue, queue, disk, aborted, history>>

FileOf(o) == RealPath[PathOf[o]]
Finished(o) == pc[o] \in {"done", "failed", "rejected"}
Inside(o) == pc[o] \in {"entered", "read", "writing"}
Live(o) == pc[o] = "waiting" \/ Inside(o)

Init ==
    /\ pc = [o \in Ops |-> "idle"]
    /\ regQueue = <<>>
    /\ key = PathOf
    /\ prev = [o \in Ops |-> NoOp]
    /\ tail = [p \in Paths |-> NoOp]
    /\ exists = Existing
    /\ content = [f \in Paths |-> <<>>]
    /\ buf = [o \in Ops |-> <<>>]
    /\ aborted = {}
    /\ ticket = [o \in Ops |-> 0]
    /\ called = 0

(***************************************************************************)
(* Registration.                                                           *)
(***************************************************************************)

\* The call chains its registration behind registrationQueue.
Call(o) ==
    /\ pc[o] = "idle"
    /\ pc' = [pc EXCEPT ![o] = "queued"]
    /\ regQueue' = Append(regQueue, o)
    /\ called' = called + 1
    /\ ticket' = [ticket EXCEPT ![o] = called + 1]
    /\ UNCHANGED <<queue, disk, aborted>>

\* Mutation: No registrationQueue: each registration goes its own way.
AnyRegistration(o) == \E i \in 1..Len(regQueue) : regQueue[i] = o

IsRegistering(o) == regQueue # <<>> /\ Head(regQueue) = o

\* getMutationQueueKey: realpath of an existing file, the path itself when
\* the file is missing.
MutationKey(o) == IF FileOf(o) \in exists THEN FileOf(o) ELSE PathOf[o]

ResolveKey(o) ==
    /\ IsRegistering(o)
    /\ pc[o] = "queued"
    /\ pc' = [pc EXCEPT ![o] = "resolved"]
    /\ key' = [key EXCEPT ![o] = MutationKey(o)]
    /\ UNCHANGED <<regQueue, prev, tail, disk, aborted, history>>

\* Mutation: registrationQueue keeps the rejection instead of swallowing it.
ResolveFailsStuck(o) ==
    /\ IsRegistering(o)
    /\ pc[o] = "queued"
    /\ pc' = [pc EXCEPT ![o] = "rejected"]
    /\ UNCHANGED <<regQueue, queue, disk, aborted, history>>

\* realpath fails for another reason: the call rejects and the next
\* registration goes on.
ResolveFails(o) ==
    /\ IsRegistering(o)
    /\ pc[o] = "queued"
    /\ pc' = [pc EXCEPT ![o] = "rejected"]
    /\ regQueue' = Tail(regQueue)
    /\ UNCHANGED <<queue, disk, aborted, history>>

\* Mutation: The map is never read: each call starts a chain of its own.
RegisterUnchained(o) ==
    /\ IsRegistering(o)
    /\ pc[o] = "resolved"
    /\ pc' = [pc EXCEPT ![o] = "waiting"]
    /\ regQueue' = Tail(regQueue)
    /\ tail' = [tail EXCEPT ![key[o]] = o]
    /\ UNCHANGED <<key, prev, disk, aborted, history>>

\* The rest of the registration, with no await in it.
Register(o) ==
    /\ IsRegistering(o)
    /\ pc[o] = "resolved"
    /\ pc' = [pc EXCEPT ![o] = "waiting"]
    /\ regQueue' = Tail(regQueue)
    /\ prev' = [prev EXCEPT ![o] = tail[key[o]]]
    /\ tail' = [tail EXCEPT ![key[o]] = o]
    /\ UNCHANGED <<key, disk, aborted, history>>

(***************************************************************************)
(* The callback, its awaits one action each, and the finally block.        *)
(***************************************************************************)

\* Mutation: The finally block does not touch the map.
ReleaseKeepsEntry(o, outcome) ==
    /\ pc' = [pc EXCEPT ![o] = outcome]
    /\ UNCHANGED <<regQueue, queue, aborted, history>>

\* Mutation: The finally block drops the entry whoever it belongs to.
ReleaseAnyEntry(o, outcome) ==
    /\ pc' = [pc EXCEPT ![o] = outcome]
    /\ tail' = [tail EXCEPT ![key[o]] = NoOp]
    /\ UNCHANGED <<regQueue, key, prev, aborted, history>>

\* The finally block: resolve nextQueue, drop the entry if it is still ours.
Release(o, outcome) ==
    /\ pc' = [pc EXCEPT ![o] = outcome]
    /\ tail' = IF tail[key[o]] = o THEN [tail EXCEPT ![key[o]] = NoOp] ELSE tail
    /\ UNCHANGED <<regQueue, key, prev, aborted, history>>

\* throwIfAborted at a step of the callback.
Proceed(o, to) ==
    IF o \in aborted
    THEN Release(o, "failed")
    ELSE /\ pc' = [pc EXCEPT ![o] = to]
         /\ UNCHANGED <<regQueue, queue, aborted, history>>

\* Mutation: The callback does not await currentQueue.
EnterAtOnce(o) ==
    /\ pc[o] = "waiting"
    /\ Proceed(o, "entered")
    /\ UNCHANGED disk

\* currentQueue has settled.
Enter(o) ==
    /\ pc[o] = "waiting"
    /\ prev[o] \in {NoOp} \cup {q \in Ops : Finished(q)}
    /\ Proceed(o, "entered")
    /\ UNCHANGED disk

\* edit: the file is readable and its content is now in memory.
ReadFile(o) ==
    /\ pc[o] = "entered"
    /\ o \in EditOps
    /\ FileOf(o) \in exists
    /\ Proceed(o, "read")
    /\ buf' = [buf EXCEPT ![o] = content[FileOf(o)]]
    /\ UNCHANGED <<exists, content>>

\* The callback throws before it writes: mkdir, access or readFile fails, or
\* the edits do not match the text.
CallbackFails(o) ==
    /\ pc[o] \in {"entered", "read"}
    /\ Release(o, "failed")
    /\ UNCHANGED disk

\* writeFile opens the file, which creates or truncates it.
OpenForWrite(o) ==
    /\ pc[o] = (IF o \in EditOps THEN "read" ELSE "entered")
    /\ Proceed(o, "writing")
    /\ IF o \in aborted
       THEN UNCHANGED disk
       ELSE /\ exists' = exists \cup {FileOf(o)}
            /\ content' = [content EXCEPT ![FileOf(o)] = <<>>]
            /\ UNCHANGED buf

\* writeFile settles; an abort seen only now fails a call that has written.
WriteSettles(o) ==
    /\ pc[o] = "writing"
    /\ content' = [content EXCEPT ![FileOf(o)] =
                      IF o \in EditOps THEN Append(buf[o], o) ELSE <<o>>]
    /\ Release(o, IF o \in aborted THEN "failed" ELSE "done")
    /\ UNCHANGED <<exists, buf>>

WriteFails(o) ==
    /\ pc[o] = "writing"
    /\ Release(o, "failed")
    /\ UNCHANGED disk

\* The agent's abort signal fires; nothing is released by it.
Abort(o) ==
    /\ pc[o] # "idle" /\ ~Finished(o)
    /\ o \notin aborted
    /\ aborted' = aborted \cup {o}
    /\ UNCHANGED <<pc, regQueue, queue, disk, history>>

Step(o) ==
    \/ ResolveKey(o) \/ ResolveFails(o) \/ Register(o)
    \/ Enter(o) \/ ReadFile(o) \/ CallbackFails(o)
    \/ OpenForWrite(o) \/ WriteSettles(o) \/ WriteFails(o)

Terminated == (\A o \in Ops : Finished(o)) /\ UNCHANGED vars

Next == (\E o \in Ops : Call(o) \/ Step(o) \/ Abort(o)) \/ Terminated

Spec == Init /\ [][Next]_vars

\* The event loop runs every ready continuation and I/O settles.
FairSpec == Spec /\ \A o \in Ops : WF_vars(Step(o))

(***************************************************************************)
(* Properties.                                                             *)
(***************************************************************************)

\* Every variable has its type, and registrationQueue holds only calls whose
\* registration is still to come.
TypeOK ==
    /\ pc \in [Ops -> {"idle", "queued", "resolved", "waiting", "entered",
                       "read", "writing", "done", "failed", "rejected"}]
    /\ regQueue \in Seq({o \in Ops : pc[o] \in {"queued", "resolved"}})
    /\ key \in [Ops -> Paths]
    /\ prev \in [Ops -> Ops \cup {NoOp}]
    /\ tail \in [Paths -> Ops \cup {NoOp}]
    /\ exists \subseteq Paths
    /\ content \in [Paths -> Seq(Ops)]
    /\ buf \in [Ops -> Seq(Ops)]
    /\ aborted \subseteq Ops
    /\ ticket \in [Ops -> Nat]
    /\ called \in Nat

\* Calls with one key run one at a time, in the order they were made: while
\* an earlier one is registered and not finished, no later one is inside its
\* callback, and none has been through it (withFileMutationQueue).
KeyFifo ==
    \A o, p \in Ops :
        /\ Live(o) /\ ticket[o] < ticket[p] /\ key[o] = key[p]
        => pc[p] \in {"queued", "resolved", "waiting", "rejected"}

\* Every symbolic link leads to a file that exists.
LinksResolve == \A p \in Paths : RealPath[p] # p => RealPath[p] \in Existing

\* Two calls on the same file are never in their callbacks together (the
\* comment at the head of withFileMutationQueue).
FileExclusive ==
    \A o, p \in Ops : o # p /\ FileOf(o) = FileOf(p) => ~(Inside(o) /\ Inside(p))

\* No lost update: the text an edit is about to rewrite is the file's text.
ReadIsCurrent == \A o \in Ops : pc[o] = "read" => buf[o] = content[FileOf(o)]

\* The map leaks no entry: an entry always names a call still to finish.
NoStaleEntry == \A k \in Paths : tail[k] # NoOp => Live(tail[k]) /\ key[tail[k]] = k

\* Every call made settles: an abort, a rejected registration or a failed
\* callback of another call blocks no one.
EveryCallFinishes == \A o \in Ops : pc[o] = "queued" ~> Finished(o)

(***************************************************************************)
(* The queue implements a mutex keyed by the files themselves.             *)
(***************************************************************************)

\* Where a call stands for its caller.
Stage(o) ==
    CASE pc[o] = "idle" -> "idle"
      [] Inside(o)      -> "inside"
      [] Finished(o)    -> "over"
      [] OTHER          -> "waiting"

Mutex == INSTANCE KeyedMutex WITH
    Calls <- Ops,
    KeyOf <- [o \in Ops |-> FileOf(o)],
    state <- [o \in Ops |-> Stage(o)]

\* Calls on one file run one at a time in the order they were made, whatever
\* links they go through, and all of them end: the comment at the head of
\* withFileMutationQueue, as a specification of its own.
ImplementsMutex == Mutex!FairSpec

=============================================================================
