---------------------- MODULE FileMutationQueueProofs ----------------------
(***************************************************************************)
(* For any number of calls, paths and links: one call per key is in its    *)
(* callback, in call order; and, when every link leads to an existing      *)
(* file, one call per file, so that no edit overwrites a change it has not *)
(* read.                                                                   *)
(***************************************************************************)
EXTENDS FileMutationQueue, TLAPS

USE OpsAssumption, PathAssumption

\* The call has no entry in the chain of its key: it has not registered.
Outside(o) == pc[o] \in {"idle", "queued", "resolved", "rejected"}

\* registrationQueue holds calls in call order, all later than any that has
\* registered.
QueueOrder ==
    /\ \A i \in 1..Len(regQueue) : pc[regQueue[i]] \in {"queued", "resolved"}
    /\ \A i, j \in 1..Len(regQueue) :
          i < j => ticket[regQueue[i]] < ticket[regQueue[j]]
    /\ \A o \in Ops, i \in 1..Len(regQueue) :
          ~Outside(o) => ticket[o] < ticket[regQueue[i]]

\* Tickets are given out in call order and never twice.
Tickets ==
    /\ \A o \in Ops : ticket[o] <= called
    /\ \A o \in Ops : pc[o] = "idle" => ticket[o] = 0
    /\ \A o, p \in Ops :
          o # p /\ pc[o] # "idle" /\ pc[p] # "idle" => ticket[o] # ticket[p]

\* The map's entry is the latest of the live calls of its key.
TailIsLatest ==
    \A o \in Ops : Live(o) => /\ tail[key[o]] \in Ops
                              /\ ticket[o] <= ticket[tail[key[o]]]

\* A waiting call stands behind every earlier live call of its key, directly
\* or through the call whose promise it awaits.
BehindPrev ==
    \A o, p \in Ops :
        /\ Live(o) /\ pc[p] = "waiting"
        /\ key[o] = key[p] /\ ticket[o] < ticket[p]
        => /\ prev[p] \in Ops
           /\ ~Outside(prev[p])
           /\ key[prev[p]] = key[p]
           /\ ticket[o] <= ticket[prev[p]]
           /\ ticket[prev[p]] < ticket[p]

\* The variables one by one: TypeOK without what it says of the calls queued.
Typed ==
    /\ pc \in [Ops -> {"idle", "queued", "resolved", "waiting", "entered",
                       "read", "writing", "done", "failed", "rejected"}]
    /\ regQueue \in Seq(Ops)
    /\ key \in [Ops -> Paths]
    /\ prev \in [Ops -> Ops \cup {NoOp}]
    /\ tail \in [Paths -> Ops \cup {NoOp}]
    /\ exists \subseteq Paths
    /\ content \in [Paths -> Seq(Ops)]
    /\ buf \in [Ops -> Seq(Ops)]
    /\ aborted \subseteq Ops
    /\ ticket \in [Ops -> Nat]
    /\ called \in Nat

IInv ==
    /\ Typed
    /\ QueueOrder
    /\ Tickets
    /\ NoStaleEntry
    /\ TailIsLatest
    /\ BehindPrev
    /\ KeyFifo

\* No earlier call of o's key is still live.
Clear(o) ==
    \A p \in Ops : Live(p) /\ key[p] = key[o] => ~(ticket[p] < ticket[o])

Pcs == {"idle", "queued", "resolved", "waiting", "entered", "read", "writing",
        "done", "failed", "rejected"}

\* Every variable keeps its type (the state of FileMutationQueue).
LEMMA TypedAlways == Spec => []Typed
<1>1. Init => Typed
  BY DEF Init, Typed
<1>2. Typed /\ [Next]_vars => Typed'
  <2> SUFFICES ASSUME Typed, [Next]_vars PROVE Typed'
    OBVIOUS
  <2> USE DEF Typed, queue, disk, history, Release, Proceed
  <2>1. ASSUME NEW o \in Ops, Call(o) PROVE Typed'
    BY <2>1 DEF Call
  <2>2. ASSUME NEW o \in Ops, ResolveKey(o) PROVE Typed'
    BY <2>2 DEF ResolveKey, MutationKey, FileOf
  <2>3. ASSUME NEW o \in Ops, ResolveFails(o) PROVE Typed'
    BY <2>3 DEF ResolveFails, IsRegistering
  <2>4. ASSUME NEW o \in Ops, Register(o) PROVE Typed'
    BY <2>4 DEF Register, IsRegistering
  <2>5. ASSUME NEW o \in Ops, Enter(o) PROVE Typed'
    BY <2>5 DEF Enter
  <2>6. ASSUME NEW o \in Ops, ReadFile(o) PROVE Typed'
    BY <2>6 DEF ReadFile, FileOf
  <2>7. ASSUME NEW o \in Ops, CallbackFails(o) PROVE Typed'
    BY <2>7 DEF CallbackFails
  <2>8. ASSUME NEW o \in Ops, OpenForWrite(o) PROVE Typed'
    <3>1. FileOf(o) \in Paths
      BY DEF FileOf
    <3>2. exists' \subseteq Paths
      BY <3>1, <2>8 DEF OpenForWrite
    <3>3. content' = content \/ content' = [content EXCEPT ![FileOf(o)] = <<>>]
      BY <2>8 DEF OpenForWrite
    <3>4. <<>> \in Seq(Ops)
      OBVIOUS
    <3>5. content' \in [Paths -> Seq(Ops)]
      BY <3>1, <3>3, <3>4
    <3> QED
      BY <3>2, <3>5, <2>8 DEF OpenForWrite
  <2>9. ASSUME NEW o \in Ops, WriteSettles(o) PROVE Typed'
    <3>1. content' \in [Paths -> Seq(Ops)]
      BY <2>9 DEF WriteSettles, FileOf
    <3> QED
      BY <3>1, <2>9 DEF WriteSettles
  <2>10. ASSUME NEW o \in Ops, WriteFails(o) PROVE Typed'
    BY <2>10 DEF WriteFails
  <2>11. ASSUME NEW o \in Ops, Abort(o) PROVE Typed'
    BY <2>11 DEF Abort
  <2>12. CASE UNCHANGED vars
    BY <2>12 DEF vars
  <2> QED
    BY <2>1, <2>2, <2>3, <2>4, <2>5, <2>6, <2>7, <2>8, <2>9, <2>10, <2>11,
       <2>12 DEF Next, Step, Terminated
<1> QED
  BY <1>1, <1>2, PTL DEF Spec

-----------------------------------------------------------------------------
(***************************************************************************)
(* The inductive invariant.                                                *)
(***************************************************************************)

\* A call in the registration queue is not registered yet.
LEMMA QueuedCalls ==
    ASSUME Typed, QueueOrder, NEW i \in 1..Len(regQueue)
    PROVE  regQueue[i] \in Ops /\ Outside(regQueue[i]) /\ ~Live(regQueue[i])
<1>1. regQueue[i] \in Ops
  BY DEF Typed
<1>2. pc[regQueue[i]] \in {"queued", "resolved"}
  BY DEF QueueOrder
<1> QED
  BY <1>1, <1>2 DEF Outside, Live, Inside

\* Of two live calls one was made first.
LEMMA LiveDistinct ==
    ASSUME Typed, Tickets, NEW o \in Ops, NEW p \in Ops, Live(o), Live(p), o # p
    PROVE  ticket[o] < ticket[p] \/ ticket[p] < ticket[o]
<1>1. pc[o] # "idle" /\ pc[p] # "idle"
  BY DEF Live, Inside
<1>2. ticket[o] # ticket[p]
  BY <1>1 DEF Tickets
<1> QED
  BY <1>2 DEF Typed

\* A call whose currentQueue has settled has no live predecessor.
LEMMA SettledIsClear ==
    ASSUME IInv, NEW o \in Ops, pc[o] = "waiting",
           prev[o] \in {NoOp} \cup {q \in Ops : Finished(q)}
    PROVE  Clear(o)
<1> SUFFICES ASSUME NEW p \in Ops, Live(p), key[p] = key[o],
                    ticket[p] < ticket[o]
             PROVE FALSE
  BY DEF Clear
<1> USE DEF IInv
<1>1. /\ prev[o] \in Ops /\ ~Outside(prev[o]) /\ key[prev[o]] = key[p]
      /\ ticket[p] <= ticket[prev[o]]
  BY DEF BehindPrev
<1>2. Finished(prev[o]) /\ prev[o] # p
  BY <1>1 DEF Finished, Live, Inside
<1>3. ticket[p] # ticket[prev[o]]
  BY <1>1, <1>2 DEF Tickets, Outside, Live, Inside
<1>4. ticket[p] < ticket[prev[o]]
  BY <1>1, <1>3 DEF Typed
<1> QED
  BY <1>1, <1>2, <1>4 DEF KeyFifo, Finished, Outside

\* A call inside its callback has no live predecessor either.
LEMMA InsideIsClear ==
    ASSUME IInv, NEW o \in Ops, Inside(o) PROVE Clear(o)
BY DEF IInv, KeyFifo, Clear, Inside

\* A call at its turn goes on in its callback.
LEMMA AdvanceKeeps ==
    ASSUME IInv, Typed', NEW o \in Ops, Live(o), Clear(o),
           NEW to \in {"entered", "read", "writing"},
           pc' = [pc EXCEPT ![o] = to],
           UNCHANGED <<regQueue, queue, history>>
    PROVE  IInv'
<1> USE DEF IInv, queue, history
<1>1. \A p \in Ops : /\ Live(p)' <=> Live(p)
                     /\ Outside(p)' <=> Outside(p)
                     /\ pc'[p] = "idle" <=> pc[p] = "idle"
                     /\ pc'[p] = "waiting" => pc[p] = "waiting"
                     /\ p # o => pc'[p] = pc[p]
  BY DEF Typed, Live, Inside, Outside
<1>2. QueueOrder'
  <2>1. \A i \in 1..Len(regQueue) : regQueue[i] \in Ops /\ regQueue[i] # o
    BY QueuedCalls
  <2> QED
    BY <1>1, <2>1 DEF QueueOrder
<1>3. Tickets'
  BY <1>1 DEF Tickets
<1>4. NoStaleEntry'
  BY <1>1 DEF NoStaleEntry, Typed
<1>5. TailIsLatest'
  BY <1>1 DEF TailIsLatest
<1>6. BehindPrev'
  BY <1>1 DEF BehindPrev
<1>7. KeyFifo'
  BY <1>1 DEF KeyFifo, Clear
<1> QED
  BY <1>2, <1>3, <1>4, <1>5, <1>6, <1>7

\* A call at its turn releases: the finally block keeps the invariant.
LEMMA ReleaseKeeps ==
    ASSUME IInv, Typed', NEW o \in Ops, Live(o), Clear(o),
           NEW outcome \in {"done", "failed"}, Release(o, outcome)
    PROVE  IInv'
<1> USE DEF IInv, history
<1>1. \A p \in Ops : /\ Live(p)' <=> Live(p) /\ p # o
                     /\ Outside(p)' <=> Outside(p)
                     /\ pc'[p] = "idle" <=> pc[p] = "idle"
                     /\ pc'[p] = "waiting" => pc[p] = "waiting"
                     /\ p # o => pc'[p] = pc[p]
  BY DEF Typed, Live, Inside, Outside, Release
<1>2. UNCHANGED <<regQueue, key, prev, ticket, called>>
  BY DEF Release
<1>3. QueueOrder'
  <2>1. \A i \in 1..Len(regQueue) : regQueue[i] \in Ops /\ regQueue[i] # o
    BY QueuedCalls
  <2> QED
    BY <1>1, <1>2, <2>1 DEF QueueOrder
<1>4. Tickets'
  BY <1>1, <1>2 DEF Tickets
<1>5. \A p \in Ops : Live(p) /\ key[p] = key[o] /\ p # o => ticket[o] < ticket[p]
  BY LiveDistinct DEF Clear
<1>6. NoStaleEntry'
  BY <1>1, <1>2 DEF NoStaleEntry, Typed, Release
<1>7. TailIsLatest'
  <2> SUFFICES ASSUME NEW p \in Ops, Live(p)'
               PROVE tail'[key[p]] \in Ops /\ ticket[p] <= ticket[tail'[key[p]]]
    BY <1>2 DEF TailIsLatest
  <2>1. Live(p) /\ p # o
    BY <1>1
  <2>2. tail[key[p]] # o
    <3> SUFFICES ASSUME tail[key[p]] = o PROVE FALSE
      OBVIOUS
    <3>1. key[o] = key[p]
      BY DEF NoStaleEntry, Typed
    <3>2. ticket[o] < ticket[p] /\ ticket[p] <= ticket[o]
      BY <2>1, <3>1, <1>5 DEF TailIsLatest
    <3> QED
      BY <3>2 DEF Typed
  <2>3. tail'[key[p]] = tail[key[p]]
    BY <2>2 DEF Release, Typed
  <2> QED
    BY <2>1, <2>3 DEF TailIsLatest
<1>8. BehindPrev'
  BY <1>1, <1>2 DEF BehindPrev
<1>9. KeyFifo'
  <2> SUFFICES ASSUME NEW q \in Ops, NEW p \in Ops, Live(q)',
                      ticket[q] < ticket[p], key[q] = key[p]
               PROVE pc'[p] \in {"queued", "resolved", "waiting", "rejected"}
    BY <1>2 DEF KeyFifo
  <2>1. Live(q) /\ q # o
    BY <1>1
  <2>2. p # o
    BY <2>1, <1>5 DEF Typed
  <2> QED
    BY <1>1, <2>1, <2>2 DEF KeyFifo
<1> QED
  BY <1>3, <1>4, <1>6, <1>7, <1>8, <1>9

\* A new call takes the last place and the highest ticket.
LEMMA CallKeeps ==
    ASSUME IInv, Typed', NEW o \in Ops, Call(o) PROVE IInv'
<1> USE DEF IInv, Call, queue
<1>1. \A p \in Ops : /\ Live(p)' <=> Live(p)
                     /\ Outside(p)' <=> Outside(p)
                     /\ pc'[p] = "waiting" <=> pc[p] = "waiting"
                     /\ p # o => pc'[p] = pc[p] /\ ticket'[p] = ticket[p]
                     /\ ~Outside(p) => p # o
  BY DEF Typed, Live, Inside, Outside
<1>2. \A p \in Ops : Live(p) => p # o
  BY <1>1 DEF Live, Inside
<1>3. pc'[o] = "queued" /\ ticket'[o] = called + 1 /\ ticket[o] = 0
  BY DEF Typed, Tickets
<1>4. \A p \in Ops : ticket[p] < called + 1
  BY DEF Tickets, Typed
<1>5. QueueOrder'
  <2>1. /\ Len(regQueue') = Len(regQueue) + 1 /\ Len(regQueue) \in Nat
        /\ regQueue'[Len(regQueue) + 1] = o
        /\ \A i \in 1..Len(regQueue) : regQueue'[i] = regQueue[i]
    BY DEF Typed
  <2>2. \A i \in 1..Len(regQueue) : regQueue[i] \in Ops /\ regQueue[i] # o
    BY QueuedCalls DEF QueueOrder
  <2>3. \A i \in 1..Len(regQueue') : i \in 1..Len(regQueue) \/ i = Len(regQueue) + 1
    BY <2>1
  <2>4. \A i \in 1..Len(regQueue') : pc'[regQueue'[i]] \in {"queued", "resolved"}
    BY <1>1, <1>3, <2>1, <2>2, <2>3 DEF QueueOrder
  <2>5. \A i, j \in 1..Len(regQueue') :
          i < j => ticket'[regQueue'[i]] < ticket'[regQueue'[j]]
    <3> SUFFICES ASSUME NEW i \in 1..Len(regQueue'), NEW j \in 1..Len(regQueue'), i < j
                 PROVE ticket'[regQueue'[i]] < ticket'[regQueue'[j]]
      OBVIOUS
    <3>1. i \in 1..Len(regQueue)
      BY <2>1
    <3>2. CASE j \in 1..Len(regQueue)
      BY <1>1, <2>1, <2>2, <3>1, <3>2 DEF QueueOrder
    <3>3. CASE j = Len(regQueue) + 1
      BY <1>1, <1>3, <1>4, <2>1, <2>2, <3>1, <3>3
    <3> QED
      BY <2>3, <3>2, <3>3
  <2>6. \A p \in Ops, i \in 1..Len(regQueue') :
          ~Outside(p)' => ticket'[p] < ticket'[regQueue'[i]]
    <3> SUFFICES ASSUME NEW p \in Ops, NEW i \in 1..Len(regQueue'), ~Outside(p)'
                 PROVE ticket'[p] < ticket'[regQueue'[i]]
      OBVIOUS
    <3>1. ~Outside(p) /\ ticket'[p] = ticket[p]
      BY <1>1
    <3>2. CASE i \in 1..Len(regQueue)
      BY <1>1, <2>1, <2>2, <3>1, <3>2 DEF QueueOrder
    <3>3. CASE i = Len(regQueue) + 1
      BY <1>3, <1>4, <2>1, <3>1, <3>3
    <3> QED
      BY <2>3, <3>2, <3>3
  <2> QED
    BY <2>4, <2>5, <2>6 DEF QueueOrder
<1>6. Tickets'
  <2>0. called' = called + 1 /\ called \in Nat
    BY DEF Typed
  <2>1. \A p \in Ops : ticket'[p] <= called'
    <3> SUFFICES ASSUME NEW p \in Ops PROVE ticket'[p] <= called'
      OBVIOUS
    <3>1. CASE p = o
      BY <1>3, <2>0, <3>1
    <3>2. CASE p # o
      <4>1. ticket'[p] = ticket[p] /\ ticket[p] <= called /\ ticket[p] \in Nat
        BY <1>1, <3>2 DEF Tickets, Typed
      <4> QED
        BY ONLY <2>0, <4>1
    <3> QED
      BY <3>1, <3>2
  <2>2. \A p \in Ops : pc'[p] = "idle" => ticket'[p] = 0
    BY <1>1, <1>3 DEF Tickets
  <2>3. \A p \in Ops : p # o => ticket'[p] # ticket'[o]
    BY <1>1, <1>3, <1>4 DEF Typed
  <2> QED
    BY <1>1, <2>1, <2>2, <2>3 DEF Tickets
<1>7. NoStaleEntry'
  BY <1>1 DEF NoStaleEntry, Typed
<1>8. TailIsLatest'
  <2> SUFFICES ASSUME NEW p \in Ops, Live(p)'
               PROVE tail[key[p]] \in Ops /\ ticket'[p] <= ticket'[tail[key[p]]]
    BY DEF TailIsLatest
  <2>1. Live(p) /\ p # o
    BY <1>1, <1>2
  <2>2. tail[key[p]] \in Ops /\ ticket[p] <= ticket[tail[key[p]]]
    BY <2>1 DEF TailIsLatest
  <2>3. Live(tail[key[p]])
    BY <2>2 DEF NoStaleEntry, Typed
  <2>4. tail[key[p]] # o
    BY <2>2, <2>3, <1>2
  <2> QED
    BY <1>1, <2>1, <2>2, <2>4
<1>9. BehindPrev'
  <2> SUFFICES ASSUME NEW q \in Ops, NEW p \in Ops, Live(q)', pc'[p] = "waiting",
                      key'[q] = key'[p], ticket'[q] < ticket'[p]
               PROVE (/\ prev[p] \in Ops /\ ~Outside(prev[p])
                      /\ key[prev[p]] = key[p] /\ ticket[q] <= ticket[prev[p]]
                      /\ ticket[prev[p]] < ticket[p])'
    BY DEF BehindPrev
  <2>1. Live(q) /\ q # o /\ pc[p] = "waiting" /\ p # o
    BY <1>1, <1>2, <1>3
  <2>2. /\ prev[p] \in Ops /\ ~Outside(prev[p])
        /\ key[prev[p]] = key[p] /\ ticket[q] <= ticket[prev[p]]
        /\ ticket[prev[p]] < ticket[p]
    BY <1>1, <2>1 DEF BehindPrev
  <2>3. prev[p] # o
    BY <1>1, <2>2
  <2>4. ~Outside(prev[p])'
    BY <1>1, <2>2
  <2> QED
    BY <1>1, <2>1, <2>2, <2>3, <2>4
<1>10. KeyFifo'
  <2>1. UNCHANGED key
    OBVIOUS
  <2>2. \A p \in Ops : Live(p)' => Live(p) /\ ticket'[p] = ticket[p]
    BY <1>1, <1>2
  <2>3. \A p \in Ops : p # o => pc'[p] = pc[p] /\ ticket'[p] = ticket[p]
    BY <1>1
  <2> QED
    BY <1>3, <2>1, <2>2, <2>3 DEF KeyFifo
<1> QED
  BY <1>5, <1>6, <1>7, <1>8, <1>9, <1>10

\* A call that has not registered may change its key or leave the queue.
LEMMA UnregisteredKeeps ==
    ASSUME IInv, Typed', NEW o \in Ops, IsRegistering(o), pc[o] = "queued",
           \/ /\ pc' = [pc EXCEPT ![o] = "resolved"]
              /\ UNCHANGED regQueue
           \/ /\ pc' = [pc EXCEPT ![o] = "rejected"]
              /\ regQueue' = Tail(regQueue),
           \A p \in Ops : p # o => key'[p] = key[p],
           UNCHANGED <<prev, tail, history>>
    PROVE  IInv'
<1> USE DEF IInv, history
<1>1. \A p \in Ops : /\ Live(p)' <=> Live(p)
                     /\ Outside(p)' <=> Outside(p)
                     /\ pc'[p] = "waiting" <=> pc[p] = "waiting"
                     /\ pc'[p] = "idle" <=> pc[p] = "idle"
                     /\ p # o => pc'[p] = pc[p] /\ key'[p] = key[p]
                     /\ Live(p) \/ ~Outside(p) => p # o
  <2>1. \A p \in Ops : p # o => pc'[p] = pc[p]
    BY DEF Typed
  <2>2. Outside(o) /\ Outside(o)' /\ ~Live(o) /\ ~Live(o)' /\ pc'[o] # "waiting"
        /\ pc'[o] # "idle"
    BY DEF Typed, Live, Inside, Outside
  <2> QED
    BY <2>1, <2>2 DEF Live, Inside, Outside
<1>2. pc'[o] \in {"resolved", "rejected"}
  BY DEF Typed
<1>3. QueueOrder'
  <2>1. regQueue # <<>> /\ regQueue[1] = o /\ regQueue \in Seq(Ops)
    BY DEF IsRegistering, Typed
  <2>2. \A i \in 1..Len(regQueue) : i # 1 => regQueue[i] # o
    <3> SUFFICES ASSUME NEW i \in 1..Len(regQueue), i # 1, regQueue[i] = o
                 PROVE FALSE
      OBVIOUS
    <3>1. 1 \in 1..Len(regQueue) /\ 1 < i
      BY <2>1
    <3>2. ticket[regQueue[1]] < ticket[regQueue[i]]
      BY <3>1 DEF QueueOrder
    <3> QED
      BY <2>1, <3>2 DEF Typed
  <2>3. CASE regQueue' = regQueue
    <3>1. pc'[o] \in {"queued", "resolved"}
      <4>1. ~(regQueue' = Tail(regQueue))
        BY <2>1, <2>3
      <4> QED
        BY <4>1 DEF Typed
    <3>2. \A i \in 1..Len(regQueue) : pc'[regQueue[i]] \in {"queued", "resolved"}
      BY <1>1, <3>1, QueuedCalls DEF QueueOrder
    <3> QED
      BY <1>1, <2>3, <3>2 DEF QueueOrder
  <2>4. CASE regQueue' = Tail(regQueue)
    <3>1. /\ Len(regQueue') = Len(regQueue) - 1
          /\ \A i \in 1..Len(regQueue') : /\ regQueue'[i] = regQueue[i + 1]
                                          /\ i + 1 \in 1..Len(regQueue)
      BY <2>1, <2>4
    <3>2. \A i \in 1..Len(regQueue') : regQueue'[i] # o /\ regQueue'[i] \in Ops
      BY <2>2, <3>1, QueuedCalls
    <3>3. \A i \in 1..Len(regQueue') : pc'[regQueue'[i]] \in {"queued", "resolved"}
      BY <1>1, <3>1, <3>2 DEF QueueOrder
    <3>4. \A i, j \in 1..Len(regQueue') :
            i < j => ticket'[regQueue'[i]] < ticket'[regQueue'[j]]
      <4> SUFFICES ASSUME NEW i \in 1..Len(regQueue'), NEW j \in 1..Len(regQueue'), i < j
                   PROVE ticket[regQueue'[i]] < ticket[regQueue'[j]]
        OBVIOUS
      <4>1. i + 1 < j + 1
        OBVIOUS
      <4> QED
        BY <3>1, <4>1 DEF QueueOrder
    <3>5. \A p \in Ops, i \in 1..Len(regQueue') :
            ~Outside(p)' => ticket'[p] < ticket'[regQueue'[i]]
      BY <1>1, <3>1 DEF QueueOrder
    <3> QED
      BY <3>3, <3>4, <3>5 DEF QueueOrder
  <2> QED
    BY <2>3, <2>4
<1>4. Tickets'
  BY <1>1 DEF Tickets
<1>5. NoStaleEntry'
  BY <1>1 DEF NoStaleEntry, Typed
<1>6. TailIsLatest'
  BY <1>1 DEF TailIsLatest
<1>7. BehindPrev'
  BY <1>1 DEF BehindPrev
<1>8. KeyFifo'
  BY <1>1, <1>2 DEF KeyFifo
<1> QED
  BY <1>3, <1>4, <1>5, <1>6, <1>7, <1>8

\* The registering call becomes the latest of its key, behind the map's entry.
LEMMA RegisterKeeps ==
    ASSUME IInv, Typed', NEW o \in Ops, Register(o) PROVE IInv'
<1> USE DEF IInv, history
<1>1. /\ regQueue # <<>> /\ regQueue \in Seq(Ops) /\ regQueue[1] = o
      /\ 1 \in 1..Len(regQueue)
  BY DEF Register, IsRegistering, Typed
<1>2. /\ pc[o] = "resolved" /\ pc' = [pc EXCEPT ![o] = "waiting"]
      /\ prev' = [prev EXCEPT ![o] = tail[key[o]]]
      /\ tail' = [tail EXCEPT ![key[o]] = o]
      /\ regQueue' = Tail(regQueue)
      /\ UNCHANGED <<key, ticket, called>>
  BY DEF Register
<1>3. \A p \in Ops : /\ Live(p)' <=> Live(p) \/ p = o
                     /\ Outside(p)' <=> Outside(p) /\ p # o
                     /\ pc'[p] = "idle" <=> pc[p] = "idle"
                     /\ p # o => pc'[p] = pc[p] /\ prev'[p] = prev[p]
  BY <1>2 DEF Typed, Live, Inside, Outside
<1>4. /\ pc'[o] = "waiting" /\ prev'[o] = tail[key[o]] /\ Outside(o) /\ ~Live(o)
  BY <1>2 DEF Typed, Outside, Live, Inside
<1>5. \A p \in Ops : ~Outside(p) => ticket[p] < ticket[o]
  BY <1>1 DEF QueueOrder
<1>6. \A p \in Ops : Live(p) => ~Outside(p)
  BY DEF Live, Inside, Outside
<1>7. QueueOrder'
  <2>1. /\ Len(regQueue') = Len(regQueue) - 1
        /\ \A i \in 1..Len(regQueue') : /\ regQueue'[i] = regQueue[i + 1]
                                        /\ i + 1 \in 1..Len(regQueue)
    BY <1>1, <1>2
  <2>2. \A i \in 1..Len(regQueue') : ticket[o] < ticket[regQueue'[i]]
    <3> SUFFICES ASSUME NEW i \in 1..Len(regQueue')
                 PROVE ticket[regQueue[1]] < ticket[regQueue[i + 1]]
      BY <1>1, <2>1
    <3>1. 1 < i + 1 /\ i + 1 \in 1..Len(regQueue)
      BY <2>1
    <3> QED
      BY <1>1, <3>1 DEF QueueOrder
  <2>3. \A i \in 1..Len(regQueue') : regQueue'[i] \in Ops /\ regQueue'[i] # o
    <3> SUFFICES ASSUME NEW i \in 1..Len(regQueue')
                 PROVE regQueue'[i] \in Ops /\ regQueue'[i] # o
      OBVIOUS
    <3>1. regQueue'[i] \in Ops
      BY <2>1, QueuedCalls
    <3>2. ticket[o] < ticket[regQueue'[i]] /\ ticket[o] \in Nat
      BY <2>2 DEF Typed
    <3> QED
      BY <3>1, <3>2
  <2>4. \A i \in 1..Len(regQueue') : pc'[regQueue'[i]] \in {"queued", "resolved"}
    BY <1>3, <2>1, <2>3 DEF QueueOrder
  <2>5. \A i, j \in 1..Len(regQueue') :
          i < j => ticket'[regQueue'[i]] < ticket'[regQueue'[j]]
    <3> SUFFICES ASSUME NEW i \in 1..Len(regQueue'), NEW j \in 1..Len(regQueue'), i < j
                 PROVE ticket[regQueue'[i]] < ticket[regQueue'[j]]
      BY <1>2
    <3>1. i + 1 < j + 1
      OBVIOUS
    <3> QED
      BY <2>1, <3>1 DEF QueueOrder
  <2>6. \A p \in Ops, i \in 1..Len(regQueue') :
          ~Outside(p)' => ticket'[p] < ticket'[regQueue'[i]]
    BY <1>2, <1>3, <2>1, <2>2 DEF QueueOrder
  <2> QED
    BY <2>4, <2>5, <2>6 DEF QueueOrder
<1>8. Tickets'
  BY <1>2, <1>3 DEF Tickets
<1>9. NoStaleEntry'
  <2> SUFFICES ASSUME NEW k \in Paths, tail'[k] # NoOp
               PROVE (Live(tail[k]) /\ key[tail[k]] = k)'
    BY DEF NoStaleEntry
  <2>1. CASE k = key[o]
    <3>1. tail'[k] = o
      BY <1>2, <2>1 DEF Typed
    <3> QED
      BY <1>2, <1>3, <2>1, <3>1
  <2>2. CASE k # key[o]
    <3>1. tail'[k] = tail[k] /\ tail[k] \in Ops
      BY <1>2, <2>2 DEF Typed
    <3>2. Live(tail[k]) /\ key[tail[k]] = k
      BY <3>1 DEF NoStaleEntry
    <3> QED
      BY <1>2, <1>3, <3>1, <3>2
  <2> QED
    BY <2>1, <2>2
<1>10. TailIsLatest'
  <2> SUFFICES ASSUME NEW p \in Ops, Live(p)'
               PROVE tail'[key[p]] \in Ops /\ ticket[p] <= ticket[tail'[key[p]]]
    BY <1>2 DEF TailIsLatest
  <2>1. p = o \/ (Live(p) /\ ticket[p] < ticket[o])
    BY <1>3, <1>5, <1>6
  <2>2. CASE key[p] = key[o]
    <3>1. tail'[key[p]] = o
      BY <1>2, <2>2 DEF Typed
    <3>2. ticket[p] \in Nat /\ ticket[o] \in Nat
      BY DEF Typed
    <3>3. ticket[p] <= ticket[o]
      BY <2>1, <3>2
    <3> QED
      BY <3>1, <3>3
  <2>3. CASE key[p] # key[o]
    BY <1>2, <2>1, <2>3 DEF TailIsLatest, Typed
  <2> QED
    BY <2>2, <2>3
<1>11. BehindPrev'
  <2> SUFFICES ASSUME NEW q \in Ops, NEW p \in Ops, Live(q)', pc'[p] = "waiting",
                      key[q] = key[p], ticket[q] < ticket[p]
               PROVE (/\ prev[p] \in Ops /\ ~Outside(prev[p])
                      /\ key[prev[p]] = key[p] /\ ticket[q] <= ticket[prev[p]]
                      /\ ticket[prev[p]] < ticket[p])'
    BY <1>2 DEF BehindPrev
  <2>1. CASE p = o
    <3>1. Live(q) /\ q # o
      <4>1. q # o
        BY <2>1 DEF Typed
      <4> QED
        BY <1>3, <4>1
    <3>2. tail[key[q]] \in Ops /\ ticket[q] <= ticket[tail[key[q]]]
      BY <3>1 DEF TailIsLatest
    <3>3. Live(tail[key[q]]) /\ key[tail[key[q]]] = key[q]
      BY <3>2 DEF NoStaleEntry, Typed
    <3>4. prev'[p] = tail[key[q]] /\ ~Outside(tail[key[q]])
      BY <1>4, <1>6, <2>1, <3>2, <3>3
    <3> HIDE DEF IInv
    <3> QED
      BY <1>2, <1>3, <1>5, <2>1, <3>2, <3>3, <3>4
  <2>2. CASE p # o
    <3>1. pc[p] = "waiting" /\ ~Outside(p) /\ prev'[p] = prev[p]
      BY <1>3, <2>2 DEF Outside
    <3>2. Live(q)
      <4>1. ticket[p] < ticket[o]
        BY <1>5, <3>1
      <4> QED
        BY <1>3, <4>1 DEF Typed
    <3>3. /\ prev[p] \in Ops /\ ~Outside(prev[p])
          /\ key[prev[p]] = key[p] /\ ticket[q] <= ticket[prev[p]]
          /\ ticket[prev[p]] < ticket[p]
      BY <3>1, <3>2 DEF BehindPrev
    <3> QED
      BY <1>2, <1>3, <3>1, <3>3
  <2> QED
    BY <2>1, <2>2
<1>12. KeyFifo'
  <2> SUFFICES ASSUME NEW q \in Ops, NEW p \in Ops, Live(q)',
                      ticket[q] < ticket[p], key[q] = key[p]
               PROVE pc'[p] \in {"queued", "resolved", "waiting", "rejected"}
    BY <1>2 DEF KeyFifo
  <2>1. CASE q = o
    <3>1. Outside(p) /\ p # o /\ ticket[p] # 0
      <4>1. ticket[o] < ticket[p] /\ ticket[o] \in Nat /\ ticket[p] \in Nat
        BY <2>1 DEF Typed
      <4>2. ~(ticket[p] < ticket[o])
        BY <4>1
      <4> QED
        BY <1>5, <2>1, <4>1, <4>2
    <3>2. pc[p] # "idle"
      BY <3>1 DEF Tickets
    <3> QED
      BY <1>3, <3>1, <3>2 DEF Outside
  <2>2. CASE q # o /\ p = o
    BY <1>4, <2>2
  <2>3. CASE q # o /\ p # o
    BY <1>3, <2>3 DEF KeyFifo
  <2> QED
    BY <2>1, <2>2, <2>3
<1> QED
  BY <1>7, <1>8, <1>9, <1>10, <1>11, <1>12

-----------------------------------------------------------------------------
\* Every step of the queue keeps the inductive invariant.
LEMMA InvariantInductive == IInv /\ Typed' /\ [Next]_vars => IInv'
<1> SUFFICES ASSUME IInv, Typed', [Next]_vars PROVE IInv'
  OBVIOUS
<1>1. ASSUME NEW o \in Ops, Call(o) PROVE IInv'
  BY <1>1, CallKeeps
<1>2. ASSUME NEW o \in Ops, ResolveKey(o) PROVE IInv'
  BY <1>2, UnregisteredKeeps DEF ResolveKey, IInv, Typed
<1>3. ASSUME NEW o \in Ops, ResolveFails(o) PROVE IInv'
  BY <1>3, UnregisteredKeeps DEF ResolveFails, queue
<1>4. ASSUME NEW o \in Ops, Register(o) PROVE IInv'
  BY <1>4, RegisterKeeps
<1>5. ASSUME NEW o \in Ops, NEW to \in {"entered", "read", "writing"},
             Live(o), Clear(o), Proceed(o, to)
      PROVE IInv'
  <2>1. CASE o \in aborted
    BY <1>5, <2>1, ReleaseKeeps DEF Proceed
  <2>2. CASE o \notin aborted
    BY <1>5, <2>2, AdvanceKeeps DEF Proceed, queue, history
  <2> QED
    BY <2>1, <2>2
<1>6. ASSUME NEW o \in Ops, Enter(o) PROVE IInv'
  <2>1. Live(o) /\ Clear(o) /\ Proceed(o, "entered")
    BY <1>6, SettledIsClear DEF Enter, Live
  <2> QED
    BY <1>5, <2>1
<1>7. ASSUME NEW o \in Ops, Inside(o) PROVE Live(o) /\ Clear(o)
  BY <1>7, InsideIsClear DEF Live
<1>8. ASSUME NEW o \in Ops, ReadFile(o) PROVE IInv'
  BY <1>5, <1>7, <1>8 DEF ReadFile, Inside
<1>9. ASSUME NEW o \in Ops, CallbackFails(o) PROVE IInv'
  BY <1>7, <1>9, ReleaseKeeps DEF CallbackFails, Inside
<1>10. ASSUME NEW o \in Ops, OpenForWrite(o) PROVE IInv'
  BY <1>5, <1>7, <1>10 DEF OpenForWrite, Inside
<1>11. ASSUME NEW o \in Ops, WriteSettles(o) PROVE IInv'
  BY <1>7, <1>11, ReleaseKeeps DEF WriteSettles, Inside
<1>12. ASSUME NEW o \in Ops, WriteFails(o) PROVE IInv'
  BY <1>7, <1>12, ReleaseKeeps DEF WriteFails, Inside
<1>13. CASE \/ \E o \in Ops : Abort(o)
            \/ UNCHANGED vars
  <2>1. UNCHANGED <<pc, regQueue, queue, history>>
    BY <1>13 DEF Abort, vars
  <2> QED
    BY <2>1 DEF IInv, QueueOrder, Tickets, NoStaleEntry, TailIsLatest, BehindPrev,
                KeyFifo, Live, Inside, Outside, queue, history
<1> QED
  BY <1>1, <1>2, <1>3, <1>4, <1>6, <1>8, <1>9, <1>10, <1>11, <1>12, <1>13
     DEF Next, Step, Terminated

\* The inductive invariant holds of every reachable state.
LEMMA Invariance == Spec => []IInv
<1>1. Init => IInv
  <2> SUFFICES ASSUME Init PROVE IInv
    OBVIOUS
  <2>1. Typed
    BY DEF Init, Typed
  <2>2. Len(regQueue) = 0
    BY DEF Init
  <2>3. \A o \in Ops : Outside(o) /\ ~Live(o) /\ ticket[o] = 0 /\ pc[o] = "idle"
    BY DEF Init, Outside, Live, Inside
  <2>4. called = 0 /\ \A k \in Paths : tail[k] = NoOp
    BY DEF Init
  <2>5. QueueOrder
    BY <2>2 DEF QueueOrder
  <2> QED
    BY <2>1, <2>3, <2>4, <2>5
       DEF IInv, Tickets, NoStaleEntry, TailIsLatest, BehindPrev, KeyFifo
<1> QED
  BY <1>1, InvariantInductive, TypedAlways, PTL DEF Spec

\* Every variable keeps its type, and what is chained behind registrationQueue
\* is still to register: a rejected or a registered call leaves it
\* (withFileMutationQueue).
THEOREM TypeCorrect == Spec => []TypeOK
<1>1. IInv => TypeOK
  <2> SUFFICES ASSUME IInv PROVE TypeOK
    OBVIOUS
  <2>1. Typed
    BY DEF IInv
  <2> DEFINE S == {o \in Ops : pc[o] \in {"queued", "resolved"}}
             n == Len(regQueue)
  <2>2. n \in Nat /\ regQueue \in [1..n -> Ops]
    BY <2>1 DEF Typed
  <2>3. \A i \in 1..n : regQueue[i] \in S
    BY <2>2 DEF IInv, QueueOrder
  <2>4. regQueue \in [1..n -> S]
    BY <2>2, <2>3
  <2>5. regQueue \in Seq(S)
    BY <2>2, <2>4
  <2> QED
    BY <2>1, <2>5 DEF Typed, TypeOK
<1> QED
  BY <1>1, Invariance, PTL

\* withFileMutationQueue: calls with one key run one at a time, in call order.
THEOREM CallOrder == Spec => []KeyFifo
BY Invariance, PTL DEF IInv

\* The map never keeps an entry of a call that has settled.
THEOREM MapIsClean == Spec => []NoStaleEntry
BY Invariance, PTL DEF IInv

-----------------------------------------------------------------------------
(***************************************************************************)
(* One call per file, when no link is dangling.                            *)
(***************************************************************************)

\* Files are never removed by these tools, so a key that was computed while
\* every link led to an existing file is the file itself.
KeyIsFile ==
    /\ Existing \subseteq exists
    /\ \A o \in Ops : pc[o] = "resolved" \/ Live(o) => key[o] = FileOf(o)

\* When no link dangles, the key of a registered call is the file it opens.
LEMMA KeyIsFileInvariant == LinksResolve => (Spec => []KeyIsFile)
<1> SUFFICES ASSUME LinksResolve PROVE Spec => []KeyIsFile
  OBVIOUS
<1>1. Init => KeyIsFile
  BY DEF Init, KeyIsFile, Live, Inside
<1>2. KeyIsFile /\ Typed /\ [Next]_vars => KeyIsFile'
  <2> SUFFICES ASSUME KeyIsFile, Typed, [Next]_vars PROVE KeyIsFile'
    OBVIOUS
  <2> USE DEF KeyIsFile
  <2>1. exists \subseteq exists'
    BY DEF Next, Step, Terminated, vars, disk, queue, Call, ResolveKey,
           ResolveFails, Register, Enter, ReadFile, CallbackFails, OpenForWrite,
           WriteSettles, WriteFails, Abort
  <2>2. ASSUME NEW o \in Ops, ResolveKey(o) PROVE KeyIsFile'
    <3>1. key' = [key EXCEPT ![o] = MutationKey(o)] /\ pc' = [pc EXCEPT ![o] = "resolved"]
      BY <2>2 DEF ResolveKey
    <3>2. MutationKey(o) = FileOf(o)
      BY DEF MutationKey, FileOf, LinksResolve
    <3>3. key'[o] = FileOf(o)
      BY <3>1, <3>2 DEF Typed
    <3> QED
      BY <2>1, <3>1, <3>3 DEF Typed, Live, Inside, FileOf
  <2> DEFINE Keyed(o) == pc[o] = "resolved" \/ Live(o)
             Moves(o) == \E x \in Pcs :
                /\ pc' = [pc EXCEPT ![o] = x]
                /\ Keyed(o) \/ x \in {"queued", "rejected"}
  <2>3. ASSUME UNCHANGED key, \/ \E o \in Ops : Moves(o)
                              \/ UNCHANGED pc
        PROVE KeyIsFile'
    <3>1. \A p \in Ops : Keyed(p)' => Keyed(p)
      <4>1. CASE UNCHANGED pc
        BY <4>1 DEF Live, Inside
      <4>2. ASSUME NEW o \in Ops, Moves(o) PROVE \A p \in Ops : Keyed(p)' => Keyed(p)
        <5>1. PICK x \in Pcs :
                /\ pc' = [pc EXCEPT ![o] = x]
                /\ Keyed(o) \/ x \in {"queued", "rejected"}
          BY <4>2
        <5> HIDE DEF Moves, Keyed
        <5>2. \A p \in Ops : p # o => pc'[p] = pc[p]
          BY <5>1 DEF Typed
        <5>3. pc'[o] = x
          BY <5>1 DEF Typed
        <5> QED
          BY <5>1, <5>2, <5>3 DEF Keyed, Live, Inside
      <4> QED
        BY <2>3, <4>1, <4>2
    <3> QED
      BY <2>1, <2>3, <3>1 DEF FileOf
  <2>4. ASSUME NEW o \in Ops,
               \/ Call(o) \/ ResolveFails(o) \/ Register(o) \/ Abort(o)
        PROVE KeyIsFile'
    BY <2>3, <2>4 DEF Call, ResolveFails, Register, Abort, queue, Pcs
  <2>5. ASSUME NEW o \in Ops,
               \/ Enter(o) \/ ReadFile(o) \/ CallbackFails(o)
               \/ OpenForWrite(o) \/ WriteSettles(o) \/ WriteFails(o)
        PROVE KeyIsFile'
    <3>1. Keyed(o) /\ UNCHANGED key
      BY <2>5 DEF Enter, ReadFile, CallbackFails, OpenForWrite, WriteSettles,
                  WriteFails, Proceed, Release, queue, Live, Inside
    <3>2. \E x \in Pcs : pc' = [pc EXCEPT ![o] = x]
      BY <2>5 DEF Enter, ReadFile, CallbackFails, OpenForWrite, WriteSettles,
                  WriteFails, Proceed, Release, Pcs
    <3> QED
      BY <2>3, <3>1, <3>2
  <2>6. CASE UNCHANGED vars
    BY <2>3, <2>6 DEF vars, queue
  <2> QED
    BY <2>2, <2>4, <2>5, <2>6 DEF Next, Step, Terminated
<1> QED
  BY <1>1, <1>2, TypedAlways, PTL DEF Spec

\* The head comment of withFileMutationQueue, where it holds: two calls on
\* one file are never in their callbacks together.
THEOREM OneCallPerFile == LinksResolve => (Spec => []FileExclusive)
<1> SUFFICES ASSUME LinksResolve PROVE Spec => []FileExclusive
  OBVIOUS
<1>1. IInv /\ KeyIsFile => FileExclusive
  <2> SUFFICES ASSUME IInv, KeyIsFile, NEW o \in Ops, NEW p \in Ops, o # p,
                      FileOf(o) = FileOf(p), Inside(o), Inside(p)
               PROVE FALSE
    BY DEF FileExclusive
  <2>1. Live(o) /\ Live(p) /\ key[o] = key[p]
    BY DEF Live, KeyIsFile
  <2>2. ticket[o] < ticket[p] \/ ticket[p] < ticket[o]
    BY <2>1, LiveDistinct DEF IInv
  <2> QED
    BY <2>1, <2>2 DEF IInv, KeyFifo, Inside
<1> QED
  BY <1>1, Invariance, KeyIsFileInvariant, PTL

\* An edit replaces the text it has read: no change of another call to the
\* file is lost between the edit's readFile and its writeFile.
THEOREM NoLostUpdate == LinksResolve => (Spec => []ReadIsCurrent)
<1> SUFFICES ASSUME LinksResolve PROVE Spec => []ReadIsCurrent
  OBVIOUS
<1>1. Init => ReadIsCurrent
  BY DEF Init, ReadIsCurrent
<1>2. ReadIsCurrent /\ FileExclusive /\ Typed /\ [Next]_vars => ReadIsCurrent'
  <2> SUFFICES ASSUME ReadIsCurrent, FileExclusive, Typed, [Next]_vars,
                      NEW p \in Ops, pc'[p] = "read"
               PROVE buf'[p] = content'[FileOf(p)]
    BY DEF ReadIsCurrent, FileOf
  <2> DEFINE Unread == pc[p] = "read" /\ UNCHANGED <<buf, content>>
  <2>1. Unread => buf'[p] = content'[FileOf(p)]
    BY DEF ReadIsCurrent
  <2>2. ASSUME NEW o \in Ops, ReadFile(o) PROVE buf'[p] = content'[FileOf(p)]
    <3>1. CASE p = o
      BY <2>2, <3>1 DEF ReadFile, Typed
    <3>2. CASE p # o
      <4>1. pc[p] = "read" /\ buf'[p] = buf[p] /\ content' = content
        BY <2>2, <3>2 DEF ReadFile, Proceed, Release, Typed
      <4> QED
        BY <4>1 DEF ReadIsCurrent
    <3> QED
      BY <3>1, <3>2
  <2>3. ASSUME NEW o \in Ops, OpenForWrite(o) \/ WriteSettles(o)
        PROVE buf'[p] = content'[FileOf(p)]
    <3>1. Inside(o) /\ p # o /\ pc[p] = "read" /\ buf' = buf
      BY <2>3 DEF OpenForWrite, WriteSettles, Proceed, Release, Inside, Typed, disk
    <3>2. FileOf(p) # FileOf(o)
      BY <3>1 DEF FileExclusive, Inside
    <3>3. FileOf(p) \in Paths
      BY DEF FileOf
    <3>4. content'[FileOf(p)] = content[FileOf(p)]
      BY <2>3, <3>2, <3>3 DEF OpenForWrite, WriteSettles, Typed, disk
    <3> QED
      BY <3>1, <3>4 DEF ReadIsCurrent
  <2>4. ASSUME NEW o \in Ops,
               \/ Call(o) \/ ResolveKey(o) \/ ResolveFails(o) \/ Register(o)
               \/ Enter(o) \/ CallbackFails(o) \/ WriteFails(o) \/ Abort(o)
        PROVE Unread
    <3>1. UNCHANGED <<buf, content>>
      BY <2>4 DEF Call, ResolveKey, ResolveFails, Register, Enter, CallbackFails,
                  WriteFails, Abort, disk
    <3>2. pc' = pc \/ \E x \in Pcs \ {"read"} : pc' = [pc EXCEPT ![o] = x]
      BY <2>4 DEF Call, ResolveKey, ResolveFails, Register, Enter, CallbackFails,
                  WriteFails, Abort, Proceed, Release, Pcs
    <3> QED
      BY <3>1, <3>2 DEF Typed
  <2>5. CASE UNCHANGED vars
    BY <2>5, <2>1 DEF vars, disk
  <2> QED
    BY <2>1, <2>2, <2>3, <2>4, <2>5 DEF Next, Step, Terminated
<1> QED
  BY <1>1, <1>2, OneCallPerFile, TypedAlways, PTL DEF Spec

-----------------------------------------------------------------------------
(***************************************************************************)
(* The queue implements a mutex keyed by files.                            *)
(***************************************************************************)

\* A call that is to register is in the registration queue.
AllQueued ==
    \A o \in Ops : pc[o] \in {"queued", "resolved"} => \E i \in 1..Len(regQueue) : regQueue[i] = o

\* No call is forgotten between its making and its registration.
LEMMA AllQueuedInvariant == Spec => []AllQueued
<1>1. Init => AllQueued
  BY DEF Init, AllQueued
<1>2. AllQueued /\ Typed /\ [Next]_vars => AllQueued'
  <2> SUFFICES ASSUME AllQueued, Typed, [Next]_vars PROVE AllQueued'
    OBVIOUS
  <2>1. ASSUME NEW o \in Ops, Call(o) PROVE AllQueued'
    <3>1. regQueue' = Append(regQueue, o) /\ pc' = [pc EXCEPT ![o] = "queued"]
      BY <2>1 DEF Call
    <3>2. /\ Len(regQueue') = Len(regQueue) + 1
          /\ regQueue'[Len(regQueue) + 1] = o
          /\ \A i \in 1..Len(regQueue) : regQueue'[i] = regQueue[i]
      BY <3>1 DEF Typed
    <3>3. Len(regQueue) \in Nat
      BY DEF Typed
    <3>4. \A p \in Ops : p # o => pc'[p] = pc[p]
      BY <3>1 DEF Typed
    <3> SUFFICES ASSUME NEW p \in Ops, pc'[p] \in {"queued", "resolved"}
                 PROVE \E i \in 1..Len(regQueue') : regQueue'[i] = p
      BY DEF AllQueued
    <3>5. CASE p = o
      BY <3>2, <3>3, <3>5
    <3>6. CASE p # o
      <4>1. PICK i \in 1..Len(regQueue) : regQueue[i] = p
        BY <3>4, <3>6 DEF AllQueued
      <4> QED
        BY <3>2, <3>3, <4>1
    <3> QED
      BY <3>5, <3>6
  <2>2. ASSUME NEW o \in Ops, ResolveFails(o) \/ Register(o) PROVE AllQueued'
    <3>1. /\ regQueue # <<>> /\ Head(regQueue) = o
          /\ regQueue' = Tail(regQueue)
          /\ pc' = [pc EXCEPT ![o] = "waiting"] \/ pc' = [pc EXCEPT ![o] = "rejected"]
      BY <2>2 DEF ResolveFails, Register, IsRegistering
    <3>2. /\ regQueue[1] = o
          /\ Len(regQueue') = Len(regQueue) - 1
          /\ \A i \in 1..Len(regQueue') : regQueue'[i] = regQueue[i + 1]
      BY <3>1 DEF Typed
    <3>3. Len(regQueue) \in Nat
      BY DEF Typed
    <3>4. pc'[o] \notin {"queued", "resolved"} /\ \A p \in Ops : p # o => pc'[p] = pc[p]
      BY <3>1 DEF Typed
    <3> SUFFICES ASSUME NEW p \in Ops, pc'[p] \in {"queued", "resolved"}
                 PROVE \E i \in 1..Len(regQueue') : regQueue'[i] = p
      BY DEF AllQueued
    <3>5. PICK i \in 1..Len(regQueue) : regQueue[i] = p
      BY <3>4 DEF AllQueued
    <3>6. i # 1 /\ i - 1 \in 1..Len(regQueue')
      BY <3>2, <3>3, <3>4, <3>5
    <3>7. regQueue'[i - 1] = p
      BY <3>2, <3>5, <3>6
    <3> QED
      BY <3>6, <3>7
  <2>3. ASSUME NEW o \in Ops,
               \/ ResolveKey(o) \/ Enter(o) \/ ReadFile(o) \/ CallbackFails(o) \/ OpenForWrite(o)
               \/ WriteSettles(o) \/ WriteFails(o) \/ Abort(o)
        PROVE AllQueued'
    <3>1. regQueue' = regQueue
      BY <2>3 DEF ResolveKey, Enter, ReadFile, CallbackFails, OpenForWrite, WriteSettles,
                  WriteFails, Abort, Proceed, Release
    <3>2. \/ pc' = pc
          \/ pc[o] = "queued" /\ pc' = [pc EXCEPT ![o] = "resolved"]
          \/ \E x \in Pcs \ {"queued", "resolved"} : pc' = [pc EXCEPT ![o] = x]
      BY <2>3 DEF ResolveKey, Enter, ReadFile, CallbackFails, OpenForWrite, WriteSettles,
                  WriteFails, Abort, Proceed, Release, Pcs
    <3>3. \A p \in Ops : pc'[p] \in {"queued", "resolved"} => pc[p] \in {"queued", "resolved"}
      BY <3>2 DEF Typed
    <3> QED
      BY <3>1, <3>3 DEF AllQueued
  <2>4. CASE UNCHANGED vars
    BY <2>4 DEF vars, AllQueued
  <2> QED
    BY <2>1, <2>2, <2>3, <2>4 DEF Next, Step, Terminated
<1> QED
  BY <1>1, <1>2, TypedAlways, PTL DEF Spec

\* Each call's stage, as the mutex has it.
Stages == [q \in Ops |-> Stage(q)]

\* A step that moves one call changes no other's stage.
LEMMA StageMoves ==
    ASSUME Typed, NEW o \in Ops, NEW x \in Pcs, pc' = [pc EXCEPT ![o] = x]
    PROVE  /\ pc'[o] = x
           /\ Stages' = [Stages EXCEPT ![o] = Stage(o)']
<1>1. pc'[o] = x /\ \A q \in Ops : q # o => pc'[q] = pc[q]
  BY DEF Typed
<1>2. \A q \in Ops : q # o => Stage(q)' = Stage(q)
  BY <1>1 DEF Stage, Inside, Finished
<1> QED
  BY <1>1, <1>2 DEF Stages

\* When a call enters, those made before it for its file are over.
LEMMA AheadAreOver ==
    ASSUME IInv, KeyIsFile, AllQueued, IInv', NEW o \in Ops, NEW p \in Ops,
           pc[o] = "waiting", pc' = [pc EXCEPT ![o] = "entered"],
           UNCHANGED <<key, ticket>>,
           FileOf(p) = FileOf(o), pc[p] # "idle", ticket[p] < ticket[o]
    PROVE  Finished(p)
<1>1. p # o
  BY DEF IInv, Typed
<1>2. pc'[o] = "entered" /\ pc'[p] = pc[p]
  BY <1>1 DEF IInv, Typed
<1>3. ~Live(p)
  <2> SUFFICES ASSUME Live(p) PROVE FALSE
    OBVIOUS
  <2>1. key[p] = key[o]
    BY DEF KeyIsFile, Live
  <2>2. Live(p)'
    BY <1>2 DEF Live, Inside
  <2> QED
    BY <1>2, <2>1, <2>2 DEF IInv, KeyFifo
<1>4. pc[p] \notin {"queued", "resolved"}
  <2> SUFFICES ASSUME pc[p] \in {"queued", "resolved"} PROVE FALSE
    OBVIOUS
  <2>1. PICK i \in 1..Len(regQueue) : regQueue[i] = p
    BY DEF AllQueued
  <2>2. ~Outside(o)
    BY DEF Outside
  <2>3. ticket[o] < ticket[p]
    BY <2>1, <2>2 DEF IInv, QueueOrder
  <2> QED
    BY <2>3 DEF IInv, Typed
<1> QED
  BY <1>3, <1>4 DEF IInv, Typed, Live, Inside, Finished

\* Every step is a step of the mutex for the call that takes it, or none.
LEMMA MutexStep ==
    ASSUME IInv, KeyIsFile, AllQueued, IInv', [Next]_vars
    PROVE  [Mutex!Next]_(Mutex!vars)
<1> USE DEF IInv
<1> DEFINE mvars == <<Stages, ticket, called>>
<1>0. mvars' = mvars => UNCHANGED Mutex!vars
  BY DEF Mutex!vars, Stages
<1> HIDE DEF mvars
<1>1. ASSUME NEW o \in Ops, Call(o) PROVE Mutex!Next
  <2>1. pc' = [pc EXCEPT ![o] = "queued"] /\ pc[o] = "idle"
    BY <1>1 DEF Call
  <2>2. Stage(o) = "idle" /\ pc'[o] = "queued" /\ Stages' = [Stages EXCEPT ![o] = Stage(o)']
    BY <2>1, StageMoves DEF Pcs, Stage, Inside, Finished
  <2>3. Stage(o)' = "waiting"
    BY <2>2 DEF Stage, Inside, Finished
  <2>4. Stages[o] = "idle" /\ Stages' = [Stages EXCEPT ![o] = "waiting"]
    BY <2>2, <2>3 DEF Stages
  <2>5. called' = called + 1 /\ ticket' = [ticket EXCEPT ![o] = called + 1]
    BY <1>1 DEF Call
  <2>6. Mutex!Make(o)
    BY <2>4, <2>5 DEF Mutex!Make, Stages
  <2> QED
    BY <2>6 DEF Mutex!Next
<1>2. ASSUME NEW o \in Ops, ResolveFails(o) PROVE Mutex!Next
  <2>1. pc' = [pc EXCEPT ![o] = "rejected"] /\ pc[o] = "queued" /\ UNCHANGED <<ticket, called>>
    BY <1>2 DEF ResolveFails, history
  <2>2. Stage(o) = "waiting" /\ pc'[o] = "rejected" /\ Stages' = [Stages EXCEPT ![o] = Stage(o)']
    BY <2>1, StageMoves DEF Pcs, Stage, Inside, Finished
  <2>3. Stage(o)' = "over"
    BY <2>2 DEF Stage, Inside, Finished
  <2>4. Stages[o] = "waiting" /\ Stages' = [Stages EXCEPT ![o] = "over"]
    BY <2>2, <2>3 DEF Stages
  <2>5. Mutex!GiveUp(o)
    BY <2>1, <2>4 DEF Mutex!GiveUp, Stages
  <2> QED
    BY <2>5 DEF Mutex!Next
<1>3. ASSUME NEW o \in Ops, Enter(o) PROVE Mutex!Next
  <2>1. pc[o] = "waiting" /\ UNCHANGED <<ticket, called, key>>
    BY <1>3 DEF Enter, Proceed, Release, history, queue
  <2>2. Stages[o] = "waiting"
    BY <2>1 DEF Stages, Stage, Inside, Finished
  <2>3. CASE pc' = [pc EXCEPT ![o] = "failed"]
    <3>1. pc'[o] = "failed" /\ Stages' = [Stages EXCEPT ![o] = Stage(o)']
      BY <2>3, StageMoves DEF Pcs
    <3>2. Stage(o)' = "over"
      BY <3>1 DEF Stage, Inside, Finished
    <3>3. Mutex!GiveUp(o)
      BY <2>1, <2>2, <3>1, <3>2 DEF Mutex!GiveUp, Stages
    <3> QED
      BY <3>3 DEF Mutex!Next
  <2>4. CASE pc' = [pc EXCEPT ![o] = "entered"]
    <3>1. pc'[o] = "entered" /\ Stages' = [Stages EXCEPT ![o] = Stage(o)']
      BY <2>4, StageMoves DEF Pcs
    <3>2. Stage(o)' = "inside"
      BY <3>1 DEF Stage, Inside, Finished
    <3>3. ASSUME NEW p \in Ops, FileOf(p) = FileOf(o), Stage(p) # "idle", ticket[p] < ticket[o]
          PROVE Stages[p] = "over"
      <4>1. pc[p] # "idle"
        BY <3>3 DEF Stage, Inside, Finished
      <4>2. Finished(p)
        BY <2>1, <2>4, <3>3, <4>1, AheadAreOver
      <4> QED
        BY <4>2 DEF Stages, Stage, Finished, Inside
    <3>4. \A p \in Mutex!Ahead(o) : Stages[p] = "over"
      BY <3>3 DEF Mutex!Ahead, Stages
    <3>5. Mutex!Enter(o)
      BY <2>1, <2>2, <3>1, <3>2, <3>4 DEF Mutex!Enter, Stages
    <3> QED
      BY <3>5 DEF Mutex!Next
  <2> QED
    BY <1>3, <2>3, <2>4 DEF Enter, Proceed, Release
<1>4. ASSUME NEW o \in Ops,
             \/ ReadFile(o) \/ CallbackFails(o) \/ OpenForWrite(o) \/ WriteSettles(o) \/ WriteFails(o)
      PROVE Mutex!Next \/ UNCHANGED Mutex!vars
  <2>1. pc[o] \in {"entered", "read", "writing"} /\ UNCHANGED <<ticket, called>>
    BY <1>4 DEF ReadFile, CallbackFails, OpenForWrite, WriteSettles, WriteFails, Proceed, Release, history
  <2>2. Stages[o] = "inside"
    BY <2>1 DEF Stages, Stage, Inside, Finished
  <2>3. PICK x \in {"read", "writing", "done", "failed"} : pc' = [pc EXCEPT ![o] = x]
    BY <1>4 DEF ReadFile, CallbackFails, OpenForWrite, WriteSettles, WriteFails, Proceed, Release
  <2>4. pc'[o] = x /\ Stages' = [Stages EXCEPT ![o] = Stage(o)']
    BY <2>3, StageMoves DEF Pcs
  <2>5. CASE x \in {"read", "writing"}
    <3>1. Stage(o)' = "inside"
      BY <2>4, <2>5 DEF Stage, Inside, Finished
    <3>2. Stages' = Stages
      BY <2>2, <2>4, <3>1 DEF Stages
    <3> QED
      BY <1>0, <2>1, <3>2 DEF mvars
  <2>6. CASE x \in {"done", "failed"}
    <3>1. Stage(o)' = "over"
      BY <2>4, <2>6 DEF Stage, Inside, Finished
    <3>2. Mutex!Leave(o)
      BY <2>1, <2>2, <2>4, <3>1 DEF Mutex!Leave, Stages
    <3> QED
      BY <3>2 DEF Mutex!Next
  <2> QED
    BY <2>5, <2>6
<1>5. ASSUME NEW o \in Ops, ResolveKey(o) \/ Register(o) PROVE UNCHANGED Mutex!vars
  <2>1. PICK x \in {"resolved", "waiting"} : pc' = [pc EXCEPT ![o] = x]
    BY <1>5 DEF ResolveKey, Register
  <2>2. pc[o] \in {"queued", "resolved"} /\ UNCHANGED <<ticket, called>>
    BY <1>5 DEF ResolveKey, Register, history
  <2>3. Stage(o) = "waiting"
    BY <2>2 DEF Stage, Inside, Finished
  <2>4. pc'[o] = x /\ Stages' = [Stages EXCEPT ![o] = Stage(o)']
    BY <2>1, StageMoves DEF Pcs
  <2>5. Stage(o)' = "waiting"
    BY <2>4 DEF Stage, Inside, Finished
  <2>6. Stages' = Stages
    BY <2>3, <2>4, <2>5 DEF Stages
  <2> QED
    BY <1>0, <2>2, <2>6 DEF mvars
<1>6. ASSUME UNCHANGED <<pc, ticket, called>> PROVE UNCHANGED Mutex!vars
  <2>1. Stages' = Stages
    BY <1>6 DEF Stages, Stage, Inside, Finished
  <2> QED
    BY <1>0, <1>6, <2>1 DEF mvars
<1>7. ASSUME NEW o \in Ops, Abort(o) PROVE UNCHANGED Mutex!vars
  BY <1>6, <1>7 DEF Abort, history
<1>8. CASE UNCHANGED vars
  BY <1>6, <1>8 DEF vars, history
<1> QED
  BY <1>1, <1>2, <1>3, <1>4, <1>5, <1>7, <1>8 DEF Next, Step, Terminated

\* The comment at the head of withFileMutationQueue as a specification of its
\* own: as long as no link dangles, the registration queue, the map and its
\* chains of promises are together a mutex keyed by file, first come, first
\* served.
THEOREM QueueIsMutex == LinksResolve => (Spec => Mutex!Spec)
<1> SUFFICES ASSUME LinksResolve PROVE Spec => Mutex!Spec
  OBVIOUS
<1>1. Init => Mutex!Init
  BY DEF Init, Mutex!Init, Stage, Inside, Finished
<1>2. IInv /\ KeyIsFile /\ AllQueued /\ IInv' /\ [Next]_vars => [Mutex!Next]_(Mutex!vars)
  BY MutexStep
<1> QED
  BY <1>1, <1>2, Invariance, KeyIsFileInvariant, AllQueuedInvariant, PTL DEF Spec, Mutex!Spec
=============================================================================
