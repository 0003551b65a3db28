---------------------------- MODULE AuthStorage ----------------------------
(***************************************************************************)
(* The credentials of Lumen (src/packages/coding-agent/src/core/           *)
(* auth-storage.ts): auth.json, shared by all processes under a file lock, *)
(* each process with a copy in memory.  An OAuth credential is a token     *)
(* that expires and can be exchanged once for the next one: the process    *)
(* that finds it expired asks the server while it holds the lock, so that  *)
(* the others find the new token when they get the lock.                   *)
(*                                                                         *)
(* Tokens are numbered in the order in which they reach a process.  The    *)
(* asynchronous lock is held for as long as the server takes.  Its holder  *)
(* renews it every 15 seconds (half of stale: 30000, line 140), and those  *)
(* who lock synchronously with the library's default take it for stale     *)
(* after 10 (line 79): it can be taken over from a slow or a stopped       *)
(* holder, who learns of it with its next renewal.                         *)
(***************************************************************************)
EXTENDS Naturals, FiniteSets

CONSTANTS Procs, OAuth, Keys,       \* processes; providers with tokens and with plain keys
          MaxToken, MaxCalls, MaxFaults     \* bounds on tokens, on calls, and on stops and deaths

Providers == OAuth \cup Keys
Nothing == 0                        \* no credential; a plain key is credential 1
Creds == [Providers -> 0..MaxToken]
NoCreds == [r \in Providers |-> Nothing]
Free == "free"

VARIABLES
  auth,        \* auth.json: [text: none, empty, cut or whole; creds: the last whole content]
  authLock,    \* the process holding its lock, or Free
  data,        \* process -> its copy of the credentials
  loadFailed,  \* process -> loadError
  call,        \* process -> where its call is: creating the file, changing or refreshing a credential
  compromised, \* process -> onCompromised has been called for its lock
  stalled,     \* process -> stopped
  issued,      \* provider -> how many tokens the server has issued to a process
  used,        \* provider -> the tokens it has exchanged for one that reached who asked
  wasted,      \* provider -> the tokens it has exchanged in vain, the answer being lost
  expired,     \* provider -> the tokens up to this one have expired
  mishap,      \* a death, a stop or the creation of the file has come between two steps that belong together
  reused,      \* the server was asked again with a token it had exchanged for one that arrived
  spent        \* calls and faults so far

authVars == <<auth, authLock, data, loadFailed, call, compromised, stalled, issued, used, wasted, expired, mishap, reused, spent>>

NoCall == [at |-> "none", does |-> "nothing"]

Init ==
  /\ auth = [text |-> "none", creds |-> NoCreds]
  /\ authLock = Free
  /\ data = [p \in Procs |-> NoCreds]
  /\ loadFailed = [p \in Procs |-> FALSE]
  /\ call = [p \in Procs |-> NoCall]
  /\ compromised = [p \in Procs |-> FALSE]
  /\ stalled = [p \in Procs |-> FALSE]
  /\ issued = [r \in OAuth |-> Nothing]
  /\ used = [r \in OAuth |-> {}]
  /\ wasted = [r \in OAuth |-> {}]
  /\ expired = [r \in OAuth |-> Nothing]
  /\ mishap = FALSE /\ reused = FALSE
  /\ spent = [calls |-> 0, faults |-> 0]

---------------------------------------------------------------------------
\* parseStorageData: no text is no credentials, a text that was cut short throws.
Parses == auth.text # "cut"
Current == IF auth.text = "whole" THEN auth.creds ELSE NoCreds
Expired(r, t) == t # Nothing /\ t <= expired[r]
Runs(p) == ~stalled[p]
At(p, place) == call[p].at = place
Calls(p) == Runs(p) /\ At(p, "none") /\ spent.calls < MaxCalls
Count == spent' = [spent EXCEPT !.calls = @ + 1]
Entry == IF auth.text = "none" THEN "create" ELSE "lock"   \* ensureFileExists has looked for the file
Goto(p, c) == call' = [call EXCEPT ![p] = c]

\* set, remove and the end of login: memory first, and after a loadError nothing else.
Change(p, r, t) ==
  /\ data' = [data EXCEPT ![p][r] = t]
  /\ IF loadFailed[p] THEN call' = call
     ELSE Goto(p, [at |-> Entry, does |-> "change", who |-> r, value |-> t])

\* The same while a refresh of this process is on its way: the lock is tried at once, and in vain when
\* the refresh holds it.
ChangeDuringRefresh(p, k, t) ==
  /\ Runs(p) /\ call[p].does = "refresh" /\ spent.calls < MaxCalls /\ Count
  /\ k \in Keys /\ data[p][k] # t
  /\ data' = [data EXCEPT ![p][k] = t]
  /\ auth' = IF authLock = Free /\ ~loadFailed[p] /\ Parses
             THEN [text |-> "whole", creds |-> [Current EXCEPT ![k] = t]] ELSE auth
  /\ UNCHANGED <<authLock, loadFailed, call, compromised, stalled, issued, used, wasted, expired, mishap, reused>>

\* login: the server issues a token, which is set like a key.
Login(p, r) ==
  /\ Calls(p) /\ issued[r] < MaxToken /\ Count
  /\ issued' = [issued EXCEPT ![r] = @ + 1]
  /\ Change(p, r, issued[r] + 1)
  /\ UNCHANGED <<auth, authLock, loadFailed, compromised, stalled, used, wasted, expired, mishap, reused>>

SetOrRemove(p, k, t) ==
  /\ Calls(p) /\ data[p][k] # t /\ Count
  /\ Change(p, k, t)
  /\ UNCHANGED <<auth, authLock, loadFailed, compromised, stalled, issued, used, wasted, expired, mishap, reused>>

\* getApiKey of a provider whose token in memory has expired.
GetApiKey(p, r) ==
  /\ Calls(p) /\ Expired(r, data[p][r]) /\ Count
  /\ Goto(p, [at |-> Entry, does |-> "refresh", who |-> r])
  /\ UNCHANGED <<auth, authLock, data, loadFailed, compromised, stalled, issued, used, wasted, expired, mishap, reused>>

Reload(p) ==
  /\ Calls(p) /\ Count
  /\ Goto(p, [at |-> Entry, does |-> "reload"])
  /\ UNCHANGED <<auth, authLock, data, loadFailed, compromised, stalled, issued, used, wasted, expired, mishap, reused>>

\* ensureFileExists writes an empty file without the lock: what came after it had looked is gone.
CreateFile(p) ==
  /\ Runs(p) /\ At(p, "create")
  /\ auth' = [text |-> "whole", creds |-> NoCreds]
  /\ mishap' = (mishap \/ auth.text # "none")
  /\ Goto(p, [call[p] EXCEPT !.at = "lock"])
  /\ UNCHANGED <<authLock, data, loadFailed, compromised, stalled, issued, used, wasted, expired, reused, spent>>

---------------------------------------------------------------------------
(* The synchronous lock: nothing else of the process, and of the others    *)
(* only CreateFile, comes between its steps.                               *)

Sync(p) == Runs(p) /\ At(p, "lock") /\ call[p].does \in {"change", "reload"}

\* Mutation: the copy in memory is written, the others' credentials with it.
WithChangeInMemory(p) == data[p]
\* persistProviderChange: one credential is put into what the file holds.
WithChange(p) == [Current EXCEPT ![call[p].who] = call[p].value]

Persist(p) ==
  /\ Sync(p) /\ call[p].does = "change" /\ authLock = Free
  /\ auth' = IF Parses THEN [text |-> "whole", creds |-> WithChange(p)] ELSE auth
  /\ Goto(p, NoCall)
  /\ UNCHANGED <<authLock, data, loadFailed, compromised, stalled, issued, used, wasted, expired, mishap, reused, spent>>

\* reload
Load(p) ==
  /\ Sync(p) /\ call[p].does = "reload" /\ authLock = Free
  /\ data' = IF Parses THEN [data EXCEPT ![p] = Current] ELSE data
  /\ loadFailed' = [loadFailed EXCEPT ![p] = ~Parses]
  /\ Goto(p, NoCall)
  /\ UNCHANGED <<auth, authLock, compromised, stalled, issued, used, wasted, expired, mishap, reused, spent>>

\* The lock stays taken for ten attempts: a change is in memory only, a reload keeps what was there.
Locked(p) ==
  /\ Sync(p) /\ authLock # Free
  /\ loadFailed' = [loadFailed EXCEPT ![p] = @ \/ call[p].does = "reload"]
  /\ Goto(p, NoCall)
  /\ UNCHANGED <<auth, authLock, data, compromised, stalled, issued, used, wasted, expired, mishap, reused, spent>>

---------------------------------------------------------------------------
(* refreshOAuthTokenWithLock under the asynchronous lock                   *)

Waits(p) == Runs(p) /\ At(p, "lock") /\ call[p].does = "refresh"
\* Mutation: the refresh is tried again.
AfterErrorAgain(p) == Goto(p, [at |-> Entry, does |-> "refresh", who |-> call[p].who])
AfterError(p) == Goto(p, [at |-> Entry, does |-> "reload"])    \* the catch of getApiKey

\* Mutation: the token in memory is exchanged.
ToRefreshInMemory(p) == data[p][call[p].who]
ToRefresh(p) == Current[call[p].who]

\* The lock is there and the file is read: the token may be gone, or another process has exchanged it.
LockAndRead(p) ==
  /\ Waits(p) /\ authLock = Free /\ Parses
  /\ LET t == ToRefresh(p) IN
     IF Expired(call[p].who, t)
     THEN /\ authLock' = p
          /\ compromised' = [compromised EXCEPT ![p] = FALSE]
          /\ Goto(p, [at |-> "ask", does |-> "refresh", who |-> call[p].who, value |-> t, read |-> Current])
     ELSE Goto(p, NoCall) /\ UNCHANGED <<authLock, compromised>>
  /\ data' = [data EXCEPT ![p] = Current]
  /\ loadFailed' = [loadFailed EXCEPT ![p] = FALSE]
  /\ UNCHANGED <<auth, stalled, issued, used, wasted, expired, mishap, reused, spent>>

\* The retries are used up, or the text does not parse.
NoLock(p) ==
  /\ Waits(p) /\ (authLock # Free \/ ~Parses)
  /\ AfterError(p)
  /\ UNCHANGED <<auth, authLock, data, loadFailed, compromised, stalled, issued, used, wasted, expired, mishap, reused, spent>>

\* The server exchanges a token once and refuses it after that; it may refuse or be out of reach.  Its
\* answer may also come too late (AbortSignal.timeout, anthropic.ts:177), break off or not parse: the token
\* is spent, and the process that asked fails as if it had been refused.
Serve(p) ==
  /\ At(p, "ask")
  /\ LET r == call[p].who
         t == call[p].value
         exchanges == t \notin used[r] \cup wasted[r] /\ issued[r] < MaxToken
     IN /\ reused' = (reused \/ t \in used[r])
        /\ \/ /\ exchanges
              /\ issued' = [issued EXCEPT ![r] = @ + 1]
              /\ used' = [used EXCEPT ![r] = @ \cup {t}]
              /\ Goto(p, [call[p] EXCEPT !.at = "answered", !.value = issued[r] + 1])
              /\ UNCHANGED wasted
           \/ /\ exchanges
              /\ wasted' = [wasted EXCEPT ![r] = @ \cup {t}]
              /\ Goto(p, [call[p] EXCEPT !.at = "refused"]) /\ UNCHANGED <<issued, used>>
           \/ Goto(p, [call[p] EXCEPT !.at = "refused"]) /\ UNCHANGED <<issued, used, wasted>>
  /\ UNCHANGED <<auth, authLock, data, loadFailed, compromised, stalled, expired, mishap, spent>>

Unlock(p) == authLock' = IF authLock = p THEN Free ELSE authLock

\* Mutation: the new token stays in memory.
StoredNowhere(p, merged) == auth
Stored(p, merged) == IF compromised[p] THEN auth ELSE [text |-> "whole", creds |-> merged]

\* The answer: memory takes the new token, the file only when the lock is not known to be lost.
Receive(p) ==
  /\ Runs(p) /\ At(p, "answered")
  /\ LET merged == [call[p].read EXCEPT ![call[p].who] = call[p].value] IN
     /\ data' = [data EXCEPT ![p] = merged]
     /\ auth' = Stored(p, merged)
  /\ loadFailed' = [loadFailed EXCEPT ![p] = FALSE]
  /\ IF compromised[p] THEN AfterError(p) ELSE Goto(p, NoCall)
  /\ Unlock(p)
  /\ UNCHANGED <<compromised, stalled, issued, used, wasted, expired, mishap, reused, spent>>

Refused(p) ==
  /\ Runs(p) /\ At(p, "refused")
  /\ AfterError(p) /\ Unlock(p)
  /\ UNCHANGED <<auth, data, loadFailed, compromised, stalled, issued, used, wasted, expired, mishap, reused, spent>>

---------------------------------------------------------------------------
(* Time, processes that are stopped or die                                 *)

Expire(r) ==
  /\ issued[r] > expired[r] /\ expired' = [expired EXCEPT ![r] = issued[r]]
  /\ UNCHANGED <<auth, authLock, data, loadFailed, call, compromised, stalled, issued, used, wasted, mishap, reused, spent>>

Asking(p) == call[p].at \in {"ask", "answered", "refused"}

Stall(p) ==
  /\ Runs(p) /\ Asking(p) /\ spent.faults < MaxFaults
  /\ stalled' = [stalled EXCEPT ![p] = TRUE]
  /\ spent' = [spent EXCEPT !.faults = @ + 1]
  /\ UNCHANGED <<auth, authLock, data, loadFailed, call, compromised, issued, used, wasted, expired, mishap, reused>>

\* Another process finds the lock stale: that of a stopped holder, or, with the shorter stale time of the
\* synchronous lock, that of a holder whose server takes long.
Steal(p) ==
  /\ authLock = p
  /\ \E q \in Procs \ {p} : (Sync(q) /\ (At(p, "ask") \/ stalled[p])) \/ (Waits(q) /\ stalled[p])
  /\ authLock' = Free /\ mishap' = TRUE
  /\ UNCHANGED <<auth, data, loadFailed, call, compromised, stalled, issued, used, wasted, expired, reused, spent>>

\* onCompromised: the renewal of the lock finds that it is another's.
Notice(p) ==
  /\ Runs(p) /\ Asking(p) /\ authLock # p /\ ~compromised[p]
  /\ compromised' = [compromised EXCEPT ![p] = TRUE]
  /\ UNCHANGED <<auth, authLock, data, loadFailed, call, stalled, issued, used, wasted, expired, mishap, reused, spent>>

Wake(p) ==
  /\ stalled[p] /\ stalled' = [stalled EXCEPT ![p] = FALSE]
  /\ UNCHANGED <<auth, authLock, data, loadFailed, call, compromised, issued, used, wasted, expired, mishap, reused, spent>>

\* A death between two steps, or inside writeFileSync; the lock grows stale.  The next process of that
\* name starts with what it finds.
Die(p) ==
  /\ spent.faults < MaxFaults /\ spent' = [spent EXCEPT !.faults = @ + 1]
  /\ ~At(p, "none")
  /\ \/ auth' = auth
     \/ /\ Runs(p) /\ Parses
        /\ (At(p, "answered") /\ ~compromised[p]) \/ (Sync(p) /\ call[p].does = "change" /\ authLock = Free)
        /\ \E t \in {"empty", "cut"} : auth' = [auth EXCEPT !.text = t]
  /\ mishap' = TRUE
  /\ Unlock(p)
  /\ Goto(p, [at |-> Entry, does |-> "reload"])
  /\ data' = [data EXCEPT ![p] = NoCreds]
  /\ loadFailed' = [loadFailed EXCEPT ![p] = FALSE]
  /\ stalled' = [stalled EXCEPT ![p] = FALSE]
  /\ UNCHANGED <<compromised, issued, used, wasted, expired, reused>>

Step(p) == \/ CreateFile(p) \/ Persist(p) \/ Load(p) \/ Locked(p)
           \/ LockAndRead(p) \/ NoLock(p) \/ Serve(p) \/ Receive(p) \/ Refused(p) \/ Wake(p)

Next ==
  \/ \E p \in Procs :
       \/ Reload(p) \/ Step(p) \/ Stall(p) \/ Steal(p) \/ Notice(p) \/ Die(p)
       \/ \E r \in OAuth : Login(p, r) \/ GetApiKey(p, r)
       \/ \E r \in OAuth : SetOrRemove(p, r, Nothing)
       \/ \E k \in Keys : SetOrRemove(p, k, 1) \/ ChangeDuringRefresh(p, k, 1)
  \/ \E r \in OAuth : Expire(r)

\* The server answers or its connection fails, attempts at a lock are counted, and a stopped process is
\* woken sooner or later.
Fairness == \A p \in Procs : WF_authVars(Step(p))

Spec == Init /\ [][Next]_authVars /\ Fairness

---------------------------------------------------------------------------
TypeOK ==
  /\ auth \in [text: {"none", "empty", "cut", "whole"}, creds: Creds]
  /\ authLock \in Procs \cup {Free}
  /\ data \in [Procs -> Creds]
  /\ issued \in [OAuth -> 0..MaxToken] /\ expired \in [OAuth -> 0..MaxToken]
  /\ \A p \in Procs : call[p].at \in {"none", "create", "lock", "ask", "answered", "refused"}

\* Several processes that find the same token expired do not exchange it twice ("to prevent race
\* conditions", auth-storage.ts:404), as long as none is stopped or dies while it holds the lock.  They do
\* ask again with a token whose answer was lost (wasted): the file keeps it, and each process is refused
\* until the user logs in.
NeverReused == ~mishap => ~reused

\* The token in the file is one the server will still exchange, or the process that has exchanged it
\* holds the lock and the next one: an exchange is not lost, unless its answer is (wasted), or a process
\* dies or loses its lock.
TokenSurvives ==
  \A r \in OAuth :
    (~mishap /\ auth.text = "whole" /\ auth.creds[r] \in used[r])
      => \E p \in Procs : At(p, "answered") /\ call[p].who = r /\ authLock = p

\* A credential in the file changes only by a call about its provider: a refresh that has read the file
\* seconds ago does not take back what others, or its own process, stored meanwhile.
OthersKept ==
  [][\A r \in Providers :
       (auth'.creds[r] # auth.creds[r] /\ ~mishap')
         => \E p \in Procs : \/ call[p].does \in {"change", "refresh"} /\ call[p].who = r
                             \/ data'[p][r] # data[p][r] /\ spent' # spent]_authVars

\* A call returns: no process waits for the lock, or for the server, for ever.
CallWaits(p) == ~At(p, "none")
CallsEnd == \A p \in Procs : CallWaits(p) ~> ~CallWaits(p)
=============================================================================
