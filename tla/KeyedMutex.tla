----------------------------- MODULE KeyedMutex -----------------------------
(***************************************************************************)
(* What withFileMutationQueue promises its callers: calls that share a key *)
(* are inside their callbacks one at a time, in the order they were made;  *)
(* calls with different keys do not wait for each other; a call may give   *)
(* up before its turn, and every call is over in the end.  There is no     *)
(* registration, no map and no promise here.                               *)
(***************************************************************************)
EXTENDS Naturals

CONSTANTS
    Calls,      \* the calls
    KeyOf       \* KeyOf[c]: what call c must have for itself

VARIABLES
    state,      \* state[c]: "idle", "waiting", "inside" or "over"
    ticket,     \* ticket[c]: c was the ticket[c]-th call made
    called      \* the number of calls made

vars == <<state, ticket, called>>

Init ==
    /\ state = [c \in Calls |-> "idle"]
    /\ ticket = [c \in Calls |-> 0]
    /\ called = 0

Make(c) ==
    /\ state[c] = "idle"
    /\ state' = [state EXCEPT ![c] = "waiting"]
    /\ called' = called + 1
    /\ ticket' = [ticket EXCEPT ![c] = called + 1]

\* The calls that c has to let pass.
Ahead(c) == {d \in Calls : KeyOf[d] = KeyOf[c] /\ state[d] # "idle" /\ ticket[d] < ticket[c]}

Enter(c) ==
    /\ state[c] = "waiting"
    /\ \A d \in Ahead(c) : state[d] = "over"
    /\ state' = [state EXCEPT ![c] = "inside"]
    /\ UNCHANGED <<ticket, called>>

GiveUp(c) ==
    /\ state[c] = "waiting"
    /\ state' = [state EXCEPT ![c] = "over"]
    /\ UNCHANGED <<ticket, called>>

Leave(c) ==
    /\ state[c] = "inside"
    /\ state' = [state EXCEPT ![c] = "over"]
    /\ UNCHANGED <<ticket, called>>

Next == \E c \in Calls : Make(c) \/ Enter(c) \/ GiveUp(c) \/ Leave(c)

Spec == Init /\ [][Next]_vars

\* Nobody stays inside, and nobody waits whose turn it is.
FairSpec == Spec /\ \A c \in Calls : WF_vars(Enter(c) \/ GiveUp(c)) /\ WF_vars(Leave(c))
=============================================================================
