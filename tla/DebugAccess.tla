------------------------------ MODULE DebugAccess -----------------------------
(***************************************************************************)
(* What the session table promises: clients connect and wait, at most one  *)
(* of them owns the debug port, ownership is granted only while nobody     *)
(* owns the port and only to a waiting client, and ends only when the      *)
(* owner itself leaves.                                                    *)
(***************************************************************************)
CONSTANT Client

VARIABLES
    waiting,   \* connected clients that have not authenticated
    owner      \* {} or the set of the one authenticated client

vars == <<waiting, owner>>

Init == waiting = {} /\ owner = {}

Connect(c) ==
    /\ c \notin waiting \cup owner
    /\ waiting' = waiting \cup {c}
    /\ UNCHANGED owner

Grant(c) ==
    /\ c \in waiting
    /\ owner = {}
    /\ owner' = {c}
    /\ waiting' = waiting \ {c}

\* One client leaves, or is thrown out for what it did.
Leave(c) ==
    /\ waiting' = waiting \ {c}
    /\ owner' = owner \ {c}

\* Clients that waited too long are thrown out; the owner never is.
Expire ==
    /\ \E gone \in SUBSET waiting : waiting' = waiting \ gone
    /\ UNCHANGED owner

Shutdown == waiting' = {} /\ owner' = {}

Next ==
    \/ \E c \in Client : Connect(c) \/ Grant(c) \/ Leave(c)
    \/ Expire
    \/ Shutdown

Spec == Init /\ [][Next]_vars
===============================================================================
