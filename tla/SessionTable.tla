----------------------------- MODULE SessionTable -----------------------------
(***************************************************************************)
(* The session table of the At-Scale Debug daemon (session.c), as          *)
(* operators on a table value                                              *)
(*                                                                         *)
(*     t = [sessions |-> array of session_t, n_authenticated_id |-> id]    *)
(*                                                                         *)
(* so that both the table's own state machine (Session) and the server     *)
(* that calls several of them in one handler (AsdServer) use them.         *)
(* An operator that models a STATUS function returns the table it leaves;  *)
(* the condition under which it answers ST_OK has the suffix _ok.          *)
(***************************************************************************)
EXTENDS Integers, FiniteSets

CONSTANTS
    MAX_SESSIONS,                 \* slots of the table (5 in session.h)
    SESSION_AUTH_EXPIRE_TIMEOUT,  \* seconds to authenticate (15 in session.h)
    Fd,                           \* descriptors accept() may return
    UNUSED_SOCKET_FD              \* the descriptor of a free slot

ASSUME SessionTableAssumption ==
    /\ MAX_SESSIONS \in Nat \ {0}
    /\ SESSION_AUTH_EXPIRE_TIMEOUT \in Nat \ {0}
    /\ UNUSED_SOCKET_FD \notin Fd

NO_SESSION_AUTHENTICATED == -1

Slot == 0 .. (MAX_SESSIONS - 1)

session_t == [sockfd          : Fd \cup {UNUSED_SOCKET_FD},
              t_auth_tout     : Nat,
              b_authenticated : BOOLEAN,
              b_data_pending  : BOOLEAN]

SessionTableType ==
    [sessions           : [Slot -> session_t],
     n_authenticated_id : Slot \cup {NO_SESSION_AUTHENTICATED}]

session_init ==
    [sessions |-> [i \in Slot |-> [sockfd          |-> UNUSED_SOCKET_FD,
                                   t_auth_tout     |-> 0,
                                   b_authenticated |-> FALSE,
                                   b_data_pending  |-> FALSE]],
     n_authenticated_id |-> NO_SESSION_AUTHENTICATED]

-------------------------------------------------------------------------------
(* Looking up.                                                             *)

SlotsOf(t, fd) == {i \in Slot : t.sessions[i].sockfd = fd}

\* The scan returns the first slot that holds the descriptor; the callers
\* test SlotsOf(t, fd) # {} first, as the code tests for NULL.
session_find_private(t, fd) ==
    CHOOSE i \in SlotsOf(t, fd) : \A j \in SlotsOf(t, fd) : i =< j

\* extnet_is_client_closed, negated.
OpenSlots(t) == {i \in Slot : t.sessions[i].sockfd # UNUSED_SOCKET_FD}

OpenFds(t) == {t.sessions[i].sockfd : i \in OpenSlots(t)}

session_lookup_conn_ok(t, fd) == fd \in Fd /\ SlotsOf(t, fd) # {}

session_already_authenticated_ok(t, fd) ==
    /\ session_lookup_conn_ok(t, fd)
    /\ t.sessions[session_find_private(t, fd)].b_authenticated

\* The function answers ST_OK only to a caller that passes a place to copy
\* the connection to: with NULL it answers ST_ERR whatever the table holds.
session_get_authenticated_conn_ok(t, hasOutPointer) ==
    t.n_authenticated_id >= 0 /\ hasOutPointer

-------------------------------------------------------------------------------
(* Changing the table.                                                     *)

session_open_ok(t) == SlotsOf(t, UNUSED_SOCKET_FD) # {}

\* Mutant: the deadline is not armed.
session_open_no_deadline(t, fd, now) ==
    [t EXCEPT !.sessions[session_find_private(t, UNUSED_SOCKET_FD)] =
        [@ EXCEPT !.sockfd = fd, !.b_authenticated = FALSE]]

\* b_data_pending keeps the value the previous owner of the slot left.
session_open(t, fd, now) ==
    [t EXCEPT !.sessions[session_find_private(t, UNUSED_SOCKET_FD)] =
        [@ EXCEPT !.sockfd          = fd,
                  !.t_auth_tout     = SESSION_AUTH_EXPIRE_TIMEOUT + now,
                  !.b_authenticated = FALSE]]

\* Mutant: the authenticated id survives the close of its session.
session_close_private_keeps_id(t, slots) ==
    [t EXCEPT !.sessions = [i \in Slot |->
        IF i \in slots
        THEN [t.sessions[i] EXCEPT !.sockfd          = UNUSED_SOCKET_FD,
                                   !.t_auth_tout     = 0,
                                   !.b_authenticated = FALSE]
        ELSE t.sessions[i]]]

\* Mutant: the slot keeps the descriptor of the socket that was closed.
session_close_private_keeps_fd(t, slots) ==
    [sessions |->
        [i \in Slot |->
            IF i \in slots
            THEN [t.sessions[i] EXCEPT !.t_auth_tout     = 0,
                                       !.b_authenticated = FALSE]
            ELSE t.sessions[i]],
     n_authenticated_id |->
        IF t.n_authenticated_id \in slots THEN NO_SESSION_AUTHENTICATED
                                          ELSE t.n_authenticated_id]

\* session_close_private on every slot of a set: the two loops of session.c
\* and the single close are the same step on different sets of slots.
session_close_private(t, slots) ==
    [sessions |->
        [i \in Slot |->
            IF i \in slots
            THEN [t.sessions[i] EXCEPT !.sockfd          = UNUSED_SOCKET_FD,
                                       !.t_auth_tout     = 0,
                                       !.b_authenticated = FALSE]
            ELSE t.sessions[i]],
     n_authenticated_id |->
        IF t.n_authenticated_id \in slots THEN NO_SESSION_AUTHENTICATED
                                          ELSE t.n_authenticated_id]

\* Mutant: authenticated sessions expire too.
ExpiredSlots_any(t, now) == {i \in OpenSlots(t) : t.sessions[i].t_auth_tout =< now}

\* The slots session_close_expired_unauth closes.
ExpiredSlots(t, now) ==
    {i \in OpenSlots(t) : /\ ~ t.sessions[i].b_authenticated
                          /\ t.sessions[i].t_auth_tout =< now}

\* Mutant: a second session may be authenticated.
session_auth_complete_ok_always(t, fd) == SlotsOf(t, fd) # {}

session_auth_complete_ok(t, fd) ==
    t.n_authenticated_id < 0 /\ SlotsOf(t, fd) # {}

\* Mutant: the id is the position counted from one.
session_auth_complete_from_one(t, fd) ==
    LET i == session_find_private(t, fd)
    IN  [t EXCEPT !.n_authenticated_id            = i + 1,
                  !.sessions[i].b_authenticated   = TRUE]

session_auth_complete(t, fd) ==
    LET i == session_find_private(t, fd)
    IN  [t EXCEPT !.n_authenticated_id            = i,
                  !.sessions[i].b_authenticated   = TRUE]

session_set_data_pending(t, fd, b) ==
    [t EXCEPT !.sessions[session_find_private(t, fd)].b_data_pending = b]

-------------------------------------------------------------------------------
(* session_getfds: what poll() is given. A timeout of -1 waits forever.    *)

SecondsLeft(t, now) ==
    {IF t.sessions[i].t_auth_tout < now THEN 0 ELSE t.sessions[i].t_auth_tout - now :
        i \in {j \in OpenSlots(t) : ~ t.sessions[j].b_authenticated}}

session_getfds_timeout(t, now) ==
    IF \E i \in OpenSlots(t) : t.sessions[i].b_data_pending THEN 0
    ELSE IF SecondsLeft(t, now) = {} THEN -1
    ELSE CHOOSE s \in SecondsLeft(t, now) : \A r \in SecondsLeft(t, now) : s =< r
===============================================================================
