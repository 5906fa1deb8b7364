-------------------------------- MODULE Session -------------------------------
(***************************************************************************)
(* The session table as a state machine: the calls asd_main.c makes on it, *)
(* in any order, with the clock of time(0) advancing between them.         *)
(***************************************************************************)
EXTENDS SessionTable

CONSTANT MAX_TIME   \* bound on the clock

ASSUME MaxTimeAssumption == MAX_TIME \in Nat

VARIABLES
    table,     \* the Session struct
    sockets,   \* client descriptors the kernel holds open for the daemon
    now        \* time(0), in seconds

vars == <<table, sockets, now>>

Init == table = session_init /\ sockets = {} /\ now = 0

\* process_new_client: accept() returns a descriptor the kernel does not have
\* in use. With no free slot the descriptor is closed at once, which leaves
\* everything as it was.
Open(fd) ==
    /\ fd \notin sockets
    /\ session_open_ok(table)
    /\ table' = session_open(table, fd, now)
    /\ sockets' = sockets \cup {fd}
    /\ UNCHANGED now

\* session_close_private with the close() of extnet_close_client.
CloseSlots(slots) ==
    /\ table' = session_close_private(table, slots)
    /\ sockets' = sockets \ {table.sessions[i].sockfd : i \in slots}
    /\ UNCHANGED now

\* The caller may hold a descriptor whose session is already gone: ST_ERR.
Close(fd) ==
    /\ session_lookup_conn_ok(table, fd)
    /\ CloseSlots({session_find_private(table, fd)})

CloseAll == CloseSlots(OpenSlots(table))

CloseExpired == CloseSlots(ExpiredSlots(table, now))

AuthComplete(fd) ==
    /\ session_auth_complete_ok(table, fd)
    /\ table' = session_auth_complete(table, fd)
    /\ UNCHANGED <<sockets, now>>

SetDataPending(fd, b) ==
    /\ session_lookup_conn_ok(table, fd)
    /\ table' = session_set_data_pending(table, fd, b)
    /\ UNCHANGED <<sockets, now>>

Tick == now < MAX_TIME /\ now' = now + 1 /\ UNCHANGED <<table, sockets>>

Next ==
    \/ \E fd \in Fd : Open(fd) \/ Close(fd) \/ AuthComplete(fd)
    \/ \E fd \in Fd, b \in BOOLEAN : SetDataPending(fd, b)
    \/ CloseAll
    \/ CloseExpired
    \/ Tick

Spec == Init /\ [][Next]_vars

-------------------------------------------------------------------------------
(* Properties.                                                             *)

\* Type correctness of the table and the clock.
TypeOK ==
    /\ table \in SessionTableType
    /\ sockets \subseteq Fd
    /\ now \in 0 .. MAX_TIME

\* Only one session may be authenticated (session.h): the flag of a slot and
\* n_authenticated_id never disagree, although open, close and expiry write
\* them in different functions, and the authenticated slot is an open one.
OnlyOneAuthenticated ==
    /\ \A i \in Slot :
          table.sessions[i].b_authenticated <=> i = table.n_authenticated_id
    /\ table.n_authenticated_id >= 0 => table.n_authenticated_id \in OpenSlots(table)

\* Every socket the kernel holds for the daemon is held by exactly one slot:
\* no close leaks a socket, no slot keeps a descriptor that the kernel may give
\* to the next client, and so the scan by descriptor is never ambiguous.
SocketsTracked ==
    /\ sockets = OpenFds(table)
    /\ \A i, j \in OpenSlots(table) :
          table.sessions[i].sockfd = table.sessions[j].sockfd => i = j

\* An open session always has a deadline in (0, now + timeout], so that every
\* unauthenticated client is due to be expired; a free slot carries neither a
\* deadline nor the authenticated flag of its previous owner.
DeadlinesFollowOccupancy ==
    \A i \in Slot :
        IF i \in OpenSlots(table)
        THEN /\ table.sessions[i].t_auth_tout > 0
             /\ table.sessions[i].t_auth_tout =< now + SESSION_AUTH_EXPIRE_TIMEOUT
        ELSE /\ table.sessions[i].t_auth_tout = 0
             /\ ~ table.sessions[i].b_authenticated

\* Debug access never passes from one client to another in one step, and a
\* client that keeps its connection keeps it: only closing that very
\* connection ends its authentication (expiry of others does not).
OwnershipStep ==
    /\ table.n_authenticated_id >= 0 =>
          \/ table'.n_authenticated_id = table.n_authenticated_id
          \/ table'.n_authenticated_id = NO_SESSION_AUTHENTICATED
    /\ \A i \in Slot :
          /\ i = table.n_authenticated_id
          /\ table.sessions[i].sockfd = table'.sessions[i].sockfd
          => i = table'.n_authenticated_id
OwnershipIsExclusive == [][OwnershipStep]_vars

\* What the table promises its clients, see DebugAccess: those waiting to
\* authenticate and the one that owns the debug port.
waitingClients ==
    {table.sessions[i].sockfd :
        i \in {j \in OpenSlots(table) : ~ table.sessions[j].b_authenticated}}
ownerClients ==
    {table.sessions[i].sockfd :
        i \in {j \in OpenSlots(table) : table.sessions[j].b_authenticated}}

Access == INSTANCE DebugAccess WITH Client  <- Fd,
                                    waiting <- waitingClients,
                                    owner   <- ownerClients

\* The session table implements the single-owner debug port.
ImplementsDebugAccess == Access!Spec
===============================================================================
