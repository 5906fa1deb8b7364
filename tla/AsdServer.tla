------------------------------- MODULE AsdServer ------------------------------
(***************************************************************************)
(* The single-threaded server of the At-Scale Debug daemon (asd_main.c):   *)
(* the poll loop, its handlers, the session table they share and the       *)
(* message context (asd_msg) that exists while a client is authenticated.  *)
(* One step of the model is one handler; clients, the clock and the target *)
(* act between any two steps, so what poll() reported may be out of date   *)
(* when it is used.                                                        *)
(*                                                                         *)
(* A client sends records (TLS records, or segments of a TCP stream) of    *)
(* one or more messages. Fragments of a message are in AsdMsgRead, the     *)
(* password, the attempts and the lockout in AuthPam.                      *)
(***************************************************************************)
EXTENDS SessionTable, Sequences

CONSTANTS
    Modes,           \* the ways the daemon is run, each a subset of Mode
    Record,          \* the records clients send: sequences of messages
    MAX_TIME,        \* bound on the clock
    MAX_CONNECTS,    \* bound on the connections clients make
    MAX_SENDS,       \* bound on the records clients send
    MAX_EVENTS       \* bound on the GPIO events of the target

\* A login, an AGENT_CONTROL message, any other message, and bytes that
\* asd_msg_read refuses (a size over MAX_DATA_SIZE or the encryption bit).
Item == {"login", "ctl", "cmd", "junk"}

\* -u is plain TCP and no authentication, otherwise TLS and PAM; asd_msg_free
\* may answer ST_ERR after a GPIO failure or never does.
Mode == {"unsecure", "free_can_fail"}

ASSUME AsdServerAssumption ==
    /\ Modes \subseteq SUBSET Mode
    /\ Record \subseteq Seq(Item) \ {<< >>}
    /\ MAX_TIME \in Nat /\ MAX_CONNECTS \in Nat
    /\ MAX_SENDS \in Nat /\ MAX_EVENTS \in Nat

VARIABLES
    table, sockets, now,   \* as in Session
    asd_msg,    \* "NULL", or how far the context of the authenticated client is
    instance,   \* whether the static instance of asd_msg.c is set
    pc,         \* where request_processing_loop is
    todo,       \* the descriptors poll() reported as readable, in poll order
    gpio,       \* whether poll() reported a GPIO event
    rx,         \* per connection, the records the kernel holds
    ssl,        \* per connection, messages of a record SSL_read began to return
    eof,        \* connections whose client has hung up
    backlog,    \* connections waiting on the listening socket
    event,      \* whether the target has a GPIO event pending
    budget,     \* connections, records and events still to come
    mode        \* how the daemon was started: never changes

server == <<table, sockets, asd_msg, instance, pc, todo, gpio, ssl>>
world  == <<now, rx, eof, backlog, event, budget>>
vars   == <<server, world, mode>>

\* asd_msg: created; handlers initialised, and the last message was an
\* AGENT_CONTROL one or not.
Context == {"fresh", "ctl", "cmd"}

Init ==
    /\ table = session_init /\ sockets = {} /\ now = 0
    /\ asd_msg = "NULL" /\ instance = FALSE
    /\ pc = "poll" /\ todo = << >> /\ gpio = FALSE
    /\ mode \in Modes
    /\ rx = [fd \in Fd |-> << >>] /\ ssl = [fd \in Fd |-> << >>]
    /\ eof = {} /\ backlog = 0 /\ event = FALSE
    /\ budget = [connects |-> MAX_CONNECTS, sends |-> MAX_SENDS, events |-> MAX_EVENTS]

-------------------------------------------------------------------------------
(* What the loop reads.                                                    *)

Authenticated(fd) == session_already_authenticated_ok(table, fd)

Owner == {fd \in OpenFds(table) : Authenticated(fd)}

\* poll() reports POLLIN for data in the kernel and for a hangup; data that
\* SSL_read has already taken from the kernel is not reported.
Readable(fd) == rx[fd] # << >> \/ fd \in eof

\* The loops over an array keep its order: the entries of s that are in S. A
\* recursive function, about which more can be proved than about SelectSeq.
Selected(s, S) ==
    LET kept[n \in 0 .. Len(s)] ==
            IF n = 0 THEN << >>
            ELSE IF s[n] \in S THEN Append(kept[n - 1], s[n])
            ELSE kept[n - 1]
    IN  kept[Len(s)]

SlotFds(t) == [k \in 1 .. MAX_SESSIONS |-> t.sessions[k - 1].sockfd]

\* Mutant: the descriptors of connections that are not authenticated only.
ClientFds_waiting(t) ==
    Selected(SlotFds(t), {t.sessions[i].sockfd : i \in {j \in OpenSlots(t) : ~ t.sessions[j].b_authenticated}})

\* The descriptors session_getfds returns, in slot order.
ClientFds(t) == Selected(SlotFds(t), OpenFds(t))

ReadyFds == Selected(ClientFds(table), {fd \in Fd : Readable(fd)})

\* asd_msg_get_fds skips the GPIOs while the last message is AGENT_CONTROL, and
\* target_get_fds has none before the handlers are initialised.
asd_msg_get_fds == asd_msg = "cmd"

-------------------------------------------------------------------------------
(* What several handlers do.                                               *)

\* session_close, with the close() that drops what the client sent.
CloseConn(fd) ==
    /\ table' = session_close_private(table, {session_find_private(table, fd)})
    /\ sockets' = sockets \ {fd}
    /\ rx' = [rx EXCEPT ![fd] = << >>]
    /\ ssl' = [ssl EXCEPT ![fd] = << >>]
    /\ eof' = eof \ {fd}

\* on_client_disconnect: asd_msg_free and free, whatever asd_msg_free answers.
on_client_disconnect ==
    /\ asd_msg' = "NULL"
    /\ instance' = (instance /\ asd_msg = "NULL")

\* Mutant: the loop over the clients runs one too far.
NextClient_one_more == todo' = Tail(todo) /\ pc' = "client"

NextClient == /\ todo' = Tail(todo)
              /\ pc' = IF Len(todo) = 1 THEN "poll" ELSE "client"

-------------------------------------------------------------------------------
(* request_processing_loop.                                                *)

\* Mutant: poll() waits without a timeout.
Poll_no_timeout ==
    /\ pc = "poll"
    /\ ReadyFds # << >> \/ backlog > 0 \/ (asd_msg_get_fds /\ event)
    /\ todo' = ReadyFds
    /\ gpio' = (asd_msg_get_fds /\ event)
    /\ pc' = IF backlog > 0 THEN "accept" ELSE "gpio"
    /\ UNCHANGED <<table, sockets, asd_msg, instance, ssl, world>>

\* poll() returns: with something to report, or when the time left to the next
\* deadline is over, or at once while a session has data pending.
Poll ==
    /\ pc = "poll"
    /\ \/ ReadyFds # << >> \/ backlog > 0 \/ (asd_msg_get_fds /\ event)
       \/ session_getfds_timeout(table, now) = 0
    /\ todo' = ReadyFds
    /\ gpio' = (asd_msg_get_fds /\ event)
    /\ pc' = IF backlog > 0 THEN "accept" ELSE "gpio"
    /\ UNCHANGED <<table, sockets, asd_msg, instance, ssl, world>>

\* poll() fails: the loop ends and deinit_asd_state closes every session and
\* frees the context.
PollFails ==
    /\ pc = "poll"
    /\ pc' = "down"
    /\ table' = session_close_private(table, OpenSlots(table))
    /\ sockets' = sockets \ OpenFds(table)
    /\ on_client_disconnect
    /\ eof' = {}
    /\ rx' = [fd \in Fd |-> << >>] /\ ssl' = [fd \in Fd |-> << >>]
    /\ UNCHANGED <<now, todo, gpio, backlog, event, budget>>

\* process_new_client when accept() or the TLS handshake fails, or when no slot
\* is free: the connection is gone.
AcceptFails ==
    /\ pc = "accept"
    /\ backlog' = backlog - 1
    /\ pc' = "gpio"
    /\ UNCHANGED <<table, sockets, asd_msg, instance, todo, gpio, ssl,
                   now, rx, eof, event, budget>>

\* Without authentication the connection is handled at once, as if poll() had
\* reported it.
process_new_client(fd) ==
    /\ pc = "accept"
    /\ fd \notin sockets
    /\ session_open_ok(table)
    /\ table' = session_open(table, fd, now)
    /\ sockets' = sockets \cup {fd}
    /\ backlog' = backlog - 1
    /\ todo' = IF "unsecure" \in mode THEN Append(todo, fd) ELSE todo
    /\ pc' = "gpio"
    /\ UNCHANGED <<asd_msg, instance, gpio, ssl, now, rx, eof, event, budget>>

\* process_all_gpio_events: the event is sent to the client, or there is none.
GpioHandled ==
    /\ pc = "gpio"
    /\ event' = IF gpio THEN FALSE ELSE event
    /\ pc' = "expire"
    /\ UNCHANGED <<table, sockets, asd_msg, instance, todo, gpio, ssl,
                   now, rx, eof, backlog, budget>>

\* Mutant: the client is closed but its context is kept.
close_connection_only(freed) ==
    /\ pc = "gpio" /\ gpio /\ asd_msg # "NULL"
    /\ event' = FALSE
    /\ \E fd \in Owner : CloseConn(fd)
    /\ pc' = "poll" /\ todo' = << >> /\ gpio' = FALSE
    /\ UNCHANGED <<asd_msg, instance, now, backlog, budget>>

\* The event is XDP, or it could not be read or sent: close_connection, which
\* closes the session only when asd_msg_free succeeded, and the loop starts
\* again without the clients poll() reported.
close_connection(freed) ==
    /\ pc = "gpio" /\ gpio /\ asd_msg # "NULL"
    /\ event' = FALSE
    /\ on_client_disconnect
    /\ \E fd \in Owner :
          IF freed THEN CloseConn(fd)
                   ELSE UNCHANGED <<table, sockets, rx, ssl, eof>>
    /\ pc' = "poll" /\ todo' = << >> /\ gpio' = FALSE
    /\ UNCHANGED <<now, backlog, budget>>

\* Mutant: the session is dropped but its socket is not closed.
Expire_leak ==
    LET slots == ExpiredSlots(table, now)
    IN  /\ pc = "expire"
        /\ table' = session_close_private(table, slots)
        /\ gpio' = FALSE
        /\ pc' = IF todo = << >> THEN "poll" ELSE "client"
        /\ UNCHANGED <<sockets, asd_msg, instance, todo, ssl, world>>

\* The first statement of process_all_client_messages.
Expire ==
    LET slots == ExpiredSlots(table, now)
        fds   == {table.sessions[i].sockfd : i \in slots}
    IN  /\ pc = "expire"
        /\ table' = session_close_private(table, slots)
        /\ sockets' = sockets \ fds
        /\ eof' = eof \ fds
        /\ rx' = [fd \in Fd |-> IF fd \in fds THEN << >> ELSE rx[fd]]
        /\ ssl' = [fd \in Fd |-> IF fd \in fds THEN << >> ELSE ssl[fd]]
        /\ gpio' = FALSE
        /\ pc' = IF todo = << >> THEN "poll" ELSE "client"
        /\ UNCHANGED <<asd_msg, instance, todo, now, backlog, event, budget>>

-------------------------------------------------------------------------------
(* process_client_message for the first descriptor of todo.                *)

\* "Session for fd vanished": expired since poll() reported it.
ClientVanished ==
    /\ pc = "client"
    /\ ~ session_lookup_conn_ok(table, Head(todo))
    /\ NextClient
    /\ UNCHANGED <<table, sockets, asd_msg, instance, gpio, ssl, world>>

\* Mutant: any open session passes.
ClientAuthenticated_any ==
    /\ pc = "client"
    /\ session_lookup_conn_ok(table, Head(todo))
    /\ pc' = "read"
    /\ UNCHANGED <<table, sockets, asd_msg, instance, todo, gpio, ssl, world>>

\* session_already_authenticated.
ClientAuthenticated ==
    /\ pc = "client"
    /\ Authenticated(Head(todo))
    /\ pc' = "read"
    /\ UNCHANGED <<table, sockets, asd_msg, instance, todo, gpio, ssl, world>>

Unauthenticated(fd) == session_lookup_conn_ok(table, fd) /\ ~ Authenticated(fd)

\* auth_none.
HandshakeNone ==
    /\ pc = "client" /\ "unsecure" \in mode
    /\ Unauthenticated(Head(todo))
    /\ pc' = "complete"
    /\ UNCHANGED <<table, sockets, asd_msg, instance, todo, gpio, ssl, world>>

\* authpam_client_handshake: one record with the right password and no more,
\* nobody locked out. The answer depends on session_get_authenticated_conn,
\* called with a NULL pointer.
HandshakeAccepted ==
    LET fd == Head(todo)
    IN  /\ pc = "client" /\ "unsecure" \notin mode
        /\ Unauthenticated(fd)
        /\ rx[fd] # << >> /\ Head(rx[fd]) = <<"login">>
        /\ ~ session_get_authenticated_conn_ok(table, FALSE)
        /\ rx' = [rx EXCEPT ![fd] = Tail(@)]
        /\ pc' = "complete"
        /\ UNCHANGED <<table, sockets, asd_msg, instance, todo, gpio, ssl,
                       now, eof, backlog, event, budget>>

\* Any other record, a hangup, a lockout, a PAM or a send error: the client is
\* told and its session closed.
HandshakeRefused ==
    /\ pc = "client" /\ "unsecure" \notin mode
    /\ Unauthenticated(Head(todo))
    /\ CloseConn(Head(todo))
    /\ NextClient
    /\ UNCHANGED <<asd_msg, instance, gpio, now, backlog, event, budget>>

\* Mutant: on_client_connect is left out.
ClientConnected_no_context ==
    LET fd == Head(todo)
    IN  /\ pc = "complete"
        /\ session_auth_complete_ok(table, fd)
        /\ table' = session_auth_complete(table, fd)
        /\ pc' = "read"
        /\ UNCHANGED <<sockets, asd_msg, instance, todo, gpio, ssl, world>>

\* ensure_client_authenticated after the handshake: session_auth_complete, then
\* on_client_connect, which asd_msg_init fails when an instance exists.
ClientConnected ==
    LET fd == Head(todo)
    IN  /\ pc = "complete"
        /\ session_auth_complete_ok(table, fd)
        /\ ~ instance
        /\ table' = session_auth_complete(table, fd)
        /\ asd_msg' = "fresh" /\ instance' = TRUE
        /\ pc' = "read"
        /\ UNCHANGED <<sockets, todo, gpio, ssl, world>>

\* Another session is authenticated: session_close.
ConnectBusy ==
    /\ pc = "complete"
    /\ ~ session_auth_complete_ok(table, Head(todo))
    /\ CloseConn(Head(todo))
    /\ NextClient
    /\ UNCHANGED <<asd_msg, instance, gpio, now, backlog, event, budget>>

\* on_client_connect fails: asd_msg_init returned NULL, on_client_disconnect
\* finds no context, and session_close ends the session just authenticated.
ConnectFails ==
    LET fd == Head(todo)
    IN  /\ pc = "complete"
        /\ session_auth_complete_ok(table, fd)
        /\ CloseConn(fd)
        /\ NextClient
        /\ asd_msg' = "NULL"
        /\ UNCHANGED <<instance, gpio, now, backlog, event, budget>>

\* asd_main.c stores to state->asd_msg before it reads: with no context the
\* daemon dies there.
ReadWithoutContext ==
    /\ pc = "read" /\ asd_msg = "NULL"
    /\ pc' = "crashed"
    /\ UNCHANGED <<table, sockets, asd_msg, instance, todo, gpio, ssl, world>>

\* The messages the connection can give to asd_msg_read: what SSL_read holds,
\* or else the next record.
Input(fd) == IF ssl[fd] # << >> THEN ssl[fd]
             ELSE IF rx[fd] # << >> THEN Head(rx[fd])
             ELSE << >>

\* A login read as a message may be anything.
Parsed(item) == IF item = "login" THEN Item \ {"login"} ELSE {item}

\* asd_msg_read of one message; its answer goes to the authenticated
\* connection, and the hint that more data is pending is stored.
ReadMessage(kind) ==
    LET fd == Head(todo)
    IN  /\ pc = "read" /\ asd_msg # "NULL"
        /\ Input(fd) # << >> /\ kind \in Parsed(Head(Input(fd))) \ {"junk"}
        /\ ssl' = [ssl EXCEPT ![fd] = Tail(Input(fd))]
        /\ rx' = IF ssl[fd] = << >> THEN [rx EXCEPT ![fd] = Tail(@)] ELSE rx
        /\ table' = session_set_data_pending(table, fd, Tail(Input(fd)) # << >>)
        /\ asd_msg' = IF kind = "ctl" /\ asd_msg = "fresh" THEN "fresh" ELSE kind
        /\ NextClient
        /\ UNCHANGED <<sockets, instance, gpio, now, eof, backlog, event, budget>>

\* Mutant: a TLS connection is waited for without a timeout.
ReadFailsFor_no_timeout(fd) ==
    \/ Input(fd) # << >> /\ "junk" \in Parsed(Head(Input(fd)))
    \/ Input(fd) # << >> /\ "cmd" \in Parsed(Head(Input(fd))) /\ asd_msg = "fresh"
    \/ Input(fd) = << >> /\ fd \in eof

\* asd_msg_read fails: a message it refuses, handlers that cannot be
\* initialised, a hangup, or three seconds without data on a TLS connection
\* (SO_RCVTIMEO). A TCP connection without data is waited for.
ReadFailsFor(fd) ==
    \/ Input(fd) # << >> /\ "junk" \in Parsed(Head(Input(fd)))
    \/ Input(fd) # << >> /\ "cmd" \in Parsed(Head(Input(fd))) /\ asd_msg = "fresh"
    \/ Input(fd) = << >> /\ (fd \in eof \/ "unsecure" \notin mode)

ReadFails ==
    /\ pc = "read" /\ asd_msg # "NULL"
    /\ ReadFailsFor(Head(todo))
    /\ on_client_disconnect
    /\ CloseConn(Head(todo))
    /\ NextClient
    /\ UNCHANGED <<gpio, now, backlog, event, budget>>

-------------------------------------------------------------------------------
(* The clients, the target and the clock.                                  *)

Connect ==
    /\ pc \notin {"down", "crashed"}
    /\ budget.connects > 0
    /\ backlog' = backlog + 1
    /\ budget' = [budget EXCEPT !.connects = @ - 1]
    /\ UNCHANGED <<server, now, rx, eof, event>>

Send(fd, record) ==
    /\ fd \in sockets \ eof
    /\ budget.sends > 0
    /\ "unsecure" \in mode => Len(record) = 1
    /\ rx' = [rx EXCEPT ![fd] = Append(@, record)]
    /\ budget' = [budget EXCEPT !.sends = @ - 1]
    /\ UNCHANGED <<server, now, eof, backlog, event>>

HangUp(fd) ==
    /\ fd \in sockets \ eof
    /\ eof' = eof \cup {fd}
    /\ UNCHANGED <<server, now, rx, backlog, event, budget>>

GpioEvent ==
    /\ budget.events > 0 /\ ~ event
    /\ event' = TRUE
    /\ budget' = [budget EXCEPT !.events = @ - 1]
    /\ UNCHANGED <<server, now, rx, eof, backlog>>

Tick ==
    /\ now < MAX_TIME
    /\ now' = now + 1
    /\ UNCHANGED <<server, rx, eof, backlog, event, budget>>

World ==
    /\ UNCHANGED mode
    /\ \/ Connect \/ GpioEvent \/ Tick
       \/ \E fd \in Fd : HangUp(fd)
       \/ \E fd \in Fd, record \in Record : Send(fd, record)

\* Every step of the daemon but a failure of poll().
Serve ==
    /\ UNCHANGED mode
    /\ \/ Poll
       \/ AcceptFails \/ \E fd \in Fd : process_new_client(fd)
       \/ GpioHandled
       \/ \E freed \in {TRUE, "free_can_fail" \notin mode} : close_connection(freed)
       \/ Expire
       \/ ClientVanished \/ ClientAuthenticated
       \/ HandshakeNone \/ HandshakeAccepted \/ HandshakeRefused
       \/ ClientConnected \/ ConnectBusy \/ ConnectFails
       \/ ReadWithoutContext
       \/ \E kind \in {"ctl", "cmd"} : ReadMessage(kind)
       \/ ReadFails

Next == Serve \/ (PollFails /\ UNCHANGED mode) \/ World

Spec == Init /\ [][Next]_vars

\* The daemon takes its next step whenever it is not blocked, and time passes.
FairSpec == Spec /\ WF_vars(Serve) /\ WF_vars(Tick /\ UNCHANGED mode)

-------------------------------------------------------------------------------
(* Properties.                                                             *)

\* Type correctness.
TypeOK ==
    /\ table \in SessionTableType /\ sockets \subseteq Fd /\ now \in 0 .. MAX_TIME
    /\ asd_msg \in Context \cup {"NULL"} /\ instance \in BOOLEAN
    /\ pc \in {"poll", "accept", "gpio", "expire", "client", "complete", "read",
               "crashed", "down"}
    /\ todo \in Seq(Fd) /\ gpio \in BOOLEAN
    /\ mode \in Modes /\ eof \subseteq Fd
    /\ rx \in [Fd -> Seq(Record)] /\ ssl \in [Fd -> Seq(Item)]
    /\ backlog \in 0 .. MAX_CONNECTS /\ event \in BOOLEAN
    /\ pc \in {"client", "complete", "read"} => todo # << >>

\* What the handlers do to the session table, in one step or in several calls,
\* is a step of Session: what is proved of it holds in the running server.
Sessions == INSTANCE Session
ImplementsSession == Sessions!Spec

\* No handler leaves an authenticated client without a message context, on
\* which its next message would crash the daemon. Where asd_msg_free fails,
\* close_connection does so: it closes the session only when freeing succeeds.
ContextFollowsOwner == "free_can_fail" \notin mode /\ Owner # {} => asd_msg # "NULL"

\* No handler leaves a context behind its client, which would keep every later
\* client out (asd_msg.c allows only one instance), and none is lost.
NoOrphanContext ==
    /\ asd_msg # "NULL" => Owner # {}
    /\ instance <=> (asd_msg # "NULL")

\* The connection being read is the authenticated one, so the responses that
\* send_out_msg_on_socket sends to the authenticated connection go to the client
\* that asked, although poll() reported the descriptor before other sessions
\* were opened, closed and expired.
ReaderIsOwner == pc = "read" => Owner = {Head(todo)}

\* The owner of the debug port loses it only by its own message, hangup or
\* silence, by a GPIO failure or when the daemon ends: never by what other
\* clients do, by their expiry or by theirs failing to log in.
OwnerLosesStep ==
    \A fd \in Owner : fd \notin Owner' =>
        \/ pc = "read" /\ Head(todo) = fd
        \/ pc = "gpio" /\ gpio
        \/ pc' = "down"
OwnerKeepsPort == [][OwnerLosesStep]_vars

\* A connection that does not authenticate is closed: no client holds a slot of
\* the table for ever, even while another one is being waited for.
UnauthenticatedLeaves ==
    \A fd \in Fd :
        /\ Unauthenticated(fd)
        /\ table.sessions[session_find_private(table, fd)].t_auth_tout =< MAX_TIME
        ~> ~ Unauthenticated(fd)

\* What a connected client sent is read, or its connection ends.
InputIsRead ==
    \A fd \in Fd : (fd \in sockets /\ Input(fd) # << >>) ~> (fd \notin sockets \/ Input(fd) = << >>)

\* The daemon always gets back to its listening socket.
ListenerServed == backlog > 0 ~> backlog = 0 \/ pc = "down"

===============================================================================
