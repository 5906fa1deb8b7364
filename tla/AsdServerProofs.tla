--------------------------- MODULE AsdServerProofs ----------------------------
(***************************************************************************)
(* Proofs about the server, for every number of slots and descriptors,     *)
(* every set of records and every bound. The handlers are shown to be      *)
(* steps of the session table; what those do to the owner of the port is   *)
(* taken from the refinement DebugAccess proved in SessionProofs.          *)
(***************************************************************************)
EXTENDS AsdServer, WellFoundedInduction, TLAPS

Table == INSTANCE SessionProofs

-------------------------------------------------------------------------------
(* Induction over the numbers of an interval.                              *)

\* A non-empty set of natural numbers has a least element.
LEMMA LeastNat ==
  ASSUME NEW T, T \subseteq Nat, T # {}
  PROVE  \E i \in T : \A j \in T : i =< j
<1>1. PICK i \in T : \A j \in T : ~ (<<j, i>> \in OpToRel(<, Nat))
  BY NatLessThanWellFounded, WFMin
<1>2. \A j \in T : ~ (j < i)
  BY <1>1 DEF OpToRel
<1>. QED
  BY <1>2

\* A set that holds 0 and, with k, also k + 1 holds the whole interval.
LEMMA IntervalInduction ==
  ASSUME NEW N \in Nat, NEW G, 0 \in G,
         \A k \in 0 .. (N - 1) : k \in G => k + 1 \in G
  PROVE  0 .. N \subseteq G
<1> DEFINE T == (0 .. N) \ G
<1>. SUFFICES ASSUME T # {} PROVE FALSE
  OBVIOUS
<1>1. T \subseteq Nat
  OBVIOUS
<1> HIDE DEF T
<1>2. PICK k \in T : \A j \in T : k =< j
  BY <1>1, LeastNat
<1> USE DEF T
<1>3. k \in 1 .. N /\ k - 1 \in 0 .. (N - 1)
  BY <1>2
<1>4. k - 1 \in G
  BY <1>2, <1>3
<1>5. (k - 1) + 1 = k
  BY <1>3
<1>. QED
  BY <1>2, <1>3, <1>4, <1>5

-------------------------------------------------------------------------------
(* What poll() reports is built by a recursive function.                   *)

SelectedBody(s, S, f, n) ==
    IF n = 0 THEN << >>
    ELSE IF s[n] \in S THEN Append(f[n - 1], s[n])
    ELSE f[n - 1]

IsSelection(s, S, f, k) == f = [n \in 0 .. k |-> SelectedBody(s, S, f, n)]

\* The recursion of Selected has a solution.
LEMMA SelectionExists ==
  ASSUME NEW s, NEW S, NEW N \in Nat
  PROVE  \E f : IsSelection(s, S, f, N)
<1> DEFINE G == {k \in 0 .. N : \E f : IsSelection(s, S, f, k)}
<1>1. 0 \in G
  <2>1. \A n \in 0 .. 0 : SelectedBody(s, S, [m \in 0 .. 0 |-> << >>], n) = << >>
    BY DEF SelectedBody
  <2>2. IsSelection(s, S, [m \in 0 .. 0 |-> << >>], 0)
    BY <2>1 DEF IsSelection
  <2>. QED
    BY <2>2
<1>2. ASSUME NEW k \in 0 .. (N - 1), k \in G PROVE k + 1 \in G
  <2>1. PICK g : IsSelection(s, S, g, k)
    BY <1>2
  <2> DEFINE h == [n \in 0 .. (k + 1) |->
                      IF n = k + 1 THEN SelectedBody(s, S, g, k + 1) ELSE g[n]]
  <2>2. \A n \in 0 .. k : h[n] = g[n] /\ g[n] = SelectedBody(s, S, g, n)
    <3>1. \A n \in 0 .. k : n \in 0 .. (k + 1) /\ n # k + 1
      OBVIOUS
    <3>2. \A n \in 0 .. k : g[n] = SelectedBody(s, S, g, n)
      BY <2>1 DEF IsSelection
    <3>. QED
      BY <3>1, <3>2
  <2>3. h[k + 1] = SelectedBody(s, S, g, k + 1)
    OBVIOUS
  <2>4. h = [n \in 0 .. (k + 1) |-> h[n]]
    OBVIOUS
  <2> HIDE DEF h
  <2>5. \A n \in 0 .. (k + 1) : n # 0 => n - 1 \in 0 .. k
    OBVIOUS
  <2>6. \A n \in 0 .. (k + 1) : SelectedBody(s, S, h, n) = SelectedBody(s, S, g, n)
    BY <2>2, <2>5 DEF SelectedBody
  <2>7. \A n \in 0 .. (k + 1) : h[n] = SelectedBody(s, S, h, n)
    BY <2>2, <2>3, <2>6
  <2>8. IsSelection(s, S, h, k + 1)
    BY <2>4, <2>7 DEF IsSelection
  <2>. QED
    BY <2>8
<1> HIDE DEF G
<1>3. 0 .. N \subseteq G
  BY <1>1, <1>2, IntervalInduction
<1>. QED
  BY <1>3 DEF G

\* Selected returns a sequence of elements of s that are in S.
LEMMA SelectedType ==
  ASSUME NEW T, NEW s \in Seq(T), NEW S, NEW U, T \cap S \subseteq U
  PROVE  Selected(s, S) \in Seq(U)
<1> DEFINE N == Len(s)
           F == CHOOSE f : IsSelection(s, S, f, N)
           G == {n \in 0 .. N : F[n] \in Seq(U)}
<1>1. N \in Nat /\ \A n \in 1 .. N : s[n] \in T
  OBVIOUS
<1>2. IsSelection(s, S, F, N)
  BY <1>1, SelectionExists
<1>3. Selected(s, S) = F[N]
  BY Zenon DEF Selected, IsSelection, SelectedBody
<1> HIDE DEF F, N
<1>4. \A n \in 0 .. N : F[n] = SelectedBody(s, S, F, n)
  BY <1>2 DEF IsSelection
<1>5. 0 \in G
  <2>1. F[0] = << >>
    BY <1>1, <1>4 DEF SelectedBody
  <2>2. << >> \in Seq(U)
    OBVIOUS
  <2>3. F[0] \in Seq(U) /\ 0 \in 0 .. N
    BY <1>1, <2>1, <2>2
  <2>. QED
    BY <2>3
<1>6. ASSUME NEW k \in 0 .. (N - 1), k \in G PROVE k + 1 \in G
  <2>1. /\ k + 1 \in 1 .. N /\ (k + 1) - 1 = k
        /\ F[k] \in Seq(U) /\ s[k + 1] \in T
    BY <1>1, <1>6
  <2>2. F[k + 1] = IF s[k + 1] \in S THEN Append(F[k], s[k + 1]) ELSE F[k]
    BY <1>1, <1>4, <2>1 DEF SelectedBody
  <2>3. F[k + 1] \in Seq(U)
    <3>1. CASE s[k + 1] \in S
      <4>1. s[k + 1] \in U
        BY <2>1, <3>1
      <4>2. Append(F[k], s[k + 1]) \in Seq(U)
        BY <2>1, <4>1
      <4>. QED
        BY <2>2, <3>1, <4>2
    <3>2. CASE s[k + 1] \notin S
      BY <2>1, <2>2, <3>2
    <3>. QED
      BY <3>1, <3>2
  <2>. QED
    BY <1>1, <2>1, <2>3
<1> HIDE DEF G
<1>7. 0 .. N \subseteq G
  BY <1>1, <1>5, <1>6, IntervalInduction
<1>. QED
  BY <1>1, <1>3, <1>7 DEF G

-------------------------------------------------------------------------------
(* The server's calls and those of the table's own state machine.          *)

USE SessionTableAssumption, AsdServerAssumption

\* The table's operators mean the same in both modules: reading it.
LEMMA SameTable ==
  /\ Table!Slot = Slot
  /\ \A t, fd : Table!SlotsOf(t, fd) = SlotsOf(t, fd)
  /\ \A t, fd : Table!session_find_private(t, fd) = session_find_private(t, fd)
  /\ \A t : Table!OpenSlots(t) = OpenSlots(t)
  /\ \A t : Table!OpenFds(t) = OpenFds(t)
<1> USE DEF Table!Slot, Slot, Table!SlotsOf, SlotsOf, Table!OpenSlots, OpenSlots
<1>1. Table!Slot = Slot
  OBVIOUS
<1>2. \A t, fd : Table!SlotsOf(t, fd) = SlotsOf(t, fd)
  OBVIOUS
<1>3. \A t, fd : Table!session_find_private(t, fd) = session_find_private(t, fd)
  BY Zenon DEF Table!session_find_private, session_find_private
<1>4. \A t : Table!OpenSlots(t) = OpenSlots(t)
  OBVIOUS
<1>5. \A t : Table!OpenFds(t) = OpenFds(t)
  BY DEF Table!OpenFds, OpenFds
<1>. QED
  BY <1>1, <1>2, <1>3, <1>4, <1>5

\* The conditions under which the calls answer ST_OK mean the same.
LEMMA SameCalls ==
  /\ \A t, fd : Table!session_lookup_conn_ok(t, fd) = session_lookup_conn_ok(t, fd)
  /\ \A t : Table!session_open_ok(t) = session_open_ok(t)
  /\ \A t, fd : Table!session_auth_complete_ok(t, fd) = session_auth_complete_ok(t, fd)
  /\ \A t, n : Table!ExpiredSlots(t, n) = ExpiredSlots(t, n)
<1> USE DEF Table!Slot, Slot, Table!SlotsOf, SlotsOf, Table!OpenSlots, OpenSlots,
            Table!session_find_private, session_find_private
<1>1. \A t, fd : Table!session_lookup_conn_ok(t, fd) = session_lookup_conn_ok(t, fd)
  BY DEF Table!session_lookup_conn_ok, session_lookup_conn_ok
<1>2. \A t : Table!session_open_ok(t) = session_open_ok(t)
  BY DEF Table!session_open_ok, session_open_ok
<1>3. \A t, fd : Table!session_auth_complete_ok(t, fd) = session_auth_complete_ok(t, fd)
  BY DEF Table!session_auth_complete_ok, session_auth_complete_ok
<1>4. \A t, n : Table!ExpiredSlots(t, n) = ExpiredSlots(t, n)
  BY DEF Table!ExpiredSlots, ExpiredSlots
<1>. QED
  BY <1>1, <1>2, <1>3, <1>4

\* The calls that change the table mean the same.
LEMMA SameUpdates ==
  /\ Table!session_init = session_init
  /\ \A t, fd, n : Table!session_open(t, fd, n) = session_open(t, fd, n)
  /\ \A t, s : Table!session_close_private(t, s) = session_close_private(t, s)
  /\ \A t, fd : Table!session_auth_complete(t, fd) = session_auth_complete(t, fd)
  /\ \A t, fd, b : Table!session_set_data_pending(t, fd, b) = session_set_data_pending(t, fd, b)
<1> USE DEF Table!Slot, Slot, Table!SlotsOf, SlotsOf,
            Table!session_find_private, session_find_private,
            Table!NO_SESSION_AUTHENTICATED, NO_SESSION_AUTHENTICATED
<1>1. \A t, fd, n : Table!session_open(t, fd, n) = session_open(t, fd, n)
  BY Zenon DEF Table!session_open, session_open
<1>2. \A t, s : Table!session_close_private(t, s) = session_close_private(t, s)
  BY Zenon DEF Table!session_close_private, session_close_private
<1>3. \A t, fd : Table!session_auth_complete(t, fd) = session_auth_complete(t, fd)
  BY Zenon DEF Table!session_auth_complete, session_auth_complete
<1>4. \A t, fd, b : Table!session_set_data_pending(t, fd, b) = session_set_data_pending(t, fd, b)
  BY Zenon DEF Table!session_set_data_pending, session_set_data_pending
<1>5. Table!session_init = session_init
  BY Zenon DEF Table!session_init, session_init
<1>. QED
  BY <1>1, <1>2, <1>3, <1>4, <1>5

\* The two instances of Session are the same specification.
LEMMA SameSpec ==
  /\ Table!Init <=> Sessions!Init
  /\ [Table!Next]_(Table!vars) <=> [Sessions!Next]_(Sessions!vars)
BY Zenon DEF
    Table!Init, Sessions!Init,
    Table!vars, Sessions!vars,
    Table!Next, Sessions!Next,
    Table!Open, Sessions!Open,
    Table!Close, Sessions!Close,
    Table!CloseSlots, Sessions!CloseSlots,
    Table!CloseAll, Sessions!CloseAll,
    Table!CloseExpired, Sessions!CloseExpired,
    Table!AuthComplete, Sessions!AuthComplete,
    Table!SetDataPending, Sessions!SetDataPending,
    Table!Tick, Sessions!Tick,
    Table!session_init, Sessions!session_init,
    Table!session_open, Sessions!session_open,
    Table!session_open_ok, Sessions!session_open_ok,
    Table!session_close_private, Sessions!session_close_private,
    Table!session_auth_complete, Sessions!session_auth_complete,
    Table!session_auth_complete_ok, Sessions!session_auth_complete_ok,
    Table!session_lookup_conn_ok, Sessions!session_lookup_conn_ok,
    Table!session_set_data_pending, Sessions!session_set_data_pending,
    Table!session_find_private, Sessions!session_find_private,
    Table!SlotsOf, Sessions!SlotsOf,
    Table!Slot, Sessions!Slot,
    Table!OpenSlots, Sessions!OpenSlots,
    Table!ExpiredSlots, Sessions!ExpiredSlots,
    Table!NO_SESSION_AUTHENTICATED, Sessions!NO_SESSION_AUTHENTICATED

-------------------------------------------------------------------------------
(* The calls of the handlers are steps of the table, and what they do to   *)
(* the owner is what DebugAccess promises.                                 *)

TableInv == Table!SessionInv

\* What the proofs below need of the invariant of the table.
LEMMA TableFacts ==
  ASSUME TableInv
  PROVE  /\ \A i \in OpenSlots(table) : i \in Slot /\ table.sessions[i].sockfd \in Fd
         /\ \A i, j \in OpenSlots(table) :
               table.sessions[i].sockfd = table.sessions[j].sockfd => i = j
         /\ \A i \in Slot :
               table.sessions[i].b_authenticated <=> i = table.n_authenticated_id
         /\ table.n_authenticated_id >= 0 => table.n_authenticated_id \in OpenSlots(table)
         /\ table.n_authenticated_id \in Slot \cup {-1}
         /\ sockets = OpenFds(table)
         /\ sockets \subseteq Fd
<1>1. /\ Table!TypeOK /\ Table!SocketsTracked /\ Table!OnlyOneAuthenticated
  BY DEF TableInv, Table!SessionInv
<1>2. /\ \A i, j \in OpenSlots(table) :
               table.sessions[i].sockfd = table.sessions[j].sockfd => i = j
      /\ sockets = OpenFds(table)
  BY <1>1, SameTable DEF Table!SocketsTracked
<1>3. /\ \A i \in Slot :
            table.sessions[i].b_authenticated <=> i = table.n_authenticated_id
      /\ table.n_authenticated_id >= 0 => table.n_authenticated_id \in OpenSlots(table)
  BY <1>1, SameTable DEF Table!OnlyOneAuthenticated
<1>4. /\ \A i \in Slot : table.sessions[i].sockfd \in Fd \cup {UNUSED_SOCKET_FD}
      /\ table.n_authenticated_id \in Slot \cup {-1}
      /\ sockets \subseteq Fd
  BY <1>1, SameTable DEF Table!TypeOK, Table!SessionTableType, Table!session_t,
                         Table!NO_SESSION_AUTHENTICATED
<1>. QED
  BY <1>2, <1>3, <1>4 DEF OpenSlots

\* The scan returns a slot that holds the descriptor.
LEMMA FindsHolder ==
  ASSUME NEW fd, SlotsOf(table, fd) # {}
  PROVE  /\ session_find_private(table, fd) \in Slot
         /\ table.sessions[session_find_private(table, fd)].sockfd = fd
BY SameTable, Table!FindReturnsHolder

\* The authenticated connections of the server are the owner that DebugAccess
\* speaks of: there is at most one, and none when a login may complete.
LEMMA AuthenticatedIsOwner ==
  ASSUME TableInv
  PROVE  /\ Owner = Table!ownerClients
         /\ \A fd : Authenticated(fd) <=> fd \in Owner
         /\ \A fd \in Owner : Owner = {fd} /\ fd \in Fd
         /\ \A fd \in Owner : session_lookup_conn_ok(table, fd)
         /\ \A fd : session_auth_complete_ok(table, fd) => Owner = {}
<1>1. Table!ownerClients =
        {table.sessions[i].sockfd :
            i \in {j \in OpenSlots(table) : table.sessions[j].b_authenticated}}
  BY SameTable DEF Table!ownerClients
<1>2. ASSUME NEW fd \in Table!ownerClients
      PROVE  Authenticated(fd) /\ fd \in OpenFds(table) /\ fd \in Fd
  <2>1. PICK i \in OpenSlots(table) :
           table.sessions[i].b_authenticated /\ table.sessions[i].sockfd = fd
    BY <1>1
  <2>2. i \in SlotsOf(table, fd) /\ fd \in Fd /\ fd \in OpenFds(table)
    BY <2>1, TableFacts DEF SlotsOf, OpenFds
  <2>3. session_find_private(table, fd) = i
    <3>1. session_find_private(table, fd) \in OpenSlots(table)
      BY <2>2, FindsHolder DEF OpenSlots
    <3>. QED
      BY <2>1, <2>2, <3>1, FindsHolder, TableFacts
  <2>. QED
    BY <2>1, <2>2, <2>3 DEF Authenticated, session_already_authenticated_ok, session_lookup_conn_ok
<1>3. ASSUME NEW fd, Authenticated(fd)
      PROVE  fd \in Table!ownerClients /\ session_lookup_conn_ok(table, fd)
  <2>1. /\ session_lookup_conn_ok(table, fd) /\ fd \in Fd /\ SlotsOf(table, fd) # {}
        /\ table.sessions[session_find_private(table, fd)].b_authenticated
    BY <1>3 DEF Authenticated, session_already_authenticated_ok, session_lookup_conn_ok
  <2>2. /\ session_find_private(table, fd) \in OpenSlots(table)
        /\ table.sessions[session_find_private(table, fd)].sockfd = fd
    BY <2>1, FindsHolder DEF OpenSlots
  <2>. QED
    BY <2>1, <2>2, <1>1
<1>4. Owner = Table!ownerClients
  BY <1>2, <1>3 DEF Owner
<1>5. ASSUME NEW fd \in Owner, NEW gd \in Owner PROVE fd = gd
  BY <1>1, <1>4, <1>5, TableFacts
<1>6. ASSUME NEW fd, session_auth_complete_ok(table, fd) PROVE Owner = {}
  <2>1. table.n_authenticated_id < 0
    BY <1>6 DEF session_auth_complete_ok
  <2>2. \A i \in OpenSlots(table) : ~ table.sessions[i].b_authenticated
    BY <2>1, TableFacts DEF Slot
  <2>. QED
    BY <1>1, <1>4, <2>2
<1>. QED
  BY <1>2, <1>3, <1>4, <1>5, <1>6

TableStep == [Table!Next]_(Table!vars)

\* The same as an implication, so that it can be primed.
LEMMA OwnerOfTable == TableInv => Owner = Table!ownerClients
BY AuthenticatedIsOwner

\* Steps of the table keep its invariant.
LEMMA TableStepInv == TableInv /\ TableStep => TableInv'
BY Table!NextSessionInv DEF TableInv, TableStep

\* In both states of a step of the table.
LEMMA OwnersOfTable ==
  ASSUME TableInv, TableStep
  PROVE  Owner = Table!ownerClients /\ Owner' = Table!ownerClients'
<1>1. TableInv /\ TableInv'
  BY TableStepInv
<1>2. (TableInv => Owner = Table!ownerClients)'
  BY OwnerOfTable, PTL
<1>. QED
  BY <1>1, <1>2, OwnerOfTable

\* session_close takes the port from this client only.
LEMMA CloseConnStep ==
  ASSUME TableInv, NEW fd \in Fd, session_lookup_conn_ok(table, fd), 
         CloseConn(fd), now' = now
  PROVE  TableStep /\ Owner' = Owner \ {fd}
<1> DEFINE k == session_find_private(table, fd)
<1>1. table.sessions[k].sockfd = fd
  BY FindsHolder DEF session_lookup_conn_ok
<1>2. {table.sessions[i].sockfd : i \in {k}} = {fd}
  BY <1>1
<1>3. Table!CloseSlots({k})
  BY <1>2, SameUpdates DEF Table!CloseSlots, CloseConn
<1>4. Table!Close(fd)
  BY <1>3, SameCalls, SameTable DEF Table!Close
<1>5. TableStep
  BY <1>4 DEF TableStep, Table!Next
<1>6. Table!ownerClients' = Table!ownerClients \ {fd}
  BY <1>4, Table!CloseStep DEF TableInv, Table!Access!Leave
<1>. QED
  BY <1>5, <1>6, OwnersOfTable

\* deinit_asd_state leaves no owner.
LEMMA CloseAllStep ==
  ASSUME TableInv, PollFails
  PROVE  TableStep /\ Owner' = {}
<1>1. Table!CloseAll
  BY SameUpdates, SameTable DEF PollFails, Table!CloseAll, Table!CloseSlots, OpenFds
<1>2. TableStep
  BY <1>1 DEF TableStep, Table!Next
<1>3. Table!ownerClients' = {}
  BY <1>1, Table!CloseAllStep DEF TableInv, Table!Access!Shutdown
<1>. QED
  BY <1>2, <1>3, OwnersOfTable

\* session_close_expired_unauth does not touch the owner.
LEMMA ExpireStep ==
  ASSUME TableInv, Expire
  PROVE  TableStep /\ Owner' = Owner
<1>1. Table!CloseExpired
  BY SameUpdates, SameCalls DEF Expire, Table!CloseExpired, Table!CloseSlots
<1>2. TableStep
  BY <1>1 DEF TableStep, Table!Next
<1>3. Table!ownerClients' = Table!ownerClients
  BY <1>1, Table!CloseExpiredStep DEF TableInv, Table!Access!Expire
<1>. QED
  BY <1>2, <1>3, OwnersOfTable

\* session_open does not touch the owner.
LEMMA OpenStep ==
  ASSUME TableInv, NEW fd \in Fd, process_new_client(fd)
  PROVE  TableStep /\ Owner' = Owner
<1>1. Table!Open(fd)
  BY SameUpdates, SameCalls DEF process_new_client, Table!Open
<1>2. TableStep
  BY <1>1 DEF TableStep, Table!Next
<1>3. Table!ownerClients' = Table!ownerClients
  BY <1>1, Table!OpenStep DEF TableInv, Table!Access!Connect
<1>. QED
  BY <1>2, <1>3, OwnersOfTable

\* session_auth_complete gives a free port to the client.
LEMMA AuthCompleteStep ==
  ASSUME TableInv, NEW fd \in Fd, session_auth_complete_ok(table, fd), 
         table' = session_auth_complete(table, fd), UNCHANGED <<sockets, now>>
  PROVE  TableStep /\ Owner = {} /\ Owner' = {fd}
<1>1. Table!AuthComplete(fd)
  BY SameUpdates, SameCalls DEF Table!AuthComplete
<1>2. TableStep
  BY <1>1 DEF TableStep, Table!Next
<1>3. Table!ownerClients = {} /\ Table!ownerClients' = {fd}
  BY <1>1, Table!AuthCompleteStep DEF TableInv, Table!Access!Grant
<1>. QED
  BY <1>2, <1>3, OwnersOfTable

\* session_set_data_pending does not touch the owner.
LEMMA SetDataPendingStep ==
  ASSUME TableInv, NEW fd \in Fd, session_lookup_conn_ok(table, fd), NEW b \in BOOLEAN,
         table' = session_set_data_pending(table, fd, b), UNCHANGED <<sockets, now>>
  PROVE  TableStep /\ Owner' = Owner
<1>1. Table!SetDataPending(fd, b)
  BY SameUpdates, SameCalls DEF Table!SetDataPending
<1>2. TableStep
  BY <1>1 DEF TableStep, Table!Next
<1>3. Table!ownerClients' = Table!ownerClients
  BY <1>1, Table!QuietStep DEF TableInv
<1>. QED
  BY <1>2, <1>3, OwnersOfTable

\* The clock does not touch the owner.
LEMMA TickStep ==
  ASSUME TableInv, Tick
  PROVE  TableStep /\ Owner' = Owner
<1>1. Table!Tick
  BY DEF Tick, server, Table!Tick
<1>2. TableStep
  BY <1>1 DEF TableStep, Table!Next
<1>3. Table!ownerClients' = Table!ownerClients
  BY <1>1, Table!QuietStep DEF TableInv
<1>. QED
  BY <1>2, <1>3, OwnersOfTable

\* Nor does a step that leaves the table alone.
LEMMA QuietStep ==
  ASSUME TableInv, UNCHANGED <<table, sockets, now>>
  PROVE  TableStep /\ Owner' = Owner
<1>1. TableStep
  BY DEF TableStep, Table!vars
<1>2. Table!ownerClients' = Table!ownerClients
  BY SameTable DEF Table!ownerClients
<1>. QED
  BY <1>1, <1>2, OwnersOfTable

-------------------------------------------------------------------------------
(* The inductive invariant: the invariant of the table, the three          *)
(* properties, and what holds between a handshake and its completion.      *)

\* Between the handshake and session_auth_complete the session of the client is
\* still there, and it is not authenticated.
HandshakePending == pc = "complete" => Unauthenticated(Head(todo))

ServerInv ==
    /\ TableInv
    /\ instance \in BOOLEAN
    /\ NoOrphanContext /\ ContextFollowsOwner /\ ReaderIsOwner /\ HandshakePending

ServerStep == TableStep /\ ServerInv' /\ OwnerLosesStep

\* The daemon starts with an empty table and no context.
LEMMA InitServerInv == Init => Table!Init /\ ServerInv
<1> SUFFICES ASSUME Init PROVE Table!Init /\ ServerInv
  OBVIOUS
<1>1. Table!Init
  BY SameUpdates DEF Init, Table!Init
<1>2. TableInv
  BY <1>1, Table!InitSessionInv DEF TableInv
<1>3. Owner = {}
  BY DEF Init, session_init, Owner, OpenFds, OpenSlots
<1>. QED
  BY <1>1, <1>2, <1>3 DEF Init, ServerInv, NoOrphanContext, ContextFollowsOwner, ReaderIsOwner,
                    HandshakePending

\* A handler that leaves the table and the context alone.
LEMMA PassiveStep ==
  ASSUME ServerInv, UNCHANGED <<table, sockets, asd_msg, instance, now, mode>>,
         \/ pc' \notin {"read", "complete"}
         \/ pc' = pc /\ todo' = todo
  PROVE  ServerStep
<1>1. TableStep /\ Owner' = Owner /\ TableInv'
  BY QuietStep, TableStepInv DEF ServerInv
<1>2. NoOrphanContext' /\ ContextFollowsOwner' /\ OwnerLosesStep
  BY <1>1 DEF ServerInv, NoOrphanContext, ContextFollowsOwner, OwnerLosesStep
<1>3. ReaderIsOwner' /\ HandshakePending'
  BY <1>1 DEF ServerInv, ReaderIsOwner, HandshakePending, Unauthenticated, Authenticated
<1>. QED
  BY <1>1, <1>2, <1>3 DEF ServerInv, ServerStep

\* Clients, target and clock.
LEMMA WorldStep ==
  ASSUME ServerInv, World
  PROVE  ServerStep
<1>1. CASE Tick
  <2>1. TableStep /\ Owner' = Owner /\ TableInv'
    BY <1>1, TickStep, TableStepInv DEF ServerInv
  <2>2. UNCHANGED <<server, mode>>
    BY <1>1 DEF Tick, World
  <2>3. NoOrphanContext' /\ ContextFollowsOwner' /\ OwnerLosesStep
    BY <2>1, <2>2 DEF ServerInv, NoOrphanContext, ContextFollowsOwner, OwnerLosesStep, server
  <2>4. ReaderIsOwner' /\ HandshakePending'
    BY <2>1, <2>2
       DEF ServerInv, ReaderIsOwner, HandshakePending, Unauthenticated, Authenticated, server
  <2>. QED
    BY <2>1, <2>2, <2>3, <2>4 DEF ServerInv, ServerStep, server
<1>2. CASE ~ Tick
  <2>1. UNCHANGED <<server, now, mode>>
    BY <1>2 DEF World, Connect, GpioEvent, HangUp, Send
  <2>. QED
    BY <2>1, PassiveStep DEF server
<1>. QED
  BY <1>1, <1>2

\* The handlers before the clients: poll(), accept, the GPIO events, the expiry.
LEMMA LoopStep ==
  ASSUME ServerInv, UNCHANGED mode,
         \/ Poll \/ AcceptFails \/ GpioHandled
         \/ \E fd \in Fd : process_new_client(fd)
         \/ Expire \/ PollFails
  PROVE  ServerStep
<1>1. CASE Poll \/ AcceptFails \/ GpioHandled
  BY <1>1, PassiveStep DEF Poll, AcceptFails, GpioHandled, world
<1>2. CASE Expire \/ \E fd \in Fd : process_new_client(fd)
  <2>1. TableStep /\ Owner' = Owner /\ TableInv'
    BY <1>2, ExpireStep, OpenStep, TableStepInv DEF ServerInv
  <2>2. UNCHANGED <<asd_msg, instance>> /\ pc' \notin {"read", "complete"}
    BY <1>2 DEF Expire, process_new_client
  <2>. QED
    BY <2>1, <2>2 DEF ServerInv, ServerStep, NoOrphanContext, ContextFollowsOwner,
                      ReaderIsOwner, HandshakePending, OwnerLosesStep
<1>3. CASE PollFails
  <2>1. TableStep /\ Owner' = {} /\ TableInv'
    BY <1>3, CloseAllStep, TableStepInv DEF ServerInv
  <2>2. pc' = "down" /\ asd_msg' = "NULL" /\ instance' = FALSE
    BY <1>3 DEF PollFails, on_client_disconnect, ServerInv, NoOrphanContext
  <2>. QED
    BY <2>1, <2>2 DEF ServerInv, ServerStep, NoOrphanContext, ContextFollowsOwner,
                      ReaderIsOwner, HandshakePending, OwnerLosesStep
<1>. QED
  BY <1>1, <1>2, <1>3

\* A GPIO failure ends the session of the owner, or only its context.
LEMMA CloseConnectionStep ==
  ASSUME ServerInv, UNCHANGED mode,
         NEW freed \in {TRUE, "free_can_fail" \notin mode}, close_connection(freed)
  PROVE  ServerStep
<1>1. /\ pc = "gpio" /\ gpio /\ pc' = "poll"
      /\ asd_msg # "NULL" /\ asd_msg' = "NULL" /\ instance' = FALSE
      /\ now' = now
  BY DEF close_connection, on_client_disconnect
<1>2. PICK fd \in Owner : IF freed THEN CloseConn(fd)
                                   ELSE UNCHANGED <<table, sockets, rx, ssl, eof>>
  BY DEF close_connection
<1>3. Owner = {fd} /\ fd \in Fd /\ session_lookup_conn_ok(table, fd)
  BY AuthenticatedIsOwner DEF ServerInv
<1>4. /\ TableStep
      /\ \/ Owner' = {}
         \/ Owner' = Owner /\ "free_can_fail" \in mode
  <2>1. CASE freed
    BY <2>1, <1>1, <1>2, <1>3, CloseConnStep DEF ServerInv
  <2>2. CASE ~ freed
    BY <2>2, <1>1, <1>2, QuietStep DEF ServerInv
  <2>. QED
    BY <2>1, <2>2
<1>5. TableInv'
  BY <1>4, TableStepInv DEF ServerInv
<1>. QED
  BY <1>1, <1>4, <1>5 DEF ServerInv, ServerStep, NoOrphanContext, ContextFollowsOwner,
                      ReaderIsOwner, HandshakePending, OwnerLosesStep

\* process_client_message up to the handshake.
LEMMA HandshakeStep ==
  ASSUME ServerInv, UNCHANGED mode,
         \/ ClientVanished \/ ClientAuthenticated
         \/ HandshakeNone \/ HandshakeAccepted \/ HandshakeRefused
  PROVE  ServerStep
<1>1. CASE ClientVanished
  BY <1>1, PassiveStep DEF ClientVanished, NextClient, world
<1>2. CASE ClientAuthenticated \/ HandshakeNone \/ HandshakeAccepted
  <2>1. /\ UNCHANGED <<table, sockets, asd_msg, instance, now, todo>>
        /\ pc' \in {"read", "complete"}
        /\ pc' = "read" => Authenticated(Head(todo))
        /\ pc' = "complete" => Unauthenticated(Head(todo))
    BY <1>2 DEF ClientAuthenticated, HandshakeNone, HandshakeAccepted, world
  <2>2. TableStep /\ Owner' = Owner /\ TableInv'
    BY <2>1, QuietStep, TableStepInv DEF ServerInv
  <2>3. ReaderIsOwner'
    BY <2>1, <2>2, AuthenticatedIsOwner DEF ReaderIsOwner, ServerInv
  <2>4. HandshakePending'
    BY <2>1 DEF HandshakePending, Unauthenticated, Authenticated
  <2>5. NoOrphanContext' /\ ContextFollowsOwner' /\ OwnerLosesStep
    BY <2>1, <2>2 DEF ServerInv, NoOrphanContext, ContextFollowsOwner, OwnerLosesStep
  <2>. QED
    BY <2>1, <2>2, <2>3, <2>4, <2>5 DEF ServerStep, ServerInv
<1>3. CASE HandshakeRefused
  <2>1. Unauthenticated(Head(todo)) /\ CloseConn(Head(todo)) /\ UNCHANGED <<now, asd_msg, instance>>
    BY <1>3 DEF HandshakeRefused
  <2>2. TableStep /\ Owner' = Owner \ {Head(todo)} /\ TableInv'
    BY <2>1, CloseConnStep, TableStepInv DEF ServerInv, Unauthenticated, session_lookup_conn_ok
  <2>3. Owner' = Owner
    BY <2>1, <2>2, AuthenticatedIsOwner DEF ServerInv, Unauthenticated
  <2>4. pc' \notin {"read", "complete"}
    BY <1>3 DEF HandshakeRefused, NextClient
  <2>. QED
    BY <2>1, <2>2, <2>3, <2>4 DEF ServerStep, ServerInv, NoOrphanContext, ContextFollowsOwner,
                      ReaderIsOwner, HandshakePending, OwnerLosesStep
<1>. QED
  BY <1>1, <1>2, <1>3

\* ensure_client_authenticated after the handshake.
LEMMA ConnectStep ==
  ASSUME ServerInv, UNCHANGED mode,
         ClientConnected \/ ConnectBusy \/ ConnectFails
  PROVE  ServerStep
<1> DEFINE fd == Head(todo)
<1>1. /\ pc = "complete" /\ Unauthenticated(fd)
      /\ session_lookup_conn_ok(table, fd) /\ fd \in Fd /\ fd \notin Owner
  BY AuthenticatedIsOwner
     DEF ClientConnected, ConnectBusy, ConnectFails, ServerInv, HandshakePending, Unauthenticated,
         session_lookup_conn_ok
<1>2. CASE ClientConnected
  <2>1. TableStep /\ Owner = {} /\ Owner' = {fd} /\ TableInv'
    BY <1>1, <1>2, AuthCompleteStep, TableStepInv DEF ClientConnected, ServerInv, world
  <2>2. todo' = todo /\ pc' = "read" /\ asd_msg' = "fresh" /\ instance' = TRUE
    BY <1>2 DEF ClientConnected
  <2>. QED
    BY <2>1, <2>2 DEF ServerStep, ServerInv, NoOrphanContext, ContextFollowsOwner,
                      ReaderIsOwner, HandshakePending, OwnerLosesStep
<1>3. CASE ConnectBusy \/ ConnectFails
  <2>1. CloseConn(fd) /\ UNCHANGED <<now, instance>> /\ pc' \notin {"read", "complete"}
    BY <1>3 DEF ConnectBusy, ConnectFails, NextClient
  <2>2. TableStep /\ Owner' = Owner \ {fd} /\ TableInv'
    BY <1>1, <2>1, CloseConnStep, TableStepInv DEF ServerInv
  <2>3. asd_msg' = asd_msg
    <3>1. CASE ConnectBusy
      BY <3>1 DEF ConnectBusy
    <3>2. CASE ConnectFails
      BY <3>2, AuthenticatedIsOwner DEF ConnectFails, ServerInv, NoOrphanContext
    <3>. QED
      BY <1>3, <3>1, <3>2
  <2>4. Owner' = Owner
    BY <1>1, <2>2
  <2>. QED
    BY <2>1, <2>2, <2>3, <2>4
       DEF ServerStep, ServerInv, NoOrphanContext, ContextFollowsOwner,
           ReaderIsOwner, HandshakePending, OwnerLosesStep
<1>. QED
  BY <1>2, <1>3

\* asd_msg_read, or the crash where the context is missing.
LEMMA ReadStep ==
  ASSUME ServerInv, UNCHANGED mode,
         \/ ReadWithoutContext \/ ReadFails
         \/ \E kind \in {"ctl", "cmd"} : ReadMessage(kind)
  PROVE  ServerStep
<1> DEFINE fd == Head(todo)
<1>1. pc = "read" /\ Owner = {fd} /\ fd \in Fd /\ session_lookup_conn_ok(table, fd)
  <2>1. pc = "read" /\ Owner = {fd}
    BY DEF ReadWithoutContext, ReadFails, ReadMessage, ServerInv, ReaderIsOwner
  <2>. QED
    BY <2>1, AuthenticatedIsOwner DEF ServerInv
<1>2. CASE ReadWithoutContext
  BY <1>2, PassiveStep DEF ReadWithoutContext, world
<1>3. ASSUME NEW kind \in {"ctl", "cmd"}, ReadMessage(kind) PROVE ServerStep
  <2>1. TableStep /\ Owner' = Owner /\ TableInv'
    BY <1>1, <1>3, SetDataPendingStep, TableStepInv DEF ServerInv, ReadMessage
  <2>2. /\ asd_msg # "NULL" /\ asd_msg' # "NULL" /\ instance' = instance 
        /\ pc' \notin {"read", "complete"}
    BY <1>3 DEF ReadMessage, NextClient
  <2>. QED
    BY <2>1, <2>2 DEF ServerStep, ServerInv, NoOrphanContext, ContextFollowsOwner,
                      ReaderIsOwner, HandshakePending, OwnerLosesStep
<1>4. CASE ReadFails
  <2>1. CloseConn(fd) /\ now' = now /\ pc' \notin {"read", "complete"}
    BY <1>4 DEF ReadFails, NextClient
  <2>2. TableStep /\ Owner' = {} /\ TableInv'
    BY <1>1, <2>1, CloseConnStep, TableStepInv DEF ServerInv
  <2>3. asd_msg # "NULL" /\ asd_msg' = "NULL" /\ instance' = FALSE
    BY <1>4 DEF ReadFails, on_client_disconnect
  <2>. QED
    BY <1>1, <2>1, <2>2, <2>3 DEF ServerStep, ServerInv, NoOrphanContext, ContextFollowsOwner,
                      ReaderIsOwner, HandshakePending, OwnerLosesStep
<1>. QED
  BY <1>2, <1>3, <1>4

\* Every step of the server.
LEMMA NextServerStep ==
  ASSUME ServerInv, [Next]_vars
  PROVE  ServerStep
<1>1. CASE World
  BY <1>1, WorldStep
<1>2. CASE PollFails /\ UNCHANGED mode
  BY <1>2, LoopStep
<1>3. CASE Serve
  <2>1. ASSUME UNCHANGED mode, NEW freed \in {TRUE, "free_can_fail" \notin mode},
               close_connection(freed)
        PROVE  ServerStep
    BY <2>1, CloseConnectionStep
  <2>. QED
    BY <1>3, <2>1, LoopStep, HandshakeStep, ConnectStep, ReadStep DEF Serve
<1>4. CASE UNCHANGED vars
  BY <1>4, PassiveStep DEF vars, server, world
<1>. QED
  BY <1>1, <1>2, <1>3, <1>4 DEF Next

\* The inductive invariant holds in every reachable state.
LEMMA ServerInvariant == Spec => []ServerInv
<1>1. Init => ServerInv
  BY InitServerInv
<1>2. ServerInv /\ [Next]_vars => ServerInv'
  BY NextServerStep DEF ServerStep
<1>. QED
  BY <1>1, <1>2, PTL DEF Spec

\* Whatever the handlers call, in one step or in several, the session table
\* goes through steps of Session only.
THEOREM ServerImplementsSession == Spec => ImplementsSession
<1>1. Init => Sessions!Init
  BY InitServerInv, SameSpec
<1>2. ServerInv /\ [Next]_vars => [Sessions!Next]_(Sessions!vars)
  BY NextServerStep, SameSpec DEF ServerStep, TableStep
<1>. QED
  BY <1>1, <1>2, ServerInvariant, PTL DEF Spec, ImplementsSession, Sessions!Spec

\* The server therefore is a single-owner debug port to its clients.
THEOREM ServerImplementsDebugAccess == Spec => Table!ImplementsDebugAccess
<1>1. Init => Table!Init
  BY InitServerInv
<1>2. ServerInv /\ [Next]_vars => [Table!Next]_(Table!vars)
  BY NextServerStep DEF ServerStep, TableStep
<1>3. Table!Spec => Table!ImplementsDebugAccess
  BY Table!SessionImplementsDebugAccess
<1>. QED
  BY <1>1, <1>2, <1>3, ServerInvariant, PTL DEF Spec, Table!Spec

\* The owner of the debug port loses it only by what it does itself, by a GPIO
\* failure or when the daemon ends.
THEOREM ServerOwnerKeepsPort == Spec => OwnerKeepsPort
<1>1. ServerInv /\ [Next]_vars => [OwnerLosesStep]_vars
  BY NextServerStep DEF ServerStep
<1>. QED
  BY <1>1, ServerInvariant, PTL DEF Spec, OwnerKeepsPort

\* An authenticated client has a message context, unless asd_msg_free fails.
THEOREM ServerContextFollowsOwner == Spec => []ContextFollowsOwner
<1>1. ServerInv => ContextFollowsOwner
  BY DEF ServerInv
<1>. QED
  BY <1>1, ServerInvariant, PTL

\* No context outlives its client, and the static instance follows the context.
THEOREM ServerNoOrphanContext == Spec => []NoOrphanContext
<1>1. ServerInv => NoOrphanContext
  BY DEF ServerInv
<1>. QED
  BY <1>1, ServerInvariant, PTL

\* The connection that is read is the authenticated one.
THEOREM ServerReaderIsOwner == Spec => []ReaderIsOwner
<1>1. ServerInv => ReaderIsOwner
  BY DEF ServerInv
<1>. QED
  BY <1>1, ServerInvariant, PTL

-------------------------------------------------------------------------------
(* Types.                                                                  *)

\* poll() reports descriptors.
LEMMA ReadyFdsType ==
  ASSUME TableInv
  PROVE  ReadyFds \in Seq(Fd)
<1>1. \A i \in Slot : table.sessions[i].sockfd \in Fd \cup {UNUSED_SOCKET_FD}
  BY SameTable DEF TableInv, Table!SessionInv, Table!TypeOK, Table!SessionTableType, Table!session_t
<1>2. \A k \in 1 .. MAX_SESSIONS : k - 1 \in Slot
  BY DEF Slot
<1>3. SlotFds(table) \in Seq(Fd \cup {UNUSED_SOCKET_FD})
  BY <1>1, <1>2 DEF SlotFds
<1>4. OpenFds(table) \subseteq Fd
  BY TableFacts
<1>5. ClientFds(table) \in Seq(Fd)
  BY <1>3, <1>4, SelectedType DEF ClientFds
<1>. QED
  BY <1>5, SelectedType DEF ReadyFds

LoopTypes ==
    /\ asd_msg \in Context \cup {"NULL"} /\ instance \in BOOLEAN
    /\ pc \in {"poll", "accept", "gpio", "expire", "client", "complete", "read",
               "crashed", "down"}
    /\ todo \in Seq(Fd) /\ gpio \in BOOLEAN
    /\ mode \in Modes
    /\ pc \in {"client", "complete", "read"} => todo # << >>

BufferTypes == eof \subseteq Fd /\ rx \in [Fd -> Seq(Record)] /\ ssl \in [Fd -> Seq(Item)]

\* The bound on the backlog holds because connections come out of a budget, and
\* accept() is called only when poll() reported one.
WorldTypes ==
    /\ budget \in [connects : Nat, sends : Int, events : Int]
    /\ backlog \in Nat /\ event \in BOOLEAN
    /\ backlog + budget.connects =< MAX_CONNECTS
    /\ pc = "accept" => backlog > 0

TypeInv == LoopTypes /\ BufferTypes /\ WorldTypes

\* The types hold at the start.
LEMMA InitTypeInv == Init => TypeInv
<1> SUFFICES ASSUME Init PROVE TypeInv
  OBVIOUS
<1>1. << >> \in Seq(Fd) /\ << >> \in Seq(Record) /\ << >> \in Seq(Item)
  OBVIOUS
<1>2. LoopTypes
  BY <1>1 DEF Init, LoopTypes
<1>3. BufferTypes
  BY <1>1 DEF Init, BufferTypes
<1>4. WorldTypes
  <2>1. budget.connects = MAX_CONNECTS /\ budget \in [connects : Nat, sends : Int, events : Int]
    BY DEF Init
  <2>2. backlog = 0 /\ event = FALSE /\ pc = "poll"
    BY DEF Init
  <2>3. backlog + budget.connects =< MAX_CONNECTS
    BY <2>1, <2>2
  <2>. QED
    BY <2>1, <2>2, <2>3 DEF WorldTypes
<1>. QED
  BY <1>2, <1>3, <1>4 DEF TypeInv

\* The loop over the clients goes on with a client or ends.
LEMMA NextClientTypes ==
  ASSUME todo \in Seq(Fd), todo # << >>, NextClient
  PROVE  /\ todo' \in Seq(Fd) /\ Head(todo) \in Fd
         /\ pc' \in {"poll", "client"}
         /\ pc' = "client" => todo' # << >>
<1>1. Head(todo) \in Fd /\ Tail(todo) \in Seq(Fd) /\ Len(todo) \in Nat /\ Len(todo) # 0
  OBVIOUS
<1>2. Len(Tail(todo)) = Len(todo) - 1 /\ Len(<< >>) = 0
  BY <1>1
<1>3. Len(todo) # 1 => Tail(todo) # << >>
  BY <1>1, <1>2
<1>. QED
  BY <1>1, <1>3 DEF NextClient

\* session_close empties the buffers of one connection.
LEMMA CloseConnTypes ==
  ASSUME BufferTypes, NEW fd \in Fd, CloseConn(fd)
  PROVE  BufferTypes'
<1>1. << >> \in Seq(Record) /\ << >> \in Seq(Item)
  OBVIOUS
<1>. QED
  BY <1>1 DEF CloseConn, BufferTypes

\* Clients, target and clock keep the types.
LEMMA WorldTypesStep ==
  ASSUME TypeInv, World
  PROVE  TypeInv'
<1>1. UNCHANGED <<server, mode>>
  BY DEF World, Connect, GpioEvent, Tick, HangUp, Send
<1>2. LoopTypes'
  BY <1>1 DEF TypeInv, LoopTypes, server
<1>3. BufferTypes'
  <2>1. ASSUME NEW fd \in Fd, NEW record \in Record, Send(fd, record) PROVE BufferTypes'
    <3>1. rx[fd] \in Seq(Record)
      BY DEF TypeInv, BufferTypes
    <3>2. Append(rx[fd], record) \in Seq(Record)
      BY <3>1
    <3>. QED
      BY <1>1, <2>1, <3>2 DEF Send, TypeInv, BufferTypes, server
  <2>2. ASSUME NEW fd \in Fd, HangUp(fd) PROVE BufferTypes'
    BY <2>2 DEF HangUp, TypeInv, BufferTypes, server
  <2>3. CASE Connect \/ GpioEvent \/ Tick
    BY <2>3 DEF Connect, GpioEvent, Tick, TypeInv, BufferTypes, server
  <2>. QED
    BY <2>1, <2>2, <2>3 DEF World
<1>4. WorldTypes'
  <2>1. CASE Connect
    <3>1. /\ budget \in [connects : Nat, sends : Int, events : Int]
          /\ budget.connects \in Nat /\ budget.connects > 0
          /\ backlog \in Nat /\ backlog + budget.connects =< MAX_CONNECTS
          /\ budget' = [budget EXCEPT !.connects = budget.connects - 1]
      BY <2>1 DEF Connect, TypeInv, WorldTypes
    <3>2. budget.connects - 1 \in Nat
      BY <3>1
    <3>3. /\ budget' \in [connects : Nat, sends : Int, events : Int]
          /\ budget'.connects = budget.connects - 1
      BY <3>1, <3>2
    <3>4. backlog' = backlog + 1 /\ event' \in BOOLEAN
      BY <2>1 DEF Connect, TypeInv, WorldTypes
    <3>5. /\ backlog' \in Nat /\ backlog' > 0
          /\ backlog' + budget'.connects = backlog + budget.connects
      <4> HIDE SessionTableAssumption, AsdServerAssumption
      <4>. QED
        BY <3>1, <3>3, <3>4
    <3>6. backlog' + budget'.connects =< MAX_CONNECTS
      BY <3>1, <3>5
    <3>. QED
      BY <3>3, <3>4, <3>5, <3>6 DEF WorldTypes
  <2>2. CASE GpioEvent
    BY <2>2, SMTT(30) DEF GpioEvent, TypeInv, WorldTypes, server
  <2>3. CASE Tick
    BY <2>3 DEF Tick, TypeInv, WorldTypes, server
  <2>4. ASSUME NEW fd \in Fd, NEW record \in Record, Send(fd, record) PROVE WorldTypes'
    BY <2>4, SMTT(30) DEF Send, TypeInv, WorldTypes, server
  <2>5. ASSUME NEW fd \in Fd, HangUp(fd) PROVE WorldTypes'
    BY <2>5 DEF HangUp, TypeInv, WorldTypes, server
  <2>. QED
    BY <2>1, <2>2, <2>3, <2>4, <2>5 DEF World
<1>. QED
  BY <1>2, <1>3, <1>4 DEF TypeInv

\* The handlers before the clients keep the types.
LEMMA LoopTypesStep ==
  ASSUME ServerInv, TypeInv, UNCHANGED mode,
         \/ Poll \/ AcceptFails \/ GpioHandled
         \/ \E fd \in Fd : process_new_client(fd)
         \/ Expire \/ PollFails
         \/ \E freed \in {TRUE, "free_can_fail" \notin mode} : close_connection(freed)
  PROVE  TypeInv'
<1>1. << >> \in Seq(Fd) /\ << >> \in Seq(Record) /\ << >> \in Seq(Item)
  OBVIOUS
<1>2. CASE Poll
  <2>1. ReadyFds \in Seq(Fd)
    BY ReadyFdsType DEF ServerInv
  <2>2. LoopTypes'
    BY <1>2, <2>1 DEF Poll, asd_msg_get_fds, TypeInv, LoopTypes, WorldTypes, world
  <2>. QED
    BY <1>2, <2>2 DEF Poll, TypeInv, BufferTypes, WorldTypes, world
<1>3. CASE AcceptFails \/ GpioHandled
  <2>1. LoopTypes' /\ BufferTypes'
    BY <1>3 DEF AcceptFails, GpioHandled, TypeInv, LoopTypes, BufferTypes
  <2>2. WorldTypes'
    <3>1. CASE AcceptFails
      BY <3>1 DEF AcceptFails, TypeInv, WorldTypes
    <3>2. CASE GpioHandled
      BY <3>2 DEF GpioHandled, TypeInv, WorldTypes
    <3>. QED
      BY <1>3, <3>1, <3>2
  <2>. QED
    BY <2>1, <2>2 DEF TypeInv
<1>4. ASSUME NEW fd \in Fd, process_new_client(fd) PROVE TypeInv'
  <2>1. Append(todo, fd) \in Seq(Fd)
    BY DEF TypeInv, LoopTypes
  <2>2. LoopTypes' /\ BufferTypes'
    BY <1>4, <2>1 DEF process_new_client, TypeInv, LoopTypes, BufferTypes
  <2>3. WorldTypes'
    BY <1>4 DEF process_new_client, TypeInv, WorldTypes
  <2>. QED
    BY <2>2, <2>3 DEF TypeInv
<1>5. CASE Expire
  <2>1. LoopTypes'
    BY <1>5 DEF Expire, TypeInv, LoopTypes
  <2>2. BufferTypes'
    BY <1>1, <1>5 DEF Expire, TypeInv, BufferTypes
  <2>3. WorldTypes'
    BY <1>5 DEF Expire, TypeInv, WorldTypes
  <2>. QED
    BY <2>1, <2>2, <2>3 DEF TypeInv
<1>6. CASE PollFails
  <2>1. LoopTypes'
    BY <1>6 DEF PollFails, on_client_disconnect, TypeInv, LoopTypes
  <2>2. BufferTypes'
    BY <1>1, <1>6 DEF PollFails, TypeInv, BufferTypes
  <2>3. WorldTypes'
    BY <1>6 DEF PollFails, TypeInv, WorldTypes
  <2>. QED
    BY <2>1, <2>2, <2>3 DEF TypeInv
<1>7. ASSUME NEW freed \in {TRUE, "free_can_fail" \notin mode}, close_connection(freed)
      PROVE  TypeInv'
  <2>1. LoopTypes'
    BY <1>1, <1>7 DEF close_connection, on_client_disconnect, TypeInv, LoopTypes
  <2>2. BufferTypes'
    <3>1. PICK fd \in Owner : IF freed THEN CloseConn(fd)
                                       ELSE UNCHANGED <<table, sockets, rx, ssl, eof>>
      BY <1>7 DEF close_connection
    <3>2. fd \in Fd
      BY AuthenticatedIsOwner DEF ServerInv
    <3>. QED
      BY <3>1, <3>2, CloseConnTypes DEF TypeInv, BufferTypes
  <2>3. WorldTypes'
    BY <1>7 DEF close_connection, TypeInv, WorldTypes
  <2>. QED
    BY <2>1, <2>2, <2>3 DEF TypeInv
<1>. QED
  BY <1>2, <1>3, <1>4, <1>5, <1>6, <1>7

\* process_client_message keeps the types.
LEMMA ClientTypesStep ==
  ASSUME ServerInv, TypeInv, UNCHANGED mode,
         \/ ClientVanished \/ ClientAuthenticated
         \/ HandshakeNone \/ HandshakeAccepted \/ HandshakeRefused
         \/ ClientConnected \/ ConnectBusy \/ ConnectFails
         \/ ReadWithoutContext \/ ReadFails
         \/ \E kind \in {"ctl", "cmd"} : ReadMessage(kind)
  PROVE  TypeInv'
<1> DEFINE fd == Head(todo)
<1>1. pc \in {"client", "complete", "read"} /\ todo \in Seq(Fd) /\ todo # << >>
  BY DEF TypeInv, LoopTypes, ClientVanished, ClientAuthenticated, HandshakeNone,
         HandshakeAccepted, HandshakeRefused, ClientConnected, ConnectBusy, ConnectFails,
         ReadWithoutContext, ReadFails, ReadMessage
<1>2. fd \in Fd
  BY <1>1
<1> HIDE DEF fd
<1>3. WorldTypes'
  <2>1. UNCHANGED <<budget, backlog, event>> /\ pc' # "accept"
    BY DEF ClientVanished, ClientAuthenticated, HandshakeNone,
           HandshakeAccepted, HandshakeRefused, ClientConnected, ConnectBusy, ConnectFails,
           ReadWithoutContext, ReadFails, ReadMessage, NextClient, world
  <2>. QED
    BY <2>1 DEF TypeInv, WorldTypes
<1>4. LoopTypes'
  <2>1. gpio' = gpio /\ mode' = mode
    BY DEF ClientVanished, ClientAuthenticated, HandshakeNone,
           HandshakeAccepted, HandshakeRefused, ClientConnected, ConnectBusy, ConnectFails,
           ReadWithoutContext, ReadFails, ReadMessage
  <2>2. asd_msg' \in Context \cup {"NULL"} /\ instance' \in BOOLEAN
    BY DEF ClientVanished, ClientAuthenticated, HandshakeNone,
           HandshakeAccepted, HandshakeRefused, ClientConnected, ConnectBusy, ConnectFails,
           ReadWithoutContext, ReadFails, ReadMessage, on_client_disconnect, Context,
           TypeInv, LoopTypes
  <2>3. CASE NextClient
    BY <1>1, <2>1, <2>2, <2>3, NextClientTypes DEF TypeInv, LoopTypes
  <2>4. CASE ~ NextClient
    <3>1. todo' = todo /\ pc' \in {"complete", "read", "crashed"}
      BY <2>4 DEF ClientVanished, ClientAuthenticated, HandshakeNone,
           HandshakeAccepted, HandshakeRefused, ClientConnected, ConnectBusy, ConnectFails,
           ReadWithoutContext, ReadFails, ReadMessage
    <3>. QED
      BY <1>1, <2>1, <2>2, <3>1 DEF TypeInv, LoopTypes
  <2>. QED
    BY <2>3, <2>4
<1>5. BufferTypes'
  <2>1. CASE UNCHANGED <<eof, rx, ssl>>
    BY <2>1 DEF TypeInv, BufferTypes
  <2>2. CASE CloseConn(fd)
    BY <1>2, <2>2, CloseConnTypes DEF TypeInv
  <2>3. CASE HandshakeAccepted
    <3>1. rx[fd] \in Seq(Record) /\ rx[fd] # << >> /\ rx' = [rx EXCEPT ![fd] = Tail(@)]
          /\ UNCHANGED <<eof, ssl>>
      BY <1>2, <2>3 DEF HandshakeAccepted, TypeInv, BufferTypes, fd
    <3>2. Tail(rx[fd]) \in Seq(Record)
      BY <3>1
    <3>. QED
      BY <3>1, <3>2 DEF TypeInv, BufferTypes
  <2>4. ASSUME NEW kind \in {"ctl", "cmd"}, ReadMessage(kind) PROVE BufferTypes'
    <3>1. /\ Input(fd) # << >>
          /\ ssl' = [ssl EXCEPT ![fd] = Tail(Input(fd))]
          /\ rx' = IF ssl[fd] = << >> THEN [rx EXCEPT ![fd] = Tail(@)] ELSE rx
          /\ eof' = eof
      BY <2>4 DEF ReadMessage, fd
    <3>2. ssl[fd] \in Seq(Item) /\ rx[fd] \in Seq(Record)
      BY <1>2 DEF TypeInv, BufferTypes
    <3>3. rx[fd] # << >> => Head(rx[fd]) \in Record
      BY <3>2
    <3>4. rx[fd] # << >> => Head(rx[fd]) \in Seq(Item)
      BY <3>3
    <3>5. Input(fd) \in Seq(Item)
      BY <3>1, <3>2, <3>4 DEF Input
    <3>6. Tail(Input(fd)) \in Seq(Item)
      BY <3>1, <3>5
    <3>7. ssl[fd] = << >> => rx[fd] # << >>
      BY <3>1 DEF Input
    <3>8. ssl[fd] = << >> => Tail(rx[fd]) \in Seq(Record)
      BY <3>2, <3>7
    <3>9. ssl' \in [Fd -> Seq(Item)]
      BY <3>1, <3>6 DEF TypeInv, BufferTypes
    <3>10. rx' \in [Fd -> Seq(Record)]
      BY <3>1, <3>8 DEF TypeInv, BufferTypes
    <3>. QED
      BY <3>1, <3>9, <3>10 DEF TypeInv, BufferTypes
  <2>. QED
    BY <2>1, <2>2, <2>3, <2>4
       DEF ClientVanished, ClientAuthenticated, HandshakeNone, HandshakeRefused,
           ClientConnected, ConnectBusy, ConnectFails, ReadWithoutContext, ReadFails, world, fd
<1>. QED
  BY <1>3, <1>4, <1>5 DEF TypeInv

\* Every step keeps the types.
LEMMA NextTypeInv == ServerInv /\ TypeInv /\ [Next]_vars => TypeInv'
<1> SUFFICES ASSUME ServerInv, TypeInv, [Next]_vars PROVE TypeInv'
  OBVIOUS
<1>1. CASE World
  BY <1>1, WorldTypesStep
<1>2. CASE PollFails /\ UNCHANGED mode
  BY <1>2, LoopTypesStep
<1>3. CASE Serve
  BY <1>3, LoopTypesStep, ClientTypesStep DEF Serve
<1>4. CASE UNCHANGED vars
  BY <1>4 DEF vars, server, world, TypeInv, LoopTypes, BufferTypes, WorldTypes
<1>. QED
  BY <1>1, <1>2, <1>3, <1>4 DEF Next

\* The server keeps its state well typed.
THEOREM ServerTypeOK == Spec => []TypeOK
<1>1. ServerInv /\ TypeInv => TypeOK
  <2> SUFFICES ASSUME ServerInv, TypeInv PROVE TypeOK
    OBVIOUS
  <2>1. table \in SessionTableType /\ sockets \subseteq Fd /\ now \in 0 .. MAX_TIME
    BY SameTable
       DEF ServerInv, TableInv, Table!SessionInv, Table!TypeOK,
           Table!SessionTableType, SessionTableType, Table!session_t, session_t,
           Table!NO_SESSION_AUTHENTICATED, NO_SESSION_AUTHENTICATED
  <2>2. backlog \in 0 .. MAX_CONNECTS
    BY DEF TypeInv, WorldTypes
  <2>. QED
    BY <2>1, <2>2 DEF TypeOK, TypeInv, LoopTypes, BufferTypes, WorldTypes
<1>2. Init => TypeInv
  BY InitTypeInv
<1>. QED
  BY <1>1, <1>2, NextTypeInv, ServerInvariant, PTL DEF Spec
===============================================================================
