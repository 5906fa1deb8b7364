----------------------------- MODULE SessionProofs ----------------------------
(***************************************************************************)
(* Proofs about the session table, for every number of slots, every set of *)
(* descriptors, every timeout and every bound on the clock.                *)
(***************************************************************************)
EXTENDS Session, WellFoundedInduction, TLAPS

USE SessionTableAssumption, MaxTimeAssumption

\* A non-empty set of natural numbers has a least element.
LEMMA LeastNat ==
  ASSUME NEW T, T \subseteq Nat, T # {}
  PROVE  \E i \in T : \A j \in T : i =< j
<1>1. PICK i \in T : \A j \in T : ~ (<<j, i>> \in OpToRel(<, Nat))
  BY NatLessThanWellFounded, WFMin
<1>2. \A j \in T : ~ (j < i)
  BY <1>1 DEF OpToRel
<1>. QED
  BY <1>2

\* session_find_private returns a slot that holds the descriptor when one does.
LEMMA FindReturnsHolder ==
  ASSUME NEW t, NEW fd, SlotsOf(t, fd) # {}
  PROVE  /\ session_find_private(t, fd) \in Slot
         /\ t.sessions[session_find_private(t, fd)].sockfd = fd
<1>1. SlotsOf(t, fd) \subseteq Nat
  BY DEF SlotsOf, Slot
<1>2. \E i \in SlotsOf(t, fd) : \A j \in SlotsOf(t, fd) : i =< j
  BY <1>1, LeastNat
<1>3. session_find_private(t, fd) \in SlotsOf(t, fd)
  BY <1>2 DEF session_find_private
<1>. QED
  BY <1>3 DEF SlotsOf

-------------------------------------------------------------------------------
(* What each operation leaves in the table, slot by slot.                  *)

\* session_open fills the first free slot and leaves the others alone.
LEMMA OpenEffect ==
  ASSUME NEW t \in SessionTableType, NEW fd \in Fd, NEW n \in Nat,
         session_open_ok(t)
  PROVE  LET u == session_open(t, fd, n)
             k == session_find_private(t, UNUSED_SOCKET_FD)
         IN  /\ u \in SessionTableType
             /\ k \in Slot
             /\ t.sessions[k].sockfd = UNUSED_SOCKET_FD
             /\ u.n_authenticated_id = t.n_authenticated_id
             /\ \A i \in Slot : i # k => u.sessions[i] = t.sessions[i]
             /\ u.sessions[k].sockfd = fd
             /\ u.sessions[k].t_auth_tout = SESSION_AUTH_EXPIRE_TIMEOUT + n
             /\ ~ u.sessions[k].b_authenticated
<1> DEFINE u == session_open(t, fd, n)
           k == session_find_private(t, UNUSED_SOCKET_FD)
<1>1. k \in Slot /\ t.sessions[k].sockfd = UNUSED_SOCKET_FD
  BY FindReturnsHolder DEF session_open_ok
<1> DEFINE s == [t.sessions[k] EXCEPT !.sockfd          = fd,
                                      !.t_auth_tout     = SESSION_AUTH_EXPIRE_TIMEOUT + n,
                                      !.b_authenticated = FALSE]
<1>2. u = [t EXCEPT !.sessions = [t.sessions EXCEPT ![k] = s]]
  BY DEF session_open, SessionTableType
<1>3. t.sessions[k] \in session_t
  BY <1>1 DEF SessionTableType
<1>4. /\ s.sockfd = fd
      /\ s.t_auth_tout = SESSION_AUTH_EXPIRE_TIMEOUT + n
      /\ ~ s.b_authenticated
  BY <1>3 DEF session_t
<1>5. SESSION_AUTH_EXPIRE_TIMEOUT + n \in Nat
  OBVIOUS
<1>6. s \in session_t
  BY <1>3, <1>5 DEF session_t
<1> HIDE DEF s, k
<1>. QED
  BY <1>1, <1>2, <1>4, <1>6 DEF SessionTableType, k

\* session_close frees the slots and, with the owner's, the port.
LEMMA CloseEffect ==
  ASSUME NEW t \in SessionTableType, NEW slots \in SUBSET Slot
  PROVE  LET u == session_close_private(t, slots)
         IN  /\ u \in SessionTableType
             /\ u.n_authenticated_id = IF t.n_authenticated_id \in slots
                                       THEN NO_SESSION_AUTHENTICATED
                                       ELSE t.n_authenticated_id
             /\ \A i \in Slot \ slots : u.sessions[i] = t.sessions[i]
             /\ \A i \in slots : /\ u.sessions[i].sockfd = UNUSED_SOCKET_FD
                                 /\ u.sessions[i].t_auth_tout = 0
                                 /\ ~ u.sessions[i].b_authenticated
<1> DEFINE c(s) == [s EXCEPT !.sockfd          = UNUSED_SOCKET_FD,
                             !.t_auth_tout     = 0,
                             !.b_authenticated = FALSE]
<1>1. \A s \in session_t : /\ c(s) \in session_t
                           /\ c(s).sockfd = UNUSED_SOCKET_FD
                           /\ c(s).t_auth_tout = 0
                           /\ ~ c(s).b_authenticated
  BY DEF session_t
<1>2. session_close_private(t, slots) =
        [sessions |-> [i \in Slot |-> IF i \in slots THEN c(t.sessions[i])
                                                     ELSE t.sessions[i]],
         n_authenticated_id |-> IF t.n_authenticated_id \in slots
                                THEN NO_SESSION_AUTHENTICATED
                                ELSE t.n_authenticated_id]
  BY DEF session_close_private
<1> HIDE DEF c
<1>. QED
  BY <1>1, <1>2 DEF SessionTableType

\* session_auth_complete makes one session the owner.
LEMMA AuthCompleteEffect ==
  ASSUME NEW t \in SessionTableType, NEW fd \in Fd,
         session_auth_complete_ok(t, fd)
  PROVE  LET u == session_auth_complete(t, fd)
             k == session_find_private(t, fd)
         IN  /\ u \in SessionTableType
             /\ k \in Slot
             /\ t.sessions[k].sockfd = fd
             /\ u.n_authenticated_id = k
             /\ \A i \in Slot : i # k => u.sessions[i] = t.sessions[i]
             /\ u.sessions[k].sockfd = fd
             /\ u.sessions[k].t_auth_tout = t.sessions[k].t_auth_tout
             /\ u.sessions[k].b_authenticated
<1> DEFINE u == session_auth_complete(t, fd)
           k == session_find_private(t, fd)
           s == [t.sessions[k] EXCEPT !.b_authenticated = TRUE]
<1>1. k \in Slot /\ t.sessions[k].sockfd = fd
  BY FindReturnsHolder DEF session_auth_complete_ok
<1> DEFINE a == [t.sessions EXCEPT ![k] = s]
<1>2. u = [t EXCEPT !.n_authenticated_id = k, !.sessions = a]
  BY DEF session_auth_complete, SessionTableType
<1>3. /\ s \in session_t
      /\ s.sockfd = fd
      /\ s.t_auth_tout = t.sessions[k].t_auth_tout
      /\ s.b_authenticated
  BY <1>1 DEF SessionTableType, session_t
<1> HIDE DEF s, k, u
<1>4. /\ a \in [Slot -> session_t]
      /\ a[k] = s
      /\ \A i \in Slot : i # k => a[i] = t.sessions[i]
  BY <1>1, <1>3 DEF SessionTableType
<1> HIDE DEF a
<1>5. /\ u.n_authenticated_id = k
      /\ u.sessions = a
      /\ u \in SessionTableType
  BY <1>1, <1>2, <1>4 DEF SessionTableType
<1>. QED
  BY <1>1, <1>3, <1>4, <1>5 DEF k, u

\* session_set_data_pending changes one flag of one session.
LEMMA SetDataPendingEffect ==
  ASSUME NEW t \in SessionTableType, NEW fd \in Fd, NEW b \in BOOLEAN,
         session_lookup_conn_ok(t, fd)
  PROVE  LET u == session_set_data_pending(t, fd, b)
         IN  /\ u \in SessionTableType
             /\ u.n_authenticated_id = t.n_authenticated_id
             /\ \A i \in Slot :
                   /\ u.sessions[i].sockfd = t.sessions[i].sockfd
                   /\ u.sessions[i].t_auth_tout = t.sessions[i].t_auth_tout
                   /\ u.sessions[i].b_authenticated = t.sessions[i].b_authenticated
<1> DEFINE u == session_set_data_pending(t, fd, b)
           k == session_find_private(t, fd)
           s == [t.sessions[k] EXCEPT !.b_data_pending = b]
<1>1. k \in Slot
  BY FindReturnsHolder DEF session_lookup_conn_ok
<1>2. u = [t EXCEPT !.sessions = [t.sessions EXCEPT ![k] = s]]
  BY DEF session_set_data_pending, SessionTableType
<1>3. /\ s \in session_t
      /\ s.sockfd = t.sessions[k].sockfd
      /\ s.t_auth_tout = t.sessions[k].t_auth_tout
      /\ s.b_authenticated = t.sessions[k].b_authenticated
  BY <1>1 DEF SessionTableType, session_t
<1> HIDE DEF s, k
<1>. QED
  BY <1>1, <1>2, <1>3 DEF SessionTableType

-------------------------------------------------------------------------------
(* The inductive invariant: the four invariants together. Uniqueness of    *)
(* descriptors needs the types, the agreement of flag and id needs that a  *)
(* free slot carries no flag, and the deadlines need both.                 *)

SessionInv ==
    TypeOK /\ OnlyOneAuthenticated /\ SocketsTracked /\ DeadlinesFollowOccupancy

\* session_init leaves a table as it should be.
LEMMA InitSessionInv == Init => SessionInv
<1>. SUFFICES ASSUME Init PROVE SessionInv
  OBVIOUS
<1>1. TypeOK
  BY DEF Init, session_init, TypeOK, SessionTableType, session_t
<1>2. OnlyOneAuthenticated
  BY DEF Init, session_init, OnlyOneAuthenticated, NO_SESSION_AUTHENTICATED, Slot
<1>3. SocketsTracked /\ DeadlinesFollowOccupancy
  BY DEF Init, session_init, SocketsTracked, DeadlinesFollowOccupancy, OpenSlots, OpenFds
<1>. QED
  BY <1>1, <1>2, <1>3 DEF SessionInv

\* session_open keeps it so: the slot was free and no one's socket is taken.
LEMMA OpenInv ==
  ASSUME SessionInv, NEW fd \in Fd, Open(fd)
  PROVE  SessionInv'
<1> DEFINE k == session_find_private(table, UNUSED_SOCKET_FD)
<1> USE DEF SessionInv
<1>1. now \in Nat /\ table \in SessionTableType
  BY DEF TypeOK
<1>2. /\ table' \in SessionTableType
      /\ k \in Slot
      /\ table.sessions[k].sockfd = UNUSED_SOCKET_FD
      /\ table'.n_authenticated_id = table.n_authenticated_id
      /\ \A i \in Slot : i # k => table'.sessions[i] = table.sessions[i]
      /\ table'.sessions[k].sockfd = fd
      /\ table'.sessions[k].t_auth_tout = SESSION_AUTH_EXPIRE_TIMEOUT + now
      /\ ~ table'.sessions[k].b_authenticated
  BY <1>1, OpenEffect DEF Open
<1>3. now' = now /\ fd \notin sockets /\ sockets' = sockets \cup {fd}
  BY DEF Open
<1> HIDE DEF k
<1>4. TypeOK'
  BY <1>2, <1>3 DEF TypeOK
<1>5. k \notin OpenSlots(table) /\ table'.sessions[k].sockfd # UNUSED_SOCKET_FD
  BY <1>2 DEF OpenSlots
<1>6. OpenSlots(table)' = OpenSlots(table) \cup {k}
  BY <1>2, <1>5 DEF OpenSlots
<1>7. OnlyOneAuthenticated'
  BY <1>2, <1>5, <1>6 DEF OnlyOneAuthenticated, DeadlinesFollowOccupancy
<1>8. SocketsTracked'
  <2>1. \A i \in OpenSlots(table) : i \in Slot /\ i # k
    BY <1>5 DEF OpenSlots
  <2>2. \A i \in OpenSlots(table) : table'.sessions[i] = table.sessions[i]
    BY <1>2, <2>1
  <2>3. OpenFds(table)' = OpenFds(table) \cup {fd}
    BY <1>2, <1>6, <2>2 DEF OpenFds
  <2>4. \A i \in OpenSlots(table) : table.sessions[i].sockfd # fd
    BY <1>3 DEF SocketsTracked, OpenFds
  <2>5. \A i, j \in OpenSlots(table)' :
          table'.sessions[i].sockfd = table'.sessions[j].sockfd => i = j
    BY <1>2, <1>6, <2>2, <2>4 DEF SocketsTracked
  <2>. QED
    BY <1>3, <2>3, <2>5 DEF SocketsTracked
<1>9. DeadlinesFollowOccupancy'
  BY <1>1, <1>2, <1>3, <1>6 DEF DeadlinesFollowOccupancy
<1>. QED
  BY <1>4, <1>7, <1>8, <1>9

\* Every way of closing sessions closes a set of slots in one step.
LEMMA CloseSlotsInv ==
  ASSUME SessionInv, NEW slots \in SUBSET OpenSlots(table), CloseSlots(slots)
  PROVE  SessionInv'
<1> USE DEF SessionInv
<1>1. /\ now \in Nat /\ now' = now
      /\ table \in SessionTableType
      /\ slots \subseteq Slot
      /\ sockets' = sockets \ {table.sessions[i].sockfd : i \in slots}
  BY DEF TypeOK, OpenSlots, CloseSlots
<1>2. /\ table' \in SessionTableType
      /\ table'.n_authenticated_id = IF table.n_authenticated_id \in slots
                                     THEN NO_SESSION_AUTHENTICATED
                                     ELSE table.n_authenticated_id
      /\ \A i \in Slot \ slots : table'.sessions[i] = table.sessions[i]
      /\ \A i \in slots : /\ table'.sessions[i].sockfd = UNUSED_SOCKET_FD
                          /\ table'.sessions[i].t_auth_tout = 0
                          /\ ~ table'.sessions[i].b_authenticated
  BY <1>1, CloseEffect DEF CloseSlots
<1>3. TypeOK'
  BY <1>1, <1>2 DEF TypeOK
<1>4. OpenSlots(table)' = OpenSlots(table) \ slots
  BY <1>2 DEF OpenSlots
<1>5. OnlyOneAuthenticated'
  BY <1>2, <1>4 DEF OnlyOneAuthenticated, NO_SESSION_AUTHENTICATED, Slot
<1>6. SocketsTracked'
  <2>1. \A i \in OpenSlots(table) \ slots : table'.sessions[i] = table.sessions[i]
    BY <1>2 DEF OpenSlots
  <2>2. \A i \in OpenSlots(table) \ slots, j \in slots :
          table.sessions[i].sockfd # table.sessions[j].sockfd
    BY DEF SocketsTracked
  <2>3. sockets' = {table.sessions[i].sockfd : i \in OpenSlots(table) \ slots}
    BY <1>1, <2>2 DEF SocketsTracked, OpenFds
  <2>4. OpenFds(table)' = {table'.sessions[i].sockfd : i \in OpenSlots(table) \ slots}
    BY <1>4 DEF OpenFds
  <2>. QED
    BY <1>4, <2>1, <2>3, <2>4 DEF SocketsTracked
<1>7. DeadlinesFollowOccupancy'
  BY <1>1, <1>2, <1>4 DEF DeadlinesFollowOccupancy
<1>. QED
  BY <1>3, <1>5, <1>6, <1>7

\* The set of slots each closing action closes.
LEMMA CloseIsCloseSlots ==
  ASSUME \/ \E fd \in Fd : Close(fd)
         \/ CloseAll
         \/ CloseExpired
  PROVE  \E slots \in SUBSET OpenSlots(table) : CloseSlots(slots)
<1>1. ASSUME NEW fd \in Fd, Close(fd)
      PROVE  {session_find_private(table, fd)} \subseteq OpenSlots(table)
  BY <1>1, FindReturnsHolder DEF Close, session_lookup_conn_ok, OpenSlots
<1>2. ASSUME NEW fd \in Fd, Close(fd)
      PROVE  \E slots \in SUBSET OpenSlots(table) : CloseSlots(slots)
  BY <1>1, <1>2 DEF Close
<1>3. CASE CloseAll
  BY <1>3 DEF CloseAll
<1>4. CASE CloseExpired
  <2>1. ExpiredSlots(table, now) \in SUBSET OpenSlots(table)
    BY DEF ExpiredSlots
  <2>. QED
    BY <1>4, <2>1 DEF CloseExpired
<1>. QED
  BY <1>2, <1>3, <1>4

\* session_auth_complete keeps it: nobody was authenticated before.
LEMMA AuthCompleteInv ==
  ASSUME SessionInv, NEW fd \in Fd, AuthComplete(fd)
  PROVE  SessionInv'
<1> DEFINE k == session_find_private(table, fd)
<1> USE DEF SessionInv
<1>1. now \in Nat /\ table \in SessionTableType
  BY DEF TypeOK
<1>2. /\ table' \in SessionTableType
      /\ k \in Slot
      /\ table.sessions[k].sockfd = fd
      /\ table'.n_authenticated_id = k
      /\ \A i \in Slot : i # k => table'.sessions[i] = table.sessions[i]
      /\ table'.sessions[k].sockfd = fd
      /\ table'.sessions[k].t_auth_tout = table.sessions[k].t_auth_tout
      /\ table'.sessions[k].b_authenticated
  BY <1>1, AuthCompleteEffect DEF AuthComplete
<1>3. now' = now /\ sockets' = sockets /\ table.n_authenticated_id < 0
  BY DEF AuthComplete, session_auth_complete_ok
<1> HIDE DEF k
<1>4. TypeOK'
  BY <1>2, <1>3 DEF TypeOK
<1>5. k \in OpenSlots(table) /\ OpenSlots(table)' = OpenSlots(table)
  BY <1>2 DEF OpenSlots
<1>6. \A i \in Slot : ~ table.sessions[i].b_authenticated
  BY <1>3 DEF OnlyOneAuthenticated, Slot
<1>7. OnlyOneAuthenticated'
  BY <1>2, <1>5, <1>6 DEF OnlyOneAuthenticated
<1>8. SocketsTracked'
  <2>1. \A i \in OpenSlots(table) : table'.sessions[i].sockfd = table.sessions[i].sockfd
    BY <1>2 DEF OpenSlots
  <2>. QED
    BY <1>3, <1>5, <2>1 DEF SocketsTracked, OpenFds
<1>9. DeadlinesFollowOccupancy'
  BY <1>1, <1>2, <1>3, <1>5 DEF DeadlinesFollowOccupancy
<1>. QED
  BY <1>4, <1>7, <1>8, <1>9

\* session_set_data_pending touches neither owner, socket nor deadline.
LEMMA SetDataPendingInv ==
  ASSUME SessionInv, NEW fd \in Fd, NEW b \in BOOLEAN, SetDataPending(fd, b)
  PROVE  SessionInv'
<1> USE DEF SessionInv
<1>1. /\ table' \in SessionTableType
      /\ table'.n_authenticated_id = table.n_authenticated_id
      /\ \A i \in Slot :
            /\ table'.sessions[i].sockfd = table.sessions[i].sockfd
            /\ table'.sessions[i].t_auth_tout = table.sessions[i].t_auth_tout
            /\ table'.sessions[i].b_authenticated = table.sessions[i].b_authenticated
  BY SetDataPendingEffect DEF SetDataPending, TypeOK
<1>2. now' = now /\ sockets' = sockets
  BY DEF SetDataPending
<1>3. OpenSlots(table)' = OpenSlots(table)
  BY <1>1 DEF OpenSlots
<1>4. TypeOK' /\ OnlyOneAuthenticated'
  BY <1>1, <1>2, <1>3 DEF TypeOK, OnlyOneAuthenticated
<1>5. SocketsTracked'
  <2>1. \A i \in OpenSlots(table) : table'.sessions[i].sockfd = table.sessions[i].sockfd
    BY <1>1 DEF OpenSlots
  <2>. QED
    BY <1>2, <1>3, <2>1 DEF SocketsTracked, OpenFds
<1>6. DeadlinesFollowOccupancy'
  BY <1>1, <1>2, <1>3 DEF DeadlinesFollowOccupancy, OpenSlots
<1>. QED
  BY <1>4, <1>5, <1>6

\* The passing of time changes no session.
LEMMA TickInv ==
  ASSUME SessionInv, Tick
  PROVE  SessionInv'
<1> USE DEF SessionInv
<1>1. table' = table /\ sockets' = sockets /\ now' = now + 1 /\ now \in Nat /\ now' \in 0 .. MAX_TIME
  BY DEF Tick, TypeOK
<1>2. TypeOK' /\ OnlyOneAuthenticated' /\ SocketsTracked'
  BY <1>1 DEF TypeOK, OnlyOneAuthenticated, SocketsTracked, OpenSlots, OpenFds
<1>3. \A i \in Slot : table.sessions[i].t_auth_tout \in Nat
  BY DEF TypeOK, SessionTableType, session_t
<1>4. DeadlinesFollowOccupancy'
  BY <1>1, <1>3 DEF DeadlinesFollowOccupancy, OpenSlots
<1>. QED
  BY <1>2, <1>4

\* Every step keeps it.
LEMMA NextSessionInv == SessionInv /\ [Next]_vars => SessionInv'
<1>. SUFFICES ASSUME SessionInv, [Next]_vars PROVE SessionInv'
  OBVIOUS
<1>1. ASSUME NEW fd \in Fd, Open(fd) PROVE SessionInv'
  BY <1>1, OpenInv
<1>2. CASE (\E fd \in Fd : Close(fd)) \/ CloseAll \/ CloseExpired
  BY <1>2, CloseIsCloseSlots, CloseSlotsInv
<1>5. ASSUME NEW fd \in Fd, AuthComplete(fd) PROVE SessionInv'
  BY <1>5, AuthCompleteInv
<1>6. ASSUME NEW fd \in Fd, NEW b \in BOOLEAN, SetDataPending(fd, b) PROVE SessionInv'
  BY <1>6, SetDataPendingInv
<1>7. CASE Tick
  BY <1>7, TickInv
<1>8. CASE UNCHANGED vars
  BY <1>8 DEF SessionInv, TypeOK, OnlyOneAuthenticated, SocketsTracked,
              DeadlinesFollowOccupancy, OpenSlots, OpenFds, vars
<1>. QED
  BY <1>1, <1>2, <1>5, <1>6, <1>7, <1>8 DEF Next

\* The inductive invariant holds in every reachable state.
LEMMA SessionInvariant == Spec => []SessionInv
BY InitSessionInv, NextSessionInv, PTL DEF Spec

\* session.c keeps its table well typed.
THEOREM SessionTypeOK == Spec => []TypeOK
<1>1. SessionInv => TypeOK
  BY DEF SessionInv
<1>. QED
  BY <1>1, SessionInvariant, PTL

\* Only one session is authenticated at a time, and flag and id agree.
THEOREM SessionOnlyOneAuthenticated == Spec => []OnlyOneAuthenticated
<1>1. SessionInv => OnlyOneAuthenticated
  BY DEF SessionInv
<1>. QED
  BY <1>1, SessionInvariant, PTL

\* No two open slots hold the same descriptor.
THEOREM SessionSocketsTracked == Spec => []SocketsTracked
<1>1. SessionInv => SocketsTracked
  BY DEF SessionInv
<1>. QED
  BY <1>1, SessionInvariant, PTL

\* Open slots have a deadline, free slots have neither deadline nor flag.
THEOREM SessionDeadlines == Spec => []DeadlinesFollowOccupancy
<1>1. SessionInv => DeadlinesFollowOccupancy
  BY DEF SessionInv
<1>. QED
  BY <1>1, SessionInvariant, PTL

-------------------------------------------------------------------------------
(* The action property and the refinement are proved together: each action *)
(* is a step of DebugAccess and an OwnershipStep.                          *)

\* session_open is the arrival of one client.
LEMMA OpenStep ==
  ASSUME SessionInv, NEW fd \in Fd, Open(fd)
  PROVE  OwnershipStep /\ Access!Connect(fd)
<1> DEFINE k == session_find_private(table, UNUSED_SOCKET_FD)
<1>1. /\ k \in Slot
      /\ table.sessions[k].sockfd = UNUSED_SOCKET_FD
      /\ table'.n_authenticated_id = table.n_authenticated_id
      /\ \A i \in Slot : i # k => table'.sessions[i] = table.sessions[i]
      /\ table'.sessions[k].sockfd = fd
      /\ ~ table'.sessions[k].b_authenticated
  BY OpenEffect DEF Open, SessionInv, TypeOK
<1>2. fd \notin OpenFds(table) /\ fd # UNUSED_SOCKET_FD
  BY DEF Open, SessionInv, SocketsTracked
<1> HIDE DEF k
<1>3. waitingClients' = waitingClients \cup {fd}
  BY <1>1, <1>2 DEF waitingClients, OpenSlots
<1>4. ownerClients' = ownerClients
  BY <1>1, <1>2 DEF ownerClients, OpenSlots
<1>5. fd \notin waitingClients \cup ownerClients
  BY <1>2 DEF waitingClients, ownerClients, OpenFds
<1>6. OwnershipStep
  BY <1>1 DEF OwnershipStep
<1>. QED
  BY <1>3, <1>4, <1>5, <1>6 DEF Access!Connect

\* What is left after closing a set of slots.
LEMMA CloseSlotsStep ==
  ASSUME SessionInv, NEW slots \in SUBSET OpenSlots(table), CloseSlots(slots)
  PROVE  /\ OwnershipStep
         /\ OpenSlots(table)' = OpenSlots(table) \ slots
         /\ \A i \in OpenSlots(table) \ slots : table'.sessions[i] = table.sessions[i]
<1>1. /\ table'.n_authenticated_id = IF table.n_authenticated_id \in slots
                                     THEN NO_SESSION_AUTHENTICATED
                                     ELSE table.n_authenticated_id
      /\ \A i \in Slot \ slots : table'.sessions[i] = table.sessions[i]
      /\ \A i \in slots : table'.sessions[i].sockfd = UNUSED_SOCKET_FD
  BY CloseEffect DEF SessionInv, TypeOK, CloseSlots, OpenSlots
<1>2. ASSUME NEW i \in Slot, i = table.n_authenticated_id,
             table.sessions[i].sockfd = table'.sessions[i].sockfd
      PROVE  i \notin slots
  <2>1. i >= 0
    BY DEF Slot
  <2>2. table.sessions[i].sockfd # UNUSED_SOCKET_FD
    BY <1>2, <2>1 DEF SessionInv, OnlyOneAuthenticated, OpenSlots
  <2>. QED
    BY <1>1, <1>2, <2>2
<1>3. OwnershipStep
  BY <1>1, <1>2 DEF OwnershipStep
<1>4. OpenSlots(table)' = OpenSlots(table) \ slots
  BY <1>1 DEF OpenSlots
<1>5. \A i \in OpenSlots(table) \ slots : table'.sessions[i] = table.sessions[i]
  BY <1>1 DEF OpenSlots
<1>. QED
  BY <1>3, <1>4, <1>5

\* session_close is the departure of one client.
LEMMA CloseStep ==
  ASSUME SessionInv, NEW fd \in Fd, Close(fd)
  PROVE  OwnershipStep /\ Access!Leave(fd)
<1> DEFINE k == session_find_private(table, fd)
<1>1. /\ k \in OpenSlots(table)
      /\ table.sessions[k].sockfd = fd
      /\ CloseSlots({k})
  BY FindReturnsHolder DEF Close, session_lookup_conn_ok, OpenSlots
<1> HIDE DEF k
<1>2. /\ OwnershipStep
      /\ OpenSlots(table)' = OpenSlots(table) \ {k}
      /\ \A i \in OpenSlots(table) \ {k} : table'.sessions[i] = table.sessions[i]
  BY <1>1, CloseSlotsStep
<1>3. \A i \in OpenSlots(table) \ {k} : table.sessions[i].sockfd # fd
  BY <1>1 DEF SessionInv, SocketsTracked
<1>4. waitingClients' = waitingClients \ {fd}
  BY <1>1, <1>2, <1>3 DEF waitingClients
<1>5. ownerClients' = ownerClients \ {fd}
  BY <1>1, <1>2, <1>3 DEF ownerClients
<1>. QED
  BY <1>2, <1>4, <1>5 DEF Access!Leave

\* session_close_all is the end of all of them.
LEMMA CloseAllStep ==
  ASSUME SessionInv, CloseAll
  PROVE  OwnershipStep /\ Access!Shutdown
<1>1. OwnershipStep /\ OpenSlots(table)' = {}
  BY CloseSlotsStep DEF CloseAll
<1>. QED
  BY <1>1 DEF Access!Shutdown, waitingClients, ownerClients

\* session_close_expired_unauth sends away clients that wait, never the owner.
LEMMA CloseExpiredStep ==
  ASSUME SessionInv, CloseExpired
  PROVE  OwnershipStep /\ Access!Expire
<1> DEFINE gone == ExpiredSlots(table, now)
<1>1. gone \in SUBSET OpenSlots(table) /\ CloseSlots(gone)
  BY DEF CloseExpired, ExpiredSlots
<1>2. \A i \in gone : ~ table.sessions[i].b_authenticated
  BY DEF ExpiredSlots
<1> HIDE DEF gone
<1>3. /\ OwnershipStep
      /\ OpenSlots(table)' = OpenSlots(table) \ gone
      /\ \A i \in OpenSlots(table) \ gone : table'.sessions[i] = table.sessions[i]
  BY <1>1, CloseSlotsStep
<1>4. waitingClients' \subseteq waitingClients
  BY <1>3 DEF waitingClients
<1>5. ownerClients' = ownerClients
  BY <1>2, <1>3 DEF ownerClients
<1>6. waitingClients' = waitingClients \ (waitingClients \ waitingClients')
  BY <1>4
<1>. QED
  BY <1>3, <1>5, <1>6 DEF Access!Expire

\* session_auth_complete gives a free port to one client.
LEMMA AuthCompleteStep ==
  ASSUME SessionInv, NEW fd \in Fd, AuthComplete(fd)
  PROVE  OwnershipStep /\ Access!Grant(fd)
<1> DEFINE k == session_find_private(table, fd)
<1>1. /\ k \in Slot
      /\ table.sessions[k].sockfd = fd
      /\ table'.n_authenticated_id = k
      /\ \A i \in Slot : i # k => table'.sessions[i] = table.sessions[i]
      /\ table'.sessions[k].sockfd = fd
      /\ table'.sessions[k].b_authenticated
  BY AuthCompleteEffect DEF AuthComplete, SessionInv, TypeOK
<1>2. table.n_authenticated_id < 0 /\ fd # UNUSED_SOCKET_FD
  BY DEF AuthComplete, session_auth_complete_ok
<1> HIDE DEF k
<1>3. \A i \in Slot : ~ table.sessions[i].b_authenticated
  BY <1>2 DEF SessionInv, OnlyOneAuthenticated, Slot
<1>4. k \in OpenSlots(table) /\ OpenSlots(table)' = OpenSlots(table)
  BY <1>1, <1>2 DEF OpenSlots
<1>5. ownerClients = {} /\ ownerClients' = {fd}
  BY <1>1, <1>3, <1>4 DEF ownerClients, OpenSlots
<1>6. fd \in waitingClients
  BY <1>1, <1>3, <1>4 DEF waitingClients
<1>7. \A i \in OpenSlots(table) : i # k => table.sessions[i].sockfd # fd
  BY <1>1, <1>4 DEF SessionInv, SocketsTracked
<1>8. waitingClients' = waitingClients \ {fd}
  BY <1>1, <1>3, <1>4, <1>7 DEF waitingClients, OpenSlots
<1>9. OwnershipStep
  <2>1. /\ ~ (table.n_authenticated_id >= 0)
        /\ \A i \in Slot : i # table.n_authenticated_id
    BY <1>2 DEF SessionInv, TypeOK, SessionTableType, Slot, NO_SESSION_AUTHENTICATED
  <2>. QED
    BY <2>1 DEF OwnershipStep
<1>. QED
  BY <1>5, <1>6, <1>8, <1>9 DEF Access!Grant

\* Time, and what changes no session, are not seen from outside.
LEMMA QuietStep ==
  ASSUME SessionInv,
         \/ Tick
         \/ UNCHANGED vars
         \/ \E fd \in Fd, b \in BOOLEAN : SetDataPending(fd, b)
  PROVE  OwnershipStep /\ UNCHANGED <<waitingClients, ownerClients>>
<1>1. /\ table'.n_authenticated_id = table.n_authenticated_id
      /\ \A i \in Slot :
            /\ table'.sessions[i].sockfd = table.sessions[i].sockfd
            /\ table'.sessions[i].b_authenticated = table.sessions[i].b_authenticated
  <2>1. ASSUME NEW fd \in Fd, NEW b \in BOOLEAN, SetDataPending(fd, b)
        PROVE  <1>1
    BY <2>1, SetDataPendingEffect DEF SetDataPending, SessionInv, TypeOK
  <2>2. CASE Tick \/ UNCHANGED vars
    BY <2>2 DEF Tick, vars
  <2>. QED
    BY <2>1, <2>2
<1>2. OwnershipStep
  BY <1>1 DEF OwnershipStep
<1>3. OpenSlots(table)' = OpenSlots(table)
  BY <1>1 DEF OpenSlots
<1>4. waitingClients' = waitingClients
  BY <1>1 DEF waitingClients, OpenSlots
<1>5. ownerClients' = ownerClients
  BY <1>1 DEF ownerClients, OpenSlots
<1>. QED
  BY <1>2, <1>4, <1>5

\* Every step of the table is one of the port it promises, or none.
LEMMA StepsImplement ==
  SessionInv /\ [Next]_vars => OwnershipStep /\ [Access!Next]_(Access!vars)
<1>. SUFFICES ASSUME SessionInv, [Next]_vars
              PROVE  OwnershipStep /\ [Access!Next]_(Access!vars)
  OBVIOUS
<1>1. ASSUME NEW fd \in Fd, Open(fd) PROVE OwnershipStep /\ Access!Next
  BY <1>1, OpenStep DEF Access!Next
<1>2. ASSUME NEW fd \in Fd, AuthComplete(fd) PROVE OwnershipStep /\ Access!Next
  BY <1>2, AuthCompleteStep DEF Access!Next
<1>3. CASE \/ Tick
           \/ UNCHANGED vars
           \/ \E fd \in Fd, b \in BOOLEAN : SetDataPending(fd, b)
  BY <1>3, QuietStep DEF Access!vars
<1>4. ASSUME NEW fd \in Fd, Close(fd) PROVE OwnershipStep /\ Access!Next
  BY <1>4, CloseStep DEF Access!Next
<1>5. CASE CloseAll
  BY <1>5, CloseAllStep DEF Access!Next
<1>6. CASE CloseExpired
  BY <1>6, CloseExpiredStep DEF Access!Next
<1>. QED
  BY <1>1, <1>2, <1>3, <1>4, <1>5, <1>6 DEF Next

\* Debug access never passes directly between clients, and only closing its
\* own connection ends a client's authentication.
THEOREM SessionOwnership == Spec => OwnershipIsExclusive
<1>1. SessionInv /\ [Next]_vars => [OwnershipStep]_vars
  BY StepsImplement
<1>. QED
  BY <1>1, SessionInvariant, PTL DEF Spec, OwnershipIsExclusive

\* session.c implements the single-owner debug port.
THEOREM SessionImplementsDebugAccess == Spec => ImplementsDebugAccess
<1>1. Init => Access!Init
  BY DEF Init, session_init, Access!Init, waitingClients, ownerClients, OpenSlots
<1>2. SessionInv /\ [Next]_vars => [Access!Next]_(Access!vars)
  BY StepsImplement
<1>. QED
  BY <1>1, <1>2, SessionInvariant, PTL DEF Spec, ImplementsDebugAccess, Access!Spec
===============================================================================
